------------------------------ MODULE MCEngine ------------------------------
(* Instances of Engine: two spokes that report to a hub, as the operators  *)
(* of the storm scenario report to its coordinator.                        *)
EXTENDS Engine

CONSTANTS hub, s1, s2, stranger

MCAgents == {hub, s1, s2}

Post(to, prio) == [to |-> to, prio |-> prio]
Mail(to, prio) == [to |-> to, prio |-> prio, named |-> TRUE]
Anonymous(to, prio) == [to |-> to, prio |-> prio, named |-> FALSE]
Propose(send, emits, acts) == [send |-> send, emits |-> emits, acts |-> acts]

ByRole(ofHub, ofSpoke) == [a \in MCAgents |-> IF a = hub THEN ofHub ELSE ofSpoke]

(* One priority: the spokes report, once or twice, the hub asks both or    *)
(* lets the exchange end.                                                  *)
UniformEmissions == {<<Post({s1, s2}, 0)>>}
UniformReplies == ByRole(
  {Propose(<<Mail(s1, 0), Mail(s2, 0)>>, <<>>, TRUE), Propose(<<>>, <<>>, FALSE)},
  {Propose(<<Mail(hub, 0)>>, <<>>, FALSE),
   Propose(<<Mail(hub, 0), Mail(hub, 0)>>, <<>>, FALSE)})

(* Two priorities, an event for everybody and one for nobody known, an     *)
(* unknown recipient, a message without origin, an event from a backend.   *)
MixedEmissions ==
  {<<Post({}, 0)>>, <<Post({s1}, 0), Post({s1, s2}, 1), Post({stranger}, 1)>>}
MixedReplies == ByRole(
  {Propose(<<Mail(s1, 1)>>, <<>>, FALSE), Propose(<<>>, <<Post({s1}, 1)>>, TRUE)},
  {Propose(<<Mail(hub, 0), Mail(stranger, 1)>>, <<>>, FALSE),
   Propose(<<Anonymous(hub, 1)>>, <<>>, TRUE)})

(* Reports of two priorities, more than the hub's inbox holds at once.     *)
UrgentReplies == ByRole(
  {Propose(<<>>, <<>>, FALSE)},
  {Propose(<<Mail(hub, 0)>>, <<>>, FALSE),
   Propose(<<Mail(hub, 1), Mail(hub, 1)>>, <<>>, FALSE)})
=============================================================================
