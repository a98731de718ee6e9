----------------------------- MODULE MCVerifier -----------------------------
(* Instances of CausalVerifier: every graph over a few records, and small  *)
(* malformed traces.                                                       *)
EXTENDS CausalVerifier

(* Record i sends message i and continues the version chain of one agent.  *)
Record(i, activation, parents) ==
  [activation |-> activation, agent |-> 1, parents |-> parents, sent |-> {i},
   read |-> i - 1, written |-> i]

(* Every graph of three nodes, every graph of four without self-loops, and *)
(* every graph whose first and third record are of one activation.         *)
Graphs3 == {[i \in 1 .. 3 |-> Record(i, i, g[i])] : g \in [1 .. 3 -> SUBSET (1 .. 3)]}

Graphs4 ==
  {[i \in 1 .. 4 |-> Record(i, i, {((i + k - 1) % 4) + 1 : k \in g[i]})] :
     g \in [1 .. 4 -> SUBSET (1 .. 3)]}

Repeated ==
  {[i \in 1 .. 3 |-> Record(i, <<1, 2, 1>>[i], g[i])] :
     g \in [1 .. 3 -> SUBSET (1 .. 3)]}

(* Two records with one or two activations, messages never or twice        *)
(* produced, versions read twice, skipped or not written.                  *)
Loose(activations) ==
  [activation : activations, agent : {1}, parents : {{}, {1}, {2}},
   sent : {{}, {1}, {1, 2}}, read : {0, 1}, written : {Unwritten, 1, 2}]

MCTraces ==
  Graphs3 \cup Graphs4 \cup Repeated \cup
  {<<r, s>> : r \in Loose({1}), s \in Loose({1, 2})} \cup {<<>>}
=============================================================================
