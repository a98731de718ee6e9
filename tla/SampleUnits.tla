----------------------------- MODULE SampleUnits ----------------------------
(* The commit units the store's two model-checking instances submit: two   *)
(* agents, one of them activated twice, its first activation also retried  *)
(* from its old and from its new version; ids are also creation times.     *)
EXTENDS RuntimeStore

CONSTANTS a1, a2

Message(n, from, to) ==
  [id |-> n, from |-> from, to |-> to, prio |-> 0, at |-> n, origin |-> n]

Arrived(n, to, prio, due) ==
  [id |-> n, to |-> {to}, prio |-> prio, due |-> due, made |-> n, cause |-> n]

Unit(activation, agent, expected, n, to, prio) ==
  [activation |-> activation, agent |-> agent, expected |-> expected,
   state |-> [version |-> expected + 1, cursor |-> NoMessage],
   messages |-> {Message(n, agent, to), Message(n + 1, agent, agent)},
   events |-> {Arrived(n, to, prio, n % 2), Arrived(n + 1, agent, 0, 1)}]

MCUnits == {
  Unit(1, a1, 0, 10, a2, 0),     \* the first activation of a1
  Unit(1, a1, 0, 20, a2, 1),     \* its retry, computed from the same state
  Unit(1, a1, 1, 30, a2, 0),     \* its retry, computed from a newer state
  Unit(2, a1, 1, 40, a2, 1),     \* the second activation of a1
  Unit(3, a2, 0, 50, a1, 2),     \* the first activation of a2
  Unit(4, a2, 0, 60, a1, 0)}     \* a stale one

MCAgents == {a1, a2}
=============================================================================
