--------------------------- MODULE CausalVerifier ---------------------------
(***************************************************************************)
(* verify (observability/causal_verifier.py) over one trace, with the      *)
(* depth-first search of _check_cycles call by call, and graph_metrics for *)
(* the traces it accepts, as run_kernel_benchmarks uses the two.           *)
(*                                                                         *)
(* The search tries the nodes in trace order and the parents of a node in  *)
(* any order.  dfs returns True through all its callers at once and leaves *)
(* what it was visiting in visiting, where later searches will find it.    *)
(***************************************************************************)
EXTENDS CausalTrace

CONSTANT Traces    \* the traces verify may be given

(* Traces are sequences; a version that was read is an integer.            *)
ASSUME TracesAssumption ==
  \A t \in Traces :
    /\ Len(t) \in Nat /\ DOMAIN t = 1 .. Len(t)
    /\ \A i \in Commits(t) : t[i].read \in Int

VARIABLES
  trace,     \* steps
  edges,     \* build_message_edges(steps)
  index,     \* the position in steps of the next node to try
  stack,     \* the running calls of dfs: [node, rest], rest still to visit
  visiting,
  visited,
  cyclic,    \* the nodes reported with a "cycle"
  verdict    \* "checking", "rejected", "accepted"

vars == <<trace, edges, index, stack, visiting, visited, cyclic, verdict>>

Init ==
  /\ trace \in Traces
  /\ edges = Edges(trace)
  /\ index = 1 /\ stack = <<>>
  /\ visiting = {} /\ visited = {} /\ cyclic = {}
  /\ verdict = "checking"

-----------------------------------------------------------------------------
Node == trace[index].activation
Top == stack[Len(stack)]

Push(n) == Append(stack, [node |-> n, rest |-> edges[n]])

(* One parent of the innermost call is dealt with.                         *)
Drop(p) ==
  [stack EXCEPT ![Len(stack)] = [node |-> Top.node, rest |-> Top.rest \ {p}]]

(* The node is a key of the dict already iterated over, or was visited.    *)
Passed ==
  \/ Node \in visited
  \/ \E i \in 1 .. index - 1 : trace[i].activation = Node

SkipNode ==
  /\ verdict = "checking" /\ stack = <<>> /\ index <= Len(trace)
  /\ Passed
  /\ index' = index + 1
  /\ UNCHANGED <<trace, edges, stack, visiting, visited, cyclic, verdict>>

(* dfs(node) finds the node itself in visiting, left there by an earlier   *)
(* search that found a cycle.                                              *)
FindLeftover ==
  /\ verdict = "checking" /\ stack = <<>> /\ index <= Len(trace)
  /\ ~ Passed /\ Node \in visiting
  /\ cyclic' = cyclic \cup {Node}
  /\ index' = index + 1
  /\ UNCHANGED <<trace, edges, stack, visiting, visited, verdict>>

StartSearch ==
  /\ verdict = "checking" /\ stack = <<>> /\ index <= Len(trace)
  /\ ~ Passed /\ Node \notin visiting
  /\ stack' = Push(Node)
  /\ visiting' = visiting \cup {Node}
  /\ index' = index + 1
  /\ UNCHANGED <<trace, edges, visited, cyclic, verdict>>

(* The parent was visited: dfs(parent) returns False at once.              *)
PassParent(p) ==
  /\ stack # <<>> /\ p \in Top.rest
  /\ p \notin visiting /\ p \in visited
  /\ stack' = Drop(p)
  /\ UNCHANGED <<trace, edges, index, visiting, visited, cyclic, verdict>>

VisitParent(p) ==
  /\ stack # <<>> /\ p \in Top.rest
  /\ p \notin visiting \cup visited
  /\ stack' = Append(Drop(p), [node |-> p, rest |-> edges[p]])
  /\ visiting' = visiting \cup {p}
  /\ UNCHANGED <<trace, edges, index, visited, cyclic, verdict>>

(* Mutant: the nodes of the abandoned calls are taken out of visiting.     *)
FindCycleAndForget(p) ==
  /\ stack # <<>> /\ p \in Top.rest /\ p \in visiting
  /\ cyclic' = cyclic \cup {stack[1].node}
  /\ visiting' = visiting \ {stack[i].node : i \in DOMAIN stack}
  /\ visited' = visited \cup {stack[i].node : i \in DOMAIN stack}
  /\ stack' = <<>>
  /\ UNCHANGED <<trace, edges, index, verdict>>

(* The parent is being visited, by this search or by an abandoned one: all *)
(* calls return True, and the node the search began with is reported.      *)
FindCycle(p) ==
  /\ stack # <<>> /\ p \in Top.rest /\ p \in visiting
  /\ cyclic' = cyclic \cup {stack[1].node}
  /\ stack' = <<>>
  /\ UNCHANGED <<trace, edges, index, visiting, visited, verdict>>

(* Mutant: the call returns without marking its node visited.              *)
ReturnUnmarked ==
  /\ stack # <<>> /\ Top.rest = {}
  /\ visiting' = visiting \ {Top.node}
  /\ stack' = SubSeq(stack, 1, Len(stack) - 1)
  /\ UNCHANGED <<trace, edges, index, visited, cyclic, verdict>>

ReturnFalse ==
  /\ stack # <<>> /\ Top.rest = {}
  /\ visiting' = visiting \ {Top.node}
  /\ visited' = visited \cup {Top.node}
  /\ stack' = SubSeq(stack, 1, Len(stack) - 1)
  /\ UNCHANGED <<trace, edges, index, cyclic, verdict>>

(* verify returns: no check has found anything, or some has.               *)
NoViolation ==
  /\ Duplicates(trace) = [activations |-> {}, messages |-> {}]
  /\ MissingParents(trace) = {}
  /\ cyclic = {}
  /\ StaleOrConflict(trace) = {}

ReturnVerdict ==
  /\ verdict = "checking" /\ stack = <<>> /\ index > Len(trace)
  /\ verdict' = IF NoViolation THEN "accepted" ELSE "rejected"
  /\ UNCHANGED <<trace, edges, index, stack, visiting, visited, cyclic>>

Done == verdict # "checking" /\ UNCHANGED vars

Next ==
  \/ SkipNode \/ FindLeftover \/ StartSearch
  \/ \E p \in Nodes(trace) : PassParent(p) \/ VisitParent(p) \/ FindCycle(p)
  \/ ReturnFalse \/ ReturnVerdict \/ Done

Spec == Init /\ [][Next]_vars
-----------------------------------------------------------------------------
(* Type correctness of the search.                                         *)
VerifierTypeOK ==
  /\ edges \in [Nodes(trace) -> SUBSET Nodes(trace)]
  /\ index \in 1 .. Len(trace) + 1
  /\ stack \in Seq([node : Nodes(trace), rest : SUBSET Nodes(trace)])
  /\ visiting \subseteq Nodes(trace) /\ visited \subseteq Nodes(trace)
  /\ cyclic \subseteq Nodes(trace)
  /\ verdict \in {"checking", "rejected", "accepted"}

(* A set of nodes each of which has a parent in the set: whoever is in one *)
(* can follow parents for ever.                                            *)
Unfounded(S) == \A n \in S : edges[n] \cap S # {}

(* The search reports exactly the nodes from which the parents lead into a *)
(* cycle, each of them and whichever search ran into the cycle first, even *)
(* though it never cleans up after one it has found.                       *)
CyclesExact ==
  verdict # "checking" =>
    \A n \in Nodes(trace) :
      n \in cyclic <=> \E S \in SUBSET Nodes(trace) : n \in S /\ Unfounded(S)

(* dfs is recursive, and Python's recursion is limited; on a trace whose   *)
(* messages are read after they were sent, which every run writes, it      *)
(* never recurses, however long the run.                                   *)
InOrder ==
  \A i, j \in DOMAIN trace : trace[j].activation \in edges[trace[i].activation] => j < i

InOrderNeedsNoStack == InOrder => Len(stack) <= 1

(* Without repeated ids, nothing is missing and nothing cyclic exactly if  *)
(* the steps can be put in an order in which every message is sent before  *)
(* it is read: the verifier accepts no run that could not have happened    *)
(* and rejects none that could.                                            *)
Replayable ==
  \E place \in Bijection(DOMAIN trace, DOMAIN trace) :
    \A j \in DOMAIN trace : \A msg \in trace[j].parents :
      \E i \in DOMAIN trace : msg \in trace[i].sent /\ place[i] < place[j]

AcceptedIffReplayable ==
  verdict # "checking" /\ Duplicates(trace) = [activations |-> {}, messages |-> {}] =>
    ((MissingParents(trace) = {} /\ cyclic = {}) <=> Replayable)

(* The versions of an accepted trace do not fork: what one agent read and  *)
(* wrote, taken as edges from version to version, is a set of disjoint     *)
(* ascending chains.                                                       *)
NoForkedHistory ==
  verdict = "accepted" =>
    \A i, j \in Commits(trace) :
      i # j /\ trace[i].agent = trace[j].agent =>
        /\ trace[i].read # trace[j].read /\ trace[i].written # trace[j].written
        /\ trace[i].read < trace[j].read => trace[i].written <= trace[j].read

-----------------------------------------------------------------------------
(* Reference definitions of what graph_metrics computes.                   *)
Paths(k) ==
  {p \in [1 .. k -> Nodes(trace)] : \A i \in 1 .. k - 1 : p[i + 1] \in edges[p[i]]}

Adjacent(n, p) == n \in edges[p] \/ p \in edges[n]

Closed(S) == S # {} /\ \A n \in S, p \in Nodes(trace) : Adjacent(n, p) => p \in S

Islands == {S \in SUBSET Nodes(trace) :
              Closed(S) /\ \A R \in SUBSET S : Closed(R) => R = S}

(* For an accepted trace the union-find counts the connected components,   *)
(* and the recursion finds the longest chain of messages.                  *)
MetricsExact ==
  verdict = "accepted" =>
    LET k == GraphMetrics(trace).max_depth
    IN
    /\ GraphMetrics(trace).component_count = Cardinality(Islands)
    /\ trace # <<>> => Paths(k + 1) # {} /\ Paths(k + 2) = {}
=============================================================================
