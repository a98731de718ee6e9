----------------------------- MODULE CausalTrace ----------------------------
(***************************************************************************)
(* What observability/causal_verifier.py and kernel_invariants.py compute  *)
(* from the agent_step records of a run, all but the cycle search, which   *)
(* is a machine of its own (CausalVerifier).  A trace is a sequence of     *)
(* records [activation, agent, parents, sent, read, written], as Engine    *)
(* keeps them: parents are the messages read, sent the messages produced.  *)
(***************************************************************************)
EXTENDS Integers, Sequences, FiniteSets, FiniteSetsExt

Unwritten == -1    \* commit_version_written = None

(* edges' keys: the activations, however many records each has.            *)
Nodes(t) == {t[i].activation : i \in DOMAIN t}

Produced(t) == UNION {t[i].sent : i \in DOMAIN t}

-----------------------------------------------------------------------------
(* _check_duplicates: activations with several records, messages with      *)
(* several producers.                                                      *)
Duplicates(t) ==
  [activations |-> {t[i].activation : i \in
     {j \in DOMAIN t : \E k \in DOMAIN t \ {j} : t[k].activation = t[j].activation}},
   messages |-> UNION {t[p[1]].sent \cap t[p[2]].sent :
     p \in {q \in (DOMAIN t) \X (DOMAIN t) : q[1] # q[2]}}]

(* Mutant: only what an earlier record produced counts as produced.        *)
MissingWhenRead(t) ==
  {t[i].activation : i \in
     {j \in DOMAIN t : ~ t[j].parents \subseteq Produced(SubSeq(t, 1, j - 1))}}

(* _check_missing_parents: who read a message that no record produced.     *)
MissingParents(t) ==
  {t[i].activation : i \in {j \in DOMAIN t : ~ t[j].parents \subseteq Produced(t)}}

Commits(t) == {i \in DOMAIN t : t[i].written # Unwritten}

(* Mutant: the written version is not compared with the read one.          *)
SharedReads(t) ==
  {t[i].activation : i \in {j \in Commits(t) :
     \E k \in Commits(t) : k < j /\ t[k].agent = t[j].agent /\ t[k].read = t[j].read}}

(* _check_stale_read_or_conflict: a version read twice by one agent, or a  *)
(* version written that is not the next one.  Records without a version    *)
(* are passed over.                                                        *)
StaleOrConflict(t) ==
  {t[i].activation : i \in {j \in Commits(t) :
     \/ \E k \in Commits(t) : k < j /\ t[k].agent = t[j].agent /\ t[k].read = t[j].read
     \/ t[j].written # t[j].read + 1}}

-----------------------------------------------------------------------------
(* build_message_edges: of several producers of a message the last counts; *)
(* a message without one makes no edge.                                    *)
LastSends(t, i, msg) ==
  msg \in t[i].sent /\ \A j \in DOMAIN t : msg \in t[j].sent => j <= i

(* Mutant: a parent is named by its position, as if no id were repeated.    *)
EdgesByPosition(t) ==
  [n \in Nodes(t) |-> {i \in DOMAIN t : \E j \in DOMAIN t :
     t[j].activation = n /\ \E msg \in t[j].parents : LastSends(t, i, msg)}]

Edges(t) ==
  [n \in Nodes(t) |-> {p \in Nodes(t) : \E i, j \in DOMAIN t :
     /\ t[j].activation = n /\ t[i].activation = p
     /\ \E msg \in t[j].parents : LastSends(t, i, msg)}]

(* The entries of one activation's list in edges: one per message read, so *)
(* that two messages of one producer are two entries.                      *)
Entries(t, n) ==
  {e \in (DOMAIN t) \X Produced(t) : t[e[1]].activation = n /\ e[2] \in t[e[1]].parents}

(* Largest member, or 0: max(..., default=0).                              *)
MaxOrZero(S) == IF S = {} THEN 0 ELSE Max(S)

(* depth(): for an acyclic graph only; the code has no guard either.       *)
MaxDepth(t) ==
  LET edges == Edges(t)
      depth[n \in Nodes(t)] ==
        IF edges[n] = {} THEN 0 ELSE 1 + Max({depth[p] : p \in edges[n]})
  IN MaxOrZero({depth[n] : n \in Nodes(t)})

(* Mutant: only the node itself, not its whole class, moves to the parent. *)
UnionNode(find, edge) == [find EXCEPT ![edge[1]] = find[edge[2]]]

(* union(node, parent): the root of one class is hung under the other's.   *)
UnionClasses(find, edge) ==
  [n \in DOMAIN find |-> IF find[n] = find[edge[1]] THEN find[edge[2]] ELSE find[n]]

ComponentCount(t) ==
  LET edges == Edges(t)
      pairs == UNION {{n} \X edges[n] : n \in Nodes(t)}
      find == FoldSet(LAMBDA edge, f : UnionClasses(f, edge),
                      [n \in Nodes(t) |-> n], pairs)
  IN Cardinality({find[n] : n \in Nodes(t)})

(* graph_metrics                                                           *)
GraphMetrics(t) ==
  [node_count |-> Cardinality(Nodes(t)),
   edge_count |-> MapThenSumSet(LAMBDA n : Cardinality(Entries(t, n)), Nodes(t)),
   max_depth |-> MaxDepth(t),
   component_count |-> ComponentCount(t),
   max_in_degree |-> MaxOrZero({Cardinality(Entries(t, n)) : n \in Nodes(t)})]
=============================================================================
