----------------------- MODULE SyntheticKernel_proofs -----------------------
(***************************************************************************)
(* Theorems about the runs of the synthetic kernel, and through them about *)
(* what verify finds in the trace of any run of the engine: nothing.  A    *)
(* kernel run is a run of Engine (KernelRunsTheEngine), so that Engine's   *)
(* invariants hold of it; DistinctInv adds what verify's first and last    *)
(* checks are about, that no two records share an activation or a message  *)
(* and that each writes the version after the one it read.                 *)
(*                                                                         *)
(* The topologies are graded (Graded): every hop leads to the next level.  *)
(* KernelInv says that a run climbs them, one level in each step, whatever *)
(* the order of executions and commits.  From it follow the values of the  *)
(* shared variables (LastWriterWins) and, with the numbers of nodes, edges *)
(* and components of the topologies (HandDerived), the gate of the         *)
(* benchmark (ShapesAsDerived).                                            *)
(***************************************************************************)
EXTENDS SyntheticKernel, Engine_proofs, CausalTrace_proofs

DistinctInv ==
  /\ \A i \in DOMAIN trace :
       IsCommitted(trace[i].activation) /\ trace[i].written = trace[i].read + 1
  /\ \A i, j \in DOMAIN trace : i # j =>
       /\ trace[i].activation # trace[j].activation
       /\ trace[i].sent \cap trace[j].sent = {}

LEMMA DistinctStep ==
  ASSUME IInv, IInv', CausallyClosed, DistinctInv, [Next]_vars
  PROVE  DistinctInv'
<1>1. CASE UNCHANGED <<committed, trace>>
  BY <1>1 DEF DistinctInv, IsCommitted
<1>2. CASE \E res \in results : CommitResult(res)
  <2>1. PICK res \in results : CommitResult(res)
    BY <1>2
  <2>2. PICK req \in requests :
          /\ Fresh(req)
          /\ committed' = committed \cup
               {[activation |-> req.activation, written |-> res.state.version]}
          /\ trace' = Append(trace, Step(req, res))
    BY <2>1, CommitEffect
  <2> DEFINE n == Len(trace)
             t == Step(req, res)
  <2>3. /\ t.activation = req.activation /\ t.written = t.read + 1
        /\ t.sent \subseteq {m.id : m \in res.messages}
    BY DEF Step, Deliverable
  <2>4. EngineTypeOK /\ EngineTypeOK'
    BY DEF IInv
  <2> HIDE DEF t
  <2>5. /\ DOMAIN trace' = DOMAIN trace \cup {n + 1}
        /\ \A i \in DOMAIN trace : trace'[i] = trace[i]
        /\ trace'[n + 1] = t
    BY <2>2, <2>4, TraceGrows DEF t
  <2> HIDE DEF n
  <2>6. /\ IsCommitted(req.activation)'
        /\ \A i \in DOMAIN trace : \E c \in committed' : c.activation = trace'[i].activation
    <3> DEFINE key == [activation |-> req.activation, written |-> res.state.version]
    <3>1. key \in committed' /\ key.activation = req.activation /\ committed \subseteq committed'
      BY <2>2
    <3> HIDE DEF key
    <3>2. ASSUME NEW i \in DOMAIN trace PROVE \E c \in committed' : c.activation = trace'[i].activation
      BY <2>5, <3>1 DEF DistinctInv, IsCommitted
    <3> QED
      BY <3>1, <3>2 DEF IsCommitted
  <2>7. ASSUME NEW i \in DOMAIN trace
        PROVE  trace[i].activation # t.activation /\ trace[i].sent \cap t.sent = {}
    <3>1. trace[i].activation # t.activation
      BY <2>2, <2>3 DEF DistinctInv, Fresh
    <3>2. trace[i].sent \subseteq {m.id : m \in messages}
      BY DEF CausallyClosed
    <3>3. \A m \in res.messages, n2 \in messages : m.id # n2.id
      BY DEF IInv, IdInv, DisjointIds, Proposed
    <3> QED
      BY <2>3, <3>1, <3>2, <3>3
  <2>8. ASSUME NEW i \in DOMAIN trace'
        PROVE  IsCommitted(trace[i].activation)' /\ trace'[i].written = trace'[i].read + 1
    <3>1. CASE i \in DOMAIN trace
      BY <2>5, <2>6, <3>1 DEF DistinctInv, IsCommitted
    <3>2. CASE i \notin DOMAIN trace
      BY <2>3, <2>5, <2>6, <3>2 DEF IsCommitted
    <3> QED
      BY <3>1, <3>2
  <2>9. ASSUME NEW i \in DOMAIN trace', NEW j \in DOMAIN trace', i # j
        PROVE  /\ trace'[i].activation # trace'[j].activation
               /\ trace'[i].sent \cap trace'[j].sent = {}
    <3>1. CASE i \in DOMAIN trace /\ j \in DOMAIN trace
      BY <2>5, <2>9, <3>1 DEF DistinctInv
    <3>2. CASE i \in DOMAIN trace /\ j \notin DOMAIN trace
      BY <2>5, <2>7, <3>2
    <3>3. CASE i \notin DOMAIN trace /\ j \in DOMAIN trace
      BY <2>5, <2>7, <3>3
    <3> QED
      BY <2>5, <2>9, <3>1, <3>2, <3>3
  <2> QED
    BY <2>8, <2>9 DEF DistinctInv
<1> QED
  BY <1>1, <1>2, StepKinds, BeginEffect, WorkEffect, FinishEffect DEF Rests, storeVars

LEMMA DistinctInvariance == Spec => []DistinctInv
<1>1. Init => DistinctInv
  BY DEF Init, DistinctInv
<1>2. CausalInv => CausallyClosed
  BY DEF CausalInv
<1>3. IInv /\ IInv' /\ CausallyClosed /\ DistinctInv /\ [Next]_vars => DistinctInv'
  BY DistinctStep
<1> QED
  BY <1>1, <1>2, <1>3, Invariance, CausalInvariance, PTL DEF Spec
-----------------------------------------------------------------------------
(* What the checks of verify make of such records.                         *)

(* Neither the activations nor the messages of a trace are repeated.       *)
LEMMA NothingTwice ==
  ASSUME DistinctInv
  PROVE  Duplicates(trace) = [activations |-> {}, messages |-> {}]
<1>1. {j \in DOMAIN trace : \E k \in DOMAIN trace \ {j} :
         trace[k].activation = trace[j].activation} = {}
  BY DEF DistinctInv
<1>2. ASSUME NEW p \in {q \in (DOMAIN trace) \X (DOMAIN trace) : q[1] # q[2]}
      PROVE  trace[p[1]].sent \cap trace[p[2]].sent = {}
  BY DEF DistinctInv
<1>3. UNION {trace[p[1]].sent \cap trace[p[2]].sent :
               p \in {q \in (DOMAIN trace) \X (DOMAIN trace) : q[1] # q[2]}} = {}
  BY <1>2
<1> QED
  BY <1>1, <1>3 DEF Duplicates

(* Every parent was produced, by an earlier record.                        *)
LEMMA NothingMissing ==
  ASSUME CausallyClosed, EngineTypeOK
  PROVE  MissingParents(trace) = {}
<1>1. DOMAIN trace = 1 .. Len(trace) /\ Len(trace) \in Nat
  BY TraceTypes
<1>2. ASSUME NEW j \in DOMAIN trace PROVE trace[j].parents \subseteq Produced(trace)
  BY <1>1 DEF CausallyClosed, Produced
<1> QED
  BY <1>2 DEF MissingParents

(* Two records of one agent never read the same version.                   *)
LEMMA NothingStale ==
  ASSUME VersionChain, EngineTypeOK, DistinctInv
  PROVE  StaleOrConflict(trace) = {}
<1>1. DOMAIN trace = 1 .. Len(trace) /\ Len(trace) \in Nat
      /\ \A i \in DOMAIN trace : trace[i] \in TraceRecord
  BY TraceTypes
<1>2. ASSUME NEW k \in DOMAIN trace, NEW j \in DOMAIN trace, k < j,
             trace[k].agent = trace[j].agent
      PROVE  trace[k].read # trace[j].read
  <2> DEFINE a == trace[j].agent
             before(i) == {h \in RecordsOf(a) : h < i}
  <2>1. a \in Agents /\ k \in RecordsOf(a) /\ j \in RecordsOf(a)
    BY <1>1, <1>2 DEF RecordsOf, TraceRecord
  <2>2. trace[k].read = Cardinality(before(k)) /\ trace[j].read = Cardinality(before(j))
    BY <2>1 DEF VersionChain
  <2>3. IsFiniteSet(before(j))
    <3>1. before(j) \subseteq 1 .. Len(trace)
      BY <1>1 DEF RecordsOf
    <3>2. IsFiniteSet(1 .. Len(trace))
      BY <1>1, FS_Interval
    <3> QED
      BY <3>1, <3>2, FS_Subset
  <2>4. k \in Nat /\ k \notin before(k) /\ k \in before(j) /\ before(k) \subseteq before(j)
    BY <1>1, <1>2, <2>1 DEF RecordsOf
  <2> HIDE DEF before
  <2>5. Cardinality(before(k)) < Cardinality(before(j))
    BY <2>3, <2>4, FS_Subset, FS_CardinalityType
  <2> QED
    BY <2>2, <2>3, <2>4, <2>5, FS_Subset, FS_CardinalityType
<1> QED
  BY <1>2 DEF StaleOrConflict, Commits, DistinctInv

(* The producer that an edge leads to is the one sender of the message.    *)
LEMMA EdgesLeadBack ==
  ASSUME CausallyClosed, EngineTypeOK, DistinctInv,
         NEW i \in DOMAIN trace, NEW j \in DOMAIN trace,
         trace[j].activation \in Edges(trace)[trace[i].activation]
  PROVE  j < i
<1>1. DOMAIN trace = 1 .. Len(trace) /\ Len(trace) \in Nat
  BY TraceTypes
<1>2. trace[i].activation \in Nodes(trace)
  BY DEF Nodes
<1>3. PICK p \in DOMAIN trace, r \in DOMAIN trace :
        /\ trace[r].activation = trace[i].activation
        /\ trace[p].activation = trace[j].activation
        /\ \E msg \in trace[r].parents : LastSends(trace, p, msg)
  BY <1>2 DEF Edges
<1>4. r = i /\ p = j
  BY <1>3 DEF DistinctInv
<1>5. PICK msg \in trace[i].parents : msg \in trace[j].sent
  BY <1>3, <1>4 DEF LastSends
<1>6. PICK h \in 1 .. i - 1 : msg \in trace[h].sent
  BY <1>5 DEF CausallyClosed
<1>7. h \in DOMAIN trace /\ h < i
  BY <1>1
<1>8. h = j
  BY <1>5, <1>6, <1>7 DEF DistinctInv
<1> QED
  BY <1>7, <1>8

(* verify reports nothing on the trace of any run of the engine, at any    *)
(* time of the run: no repeated activation or message, no missing parent,  *)
(* no stale read, and parents that all precede their readers, so that its  *)
(* cycle search finds none; for all agents, replies, limits and faults.    *)
THEOREM EveryRunVerifies == Spec => []KernelVerified
<1>1. IInv /\ CausalInv /\ VersionChain /\ DistinctInv => KernelVerified
  <2> SUFFICES ASSUME IInv, CausalInv, VersionChain, DistinctInv PROVE KernelVerified
    OBVIOUS
  <2>1. EngineTypeOK /\ CausallyClosed
    BY DEF IInv, CausalInv
  <2> QED
    BY <2>1, NothingTwice, NothingMissing, NothingStale, EdgesLeadBack DEF KernelVerified
<1> QED
  BY <1>1, Invariance, CausalInvariance, RecordsFormChains, DistinctInvariance, PTL
-----------------------------------------------------------------------------
(* run_kernel_benchmarks runs the engine as it is: every step of a kernel  *)
(* is a step of Engine, and stopping after step_count_for steps one less.  *)
THEOREM KernelRunsTheEngine == KernelSpec => Spec
<1>1. KernelInit => Init
  BY DEF KernelInit
<1>2. [KernelNext]_kernelVars => [Next]_vars
  BY DEF KernelNext, KernelEnded, Tick, kernelVars, Next
<1> QED
  BY <1>1, <1>2, PTL DEF KernelSpec, Spec

(* The gate's other half: verify reports nothing on any kernel run,        *)
(* whatever its shape and size.                                            *)
THEOREM KernelsVerify == KernelSpec => []KernelVerified
<1> QED
  BY KernelRunsTheEngine, EveryRunVerifies, PTL
-----------------------------------------------------------------------------
(* The topologies.  HopPlan leads from each level of a kernel to the next, *)
(* and the levels are the steps of its run.                                *)

Level(k, a) ==
  CASE k.shape = "fan_out" -> IF a.name = "root" THEN 0 ELSE 1
    [] k.shape = "fork_join" ->
         (IF a.name = "root" THEN 0 ELSE IF a.name = "branch" THEN 1 ELSE 2)
    [] k.shape = "mixed_dag" -> IF a.name = "join" THEN k.length ELSE a.index
    [] k.shape \in {"chain", "independent_branches"} -> a.index
    [] IsWriters(k) -> 0

(* Numbers the edges that lead into one level.                             *)
Slot(k, u, v) ==
  CASE k.shape = "fan_out" -> v.index
    [] k.shape = "fork_join" -> IF v.name = "branch" THEN v.index ELSE u.index
    [] k.shape = "independent_branches" -> v.row - 1
    [] k.shape = "mixed_dag" -> IF u.name = "left" THEN 0 ELSE 1
    [] k.shape \in {"chain", "conflicting_write", "half_conflicting_write"} -> 0

LevelsRise(k) ==
  /\ \A a \in Roster(k) :
       a.kernel = k /\ Level(k, a) \in Nat /\ Level(k, a) < StepCountFor(k)
  /\ \A e \in HopPlan(k) : \E u, v \in Roster(k) : e = <<u, v>>
  /\ \A u, v : <<u, v>> \in HopPlan(k) =>
       /\ u \in Roster(k) /\ v \in Roster(k) /\ Level(k, v) = Level(k, u) + 1
       /\ Slot(k, u, v) \in Nat /\ (Slot(k, u, v) < k.width \/ Slot(k, u, v) < 2)
  /\ \A a \in Roster(k) : Level(k, a) # 0 => \E u : <<u, a>> \in HopPlan(k)
  /\ \A u, v, x, y : /\ <<u, v>> \in HopPlan(k) /\ <<x, y>> \in HopPlan(k)
                     /\ Level(k, v) = Level(k, y) /\ Slot(k, u, v) = Slot(k, x, y)
                     => u = x /\ v = y

RootsFirst(k) ==
  /\ Roots(k) = {a \in Roster(k) : Level(k, a) = 0} /\ Roots(k) # {}
  /\ StepCountFor(k) \in Nat
  /\ \A n \in 0 .. StepCountFor(k) - 1 : \E a \in Roster(k) : Level(k, a) = n

KernelShape(k) ==
  /\ k.shape \in {"chain", "fan_out", "fork_join", "independent_branches",
                  "mixed_dag", "conflicting_write", "half_conflicting_write"}
  /\ k.width \in Nat \ {0} /\ k.length \in Nat \ {0}

LEMMA KernelShapes == ASSUME NEW k \in Kernels PROVE KernelShape(k)
BY KernelAssumption DEF KernelShape

LEMMA CellFields ==
  ASSUME NEW k, NEW name, NEW row, NEW i
  PROVE  /\ Cell(k, name, row, i).kernel = k /\ Cell(k, name, row, i).name = name
         /\ Cell(k, name, row, i).row = row /\ Cell(k, name, row, i).index = i
BY DEF Cell

LEMMA NextCell ==
  ASSUME NEW k, NEW name, NEW row, NEW i
  PROVE  [Cell(k, name, row, i) EXCEPT !.index = @ + 1] = Cell(k, name, row, i + 1)
BY DEF Cell

(* S consists of l cells for each name and row in R.                       *)
IsLines(S, k, R, l) ==
  \A a : a \in S <=> \E p \in R, i \in 0 .. l - 1 : a = Cell(k, p[1], p[2], i)

IsSteps(P, k, R, l) ==
  \A u, v : <<u, v>> \in P <=>
    \E p \in R, i \in 0 .. l - 2 :
      u = Cell(k, p[1], p[2], i) /\ v = Cell(k, p[1], p[2], i + 1)

LEMMA AlongCells ==
  ASSUME NEW S, NEW k, NEW R, NEW l \in Nat, IsLines(S, k, R, l)
  PROVE  IsSteps(Along(S), k, R, l)
<1> USE DEF IsLines
<1>1. ASSUME NEW u, NEW v, <<u, v>> \in Along(S)
      PROVE  \E p \in R, i \in 0 .. l - 2 :
                u = Cell(k, p[1], p[2], i) /\ v = Cell(k, p[1], p[2], i + 1)
  <2>1. u \in S /\ v \in S /\ v = [u EXCEPT !.index = @ + 1]
    BY <1>1 DEF Along
  <2>2. PICK p \in R, i \in 0 .. l - 1 : u = Cell(k, p[1], p[2], i)
    BY <2>1
  <2>3. v = Cell(k, p[1], p[2], i + 1)
    BY <2>1, <2>2, NextCell
  <2>4. PICK q \in R, j \in 0 .. l - 1 : v = Cell(k, q[1], q[2], j)
    BY <2>1
  <2>5. j = i + 1
    BY <2>3, <2>4, CellFields
  <2>6. i \in 0 .. l - 2
    BY <2>5
  <2> QED
    BY <2>2, <2>3, <2>6
<1>2. ASSUME NEW u, NEW v, NEW p \in R, NEW i \in 0 .. l - 2,
             u = Cell(k, p[1], p[2], i), v = Cell(k, p[1], p[2], i + 1)
      PROVE  <<u, v>> \in Along(S)
  <2>1. i \in 0 .. l - 1 /\ i + 1 \in 0 .. l - 1
    OBVIOUS
  <2>2. u \in S /\ v \in S
    BY <1>2, <2>1
  <2>3. v = [u EXCEPT !.index = @ + 1]
    BY <1>2, NextCell
  <2> QED
    BY <2>2, <2>3 DEF Along
<1>3. ASSUME NEW u, NEW v,
             \E p \in R, i \in 0 .. l - 2 :
               u = Cell(k, p[1], p[2], i) /\ v = Cell(k, p[1], p[2], i + 1)
      PROVE  <<u, v>> \in Along(S)
  <2>1. PICK p \in R, i \in 0 .. l - 2 :
          u = Cell(k, p[1], p[2], i) /\ v = Cell(k, p[1], p[2], i + 1)
    BY <1>3
  <2> QED
    BY <1>2, <2>1
<1> HIDE DEF IsLines
<1>4. ASSUME NEW u, NEW v PROVE <<u, v>> \in Along(S) <=>
        \E p \in R, i \in 0 .. l - 2 :
          u = Cell(k, p[1], p[2], i) /\ v = Cell(k, p[1], p[2], i + 1)
  <2>1. CASE <<u, v>> \in Along(S)
    BY <1>1, <2>1
  <2>2. CASE <<u, v>> \notin Along(S)
    BY <1>3, <2>2
  <2> QED
    BY <2>1, <2>2
<1> QED
  BY <1>4 DEF IsSteps

(* What the shapes made of lines have in common.                           *)
LinesRise(S, P, k, R, l) ==
  /\ \A a \in S : /\ a.kernel = k /\ a.index \in 0 .. l - 1 /\ <<a.name, a.row>> \in R
                  /\ a = Cell(k, a.name, a.row, a.index)
  /\ \A p \in R, i \in 0 .. l - 1 : Cell(k, p[1], p[2], i) \in S
  /\ \A u, v : <<u, v>> \in P =>
       u \in S /\ v \in S /\ v.index = u.index + 1 /\ v.name = u.name /\ v.row = u.row
  /\ \A a \in S : a.index # 0 => \E u : <<u, a>> \in P
  /\ \A u, v, x, y : /\ <<u, v>> \in P /\ <<x, y>> \in P
                     /\ v.index = y.index /\ v.name = y.name /\ v.row = y.row
                     => u = x /\ v = y

LEMMA LinesFacts ==
  ASSUME NEW S, NEW k, NEW R, NEW l \in Nat, \A p \in R : p = <<p[1], p[2]>>, IsLines(S, k, R, l)
  PROVE  LinesRise(S, Along(S), k, R, l)
<1>1. IsSteps(Along(S), k, R, l)
  BY AlongCells
<1>2. \A p \in R, i \in 0 .. l - 1 : Cell(k, p[1], p[2], i) \in S
  BY DEF IsLines
<1>3. ASSUME NEW a \in S
      PROVE  /\ a.kernel = k /\ a.index \in 0 .. l - 1 /\ <<a.name, a.row>> \in R
             /\ a = Cell(k, a.name, a.row, a.index)
  <2>1. PICK p \in R, i \in 0 .. l - 1 : a = Cell(k, p[1], p[2], i)
    BY DEF IsLines
  <2>2. a.kernel = k /\ a.name = p[1] /\ a.row = p[2] /\ a.index = i
    BY <2>1, CellFields
  <2>3. <<a.name, a.row>> = p
    BY <2>2
  <2> QED
    BY <2>1, <2>2, <2>3
<1>4. ASSUME NEW u, NEW v, <<u, v>> \in Along(S)
      PROVE  /\ u \in S /\ v \in S /\ v.index = u.index + 1 /\ v.name = u.name /\ v.row = u.row
             /\ u = Cell(k, v.name, v.row, v.index - 1)
  <2>1. PICK p \in R, i \in 0 .. l - 2 :
          u = Cell(k, p[1], p[2], i) /\ v = Cell(k, p[1], p[2], i + 1)
    BY <1>1, <1>4 DEF IsSteps
  <2>2. i \in 0 .. l - 1 /\ i + 1 \in 0 .. l - 1 /\ (i + 1) - 1 = i
    OBVIOUS
  <2>3. u \in S /\ v \in S
    BY <1>2, <2>1, <2>2
  <2>4. /\ u.name = p[1] /\ u.row = p[2] /\ u.index = i
        /\ v.name = p[1] /\ v.row = p[2] /\ v.index = i + 1
    BY <2>1, CellFields
  <2> QED
    BY <2>1, <2>2, <2>3, <2>4
<1>5. ASSUME NEW a \in S, a.index # 0 PROVE \E u : <<u, a>> \in Along(S)
  <2>1. PICK p \in R, i \in 0 .. l - 1 : a = Cell(k, p[1], p[2], i)
    BY DEF IsLines
  <2>2. i # 0
    BY <1>5, <2>1, CellFields
  <2>3. i - 1 \in 0 .. l - 2 /\ (i - 1) + 1 = i
    BY <2>2
  <2> DEFINE u == Cell(k, p[1], p[2], i - 1)
             j == i - 1
  <2>4. j \in 0 .. l - 2 /\ u = Cell(k, p[1], p[2], j) /\ a = Cell(k, p[1], p[2], j + 1)
    BY <2>1, <2>3
  <2> HIDE DEF u, j
  <2>5. \E q \in R, h \in 0 .. l - 2 : u = Cell(k, q[1], q[2], h) /\ a = Cell(k, q[1], q[2], h + 1)
    BY <2>4
  <2>6. <<u, a>> \in Along(S)
    BY <1>1, <2>5 DEF IsSteps
  <2> QED
    BY <2>6
<1>6. ASSUME NEW u, NEW v, NEW x, NEW y, <<u, v>> \in Along(S), <<x, y>> \in Along(S),
             v.index = y.index, v.name = y.name, v.row = y.row
      PROVE  u = x /\ v = y
  <2>1. v \in S /\ y \in S /\ u = Cell(k, v.name, v.row, v.index - 1)
        /\ x = Cell(k, y.name, y.row, y.index - 1)
    BY <1>4, <1>6
  <2>2. v = Cell(k, v.name, v.row, v.index) /\ y = Cell(k, y.name, y.row, y.index)
    BY <1>3, <2>1
  <2>3. u = x
    BY <1>6, <2>1
  <2>4. v = y
    BY <1>6, <2>2
  <2> QED
    BY <2>3, <2>4
<1>7. \A a \in S : /\ a.kernel = k /\ a.index \in 0 .. l - 1 /\ <<a.name, a.row>> \in R
                   /\ a = Cell(k, a.name, a.row, a.index)
  BY <1>3
<1>8. \A u, v : <<u, v>> \in Along(S) =>
        u \in S /\ v \in S /\ v.index = u.index + 1 /\ v.name = u.name /\ v.row = u.row
  BY <1>4
<1>9. \A a \in S : a.index # 0 => \E u : <<u, a>> \in Along(S)
  BY <1>5
<1>10. \A u, v, x, y : /\ <<u, v>> \in Along(S) /\ <<x, y>> \in Along(S)
                       /\ v.index = y.index /\ v.name = y.name /\ v.row = y.row
                       => u = x /\ v = y
  BY <1>6
<1> QED
  BY <1>2, <1>7, <1>8, <1>9, <1>10 DEF LinesRise

LEMMA ChainLines ==
  ASSUME NEW k, KernelShape(k), k.shape = "chain"
  PROVE  LinesRise(Roster(k), HopPlan(k), k, {<<"node", 0>>}, k.length)
<1>1. Roster(k) = Line(k, "node")
  BY DEF Roster, IsWriters
<1>2. HopPlan(k) = Along(Line(k, "node"))
  BY DEF HopPlan, IsWriters
<1>3. IsLines(Line(k, "node"), k, {<<"node", 0>>}, k.length)
  BY DEF IsLines, Line, A
<1> QED
  BY <1>1, <1>2, <1>3, LinesFacts DEF KernelShape

LEMMA BranchesLines ==
  ASSUME NEW k, KernelShape(k), k.shape = "independent_branches"
  PROVE  LinesRise(Roster(k), HopPlan(k), k, {"branch"} \X (1 .. k.width), k.length)
<1>1. Roster(k) = Branches(k)
  BY DEF Roster, IsWriters
<1>2. HopPlan(k) = Along(Branches(k))
  BY DEF HopPlan, IsWriters
<1>3. IsLines(Branches(k), k, {"branch"} \X (1 .. k.width), k.length)
  <2>1. ASSUME NEW a, NEW b \in 1 .. k.width, NEW i \in 0 .. k.length - 1, a = Cell(k, "branch", b, i)
        PROVE  \E p \in {"branch"} \X (1 .. k.width), j \in 0 .. k.length - 1 : a = Cell(k, p[1], p[2], j)
    <3> DEFINE p == <<"branch", b>>
    <3>1. p \in {"branch"} \X (1 .. k.width) /\ p[1] = "branch" /\ p[2] = b
      OBVIOUS
    <3> HIDE DEF p
    <3>2. a = Cell(k, p[1], p[2], i)
      BY <2>1, <3>1
    <3> QED
      BY <3>1, <3>2
  <2>2. ASSUME NEW a, NEW p \in {"branch"} \X (1 .. k.width), NEW i \in 0 .. k.length - 1,
               a = Cell(k, p[1], p[2], i)
        PROVE  a \in Branches(k)
    <3>1. p[1] = "branch" /\ p[2] \in 1 .. k.width
      OBVIOUS
    <3> QED
      BY <2>2, <3>1 DEF Branches
  <2>3. ASSUME NEW a, a \in Branches(k)
        PROVE  \E p \in {"branch"} \X (1 .. k.width), j \in 0 .. k.length - 1 : a = Cell(k, p[1], p[2], j)
    <3>1. PICK b \in 1 .. k.width, i \in 0 .. k.length - 1 : a = Cell(k, "branch", b, i)
      BY <2>3 DEF Branches
    <3> QED
      BY <2>1, <3>1
  <2> QED
    BY <2>2, <2>3 DEF IsLines
<1>4. \A p \in {"branch"} \X (1 .. k.width) : p = <<p[1], p[2]>>
  OBVIOUS
<1> QED
  BY <1>1, <1>2, <1>3, <1>4, LinesFacts DEF KernelShape

LEMMA MixedLines ==
  ASSUME NEW k, KernelShape(k), k.shape = "mixed_dag"
  PROVE  LinesRise(Line(k, "left") \cup Line(k, "right"), Along(Line(k, "left") \cup Line(k, "right")),
                   k, {<<"left", 0>>, <<"right", 0>>}, k.length)
<1>1. IsLines(Line(k, "left") \cup Line(k, "right"), k, {<<"left", 0>>, <<"right", 0>>}, k.length)
  <2>1. ASSUME NEW a, a \in Line(k, "left") \cup Line(k, "right")
        PROVE  \E p \in {<<"left", 0>>, <<"right", 0>>}, i \in 0 .. k.length - 1 :
                 a = Cell(k, p[1], p[2], i)
    <3>1. PICK i \in 0 .. k.length - 1 : a = Cell(k, "left", 0, i) \/ a = Cell(k, "right", 0, i)
      BY <2>1 DEF Line, A
    <3> QED
      BY <3>1
  <2>2. ASSUME NEW a, NEW p \in {<<"left", 0>>, <<"right", 0>>}, NEW i \in 0 .. k.length - 1,
               a = Cell(k, p[1], p[2], i)
        PROVE  a \in Line(k, "left") \cup Line(k, "right")
    BY <2>2 DEF Line, A
  <2>3. ASSUME NEW a
        PROVE  a \in Line(k, "left") \cup Line(k, "right") <=>
                 \E p \in {<<"left", 0>>, <<"right", 0>>}, i \in 0 .. k.length - 1 :
                   a = Cell(k, p[1], p[2], i)
    <3>1. CASE a \in Line(k, "left") \cup Line(k, "right")
      BY <2>1, <3>1
    <3>2. CASE ~ (a \in Line(k, "left") \cup Line(k, "right"))
      BY <2>2, <3>2
    <3> QED
      BY <3>1, <3>2
  <2> QED
    BY <2>3 DEF IsLines
<1> QED
  BY <1>1, LinesFacts DEF KernelShape

(* Chains and branches: levels are positions on the lines.                 *)
LEMMA LineKernels ==
  ASSUME NEW k, KernelShape(k), k.shape \in {"chain", "independent_branches"}
  PROVE  LevelsRise(k) /\ RootsFirst(k)
<1> DEFINE R == IF k.shape = "chain" THEN {<<"node", 0>>} ELSE {"branch"} \X (1 .. k.width)
<1>1. LinesRise(Roster(k), HopPlan(k), k, R, k.length)
  BY ChainLines, BranchesLines
<1>2. k.length \in Nat /\ k.length >= 1 /\ k.width \in Nat /\ k.width >= 1
  BY DEF KernelShape
<1>3. \A a : Level(k, a) = a.index
  BY DEF Level, IsWriters
<1>4. \A u, v : Slot(k, u, v) = IF k.shape = "chain" THEN 0 ELSE v.row - 1
  BY DEF Slot
<1>5. StepCountFor(k) = k.length
  BY DEF StepCountFor, IsWriters
<1>6. \E p : p \in R
  <2>1. <<"branch", 1>> \in {"branch"} \X (1 .. k.width)
    BY <1>2
  <2> QED
    BY <2>1
<1>7. \A a \in Roster(k) : /\ a.name = IF k.shape = "chain" THEN "node" ELSE "branch"
                           /\ k.shape = "chain" => a.row = 0
                           /\ k.shape # "chain" => a.row \in 1 .. k.width
  BY <1>1 DEF LinesRise
<1>8. Roots(k) = {a \in Roster(k) : a.index = 0}
  <2>1. Roots(k) = {a \in Roster(k) : a.index = 0 /\ a.name # "join"}
    BY DEF Roots, IsWriters
  <2> QED
    BY <2>1, <1>7
<1> HIDE DEF R
<1>9. LevelsRise(k)
  <2>1. \A a \in Roster(k) : a.kernel = k /\ Level(k, a) \in Nat /\ Level(k, a) < StepCountFor(k)
    <3>1. ASSUME NEW a \in Roster(k) PROVE a.kernel = k /\ a.index \in Nat /\ a.index < k.length
      <4>1. a.kernel = k /\ a.index \in 0 .. k.length - 1
        BY <1>1 DEF LinesRise
      <4> QED
        BY <1>2, <4>1
    <3> QED
      BY <1>3, <1>5, <3>1
  <2>2. \A e \in HopPlan(k) : \E u, v \in Roster(k) : e = <<u, v>>
    <3>1. HopPlan(k) = Along(Roster(k))
      BY DEF HopPlan, Roster, IsWriters
    <3> QED
      BY <3>1 DEF Along
  <2>3. ASSUME NEW u, NEW v, <<u, v>> \in HopPlan(k)
        PROVE  /\ u \in Roster(k) /\ v \in Roster(k) /\ Level(k, v) = Level(k, u) + 1
               /\ Slot(k, u, v) \in Nat /\ (Slot(k, u, v) < k.width \/ Slot(k, u, v) < 2)
    <3>1. u \in Roster(k) /\ v \in Roster(k) /\ v.index = u.index + 1
      BY <1>1, <2>3 DEF LinesRise
    <3>2. Slot(k, u, v) \in Nat /\ Slot(k, u, v) < k.width
      BY <1>2, <1>4, <1>7, <3>1
    <3> QED
      BY <1>3, <3>1, <3>2
  <2>4. \A a \in Roster(k) : Level(k, a) # 0 => \E u : <<u, a>> \in HopPlan(k)
    BY <1>1, <1>3 DEF LinesRise
  <2>5. ASSUME NEW u, NEW v, NEW x, NEW y, <<u, v>> \in HopPlan(k), <<x, y>> \in HopPlan(k),
               Level(k, v) = Level(k, y), Slot(k, u, v) = Slot(k, x, y)
        PROVE  u = x /\ v = y
    <3>1. v \in Roster(k) /\ y \in Roster(k)
      BY <2>3, <2>5
    <3>2. v.row = y.row
      <4>1. k.shape # "chain" => v.row \in Nat /\ y.row \in Nat
        BY <1>2, <1>7, <3>1
      <4> QED
        BY <1>4, <1>7, <2>5, <3>1, <4>1
    <3>3. v.index = y.index /\ v.name = y.name
      BY <1>3, <1>7, <2>5, <3>1
    <3> QED
      BY <1>1, <2>5, <3>2, <3>3 DEF LinesRise
  <2> QED
    BY <2>1, <2>2, <2>3, <2>4, <2>5 DEF LevelsRise
<1>10. RootsFirst(k)
  <2>1. PICK p \in R : TRUE
    BY <1>6
  <2>2. ASSUME NEW n \in 0 .. k.length - 1 PROVE \E a \in Roster(k) : a.index = n
    <3>1. Cell(k, p[1], p[2], n) \in Roster(k)
      BY <1>1 DEF LinesRise
    <3> QED
      BY <3>1, CellFields
  <2>3. 0 \in 0 .. k.length - 1
    BY <1>2
  <2>4. Roots(k) # {}
    BY <1>8, <2>2, <2>3
  <2> QED
    BY <1>2, <1>3, <1>5, <1>8, <2>2, <2>4 DEF RootsFirst
<1> QED
  BY <1>9, <1>10

(* The cells of fan_out and fork_join.                                     *)
LEMMA CellA ==
  ASSUME NEW k, NEW name, NEW i
  PROVE  A(k, name, i).kernel = k /\ A(k, name, i).name = name /\ A(k, name, i).index = i
BY CellFields DEF A

LEMMA Crowds ==
  ASSUME NEW k, NEW name, NEW a \in Crowd(k, name)
  PROVE  a.kernel = k /\ a.name = name /\ a.index \in 0 .. k.width - 1 /\ a = A(k, name, a.index)
<1>1. PICK i \in 0 .. k.width - 1 : a = A(k, name, i)
  BY DEF Crowd
<1> QED
  BY <1>1, CellA

LEMMA FanLevels ==
  ASSUME NEW k, KernelShape(k), k.shape = "fan_out"
  PROVE  LevelsRise(k) /\ RootsFirst(k)
<1> DEFINE root == A(k, "root", 0)
           leaves == Crowd(k, "leaf")
<1>1. Roster(k) = leaves \cup {root}
  BY DEF Roster, IsWriters
<1>2. HopPlan(k) = {root} \X leaves
  BY DEF HopPlan, IsWriters
<1>3. Roots(k) = {root}
  BY DEF Roots, IsWriters
<1>4. StepCountFor(k) = 2
  BY DEF StepCountFor, IsWriters
<1>5. \A a : Level(k, a) = IF a.name = "root" THEN 0 ELSE 1
  BY DEF Level, IsWriters
<1>6. \A u, v : Slot(k, u, v) = v.index
  BY DEF Slot
<1>7. root.name = "root" /\ root.kernel = k
  BY CellA
<1>8. \A a \in leaves : a.kernel = k /\ a.name = "leaf" /\ a.index \in 0 .. k.width - 1
                        /\ a = A(k, "leaf", a.index)
  BY Crowds
<1>9. k.width \in Nat /\ k.width >= 1
  BY DEF KernelShape
<1>10. A(k, "leaf", 0) \in leaves
  BY <1>9 DEF Crowd
<1> HIDE DEF root, leaves
<1>11. \A a \in Roster(k) : a = root \/ a \in leaves
  BY <1>1
<1>12. \A u, v : <<u, v>> \in HopPlan(k) <=> u = root /\ v \in leaves
  BY <1>2
<1>13. LevelsRise(k)
  <2>1. \A a \in Roster(k) : a.kernel = k /\ Level(k, a) \in Nat /\ Level(k, a) < StepCountFor(k)
    BY <1>4, <1>5, <1>7, <1>8, <1>11
  <2>2. \A e \in HopPlan(k) : \E u, v \in Roster(k) : e = <<u, v>>
    BY <1>1, <1>2
  <2>3. ASSUME NEW u, NEW v, <<u, v>> \in HopPlan(k)
        PROVE  /\ u \in Roster(k) /\ v \in Roster(k) /\ Level(k, v) = Level(k, u) + 1
               /\ Slot(k, u, v) \in Nat /\ (Slot(k, u, v) < k.width \/ Slot(k, u, v) < 2)
    <3>1. u = root /\ v \in leaves
      BY <1>12, <2>3
    <3>2. Level(k, u) = 0 /\ Level(k, v) = 1
      BY <1>5, <1>7, <1>8, <3>1
    <3>3. Slot(k, u, v) \in Nat /\ Slot(k, u, v) < k.width
      BY <1>6, <1>8, <1>9, <3>1
    <3> QED
      BY <1>1, <3>1, <3>2, <3>3
  <2>4. \A a \in Roster(k) : Level(k, a) # 0 => \E u : <<u, a>> \in HopPlan(k)
    BY <1>5, <1>7, <1>11, <1>12
  <2>5. ASSUME NEW u, NEW v, NEW x, NEW y, <<u, v>> \in HopPlan(k), <<x, y>> \in HopPlan(k),
               Slot(k, u, v) = Slot(k, x, y)
        PROVE  u = x /\ v = y
    <3>1. u = root /\ x = root /\ v \in leaves /\ y \in leaves /\ v.index = y.index
      BY <1>6, <1>12, <2>5
    <3>2. v = A(k, "leaf", v.index) /\ y = A(k, "leaf", y.index)
      BY <1>8, <3>1
    <3> QED
      BY <3>1, <3>2
  <2> QED
    BY <2>1, <2>2, <2>3, <2>4, <2>5 DEF LevelsRise
<1>14. RootsFirst(k)
  <2>1. Roots(k) = {a \in Roster(k) : Level(k, a) = 0} /\ Roots(k) # {}
    BY <1>1, <1>3, <1>5, <1>7, <1>8
  <2>2. Level(k, A(k, "leaf", 0)) = 1 /\ A(k, "leaf", 0) \in Roster(k)
    BY <1>1, <1>5, <1>8, <1>10
  <2> QED
    BY <1>1, <1>4, <1>5, <1>7, <2>1, <2>2 DEF RootsFirst
<1> QED
  BY <1>13, <1>14

LEMMA ForkLevels ==
  ASSUME NEW k, KernelShape(k), k.shape = "fork_join"
  PROVE  LevelsRise(k) /\ RootsFirst(k)
<1> DEFINE root == A(k, "root", 0)
           sink == A(k, "sink", 0)
           branches == Crowd(k, "branch")
<1>1. Roster(k) = branches \cup {root, sink}
  BY DEF Roster, IsWriters
<1>2. HopPlan(k) = ({root} \X branches) \cup (branches \X {sink})
  BY DEF HopPlan, IsWriters
<1>3. Roots(k) = {root}
  BY DEF Roots, IsWriters
<1>4. StepCountFor(k) = 3
  BY DEF StepCountFor, IsWriters
<1>5. \A a : Level(k, a) = IF a.name = "root" THEN 0 ELSE IF a.name = "branch" THEN 1 ELSE 2
  BY DEF Level, IsWriters
<1>6. \A u, v : Slot(k, u, v) = IF v.name = "branch" THEN v.index ELSE u.index
  BY DEF Slot
<1>7. root.name = "root" /\ root.kernel = k /\ sink.name = "sink" /\ sink.kernel = k
  BY CellA
<1>8. \A a \in branches : a.kernel = k /\ a.name = "branch" /\ a.index \in 0 .. k.width - 1
                          /\ a = A(k, "branch", a.index)
  BY Crowds
<1>9. k.width \in Nat /\ k.width >= 1
  BY DEF KernelShape
<1>10. A(k, "branch", 0) \in branches
  BY <1>9 DEF Crowd
<1> HIDE DEF root, sink, branches
<1>11. \A a \in Roster(k) : a = root \/ a = sink \/ a \in branches
  BY <1>1
<1>12. \A u, v : <<u, v>> \in HopPlan(k) <=> (u = root /\ v \in branches) \/ (u \in branches /\ v = sink)
  BY <1>2
<1>13. LevelsRise(k)
  <2>1. \A a \in Roster(k) : a.kernel = k /\ Level(k, a) \in Nat /\ Level(k, a) < StepCountFor(k)
    BY <1>4, <1>5, <1>7, <1>8, <1>11
  <2>2. \A e \in HopPlan(k) : \E u, v \in Roster(k) : e = <<u, v>>
    BY <1>1, <1>2
  <2>3. ASSUME NEW u, NEW v, <<u, v>> \in HopPlan(k)
        PROVE  /\ u \in Roster(k) /\ v \in Roster(k) /\ Level(k, v) = Level(k, u) + 1
               /\ Slot(k, u, v) \in Nat /\ (Slot(k, u, v) < k.width \/ Slot(k, u, v) < 2)
    <3>1. (u = root /\ v \in branches) \/ (u \in branches /\ v = sink)
      BY <1>12, <2>3
    <3>2. Level(k, v) = Level(k, u) + 1
      BY <1>5, <1>7, <1>8, <3>1
    <3>3. Slot(k, u, v) \in Nat /\ Slot(k, u, v) < k.width
      BY <1>6, <1>7, <1>8, <1>9, <3>1
    <3> QED
      BY <1>1, <3>1, <3>2, <3>3
  <2>4. \A a \in Roster(k) : Level(k, a) # 0 => \E u : <<u, a>> \in HopPlan(k)
    BY <1>5, <1>7, <1>10, <1>11, <1>12
  <2>5. ASSUME NEW u, NEW v, NEW x, NEW y, <<u, v>> \in HopPlan(k), <<x, y>> \in HopPlan(k),
               Level(k, v) = Level(k, y), Slot(k, u, v) = Slot(k, x, y)
        PROVE  u = x /\ v = y
    <3>1. \/ u = root /\ x = root /\ v \in branches /\ y \in branches /\ v.index = y.index
          \/ v = sink /\ y = sink /\ u \in branches /\ x \in branches /\ u.index = x.index
      BY <1>5, <1>6, <1>7, <1>8, <1>12, <2>5
    <3>2. \A a \in branches : a = A(k, "branch", a.index)
      BY <1>8
    <3>3. \A a, b \in branches : a.index = b.index => a = b
      <4> SUFFICES ASSUME NEW a \in branches, NEW b \in branches, a.index = b.index PROVE a = b
        OBVIOUS
      <4>1. a = A(k, "branch", a.index) /\ b = A(k, "branch", b.index)
        BY <3>2
      <4> QED
        BY <4>1
    <3> QED
      BY <3>1, <3>3
  <2> QED
    BY <2>1, <2>2, <2>3, <2>4, <2>5 DEF LevelsRise
<1>14. RootsFirst(k)
  <2>1. Roots(k) = {a \in Roster(k) : Level(k, a) = 0} /\ Roots(k) # {}
    BY <1>1, <1>3, <1>5, <1>7, <1>8
  <2>2. Level(k, sink) = 2 /\ sink \in Roster(k) /\ Level(k, root) = 0 /\ root \in Roster(k)
    BY <1>1, <1>5, <1>7
  <2>3. Level(k, A(k, "branch", 0)) = 1 /\ A(k, "branch", 0) \in Roster(k)
    BY <1>1, <1>5, <1>8, <1>10
  <2>4. ASSUME NEW n \in 0 .. 2 PROVE \E a \in Roster(k) : Level(k, a) = n
    BY <2>2, <2>3
  <2> QED
    BY <1>4, <2>1, <2>4 DEF RootsFirst
<1> QED
  BY <1>13, <1>14

LEMMA MixedLevels ==
  ASSUME NEW k, KernelShape(k), k.shape = "mixed_dag"
  PROVE  LevelsRise(k) /\ RootsFirst(k)
<1> DEFINE join == A(k, "join", 0)
           lines == Line(k, "left") \cup Line(k, "right")
           ends == {LastNode(k, "left"), LastNode(k, "right")}
           R == {<<"left", 0>>, <<"right", 0>>}
           l == k.length
<1>1. Roster(k) = lines \cup {join}
  BY DEF Roster, IsWriters
<1>2. HopPlan(k) = Along(lines) \cup (ends \X {join})
  BY DEF HopPlan, IsWriters
<1>3. LinesRise(lines, Along(lines), k, R, l)
  BY MixedLines
<1>4. StepCountFor(k) = l + 1
  BY DEF StepCountFor, IsWriters
<1>5. \A a : Level(k, a) = IF a.name = "join" THEN l ELSE a.index
  BY DEF Level, IsWriters
<1>6. \A u, v : Slot(k, u, v) = IF u.name = "left" THEN 0 ELSE 1
  BY DEF Slot
<1>7. join.name = "join" /\ join.kernel = k
  BY CellA
<1>8. l \in Nat /\ l >= 1
  BY DEF KernelShape
<1>9. \A a \in lines : /\ a.kernel = k /\ a.index \in 0 .. l - 1
                       /\ a.name \in {"left", "right"} /\ a.row = 0
                       /\ a = Cell(k, a.name, 0, a.index)
  BY <1>3 DEF LinesRise
<1>10. /\ ends \subseteq lines /\ \A a \in ends : a.index = l - 1
       /\ \A a \in lines : a.index = l - 1 => a \in ends
       /\ A(k, "left", 0) \in lines /\ A(k, "left", 0).index = 0
  <2>1. \A name : LastNode(k, name) = Cell(k, name, 0, l - 1)
    BY DEF LastNode, A
  <2>2. 0 \in 0 .. l - 1 /\ l - 1 \in 0 .. l - 1
    BY <1>8
  <2>3. Line(k, "left") \subseteq lines /\ Line(k, "right") \subseteq lines
    OBVIOUS
  <2>4. LastNode(k, "left") \in lines /\ LastNode(k, "right") \in lines
    BY <2>2, <2>3 DEF LastNode, Line
  <2>5. A(k, "left", 0) \in lines /\ A(k, "left", 0).index = 0
    BY <2>2, CellA DEF Line
  <2>6. \A a \in ends : a.index = l - 1
    BY <2>1, CellFields
  <2> HIDE DEF lines, l
  <2>7. ASSUME NEW a \in lines, a.index = l - 1 PROVE a \in ends
    <3>1. a = Cell(k, a.name, 0, l - 1) /\ a.name \in {"left", "right"}
      BY <1>9, <2>7
    <3>2. a = LastNode(k, a.name)
      BY <2>1, <3>1
    <3> QED
      BY <3>1, <3>2
  <2> QED
    BY <2>4, <2>5, <2>6, <2>7
<1> HIDE DEF join, lines, ends, R, l
<1>11. \A a \in Roster(k) : a = join \/ a \in lines
  BY <1>1
<1>12. \A u, v : <<u, v>> \in HopPlan(k) <=> <<u, v>> \in Along(lines) \/ (u \in ends /\ v = join)
  BY <1>2
<1>13. LevelsRise(k)
  <2>1. \A a \in Roster(k) : a.kernel = k /\ Level(k, a) \in Nat /\ Level(k, a) < StepCountFor(k)
    BY <1>4, <1>5, <1>7, <1>8, <1>9, <1>11
  <2>2. \A e \in HopPlan(k) : \E u, v \in Roster(k) : e = <<u, v>>
    <3>1. \A e \in Along(lines) : \E u, v \in lines : e = <<u, v>>
      BY DEF Along
    <3>2. \A e \in ends \X {join} : \E u \in lines : e = <<u, join>>
      BY <1>10
    <3> QED
      BY <1>1, <1>2, <3>1, <3>2
  <2>3. ASSUME NEW u, NEW v, <<u, v>> \in HopPlan(k)
        PROVE  /\ u \in Roster(k) /\ v \in Roster(k) /\ Level(k, v) = Level(k, u) + 1
               /\ Slot(k, u, v) \in Nat /\ (Slot(k, u, v) < k.width \/ Slot(k, u, v) < 2)
    <3>1. Slot(k, u, v) \in Nat /\ Slot(k, u, v) < 2
      BY <1>6
    <3>2. CASE <<u, v>> \in Along(lines)
      <4>1. u \in lines /\ v \in lines /\ v.index = u.index + 1
        BY <1>3, <3>2 DEF LinesRise
      <4> QED
        BY <1>1, <1>5, <1>9, <3>1, <4>1
    <3>3. CASE u \in ends /\ v = join
      <4>1. u \in lines /\ u.index = l - 1 /\ u.name # "join"
        BY <1>9, <1>10, <3>3
      <4>2. Level(k, u) = l - 1 /\ Level(k, v) = l
        BY <1>5, <1>7, <3>3, <4>1
      <4> QED
        BY <1>1, <1>8, <3>1, <3>3, <4>1, <4>2
    <3> QED
      BY <1>12, <2>3, <3>2, <3>3
  <2>4. ASSUME NEW a \in Roster(k), Level(k, a) # 0 PROVE \E u : <<u, a>> \in HopPlan(k)
    <3>1. CASE a = join
      <4>1. LastNode(k, "left") \in ends
        BY DEF ends
      <4> QED
        BY <1>12, <3>1, <4>1
    <3>2. CASE a \in lines
      <4>1. a.index # 0
        BY <1>5, <1>9, <2>4, <3>2
      <4> QED
        BY <1>3, <1>12, <3>2, <4>1 DEF LinesRise
    <3> QED
      BY <1>11, <3>1, <3>2
  <2>5. ASSUME NEW u, NEW v, NEW x, NEW y, <<u, v>> \in HopPlan(k), <<x, y>> \in HopPlan(k),
               Level(k, v) = Level(k, y), Slot(k, u, v) = Slot(k, x, y)
        PROVE  u = x /\ v = y
    <3>1. u.name = "left" <=> x.name = "left"
      BY <1>6, <2>5
    <3>2. CASE <<u, v>> \in Along(lines) /\ <<x, y>> \in Along(lines)
      <4>1. /\ u \in lines /\ v \in lines /\ v.name = u.name
            /\ x \in lines /\ y \in lines /\ y.name = x.name
        BY <1>3, <3>2 DEF LinesRise
      <4>2. v.name = y.name /\ v.row = y.row /\ v.index = y.index
        BY <1>5, <1>9, <2>5, <3>1, <4>1
      <4> QED
        BY <1>3, <3>2, <4>2 DEF LinesRise
    <3>3. CASE u \in ends /\ v = join /\ x \in ends /\ y = join
      <4>1. u \in lines /\ x \in lines /\ u.index = l - 1 /\ x.index = l - 1
        BY <1>10, <3>3
      <4>2. u.name = x.name /\ u = Cell(k, u.name, 0, u.index) /\ x = Cell(k, x.name, 0, x.index)
        BY <1>9, <3>1, <4>1
      <4>3. u = Cell(k, x.name, 0, l - 1) /\ x = Cell(k, x.name, 0, l - 1)
        BY <4>1, <4>2
      <4> QED
        BY <3>3, <4>3
    <3>4. ASSUME NEW c, NEW b, <<c, b>> \in Along(lines) PROVE Level(k, b) # Level(k, join)
      <4>1. b \in lines
        BY <1>3, <3>4 DEF LinesRise
      <4> QED
        BY <1>5, <1>7, <1>8, <1>9, <4>1
    <3> QED
      BY <1>12, <2>5, <3>2, <3>3, <3>4
  <2> QED
    BY <2>1, <2>2, <2>3, <2>4, <2>5 DEF LevelsRise
<1>14. RootsFirst(k)
  <2>1. Roots(k) = {a \in Roster(k) : a.index = 0 /\ a.name # "join"}
    BY DEF Roots, IsWriters
  <2>2. Roots(k) = {a \in Roster(k) : Level(k, a) = 0}
    BY <1>5, <1>8, <2>1
  <2>3. A(k, "left", 0) \in Roots(k)
    BY <1>1, <1>9, <1>10, <2>1
  <2>4. ASSUME NEW n \in 0 .. l PROVE \E a \in Roster(k) : Level(k, a) = n
    <3>1. CASE n = l
      BY <1>1, <1>5, <1>7, <3>1
    <3>2. CASE n # l
      <4>1. n \in 0 .. l - 1
        BY <1>8, <3>2
      <4>2. Cell(k, "left", 0, n) \in lines
        <5>1. <<"left", 0>> \in R /\ <<"left", 0>>[1] = "left" /\ <<"left", 0>>[2] = 0
          BY DEF R
        <5> QED
          BY <1>3, <4>1, <5>1 DEF LinesRise
      <4>3. Cell(k, "left", 0, n).index = n /\ Cell(k, "left", 0, n).name = "left"
        BY CellFields
      <4> QED
        BY <1>1, <1>5, <4>2, <4>3
    <3> QED
      BY <3>1, <3>2
  <2> QED
    BY <1>4, <1>8, <2>2, <2>3, <2>4 DEF RootsFirst
<1> QED
  BY <1>13, <1>14

LEMMA WriterLevels ==
  ASSUME NEW k, KernelShape(k), IsWriters(k)
  PROVE  LevelsRise(k) /\ RootsFirst(k)
<1>1. Roster(k) = Crowd(k, "writer")
  BY DEF Roster, IsWriters
<1>2. HopPlan(k) = {}
  BY DEF HopPlan, IsWriters
<1>3. Roots(k) = Roster(k)
  <2>1. Roots(k) = {a \in Roster(k) : a.index = 0 /\ a.name # "join"} \cup Roster(k)
    BY DEF Roots, IsWriters
  <2> QED
    BY <2>1
<1>4. StepCountFor(k) = 1
  BY DEF StepCountFor, IsWriters
<1>5. \A a : Level(k, a) = 0
  BY DEF Level, IsWriters
<1>6. A(k, "writer", 0) \in Roster(k)
  BY <1>1 DEF Crowd, KernelShape
<1>7. \A a \in Roster(k) : a.kernel = k
  BY <1>1, Crowds
<1>8. LevelsRise(k)
  BY <1>2, <1>4, <1>5, <1>7 DEF LevelsRise
<1>9. RootsFirst(k)
  BY <1>3, <1>4, <1>5, <1>6 DEF RootsFirst
<1> QED
  BY <1>8, <1>9

LEMMA Graded == ASSUME NEW k \in Kernels PROVE LevelsRise(k) /\ RootsFirst(k)
<1>1. KernelShape(k)
  BY KernelShapes
<1> QED
  BY <1>1, LineKernels, FanLevels, ForkLevels, MixedLevels, WriterLevels DEF KernelShape, IsWriters
-----------------------------------------------------------------------------
(* The run of a kernel climbs its levels: in step n the agents of level n  *)
(* read what those of level n - 1 have sent them, and are recorded.        *)

Recorded(a) == \E i \in DOMAIN trace : trace[i].agent = a

From(a) == {m \in messages : m.from = a}
To(a) == {m \in messages : m.to = a}
Ids(S) == {m.id : m \in S}

(* M holds one message of agent a to each agent that the plan names.       *)
Sends(k, a, M) ==
  /\ \A m \in M : m.from = a /\ <<a, m.to>> \in HopPlan(k)
  /\ \A m, n \in M : m.to = n.to => m = n
  /\ \A e \in HopPlan(k) : e[1] = a => \E m \in M : m.to = e[2]

(* The level that the stored events will activate.                         *)
Stage == IF phase = "ready" THEN now ELSE now + 1

RecordsAsPlanned ==
  \A i \in DOMAIN trace :
    LET a == trace[i].agent IN
    /\ a \in Roster(kernel) /\ Level(kernel, a) = trace[i].tick
    /\ trace[i].activation[2] = a /\ trace[i].acts = IsWriters(kernel)
    /\ trace[i].parents = Ids(To(a)) /\ trace[i].sent = Ids(From(a))
    /\ \A j \in DOMAIN trace : trace[j].agent = a => j = i

MessagesAsPlanned ==
  /\ \A m \in messages : Recorded(m.from)
  /\ \A a \in Roster(kernel) : Recorded(a) => Sends(kernel, a, From(a))

EventsAsPlanned ==
  /\ \A e \in events : \E m \in messages :
       e.id = m.id /\ e.to = {m.to} /\ Level(kernel, m.to) = Stage
  /\ \A m \in messages : Level(kernel, m.to) = Stage =>
       \E e \in events : e.id = m.id /\ e.to = {m.to}

RequestsAsPlanned ==
  \A r \in requests :
    /\ r.agent \in Roster(kernel) /\ Level(kernel, r.agent) = now
    /\ r.inbox = To(r.agent)
    /\ Pending(r) => ~ Recorded(r.agent)

ResultsAsPlanned ==
  \A res \in results :
    /\ res.events = {} /\ res.acts = IsWriters(kernel)
    /\ Sends(kernel, res.agent, res.messages)

AgentsInTurn ==
  \A a \in Roster(kernel) :
    /\ Level(kernel, a) < Stage =>
         Recorded(a) \/ \E r \in requests : r.agent = a /\ Pending(r)
    /\ ~ Recorded(a) => states[a].cursor = NoMessage

KernelInv ==
  /\ kernel \in Kernels /\ phase \in {"ready", "running"}
  /\ phase = "ready" => actions = <<>> /\ (now = 0 => environment.tick = 0)
  /\ RecordsAsPlanned /\ MessagesAsPlanned /\ EventsAsPlanned
  /\ RequestsAsPlanned /\ ResultsAsPlanned /\ AgentsInTurn
-----------------------------------------------------------------------------
(* The edges into one level, told apart by their slots.                    *)
HopsInto(k, n) == {e \in HopPlan(k) : Level(k, e[2]) = n}

LEMMA Widths == ASSUME NEW k \in Kernels PROVE LevelWidth(k) \in Nat \ {0}
BY KernelShapes DEF KernelShape, LevelWidth

LEMMA HopsFit ==
  ASSUME NEW k \in Kernels, NEW n
  PROVE  IsFiniteSet(HopsInto(k, n)) /\ Cardinality(HopsInto(k, n)) <= LevelWidth(k)
<1> DEFINE S == HopsInto(k, n)
           T == 0 .. LevelWidth(k) - 1
           f == [e \in S |-> Slot(k, e[1], e[2])]
<1>1. LevelsRise(k) /\ LevelWidth(k) \in Nat \ {0} /\ k.width \in Nat
  BY Graded, Widths, KernelShapes DEF KernelShape
<1>2. ASSUME NEW e \in S
      PROVE  <<e[1], e[2]>> \in HopPlan(k) /\ e = <<e[1], e[2]>> /\ Level(k, e[2]) = n
  <2>1. e \in HopPlan(k) /\ Level(k, e[2]) = n
    BY DEF HopsInto
  <2>2. \E u, v \in Roster(k) : e = <<u, v>>
    BY <1>1, <2>1 DEF LevelsRise
  <2> QED
    BY <2>1, <2>2
<1>3. ASSUME NEW e \in S PROVE Slot(k, e[1], e[2]) \in T
  <2>1. /\ Slot(k, e[1], e[2]) \in Nat
        /\ Slot(k, e[1], e[2]) < k.width \/ Slot(k, e[1], e[2]) < 2
    BY <1>1, <1>2 DEF LevelsRise
  <2> QED
    BY <1>1, <2>1 DEF LevelWidth
<1>4. ASSUME NEW e \in S, NEW h \in S, Slot(k, e[1], e[2]) = Slot(k, h[1], h[2]) PROVE e = h
  <2>1. \A u, v, x, y :
          /\ <<u, v>> \in HopPlan(k) /\ <<x, y>> \in HopPlan(k)
          /\ Level(k, v) = Level(k, y) /\ Slot(k, u, v) = Slot(k, x, y)
          => u = x /\ v = y
    BY <1>1 DEF LevelsRise
  <2> DEFINE u == e[1]
             v == e[2]
             x == h[1]
             y == h[2]
  <2>2. /\ <<u, v>> \in HopPlan(k) /\ <<x, y>> \in HopPlan(k)
        /\ Level(k, v) = Level(k, y) /\ Slot(k, u, v) = Slot(k, x, y)
        /\ e = <<u, v>> /\ h = <<x, y>>
    BY <1>2, <1>4
  <2> HIDE DEF u, v, x, y
  <2>3. u = x /\ v = y
    BY <2>1, <2>2
  <2> QED
    BY <2>2, <2>3
<1> HIDE DEF S, T
<1>5. f \in Injection(S, T)
  <2>1. f \in [S -> T]
    BY <1>3
  <2>2. \A e, h \in S : f[e] = f[h] => e = h
    BY <1>4
  <2>3. DOMAIN f = S
    OBVIOUS
  <2> HIDE DEF f
  <2> QED
    BY <2>1, <2>2, <2>3 DEF Injection, IsInjective
<1>6. IsFiniteSet(T) /\ Cardinality(T) = LevelWidth(k)
  <2> DEFINE w == LevelWidth(k) - 1
  <2>1. w \in Int /\ ~ (0 > w) /\ w - 0 + 1 = LevelWidth(k)
    BY <1>1
  <2> HIDE DEF w, f
  <2>2. IsFiniteSet(0 .. w) /\ Cardinality(0 .. w) = w - 0 + 1
    BY <2>1, FS_Interval
  <2> QED
    BY <2>1, <2>2 DEF T, w
<1> QED
  BY <1>5, <1>6, FS_Injection DEF S

(* Whatever is told apart by the edges into one level fits as well.        *)
LEMMA FitsLevel ==
  ASSUME NEW k \in Kernels, NEW n, NEW S, NEW f \in [S -> HopsInto(k, n)],
         \A x, y \in S : f[x] = f[y] => x = y
  PROVE  IsFiniteSet(S) /\ Cardinality(S) <= LevelWidth(k)
<1>1. f \in Injection(S, HopsInto(k, n))
  BY Fun_IsInj
<1>2. IsFiniteSet(HopsInto(k, n)) /\ Cardinality(HopsInto(k, n)) <= LevelWidth(k)
  BY HopsFit
<1>3. IsFiniteSet(S) /\ Cardinality(S) <= Cardinality(HopsInto(k, n))
  BY <1>1, <1>2, FS_Injection
<1>4. Cardinality(S) \in Nat /\ Cardinality(HopsInto(k, n)) \in Nat /\ LevelWidth(k) \in Nat
  BY <1>2, <1>3, FS_CardinalityType, Widths
<1> QED
  BY <1>2, <1>3, <1>4
-----------------------------------------------------------------------------
(* SyntheticExecutionBackend._run_one: one message to each agent planned.  *)

(* A finite set is listed without repetition and completely.               *)
LEMMA Listed ==
  ASSUME NEW S, IsFiniteSet(S)
  PROVE  /\ Len(SetToSeq(S)) \in Nat
         /\ \A i \in 1 .. Len(SetToSeq(S)) : SetToSeq(S)[i] \in S
         /\ \A i, j \in 1 .. Len(SetToSeq(S)) : SetToSeq(S)[i] = SetToSeq(S)[j] => i = j
         /\ \A x \in S : \E i \in 1 .. Len(SetToSeq(S)) : SetToSeq(S)[i] = x
<1> DEFINE n == Cardinality(S)
           f == SetToSeq(S)
<1>1. n \in Nat /\ ExistsBijection(1 .. n, S)
  BY FS_CardinalityType
<1>2. PICK g \in Bijection(1 .. n, S) : TRUE
  BY <1>1 DEF ExistsBijection
<1>3. \E h \in [1 .. n -> S] : IsInjective(h)
  BY <1>2 DEF Bijection, Injection
<1>4. f \in [1 .. n -> S] /\ IsInjective(f)
  BY <1>3 DEF SetToSeq
<1> HIDE DEF f
<1>5. f \in Seq(S) /\ Len(f) = n
  BY <1>1, <1>4
<1>6. \A i, j \in 1 .. n : f[i] = f[j] => i = j
  BY <1>4 DEF IsInjective
<1> HIDE DEF n
<1>7. f \in Injection(1 .. n, S)
  BY <1>4 DEF Injection
<1>8. IsFiniteSet(1 .. n) /\ Cardinality(1 .. n) = n
  BY <1>1, FS_Interval
<1>9. f \in Surjection(1 .. n, S)
  BY <1>7, <1>8, FS_Injection DEF n
<1>10. \A x \in S : \E i \in 1 .. n : f[i] = x
  BY <1>9 DEF Surjection
<1> QED
  BY <1>1, <1>4, <1>5, <1>6, <1>10 DEF f

Targeted(k, a) == {e \in HopPlan(k) : e[1] = a}

LEMMA HopsListed ==
  ASSUME NEW k \in Kernels, NEW a \in Roster(k)
  PROVE  IsFiniteSet({Hop(e[2]) : e \in Targeted(k, a)})
<1> DEFINE n == Level(k, a) + 1
           hop == [e \in Targeted(k, a) |-> Hop(e[2])]
<1>1. LevelsRise(k)
  BY Graded
<1>2. Targeted(k, a) \subseteq HopsInto(k, n)
  <2> SUFFICES ASSUME NEW e \in HopPlan(k), e[1] = a PROVE Level(k, e[2]) = n
    BY DEF Targeted, HopsInto
  <2>1. PICK u, v \in Roster(k) : e = <<u, v>>
    BY <1>1 DEF LevelsRise
  <2>2. <<u, v>> \in HopPlan(k) /\ u = a /\ e[2] = v
    BY <2>1
  <2>3. Level(k, v) = Level(k, u) + 1
    BY <1>1, <2>2 DEF LevelsRise
  <2> QED
    BY <2>2, <2>3
<1>3. IsFiniteSet(Targeted(k, a))
  BY <1>2, HopsFit, FS_Subset
<1>4. IsFiniteSet({hop[e] : e \in Targeted(k, a)})
  BY <1>3, ImageFinite
<1>5. {hop[e] : e \in Targeted(k, a)} = {Hop(e[2]) : e \in Targeted(k, a)}
  OBVIOUS
<1> QED
  BY <1>4, <1>5

LEMMA KernelReply ==
  ASSUME KernelSettings, NEW k \in Kernels, NEW a \in Roster(k)
  PROVE  Replies[a] = {[send |-> SetToSeq({Hop(e[2]) : e \in Targeted(k, a)}),
                        emits |-> <<>>, acts |-> IsWriters(k)]}
<1>1. a.kernel = k
  BY Graded DEF LevelsRise
<1>2. a \in KernelAgents
  BY DEF KernelAgents
<1>3. Replies[a] = {[send |-> SetToSeq({Hop(e[2]) : e \in {h \in HopPlan(a.kernel) : h[1] = a}}),
                     emits |-> <<>>, acts |-> IsWriters(a.kernel)]}
  BY <1>2 DEF KernelSettings, KernelReplies
<1> QED
  BY <1>1, <1>3 DEF Targeted

LEMMA KernelExecute ==
  ASSUME KernelSettings, EngineTypeOK, NEW k \in Kernels,
         NEW r \in todo, Execute(r), r.agent \in Roster(k)
  PROVE  \E res :
           /\ results' = results \cup {res} /\ res.agent = r.agent
           /\ res.events = {} /\ res.acts = IsWriters(k)
           /\ Sends(k, r.agent, res.messages)
<1> DEFINE a == r.agent
           S == {Hop(e[2]) : e \in Targeted(k, a)}
           reply == [send |-> SetToSeq(S), emits |-> <<>>, acts |-> IsWriters(k)]
           q == SetToSeq(S)
           n == Len(q)
           sent == {Sent(r, serial + i, q[i]) : i \in 1 .. n}
           emitted == {Emitted(serial + n + i, <<>>[i], r.activation) : i \in 1 .. 0}
           res == Result(r, NextCursor(r), sent, emitted, IsWriters(k))
<1>1. Completes(r)
  BY DEF Execute, CompletesMalformed, KernelSettings
<1>2. Replies[r.agent] = {reply}
  BY KernelReply
<1>3. results' = results \cup {Result(r, NextCursor(r),
         {Sent(r, serial + i, reply.send[i]) : i \in 1 .. Len(reply.send)},
         {Emitted(serial + Len(reply.send) + i, reply.emits[i], r.activation) :
            i \in 1 .. Len(reply.emits)}, reply.acts)}
  BY <1>1, <1>2 DEF Completes
<1>4. reply.send = q /\ reply.emits = <<>> /\ reply.acts = IsWriters(k) /\ Len(<<>>) = 0
  OBVIOUS
<1> HIDE DEF reply, q
<1>5. results' = results \cup {res}
  BY <1>3, <1>4
<1>6. /\ res.agent = r.agent /\ res.messages = sent /\ res.events = emitted
      /\ res.acts = IsWriters(k)
  BY DEF Result
<1>7. emitted = {}
  OBVIOUS
<1>8. /\ n \in Nat /\ \A i \in 1 .. n : q[i] \in S
      /\ \A i, j \in 1 .. n : q[i] = q[j] => i = j
      /\ \A x \in S : \E i \in 1 .. n : q[i] = x
  <2>1. IsFiniteSet(S)
    BY HopsListed
  <2> HIDE DEF S
  <2> QED
    BY <2>1, Listed DEF q
<1>9. \A x \in S : x = Hop(x.to) /\ \E e \in Targeted(k, a) : x.to = e[2]
  BY DEF Hop
<1>10. \A i \in 1 .. n : /\ Sent(r, serial + i, q[i]).from = a
                         /\ Sent(r, serial + i, q[i]).to = q[i].to
  BY DEF Sent
<1>11. \A m \in sent : \E i \in 1 .. n : m = Sent(r, serial + i, q[i])
  OBVIOUS
<1>12. \A i \in 1 .. n : Sent(r, serial + i, q[i]) \in sent
  OBVIOUS
<1>13. \A e \in Targeted(k, a) : Hop(e[2]) \in S /\ Hop(e[2]).to = e[2]
  BY DEF Hop
<1> HIDE DEF n, sent, emitted, res, S
<1>14. \A e \in Targeted(k, a) : e = <<a, e[2]>>
  <2> SUFFICES ASSUME NEW e \in HopPlan(k), e[1] = a PROVE e = <<a, e[2]>>
    BY DEF Targeted
  <2>1. \E u, v \in Roster(k) : e = <<u, v>>
    BY Graded DEF LevelsRise
  <2> QED
    BY <2>1
<1>15. ASSUME NEW m \in sent PROVE m.from = a /\ <<a, m.to>> \in HopPlan(k)
  <2>1. PICK i \in 1 .. n : m = Sent(r, serial + i, q[i])
    BY <1>11
  <2>2. PICK e \in Targeted(k, a) : q[i].to = e[2]
    BY <1>8, <1>9
  <2>3. m.from = a /\ m.to = e[2]
    BY <1>10, <2>1, <2>2
  <2> QED
    BY <1>14, <2>3 DEF Targeted
<1>16. ASSUME NEW m1 \in sent, NEW m2 \in sent, m1.to = m2.to PROVE m1 = m2
  <2>1. PICK i \in 1 .. n : m1 = Sent(r, serial + i, q[i])
    BY <1>11
  <2>2. PICK j \in 1 .. n : m2 = Sent(r, serial + j, q[j])
    BY <1>11
  <2>3. q[i].to = q[j].to
    BY <1>10, <1>16, <2>1, <2>2
  <2>4. q[i] = q[j]
    BY <1>8, <1>9, <2>3
  <2> QED
    BY <1>8, <2>1, <2>2, <2>4
<1>17. ASSUME NEW e \in HopPlan(k), e[1] = a PROVE \E m \in sent : m.to = e[2]
  <2>1. e \in Targeted(k, a)
    BY <1>17 DEF Targeted
  <2>2. PICK i \in 1 .. n : q[i] = Hop(e[2])
    BY <1>8, <1>13, <2>1
  <2> QED
    BY <1>10, <1>12, <1>13, <2>1, <2>2
<1> QED
  BY <1>5, <1>6, <1>7, <1>15, <1>16, <1>17 DEF Sends
-----------------------------------------------------------------------------
(* What the parts of the invariant say together.                           *)

LEMMA RecordedLevel ==
  ASSUME EngineTypeOK, TicksInOrder, RecordsAsPlanned, NEW a, Recorded(a)
  PROVE  /\ a \in Roster(kernel) /\ Level(kernel, a) <= now
         /\ phase = "ready" => Level(kernel, a) < now
         /\ Level(kernel, a) < Stage
<1>1. PICK i \in DOMAIN trace : trace[i].agent = a
  BY DEF Recorded
<1>2. now \in Nat /\ trace[i].tick \in Nat
  BY TraceTypes
<1>3. a \in Roster(kernel) /\ Level(kernel, a) = trace[i].tick
  BY <1>1 DEF RecordsAsPlanned
<1>4. trace[i].tick <= now /\ (phase = "ready" => trace[i].tick < now)
  BY DEF TicksInOrder
<1> QED
  BY <1>2, <1>3, <1>4 DEF Stage

LEMMA MessagePath ==
  ASSUME EngineTypeOK, TicksInOrder, RecordsAsPlanned, MessagesAsPlanned, kernel \in Kernels,
         NEW m \in messages
  PROVE  /\ <<m.from, m.to>> \in HopPlan(kernel) /\ Recorded(m.from)
         /\ m.from \in Roster(kernel) /\ m.to \in Roster(kernel)
         /\ Level(kernel, m.from) \in Nat /\ Level(kernel, m.to) = Level(kernel, m.from) + 1
         /\ Level(kernel, m.to) <= Stage
<1>1. Recorded(m.from)
  BY DEF MessagesAsPlanned
<1>2. m.from \in Roster(kernel) /\ Level(kernel, m.from) < Stage
  BY <1>1, RecordedLevel
<1>3. Sends(kernel, m.from, From(m.from)) /\ m \in From(m.from)
  BY <1>1, <1>2 DEF MessagesAsPlanned, From
<1>4. <<m.from, m.to>> \in HopPlan(kernel)
  BY <1>3 DEF Sends
<1>5. LevelsRise(kernel)
  BY Graded
<1>6. /\ m.to \in Roster(kernel) /\ Level(kernel, m.to) = Level(kernel, m.from) + 1
      /\ Level(kernel, m.from) \in Nat
  BY <1>2, <1>4, <1>5 DEF LevelsRise
<1>7. Stage \in Nat
  BY TraceTypes DEF Stage
<1> QED
  BY <1>1, <1>2, <1>4, <1>6, <1>7

LEMMA OneMessage ==
  ASSUME EngineTypeOK, TicksInOrder, RecordsAsPlanned, MessagesAsPlanned, kernel \in Kernels,
         NEW m \in messages, NEW n \in messages, m.from = n.from, m.to = n.to
  PROVE  m = n
<1>1. Recorded(m.from) /\ m.from \in Roster(kernel)
  BY MessagePath
<1>2. Sends(kernel, m.from, From(m.from)) /\ m \in From(m.from) /\ n \in From(m.from)
  BY <1>1 DEF MessagesAsPlanned, From
<1> QED
  BY <1>2 DEF Sends

LEMMA MessagesFit ==
  ASSUME EngineTypeOK, TicksInOrder, RecordsAsPlanned, MessagesAsPlanned, kernel \in Kernels,
         NEW n, NEW S \in SUBSET messages, \A m \in S : Level(kernel, m.to) = n
  PROVE  IsFiniteSet(S) /\ Cardinality(S) <= LevelWidth(kernel)
<1> DEFINE f == [m \in S |-> <<m.from, m.to>>]
<1>1. ASSUME NEW m \in S PROVE <<m.from, m.to>> \in HopsInto(kernel, n)
  BY MessagePath DEF HopsInto
<1>2. f \in [S -> HopsInto(kernel, n)]
  BY <1>1
<1>3. ASSUME NEW x \in S, NEW y \in S, f[x] = f[y] PROVE x = y
  <2>1. x.from = y.from /\ x.to = y.to
    BY <1>3
  <2> QED
    BY <2>1, OneMessage
<1> HIDE DEF f
<1> QED
  BY <1>2, <1>3, FitsLevel

(* No level of a kernel needs more than one load of events.                *)
LEMMA EventsFit ==
  ASSUME IInv, TicksInOrder, KernelInv, KernelSettings
  PROVE  IsFiniteSet(events) /\ Cardinality(events) <= MaxEventsPerTick
<1> DEFINE Origin(e) == CHOOSE m \in messages : m.id = e.id
           S == {m \in messages : Level(kernel, m.to) = Stage}
           f == [e \in events |-> Origin(e)]
<1>1. EngineTypeOK /\ UniqueIds(events)
  BY DEF IInv, IdInv
<1>2. ASSUME NEW e \in events PROVE Origin(e) \in S /\ Origin(e).id = e.id
  <2>1. PICK m \in messages : e.id = m.id /\ Level(kernel, m.to) = Stage
    BY DEF KernelInv, EventsAsPlanned
  <2>2. UniqueIds(messages)
    BY DEF IInv, IdInv
  <2>3. Origin(e) = m
    BY <2>1, <2>2 DEF UniqueIds
  <2> QED
    BY <2>1, <2>3
<1>3. IsFiniteSet(S) /\ Cardinality(S) <= LevelWidth(kernel)
  BY <1>1, MessagesFit DEF KernelInv
<1> HIDE DEF S, Origin
<1>4. f \in [events -> S] /\ DOMAIN f = events
  BY <1>2
<1>5. \A x, y \in events : f[x] = f[y] => x = y
  BY <1>1, <1>2 DEF UniqueIds
<1> HIDE DEF f
<1>6. f \in Injection(events, S)
  BY <1>4, <1>5 DEF Injection, IsInjective
<1>7. IsFiniteSet(events) /\ Cardinality(events) <= Cardinality(S)
  BY <1>3, <1>6, FS_Injection
<1>8. LevelWidth(kernel) <= MaxEventsPerTick /\ LevelWidth(kernel) \in Nat /\ MaxEventsPerTick \in Nat
  BY Widths, EngineAssumption DEF KernelInv, KernelSettings
<1>9. Cardinality(events) \in Nat /\ Cardinality(S) \in Nat
  BY <1>3, <1>7, FS_CardinalityType
<1> QED
  BY <1>3, <1>7, <1>8, <1>9

(* pop_ready takes all events, if they are due and not too many.           *)
LEMMA AllReady ==
  ASSUME IInv, IsFiniteSet(events), Cardinality(events) <= MaxEventsPerTick,
         \A e \in events : e.due <= now
  PROVE  Ready(now, MaxEventsPerTick) = events
<1>1. Due(now) = events
  BY DEF Due
<1>2. ASSUME NEW e \in events
      PROVE  Cardinality({f \in events : PopsBefore(f, e)}) < MaxEventsPerTick
  <2> DEFINE before == {f \in events : PopsBefore(f, e)}
  <2>1. e.prio \in Int /\ e.due \in Nat /\ e.made \in Nat /\ e.id \in Nat
    BY DEF IInv, EngineTypeOK, EventRecord
  <2>2. e \notin before /\ before \subseteq events
    BY <2>1 DEF PopsBefore
  <2> HIDE DEF before
  <2>3. /\ IsFiniteSet(before) /\ Cardinality(before) <= Cardinality(events)
        /\ (Cardinality(before) = Cardinality(events) => before = events)
    BY <2>2, FS_Subset
  <2>4. Cardinality(before) \in Nat /\ Cardinality(events) \in Nat /\ MaxEventsPerTick \in Nat
    BY <2>3, FS_CardinalityType, EngineAssumption
  <2>5. Cardinality(before) # Cardinality(events)
    BY <2>2, <2>3
  <2> QED
    BY <2>3, <2>4, <2>5 DEF before
<1> QED
  BY <1>1, <1>2 DEF Ready

(* An agent that has not run yet reads all it was sent.                    *)
LEMMA FirstInbox ==
  ASSUME IInv, CursorInv, TicksInOrder, KernelInv, KernelSettings,
         NEW a \in Roster(kernel), ~ Recorded(a)
  PROVE  a \in Agents /\ Inbox(a, InboxLimit, states[a].cursor) = To(a)
<1>1. EngineTypeOK /\ kernel \in Kernels
  BY DEF IInv, KernelInv
<1>2. a \in Agents
  BY <1>1 DEF KernelSettings, KernelAgents
<1>3. states[a].cursor = 0
  BY EngineAssumption DEF KernelInv, AgentsInTurn
<1>4. Unread(a) = To(a)
  <2>1. \A m \in messages : m.id \in Nat /\ 0 < m.id
    BY <1>1 DEF CursorInv, EngineTypeOK, MessageRecord
  <2>2. Unread(a) = {m \in messages : m.to = a /\ states[a].cursor < m.id}
    BY <1>2, UnreadIds
  <2> QED
    BY <1>3, <2>1, <2>2 DEF To
<1>5. InboxFits(a)
  <2>1. To(a) \in SUBSET messages /\ \A m \in To(a) : Level(kernel, m.to) = Level(kernel, a)
    BY DEF To
  <2>2. IsFiniteSet(To(a)) /\ Cardinality(To(a)) <= LevelWidth(kernel)
    BY <1>1, <2>1, MessagesFit DEF KernelInv
  <2>3. LevelWidth(kernel) <= InboxLimit /\ LevelWidth(kernel) \in Nat /\ InboxLimit \in Nat
        /\ Cardinality(To(a)) \in Nat
    BY <1>1, <2>2, FS_CardinalityType, Widths, EngineAssumption DEF KernelSettings
  <2> QED
    BY <1>4, <2>2, <2>3 DEF InboxFits
<1> QED
  BY <1>2, <1>4, <1>5, InboxOfAll
-----------------------------------------------------------------------------
(* The steps of a kernel run, one by one.                                  *)

(* The events activate the agents of the present level and no others.      *)
ForLevel(ready) ==
  /\ \A e \in ready : \A a \in Targets(e) : a \in Roster(kernel) /\ Level(kernel, a) = now
  /\ \A a \in Roster(kernel) : Level(kernel, a) = now => \E e \in ready : a \in Targets(e)

LEMMA KernelBegin ==
  ASSUME IInv, CursorInv, TicksInOrder, KernelInv, KernelSettings, phase = "ready",
         NEW ready \in SUBSET EventRecord, IsFiniteSet(ready), ForLevel(ready),
         BuildRequests(ready), UNCHANGED <<states, messages, kernel>>, events' = {}
  PROVE  KernelInv'
<1>1. /\ phase' = "running" /\ UNCHANGED <<now, results, actions, trace>>
      /\ requests' = {Context(p[1], p[2]) : p \in Plan(ready)} /\ todo' = requests'
  BY DEF BuildRequests
<1>2. results = {} /\ kernel \in Kernels /\ EngineTypeOK /\ now \in Nat
  BY TraceTypes DEF IInv, StepInv, KernelInv
<1>3. \A a : Recorded(a)' <=> Recorded(a)
  BY <1>1 DEF Recorded
<1>4. \A a : From(a)' = From(a) /\ To(a)' = To(a)
  BY DEF From, To
<1>5. Stage = now /\ Stage' = now + 1
  BY <1>1 DEF Stage
<1>6. RecordsAsPlanned'
  BY <1>1, <1>4 DEF KernelInv, RecordsAsPlanned
<1>7. MessagesAsPlanned'
  BY <1>3, <1>4 DEF KernelInv, MessagesAsPlanned
<1>8. EventsAsPlanned'
  <2>1. ASSUME NEW m \in messages PROVE Level(kernel, m.to) # now + 1
    <3>1. /\ Level(kernel, m.to) <= Stage /\ Level(kernel, m.from) \in Nat
          /\ Level(kernel, m.to) = Level(kernel, m.from) + 1
      BY <1>2, MessagePath DEF KernelInv
    <3> QED
      BY <1>2, <1>5, <3>1
  <2> QED
    BY <1>1, <1>5, <2>1 DEF EventsAsPlanned
<1>9. ASSUME NEW r \in requests'
      PROVE  /\ r.agent \in Roster(kernel) /\ Level(kernel, r.agent) = now
             /\ r.inbox = To(r.agent) /\ ~ Recorded(r.agent)
  <2>1. PICK p \in Plan(ready) : r = Context(p[1], p[2])
    BY <1>1
  <2> DEFINE e == p[1]
             a == p[2]
  <2>2. e \in ready /\ a \in Targets(e)
    BY DEF Plan
  <2>3. a \in Roster(kernel) /\ Level(kernel, a) = now
    BY <2>2 DEF ForLevel
  <2>4. ~ Recorded(a)
    <3>1. Recorded(a) => Level(kernel, a) < now
      BY <1>2, RecordedLevel DEF KernelInv
    <3> QED
      BY <1>2, <2>3, <3>1
  <2>5. r.agent = a /\ r.inbox = Inbox(a, InboxLimit, states[a].cursor)
    BY <2>1 DEF Context
  <2>6. r.inbox = To(a)
    BY <2>3, <2>4, <2>5, FirstInbox
  <2> QED
    BY <2>3, <2>4, <2>5, <2>6
<1>10. RequestsAsPlanned'
  BY <1>1, <1>3, <1>4, <1>9 DEF RequestsAsPlanned
<1>11. ResultsAsPlanned'
  BY <1>1, <1>2 DEF ResultsAsPlanned
<1>12. ASSUME NEW a \in Roster(kernel), Level(kernel, a) = now
       PROVE  \E r \in requests' : r.agent = a
  <2>1. PICK e \in ready : a \in Targets(e)
    BY <1>12 DEF ForLevel
  <2>2. a \in Agents
    BY <1>2 DEF KernelSettings, KernelAgents
  <2>3. PICK f \in ready : <<f, a>> \in Plan(ready)
    BY <2>1, <2>2, PlanCovers
  <2>4. Context(f, a) \in requests'
    BY <1>1, <2>3
  <2> QED
    BY <2>4 DEF Context
<1>13. AgentsInTurn'
  <2> SUFFICES ASSUME NEW a \in Roster(kernel)
               PROVE  /\ Level(kernel, a) < now + 1 =>
                           Recorded(a) \/ \E r \in requests' : r.agent = a
                      /\ ~ Recorded(a) => states[a].cursor = NoMessage
    BY <1>1, <1>3, <1>5 DEF AgentsInTurn, Pending
  <2>1. Level(kernel, a) \in Nat
    BY <1>2, Graded DEF LevelsRise
  <2>2. /\ Level(kernel, a) < now => Recorded(a)
        /\ ~ Recorded(a) => states[a].cursor = NoMessage
    <3>1. requests = {}
      BY DEF IInv, StepInv
    <3> QED
      BY <1>5, <3>1 DEF KernelInv, AgentsInTurn
  <2> QED
    BY <1>2, <1>12, <2>1, <2>2
<1> QED
  BY <1>1, <1>2, <1>6, <1>7, <1>8, <1>10, <1>11, <1>13 DEF KernelInv

(* The agents of a level that is not the first were all sent something.    *)
LEMMA LevelIsAwaited ==
  ASSUME IInv, TicksInOrder, KernelInv, phase = "ready", now # 0,
         NEW a \in Roster(kernel), Level(kernel, a) = now
  PROVE  \E e \in events : e.to = {a}
<1>1. kernel \in Kernels /\ EngineTypeOK /\ now \in Nat /\ Stage = now
  BY TraceTypes DEF IInv, KernelInv, Stage
<1>2. LevelsRise(kernel)
  BY <1>1, Graded
<1>3. PICK u : <<u, a>> \in HopPlan(kernel)
  BY <1>2 DEF LevelsRise
<1>4. u \in Roster(kernel) /\ Level(kernel, a) = Level(kernel, u) + 1
  BY <1>2, <1>3 DEF LevelsRise
<1>5. Level(kernel, u) \in Nat
  BY <1>2, <1>4 DEF LevelsRise
<1>6. Recorded(u)
  <2>1. requests = {}
    BY DEF IInv, StepInv
  <2>2. Level(kernel, u) < Stage
    BY <1>1, <1>4, <1>5
  <2> QED
    BY <1>4, <2>1, <2>2 DEF KernelInv, AgentsInTurn
<1>7. Sends(kernel, u, From(u))
  BY <1>4, <1>6 DEF KernelInv, MessagesAsPlanned
<1>8. PICK m \in messages : m.to = a
  <2> DEFINE h == <<u, a>>
  <2>1. h \in HopPlan(kernel) /\ h[1] = u /\ h[2] = a
    BY <1>3
  <2> HIDE DEF h
  <2>2. \E m \in From(u) : m.to = h[2]
    BY <1>7, <2>1 DEF Sends
  <2> QED
    BY <2>1, <2>2 DEF From
<1> QED
  BY <1>1, <1>8 DEF KernelInv, EventsAsPlanned

LEMMA KernelLoads ==
  ASSUME IInv, CursorInv, DueInv, TicksInOrder, KernelInv, KernelSettings,
         LoadEvents, UNCHANGED kernel
  PROVE  KernelInv'
<1>1. /\ phase = "ready" /\ BuildRequests(Ready(now, MaxEventsPerTick))
      /\ Ready(now, MaxEventsPerTick) # {}
      /\ events' = events \ Ready(now, MaxEventsPerTick) /\ UNCHANGED <<states, messages>>
  BY DEF LoadEvents, PopReady
<1>2. kernel \in Kernels /\ EngineTypeOK /\ now \in Nat /\ Stage = now /\ requests = {}
  BY <1>1, TraceTypes DEF IInv, KernelInv, StepInv, Stage
<1>3. IsFiniteSet(events) /\ Cardinality(events) <= MaxEventsPerTick
  BY EventsFit
<1>4. Ready(now, MaxEventsPerTick) = events
  <2>1. \A e \in events : e.due <= now
    BY <1>1 DEF DueInv
  <2> QED
    BY <1>3, <2>1, AllReady
<1>5. ASSUME NEW e \in events
      PROVE  \E m \in messages : e.to = {m.to} /\ Level(kernel, m.to) = now /\ Targets(e) = {m.to}
  <2>1. PICK m \in messages : e.to = {m.to} /\ Level(kernel, m.to) = now
    BY <1>2 DEF KernelInv, EventsAsPlanned
  <2>2. m.to \in Agents
    <3>1. m.to \in Roster(kernel)
      BY <1>2, MessagePath DEF KernelInv
    <3> QED
      BY <1>2, <3>1 DEF KernelSettings, KernelAgents
  <2> QED
    BY <2>1, <2>2 DEF Targets
<1>6. now # 0
  <2>1. PICK m \in messages : Level(kernel, m.to) = now
    BY <1>1, <1>4, <1>5
  <2>2. Level(kernel, m.from) \in Nat /\ Level(kernel, m.to) = Level(kernel, m.from) + 1
    BY <1>2, MessagePath DEF KernelInv
  <2> QED
    BY <2>1, <2>2
<1>7. ForLevel(events)
  <2>1. ASSUME NEW e \in events, NEW a \in Targets(e)
        PROVE  a \in Roster(kernel) /\ Level(kernel, a) = now
    <3>1. PICK m \in messages : Level(kernel, m.to) = now /\ Targets(e) = {m.to}
      BY <1>5
    <3>2. m.to \in Roster(kernel)
      BY <1>2, MessagePath DEF KernelInv
    <3> QED
      BY <3>1, <3>2
  <2>2. ASSUME NEW a \in Roster(kernel), Level(kernel, a) = now
        PROVE  \E e \in events : a \in Targets(e)
    <3>1. PICK e \in events : e.to = {a}
      BY <1>1, <1>6, <2>2, LevelIsAwaited
    <3>2. a \in Targets(e)
      BY <1>5, <3>1
    <3> QED
      BY <3>2
  <2> QED
    BY <2>1, <2>2 DEF ForLevel
<1>8. events' = {} /\ events \in SUBSET EventRecord
  BY <1>1, <1>2, <1>4 DEF EngineTypeOK
<1> QED
  BY <1>1, <1>3, <1>4, <1>7, <1>8, KernelBegin

LEMMA KernelTicks ==
  ASSUME IInv, IInv', CursorInv, DueInv, TicksInOrder, KernelInv, KernelSettings,
         Tick, now < StepCountFor(kernel), UNCHANGED kernel
  PROVE  KernelInv'
<1>1. /\ phase = "ready" /\ Ready(now, MaxEventsPerTick) = {}
      /\ UNCHANGED <<states, messages, events>>
  BY DEF Tick, AdvanceEnvironment, storeVars
<1>2. kernel \in Kernels /\ EngineTypeOK /\ now \in Nat /\ Stage = now
  BY <1>1, TraceTypes DEF IInv, KernelInv, Stage
<1>3. events = {}
  <2>1. \A e \in events : e.due <= now
    BY <1>1 DEF DueInv
  <2>2. MaxEventsPerTick >= 1
    BY <1>2, Widths, EngineAssumption DEF KernelSettings
  <2> QED
    BY <1>1, <2>1, <2>2, NothingLeft
<1>4. RootsFirst(kernel)
  BY <1>2, Graded
<1>5. now = 0
  <2> SUFFICES ASSUME now # 0 PROVE FALSE
    OBVIOUS
  <2>1. now \in 0 .. StepCountFor(kernel) - 1
    BY <1>2, <1>4 DEF RootsFirst
  <2>2. PICK a \in Roster(kernel) : Level(kernel, a) = now
    BY <1>4, <2>1 DEF RootsFirst
  <2> QED
    BY <1>1, <1>3, <2>2, LevelIsAwaited
<1>6. environment.tick = 0
  BY <1>1, <1>5 DEF KernelInv
<1>7. PICK s \in Emissions :
        BuildRequests({Emitted(serial + i, s[i], NoActivation) : i \in DOMAIN s})
  BY DEF Tick, AdvanceEnvironment
<1> DEFINE ready == {Emitted(serial + i, s[i], NoActivation) : i \in DOMAIN s}
<1>8. batch' = ready
  BY <1>7 DEF BuildRequests
<1>9. PICK e \in batch' : e.to = Roots(kernel)
  BY <1>6 DEF Tick
<1>10. ready = {e}
  <2>1. s = <<>> \/ \E k \in Kernels : s = <<RootEvent(k)>>
    BY DEF KernelSettings, KernelEmissions
  <2>2. s # <<>>
    BY <1>8, <1>9
  <2>3. PICK k \in Kernels : s = <<RootEvent(k)>>
    BY <2>1, <2>2
  <2>4. ready = {Emitted(serial + 1, s[1], NoActivation)}
    BY <2>3
  <2> HIDE DEF ready
  <2> QED
    BY <1>8, <1>9, <2>4
<1>11. Targets(e) = Roots(kernel)
  <2>1. Roots(kernel) # {} /\ Roots(kernel) \subseteq Roster(kernel)
    BY <1>4 DEF RootsFirst
  <2>2. Roster(kernel) \subseteq Agents
    BY <1>2 DEF KernelSettings, KernelAgents
  <2> QED
    BY <1>9, <2>1, <2>2 DEF Targets
<1> HIDE DEF ready
<1>12. ForLevel(ready)
  <2>1. \A a : a \in Roots(kernel) <=> a \in Roster(kernel) /\ Level(kernel, a) = 0
    BY <1>4 DEF RootsFirst
  <2> QED
    BY <1>5, <1>10, <1>11, <2>1 DEF ForLevel
<1>13. ready \in SUBSET EventRecord /\ IsFiniteSet(ready)
  <2>1. batch' \subseteq EventRecord
    BY DEF IInv, EngineTypeOK
  <2> QED
    BY <1>8, <1>10, <2>1, FS_Singleton
<1>14. BuildRequests(ready)
  BY <1>7 DEF ready
<1> QED
  BY <1>1, <1>3, <1>12, <1>13, <1>14, KernelBegin

LEMMA KernelExecutes ==
  ASSUME IInv, KernelInv, KernelSettings, NEW r \in todo, Execute(r), UNCHANGED kernel
  PROVE  KernelInv'
<1>1. EngineTypeOK /\ r \in requests /\ kernel \in Kernels
  BY DEF IInv, EngineTypeOK, KernelInv
<1>2. /\ UNCHANGED <<states, messages, events, phase, now, requests, actions, environment, trace>>
      /\ todo' = todo \ {r} /\ phase = "running"
  BY WorkEffect
<1>3. r.agent \in Roster(kernel)
  BY <1>1 DEF KernelInv, RequestsAsPlanned
<1>4. PICK res : /\ results' = results \cup {res} /\ res.agent = r.agent
                 /\ res.events = {} /\ res.acts = IsWriters(kernel)
                 /\ Sends(kernel, r.agent, res.messages)
  BY <1>1, <1>3, KernelExecute
<1>5. \A q \in requests : Pending(q)' <=> Pending(q)
  <2>1. \A q \in requests : q.agent = r.agent => q = r
    BY <1>1 DEF IInv, StepInv
  <2> QED
    BY <1>1, <1>2, <1>4, <2>1 DEF Pending
<1>6. \A a : Recorded(a)' <=> Recorded(a)
  BY <1>2 DEF Recorded
<1>7. (\A a : From(a)' = From(a) /\ To(a)' = To(a)) /\ Stage' = Stage
  BY <1>2 DEF From, To, Stage
<1>8. RecordsAsPlanned' /\ MessagesAsPlanned' /\ EventsAsPlanned'
  BY <1>2, <1>6, <1>7 DEF KernelInv, RecordsAsPlanned, MessagesAsPlanned, EventsAsPlanned
<1>9. RequestsAsPlanned'
  BY <1>2, <1>5, <1>6, <1>7 DEF KernelInv, RequestsAsPlanned
<1>10. ResultsAsPlanned'
  BY <1>4 DEF KernelInv, ResultsAsPlanned
<1>11. AgentsInTurn'
  BY <1>2, <1>5, <1>6, <1>7 DEF KernelInv, AgentsInTurn
<1> QED
  BY <1>2, <1>8, <1>9, <1>10, <1>11 DEF KernelInv

(* Nothing but real time changes.                                          *)
LEMMA KernelRests ==
  ASSUME KernelInv,
         UNCHANGED <<states, messages, events, phase, now, requests, todo, results, actions,
                     environment, trace, kernel>>
  PROVE  KernelInv'
<1>1. \A q \in requests : Pending(q)' <=> Pending(q)
  BY DEF Pending
<1>2. \A a : (Recorded(a)' <=> Recorded(a)) /\ From(a)' = From(a) /\ To(a)' = To(a)
  BY DEF Recorded, From, To
<1>3. Stage' = Stage
  BY DEF Stage
<1>4. RecordsAsPlanned' /\ MessagesAsPlanned' /\ EventsAsPlanned'
  BY <1>2, <1>3 DEF KernelInv, RecordsAsPlanned, MessagesAsPlanned, EventsAsPlanned
<1>5. RequestsAsPlanned' /\ ResultsAsPlanned' /\ AgentsInTurn'
  BY <1>1, <1>2, <1>3 DEF KernelInv, RequestsAsPlanned, ResultsAsPlanned, AgentsInTurn
<1> QED
  BY <1>4, <1>5 DEF KernelInv

LEMMA KernelFinishes ==
  ASSUME IInv, KernelInv, FinishStep, UNCHANGED kernel
  PROVE  KernelInv'
<1>1. /\ phase = "running" /\ todo = {} /\ results = {} /\ phase' = "ready"
      /\ requests' = {} /\ now' = now + 1 /\ actions' = <<>> /\ results' = {}
      /\ UNCHANGED <<states, messages, events, trace>>
  BY FinishEffect
<1>2. now \in Nat
  BY TraceTypes DEF IInv
<1>3. Stage' = Stage /\ Stage = now + 1
  BY <1>1 DEF Stage
<1>4. \A a : (Recorded(a)' <=> Recorded(a)) /\ From(a)' = From(a) /\ To(a)' = To(a)
  BY <1>1 DEF Recorded, From, To
<1>5. RecordsAsPlanned' /\ MessagesAsPlanned' /\ EventsAsPlanned'
  BY <1>1, <1>3, <1>4 DEF KernelInv, RecordsAsPlanned, MessagesAsPlanned, EventsAsPlanned
<1>6. RequestsAsPlanned' /\ ResultsAsPlanned'
  BY <1>1 DEF RequestsAsPlanned, ResultsAsPlanned
<1>7. AgentsInTurn'
  <2>1. \A r \in requests : ~ Pending(r)
    BY <1>1 DEF Pending
  <2> QED
    BY <1>1, <1>3, <1>4, <2>1 DEF KernelInv, AgentsInTurn
<1> QED
  BY <1>1, <1>2, <1>5, <1>6, <1>7 DEF KernelInv

LEMMA KernelCommits ==
  ASSUME IInv, IInv', TicksInOrder, KernelInv, KernelSettings,
         NEW res \in results, CommitResult(res), UNCHANGED kernel
  PROVE  KernelInv'
<1> DEFINE a == res.agent
           M == res.messages
           n == Len(trace) + 1
<1>1. PICK req \in requests :
        /\ phase = "running" /\ todo = {} /\ req.agent = a
        /\ states' = [states EXCEPT ![a] = res.state]
        /\ messages' = messages \cup Deliverable(M)
        /\ events' = events \cup {Arrival(m) : m \in Deliverable(M)} \cup res.events
        /\ trace' = Append(trace, Step(req, res)) /\ results' = results \ {res}
        /\ UNCHANGED <<phase, now, requests, todo>>
        /\ actions' = IF res.acts THEN Append(actions, req.activation) ELSE actions
        /\ environment' = environment
  BY CommitEffect
<1>2. EngineTypeOK /\ EngineTypeOK' /\ kernel \in Kernels /\ now \in Nat
      /\ Stage = now + 1 /\ Stage' = now + 1
  BY <1>1, TraceTypes DEF IInv, KernelInv, Stage
<1>3. LevelsRise(kernel) /\ Roster(kernel) \subseteq Agents
  BY <1>2, Graded DEF KernelSettings, KernelAgents
<1>4. /\ a \in Roster(kernel) /\ Level(kernel, a) = now /\ ~ Recorded(a)
      /\ req.inbox = To(a) /\ req.activation[2] = a
  <2>1. Pending(req)
    BY <1>1 DEF Pending
  <2>2. req.activation = <<req.trigger.id, req.agent>>
    BY DEF IInv, StepInv
  <2> QED
    BY <1>1, <2>1, <2>2 DEF KernelInv, RequestsAsPlanned
<1>5. res.events = {} /\ res.acts = IsWriters(kernel) /\ Sends(kernel, a, M)
  BY DEF KernelInv, ResultsAsPlanned
<1>6. \A m \in M : m.from = a /\ m.to \in Roster(kernel) /\ Level(kernel, m.to) = now + 1
  BY <1>3, <1>4, <1>5 DEF Sends, LevelsRise
<1>7. Deliverable(M) = M
  BY <1>3, <1>6 DEF Deliverable
<1>8. messages' = messages \cup M /\ events' = events \cup {Arrival(m) : m \in M}
  BY <1>1, <1>5, <1>7
<1>9. Step(req, res).agent = a /\ Step(req, res).activation = req.activation
      /\ Step(req, res).tick = now /\ Step(req, res).acts = res.acts
      /\ Step(req, res).parents = Ids(To(a)) /\ Step(req, res).sent = Ids(M)
  BY <1>1, <1>4, <1>7 DEF Step, Ids
<1> DEFINE t == Step(req, res)
<1> HIDE DEF t
<1>10. /\ DOMAIN trace' = DOMAIN trace \cup {n}
       /\ \A i \in DOMAIN trace : trace'[i] = trace[i]
       /\ trace'[n] = t
  BY <1>1, <1>2, TraceGrows DEF t
<1> HIDE DEF n
<1>11. ASSUME NEW b PROVE Recorded(b)' <=> Recorded(b) \/ b = a
  BY <1>9, <1>10 DEF Recorded, t
<1>12. From(a) = {}
  BY <1>4 DEF KernelInv, MessagesAsPlanned, From
<1> HIDE DEF a, M
<1>13. From(a)' = M
  BY <1>6, <1>8, <1>12 DEF From
<1>14. ASSUME NEW b, b # a PROVE From(b)' = From(b)
  BY <1>6, <1>8, <1>14 DEF From
<1>15. ASSUME NEW b, b \in Roster(kernel), Level(kernel, b) <= now PROVE To(b)' = To(b)
  <2>1. \A m \in M : m.to # b
    <3>1. Level(kernel, b) # now + 1
      BY <1>2, <1>3, <1>15 DEF LevelsRise
    <3> QED
      BY <1>6, <3>1
  <2> QED
    BY <1>8, <2>1 DEF To
<1>16. \A b : Recorded(b) => b \in Roster(kernel) /\ Level(kernel, b) <= now /\ b # a
  BY <1>2, <1>4, RecordedLevel DEF KernelInv
<1>17. RecordsAsPlanned'
  <2>1. ASSUME NEW i \in DOMAIN trace', NEW b, b = trace'[i].agent
        PROVE  /\ b \in Roster(kernel) /\ Level(kernel, b) = trace'[i].tick
               /\ trace'[i].activation[2] = b /\ trace'[i].acts = IsWriters(kernel)
               /\ trace'[i].parents = Ids(To(b)') /\ trace'[i].sent = Ids(From(b)')
               /\ \A j \in DOMAIN trace' : trace'[j].agent = b => j = i
    <3>1. CASE i \in DOMAIN trace
      <4>1. Recorded(b) /\ trace'[i] = trace[i]
        BY <1>10, <2>1, <3>1 DEF Recorded
      <4>2. To(b)' = To(b) /\ From(b)' = From(b) /\ b # a
        BY <1>14, <1>15, <1>16, <4>1
      <4>3. \A j \in DOMAIN trace' : trace'[j].agent = b => j = i
        <5>1. \A j \in DOMAIN trace : trace[j].agent = b => j = i
          BY <2>1, <3>1, <4>1 DEF KernelInv, RecordsAsPlanned
        <5> QED
          BY <1>9, <1>10, <4>2, <5>1 DEF t
      <4> QED
        BY <2>1, <3>1, <4>1, <4>2, <4>3 DEF KernelInv, RecordsAsPlanned
    <3>2. CASE i \notin DOMAIN trace
      <4>1. i = n /\ trace'[i] = t /\ b = a
        BY <1>9, <1>10, <2>1, <3>2 DEF t
      <4>2. \A j \in DOMAIN trace' : trace'[j].agent = b => j = i
        BY <1>4, <1>10, <4>1 DEF Recorded
      <4>3. To(b)' = To(b)
        BY <1>2, <1>4, <1>15, <4>1
      <4> QED
        BY <1>4, <1>5, <1>9, <1>13, <4>1, <4>2, <4>3 DEF t
    <3> QED
      BY <3>1, <3>2
  <2> QED
    BY <2>1 DEF RecordsAsPlanned, Ids
<1>18. MessagesAsPlanned'
  <2>1. ASSUME NEW m \in messages' PROVE Recorded(m.from)'
    BY <1>6, <1>8, <1>11 DEF KernelInv, MessagesAsPlanned
  <2>2. ASSUME NEW b \in Roster(kernel), Recorded(b)' PROVE Sends(kernel, b, From(b)')
    <3>1. CASE b = a
      BY <1>5, <1>13, <3>1 DEF a, M
    <3>2. CASE b # a
      BY <1>11, <1>14, <2>2, <3>2 DEF KernelInv, MessagesAsPlanned
    <3> QED
      BY <3>1, <3>2
  <2>3. \A b \in Roster(kernel) : Sends(kernel, b, From(b)') => Sends(kernel, b, From(b))'
    BY DEF Sends
  <2> QED
    BY <2>1, <2>2, <2>3 DEF MessagesAsPlanned
<1>19. EventsAsPlanned'
  <2>1. \A m \in M : Arrival(m).id = m.id /\ Arrival(m).to = {m.to}
    BY DEF Arrival
  <2>2. ASSUME NEW e \in events'
        PROVE  \E m \in messages' : e.id = m.id /\ e.to = {m.to} /\ Level(kernel, m.to) = now + 1
    <3>1. CASE e \in events
      BY <1>2, <1>8, <3>1 DEF KernelInv, EventsAsPlanned
    <3>2. CASE e \notin events
      BY <1>6, <1>8, <2>1, <3>2
    <3> QED
      BY <3>1, <3>2
  <2>3. ASSUME NEW m \in messages', Level(kernel, m.to) = now + 1
        PROVE  \E e \in events' : e.id = m.id /\ e.to = {m.to}
    <3>1. CASE m \in messages
      BY <1>2, <1>8, <2>3, <3>1 DEF KernelInv, EventsAsPlanned
    <3>2. CASE m \in M
      <4>1. Arrival(m) \in events'
        BY <1>8, <3>2
      <4> QED
        BY <2>1, <3>2, <4>1
    <3> QED
      BY <1>8, <3>1, <3>2
  <2> QED
    BY <1>2, <2>2, <2>3 DEF EventsAsPlanned
<1>20. \A q \in requests : Pending(q)' <=> Pending(q) /\ q.agent # a
  <2>1. todo' = {} /\ todo = {} /\ results' = results \ {res}
    BY <1>1
  <2>2. \A other \in results : other.agent = a => other = res
    BY DEF IInv, StepInv, a
  <2> QED
    BY <2>1, <2>2 DEF Pending, a
<1>21. RequestsAsPlanned'
  <2>1. ASSUME NEW r \in requests
        PROVE  /\ r.agent \in Roster(kernel) /\ Level(kernel, r.agent) = now
               /\ r.inbox = To(r.agent)' /\ (Pending(r)' => ~ Recorded(r.agent)')
    <3>1. /\ r.agent \in Roster(kernel) /\ Level(kernel, r.agent) = now
          /\ r.inbox = To(r.agent) /\ (Pending(r) => ~ Recorded(r.agent))
      BY DEF KernelInv, RequestsAsPlanned
    <3>2. To(r.agent)' = To(r.agent)
      <4> DEFINE b == r.agent
      <4>1. b \in Roster(kernel) /\ Level(kernel, b) <= now
        BY <1>2, <3>1
      <4> HIDE DEF b
      <4>2. To(b)' = To(b)
        BY <1>15, <4>1
      <4> QED
        BY <1>1, <4>2 DEF b, To
    <3>3. Recorded(r.agent)' <=> Recorded(r.agent) \/ r.agent = a
      BY <1>1, <1>11 DEF Recorded
    <3> QED
      BY <1>20, <3>1, <3>2, <3>3
  <2> QED
    BY <1>1, <2>1 DEF RequestsAsPlanned
<1>22. ResultsAsPlanned'
  BY <1>1 DEF KernelInv, ResultsAsPlanned, Sends
<1>23. AgentsInTurn'
  <2> SUFFICES ASSUME NEW b \in Roster(kernel)
               PROVE  /\ Level(kernel, b) < now + 1 =>
                           Recorded(b)' \/ \E r \in requests : r.agent = b /\ Pending(r)'
                      /\ ~ Recorded(b)' => states'[b].cursor = NoMessage
    BY <1>1, <1>2 DEF AgentsInTurn
  <2>1. /\ Level(kernel, b) < now + 1 =>
             Recorded(b) \/ \E r \in requests : r.agent = b /\ Pending(r)
        /\ ~ Recorded(b) => states[b].cursor = NoMessage
    BY <1>2 DEF KernelInv, AgentsInTurn
  <2>2. CASE b = a
    BY <1>11, <2>2
  <2>3. CASE b # a
    <3>1. states'[b] = states[b]
      BY <1>1, <1>2, <1>3, <2>3 DEF EngineTypeOK
    <3> QED
      BY <1>11, <1>20, <2>1, <2>3, <3>1
  <2> QED
    BY <2>2, <2>3
<1> QED
  BY <1>1, <1>17, <1>18, <1>19, <1>21, <1>22, <1>23 DEF KernelInv

LEMMA KernelBegins ==
  ASSUME KernelSettings, KernelInit
  PROVE  KernelInv
<1>1. /\ kernel \in Kernels /\ phase = "ready" /\ now = 0 /\ trace = <<>> /\ messages = {}
      /\ events = {} /\ requests = {} /\ results = {} /\ actions = <<>>
      /\ environment.tick = 0 /\ \A a \in Agents : states[a].cursor = NoMessage
  BY DEF KernelInit, Init, StoreInit
<1>2. DOMAIN trace = {}
  BY <1>1
<1>3. RecordsAsPlanned /\ MessagesAsPlanned /\ EventsAsPlanned
      /\ RequestsAsPlanned /\ ResultsAsPlanned
  BY <1>1, <1>2 DEF RecordsAsPlanned, MessagesAsPlanned, EventsAsPlanned, RequestsAsPlanned,
                    ResultsAsPlanned, Recorded
<1>4. AgentsInTurn
  <2>1. \A a \in Roster(kernel) : Level(kernel, a) \in Nat /\ a \in Agents
    BY <1>1, Graded DEF LevelsRise, KernelSettings, KernelAgents
  <2>2. Stage = 0
    BY <1>1 DEF Stage
  <2> QED
    BY <1>1, <2>1, <2>2 DEF AgentsInTurn
<1> QED
  BY <1>1, <1>3, <1>4 DEF KernelInv

LEMMA KernelStep ==
  ASSUME KernelSettings, IInv, IInv', CursorInv, DueInv, TicksInOrder, KernelInv,
         [KernelNext]_kernelVars
  PROVE  KernelInv'
<1>1. CASE UNCHANGED kernelVars
  BY <1>1, KernelRests DEF kernelVars, vars, storeVars, engineVars
<1>2. CASE KernelNext
  <2>1. UNCHANGED kernel
    BY <1>2 DEF KernelNext
  <2>2. CASE now < StepCountFor(kernel) /\ LoadEvents
    BY <2>1, <2>2, KernelLoads
  <2>3. CASE now < StepCountFor(kernel) /\ Tick
    BY <2>1, <2>3, KernelTicks
  <2>4. CASE \E r \in todo : Execute(r)
    BY <2>1, <2>4, KernelExecutes
  <2>5. CASE TimePasses
    BY <2>1, <2>5, KernelRests DEF TimePasses, storeVars
  <2>6. CASE \E res \in results : CommitResult(res)
    BY <2>1, <2>6, KernelCommits
  <2>7. CASE FinishStep
    BY <2>1, <2>7, KernelFinishes
  <2>8. CASE KernelEnded
    BY <2>1, <2>8, KernelRests DEF KernelEnded, vars, storeVars, engineVars
  <2> QED
    BY <1>2, <2>2, <2>3, <2>4, <2>5, <2>6, <2>7, <2>8 DEF KernelNext
<1> QED
  BY <1>1, <1>2

(* A kernel run climbs its levels, whatever the order of executions and    *)
(* commits: an agent is recorded once, in the step of its level, reads all *)
(* that the level before has sent it and sends what the plan says.         *)
THEOREM KernelClimbs == ASSUME KernelSettings PROVE KernelSpec => []KernelInv
<1>1. KernelInit => KernelInv
  BY KernelBegins
<1>2. IInv /\ IInv' /\ CursorInv /\ DueInv /\ CausalInv /\ KernelInv /\ [KernelNext]_kernelVars
        => KernelInv'
  BY KernelStep DEF CausalInv
<1>3. Spec => []DueInv
  <2>1. Init => DueInv
    BY DEF Init, StoreInit, DueInv
  <2>2. IInv /\ IInv' /\ DueInv /\ [Next]_vars => DueInv'
    BY DueStep DEF KernelSettings
  <2> QED
    BY <2>1, <2>2, Invariance, PTL DEF Spec
<1> QED
  BY <1>1, <1>2, <1>3, KernelRunsTheEngine, Invariance, CursorInvariance, CausalInvariance, PTL
     DEF KernelSpec
-----------------------------------------------------------------------------
(* The environment of the writers: folding the actions from the left       *)
(* leaves every key with the value of its last write.                      *)
VariablesAfter(given) ==
  FoldLeft(LAMBDA v, activation : Write(v, activation[2]), <<>>, given)

LEMMA FoldedWrites ==
  ASSUME NEW n \in Nat, NEW seq, DOMAIN seq = 1 .. n, NEW i \in 1 .. n,
         \A j \in 1 .. n : i < j => Key(seq[j][2]) # Key(seq[i][2])
  PROVE  VariablesAfter(seq)[Key(seq[i][2])] = seq[i][2].index
<1> DEFINE D == 1 .. n
           key(j) == Key(seq[j][2])
           val(j) == seq[j][2].index
           Value(g, s) == IF s = {} THEN <<>> ELSE Write(g[s \ {Max(s)}], seq[Max(s)][2])
           it == CHOOSE g : g = [s \in SUBSET D |-> Value(g, s)]
           At(s, k) == {j \in s : key(j) = k}
           Map(s) == [k \in {key(j) : j \in s} |-> val(Max(At(s, k)))]
           total == [s \in SUBSET D |-> IF s = {} THEN <<>> ELSE Map(s)]
<1>1. VariablesAfter(seq) = it[D]
  BY DEF VariablesAfter, FoldLeft, MapThenFoldSet
<1>2. ASSUME NEW s \in SUBSET D, s # {}
      PROVE  Max(s) \in s /\ \A j \in s : j <= Max(s)
  <2>1. s \in SUBSET Nat
    OBVIOUS
  <2>2. IsFiniteSet(s)
    <3>1. IsFiniteSet(1 .. n)
      BY FS_Interval
    <3> QED
      BY <3>1, FS_Subset
  <2> QED
    BY <1>2, <2>1, <2>2, LargestElement
<1>3. \A v, a : /\ DOMAIN Write(v, a) = {Key(a)} \cup DOMAIN v
                /\ Write(v, a) = [k \in {Key(a)} \cup DOMAIN v |-> IF k = Key(a) THEN a.index ELSE v[k]]
  BY DEF Write
<1>4. ASSUME NEW s \in SUBSET D PROVE total[s] = Value(total, s)
  <2>1. CASE s = {}
    BY <2>1
  <2>2. CASE s # {}
    <3> DEFINE x == Max(s)
               rest == s \ {x}
    <3>1. x \in s /\ \A j \in s : j <= x
      BY <1>2, <2>2
    <3>2. total[s] = Map(s) /\ Value(total, s) = Write(total[rest], seq[x][2])
      BY <2>2
    <3>3. rest \in SUBSET D
      OBVIOUS
    <3>4. DOMAIN total[rest] = {key(j) : j \in rest}
      <4>1. CASE rest = {}
        BY <3>3, <4>1
      <4>2. CASE rest # {}
        BY <3>3, <4>2
      <4> QED
        BY <4>1, <4>2
    <3>5. \A k \in {key(j) : j \in rest} : total[rest][k] = val(Max(At(rest, k)))
      BY <3>3
    <3> HIDE DEF x
    <3>6. {key(j) : j \in s} = {key(x)} \cup {key(j) : j \in rest}
      BY <3>1
    <3>7. ASSUME NEW k \in {key(j) : j \in s}
          PROVE  val(Max(At(s, k))) = IF k = key(x) THEN val(x) ELSE total[rest][k]
      <4>1. CASE k = key(x)
        <5>1. x \in At(s, k) /\ At(s, k) \in SUBSET D /\ \A j \in At(s, k) : j <= x
          BY <3>1, <4>1
        <5> HIDE DEF At
        <5>2. Max(At(s, k)) \in At(s, k) /\ x <= Max(At(s, k))
          BY <1>2, <5>1
        <5>3. Max(At(s, k)) = x
          BY <5>1, <5>2
        <5> QED
          BY <4>1, <5>3
      <4>2. CASE k # key(x)
        <5>1. k \in {key(j) : j \in rest}
          BY <3>6, <4>2
        <5>2. At(s, k) = At(rest, k)
          BY <4>2
        <5> HIDE DEF At, total
        <5> QED
          BY <3>5, <4>2, <5>1, <5>2
      <4> QED
        BY <4>1, <4>2
    <3>8. Map(s) = [k \in {key(x)} \cup {key(j) : j \in rest} |->
                      IF k = key(x) THEN val(x) ELSE total[rest][k]]
      <4> HIDE DEF At, total, rest
      <4> QED
        BY <3>6, <3>7
    <3>9. Write(total[rest], seq[x][2]) =
            [k \in {key(x)} \cup {key(j) : j \in rest} |->
               IF k = key(x) THEN val(x) ELSE total[rest][k]]
      <4> HIDE DEF total, rest, At
      <4> QED
        BY <1>3, <3>4
    <3> HIDE DEF total, Map, Value, rest
    <3> QED
      BY <3>2, <3>8, <3>9
  <2> QED
    BY <2>1, <2>2
<1>5. it = [s \in SUBSET D |-> Value(it, s)]
  <2>1. total = [s \in SUBSET D |-> Value(total, s)]
    <3>1. total = [s \in SUBSET D |-> total[s]]
      OBVIOUS
    <3> HIDE DEF total, Value
    <3> QED
      BY <1>4, <3>1
  <2> HIDE DEF total, Value
  <2> QED
    BY <2>1
<1> HIDE DEF it
<1> DEFINE T == {k \in Nat : k <= n => it[1 .. k] = total[1 .. k]}
<1>6. 0 \in T
  <2>1. {} \in SUBSET D /\ 1 .. 0 = {}
    OBVIOUS
  <2>2. it[{}] = <<>> /\ total[{}] = <<>>
    BY <1>5, <2>1
  <2> HIDE DEF total
  <2> QED
    BY <2>1, <2>2
<1>7. ASSUME NEW k \in Nat, k \in T PROVE k + 1 \in T
  <2> HIDE DEF total
  <2> SUFFICES ASSUME k + 1 <= n PROVE it[1 .. k + 1] = total[1 .. k + 1]
    <3>1. k + 1 \in Nat
      OBVIOUS
    <3> QED
      BY <3>1
  <2> DEFINE s == 1 .. k + 1
  <2>1. s \in SUBSET D /\ s # {} /\ k + 1 \in s
    OBVIOUS
  <2>2. Max(s) = k + 1
    <3>1. Max(s) \in s /\ k + 1 <= Max(s)
      BY <1>2, <2>1
    <3> QED
      BY <3>1
  <2>3. s \ {k + 1} = 1 .. k
    OBVIOUS
  <2>4. it[1 .. k] = total[1 .. k]
    BY <1>7
  <2> HIDE DEF s, T
  <2>5. it[s] = Write(it[1 .. k], seq[k + 1][2])
    BY <1>5, <2>1, <2>2, <2>3
  <2>6. total[s] = Write(total[1 .. k], seq[k + 1][2])
    BY <1>4, <2>1, <2>2, <2>3
  <2> QED
    BY <2>4, <2>5, <2>6 DEF s
<1>8. it[D] = total[D]
  <2>1. n \in T
    <3> HIDE DEF T
    <3> QED
      BY <1>6, <1>7, UpFromZero
  <2> HIDE DEF total
  <2> QED
    BY <2>1
<1>9. total[D] = Map(D)
  <2>1. D # {} /\ D \in SUBSET D
    OBVIOUS
  <2> QED
    BY <2>1
<1>10. Max(At(D, key(i))) = i
  <2>1. i \in At(D, key(i)) /\ At(D, key(i)) \in SUBSET D
    OBVIOUS
  <2>2. \A j \in At(D, key(i)) : j <= i
    OBVIOUS
  <2> HIDE DEF At
  <2>3. Max(At(D, key(i))) \in At(D, key(i)) /\ i <= Max(At(D, key(i)))
    BY <1>2, <2>1
  <2> QED
    BY <2>1, <2>2, <2>3
<1>11. Map(D)[key(i)] = val(i)
  <2> HIDE DEF At
  <2> QED
    BY <1>10
<1> HIDE DEF total, Map
<1> QED
  BY <1>1, <1>8, <1>9, <1>11

(* Between the steps of a writers' run the environment was given exactly   *)
(* the activations of the trace, in its order.                             *)
LEMMA AppliedIsTrace ==
  ASSUME IInv, KernelInv, EnvironmentFollowsTrace, phase = "ready", IsWriters(kernel)
  PROVE  /\ DOMAIN environment.applied = 1 .. Len(trace)
         /\ \A i \in 1 .. Len(trace) : environment.applied[i] = trace[i].activation
<1> DEFINE n == Len(trace)
           applied == environment.applied
<1>1. EngineTypeOK /\ DOMAIN trace = 1 .. n /\ n \in Nat
  BY TraceTypes DEF IInv
<1>2. applied \in Seq(Activations)
  BY <1>1 DEF EngineTypeOK
<1>3. applied \o actions = applied
  <2>1. actions = <<>>
    BY DEF KernelInv
  <2> HIDE DEF applied
  <2> QED
    BY <1>2, <2>1, ConcatEmptySeq
<1>4. ActingRecords = 1 .. n
  BY <1>1 DEF ActingRecords, KernelInv, RecordsAsPlanned
<1> HIDE DEF n, applied
<1>5. /\ Len(applied) = Cardinality(1 .. n)
      /\ \A i \in 1 .. n : applied[Cardinality({j \in 1 .. n : j <= i})] = trace[i].activation
  BY <1>3, <1>4 DEF EnvironmentFollowsTrace, applied
<1>6. Len(applied) = n
  BY <1>1, <1>5, FS_Interval
<1>7. DOMAIN applied = 1 .. n
  BY <1>2, <1>6, LenProperties
<1>8. ASSUME NEW i \in 1 .. n PROVE Cardinality({j \in 1 .. n : j <= i}) = i
  <2>1. {j \in 1 .. n : j <= i} = 1 .. i
    BY <1>1
  <2>2. Cardinality(1 .. i) = i
    BY <1>1, FS_Interval
  <2> QED
    BY <2>1, <2>2
<1> QED
  BY <1>5, <1>7, <1>8 DEF n, applied

(* Whatever the order in which the writers of a kernel commit, in the end  *)
(* every variable has the value of its last writer in the trace: for every *)
(* number of writers, and any share of them on the common variable.        *)
THEOREM LastWriterWins == ASSUME KernelSettings PROVE KernelSpec => []LastWriteWins
<1>1. IInv /\ KernelInv /\ EnvironmentFollowsTrace => LastWriteWins
  <2> SUFFICES ASSUME IInv, KernelInv, EnvironmentFollowsTrace, phase = "ready", IsWriters(kernel),
                      NEW i \in DOMAIN trace,
                      \A b \in {trace[j].agent : j \in i + 1 .. Len(trace)} :
                        Key(b) # Key(trace[i].agent)
               PROVE  Variables[Key(trace[i].agent)] = trace[i].agent.index
    BY DEF LastWriteWins, KernelDone
  <2> DEFINE n == Len(trace)
             seq == environment.applied
  <2>1. DOMAIN trace = 1 .. n /\ n \in Nat
    BY TraceTypes DEF IInv
  <2>2. DOMAIN seq = 1 .. n /\ \A j \in 1 .. n : seq[j] = trace[j].activation
    BY AppliedIsTrace
  <2>3. \A j \in 1 .. n : seq[j][2] = trace[j].agent
    BY <2>1, <2>2 DEF KernelInv, RecordsAsPlanned
  <2> HIDE DEF n, seq
  <2>4. ASSUME NEW j \in 1 .. n, i < j PROVE Key(seq[j][2]) # Key(seq[i][2])
    <3>1. j \in i + 1 .. n
      BY <2>1, <2>4
    <3> QED
      BY <2>1, <2>3, <3>1 DEF n
  <2>5. VariablesAfter(seq)[Key(seq[i][2])] = seq[i][2].index
    BY <2>1, <2>2, <2>4, FoldedWrites
  <2>6. Variables = VariablesAfter(seq)
    BY DEF Variables, VariablesAfter, seq
  <2> QED
    BY <2>1, <2>3, <2>5, <2>6
<1> QED
  BY <1>1, KernelClimbs, KernelRunsTheEngine, Invariance, ActionsFollowRecords, PTL
-----------------------------------------------------------------------------
(* Counting the topologies.                                                *)

LEMMA SameSize ==
  ASSUME NEW S, IsFiniteSet(S), NEW T, NEW f \in [S -> T],
         \A x, y \in S : f[x] = f[y] => x = y, \A y \in T : \E x \in S : f[x] = y
  PROVE  IsFiniteSet(T) /\ Cardinality(T) = Cardinality(S)
<1>1. f \in Bijection(S, T)
  BY Fun_IsBij
<1> QED
  BY <1>1, FS_Bijection DEF ExistsBijection

LEMMA Numbers ==
  ASSUME NEW n \in Nat
  PROVE  IsFiniteSet(0 .. n - 1) /\ Cardinality(0 .. n - 1) = n
<1> DEFINE m == n - 1
<1>1. m \in Int /\ (IF 0 > m THEN 0 ELSE m - 0 + 1) = n
  OBVIOUS
<1> HIDE DEF m
<1>2. IsFiniteSet(0 .. m) /\ Cardinality(0 .. m) = IF 0 > m THEN 0 ELSE m - 0 + 1
  BY <1>1, FS_Interval
<1> QED
  BY <1>1, <1>2 DEF m

(* A table of cells over the names and rows of R and the positions of I.   *)
IsTable(R, I, T, cell) ==
  /\ \A p \in R, i \in I : cell[<<p, i>>] \in T
  /\ \A p, q \in R, i, j \in I : cell[<<p, i>>] = cell[<<q, j>>] => p = q /\ i = j
  /\ \A t \in T : \E p \in R, i \in I : cell[<<p, i>>] = t

LEMMA TableCounted ==
  ASSUME NEW R, IsFiniteSet(R), NEW I, IsFiniteSet(I), NEW T, NEW cell, IsTable(R, I, T, cell)
  PROVE  IsFiniteSet(T) /\ Cardinality(T) = Cardinality(R) * Cardinality(I)
<1> DEFINE f == [x \in R \X I |-> cell[<<x[1], x[2]>>]]
<1>1. IsFiniteSet(R \X I) /\ Cardinality(R \X I) = Cardinality(R) * Cardinality(I)
  BY FS_Product
<1>2. \A x \in R \X I : \E p \in R, i \in I : x = <<p, i>> /\ f[x] = cell[<<p, i>>]
  OBVIOUS
<1>3. f \in [R \X I -> T]
  BY <1>2 DEF IsTable
<1>4. \A x, y \in R \X I : f[x] = f[y] => x = y
  BY <1>2 DEF IsTable
<1>5. \A t \in T : \E x \in R \X I : f[x] = t
  <2> SUFFICES ASSUME NEW t \in T PROVE \E x \in R \X I : f[x] = t
    OBVIOUS
  <2>1. PICK p \in R, i \in I : cell[<<p, i>>] = t
    BY DEF IsTable
  <2>2. <<p, i>> \in R \X I /\ f[<<p, i>>] = t
    BY <2>1
  <2> QED
    BY <2>2
<1> HIDE DEF f
<1> QED
  BY <1>1, <1>3, <1>4, <1>5, SameSize

LEMMA LinesCounted ==
  ASSUME NEW S, NEW k, NEW R, IsFiniteSet(R), \A p \in R : p = <<p[1], p[2]>>,
         NEW l \in Nat, IsLines(S, k, R, l)
  PROVE  IsFiniteSet(S) /\ Cardinality(S) = Cardinality(R) * l
<1> DEFINE I == 0 .. l - 1
           cell == [x \in R \X I |-> Cell(k, x[1][1], x[1][2], x[2])]
<1>1. IsFiniteSet(I) /\ Cardinality(I) = l
  BY Numbers
<1>2. \A a : a \in S <=> \E p \in R, i \in I : a = Cell(k, p[1], p[2], i)
  BY DEF IsLines
<1> HIDE DEF I
<1>3. \A p \in R, i \in I : cell[<<p, i>>] = Cell(k, p[1], p[2], i)
  OBVIOUS
<1> HIDE DEF cell
<1>4. \A p \in R, i \in I : cell[<<p, i>>] \in S
  BY <1>2, <1>3
<1>5. ASSUME NEW p \in R, NEW q \in R, NEW i \in I, NEW j \in I, cell[<<p, i>>] = cell[<<q, j>>]
      PROVE  p = q /\ i = j
  <2>1. Cell(k, p[1], p[2], i) = Cell(k, q[1], q[2], j)
    BY <1>3, <1>5
  <2>2. p[1] = q[1] /\ p[2] = q[2] /\ i = j
    BY <2>1, CellFields
  <2>3. p = <<p[1], p[2]>> /\ q = <<q[1], q[2]>>
    OBVIOUS
  <2> QED
    BY <2>2, <2>3
<1>6. ASSUME NEW t \in S PROVE \E p \in R, i \in I : cell[<<p, i>>] = t
  <2>1. PICK p \in R, i \in I : t = Cell(k, p[1], p[2], i)
    BY <1>2, <1>6
  <2>2. p \in R /\ i \in I /\ cell[<<p, i>>] = t
    BY <1>3, <2>1
  <2> QED
    BY <2>2
<1>7. IsTable(R, I, S, cell)
  BY <1>4, <1>5, <1>6 DEF IsTable
<1> QED
  BY <1>1, <1>7, TableCounted

LEMMA StepsCounted ==
  ASSUME NEW P, \A e \in P : \E u, v : e = <<u, v>>, NEW k,
         NEW R, IsFiniteSet(R), \A p \in R : p = <<p[1], p[2]>>,
         NEW l \in Nat \ {0}, IsSteps(P, k, R, l)
  PROVE  IsFiniteSet(P) /\ Cardinality(P) = Cardinality(R) * (l - 1)
<1> DEFINE I == 0 .. l - 2
           step == [x \in R \X I |->
                      <<Cell(k, x[1][1], x[1][2], x[2]), Cell(k, x[1][1], x[1][2], x[2] + 1)>>]
<1>1. IsFiniteSet(I) /\ Cardinality(I) = l - 1
  <2> DEFINE n == l - 1
  <2>1. n \in Nat /\ I = 0 .. n - 1
    OBVIOUS
  <2> HIDE DEF n, I
  <2>2. IsFiniteSet(0 .. n - 1) /\ Cardinality(0 .. n - 1) = n
    BY <2>1, Numbers
  <2>3. IsFiniteSet(I) /\ Cardinality(I) = n
    BY <2>1, <2>2
  <2> QED
    BY <2>3 DEF n
<1>2. \A u, v : <<u, v>> \in P <=>
        \E p \in R, i \in I : u = Cell(k, p[1], p[2], i) /\ v = Cell(k, p[1], p[2], i + 1)
  BY DEF IsSteps
<1> HIDE DEF I
<1>3. \A p \in R, i \in I : step[<<p, i>>] = <<Cell(k, p[1], p[2], i), Cell(k, p[1], p[2], i + 1)>>
  OBVIOUS
<1> HIDE DEF step
<1>4. ASSUME NEW p \in R, NEW i \in I PROVE step[<<p, i>>] \in P
  <2> DEFINE u == Cell(k, p[1], p[2], i)
             v == Cell(k, p[1], p[2], i + 1)
  <2>1. step[<<p, i>>] = <<u, v>>
    BY <1>3
  <2>2. \E q \in R, j \in I : u = Cell(k, q[1], q[2], j) /\ v = Cell(k, q[1], q[2], j + 1)
    OBVIOUS
  <2> HIDE DEF u, v
  <2> QED
    BY <1>2, <2>1, <2>2
<1>5. ASSUME NEW p \in R, NEW q \in R, NEW i \in I, NEW j \in I, step[<<p, i>>] = step[<<q, j>>]
      PROVE  p = q /\ i = j
  <2>1. step[<<p, i>>][1] = Cell(k, p[1], p[2], i) /\ step[<<q, j>>][1] = Cell(k, q[1], q[2], j)
    BY <1>3
  <2>2. Cell(k, p[1], p[2], i) = Cell(k, q[1], q[2], j)
    BY <1>5, <2>1
  <2>3. p[1] = q[1] /\ p[2] = q[2] /\ i = j
    BY <2>2, CellFields
  <2>4. p = <<p[1], p[2]>> /\ q = <<q[1], q[2]>>
    OBVIOUS
  <2> QED
    BY <2>3, <2>4
<1>6. ASSUME NEW t \in P PROVE \E p \in R, i \in I : step[<<p, i>>] = t
  <2>1. PICK u, v : t = <<u, v>>
    OBVIOUS
  <2>2. PICK p \in R, i \in I : u = Cell(k, p[1], p[2], i) /\ v = Cell(k, p[1], p[2], i + 1)
    BY <1>2, <1>6, <2>1
  <2>3. step[<<p, i>>] = <<u, v>>
    BY <1>3, <2>2
  <2>4. p \in R /\ i \in I /\ step[<<p, i>>] = t
    BY <2>1, <2>2, <2>3
  <2> QED
    BY <2>4
<1>7. IsTable(R, I, P, step)
  BY <1>4, <1>5, <1>6 DEF IsTable
<1> QED
  BY <1>1, <1>7, TableCounted

LEMMA LargestIs ==
  ASSUME NEW D \in SUBSET Nat, NEW x \in D, \A y \in D : y <= x
  PROVE  MaxOrZero(D) = x
<1>1. x \in D /\ \A y \in D : x >= y
  OBVIOUS
<1>2. Max(D) \in D /\ \A y \in D : Max(D) >= y
  BY <1>1 DEF Max
<1>3. Max(D) \in Nat /\ x \in Nat /\ Max(D) >= x /\ x >= Max(D)
  BY <1>2
<1> QED
  BY <1>3 DEF MaxOrZero

(* Every node has a representative it is joined to, the same along edges.  *)
LEMMA RepsSeparate ==
  ASSUME NEW N, NEW s, \A e \in s : e[1] \in N /\ e[2] \in N, NEW rep \in [N -> N],
         \A e \in s : rep[e[1]] = rep[e[2]], \A n \in N : JoinedBy(N, s, n, rep[n])
  PROVE  Separates(N, s, rep)
<1>1. ASSUME NEW n \in N, NEW m \in N, rep[n] = rep[m], NEW C \in SUBSET N, Respects(C, s), n \in C
      PROVE  m \in C
  <2>1. rep[n] \in C
    BY <1>1 DEF JoinedBy
  <2>2. Respects(N \ C, s)
    BY <1>1 DEF Respects
  <2>3. m \in N \ C => rep[m] \in N \ C
    BY <2>2 DEF JoinedBy
  <2> QED
    BY <1>1, <2>1, <2>3
<1>2. ASSUME NEW n \in N, NEW m \in N, JoinedBy(N, s, n, m) PROVE rep[n] = rep[m]
  <2> DEFINE C == {x \in N : rep[x] = rep[n]}
  <2>1. Respects(C, s) /\ n \in C
    BY DEF Respects
  <2>2. m \in C
    BY <1>2, <2>1 DEF JoinedBy
  <2> QED
    BY <2>2
<1>3. \A n, m \in N : rep[n] = rep[m] <=> JoinedBy(N, s, n, m)
  BY <1>1, <1>2 DEF JoinedBy
<1> QED
  BY <1>3 DEF Separates

LEMMA LinesAgain ==
  ASSUME NEW S, NEW P, NEW k, NEW R, \A p \in R : p = <<p[1], p[2]>>, NEW l,
         LinesRise(S, P, k, R, l)
  PROVE  IsLines(S, k, R, l)
<1>1. ASSUME NEW a \in S PROVE \E p \in R, i \in 0 .. l - 1 : a = Cell(k, p[1], p[2], i)
  <2> DEFINE p == <<a.name, a.row>>
  <2>1. p \in R /\ a.index \in 0 .. l - 1 /\ a = Cell(k, p[1], p[2], a.index)
    BY DEF LinesRise
  <2> HIDE DEF p
  <2> QED
    BY <2>1
<1> QED
  BY <1>1 DEF IsLines, LinesRise

(* Every cell of a line is joined to its first one.                        *)
LEMMA LinesJoined ==
  ASSUME NEW P, NEW k, NEW R, NEW l \in Nat, IsSteps(P, k, R, l),
         NEW C, Respects(C, P), NEW p \in R, NEW i \in 0 .. l - 1
  PROVE  Cell(k, p[1], p[2], i) \in C <=> Cell(k, p[1], p[2], 0) \in C
<1> DEFINE Same(j) == Cell(k, p[1], p[2], j) \in C <=> Cell(k, p[1], p[2], 0) \in C
           T == {j \in Nat : j <= l - 1 => Same(j)}
<1>1. 0 \in T
  OBVIOUS
<1>2. ASSUME NEW j \in Nat, j \in T PROVE j + 1 \in T
  <2> SUFFICES ASSUME j + 1 <= l - 1 PROVE Same(j + 1)
    OBVIOUS
  <2> DEFINE u == Cell(k, p[1], p[2], j)
             v == Cell(k, p[1], p[2], j + 1)
  <2>1. Same(j) /\ j \in 0 .. l - 2
    BY <1>2
  <2>2. \E q \in R, h \in 0 .. l - 2 : u = Cell(k, q[1], q[2], h) /\ v = Cell(k, q[1], q[2], h + 1)
    BY <2>1
  <2> HIDE DEF u, v
  <2>3. <<u, v>> \in P
    BY <2>2 DEF IsSteps
  <2>4. u \in C <=> v \in C
    <3> DEFINE e == <<u, v>>
    <3>1. e \in P /\ e[1] = u /\ e[2] = v
      BY <2>3
    <3> HIDE DEF e
    <3> QED
      BY <3>1 DEF Respects
  <2> QED
    BY <2>1, <2>4 DEF u, v
<1> HIDE DEF T
<1>3. Nat \subseteq T
  BY <1>1, <1>2, UpFromZero
<1>4. i \in Nat /\ i <= l - 1
  OBVIOUS
<1> QED
  BY <1>3, <1>4 DEF T

InHops(k, a) == {e \in HopPlan(k) : e[2] = a}

LEMMA InHopsCounted ==
  ASSUME NEW k, NEW a, NEW S, IsFiniteSet(S),
         \A u, v : <<u, v>> \in HopPlan(k) /\ v = a <=> u \in S /\ v = a,
         \A e \in HopPlan(k) : \E u, v : e = <<u, v>>
  PROVE  Cardinality(InHops(k, a)) = Cardinality(S) /\ Cardinality(S) \in Nat
<1>1. InHops(k, a) = S \X {a}
  <2>1. ASSUME NEW e \in InHops(k, a) PROVE e \in S \X {a}
    <3>1. e \in HopPlan(k) /\ e[2] = a
      BY DEF InHops
    <3>2. PICK u, v : e = <<u, v>>
      BY <3>1
    <3>3. <<u, v>> \in HopPlan(k) /\ v = a
      BY <3>1, <3>2
    <3>4. u \in S
      BY <3>3
    <3> QED
      BY <3>2, <3>3, <3>4
  <2>2. ASSUME NEW u \in S PROVE <<u, a>> \in InHops(k, a)
    <3>1. <<u, a>> \in HopPlan(k) /\ <<u, a>>[2] = a
      OBVIOUS
    <3> QED
      BY <3>1 DEF InHops
  <2> QED
    BY <2>1, <2>2
<1>2. IsFiniteSet({a}) /\ Cardinality({a}) = 1
  BY FS_Singleton
<1>3. Cardinality(S \X {a}) = Cardinality(S) * 1 /\ Cardinality(S) \in Nat
  BY <1>2, FS_Product, FS_CardinalityType
<1> QED
  BY <1>1, <1>3

(* expected_invariants, by hand, and what the topology has.                *)
Derived(k, rep) ==
  /\ IsFiniteSet(Roster(k)) /\ IsFiniteSet(HopPlan(k)) /\ Separates(Roster(k), HopPlan(k), rep)
  /\ ExpectedInvariants(k) =
       Metrics(Cardinality(Roster(k)), Cardinality(HopPlan(k)), StepCountFor(k) - 1,
               Cardinality({rep[a] : a \in Roster(k)}),
               MaxOrZero({Cardinality(InHops(k, a)) : a \in Roster(k)}))

LEMMA DegreesAtMost ==
  ASSUME NEW k, NEW x, NEW a \in Roster(k), x = Cardinality(InHops(k, a)),
         \A b \in Roster(k) : Cardinality(InHops(k, b)) \in Nat /\ Cardinality(InHops(k, b)) <= x
  PROVE  MaxOrZero({Cardinality(InHops(k, b)) : b \in Roster(k)}) = x
<1> DEFINE D == {Cardinality(InHops(k, b)) : b \in Roster(k)}
<1>1. D \in SUBSET Nat /\ x \in D /\ \A y \in D : y <= x
  OBVIOUS
<1> HIDE DEF D
<1>2. MaxOrZero(D) = x
  BY <1>1, LargestIs
<1> QED
  BY <1>2 DEF D
-----------------------------------------------------------------------------
(* The shapes, one by one.                                                 *)

(* Cells of lines: at most one hop into each, none into the first.         *)
LEMMA LineDegrees ==
  ASSUME NEW k, NEW S, NEW P, NEW R, NEW l \in Nat, LinesRise(S, P, k, R, l), NEW a \in S,
         \A u : <<u, a>> \in HopPlan(k) <=> <<u, a>> \in P,
         \A e \in HopPlan(k) : \E u, v : e = <<u, v>>
  PROVE  Cardinality(InHops(k, a)) = IF a.index = 0 THEN 0 ELSE 1
<1>1. \A u, v, x : <<u, a>> \in P /\ <<x, a>> \in P => u = x
  BY DEF LinesRise
<1>2. CASE a.index = 0
  <2>1. ASSUME NEW u, <<u, a>> \in P PROVE FALSE
    <3>1. u \in S /\ a.index = u.index + 1
      BY <2>1 DEF LinesRise
    <3>2. u.index \in 0 .. l - 1
      BY <3>1 DEF LinesRise
    <3> QED
      BY <1>2, <3>1, <3>2
  <2>2. \A u, v : <<u, v>> \in HopPlan(k) /\ v = a <=> u \in {} /\ v = a
    BY <2>1
  <2>3. IsFiniteSet({}) /\ Cardinality({}) = 0
    BY FS_EmptySet
  <2> QED
    BY <1>2, <2>2, <2>3, InHopsCounted
<1>3. CASE a.index # 0
  <2>1. PICK x : <<x, a>> \in P
    BY <1>3 DEF LinesRise
  <2>2. \A u, v : <<u, v>> \in HopPlan(k) /\ v = a <=> u \in {x} /\ v = a
    BY <1>1, <2>1
  <2>3. IsFiniteSet({x}) /\ Cardinality({x}) = 1
    BY FS_Singleton
  <2> DEFINE X == {x}
  <2> HIDE DEF X
  <2>4. \A u, v : <<u, v>> \in HopPlan(k) /\ v = a <=> u \in X /\ v = a
    BY <2>2 DEF X
  <2>5. IsFiniteSet(X) /\ Cardinality(X) = 1
    BY <2>3 DEF X
  <2>6. Cardinality(InHops(k, a)) = 1
    BY <2>4, <2>5, InHopsCounted
  <2> QED
    BY <1>3, <2>6
<1> QED
  BY <1>2, <1>3

LEMMA LineKernelsDerived ==
  ASSUME NEW k, KernelShape(k), k.shape \in {"chain", "independent_branches"}
  PROVE  \E rep : Derived(k, rep)
<1> DEFINE R == IF k.shape = "chain" THEN {<<"node", 0>>} ELSE {"branch"} \X (1 .. k.width)
           S == Roster(k)
           P == HopPlan(k)
           l == k.length
           rows == IF k.shape = "chain" THEN 1 ELSE k.width
           degree == IF l > 1 THEN 1 ELSE 0
           rep == [a \in S |-> Cell(k, a.name, a.row, 0)]
<1>1. LinesRise(S, P, k, R, l)
  BY ChainLines, BranchesLines
<1>2. l \in Nat \ {0} /\ rows \in Nat \ {0}
  BY DEF KernelShape
<1>3. \A p \in R : p = <<p[1], p[2]>>
  OBVIOUS
<1>4. IsFiniteSet(R) /\ Cardinality(R) = rows
  <2>1. CASE k.shape = "chain"
    BY <2>1, FS_Singleton
  <2>2. CASE k.shape # "chain"
    <3>1. IsFiniteSet(1 .. k.width) /\ Cardinality(1 .. k.width) = k.width
      <4> DEFINE w == k.width
      <4>1. w \in Nat
        BY DEF KernelShape
      <4> HIDE DEF w
      <4>2. IsFiniteSet(1 .. w) /\ Cardinality(1 .. w) = IF 1 > w THEN 0 ELSE w - 1 + 1
        BY <4>1, FS_Interval
      <4>3. Cardinality(1 .. w) = w
        BY <4>1, <4>2
      <4> QED
        BY <4>2, <4>3 DEF w
    <3>2. IsFiniteSet({"branch"}) /\ Cardinality({"branch"}) = 1
      BY FS_Singleton
    <3>3. /\ IsFiniteSet({"branch"} \X (1 .. k.width))
          /\ Cardinality({"branch"} \X (1 .. k.width)) = 1 * k.width
      <4> DEFINE X == {"branch"}
                 Y == 1 .. k.width
      <4>1. IsFiniteSet(X) /\ Cardinality(X) = 1 /\ IsFiniteSet(Y) /\ Cardinality(Y) = k.width
        BY <3>1, <3>2
      <4> HIDE DEF X, Y
      <4>2. IsFiniteSet(X \X Y) /\ Cardinality(X \X Y) = 1 * k.width
        BY <4>1, FS_Product
      <4> QED
        BY <4>2 DEF X, Y
    <3> QED
      BY <1>2, <2>2, <3>3
  <2> QED
    BY <2>1, <2>2
<1>5. P = Along(S)
  BY DEF HopPlan, Roster, IsWriters
<1>6. \A e \in P : \E u, v \in S : e = <<u, v>>
  BY <1>5 DEF Along
<1>7. ExpectedInvariants(k) = Metrics(rows * l, rows * (l - 1), l - 1, rows, degree)
  <2>1. CASE k.shape = "chain"
    <3>1. ExpectedInvariants(k) = Metrics(l, l - 1, l - 1, 1, degree)
      BY <2>1 DEF ExpectedInvariants, IsWriters
    <3>2. rows = 1 /\ rows * l = l /\ rows * (l - 1) = l - 1
      BY <1>2, <2>1
    <3> QED
      BY <3>1, <3>2
  <2>2. CASE k.shape # "chain"
    BY <2>2 DEF ExpectedInvariants, IsWriters
  <2> QED
    BY <2>1, <2>2
<1>8. StepCountFor(k) = l
  BY DEF StepCountFor, IsWriters
<1>9. \E p : p \in R
  <2>1. k.shape # "chain" => <<"branch", 1>> \in {"branch"} \X (1 .. k.width)
    BY DEF KernelShape
  <2> QED
    BY <2>1
<1> HIDE DEF R, S, P, l, rows
<1>10. IsLines(S, k, R, l)
  BY <1>1, <1>3, LinesAgain
<1>11. IsFiniteSet(S) /\ Cardinality(S) = rows * l
  BY <1>2, <1>3, <1>4, <1>10, LinesCounted
<1>12. IsSteps(P, k, R, l)
  BY <1>2, <1>5, <1>10, AlongCells
<1>13. IsFiniteSet(P) /\ Cardinality(P) = rows * (l - 1)
  <2>1. \A e \in P : \E u, v : e = <<u, v>>
    BY <1>6
  <2> QED
    BY <1>2, <1>3, <1>4, <1>12, <2>1, StepsCounted
<1>14. Separates(S, P, rep)
  <2>1. \A e \in P : e[1] \in S /\ e[2] \in S
    BY <1>6
  <2>2. ASSUME NEW a \in S
        PROVE  /\ rep[a] \in S /\ <<a.name, a.row>> \in R
               /\ a.index \in 0 .. l - 1 /\ a = Cell(k, a.name, a.row, a.index)
    <3> DEFINE p == <<a.name, a.row>>
    <3>1. p \in R /\ a.index \in 0 .. l - 1 /\ a = Cell(k, a.name, a.row, a.index)
      BY <1>1 DEF LinesRise
    <3>2. 0 \in 0 .. l - 1
      BY <1>2
    <3>3. Cell(k, p[1], p[2], 0) \in S
      <4> HIDE DEF p
      <4> QED
        BY <1>1, <3>1, <3>2 DEF LinesRise
    <3> QED
      BY <3>1, <3>3
  <2>3. rep \in [S -> S]
    BY <2>2
  <2>4. ASSUME NEW e \in P PROVE rep[e[1]] = rep[e[2]]
    <3>1. PICK u, v \in S : e = <<u, v>>
      BY <1>6
    <3>2. v.name = u.name /\ v.row = u.row
      BY <1>1, <2>4, <3>1 DEF LinesRise
    <3>3. rep[u] = rep[v]
      BY <3>2
    <3> QED
      BY <3>1, <3>3
  <2>5. ASSUME NEW a \in S PROVE JoinedBy(S, P, a, rep[a])
    <3> SUFFICES ASSUME NEW C \in SUBSET S, Respects(C, P), a \in C PROVE rep[a] \in C
      BY DEF JoinedBy
    <3> DEFINE p == <<a.name, a.row>>
               i == a.index
    <3>1. p \in R /\ i \in 0 .. l - 1 /\ a = Cell(k, p[1], p[2], i) /\ rep[a] = Cell(k, p[1], p[2], 0)
      BY <2>2
    <3> HIDE DEF p, i, rep
    <3>2. Cell(k, p[1], p[2], i) \in C <=> Cell(k, p[1], p[2], 0) \in C
      BY <1>2, <1>12, <3>1, LinesJoined
    <3> QED
      BY <3>1, <3>2
  <2> HIDE DEF rep
  <2> QED
    BY <2>1, <2>3, <2>4, <2>5, RepsSeparate
<1>15. Cardinality({rep[a] : a \in S}) = rows
  <2> DEFINE F == {rep[a] : a \in S}
  <2>1. IsLines(F, k, R, 1)
    <3>1. ASSUME NEW a \in S PROVE \E p \in R, i \in 0 .. 1 - 1 : rep[a] = Cell(k, p[1], p[2], i)
      <4> DEFINE p == <<a.name, a.row>>
      <4>1. p \in R /\ rep[a] = Cell(k, p[1], p[2], 0)
        BY <1>1 DEF LinesRise
      <4> HIDE DEF p, rep
      <4>2. 0 \in 0 .. 1 - 1
        OBVIOUS
      <4> QED
        BY <4>1, <4>2
    <3>2. ASSUME NEW p \in R, NEW i \in 0 .. 1 - 1 PROVE Cell(k, p[1], p[2], i) \in F
      <4>1. i = 0 /\ 0 \in 0 .. l - 1
        BY <1>2
      <4> DEFINE a == Cell(k, p[1], p[2], 0)
      <4>2. a \in S
        BY <1>1, <4>1 DEF LinesRise
      <4>3. a.name = p[1] /\ a.row = p[2]
        BY CellFields
      <4>4. rep[a] = a
        BY <4>2, <4>3
      <4> QED
        BY <4>1, <4>2, <4>4
    <3> HIDE DEF rep
    <3>3. \A a : a \in F <=> \E p \in R, i \in 0 .. 1 - 1 : a = Cell(k, p[1], p[2], i)
      BY <3>1, <3>2
    <3> QED
      BY <3>3 DEF IsLines
  <2> HIDE DEF F
  <2>2. Cardinality(F) = rows * 1
    BY <1>3, <1>4, <2>1, LinesCounted
  <2> QED
    BY <1>2, <2>2 DEF F
<1>16. MaxOrZero({Cardinality(InHops(k, a)) : a \in S}) = degree
  <2>1. ASSUME NEW a \in S
        PROVE  /\ Cardinality(InHops(k, a)) = IF a.index = 0 THEN 0 ELSE 1
               /\ a.index \in 0 .. l - 1
    <3>1. \A e \in HopPlan(k) : \E u, v : e = <<u, v>>
      BY <1>6 DEF P
    <3>2. l \in Nat /\ \A u : <<u, a>> \in HopPlan(k) <=> <<u, a>> \in P
      BY <1>2 DEF P
    <3>3. Cardinality(InHops(k, a)) = IF a.index = 0 THEN 0 ELSE 1
      BY <1>1, <3>1, <3>2, LineDegrees
    <3> QED
      BY <1>1, <3>3 DEF LinesRise
  <2>2. PICK p : p \in R
    BY <1>9
  <2> DEFINE a == Cell(k, p[1], p[2], degree)
  <2>3. a \in S /\ a.index = degree
    <3>1. degree \in 0 .. l - 1
      BY <1>2
    <3> QED
      BY <1>1, <2>2, <3>1, CellFields DEF LinesRise
  <2>4. Cardinality(InHops(k, a)) = degree
    BY <2>1, <2>3
  <2>5. \A b \in S : Cardinality(InHops(k, b)) \in Nat /\ Cardinality(InHops(k, b)) <= degree
    BY <1>2, <2>1
  <2> HIDE DEF a, degree
  <2> QED
    BY <2>3, <2>4, <2>5, DegreesAtMost DEF S
<1> QED
  BY <1>7, <1>8, <1>11, <1>13, <1>14, <1>15, <1>16 DEF Derived, S, P

LEMMA CrowdCounted ==
  ASSUME NEW k, KernelShape(k), NEW name
  PROVE  IsFiniteSet(Crowd(k, name)) /\ Cardinality(Crowd(k, name)) = k.width
<1> DEFINE R == {<<name, 0>>}
<1>1. IsLines(Crowd(k, name), k, R, k.width)
  BY DEF IsLines, Crowd, A
<1>2. \A p \in R : p = <<p[1], p[2]>>
  OBVIOUS
<1>3. IsFiniteSet(R) /\ Cardinality(R) = 1
  BY FS_Singleton
<1>4. k.width \in Nat
  BY DEF KernelShape
<1> HIDE DEF R
<1>5. IsFiniteSet(Crowd(k, name)) /\ Cardinality(Crowd(k, name)) = 1 * k.width
  BY <1>1, <1>2, <1>3, <1>4, LinesCounted
<1> QED
  BY <1>4, <1>5

LEMMA WritersDerived ==
  ASSUME NEW k, KernelShape(k), IsWriters(k)
  PROVE  \E rep : Derived(k, rep)
<1> DEFINE S == Roster(k)
           w == k.width
           rep == [a \in S |-> a]
<1>1. S = Crowd(k, "writer")
  BY DEF Roster, IsWriters
<1>2. HopPlan(k) = {}
  BY DEF HopPlan, IsWriters
<1>3. IsFiniteSet(S) /\ Cardinality(S) = w /\ w \in Nat
  BY <1>1, CrowdCounted DEF KernelShape
<1>4. ExpectedInvariants(k) = Metrics(w, 0, 0, w, 0)
  BY DEF ExpectedInvariants, IsWriters
<1>5. StepCountFor(k) - 1 = 0
  BY DEF StepCountFor, IsWriters
<1>6. IsFiniteSet({}) /\ Cardinality({}) = 0
  BY FS_EmptySet
<1>7. A(k, "writer", 0) \in S
  BY <1>1 DEF Crowd, KernelShape
<1> HIDE DEF S, w
<1>8. Separates(S, HopPlan(k), rep)
  <2>1. \A n \in S : JoinedBy(S, HopPlan(k), n, rep[n])
    BY DEF JoinedBy
  <2>2. rep \in [S -> S]
    OBVIOUS
  <2> HIDE DEF rep
  <2> QED
    BY <1>2, <2>1, <2>2, RepsSeparate
<1>9. {rep[a] : a \in S} = S
  OBVIOUS
<1>10. MaxOrZero({Cardinality(InHops(k, a)) : a \in S}) = 0
  <2>1. \A a \in S : Cardinality(InHops(k, a)) = 0
    BY <1>2, <1>6 DEF InHops
  <2> QED
    BY <1>7, <2>1, DegreesAtMost DEF S
<1>11. Cardinality({rep[a] : a \in S}) = w
  BY <1>3, <1>9
<1> HIDE DEF rep
<1>12. IsFiniteSet(HopPlan(k)) /\ Cardinality(HopPlan(k)) = 0
  BY <1>2, <1>6
<1> QED
  BY <1>3, <1>4, <1>5, <1>8, <1>10, <1>11, <1>12 DEF Derived, S

(* One component: every node is joined to one.                             *)
LEMMA OneRep ==
  ASSUME NEW S, NEW P, \A e \in P : e[1] \in S /\ e[2] \in S, NEW b \in S,
         \A C \in SUBSET S : Respects(C, P) => \A a \in S : a \in C => b \in C
  PROVE  \E rep : Separates(S, P, rep) /\ Cardinality({rep[a] : a \in S}) = 1
<1> DEFINE rep == [a \in S |-> b]
<1>1. \A n \in S : JoinedBy(S, P, n, rep[n])
  BY DEF JoinedBy
<1>2. rep \in [S -> S] /\ \A e \in P : rep[e[1]] = rep[e[2]]
  OBVIOUS
<1>3. {rep[a] : a \in S} = {b}
  OBVIOUS
<1> HIDE DEF rep
<1>4. Separates(S, P, rep)
  BY <1>1, <1>2, RepsSeparate
<1>5. Cardinality({rep[a] : a \in S}) = 1
  BY <1>3, FS_Singleton
<1> QED
  BY <1>4, <1>5

LEMMA FanDerived ==
  ASSUME NEW k, KernelShape(k), k.shape = "fan_out"
  PROVE  \E rep : Derived(k, rep)
<1> DEFINE root == A(k, "root", 0)
           leaves == Crowd(k, "leaf")
           S == Roster(k)
           P == HopPlan(k)
           w == k.width
<1>1. S = leaves \cup {root}
  BY DEF Roster, IsWriters
<1>2. P = {root} \X leaves
  BY DEF HopPlan, IsWriters
<1>3. StepCountFor(k) - 1 = 1
  BY DEF StepCountFor, IsWriters
<1>4. ExpectedInvariants(k) = Metrics(w + 1, w, 1, 1, 1)
  BY DEF ExpectedInvariants, IsWriters
<1>5. IsFiniteSet(leaves) /\ Cardinality(leaves) = w /\ w \in Nat
  BY CrowdCounted DEF KernelShape
<1>6. root \notin leaves
  BY Crowds, CellA
<1>7. A(k, "leaf", 0) \in leaves
  BY DEF Crowd, KernelShape
<1> HIDE DEF root, leaves, w
<1>8. IsFiniteSet(S) /\ Cardinality(S) = w + 1
  BY <1>1, <1>5, <1>6, FS_AddElement
<1>9. IsFiniteSet(P) /\ Cardinality(P) = w
  <2>1. IsFiniteSet({root}) /\ Cardinality({root}) = 1
    BY FS_Singleton
  <2>2. IsFiniteSet(P) /\ Cardinality(P) = 1 * w
    BY <1>2, <1>5, <2>1, FS_Product
  <2> QED
    BY <1>5, <2>2
<1>10. \A u, v : <<u, v>> \in HopPlan(k) <=> u = root /\ v \in leaves
  BY <1>2 DEF P
<1>11. \A e \in HopPlan(k) : \E u, v : e = <<u, v>>
  BY <1>2 DEF P
<1>12. \A a \in leaves : Cardinality(InHops(k, a)) = 1
  <2> SUFFICES ASSUME NEW a \in leaves PROVE Cardinality(InHops(k, a)) = 1
    OBVIOUS
  <2> DEFINE X == {root}
  <2>1. IsFiniteSet(X) /\ Cardinality(X) = 1
    BY FS_Singleton
  <2>2. \A u, v : <<u, v>> \in HopPlan(k) /\ v = a <=> u \in X /\ v = a
    BY <1>10
  <2> HIDE DEF X
  <2> QED
    BY <1>11, <2>1, <2>2, InHopsCounted
<1>13. Cardinality(InHops(k, root)) = 0
  <2>1. IsFiniteSet({}) /\ Cardinality({}) = 0
    BY FS_EmptySet
  <2>2. \A u, v : <<u, v>> \in HopPlan(k) /\ v = root <=> u \in {} /\ v = root
    BY <1>6, <1>10
  <2> QED
    BY <1>11, <2>1, <2>2, InHopsCounted
<1>14. MaxOrZero({Cardinality(InHops(k, a)) : a \in S}) = 1
  <2>1. A(k, "leaf", 0) \in Roster(k) /\ Cardinality(InHops(k, A(k, "leaf", 0))) = 1
    BY <1>1, <1>7, <1>12 DEF S
  <2>2. \A b \in Roster(k) : Cardinality(InHops(k, b)) \in Nat /\ Cardinality(InHops(k, b)) <= 1
    BY <1>1, <1>12, <1>13 DEF S
  <2> QED
    BY <2>1, <2>2, DegreesAtMost DEF S
<1>15. \E rep : Separates(S, P, rep) /\ Cardinality({rep[a] : a \in S}) = 1
  <2>1. \A e \in P : e[1] \in S /\ e[2] \in S
    BY <1>1, <1>2
  <2>2. ASSUME NEW C \in SUBSET S, Respects(C, P), NEW a \in S, a \in C PROVE root \in C
    <3>1. CASE a = root
      BY <2>2, <3>1
    <3>2. CASE a \in leaves
      <4> DEFINE e == <<root, a>>
      <4>1. e \in P /\ e[1] = root /\ e[2] = a
        BY <1>2, <3>2
      <4> HIDE DEF e
      <4> QED
        BY <2>2, <4>1 DEF Respects
    <3> QED
      BY <1>1, <3>1, <3>2
  <2>3. root \in S
    BY <1>1
  <2> HIDE DEF S, P
  <2> QED
    BY <2>1, <2>2, <2>3, OneRep
<1> QED
  BY <1>3, <1>4, <1>8, <1>9, <1>14, <1>15 DEF Derived

LEMMA ForkDerived ==
  ASSUME NEW k, KernelShape(k), k.shape = "fork_join"
  PROVE  \E rep : Derived(k, rep)
<1> DEFINE root == A(k, "root", 0)
           sink == A(k, "sink", 0)
           branches == Crowd(k, "branch")
           S == Roster(k)
           P == HopPlan(k)
           w == k.width
<1>1. S = branches \cup {root, sink}
  BY DEF Roster, IsWriters
<1>2. P = ({root} \X branches) \cup (branches \X {sink})
  BY DEF HopPlan, IsWriters
<1>3. StepCountFor(k) - 1 = 2
  BY DEF StepCountFor, IsWriters
<1>4. ExpectedInvariants(k) = Metrics(w + 2, 2 * w, 2, 1, w)
  BY DEF ExpectedInvariants, IsWriters
<1>5. IsFiniteSet(branches) /\ Cardinality(branches) = w /\ w \in Nat /\ w >= 1
  BY CrowdCounted DEF KernelShape
<1>6. root \notin branches /\ sink \notin branches /\ root # sink
  BY Crowds, CellA
<1>7. \E b : b \in branches
  BY DEF Crowd, KernelShape
<1> HIDE DEF root, sink, branches, w
<1>8. IsFiniteSet(S) /\ Cardinality(S) = w + 2
  <2>1. IsFiniteSet(branches \cup {root}) /\ Cardinality(branches \cup {root}) = w + 1
    BY <1>5, <1>6, FS_AddElement
  <2>2. sink \notin branches \cup {root}
    BY <1>6
  <2>3. /\ IsFiniteSet((branches \cup {root}) \cup {sink})
        /\ Cardinality((branches \cup {root}) \cup {sink}) = (w + 1) + 1
    BY <2>1, <2>2, FS_AddElement
  <2>4. S = (branches \cup {root}) \cup {sink}
    BY <1>1
  <2> QED
    BY <1>5, <2>3, <2>4
<1>9. IsFiniteSet(P) /\ Cardinality(P) = 2 * w
  <2> DEFINE X == {root} \X branches
             Y == branches \X {sink}
  <2>1. IsFiniteSet({root}) /\ Cardinality({root}) = 1 /\ IsFiniteSet({sink}) /\ Cardinality({sink}) = 1
    BY FS_Singleton
  <2>2. IsFiniteSet(X) /\ Cardinality(X) = 1 * w
    BY <1>5, <2>1, FS_Product
  <2>3. IsFiniteSet(Y) /\ Cardinality(Y) = w * 1
    BY <1>5, <2>1, FS_Product
  <2>4. X \cap Y = {}
    BY <1>6
  <2>5. P = X \cup Y
    BY <1>2
  <2> HIDE DEF X, Y
  <2>6. IsFiniteSet(X \cup Y) /\ Cardinality(X \cup Y) = Cardinality(X) + Cardinality(Y) - Cardinality(X \cap Y)
    BY <2>2, <2>3, FS_Union
  <2>7. Cardinality(X \cap Y) = 0
    BY <2>4, FS_EmptySet
  <2> QED
    BY <1>5, <2>2, <2>3, <2>5, <2>6, <2>7
<1>10. \A u, v : <<u, v>> \in HopPlan(k) <=> (u = root /\ v \in branches) \/ (u \in branches /\ v = sink)
  BY <1>2 DEF P
<1>11. \A e \in HopPlan(k) : \E u, v : e = <<u, v>>
  BY <1>2 DEF P
<1>12. \A a \in branches : Cardinality(InHops(k, a)) = 1
  <2> SUFFICES ASSUME NEW a \in branches PROVE Cardinality(InHops(k, a)) = 1
    OBVIOUS
  <2> DEFINE X == {root}
  <2>1. IsFiniteSet(X) /\ Cardinality(X) = 1
    BY FS_Singleton
  <2>2. \A u, v : <<u, v>> \in HopPlan(k) /\ v = a <=> u \in X /\ v = a
    BY <1>6, <1>10
  <2> HIDE DEF X
  <2> QED
    BY <1>11, <2>1, <2>2, InHopsCounted
<1>13. Cardinality(InHops(k, root)) = 0
  <2>1. IsFiniteSet({}) /\ Cardinality({}) = 0
    BY FS_EmptySet
  <2>2. \A u, v : <<u, v>> \in HopPlan(k) /\ v = root <=> u \in {} /\ v = root
    BY <1>6, <1>10
  <2> QED
    BY <1>11, <2>1, <2>2, InHopsCounted
<1>14. Cardinality(InHops(k, sink)) = w
  <2>1. \A u, v : <<u, v>> \in HopPlan(k) /\ v = sink <=> u \in branches /\ v = sink
    BY <1>6, <1>10
  <2> QED
    BY <1>5, <1>11, <2>1, InHopsCounted
<1>15. MaxOrZero({Cardinality(InHops(k, a)) : a \in S}) = w
  <2>1. sink \in Roster(k)
    BY <1>1 DEF S
  <2>2. \A b \in Roster(k) : Cardinality(InHops(k, b)) \in Nat /\ Cardinality(InHops(k, b)) <= w
    BY <1>1, <1>5, <1>12, <1>13, <1>14 DEF S
  <2> QED
    BY <1>14, <2>1, <2>2, DegreesAtMost DEF S
<1>16. \E rep : Separates(S, P, rep) /\ Cardinality({rep[a] : a \in S}) = 1
  <2>1. \A e \in P : e[1] \in S /\ e[2] \in S
    BY <1>1, <1>2
  <2>2. ASSUME NEW C \in SUBSET S, Respects(C, P), NEW a \in S, a \in C PROVE root \in C
    <3>1. ASSUME NEW u, NEW v, <<u, v>> \in P PROVE u \in C <=> v \in C
      <4> DEFINE e == <<u, v>>
      <4>1. e \in P /\ e[1] = u /\ e[2] = v
        BY <3>1
      <4> HIDE DEF e
      <4> QED
        BY <2>2, <4>1 DEF Respects
    <3>2. \A b \in branches : (root \in C <=> b \in C) /\ (b \in C <=> sink \in C)
      BY <1>10, <3>1 DEF P
    <3> QED
      BY <1>1, <1>7, <2>2, <3>2
  <2>3. root \in S
    BY <1>1
  <2> HIDE DEF S, P
  <2> QED
    BY <2>1, <2>2, <2>3, OneRep
<1> QED
  BY <1>3, <1>4, <1>8, <1>9, <1>15, <1>16 DEF Derived

LEMMA MixedDerived ==
  ASSUME NEW k, KernelShape(k), k.shape = "mixed_dag"
  PROVE  \E rep : Derived(k, rep)
<1> DEFINE join == A(k, "join", 0)
           lines == Line(k, "left") \cup Line(k, "right")
           hops == Along(lines)
           ends == {LastNode(k, "left"), LastNode(k, "right")}
           R == {<<"left", 0>>, <<"right", 0>>}
           S == Roster(k)
           P == HopPlan(k)
           l == k.length
<1>1. S = lines \cup {join}
  BY DEF Roster, IsWriters
<1>2. P = hops \cup (ends \X {join})
  BY DEF HopPlan, IsWriters
<1>3. StepCountFor(k) - 1 = l
  BY DEF StepCountFor, IsWriters, KernelShape
<1>4. ExpectedInvariants(k) = Metrics((2 * l) + 1, 2 * l, l, 1, 2)
  BY DEF ExpectedInvariants, IsWriters
<1>5. LinesRise(lines, hops, k, R, l)
  BY MixedLines
<1>6. /\ IsFiniteSet(R) /\ Cardinality(R) = 2 /\ \A p \in R : p = <<p[1], p[2]>>
      /\ <<"left", 0>> \in R /\ <<"right", 0>> \in R
  <2>1. IsFiniteSet({<<"left", 0>>}) /\ Cardinality({<<"left", 0>>}) = 1
    BY FS_Singleton
  <2>2. IsFiniteSet({<<"left", 0>>} \cup {<<"right", 0>>})
        /\ Cardinality({<<"left", 0>>} \cup {<<"right", 0>>}) = 1 + 1
    BY <2>1, FS_AddElement
  <2>3. R = {<<"left", 0>>} \cup {<<"right", 0>>}
    OBVIOUS
  <2> QED
    BY <2>2, <2>3
<1>7. l \in Nat \ {0}
  BY DEF KernelShape
<1>8. \A name : LastNode(k, name) = Cell(k, name, 0, l - 1)
  BY DEF LastNode, A
<1>9. ends = {Cell(k, "left", 0, l - 1), Cell(k, "right", 0, l - 1)}
  BY <1>8
<1>10. join.name = "join"
  BY CellA
<1>11. \A p \in R : p[2] = 0 /\ p[1] \in {"left", "right"}
  OBVIOUS
<1>12. \A a \in lines : a.name \in {"left", "right"} /\ a.row = 0
  <2>1. \A a \in lines : <<a.name, a.row>> \in R
    BY <1>5 DEF LinesRise
  <2> QED
    BY <2>1
<1>13. \A e \in hops : \E u, v \in lines : e = <<u, v>>
  BY DEF Along
<1>14. Cell(k, "left", 0, l - 1) \in lines /\ Cell(k, "right", 0, l - 1) \in lines
  <2>1. l - 1 \in 0 .. l - 1
    BY <1>7
  <2> QED
    BY <2>1, <1>8 DEF Line, LastNode
<1> HIDE DEF join, lines, ends, R, l
<1>15. IsLines(lines, k, R, l)
  BY <1>5, <1>6, LinesAgain
<1>16. IsSteps(hops, k, R, l)
  BY <1>7, <1>15, AlongCells
<1>17. IsFiniteSet(lines) /\ Cardinality(lines) = 2 * l
  BY <1>6, <1>7, <1>15, LinesCounted
<1>18. IsFiniteSet(hops) /\ Cardinality(hops) = 2 * (l - 1)
  <2>1. \A e \in hops : \E u, v : e = <<u, v>>
    BY <1>13
  <2> QED
    BY <1>6, <1>7, <1>16, <2>1, StepsCounted
<1> HIDE DEF hops
<1>19. join \notin lines
  BY <1>10, <1>12
<1>20. IsFiniteSet(S) /\ Cardinality(S) = (2 * l) + 1
  BY <1>1, <1>17, <1>19, FS_AddElement
<1>21. IsFiniteSet(ends) /\ Cardinality(ends) = 2
  <2> DEFINE x == Cell(k, "left", 0, l - 1)
             y == Cell(k, "right", 0, l - 1)
  <2>1. x # y
    BY CellFields
  <2>2. ends = {x} \cup {y}
    BY <1>9
  <2> HIDE DEF x, y
  <2>3. IsFiniteSet({x}) /\ Cardinality({x}) = 1
    BY FS_Singleton
  <2>4. y \notin {x}
    BY <2>1
  <2>5. IsFiniteSet({x} \cup {y}) /\ Cardinality({x} \cup {y}) = 1 + 1
    BY <2>3, <2>4, FS_AddElement
  <2> QED
    BY <2>2, <2>5
<1>22. IsFiniteSet(P) /\ Cardinality(P) = 2 * l
  <2> DEFINE Y == ends \X {join}
  <2>1. IsFiniteSet({join}) /\ Cardinality({join}) = 1
    BY FS_Singleton
  <2>2. IsFiniteSet(Y) /\ Cardinality(Y) = 2 * 1
    BY <1>21, <2>1, FS_Product
  <2>3. hops \cap Y = {}
    BY <1>13, <1>19
  <2>4. P = hops \cup Y
    BY <1>2
  <2> HIDE DEF Y
  <2>5. /\ IsFiniteSet(hops \cup Y)
        /\ Cardinality(hops \cup Y) = Cardinality(hops) + Cardinality(Y) - Cardinality(hops \cap Y)
    BY <1>18, <2>2, FS_Union
  <2>6. Cardinality(hops \cap Y) = 0
    BY <2>3, FS_EmptySet
  <2> QED
    BY <1>7, <1>18, <2>2, <2>4, <2>5, <2>6
<1>23. \A u, v : <<u, v>> \in HopPlan(k) <=> <<u, v>> \in hops \/ (u \in ends /\ v = join)
  BY <1>2 DEF P
<1>24. \A e \in HopPlan(k) : \E u, v : e = <<u, v>>
  BY <1>2, <1>13 DEF P
<1>25. \A u, v : <<u, v>> \in hops => u \in lines /\ v \in lines
  BY <1>5 DEF LinesRise
<1>26. ASSUME NEW a \in lines
       PROVE  Cardinality(InHops(k, a)) \in Nat /\ Cardinality(InHops(k, a)) <= 2
  <2>1. \A u : <<u, a>> \in HopPlan(k) <=> <<u, a>> \in hops
    BY <1>19, <1>23
  <2>2. Cardinality(InHops(k, a)) = IF a.index = 0 THEN 0 ELSE 1
    BY <1>5, <1>7, <1>24, <2>1, LineDegrees
  <2> QED
    BY <2>2
<1>27. Cardinality(InHops(k, join)) = 2
  <2>1. \A u, v : <<u, v>> \in HopPlan(k) /\ v = join <=> u \in ends /\ v = join
    BY <1>19, <1>23, <1>25
  <2> QED
    BY <1>21, <1>24, <2>1, InHopsCounted
<1>28. MaxOrZero({Cardinality(InHops(k, a)) : a \in S}) = 2
  <2>1. join \in Roster(k)
    BY <1>1 DEF S
  <2>2. \A b \in Roster(k) : Cardinality(InHops(k, b)) \in Nat /\ Cardinality(InHops(k, b)) <= 2
    BY <1>1, <1>26, <1>27 DEF S
  <2> QED
    BY <1>27, <2>1, <2>2, DegreesAtMost DEF S
<1>29. \E rep : Separates(S, P, rep) /\ Cardinality({rep[a] : a \in S}) = 1
  <2>1. \A e \in P : e[1] \in S /\ e[2] \in S
    <3>1. \A e \in hops : e[1] \in lines /\ e[2] \in lines
      BY <1>13
    <3>2. \A e \in ends \X {join} : e[1] \in lines /\ e[2] = join
      BY <1>9, <1>14
    <3> QED
      BY <1>1, <1>2, <3>1, <3>2
  <2>2. ASSUME NEW C \in SUBSET S, Respects(C, P), NEW a \in S, a \in C PROVE join \in C
    <3>1. Respects(C, hops)
      BY <1>2, <2>2 DEF Respects
    <3>2. CASE a \in lines
      <4>1. PICK p \in R, i \in 0 .. l - 1 : a = Cell(k, p[1], p[2], i)
        BY <1>15, <3>2 DEF IsLines
      <4>2. l - 1 \in 0 .. l - 1
        BY <1>7
      <4>3. Cell(k, p[1], p[2], i) \in C <=> Cell(k, p[1], p[2], 0) \in C
        BY <1>7, <1>16, <3>1, <4>1, LinesJoined
      <4> DEFINE j == l - 1
      <4>4. j \in 0 .. l - 1
        BY <4>2
      <4> HIDE DEF j
      <4>5. Cell(k, p[1], p[2], j) \in C <=> Cell(k, p[1], p[2], 0) \in C
        BY <1>7, <1>16, <3>1, <4>4, LinesJoined
      <4>6. Cell(k, p[1], p[2], j) \in ends
        BY <1>9, <1>11 DEF j
      <4> DEFINE u == Cell(k, p[1], p[2], j)
                 e == <<u, join>>
      <4>7. e \in P /\ e[1] = u /\ e[2] = join
        BY <1>2, <4>6
      <4> HIDE DEF e
      <4>8. u \in C <=> join \in C
        BY <2>2, <4>7 DEF Respects
      <4> QED
        BY <2>2, <4>1, <4>3, <4>5, <4>8
    <3>3. CASE a = join
      BY <2>2, <3>3
    <3> QED
      BY <1>1, <3>2, <3>3
  <2>3. join \in S
    BY <1>1
  <2> HIDE DEF S, P
  <2> QED
    BY <2>1, <2>2, <2>3, OneRep
<1> QED
  BY <1>3, <1>4, <1>20, <1>22, <1>28, <1>29 DEF Derived

(* The numbers of expected_invariants are those of the topology.           *)
LEMMA HandDerived == ASSUME NEW k \in Kernels PROVE \E rep : Derived(k, rep)
<1>1. KernelShape(k)
  BY KernelShapes
<1> QED
  BY <1>1, LineKernelsDerived, FanDerived, ForkDerived, MixedDerived, WritersDerived
  DEF KernelShape, IsWriters
-----------------------------------------------------------------------------
(* A trace in which every agent of the plan has one record, and every edge *)
(* one message msg[edge], sent by the one and read by the other.           *)

Realizes(t, k, msg) ==
  /\ DOMAIN t \subseteq Nat
  /\ \A i \in DOMAIN t : t[i].activation[2] \in Roster(k)
  /\ \A a \in Roster(k) : \E i \in DOMAIN t : t[i].activation[2] = a
  /\ \A i, j \in DOMAIN t : t[i].activation[2] = t[j].activation[2] => i = j
  /\ \A e, h \in HopPlan(k) : msg[e] = msg[h] => e = h
  /\ \A i \in DOMAIN t : \A x :
       /\ x \in t[i].parents <=>
            \E e \in HopPlan(k) : e[2] = t[i].activation[2] /\ x = msg[e]
       /\ x \in t[i].sent <=>
            \E e \in HopPlan(k) : e[1] = t[i].activation[2] /\ x = msg[e]

(* Agents, nodes and records stand for each other.                         *)
Site(t, k) == [a \in Roster(k) |-> CHOOSE i \in DOMAIN t : t[i].activation[2] = a]
NodeOf(t, k) == [a \in Roster(k) |-> t[Site(t, k)[a]].activation]

LEMMA NodesAreAgents ==
  ASSUME NEW t, NEW k, NEW msg, Realizes(t, k, msg)
  PROVE  /\ \A i \in DOMAIN t : /\ t[i].activation[2] \in Roster(k) /\ t[i].activation \in Nodes(t)
                                /\ Site(t, k)[t[i].activation[2]] = i
         /\ \A a \in Roster(k) : /\ Site(t, k)[a] \in DOMAIN t /\ NodeOf(t, k)[a] \in Nodes(t)
                                 /\ NodeOf(t, k)[a] = t[Site(t, k)[a]].activation
                                 /\ NodeOf(t, k)[a][2] = a
         /\ \A n \in Nodes(t) : n[2] \in Roster(k) /\ NodeOf(t, k)[n[2]] = n
         /\ NodeOf(t, k) \in [Roster(k) -> Nodes(t)]
<1>1. ASSUME NEW a \in Roster(k)
      PROVE  Site(t, k)[a] \in DOMAIN t /\ t[Site(t, k)[a]].activation[2] = a
  BY DEF Realizes, Site
<1>2. ASSUME NEW i \in DOMAIN t
      PROVE  /\ t[i].activation[2] \in Roster(k) /\ t[i].activation \in Nodes(t)
             /\ Site(t, k)[t[i].activation[2]] = i
  <2>1. t[i].activation[2] \in Roster(k) /\ t[i].activation \in Nodes(t)
    BY DEF Realizes, Nodes
  <2>2. /\ Site(t, k)[t[i].activation[2]] \in DOMAIN t
        /\ t[Site(t, k)[t[i].activation[2]]].activation[2] = t[i].activation[2]
    BY <1>1, <2>1
  <2> QED
    BY <2>1, <2>2 DEF Realizes
<1>3. \A a \in Roster(k) : NodeOf(t, k)[a] = t[Site(t, k)[a]].activation
  BY DEF NodeOf
<1>4. ASSUME NEW n \in Nodes(t) PROVE n[2] \in Roster(k) /\ NodeOf(t, k)[n[2]] = n
  <2>1. PICK i \in DOMAIN t : n = t[i].activation
    BY DEF Nodes
  <2>2. n[2] \in Roster(k) /\ Site(t, k)[n[2]] = i
    BY <1>2, <2>1
  <2> QED
    BY <1>3, <2>1, <2>2
<1>5. \A a \in Roster(k) : NodeOf(t, k)[a] \in Nodes(t) /\ NodeOf(t, k)[a][2] = a
  BY <1>1, <1>2, <1>3
<1>6. NodeOf(t, k) \in [Roster(k) -> Nodes(t)]
  <2>1. NodeOf(t, k) = [a \in Roster(k) |-> NodeOf(t, k)[a]]
    BY DEF NodeOf
  <2> QED
    BY <1>5, <2>1
<1> QED
  BY <1>1, <1>2, <1>3, <1>4, <1>5, <1>6

LEMMA NodesCounted ==
  ASSUME NEW t, NEW k, NEW msg, Realizes(t, k, msg), IsFiniteSet(Roster(k))
  PROVE  IsFiniteSet(Nodes(t)) /\ Cardinality(Nodes(t)) = Cardinality(Roster(k))
<1> DEFINE f == NodeOf(t, k)
<1>1. f \in [Roster(k) -> Nodes(t)] /\ \A a \in Roster(k) : f[a][2] = a
  BY NodesAreAgents
<1>2. \A n \in Nodes(t) : n[2] \in Roster(k) /\ f[n[2]] = n
  BY NodesAreAgents
<1> HIDE DEF f
<1>3. \A a, b \in Roster(k) : f[a] = f[b] => a = b
  BY <1>1
<1>4. \A n \in Nodes(t) : \E a \in Roster(k) : f[a] = n
  BY <1>2
<1> QED
  BY <1>1, <1>3, <1>4, SameSize

(* The edges of the trace are the hops, backwards.                         *)
LEMMA EdgesAreHops ==
  ASSUME NEW t, NEW k \in Kernels, NEW msg, Realizes(t, k, msg),
         NEW n \in Nodes(t), NEW p \in Nodes(t)
  PROVE  p \in Edges(t)[n] <=> <<p[2], n[2]>> \in HopPlan(k)
<1>1. LevelsRise(k)
  BY Graded
<1>2. /\ n[2] \in Roster(k) /\ NodeOf(t, k)[n[2]] = n
      /\ p[2] \in Roster(k) /\ NodeOf(t, k)[p[2]] = p
  BY NodesAreAgents
<1> DEFINE s == Site(t, k)
<1>3. /\ s[n[2]] \in DOMAIN t /\ t[s[n[2]]].activation = n
      /\ s[p[2]] \in DOMAIN t /\ t[s[p[2]]].activation = p
  BY <1>2, NodesAreAgents
<1> HIDE DEF s
<1>4. p \in Edges(t)[n] <=> \E i, j \in DOMAIN t :
        /\ t[j].activation = n /\ t[i].activation = p
        /\ \E x \in t[j].parents : LastSends(t, i, x)
  BY DEF Edges
<1>5. ASSUME p \in Edges(t)[n] PROVE <<p[2], n[2]>> \in HopPlan(k)
  <2>1. PICK i \in DOMAIN t, j \in DOMAIN t :
          /\ t[j].activation = n /\ t[i].activation = p
          /\ \E x \in t[j].parents : LastSends(t, i, x)
    BY <1>4, <1>5
  <2>2. PICK x \in t[j].parents : x \in t[i].sent
    BY <2>1 DEF LastSends
  <2>3. PICK e \in HopPlan(k) : e[2] = n[2] /\ x = msg[e]
    BY <2>1, <2>2 DEF Realizes
  <2>4. PICK h \in HopPlan(k) : h[1] = p[2] /\ x = msg[h]
    BY <2>1, <2>2 DEF Realizes
  <2>5. e = h
    BY <2>3, <2>4 DEF Realizes
  <2>6. PICK u, v \in Roster(k) : e = <<u, v>>
    BY <1>1 DEF LevelsRise
  <2> QED
    BY <2>3, <2>4, <2>5, <2>6
<1>6. ASSUME <<p[2], n[2]>> \in HopPlan(k) PROVE p \in Edges(t)[n]
  <2> DEFINE e == <<p[2], n[2]>>
             i == s[p[2]]
             j == s[n[2]]
             x == msg[e]
  <2>1. e \in HopPlan(k) /\ e[1] = p[2] /\ e[2] = n[2] /\ x = msg[e]
    BY <1>6
  <2>2. i \in DOMAIN t /\ j \in DOMAIN t /\ t[i].activation = p /\ t[j].activation = n
    BY <1>3
  <2> HIDE DEF e, i, j, x
  <2>3. x \in t[j].parents /\ x \in t[i].sent
    BY <2>1, <2>2 DEF Realizes
  <2>4. ASSUME NEW h \in DOMAIN t, x \in t[h].sent PROVE h <= i
    <3>1. PICK g \in HopPlan(k) : g[1] = t[h].activation[2] /\ x = msg[g]
      BY <2>4 DEF Realizes
    <3>2. g = e
      BY <2>1, <3>1 DEF Realizes
    <3>3. t[h].activation[2] = t[i].activation[2]
      BY <2>1, <2>2, <3>1, <3>2
    <3>4. h = i /\ i \in Nat
      BY <2>2, <3>3 DEF Realizes
    <3> QED
      BY <3>4
  <2>5. LastSends(t, i, x)
    BY <2>3, <2>4 DEF LastSends
  <2> QED
    BY <1>4, <2>2, <2>3, <2>5
<1> QED
  BY <1>5, <1>6

(* The entries of a node are the messages of the hops into its agent.      *)
LEMMA EntriesAreHops ==
  ASSUME NEW t, NEW k \in Kernels, NEW msg, Realizes(t, k, msg), NEW n \in Nodes(t), NEW x
  PROVE  x \in Entries(t, n) <=>
           \E e \in HopPlan(k) : e[2] = n[2] /\ x = <<Site(t, k)[e[2]], msg[e]>>
<1>1. LevelsRise(k)
  BY Graded
<1> DEFINE s == Site(t, k)
           i == s[n[2]]
<1>2. n[2] \in Roster(k) /\ i \in DOMAIN t /\ t[i].activation = n
  BY NodesAreAgents
<1>3. \A j \in DOMAIN t : t[j].activation = n => j = i
  BY NodesAreAgents
<1> HIDE DEF s
<1>4. ASSUME x \in Entries(t, n)
      PROVE  \E e \in HopPlan(k) : e[2] = n[2] /\ x = <<s[e[2]], msg[e]>>
  <2>1. PICK j \in DOMAIN t : \E y : x = <<j, y>> /\ t[j].activation = n /\ y \in t[j].parents
    BY <1>4 DEF Entries
  <2>2. PICK y : x = <<j, y>> /\ t[j].activation = n /\ y \in t[j].parents
    BY <2>1
  <2>3. PICK e \in HopPlan(k) : e[2] = n[2] /\ y = msg[e]
    BY <2>2 DEF Realizes
  <2>4. j = s[e[2]]
    BY <1>3, <2>2, <2>3
  <2> QED
    BY <2>2, <2>3, <2>4
<1>5. ASSUME NEW e \in HopPlan(k), e[2] = n[2], x = <<s[e[2]], msg[e]>> PROVE x \in Entries(t, n)
  <2> DEFINE y == msg[e]
  <2>1. x = <<i, y>>
    BY <1>5
  <2>2. y \in t[i].parents
    BY <1>2, <1>5 DEF Realizes
  <2>3. y \in Produced(t)
    <3>1. PICK u, v \in Roster(k) : e = <<u, v>>
      BY <1>1 DEF LevelsRise
    <3> DEFINE j == s[u]
    <3>2. e[1] = u /\ j \in DOMAIN t /\ t[j].activation[2] = u
      BY <3>1, NodesAreAgents DEF s
    <3> HIDE DEF j
    <3>3. y \in t[j].sent
      BY <3>2 DEF Realizes
    <3> QED
      BY <3>2, <3>3 DEF Produced
  <2> HIDE DEF y, i
  <2> QED
    BY <1>2, <2>1, <2>2, <2>3 DEF Entries
<1> QED
  BY <1>4, <1>5 DEF s

LEMMA EntriesCounted ==
  ASSUME NEW t, NEW k \in Kernels, NEW msg, Realizes(t, k, msg), IsFiniteSet(HopPlan(k)),
         NEW n \in Nodes(t)
  PROVE  /\ IsFiniteSet(Entries(t, n))
         /\ Cardinality(Entries(t, n)) = Cardinality(InHops(k, n[2]))
<1> DEFINE I == InHops(k, n[2])
           f == [e \in I |-> <<Site(t, k)[e[2]], msg[e]>>]
<1>1. IsFiniteSet(I)
  BY FS_Subset DEF InHops
<1>2. \A x : x \in Entries(t, n) <=> \E e \in I : x = <<Site(t, k)[e[2]], msg[e]>>
  BY EntriesAreHops DEF InHops
<1>3. \A e \in I : e \in HopPlan(k)
  BY DEF InHops
<1> HIDE DEF I
<1>4. f \in [I -> Entries(t, n)] /\ \A x \in Entries(t, n) : \E e \in I : f[e] = x
  BY <1>2
<1>5. \A e, h \in I : f[e] = f[h] => e = h
  BY <1>3 DEF Realizes
<1> HIDE DEF f
<1> QED
  BY <1>1, <1>4, <1>5, SameSize DEF I

LEMMA HopsCounted ==
  ASSUME NEW t, NEW k \in Kernels, NEW msg, Realizes(t, k, msg), IsFiniteSet(HopPlan(k))
  PROVE  Cardinality(UNION {Entries(t, n) : n \in Nodes(t)}) = Cardinality(HopPlan(k))
<1> DEFINE P == HopPlan(k)
           U == UNION {Entries(t, n) : n \in Nodes(t)}
           f == [e \in P |-> <<Site(t, k)[e[2]], msg[e]>>]
<1>1. ASSUME NEW e \in P PROVE f[e] \in U
  <2>1. PICK u, v \in Roster(k) : e = <<u, v>>
    BY Graded DEF LevelsRise
  <2> DEFINE n == NodeOf(t, k)[v]
  <2>2. n \in Nodes(t) /\ n[2] = e[2]
    BY <2>1, NodesAreAgents
  <2> HIDE DEF n
  <2>3. f[e] \in Entries(t, n)
    BY <2>2, EntriesAreHops
  <2> QED
    BY <2>2, <2>3
<1>2. ASSUME NEW x \in U PROVE \E e \in P : f[e] = x
  <2>1. PICK n \in Nodes(t) : x \in Entries(t, n)
    OBVIOUS
  <2> QED
    BY <2>1, EntriesAreHops
<1>3. \A e, h \in P : f[e] = f[h] => e = h
  BY DEF Realizes
<1> HIDE DEF U
<1>4. f \in [P -> U]
  BY <1>1
<1> HIDE DEF P, f
<1>5. Cardinality(U) = Cardinality(P)
  BY <1>2, <1>3, <1>4, SameSize DEF P
<1> QED
  BY <1>5 DEF P, U

(* Depth is level: the top level is the last step of the run.              *)
LEMMA DepthIsLevel ==
  ASSUME NEW t, NEW k \in Kernels, NEW msg, Realizes(t, k, msg), IsFiniteSet(Nodes(t))
  PROVE  MaxDepth(t) = StepCountFor(k) - 1
<1> DEFINE N == Nodes(t)
           E == Edges(t)
           d == [n \in N |-> Level(k, n[2])]
           top == StepCountFor(k) - 1
<1>1. LevelsRise(k) /\ RootsFirst(k)
  BY Graded
<1>2. ASSUME NEW n \in N PROVE n[2] \in Roster(k) /\ d[n] \in Nat /\ d[n] <= top
  <2>1. n[2] \in Roster(k)
    BY NodesAreAgents
  <2>2. Level(k, n[2]) \in Nat /\ Level(k, n[2]) < StepCountFor(k) /\ StepCountFor(k) \in Nat
    BY <1>1, <2>1 DEF LevelsRise, RootsFirst
  <2> QED
    BY <2>1, <2>2
<1>3. E \in [N -> SUBSET N]
  BY DEF Edges
<1>4. ASSUME NEW n \in N, NEW p \in E[n] PROVE p \in N /\ d[n] = d[p] + 1
  <2>1. p \in N
    BY <1>3
  <2>2. <<p[2], n[2]>> \in HopPlan(k)
    BY <2>1, EdgesAreHops
  <2>3. Level(k, n[2]) = Level(k, p[2]) + 1
    BY <1>1, <2>2 DEF LevelsRise
  <2> QED
    BY <2>1, <2>3
<1>5. ASSUME NEW n \in N, d[n] # 0 PROVE E[n] # {}
  <2>1. PICK u : <<u, n[2]>> \in HopPlan(k)
    BY <1>1, <1>2, <1>5 DEF LevelsRise
  <2>2. u \in Roster(k)
    BY <1>1, <2>1 DEF LevelsRise
  <2> DEFINE p == NodeOf(t, k)[u]
  <2>3. p \in N /\ p[2] = u
    BY <2>2, NodesAreAgents
  <2> HIDE DEF p
  <2>4. p \in E[n]
    BY <2>1, <2>3, EdgesAreHops
  <2> QED
    BY <2>4
<1>6. d \in [N -> Nat]
  <2>1. \A n \in N : Level(k, n[2]) \in Nat
    BY <1>2
  <2> QED
    BY <2>1
<1>7. \E a \in Roster(k) : Level(k, a) = top
  <2>1. PICK a \in Roster(k) : a \in Roots(k)
    BY <1>1 DEF RootsFirst
  <2>2. Level(k, a) \in Nat /\ Level(k, a) < StepCountFor(k) /\ StepCountFor(k) \in Nat
    BY <1>1 DEF LevelsRise, RootsFirst
  <2>3. top \in 0 .. StepCountFor(k) - 1
    BY <2>2
  <2> HIDE DEF top
  <2> QED
    BY <1>1, <2>3 DEF RootsFirst
<1>8. \E n \in N : d[n] = top
  <2>1. PICK a \in Roster(k) : Level(k, a) = top
    BY <1>7
  <2>2. NodeOf(t, k)[a] \in N /\ NodeOf(t, k)[a][2] = a
    BY NodesAreAgents
  <2> QED
    BY <2>1, <2>2
<1>9. \A n \in N : d[n] = IF E[n] = {} THEN 0 ELSE 1 + Max({d[p] : p \in E[n]})
  <2> HIDE DEF d, N, E
  <2> SUFFICES ASSUME NEW n \in N, E[n] # {} PROVE d[n] = 1 + Max({d[p] : p \in E[n]})
    BY <1>5
  <2> DEFINE D == {d[p] : p \in E[n]}
             x == d[n] - 1
  <2>1. \A p \in E[n] : d[p] \in Nat /\ d[n] = d[p] + 1
    BY <1>4, <1>6
  <2>2. x \in D /\ \A y \in D : y = x
    BY <2>1
  <2>3. x \in Nat /\ d[n] = 1 + x
    BY <2>1
  <2> HIDE DEF D, x
  <2>4. D = {x}
    BY <2>2
  <2>5. Max({x}) = x
    <3>1. x \in {x} /\ \A y \in {x} : x >= y
      BY <2>3
    <3>2. Max({x}) \in {x}
      BY <3>1 DEF Max
    <3> QED
      BY <3>2
  <2> QED
    BY <2>3, <2>4, <2>5 DEF D
<1>10. IsDepth(N, E, d)
  <2>1. d = [n \in N |-> d[n]]
    OBVIOUS
  <2> HIDE DEF d, N, E
  <2>2. d = [n \in N |-> IF E[n] = {} THEN 0 ELSE 1 + Max({d[p] : p \in E[n]})]
    BY <1>9, <2>1
  <2> QED
    BY <1>6, <2>2 DEF IsDepth
<1>11. Grounded(N, E, d)
  <2>1. \A n \in N : \A p \in E[n] : d[p] < d[n]
    <3> HIDE DEF d, N, E
    <3> SUFFICES ASSUME NEW n \in N, NEW p \in E[n] PROVE d[p] < d[n]
      OBVIOUS
    <3>1. p \in N /\ d[n] = d[p] + 1
      BY <1>4
    <3>2. d[p] \in Nat
      BY <1>6, <3>1
    <3> QED
      BY <3>1, <3>2
  <2> HIDE DEF d, N, E
  <2> QED
    BY <1>3, <1>6, <2>1 DEF Grounded
<1> HIDE DEF d
<1>12. MaxDepth(t) = MaxOrZero({d[n] : n \in N})
  BY <1>10, <1>11, MaxDepthIsDepth
<1> HIDE DEF N, E, top
<1> DEFINE D == {d[n] : n \in N}
<1>13. D \in SUBSET Nat /\ top \in D /\ \A y \in D : y <= top
  BY <1>2, <1>8
<1> HIDE DEF D
<1>14. MaxOrZero(D) = top
  BY <1>13, LargestIs
<1> QED
  BY <1>12, <1>14 DEF D, top

(* What is joined stays joined under a map that keeps pairs, reversed.     *)
LEMMA JoinedImage ==
  ASSUME NEW N, NEW s, NEW M, NEW r, NEW g \in [N -> M],
         \A e \in s : e[1] \in N /\ e[2] \in N /\ <<g[e[2]], g[e[1]]>> \in r,
         NEW n \in N, NEW m \in N, JoinedBy(N, s, n, m)
  PROVE  JoinedBy(M, r, g[n], g[m])
<1> SUFFICES ASSUME NEW C \in SUBSET M, Respects(C, r), g[n] \in C PROVE g[m] \in C
  BY DEF JoinedBy
<1> DEFINE B == {x \in N : g[x] \in C}
<1>1. ASSUME NEW e \in s PROVE e[1] \in B <=> e[2] \in B
  <2> DEFINE h == <<g[e[2]], g[e[1]]>>
  <2>1. h \in r /\ h[1] = g[e[2]] /\ h[2] = g[e[1]] /\ e[1] \in N /\ e[2] \in N
    OBVIOUS
  <2> HIDE DEF h
  <2> QED
    BY <2>1 DEF Respects
<1>2. Respects(B, s) /\ n \in B
  BY <1>1 DEF Respects
<1>3. m \in B
  BY <1>2 DEF JoinedBy
<1> QED
  BY <1>3

LEMMA ComponentsAreReps ==
  ASSUME NEW t, NEW k \in Kernels, NEW msg, Realizes(t, k, msg), IsFiniteSet(Nodes(t)),
         IsFiniteSet(Roster(k)), NEW rep, Separates(Roster(k), HopPlan(k), rep)
  PROVE  ComponentCount(t) = Cardinality({rep[a] : a \in Roster(k)})
<1> DEFINE N == Nodes(t)
           s == EdgePairs(N, Edges(t))
           M == Roster(k)
           r == HopPlan(k)
           g == [n \in N |-> n[2]]
           h == NodeOf(t, k)
           find == [n \in N |-> h[rep[g[n]]]]
           F == {rep[a] : a \in M}
<1>1. ComponentCount(t) = Cardinality(Parts(N, s))
  BY ComponentsCounted
<1>2. /\ g \in [N -> M] /\ h \in [M -> N]
      /\ \A n \in N : h[g[n]] = n /\ g[n] = n[2]
      /\ \A a \in M : g[h[a]] = a
  <2>1. h \in [M -> N] /\ \A a \in M : h[a] \in N /\ h[a][2] = a
    BY NodesAreAgents
  <2>2. \A n \in N : n[2] \in M /\ h[n[2]] = n
    BY NodesAreAgents
  <2> HIDE DEF h
  <2> QED
    BY <2>1, <2>2
<1>3. \A e \in s : e[1] \in N /\ e[2] \in N /\ <<g[e[2]], g[e[1]]>> \in r
  <2> SUFFICES ASSUME NEW e \in s
               PROVE  e[1] \in N /\ e[2] \in N /\ <<g[e[2]], g[e[1]]>> \in r
    OBVIOUS
  <2>1. e[1] \in N /\ e[2] \in N /\ e[2] \in Edges(t)[e[1]]
    BY DEF EdgePairs
  <2>2. <<e[2][2], e[1][2]>> \in HopPlan(k)
    BY <2>1, EdgesAreHops
  <2> QED
    BY <2>1, <2>2
<1>4. \A e \in r : e[1] \in M /\ e[2] \in M /\ <<h[e[2]], h[e[1]]>> \in s
  <2> SUFFICES ASSUME NEW e \in r
               PROVE  e[1] \in M /\ e[2] \in M /\ <<h[e[2]], h[e[1]]>> \in s
    OBVIOUS
  <2>1. PICK u, v \in M : e = <<u, v>>
    BY Graded DEF LevelsRise
  <2> DEFINE n == h[v]
             p == h[u]
  <2>2. n \in N /\ n[2] = v /\ p \in N /\ p[2] = u
    BY NodesAreAgents
  <2> HIDE DEF n, p
  <2>3. p \in Edges(t)[n]
    BY <2>1, <2>2, EdgesAreHops
  <2>4. <<n, p>> \in s
    BY <2>2, <2>3 DEF EdgePairs
  <2> QED
    BY <2>1, <2>4 DEF n, p
<1>5. rep \in [M -> M] /\ \A a, b \in M : rep[a] = rep[b] <=> JoinedBy(M, r, a, b)
  BY DEF Separates
<1> HIDE DEF s, g, h, N, M, r
<1>6. ASSUME NEW n \in N, NEW m \in N PROVE JoinedBy(N, s, n, m) <=> JoinedBy(M, r, g[n], g[m])
  <2>1. JoinedBy(N, s, n, m) => JoinedBy(M, r, g[n], g[m])
    BY <1>2, <1>3, JoinedImage
  <2>2. g[n] \in M /\ g[m] \in M /\ h[g[n]] = n /\ h[g[m]] = m
    BY <1>2
  <2>3. JoinedBy(M, r, g[n], g[m]) => JoinedBy(N, s, h[g[n]], h[g[m]])
    BY <1>2, <1>4, <2>2, JoinedImage
  <2> QED
    BY <2>1, <2>2, <2>3
<1>7. \A a, b \in M : h[a] = h[b] => a = b
  BY <1>2
<1>8. Separates(N, s, find)
  <2>1. \A n \in N : g[n] \in M /\ rep[g[n]] \in M /\ h[rep[g[n]]] \in N
    BY <1>2, <1>5
  <2>2. find \in [N -> N]
    BY <2>1
  <2>3. ASSUME NEW n \in N, NEW m \in N PROVE find[n] = find[m] <=> JoinedBy(N, s, n, m)
    <3>1. find[n] = find[m] <=> rep[g[n]] = rep[g[m]]
      BY <1>7, <2>1
    <3>2. rep[g[n]] = rep[g[m]] <=> JoinedBy(M, r, g[n], g[m])
      BY <1>5, <2>1
    <3> QED
      BY <1>6, <3>1, <3>2
  <2> HIDE DEF find
  <2> QED
    BY <2>2, <2>3 DEF Separates
<1>9. IsFiniteSet(F)
  BY ImageFinite DEF M
<1>10. Cardinality({find[n] : n \in N}) = Cardinality(F)
  <2> DEFINE T == {find[n] : n \in N}
             f == [x \in F |-> h[x]]
  <2>1. \A x \in F : x \in M
    BY <1>5
  <2>2. ASSUME NEW x \in F PROVE f[x] \in T
    <3>1. PICK a \in M : x = rep[a]
      OBVIOUS
    <3>2. h[a] \in N /\ g[h[a]] = a
      BY <1>2
    <3>3. find[h[a]] = h[x]
      BY <3>1, <3>2
    <3> QED
      BY <3>2, <3>3
  <2>3. ASSUME NEW y \in T PROVE \E x \in F : f[x] = y
    <3>1. PICK n \in N : y = h[rep[g[n]]]
      OBVIOUS
    <3>2. g[n] \in M
      BY <1>2
    <3>3. rep[g[n]] \in F
      BY <3>2
    <3> QED
      BY <3>1, <3>3
  <2>4. \A x, y \in F : f[x] = f[y] => x = y
    BY <1>7, <2>1
  <2> HIDE DEF T, F
  <2>5. f \in [F -> T]
    BY <2>2
  <2> HIDE DEF f
  <2>6. Cardinality(T) = Cardinality(F)
    BY <1>9, <2>3, <2>4, <2>5, SameSize
  <2> QED
    BY <2>6 DEF T
<1> HIDE DEF find
<1>11. IsFiniteSet(N)
  BY DEF N
<1>12. Cardinality({find[n] : n \in N}) = Cardinality(Parts(N, s))
  BY <1>8, <1>11, PartsCounted
<1> QED
  BY <1>1, <1>10, <1>12 DEF M

(* A trace that realizes the plan has the numbers derived by hand.         *)
LEMMA RealizedShape ==
  ASSUME NEW t, NEW k \in Kernels, NEW msg, Realizes(t, k, msg)
  PROVE  GraphMetrics(t) = ExpectedInvariants(k)
<1>1. PICK rep : Derived(k, rep)
  BY HandDerived
<1> DEFINE N == Nodes(t)
<1>2. /\ IsFiniteSet(Roster(k)) /\ IsFiniteSet(HopPlan(k))
      /\ Separates(Roster(k), HopPlan(k), rep)
  BY <1>1 DEF Derived
<1>3. IsFiniteSet(N) /\ Cardinality(N) = Cardinality(Roster(k))
  BY <1>2, NodesCounted
<1>4. \A n \in N : /\ IsFiniteSet(Entries(t, n))
                   /\ Cardinality(Entries(t, n)) = Cardinality(InHops(k, n[2]))
  BY <1>2, EntriesCounted
<1>5. MapThenSumSet(LAMBDA n : Cardinality(Entries(t, n)), Nodes(t)) = Cardinality(HopPlan(k))
  <2>1. MapThenSumSet(LAMBDA n : Cardinality(Entries(t, n)), Nodes(t))
          = Cardinality(UNION {Entries(t, n) : n \in Nodes(t)})
    BY <1>3, <1>4, EntriesAddUp
  <2>2. Cardinality(UNION {Entries(t, n) : n \in Nodes(t)}) = Cardinality(HopPlan(k))
    BY <1>2, HopsCounted
  <2> QED
    BY <2>1, <2>2
<1>6. MaxDepth(t) = StepCountFor(k) - 1
  BY <1>3, DepthIsLevel
<1>7. ComponentCount(t) = Cardinality({rep[a] : a \in Roster(k)})
  BY <1>2, <1>3, ComponentsAreReps
<1>8. {Cardinality(Entries(t, n)) : n \in N} = {Cardinality(InHops(k, a)) : a \in Roster(k)}
  <2>1. \A n \in N : n[2] \in Roster(k)
    BY NodesAreAgents
  <2>2. \A a \in Roster(k) : \E n \in N : n[2] = a
    BY NodesAreAgents
  <2> HIDE DEF N
  <2> QED
    BY <1>4, <2>1, <2>2
<1>9. GraphMetrics(t) =
        Metrics(Cardinality(N), MapThenSumSet(LAMBDA n : Cardinality(Entries(t, n)), Nodes(t)),
                MaxDepth(t), ComponentCount(t),
                MaxOrZero({Cardinality(Entries(t, n)) : n \in N}))
  BY DEF GraphMetrics, Metrics
<1>10. ExpectedInvariants(k) =
         Metrics(Cardinality(Roster(k)), Cardinality(HopPlan(k)), StepCountFor(k) - 1,
                 Cardinality({rep[a] : a \in Roster(k)}),
                 MaxOrZero({Cardinality(InHops(k, a)) : a \in Roster(k)}))
  BY <1>1 DEF Derived
<1> QED
  BY <1>3, <1>5, <1>6, <1>7, <1>8, <1>9, <1>10

(* At the end of a run every agent is recorded, and no event is left.      *)
LEMMA DoneRealizes ==
  ASSUME IInv, CausalInv, DistinctInv, KernelInv, KernelDone
  PROVE  events = {} /\ \E msg : Realizes(trace, kernel, msg)
<1> DEFINE k == kernel
           sent == [e \in HopPlan(k) |-> CHOOSE m \in messages : m.from = e[1] /\ m.to = e[2]]
           msg == [e \in HopPlan(k) |-> sent[e].id]
<1>1. /\ EngineTypeOK /\ TicksInOrder /\ CausallyClosed /\ UniqueIds(messages)
      /\ phase = "ready" /\ now = StepCountFor(k) /\ Stage = now /\ requests = {}
  BY DEF IInv, CausalInv, IdInv, StepInv, KernelDone, Stage
<1>2. /\ k \in Kernels /\ RecordsAsPlanned /\ MessagesAsPlanned /\ EventsAsPlanned /\ AgentsInTurn
  BY DEF KernelInv
<1>3. LevelsRise(k)
  BY <1>2, Graded
<1>4. \A a \in Roster(k) : Level(k, a) < Stage
  BY <1>1, <1>3 DEF LevelsRise
<1>5. \A a \in Roster(k) : Recorded(a)
  BY <1>1, <1>2, <1>4 DEF AgentsInTurn
<1>6. events = {}
  <2> SUFFICES ASSUME NEW e \in events PROVE FALSE
    OBVIOUS
  <2>1. PICK m \in messages : Level(k, m.to) = Stage
    BY <1>2 DEF EventsAsPlanned
  <2>2. m.to \in Roster(k) /\ Level(k, m.to) \in Nat /\ Level(k, m.to) < Stage
    BY <1>1, <1>2, <1>3, <1>4, MessagePath DEF LevelsRise
  <2> QED
    BY <2>1, <2>2
<1>7. ASSUME NEW e \in HopPlan(k)
      PROVE  sent[e] \in messages /\ sent[e].from = e[1] /\ sent[e].to = e[2] /\ msg[e] = sent[e].id
  <2>1. PICK u, v \in Roster(k) : e = <<u, v>>
    BY <1>3 DEF LevelsRise
  <2>2. Sends(k, u, From(u))
    BY <1>2, <1>5, <2>1 DEF MessagesAsPlanned
  <2>3. \E m \in From(u) : m.to = v
    BY <2>1, <2>2 DEF Sends
  <2>4. \E m \in messages : m.from = e[1] /\ m.to = e[2]
    BY <2>1, <2>3 DEF From
  <2> QED
    BY <2>4
<1>8. ASSUME NEW m \in messages
      PROVE  <<m.from, m.to>> \in HopPlan(k) /\ sent[<<m.from, m.to>>] = m
                                            /\ msg[<<m.from, m.to>>] = m.id
  <2> DEFINE e == <<m.from, m.to>>
  <2>1. e \in HopPlan(k) /\ e[1] = m.from /\ e[2] = m.to
    BY <1>1, <1>2, MessagePath
  <2> HIDE DEF e
  <2>2. sent[e] \in messages /\ sent[e].from = m.from /\ sent[e].to = m.to /\ msg[e] = sent[e].id
    BY <1>7, <2>1
  <2> HIDE DEF sent, msg, k
  <2>3. sent[e] = m
    BY <1>1, <1>2, <2>2, OneMessage DEF k
  <2> QED
    BY <2>1, <2>2, <2>3 DEF e
<1> HIDE DEF sent, msg
<1>9. \A i \in DOMAIN trace : /\ trace[i].agent = trace[i].activation[2]
                              /\ trace[i].agent \in Roster(k)
                              /\ trace[i].parents = Ids(To(trace[i].agent))
                              /\ trace[i].sent = Ids(From(trace[i].agent))
                              /\ \A j \in DOMAIN trace : trace[j].agent = trace[i].agent => j = i
  BY <1>2 DEF RecordsAsPlanned
<1>10. \A e, h \in HopPlan(k) : msg[e] = msg[h] => e = h
  <2> SUFFICES ASSUME NEW e \in HopPlan(k), NEW h \in HopPlan(k), msg[e] = msg[h] PROVE e = h
    OBVIOUS
  <2>1. sent[e] = sent[h]
    BY <1>1, <1>7 DEF UniqueIds
  <2>2. e[1] = h[1] /\ e[2] = h[2]
    BY <1>7, <2>1
  <2>3. (\E u, v \in Roster(k) : e = <<u, v>>) /\ (\E u, v \in Roster(k) : h = <<u, v>>)
    BY <1>3 DEF LevelsRise
  <2> QED
    BY <2>2, <2>3
<1>11. ASSUME NEW i \in DOMAIN trace, NEW x
       PROVE  x \in trace[i].parents <=>
                \E e \in HopPlan(k) : e[2] = trace[i].activation[2] /\ x = msg[e]
  <2> DEFINE a == trace[i].agent
  <2>1. x \in trace[i].parents <=> \E m \in messages : m.to = a /\ x = m.id
    BY <1>9 DEF Ids, To
  <2>2. trace[i].activation[2] = a
    BY <1>9
  <2> HIDE DEF a
  <2>3. ASSUME NEW m \in messages, m.to = a, x = m.id
        PROVE  \E e \in HopPlan(k) : e[2] = a /\ x = msg[e]
    <3> DEFINE e == <<m.from, m.to>>
    <3>1. e \in HopPlan(k) /\ e[2] = a /\ x = msg[e]
      BY <1>8, <2>3
    <3> HIDE DEF e
    <3> QED
      BY <3>1
  <2>4. ASSUME NEW e \in HopPlan(k), e[2] = a, x = msg[e]
        PROVE  \E m \in messages : m.to = a /\ x = m.id
    BY <1>7, <2>4
  <2> QED
    BY <2>1, <2>2, <2>3, <2>4
<1>12. ASSUME NEW i \in DOMAIN trace, NEW x
       PROVE  x \in trace[i].sent <=>
                \E e \in HopPlan(k) : e[1] = trace[i].activation[2] /\ x = msg[e]
  <2> DEFINE a == trace[i].agent
  <2>1. x \in trace[i].sent <=> \E m \in messages : m.from = a /\ x = m.id
    BY <1>9 DEF Ids, From
  <2>2. trace[i].activation[2] = a
    BY <1>9
  <2> HIDE DEF a
  <2>3. ASSUME NEW m \in messages, m.from = a, x = m.id
        PROVE  \E e \in HopPlan(k) : e[1] = a /\ x = msg[e]
    <3> DEFINE e == <<m.from, m.to>>
    <3>1. e \in HopPlan(k) /\ e[1] = a /\ x = msg[e]
      BY <1>8, <2>3
    <3> HIDE DEF e
    <3> QED
      BY <3>1
  <2>4. ASSUME NEW e \in HopPlan(k), e[1] = a, x = msg[e]
        PROVE  \E m \in messages : m.from = a /\ x = m.id
    BY <1>7, <2>4
  <2> QED
    BY <2>1, <2>2, <2>3, <2>4
<1>13. ASSUME NEW a \in Roster(k) PROVE \E i \in DOMAIN trace : trace[i].activation[2] = a
  <2>1. PICK i \in DOMAIN trace : trace[i].agent = a
    BY <1>5 DEF Recorded
  <2> QED
    BY <1>9, <2>1
<1>14. DOMAIN trace \subseteq Nat
  BY <1>1, TraceTypes
<1>15. \A i, j \in DOMAIN trace : trace[i].activation[2] = trace[j].activation[2] => i = j
  BY <1>9
<1>16. \A i \in DOMAIN trace : trace[i].activation[2] \in Roster(k)
  BY <1>9
<1>17. Realizes(trace, k, msg)
  BY <1>10, <1>11, <1>12, <1>13, <1>14, <1>15, <1>16 DEF Realizes
<1> QED
  BY <1>6, <1>17 DEF k

(* The gate of run_kernel_benchmarks, for every shape, width and length:   *)
(* whatever the order of executions and commits, after step_count_for      *)
(* steps the trace has exactly the nodes, edges, depth, components and     *)
(* in-degree that expected_invariants derives by hand, and no event is     *)
(* left.                                                                   *)
THEOREM ShapesAsDerived == ASSUME KernelSettings PROVE KernelSpec => []ShapeAsExpected
<1>1. IInv /\ CausalInv /\ DistinctInv /\ KernelInv => ShapeAsExpected
  <2> SUFFICES ASSUME IInv, CausalInv, DistinctInv, KernelInv, KernelDone
               PROVE  GraphMetrics(trace) = ExpectedInvariants(kernel) /\ events = {}
    BY DEF ShapeAsExpected
  <2>1. events = {}
    BY DoneRealizes
  <2>2. PICK msg : Realizes(trace, kernel, msg)
    BY DoneRealizes
  <2>3. kernel \in Kernels
    BY DEF KernelInv
  <2> QED
    BY <2>1, <2>2, <2>3, RealizedShape
<1> QED
  BY <1>1, KernelClimbs, KernelRunsTheEngine, Invariance, CausalInvariance, DistinctInvariance, PTL
=============================================================================
