--------------------------- MODULE SyntheticKernel --------------------------
(***************************************************************************)
(* The synthetic kernel: create_synthetic_engine (scenarios/synthetic.py)  *)
(* builds one of six topologies, SyntheticEnvironment and                  *)
(* SyntheticExecutionBackend drive the engine through it, and              *)
(* run_kernel_benchmarks (observability/kernel_benchmarks.py) compares the *)
(* trace of step_count_for steps with the numbers expected_invariants      *)
(* derives by hand.                                                        *)
(*                                                                         *)
(* A kernel is a record [shape, width, length] of its parameters: width is *)
(* the number of leaves, branches or writers, length that of a chain.  The *)
(* rosters of all kernels are in the store, with nodes named by their      *)
(* kernel; only those of the kernel being run are ever addressed.  The     *)
(* labels of _assign_heterogeneity only group executions, and Engine       *)
(* executes in any order.                                                  *)
(***************************************************************************)
EXTENDS Engine, CausalTrace, SequencesExt

CONSTANT Kernels    \* shapes

ASSUME KernelAssumption ==
  Kernels \subseteq
    [shape : {"chain", "fan_out", "fork_join", "independent_branches",
              "mixed_dag", "conflicting_write", "half_conflicting_write"},
     width : Nat \ {0}, length : Nat \ {0}]

VARIABLE kernel     \* shape, params

kernelVars == <<vars, kernel>>

-----------------------------------------------------------------------------
(* _build_topology: roster, hop_plan as pairs, root_agent_ids.             *)

Cell(k, name, row, i) == [kernel |-> k, name |-> name, row |-> row, index |-> i]
A(k, name, i) == Cell(k, name, 0, i)

Line(k, name) == {A(k, name, i) : i \in 0 .. k.length - 1}
Crowd(k, name) == {A(k, name, i) : i \in 0 .. k.width - 1}
Branches(k) == {Cell(k, "branch", b, i) : b \in 1 .. k.width, i \in 0 .. k.length - 1}

IsWriters(k) == k.shape \in {"conflicting_write", "half_conflicting_write"}

Roster(k) ==
  CASE k.shape = "chain" -> Line(k, "node")
    [] k.shape = "fan_out" -> Crowd(k, "leaf") \cup {A(k, "root", 0)}
    [] k.shape = "fork_join" ->
         Crowd(k, "branch") \cup {A(k, "root", 0), A(k, "sink", 0)}
    [] k.shape = "independent_branches" -> Branches(k)
    [] k.shape = "mixed_dag" ->
         Line(k, "left") \cup Line(k, "right") \cup {A(k, "join", 0)}
    [] IsWriters(k) -> Crowd(k, "writer")

(* From every node but the last of a line to the next one.                 *)
Along(S) == {e \in S \X S : e[2] = [e[1] EXCEPT !.index = @ + 1]}

LastNode(k, name) == A(k, name, k.length - 1)

HopPlan(k) ==
  CASE k.shape = "chain" -> Along(Line(k, "node"))
    [] k.shape = "fan_out" -> {A(k, "root", 0)} \X Crowd(k, "leaf")
    [] k.shape = "fork_join" ->
         ({A(k, "root", 0)} \X Crowd(k, "branch"))
           \cup (Crowd(k, "branch") \X {A(k, "sink", 0)})
    [] k.shape = "independent_branches" -> Along(Branches(k))
    [] k.shape = "mixed_dag" ->
         Along(Line(k, "left") \cup Line(k, "right"))
           \cup ({LastNode(k, "left"), LastNode(k, "right")} \X {A(k, "join", 0)})
    [] IsWriters(k) -> {}

Roots(k) ==
  IF k.shape \in {"fan_out", "fork_join"} THEN {A(k, "root", 0)}
  ELSE {a \in Roster(k) : a.index = 0 /\ a.name # "join"} \cup
       (IF IsWriters(k) THEN Roster(k) ELSE {})

(* round(): halves go to the even neighbour.                               *)
RoundHalf(n) == IF (n % 4) = 3 THEN (n + 1) \div 2 ELSE n \div 2

(* Writers below the count write the shared key x, the others one of their *)
(* own; every writer writes its index.                                     *)
ConflictingCount(k) ==
  IF k.shape = "half_conflicting_write" THEN RoundHalf(k.width) ELSE k.width

Key(a) == IF a.index < ConflictingCount(a.kernel) THEN <<"x">> ELSE <<"y", a.index>>

-----------------------------------------------------------------------------
(* Values of Engine's constants.                                           *)

KernelAgents == UNION {Roster(k) : k \in Kernels}

RootEvent(k) == [to |-> Roots(k), prio |-> 1]

KernelEmissions == {<<>>} \cup {<<RootEvent(k)>> : k \in Kernels}

(* SyntheticExecutionBackend._run_one: a message to each agent of the plan,*)
(* with the priority of the triggering event, and a writer's action.       *)
Hop(target) == [to |-> target, prio |-> 1, named |-> TRUE]

KernelReplies ==
  [a \in KernelAgents |->
     {[send |-> SetToSeq({Hop(e[2]) : e \in {h \in HopPlan(a.kernel) : h[1] = a}}),
       emits |-> <<>>, acts |-> IsWriters(a.kernel)]}]

(* inbox_limit = max(len(roster), 5), of the largest kernel.               *)
KernelInboxLimit == Max({5} \cup {Cardinality(Roster(k)) : k \in Kernels})

-----------------------------------------------------------------------------
(* Mutant: the join is taken to be reached with the last node of the lines.*)
StepCountOfLines(k) ==
  CASE k.shape \in {"chain", "independent_branches", "mixed_dag"} -> k.length
    [] k.shape = "fan_out" -> 2
    [] k.shape = "fork_join" -> 3
    [] IsWriters(k) -> 1

StepCountFor(k) ==
  CASE k.shape \in {"chain", "independent_branches"} -> k.length
    [] k.shape = "fan_out" -> 2
    [] k.shape = "fork_join" -> 3
    [] k.shape = "mixed_dag" -> k.length + 1
    [] IsWriters(k) -> 1

Metrics(nodes, edges, depth, components, degree) ==
  [node_count |-> nodes, edge_count |-> edges, max_depth |-> depth,
   component_count |-> components, max_in_degree |-> degree]

ExpectedInvariants(k) ==
  LET w == k.width
      l == k.length
  IN CASE k.shape = "chain" -> Metrics(l, l - 1, l - 1, 1, IF l > 1 THEN 1 ELSE 0)
       [] k.shape = "fan_out" -> Metrics(w + 1, w, 1, 1, 1)
       [] k.shape = "fork_join" -> Metrics(w + 2, 2 * w, 2, 1, w)
       [] k.shape = "independent_branches" ->
            Metrics(w * l, w * (l - 1), l - 1, w, IF l > 1 THEN 1 ELSE 0)
       [] k.shape = "mixed_dag" -> Metrics((2 * l) + 1, 2 * l, l, 1, 2)
       [] IsWriters(k) -> Metrics(w, 0, 0, w, 0)

-----------------------------------------------------------------------------
KernelInit == Init /\ kernel \in Kernels

(* SyntheticEnvironment.tick: the root event at tick 0, nothing later.     *)
Tick ==
  /\ AdvanceEnvironment
  /\ environment.tick = 0 => \E e \in batch' : e.to = Roots(kernel)
  /\ environment.tick # 0 => batch' = {}

(* engine.run(step_count_for(shape, params))                               *)
KernelEnded ==
  phase = "ready" /\ now = StepCountFor(kernel) /\ UNCHANGED vars

KernelNext ==
  /\ \/ now < StepCountFor(kernel) /\ (LoadEvents \/ Tick)
     \/ \E r \in todo : Execute(r)
     \/ TimePasses
     \/ \E res \in results : CommitResult(res)
     \/ FinishStep \/ KernelEnded
  /\ UNCHANGED kernel

KernelSpec == KernelInit /\ [][KernelNext]_kernelVars

(* The settings run_kernel_benchmarks runs with, which the theorems about  *)
(* kernels assume: the kernels' own agents and replies, no malformed       *)
(* answers, steps shorter than the clock's, and limits that no level of a  *)
(* kernel exceeds.                                                         *)
LevelWidth(k) == IF k.width >= 2 THEN k.width ELSE 2

KernelSettings ==
  /\ Agents = KernelAgents /\ Emissions = KernelEmissions /\ Replies = KernelReplies
  /\ "malformed" \notin Faults /\ MaxLag <= 1
  /\ \A k \in Kernels : LevelWidth(k) <= MaxEventsPerTick /\ LevelWidth(k) <= InboxLimit
-----------------------------------------------------------------------------
KernelDone == phase = "ready" /\ now = StepCountFor(kernel)

(* The gate of run_kernel_benchmarks: whatever the order of executions and *)
(* commits, after step_count_for steps the trace has exactly the shape     *)
(* that was derived by hand, and no event is left that a further step      *)
(* would turn into more of it.                                             *)
ShapeAsExpected ==
  KernelDone => GraphMetrics(trace) = ExpectedInvariants(kernel) /\ events = {}

(* The other half of the gate: verify finds nothing to report, at any time *)
(* of the run.  Its cycle search cannot, for the records come in an order  *)
(* in which every parent precedes what depends on it.                      *)
KernelVerified ==
  /\ Duplicates(trace) = [activations |-> {}, messages |-> {}]
  /\ MissingParents(trace) = {} /\ StaleOrConflict(trace) = {}
  /\ LET edges == Edges(trace)
     IN \A i, j \in DOMAIN trace :
          trace[j].activation \in edges[trace[i].activation] => j < i

-----------------------------------------------------------------------------
(* Mutant: setdefault: the first write of a key stays.                     *)
WriteOnce(variables, a) == variables @@ (Key(a) :> a.index)

(* SyntheticEnvironment.apply_actions for one writer's action.             *)
Write(variables, a) ==
  [k \in {Key(a)} \cup DOMAIN variables |-> IF k = Key(a) THEN a.index ELSE variables[k]]

Variables ==
  FoldLeft(LAMBDA v, activation : Write(v, activation[2]), <<>>, environment.applied)

(* The one place where the order of commits shows: the shared variable has *)
(* the value of the last writer in the trace, each other its own writer's. *)
LastWriteWins ==
  KernelDone /\ IsWriters(kernel) =>
    \A i \in DOMAIN trace :
      LET a == trace[i].agent
          later == {trace[j].agent : j \in i + 1 .. Len(trace)}
      IN (\A b \in later : Key(b) # Key(a)) => Variables[Key(a)] = a.index
=============================================================================
