------------------------------ MODULE Dispatch ------------------------------
(***************************************************************************)
(* DispatchPolicy.dispatch() of the seven policies (scheduling/            *)
(* dispatch_policy.py): the requests of one tick are split into pools,     *)
(* each pool is run by its own ThreadPoolExecutor, and the outcomes are    *)
(* collected by as_completed.  The threads call SynchronousProviderAdapter *)
(* .submit and .poll, behind which FailureInjectingBackend draws a failure *)
(* mode from a cycle it shares between them.                               *)
(*                                                                         *)
(* A request is named by its position in the batch and reduced to          *)
(*   [hint, role, parents, planned]: backend_hint, agent_profile.role, the *)
(*   requests of the same batch among its causal parents, and its entry in *)
(*   failure_plan, or NoMode.                                              *)
(***************************************************************************)
EXTENDS Integers, FiniteSets, SequencesExt

CONSTANTS
  Batches,       \* the requests dispatch() may be given, as sequences
  Policies,      \* the policies in use, a subset of AllPolicies
  MaxWorkers,    \* max_workers
  MaxInFlight,   \* max_in_flight with its default: per backend_hint
  MaxBatchSize,  \* BatchBuilder.max_batch_size
  Cycle,         \* FailureInjectingBackend.cycle
  NoMode,        \* no failure mode is configured
  NoPool         \* no pool is open

WavePolicies == {"causal_only", "capability_aware", "queue_aware", "full"}
AllPolicies == {"sequential", "naive_concurrent", "barrier"} \cup WavePolicies
Modes == {"none", "timeout", "malformed", "interruption"}
Kinds == {"valid", "invalid", "timeout", "error"}

ASSUME DispatchAssumption ==
  /\ Policies \subseteq AllPolicies
  /\ MaxWorkers \in Nat \ {0} /\ MaxBatchSize \in Nat \ {0}
  /\ \A hint \in DOMAIN MaxInFlight : MaxInFlight[hint] \in Int
  /\ Cycle \in Seq(Modes)
  /\ \A b \in Batches :
       /\ Len(b) \in Nat /\ DOMAIN b = 1 .. Len(b)
       /\ \A i \in DOMAIN b :
            /\ b[i].hint \in DOMAIN MaxInFlight
            /\ b[i].parents \subseteq DOMAIN b
            /\ b[i].planned \in Modes \cup {NoMode}
  /\ NoPool \notin [members : Seq(Nat), workers : Nat]

VARIABLES
  policy,      \* the dispatch policy
  concurrent,  \* backend.capabilities.supports_concurrency
  batch,       \* requests
  phase,       \* planning, dispatching or returned
  remaining,   \* the requests that are in no wave yet
  plan,        \* the pools still to be opened: [members, workers]
  pool,        \* the open pool
  queue,       \* its requests that no thread has taken yet
  at,          \* where each request is
  calls,       \* _call_count
  mode,        \* the failure mode drawn for each request
  outcomes,    \* _outcomes, by ticket
  watching,    \* as_completed has begun
  finished,    \* the futures done and not yet yielded
  results      \* the pairs (request, outcome) to be returned

planVars == <<phase, remaining, plan>>
poolVars == <<pool, queue, watching, finished>>
workVars == <<at, calls, mode, outcomes>>
vars == <<policy, concurrent, batch, planVars, poolVars, workVars, results>>

Positions == UNION {DOMAIN b : b \in Batches}

NoOutcome == [of |-> 0, kind |-> "none"]

(* The first dispatch() of a backend; later ones start further in the      *)
(* cycle.                                                                  *)
Init ==
  /\ policy \in Policies /\ concurrent \in BOOLEAN /\ batch \in Batches
  /\ phase = "planning" /\ remaining = DOMAIN batch /\ plan = <<>>
  /\ pool = NoPool /\ queue = <<>> /\ watching = FALSE /\ finished = <<>>
  /\ at = [i \in DOMAIN batch |-> "waiting"]
  /\ calls = 0
  /\ mode = [i \in DOMAIN batch |-> NoMode]
  /\ outcomes = [i \in DOMAIN batch |-> NoOutcome]
  /\ results = <<>>
-----------------------------------------------------------------------------
Smaller(m, n) == IF m < n THEN m ELSE n
Larger(m, n) == IF m > n THEN m ELSE n

(* The members of S in the order R, a set of pairs, puts them in.          *)
Before(x, S, R) == {y \in S : <<y, x>> \in R}

Listing(S, R) ==
  [k \in 1 .. Cardinality(S) |-> CHOOSE x \in S : Cardinality(Before(x, S, R)) = k - 1]

Earlier(S) == {e \in S \X S : e[1] < e[2]}

InOrder(S) == Listing(S, Earlier(S))

(* A dict of lists, read list by list: class by class, in the order in     *)
(* which the classes first occur.                                          *)
First(class, i, S) == Min({j \in S : class[j] = class[i]})

ByClass(class, S) ==
  {e \in S \X S :
     LET f == First(class, e[1], S)
         g == First(class, e[2], S)
     IN f < g \/ (f = g /\ e[1] < e[2])}

Hints == [i \in DOMAIN batch |-> batch[i].hint]
Roles == [i \in DOMAIN batch |-> batch[i].role]

(* BatchBuilder.group: the requests by backend_hint, in slices of size;    *)
(* Number counts within one hint, and the request that Number puts at the  *)
(* beginning of a slice stands for it.                                     *)
Number(i, w) == Cardinality({j \in w : j < i /\ batch[j].hint = batch[i].hint})

Slice(i, w, size) ==
  {j \in w : /\ batch[j].hint = batch[i].hint
             /\ Number(j, w) \div size = Number(i, w) \div size}

Leaders(w, size) == {i \in w : Number(i, w) % size = 0}

(* Mutant: slices of the whole list.                                       *)
GroupOfAll(w, size) ==
  LET part(k) == {i \in w : Cardinality({j \in w : j < i}) \div size = k - 1}
  IN [k \in 1 .. (Cardinality(w) + size - 1) \div size |-> part(k)]

Group(w, size) ==
  LET leaders == Listing(Leaders(w, size), ByClass(Hints, w))
  IN [k \in DOMAIN leaders |-> Slice(leaders[k], w, size)]

OneByOne(w) == LET s == InOrder(w) IN [k \in DOMAIN s |-> {s[k]}]

(* What one ThreadPoolExecutor runs, or the loop of the sequential policy, *)
(* which a backend without concurrency gets from the rungs 5 to 7.         *)
Grouping == {"barrier", "capability_aware", "queue_aware", "full"}

Serial == policy = "sequential" \/ (policy \in WavePolicies \ {"causal_only"} /\ ~ concurrent)

(* Mutant: the declared capability is not looked at.                       *)
SplitAnyway(w) == IF policy \in Grouping THEN Group(w, MaxBatchSize) ELSE <<w>>

Split(w) ==
  CASE policy \in {"naive_concurrent", "causal_only"} -> <<w>>
    [] policy = "sequential" -> OneByOne(w)
    [] policy \in Grouping -> Group(w, IF Serial THEN 1 ELSE MaxBatchSize)

(* max_workers, or the limit of group[0].backend_hint.                     *)
InFlightLimit(g) ==
  IF policy \in {"queue_aware", "full"}
  THEN Larger(1, MaxInFlight[batch[Min(g)].hint])
  ELSE MaxWorkers

Members(g) == IF policy = "full" THEN Listing(g, ByClass(Roles, g)) ELSE InOrder(g)

(* min(max_workers, len(requests)) threads.                                *)
Pool(g) == [members |-> Members(g), workers |-> Smaller(InFlightLimit(g), Cardinality(g))]

DispatchWave(w) ==
  LET groups == Split(w)
  IN [k \in DOMAIN groups |-> Pool(groups[k])]

(* The policies that do not look at causality.                             *)
PlanAll ==
  /\ phase = "planning" /\ policy \notin WavePolicies
  /\ plan' = DispatchWave(DOMAIN batch)
  /\ remaining' = {}
  /\ phase' = "dispatching"
  /\ UNCHANGED <<policy, concurrent, batch, poolVars, workVars, results>>

Resolved == DOMAIN batch \ remaining
ReadyIds == {i \in remaining : batch[i].parents \subseteq Resolved}

(* Mutants: one parent is enough; a batch without a ready request loops.   *)
BuildWaveEagerly ==
  LET ready == {i \in remaining : \/ batch[i].parents = {}
                                  \/ batch[i].parents \cap Resolved # {}}
      wave == IF ready = {} THEN remaining ELSE ready
  IN
  /\ phase = "planning" /\ policy \in WavePolicies /\ remaining # {}
  /\ plan' = plan \o DispatchWave(wave)
  /\ remaining' = remaining \ wave
  /\ UNCHANGED <<policy, concurrent, batch, phase, poolVars, workVars, results>>

BuildWaveUnguarded ==
  /\ phase = "planning" /\ policy \in WavePolicies /\ remaining # {}
  /\ plan' = IF ReadyIds = {} THEN plan
             ELSE plan \o DispatchWave(ReadyIds)
  /\ remaining' = remaining \ ReadyIds
  /\ UNCHANGED <<policy, concurrent, batch, phase, poolVars, workVars, results>>

(* One round of build_causal_waves: the requests whose parents are in      *)
(* earlier waves, or all that are left if there are none (cycle guard).    *)
BuildWave ==
  LET wave == IF ReadyIds = {} THEN remaining ELSE ReadyIds
  IN
  /\ phase = "planning" /\ policy \in WavePolicies /\ remaining # {}
  /\ plan' = plan \o DispatchWave(wave)
  /\ remaining' = remaining \ wave
  /\ UNCHANGED <<policy, concurrent, batch, phase, poolVars, workVars, results>>

WavesBuilt ==
  /\ phase = "planning" /\ policy \in WavePolicies /\ remaining = {}
  /\ phase' = "dispatching"
  /\ UNCHANGED <<policy, concurrent, batch, remaining, plan, poolVars, workVars, results>>
-----------------------------------------------------------------------------
(* The thread that called dispatch().                                      *)

(* executor.submit for every member of the next pool.                      *)
OpenPool ==
  /\ phase = "dispatching" /\ pool = NoPool /\ plan # <<>>
  /\ pool' = Head(plan)
  /\ queue' = Head(plan).members
  /\ plan' = Tail(plan)
  /\ UNCHANGED <<policy, concurrent, batch, phase, remaining, watching, finished,
                 workVars, results>>

(* as_completed first yields the futures that are done already, a set in   *)
(* no particular order, and then the others as they complete.              *)
Watch ==
  /\ pool # NoPool /\ ~ watching
  /\ watching' = TRUE
  /\ finished' \in SetToSeqs(ToSet(finished))
  /\ UNCHANGED <<policy, concurrent, batch, planVars, pool, queue, workVars, results>>

Collect ==
  /\ watching /\ finished # <<>>
  /\ results' = Append(results, Head(finished))
  /\ finished' = Tail(finished)
  /\ UNCHANGED <<policy, concurrent, batch, planVars, pool, queue, watching, workVars>>

Collected == {results[k].request : k \in DOMAIN results}

(* Leaving "with ThreadPoolExecutor" once every future has been yielded.   *)
ClosePool ==
  /\ pool # NoPool /\ watching
  /\ ToSet(pool.members) \subseteq Collected
  /\ pool' = NoPool
  /\ watching' = FALSE
  /\ UNCHANGED <<policy, concurrent, batch, planVars, queue, finished, workVars, results>>

Return ==
  /\ phase = "dispatching" /\ pool = NoPool /\ plan = <<>>
  /\ phase' = "returned"
  /\ UNCHANGED <<policy, concurrent, batch, remaining, plan, poolVars, workVars, results>>

Dispatcher ==
  \/ PlanAll \/ BuildWave \/ WavesBuilt
  \/ OpenPool \/ Watch \/ Collect \/ ClosePool \/ Return
-----------------------------------------------------------------------------
(* The threads of the open pool.                                           *)

Executing == {i \in DOMAIN batch : at[i] \in {"reading", "counting", "working", "stored"}}

(* Mutant: the cycle advances for requests with a planned mode as well.    *)
StartCounting ==
  /\ queue # <<>> /\ Cardinality(Executing) < pool.workers
  /\ queue' = Tail(queue)
  /\ at' = [at EXCEPT ![Head(queue)] = IF Cycle # <<>> THEN "reading" ELSE "working"]
  /\ mode' = [mode EXCEPT ![Head(queue)] = batch[Head(queue)].planned]
  /\ UNCHANGED <<policy, concurrent, batch, planVars, pool, watching, finished,
                 calls, outcomes, results>>

(* An idle thread takes the next request; failure_plan goes before cycle.  *)
Start ==
  LET i == Head(queue)
      draws == batch[i].planned = NoMode /\ Cycle # <<>>
  IN
  /\ queue # <<>> /\ Cardinality(Executing) < pool.workers
  /\ queue' = Tail(queue)
  /\ at' = [at EXCEPT ![i] = IF draws THEN "reading" ELSE "working"]
  /\ mode' = [mode EXCEPT ![i] = batch[i].planned]
  /\ UNCHANGED <<policy, concurrent, batch, planVars, pool, watching, finished,
                 calls, outcomes, results>>

(* mode = cycle[_call_count % len(cycle)]; the call of len lets another    *)
(* thread run before the counter is advanced.                              *)
ReadCount(i) ==
  /\ at[i] = "reading"
  /\ mode' = [mode EXCEPT ![i] = Cycle[(calls % Len(Cycle)) + 1]]
  /\ at' = [at EXCEPT ![i] = "counting"]
  /\ UNCHANGED <<policy, concurrent, batch, planVars, poolVars, calls, outcomes, results>>

(* Mutant: the counter is advanced when the mode is read and when it is    *)
(* injected.                                                               *)
AdvanceCountTwice(i) ==
  /\ at[i] = "counting"
  /\ calls' = calls + 2
  /\ at' = [at EXCEPT ![i] = "working"]
  /\ UNCHANGED <<policy, concurrent, batch, planVars, poolVars, mode, outcomes, results>>

AdvanceCount(i) ==
  /\ at[i] = "counting"
  /\ calls' = calls + 1
  /\ at' = [at EXCEPT ![i] = "working"]
  /\ UNCHANGED <<policy, concurrent, batch, planVars, poolVars, mode, outcomes, results>>

(* What each mode leads to; the wrapped backend may itself raise.          *)
KindsOf(m) ==
  CASE m = "timeout" -> {"timeout"}
    [] m = "interruption" -> {"error"}
    [] m = "malformed" -> {"invalid"}
    [] OTHER -> {"valid", "timeout", "error"}

(* Mutant: one field for the last outcome.                                 *)
SubmitToOneSlot(i) ==
  /\ at[i] = "working"
  /\ \E kind \in KindsOf(mode[i]) :
       outcomes' = [j \in DOMAIN batch |-> [of |-> i, kind |-> kind]]
  /\ at' = [at EXCEPT ![i] = "stored"]
  /\ UNCHANGED <<policy, concurrent, batch, planVars, poolVars, calls, mode, results>>

(* submit(): run_batch returns or raises, the outcome is stored under the  *)
(* ticket.                                                                 *)
Submit(i) ==
  /\ at[i] = "working"
  /\ \E kind \in KindsOf(mode[i]) :
       outcomes' = [outcomes EXCEPT ![i] = [of |-> i, kind |-> kind]]
  /\ at' = [at EXCEPT ![i] = "stored"]
  /\ UNCHANGED <<policy, concurrent, batch, planVars, poolVars, calls, mode, results>>

(* poll(), and the future is done.                                         *)
Poll(i) ==
  /\ at[i] = "stored"
  /\ finished' = Append(finished, [request |-> i, outcome |-> outcomes[i]])
  /\ at' = [at EXCEPT ![i] = "done"]
  /\ UNCHANGED <<policy, concurrent, batch, planVars, pool, queue, watching,
                 calls, mode, outcomes, results>>

Thread(i) ==
  i \in DOMAIN batch /\ (ReadCount(i) \/ AdvanceCount(i) \/ Submit(i) \/ Poll(i))

Returned == phase = "returned" /\ UNCHANGED vars

Next == Dispatcher \/ Start \/ (\E i \in Positions : Thread(i)) \/ Returned

(* The operating system runs every thread again and again, and every call  *)
(* of a backend returns or raises (the HTTP client has a timeout).         *)
Spec ==
  /\ Init /\ [][Next]_vars
  /\ WF_vars(Dispatcher) /\ WF_vars(Start)
  /\ \A i \in Positions : WF_vars(Thread(i))
-----------------------------------------------------------------------------
(* The shape of the state.                                                 *)
DispatchTypeOK ==
  /\ policy \in Policies /\ concurrent \in BOOLEAN /\ batch \in Batches
  /\ phase \in {"planning", "dispatching", "returned"}
  /\ remaining \subseteq DOMAIN batch
  /\ \A k \in DOMAIN plan : plan[k].members \in Seq(DOMAIN batch) /\ plan[k].workers \in Nat
  /\ queue \in Seq(DOMAIN batch) /\ watching \in BOOLEAN
  /\ at \in [DOMAIN batch -> {"waiting", "reading", "counting", "working", "stored", "done"}]
  /\ calls \in 0 .. Len(batch)
  /\ mode \in [DOMAIN batch -> Modes \cup {NoMode}]
  /\ outcomes \in [DOMAIN batch -> {NoOutcome} \cup [of : DOMAIN batch, kind : Kinds]]

(* dispatch() answers every request once, with its own outcome, whatever   *)
(* the threads do, and returns no sooner: what the engine relies on when   *)
(* it commits the pairs one by one.                                        *)
Contract == INSTANCE ExecutionContract WITH returned <- phase = "returned"
ImplementsExecution == Contract!Spec

(* A request that is caught in a cycle of in-batch parents, or follows     *)
(* one: the cycle guard may start it before its parents.                   *)
Entangled(i) ==
  \E S \in SUBSET DOMAIN batch :
    /\ i \in S
    /\ \A j \in S : batch[j].parents \cap S # {}

(* The policies built on causal waves start a request only when the        *)
(* outcomes of all its in-batch parents have been collected, unless no     *)
(* order could achieve that.                                               *)
ParentsFirst ==
  policy \in WavePolicies =>
    \A i \in DOMAIN batch :
      at[i] # "waiting" => batch[i].parents \subseteq Collected \/ Entangled(i)

(* Under the grouping policies no two backend hints are being served at    *)
(* the same time: each group is drained before the next one is opened.     *)
OneBackendAtATime ==
  policy \in Grouping =>
    \A i, j \in Executing : batch[i].hint = batch[j].hint

(* What a policy allows while request i is being served: one request where *)
(* the backend does not declare concurrency (rungs 5 to 7) or the policy   *)
(* is sequential, the limit of the backend under backpressure (rungs 6,    *)
(* 7), max_workers otherwise.                                              *)
MostInFlight(i) ==
  IF Serial THEN 1
  ELSE IF policy \in {"queue_aware", "full"} THEN Larger(1, MaxInFlight[batch[i].hint])
  ELSE MaxWorkers

(* No policy has more requests in flight than it says, however the threads *)
(* of the pool interleave.                                                 *)
InFlightBound == \A i \in Executing : Cardinality(Executing) <= MostInFlight(i)

Unplanned(k) == batch[results[k].request].planned = NoMode

(* Where requests run one after the other the injected failures are        *)
(* deterministic, as the docstring of FailureInjectingBackend says: the    *)
(* k-th request without a planned mode gets the k-th entry of the cycle.   *)
SerialIsDeterministic ==
  (Serial /\ Cycle # <<>>) =>
    \A k \in DOMAIN results :
      Unplanned(k) =>
        LET before == Cardinality({l \in 1 .. k - 1 : Unplanned(l)})
        IN mode[results[k].request] = Cycle[(before % Len(Cycle)) + 1]

(* dispatch() returns, also for a batch whose parents form a cycle.        *)
DispatchReturns == <>(phase = "returned")

(* Requests of one role and one backend are adjacent in dispatch order:    *)
(* "Same-role requests are reordered to be adjacent in dispatch order"     *)
(* (FullDispatchPolicy).                                                   *)
RolesAdjacent ==
  LET order == FlattenSeq([k \in DOMAIN plan |-> plan[k].members])
      alike(k, l) == /\ batch[order[k]].role = batch[order[l]].role
                     /\ batch[order[k]].hint = batch[order[l]].hint
  IN (policy = "full" /\ concurrent /\ Len(order) = Len(batch)) =>
       \A k, m \in DOMAIN order : alike(k, m) => \A l \in k .. m : alike(k, l)
=============================================================================
