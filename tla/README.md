# A TLA+ model of agentic-sim

agentic-sim runs simulations of agents that exchange messages: an engine takes
the events that are ready, activates the agents they target, lets a backend
(a rule set or a language model) answer for each of them, and commits what
they answer to a store.  This directory models the part of it that decides
*what happens when*: the step of the engine, the dispatch policies with their
thread pools, the store's atomic commit and its SQLite implementation, the two
scenarios and the synthetic kernel that run on it, the client of a served model
with the policy its answers pass through, and the verifier that judges the
records of a run.  It states what holds of every run, checks it on small
instances, and proves the most important of it for all.

Paths below are relative to the repository's `src/agentic_sim/`.

## The system

| Part | State | Operations | Interacts with | What is hard, what makes it correct |
|---|---|---|---|---|
| Runtime store, in memory (`state/in_memory_store.py`, port in `state/base.py`) | agent states, events, messages, environment, traces, versions of committed activations | `commit`, `pop_ready`, `inbox`, `put*`, `get*` | called by engine, context builder, router | three outcomes of `commit` checked in order, no rollback; a unit is stored whole, once, never over a newer state |
| SQLite store (`state/sqlite_store.py`) | the same in tables, one implicit transaction | the same, one SQL statement at a time | the same; outlives the process | a raise or a kill between two statements; it must be indistinguishable from the in-memory store |
| Engine (`engine/simulation_engine.py`, `engine/clock.py`) | clock, and within a step its requests, results and collected actions | `run`, `step` | everything below | contexts are built before any commit; commits, environment write and event removal are separate; real time against simulated time |
| Scheduler, context builder (`scheduling/fifo.py`, `execution/context_builder.py`) | none | `plan`, `build` | store | one activation per agent and tick, dropping the other events that target it; inbox cut to a limit |
| Router (`messaging/router.py`) | none | `route` | engine | unknown recipients, one event per message |
| Backends (`execution/mock_backend.py`, `synthetic_backend.py`, `supply_chain_backend.py`, wrappers `failure_injecting_backend.py`, `latency_simulating_backend.py`, `sync_provider_adapter.py`) | failure cycle counter, outcomes by ticket | `run_batch`, `submit`, `poll` | engine, dispatch policies | exceptions, malformed answers, the rebuilt agent state must keep version and cursor |
| Dispatch policies (`scheduling/dispatch_policy.py`, `execution/batcher.py`) | thread pool | `dispatch` | adapter | completion order, waves, chunks and caps; no request lost or executed twice |
| Provider client (`execution/openai_compatible_backend.py` and its two subclasses) | none per request | `run_batch`, repair, retry, fallback | HTTP server | bounded number of calls, a result whatever the server does |
| Role policy (`execution/role_policy.py`) | none | bound, deduplicate, restrict and complete a model's proposal | provider client | order of the passes; required messages carry no origin activation |
| Environments (`environment/*_env.py`) and scenarios (`scenarios/*.py`) | environment variables, tick, version | `apply_actions`, `tick` | engine | reducer over several agents' actions, clamping, thresholds that emit events once |
| Causal verifier and kernel invariants (`observability/causal_verifier.py`, `kernel_invariants.py`) | none | four checks over the trace | run artifacts | cycles, missing parents, stale reads; correct for any order of records |
| Artifacts, telemetry, statistics, CLI, sweeps, configuration | files | reports | finished runs | no protocol, except the wait loops of `cli.py` |

## The modules

| Module | Models | Kind |
|---|---|---|
| `RuntimeStore` | the stored data, `commit`, `pop_ready`, `inbox` as operators and actions | component |
| `StoreContract` | any caller submitting any units in any order | abstract specification |
| `SQLiteStore` | `commit` and `pop_ready` of the SQLite store, one SQL statement per action | refines `StoreContract` |
| `Engine` | `run` and `step` over `RuntimeStore`; scheduler, context builder, router, adapter and failure injection are operators or actions of it | composition |
| `ExecutionContract` | what `step()` needs of `dispatch()`: every request answered once, in any order | abstract specification |
| `Dispatch` | the seven policies, `BatchBuilder`, the pool's threads, the adapter, the failure cycle | refines `ExecutionContract` |
| `CausalTrace` | the checks of `verify` that need no search, `build_message_edges` and `graph_metrics`, as operators over a trace | component |
| `CausalVerifier` | `verify` with the recursive cycle search, one call, hit or return per action | component over `CausalTrace` |
| `SyntheticKernel` | the six topologies, `step_count_for`, `expected_invariants`, the environment and backend of the benchmark | composition of `Engine` and `CausalTrace` |
| `RolePolicy` | from a model's proposal to a result: the enforcement and completion passes, and the rule backends they must agree with | operators |
| `ProviderClient` | `run_batch`, `_run_one`, `_send`: threads, retries, repairs, cancelling | component over `RolePolicy` |
| `Scenario` | storm and supply chain: ticks, reducers, one step of the engine at a time, with a rule backend or a served model | composition with `ProviderClient` |
| `SampleUnits`, `MCStoreContract`, `MCSQLiteStore`, `MCEngine`, `MCDispatch`, `MCVerifier`, `MCKernel`, `MCScenario` | instances for TLC | model checking |
| `StoreContract_proofs`, `SQLiteStore_proofs`, `Engine_proofs`, `CausalTrace_proofs`, `CausalVerifier_proofs`, `SyntheticKernel_proofs`, `Dispatch_proofs`, `Scenario_proofs` | theorems | proofs |

### RuntimeStore and StoreContract

`states`, `messages`, `events`, `committed` are the dictionaries of
`InMemoryStateStore`; `receipt` is what the last `commit` returned.  The three
outcomes are three actions guarded as the code's early returns are, in their
order: the idempotency key first, then the version.  An agent state is reduced
to its version and its inbox cursor; an event's `target_scope` to the set of
recipients it resolves to (the empty set is the empty scope, every profile).
Dictionaries keyed by id are sets of records, since ids (`new_id`) are unique.

`StoreContract` closes this with callers that submit any of `Units` at any
time: a unit can be retried, arrive late, or share its activation id with
another attempt.  Its assumption `UnitsAssumption` says what every caller in
the repository guarantees: message ids are fresh, and `updated_state` is one
version above the state it was computed from (`with_activation_count`).

### SQLiteStore

Python's `sqlite3` opens a transaction at the first INSERT or DELETE and
`with self.conn` commits it at a normal exit, or rolls it back when a
statement raises.  `txn` is that open transaction; the four tables are what
any other reader sees.  `RaiseAndRollback` may happen between any two
statements (`json.dumps` of an unserialisable payload, a full disk), `Crash`
at any time.  `Reopen` is the constructor without an environment, which keeps
the rows.

`ImplementsContract` is `StoreContract` under the identity mapping on the
tables: the transaction is invisible until the one step that publishes it.

### Engine

One action per phase of `step()`:

| Action | Code |
|---|---|
| `LoadEvents`, `AdvanceEnvironment` | lines 63-100: pop the ready events, or tick the environment when there are none; plan; build all contexts |
| `Execute(r)` (`Completes`, `CompletesMalformed`) | one request answered by the backend |
| `FailedOutcome(r)` | the adapter turns an exception into FAILED, `step()` drops it (line 116) |
| `BackendRaises` | without a dispatch policy the exception leaves `run()` |
| `CommitResult(res)` | one round of the result loop, lines 131-177 |
| `FinishStep`, `ActionRaises` | lines 179-217: the collected actions are applied at once, or `apply_actions` raises (that the summary of the results' metadata can raise as well is in `Scenario`) |
| `TimePasses` | real time during a step |

The order of executions and of commits is left open: whatever order a dispatch
policy produces is among those checked.  The sequential path is one of them.

What the backends and the environment say is a parameter: `Replies[a]` is the
set of answers an activation of `a` may give (messages, named with their
origin or not, events, actions), `Emissions` what an environment tick emits.
Every normal answer of the repository's backends has this form, with the
state update of `MockBackend._update_state`.  Environment variables are
abstracted to *whose* actions they hold and in which order
(`environment.applied`), which is what the engine is responsible for.  None of
the environments' `apply_actions` emits events, so the engine's `put_many` of
them is left out.

Time: `now` counts five-minute clock steps.  Everything an activation creates
is scheduled for real time; `wall` is the first value of `now` at which that
is due.  It starts at 1, because everything is created after
`SimulationClock.start()`, and with `MaxLag = 1` never gets ahead of the next
tick (a step takes less than five minutes); `MaxLag = 2` lets it.

An activation's id is the pair of its trigger event and its agent, which is
unique as long as an event is used once.  That is not assumed but proved
(`IdInv`).

### Dispatch

One call of `dispatch()`.  It first plans (`PlanAll`, or one `BuildWave` per
round of `build_causal_waves` and then `WavesBuilt`): the plan is a sequence of
pools, each one `with ThreadPoolExecutor(...)` block, and a sequential policy is
one of pools of one.  The code interleaves planning and dispatching of groups;
since planning reads only the requests, which nobody changes, the order does not
matter.  `DispatchWave` turns a wave into pools: `Split` cuts it into groups (the
whole wave, one request at a time, or `Group`, which is `BatchBuilder.group`),
and `Pool` gives each its order (`Members`) and its number of threads
(`InFlightLimit`).  The builder's dict of lists becomes two ideas: a request is
in the slice its number within its hint puts it in (`Number`, `Slice`), and the
slices come in the order of their first requests (`Leaders`, `ByClass`).
Nothing here is recursive, so that all of it can be reasoned about.  Then the
dispatching thread goes through `OpenPool`, `Watch`, `Collect`, `ClosePool`,
and at last `Return`.

A pool's thread takes a request (`Start`), draws a failure mode (`ReadCount`,
`AdvanceCount`: `_call_count` is read before the call of `len` and incremented
after it, and CPython may switch threads at a call), runs the backend and stores
the outcome (`Submit`), and fetches it again (`Poll`).  `as_completed` yields
the futures already done in the order of a set, hence of any order, and later
ones as they complete.  Ticket ids (`new_id`) are unique and taken to be the
request's position.  A request is its position in the batch; of its contents
only backend hint, role, planned failure and in-batch parents matter.

`ImplementsExecution` connects the two levels: `Execute` and `FailedOutcome` of
`Engine` take the requests of a tick in any order, once each, as `Answer` of
`ExecutionContract` does.

### CausalTrace and CausalVerifier

A trace is a sequence of records with the fields of an `agent_step` record that
the checks read; `CausalTrace` translates each check to the set of activations
it reports.  `Engine` keeps its trace in the same form, which is how the kernel
is judged by the same operators.

The cycle search is modelled call by call, because its correctness lies in what
it does *not* do: a search that finds a cycle returns through all its callers
without taking their nodes out of `visiting` (line 119), and every later search
that touches one of these leftovers reports a cycle as well (`FindLeftover`,
`FindCycle`).  `CyclesExact` says that this is nevertheless exactly right: the
nodes reported are those from which the parents lead into a cycle.  The parents
of a node are visited in any order.  `InOrderNeedsNoStack` is about Python's
recursion limit: every run writes its records so that no parent comes later,
and then the recursion never goes deeper than one frame.

`AcceptedIffReplayable` relates the checks to what they are for.  What `verify`
does not check is recorded here rather than as a property: a trace whose
versions and whose messages are each in order may still have no order that
satisfies both at once, and it is accepted.

### SyntheticKernel

`KernelReplies` and `KernelEmissions` give `Engine`'s parameters the values the
synthetic backend and environment have, for a kernel `[shape, width, length]`.
`Tick` restricts the engine's environment tick to what `SyntheticEnvironment`
emits, and the run ends after `StepCountFor` steps.  Nodes are named by kernel
so that one run of TLC covers all kernels.  Labels of backends and roles only
group executions, which `Engine` runs in any order.

### RolePolicy

`ResultFromProposal` is `_result_from_proposal`: forbidden, unbounded and
repeated items are dropped, required messages and actions are added, the two
keys of the system are kept out of the memory, and the counts and flags of the
result are computed.  A message carries its priority and whether it names its
activation as its origin, because these two decide the order of inboxes and the
edges of the causal graph; of payloads only region and delta are kept.  The
proposal's metadata are laid over the result's in the order of the code, so that
a `retry_count` of the model's own replaces the client's (line 195).  An item
carries in `by` whose it is: its position in the model's proposal, or 0 for the
policy's own; the properties need it, the code does not have it.

The order of the passes is the code's: bounds are checked *before* the first of
a type is chosen, which is what `OwnAnswerStands` depends on.  `RuleMessages`
and `RuleActions` are the rule backends, written independently from their own
source, for `FallbackLikeRule`: a fallback tells the same agents the same and
takes the same actions as the rule would, and its messages differ in their origin
and, for the operators of a storm, in their priority, and in nothing else.

The loops that keep some items of a list in their order are `Selection`s of
positions rather than recursive folds, so that something can be proved about
them: `Within` keeps what passes a test, `Complete` appends what is the first
of its kind.

### ProviderClient

One record per request: `Start` takes it from the list or by a thread of the
pool; `TransportRaises` is an attempt that failed, with another one to follow
or not; `TransportReturns` is an answer, followed by a repair request
(`Repair`), an exception (`AnswerRaises`) or a result (`Finish`).  `Cancel` is
what `executor.map` does when its results are read up to one that raised: it
cancels the futures behind it that have not started, from the last, while the
threads go on taking the next.

An answer is the sequence of the JSON candidates in it, one per opening brace,
each with what the extraction finds out about it: whether it closes, whether it
parses, what it says.  Prose, code fences and a trailing comma only change
which candidates there are.

### Scenario

`LoadStep`, `RunBatch` .. `ReturnBatch` or `RunByRule`, and `FinishStep`,
`ApplyActionsRaises` or `SummaryRaises` are one step of the engine; in between
runs the client.
What can happen inside a step is the matter of `Engine`: here commits are not
taken apart.  Events are a sequence in creation order, and an agent is
activated by the first event that targets it, as `FIFOScheduler` plans.  The
ticks, thresholds and reducers of both environments are translated with their
numbers, since the properties depend on when an alarm is raised and who hears
it; stocks and capacities do not fall below nothing (`AtLeast`).

`round` is a history variable: what has happened since the environment last
ticked.

## The runs

| Run | Instance and bounds | Shows |
|---|---|---|
| `store_contract` | two agents, six units: a first activation, two retries (from the old and from the new version), a second activation, a stale one | every interleaving of submissions and pops keeps units whole, applied once, on the newest version, with truthful receipts |
| `sqlite_store` | the same units, raise and crash anywhere | the SQLite store implements the contract |
| `engine_uniform` | hub and two spokes, one priority, four steps, inbox limit 2 with up to four unread messages | each message is read once, in order, and none is skipped; versions form a chain; the environment ticks only in silence |
| `engine_mixed` | two priorities, broadcast, unknown targets and recipients, a message without origin, event limit 2, three steps | no message is stranded; causality stays between ticks; records are closed under parents |
| `engine_faults` | all faults, with and without a policy, real time up to two ticks ahead | every commit applies; the environment follows the records; a failed step has committed nothing or everything |
| `engine_skips` | as `engine_uniform`, but the spokes' reports have two priorities | *violated*: the cursor passes a message nobody has read |
| `dispatch` | all policies, concurrent or not, four batches: empty, independent with two backends, a chain, a knot (two that are each other's parents, one below them, one apart); three workers, slices of three, caps of two and of one | every schedule answers every request once with its own outcome, respects parents, groups and limits, and returns |
| `dispatch_roles` | one backend, five requests with alternating roles, slices of three | *violated*: roles are ordered only within a slice |
| `verifier` | all 512 graphs of three records, all 4096 loop-free graphs of four, all of three with a repeated activation, and every pair of records with loose ids and versions | the search reports exactly the cycles and needs no recursion on traces in order; what is accepted could have happened and has one history of versions; depth and components are right |
| `kernel` | the benchmark's parameters (a half-conflicting write of four), a wider join, and every shape at its smallest | the hand-derived step counts and metrics hold in every order of executions and commits; a shared variable has its last writer's value |
| `scenario` | both scenarios with and without fixtures; 13 steps by rule or with a silent model, 5 with talkative operators, 2 with broken answers or with one role that may propose anything; one transport failure per batch | calls are bounded, and told unless the model gives a `retry_count` of its own, the policy is kept and only fills gaps, a fallback tells and does what the rule would, and every round ends after three steps with all reports in |
| `provider_truncated` | the same instance | *violated*: an entry of a cut-off completion is taken for the answer |

Why the bounds are enough.  The store's properties relate at most two units of
one activation and one of another agent; the sample has each such pair, and
the theorems cover every set of units.  Messages need two ticks for a round
trip, three for an answer to be read, four for the messages that one window
left over to be read by the next; hence three and four steps.  Three
agents are needed for two senders to meet in one inbox.  Two events per tick
with three targets make the limit bite.  `RunSteps` ends a run as the argument
of `run()` does, and `Ended` is the only state without another step, so
deadlock is checked everywhere (in `Dispatch` the call that has returned stutters,
`Returned`).  In a batch of four, three requests for one backend meet a
cap of two and fill a slice of three; a cap of zero shows the `max(1, limit)`;
the knot is the smallest batch with a cycle, a follower and a bystander.  A search over three nodes can abandon a cycle of two and run into it from
the third; with four it can do so from below another frame, and two cycles can
be disjoint.  The kernel's steps are few and fixed (`RunSteps = 4` is the
largest `step_count_for`), and its limits on events and inbox are those of the
code.  Thirteen steps of a scenario are four rounds and a tick, enough for the
storm to rise and fall with its fixture and for stocks to run short and be
filled up.  A model may answer anything from `Responses` to each request
afresh; proposals of up to three items hold a good, a bad and a repeated one.
With one failure of the transport per batch (`MaxFailures`) a request with one
retry succeeds, and one without any raises; the proof has no such bound on the
batches and answers.  Batches have at most four requests; a tick of
the supply chain activates five agents and fills two.  Scenario steps take less than the clock's interval
and have fewer events than `max_events_per_tick`; `Engine` is without these
restrictions.  Symmetry is not used: the hub differs from
the spokes, and the two spokes' messages have numbered ids.

Fairness is assumed in `Dispatch` only, for `DispatchReturns`: weak fairness of
the dispatching thread, of the pool's taking the next request, and of each
thread.  The operating system runs every runnable thread again and again,
nothing in the code disables one for good, and every backend call ends (rule
sets compute, HTTP requests have a timeout).  All other properties are safety
properties.

`EngineTypeOK`, `NoConflict` and `SingleWave` are checked where the instance
is most demanding for them; the inductive invariants of the proofs were
checked on the same instances before they were proved: those of the engine on
its runs, `DispatchInv`, `OrderInv` and `DrawnInv` on `dispatch`.

## Preconditions of single properties

* `ReadsOnceInOrder` needs messages of one priority.  With two, the cursor may
  be older than another message of the same window, which the next window then
  shows again.  The storm scenario takes the priority of messages from the
  severity, so this does happen.
* `NoMessageSkipped` needs one priority or a sufficient inbox limit (next
  section).
* `NoStrandedMessage` needs an inbox limit no inbox exceeds and executions
  that succeed: a FAILED outcome consumes its trigger event without reading
  the message it announced (`simulation_engine.py:109` leaves this to future
  work).
* `QuiescentEnvironment` needs steps that take less real time than the clock's
  five minutes.
* The other properties of `Engine` have none.

Each precondition is a hypothesis of the theorem about that property.

## A message that is never read

`MockBackend._update_state` and `OpenAICompatibleExecutionBackend._updated_state`
store the last message of the inbox window as the cursor.  `inbox()` sorts by
priority first and cuts the window to `inbox_limit` (5 by default), and the
next window holds only messages created after the cursor.  When two priorities
meet in a backlog longer than the limit, a message of the lower one that is
cut off may be older than the last one shown, and then no activation reads it.
`engine_skips` shows a spoke's report of priority 0 passed by two of priority
1, with limit 2.  `docs/research_roadmap.md:509` says that
"`ContextBuilder.build()` already reads every unread inbox message per
activation, so a join node's single activation naturally receives all branch
messages".  The synthetic scenario, about which the sentence is written, sends
one priority and raises the limit to the number of its agents
(`scenarios/synthetic.py:73`); the storm scenario does neither: its reports
have the severity as priority, and with more than five operators a backlog of
one tick meets the reports of the next.

## Roles are adjacent only within a slice

`FullDispatchPolicy` promises that "same-role requests are reordered to be
adjacent in dispatch order" (`scheduling/dispatch_policy.py:269`).  It reorders
the group it is given, which `BatchBuilder` has already cut to
`max_batch_size` requests (8 by default) in their original order; with more of
them for one backend the roles alternate again from slice to slice
(`dispatch_roles`).  No result depends on it; what is lost is the reuse of
prefixes the order is meant for.

## A truncated answer is taken for an answer

`_iter_json_candidates` (`execution/openai_compatible_backend.py:439`) tries
every opening brace, and when the outermost object never closes it goes on to
the next one (line 449).  A completion that reached its token limit after a
complete entry of `outgoing_messages` therefore yields that entry, a JSON
object, as the proposal.  It has none of the proposal's keys, so it proposes
nothing, and it is not invalid: no repair is asked for, `fallback_used` stays
false, and the messages the model did write are replaced by the policy's.
`provider_truncated` shows it.  `docs/glossary.md:17` describes the fallback as
"what happens when a proposal is unusable even after extraction and the bounded
re-prompt retry"; `tests/test_aitta_backend.py:286`
(`test_truncated_json_falls_back_to_policy_guard`) expects a truncated
completion to be marked invalid, and passes because its example is cut off
before any inner object is complete.

## Smaller disagreements met while modelling

No run is spent on these.  The first six are in the model as the code has them.

* The result's `retry_count` is the client's only until the proposal's metadata
  are laid over it (`openai_compatible_backend.py:192-195`): a model that sends
  one replaces it, although `tests/test_aitta_backend.py:198` is named
  `test_retry_count_reflects_number_of_retries_taken`.  `json_repair_attempts`
  is written afterwards.  `CallsAccounted` excepts such proposals.  If the value
  is one that `int()` refuses, `_tick_backend_summary` raises
  (`simulation_engine.py:246`, `SummaryRaises`) when everything of the step,
  the environment included, is stored but the clock has not advanced.
* Policy completion and the rule backends differ in what a message is apart from
  its recipient, type and content.  The rules name the activation as the origin
  (`mock_backend.py:75,111`, `supply_chain_backend.py:90`), and by rule a storm's operator
  reports with the severity as priority (`mock_backend.py:103`);
  the policy's messages have no origin and the trigger's priority
  (`role_policy.py:251-267`).  So after a fallback the next inbox may be
  ordered otherwise, and the causal graph of the trace lacks the edge, although
  `docs/research_roadmap.md:508` says that `Message.origin_activation_id` and
  `Event.causal_parent_activation_id` "track the message-mediated causal chain".

* `_first_choice_text` says that it never raises
  (`openai_compatible_backend.py:390`); it raises for a choice that is no
  object (`AnswerRaises`).
* A proposal that parses but has an entry of the wrong type, or that sets
  `model_output_invalid` itself without an error text (line 133), raises out of
  `run_batch`, and with it out of the step, although a fallback exists.
* A delta of `NaN` is within `ProtectiveDeltaBound`, and `adjust_capacity` is
  not bounded at all: `int()` raises in `apply_actions`, after the commits of
  the step (`ApplyActionsRaises`).
* Two operators whose models message each other answer for ever, and the
  environment never ticks again; `RoundsOfThree` therefore excepts rounds with
  an unprompted message.
* `check-aitta` ends with exit code 0 even if it prints `"ok": false`, and a
  probe begun before the deadline may succeed after it
  (`cli.py:292-299` against `docs/lumi.md:86`).

## What is proved

Every theorem is checked by TLAPS for all values of the constants that satisfy
the named assumptions, which TLC evaluates in every run:

| Assumption | Says | Because |
|---|---|---|
| `UnitsAssumption` | message ids are fresh, a state is one version above the one it was computed from | `new_id`, `with_activation_count` |
| `EngineAssumption` | the limits are numbers and the replies well formed | the constructors' arguments |
| `DispatchAssumption` | at least one worker and slices of at least one (8 by default; with less `ThreadPoolExecutor` and `range` raise), any limit per hint, parents within the batch, modes the wrapper knows | `max_in_flight.get` has a default for every hint, `build_causal_waves` looks at in-batch parents only, the wrapper's constructor refuses other modes |
| `TracesAssumption` | traces are finite sequences, and what a commit read is a number | `agent_step` records |
| `KernelAssumption`, `FailuresAssumption` | sizes and bounds are numbers | arguments |

Two hypotheses are not assumptions of a module but of theorems.  `KernelSettings` is
that of three theorems about kernels.  It says that agents and replies are those of the
kernels, that no answer is malformed (`run_kernel_benchmarks` injects no failure and
`SyntheticExecutionBackend` answers by rule), that a step takes less than the
clock's five minutes, and that no level of a kernel is wider than
`max_events_per_tick` or `inbox_limit`.  The widest kernel of the benchmark has
four branches or writers against 32 events, and `create_synthetic_engine` makes the inbox
limit the size of the roster at least.  A wider kernel than the event limit needs
more steps than `step_count_for` says, so this hypothesis cannot be dropped.
`MCKernel` asserts it of the run `kernel` (`MCKernelSettings`).

`ScenarioSettings` is that of the theorems about `Scenario`.  It says that a run is of
one of the two scenarios, that the names in it are words and the coordinator's is
nobody else's (`SetupsOK`), that severities, delays and the backend's options are
numbers, as `int()` and the constructors make them, and that whatever of a model's answer
parses and is not malformed is a list of messages, a list of actions and a list of
events (`AnswersOK`): types, no restriction on content, and what is malformed stays
arbitrary.  Fixtures, regions, the number of steps, retries and repairs, and which
calls fail, are not restricted.  `MCScenario` asserts `SetupsOK` of the runs, and
that of the answers for every kind of request there is (`MCSettings`).

* **StoreContract_proofs**: `StoreTypes`, `StoredWhole`, `StoredOnce`,
  `ReceiptsHold`, `NoUpdateIsLost`.  The invariant `CInv` is the conjunction of
  the four state properties.  It is inductive because a visible unit has its
  key (`AllOrNothing`), so the idempotency check rules out a second attempt.
* **SQLiteStore_proofs**: `ImplementsTheContract` (refinement) and
  `TransactionsEnd`.  `TxnInv` describes the open transaction exactly: the
  tables plus the part of the unit already written, or minus the events
  already deleted, together with the outcomes of the SELECTs, which stay true
  because only this connection writes.  With it, `CommitTransaction` is the
  contract's `CommitApply`, `CommitDeletes` its `PopReady`, `SelectKey` and
  `SelectVersion` the two refusals or a stutter, everything else a stutter.
* **Engine_proofs**: `TypeCorrect`, `EveryCommitApplies`, `OneWavePerTick`.
  None of the three is inductive.  That a commit applies needs that the
  request's version is still current (`Fresh`, kept for every request not yet
  committed because no two requests share an agent) and that its id was never
  committed, which needs that no event is ever used twice (`IdInv`: ids are
  handed out once, an event that triggered a committed activation is neither
  stored nor proposed again).  `SingleWave` needs in addition that every origin
  a stored message or event names has already committed (`OriginInv`), for
  then it cannot be one of the present requests, which have not.
  `EveryCommitApplies` is what makes lines 155-156 of `step()` sound, which
  count messages and keep actions without looking at the receipt.
* **Engine_proofs**, second part: what the commits add up to, by invariants over
  the records on top of `IInv`.  Without a hypothesis: `ParentsInEarlierTicks`
  (`CausallyClosed`: whatever is in an inbox was sent by a record of an earlier
  tick), `RecordsFormChains` (`VersionChain`), `ActionsFollowRecords`
  (`EnvironmentFollowsTrace`) and `FailuresAllOrNone` (`FailedStepAllOrNone`:
  `HaltInv` says that nothing commits before all has executed).
  `NothingSkipped` proves `NoMessageSkipped` of every run in which no message of
  a higher priority overtakes an unread one at the inbox limit
  (`NothingOvertakes`), which is exactly what happens in `engine_skips`;
  `CursorInv` says that a cursor is the id of a stored message and lies below
  all that is still to come, `UnreadInv` that it passes only what has been read.
  `ReadOnceInOrder` needs one priority and no malformed results, as the
  property does; `UniformPriority` shows that a workload whose answers all send
  with one priority satisfies both hypotheses, so that the two properties
  hold there outright.  `NothingStranded` needs inboxes that fit and executions
  that succeed.  `EnvironmentWaits` proves the action property
  `QuiescentEnvironment` for steps shorter than the clock's five minutes
  (`MaxLag <= 1`): events are then due in the next tick at the latest
  (`DueInv`).
* **SyntheticKernel_proofs**: `EveryRunVerifies`: every trace any run of the
  engine writes passes the verifier's checks (`KernelVerified`), because
  activations are recorded once (`DistinctInv`), parents in earlier ticks, and
  versions form chains.  `KernelsVerify` is the same of the benchmark's runs,
  for every shape, width and length, since a kernel's run is one of the
  engine (`KernelRunsTheEngine`).
  The other three are under `KernelSettings`, the settings of the benchmark
  (below).  `KernelClimbs` is the inductive invariant `KernelInv` of a kernel
  run.  The topologies are *graded* (`Graded`): every hop leads to the next
  level, and the hops into one level differ in a slot below the kernel's width.
  So whatever the order of executions and commits, in step `n` just the agents
  of level `n` run; each is recorded once, its record's parents are one message
  from each predecessor, and what it sends is one message per hop out of it.
  The slots bound the events and messages of a level (`HopsFit`), which is why
  no limit of the engine cuts anything off; without this the invariant would
  not be inductive.
  `LastWriterWins` follows by induction over the prefix of applied actions.
  `ShapesAsDerived` is the gate of `run_kernel_benchmarks`, for every shape,
  width and length: at `KernelDone` the trace realises the topology (`Realizes`:
  a record per agent, a message per hop), a trace that does so has the
  topology's nodes, edges, in-degree, depth and components (`RealizedShape`), and
  these are the numbers `expected_invariants` gives (`HandDerived`, shape by
  shape: a count of hops, a longest path, a representative per component).
* **Dispatch_proofs**: `DispatchInv` says that every pool is as its policy
  promises and no request in two (`PoolsInv`), that a request is where its
  state says and only there (`PlaceInv`), that the call counter is the number
  of requests that have drawn a mode (`CountInv`), that no pool has more
  threads at work than it may (`WorkersInv`), and that an outcome is its
  request's own (`AnswerInv`).  The lemmas about planning carry `PoolsInv`: the
  groups of a wave are disjoint, cover it, keep to one hint, and their listings
  are without repetition.  From it follow `TypesHold`, `InFlightIsBounded` and
  `BackendsTakeTurns`.  `EveryRequestAnswered` is the refinement of
  `ExecutionContract`: `Collect` is `Answer`, `Return` is `Return`, everything
  else a stutter; when the last pool is closed `PlaceInv` leaves no place but
  the results for a request.  `CausalOrderKept` needs the order of the waiting pools
  (`OrderInv`): a request's parents are collected or in a pool before its own,
  unless it is entangled in a cycle, which is when `BuildWave` takes all that is
  left.  `SerialDrawsInOrder` needs that in a pool of one nobody
  else is between drawing and being collected, so that the counter is the number
  of unplanned results (`DrawnInv`).
* **CausalTrace_proofs**: what `graph_metrics` computes, for any trace.  Its union-find
  is a fold and its depth a recursive function; TLA+ defines both by CHOOSE, so the
  proofs first show that such a function exists, by extending one that is right up
  to rank `k` to rank `k + 1` (`FoldTable`, `DepthTable`).  The depth is then the
  length of a longest chain of messages (`MaxDepthIsDepth`, `LongestChain`), the
  classes that remain separate are the connected components
  (`FoldSeparates`, `ComponentsCounted`), and the sizes of the edge lists add up to the number
  of edges (`EntriesAddUp`).  Other modules cite these lemmas.
* **CausalVerifier_proofs**: `SearchTypes`, `ReportsExactlyTheCycles`,
  `NoRecursionInOrder`, for every trace.  `SearchInv` says of the depth-first search:
  what is visited is closed under parents and meets no *unfounded* set, one
  each of whose nodes has a parent in it; the frames of the stack are a chain
  of parents, none of whose nodes occurs twice; what abandoned searches left
  behind is itself unfounded, and the nodes reported are among it.  At the end
  every node is visited or reported, so the reported ones are exactly those in
  some unfounded set.  `AcceptedVersionsAreChains` (`NoForkedHistory`) and
  `AcceptsWhatCouldHappen` (`AcceptedIffReplayable`) are about the verdict.
  For the latter the search, when it ends without a cycle, must yield an order of
  the records: `RankInv` says that at every moment the visited nodes can be
  ranked so that parents come first, since a node joins them only after all its
  parents have.  The same ranking gives `MetricsAreExact` (`MetricsExact`): on every
  accepted trace, in whatever order its records come, the reported components
  are the least sets no message leaves, and the reported depth is that of a
  longest chain; without an order the recursion for the depth need not end.
* **Scenario_proofs**: the first four are for `ClientSpec`, the client called
  with any batches, one after the other, with any answers and any options.
  `CallsAreAccounted` says that calls are bounded and that the result that
  leaves the client tells them all, unless the proposal has a `retry_count` of its
  own: `ClientInv` ties the
  counters of a request by two sums (the calls made are the retries, the
  repairs and the attempts under way; the first two are at most
  `max_retries + 1` times the repairs), and says that in a batch run one by one
  a request has begun only if all before it are done.
  `ResultsObeyPolicy`, `OwnAnswersStand` and `FallbacksAreLikeTheRule` are about
  what is done to a proposal, of any length, for any request.  The last compares
  all fields of the messages and actions of a fallback with the rule's, role by
  role (`RuleIsRequired`), and admits just the two differences above.  Their lemmas are
  facts about selections: a selection shows each of its positions once and in
  order (`SelectionExact`), so that `Complete` loses nothing and has no kind
  twice (`CompleteItems`).  `ResultsInv` says that every result was made so from
  a proposal that is `ProposalOK`; that the required items are themselves
  permitted, within bounds and of different kinds is `MessagesRequired` and
  `ActionsRequired`, role by role.
  Their hypothesis `WellFormed` says that a request's role belongs to its scenario
  and its `operator_ids` are different agents, and that whatever of an answer
  parses and is not malformed is a list of messages and a list of actions over
  some set of words: types, no restriction on content.  What is malformed
  stays arbitrary.
* **Scenario_proofs**, second part: the engine's steps with that client, under
  `ScenarioSettings`.  `RoundsOfThree` and `RoundIsAnswered` are not inductive:
  they count steps and name who has reported, and say nothing of what is still in
  flight.  `ScenarioInv` (`ScenarioInvariant`) does.  It classifies every request,
  answer and stored event by the steps since the environment ticked:
  notices name the coordinator and make every operator report to it and to nobody else,
  requests are to operators and are answered to who asked, and nobody reacts to a report
  (`AnswersTheRound`, `AnswerInRound`, `EventInRound`).  Hence
  `RoundsEnd`: unprompted apart, no event is left after three steps.  It further says that
  until the notices are committed each operator has answered or its request is
  waiting (`HasAnswered`, `WillAnswer`), and that a request made under an alarm carries
  it (`strained`), whichever of two events for one agent the scheduler takes.
  Hence `RoundsAreAnswered`.  A batch that raises keeps its step from committing,
  so that a round is never taken for answered by half of its answers.
  The way from one of these lists to the next is a lemma each: events to activations,
  one for each agent that an event targets (`Ranked`, `Activated`), to requests and
  batches (`RequestsMade`, `BatchesMade`), to
  answers by model or rule (`ModelAnswers`, `RuleAnswers`), to messages, actions and
  events (`Flattened`, `EventsOfAnswer`), and to the environment (`ActionsKeep`).
  `StepsKeepPolicy` carries the four properties of the client over to these runs.

Only model-checked:

* `DispatchReturns`: liveness under fairness.
* The properties of the three violated runs, which are false.

Out of the prover's reach, and left to TLC: liveness under fairness, `ENABLED`,
and modules with RECURSIVE operators.  Induction as the library's theorems state it
is also out of reach, since they take an operator as a parameter; the
proofs use the least counterexample in a set of numbers instead
(`UpFromZero`, from the well-foundedness of `<` on `Nat`).  tlapm expands neither `:>` nor
`@@`, which is why `Write` of `SyntheticKernel` is a function by cases and `Scenario`
updates dictionaries with an operator of its own (`Updated`).

## What is not modelled, and the plan

Not modelled, and not planned: HTTP, prompt text, JSON and datetime
conversions, token usage and receipts, schema migration, telemetry collectors,
report formatting, the dashboard and the aggregation scripts, statistics over
finished runs, argument parsing: I/O or pure functions of data without a
protocol.  The wait loops of `cli.py` are sequential code around a sleep that
touches no state of a simulation.

Left out of modelled parts: more than one replica of a scenario's roles (they
only repeat them), kernels with more nodes in a step than
`max_events_per_tick` or with injected failures, the simulated latency.

A continuation would take up an inbox model with equal creation times.
