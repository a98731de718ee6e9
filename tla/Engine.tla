------------------------------- MODULE Engine -------------------------------
(***************************************************************************)
(* SimulationEngine.run (engine/simulation_engine.py) over the runtime     *)
(* store: load the ready events or advance the environment, plan one       *)
(* activation per agent (FIFOScheduler), build every context before any    *)
(* activation runs, execute, commit the results one by one, apply the      *)
(* environment actions, advance the clock.                                 *)
(*                                                                         *)
(* The backend and the environment are ports.  What an activation of agent *)
(* a may propose is a member of Replies[a], what an environment tick may   *)
(* emit a member of Emissions.  Activations execute, and their results are *)
(* committed, in any order: the dispatch policies choose among the orders. *)
(*                                                                         *)
(* Time: now counts the clock's 5-minute steps since start(); wall is the  *)
(* first value of now at which something created at the present real time  *)
(* is due.  Ids and message creation times come from one counter, serial,  *)
(* event creation times from the length of the trace, and an activation is *)
(* named by the event that triggers it and its agent.                      *)
(***************************************************************************)
EXTENDS RuntimeStore, Sequences

CONSTANTS
  Outsiders,         \* recipients without a profile
  NoActivation,      \* causal_parent_activation_id = None
  Emissions,         \* sequences of [to, prio]: the events of one env tick
  Replies,           \* per agent, what one activation may propose: sets of
                     \* [send, emits, acts]; send is a sequence of
                     \* [to, prio, named], emits one of [to, prio], and a
                     \* message is named if it carries its origin
  MaxEventsPerTick,  \* max_events_per_tick
  InboxLimit,        \* ContextBuilder.inbox_limit
  RunSteps,          \* the argument of run()
  MaxLag,            \* how far wall may be ahead of now
  Policies,          \* the values dispatch_policy is not None may have
  Faults             \* the failures that may happen, a subset of AllFaults

AllFaults == {"raises", "malformed", "action_raises"}

Recipients == Agents \cup Outsiders

ASSUME EngineAssumption ==
  /\ NoMessage = 0
  /\ NoActivation \notin Nat \X Agents
  /\ RunSteps \in Nat /\ MaxLag \in Nat /\ InboxLimit \in Nat
  /\ MaxEventsPerTick \in Nat
  /\ Policies \subseteq BOOLEAN
  /\ Faults \subseteq AllFaults
  /\ Agents \cap Outsiders = {}
  /\ Emissions \subseteq Seq([to : SUBSET Recipients, prio : Int])
  /\ \A a \in Agents : Replies[a] \subseteq
       [send : Seq([to : Recipients, prio : Int, named : BOOLEAN]),
        emits : Seq([to : SUBSET Recipients, prio : Int]),
        acts : BOOLEAN]

VARIABLES
  usesPolicy,   \* dispatch_policy is not None
  phase,        \* ready: between two steps, running: inside one, failed
  now,          \* clock.now
  wall,         \* the real time
  serial,       \* the newest id handed out
  batch,        \* ready_events
  requests,     \* requests
  todo,         \* the requests that have not been executed yet
  results,      \* the results that have not been committed yet
  actions,      \* environment_actions: the activations that proposed them
  environment,  \* [tick, applied]: the environment and whose actions it holds
  trace         \* the agent_step records

engineVars == <<usesPolicy, phase, now, wall, serial, batch, requests, todo,
                results, actions, environment, trace>>
vars == <<storeVars, engineVars>>

Init ==
  /\ StoreInit
  /\ usesPolicy \in Policies
  /\ phase = "ready" /\ now = 0 /\ wall = 1 /\ serial = 0
  /\ batch = {} /\ requests = {} /\ todo = {} /\ results = {}
  /\ actions = <<>>
  /\ environment = [tick |-> 0, applied |-> <<>>]
  /\ trace = <<>>

-----------------------------------------------------------------------------
(* FIFOScheduler.plan: events by priority, then creation; an agent that an *)
(* earlier event has activated is skipped, so the event that activates an  *)
(* agent is the first one that targets it.                                 *)

Targets(e) == IF e.to = {} THEN Agents ELSE e.to \cap Agents

PlansBefore(e, f) ==
  \/ e.prio > f.prio
  \/ e.prio = f.prio /\ e.made < f.made
  \/ e.prio = f.prio /\ e.made = f.made /\ e.id < f.id

(* Mutant: an agent is activated by every event that targets it.           *)
PlanEveryEvent(ready) == {p \in ready \X Agents : p[2] \in Targets(p[1])}

Plan(ready) ==
  {p \in ready \X Agents :
     /\ p[2] \in Targets(p[1])
     /\ \A f \in ready : p[2] \in Targets(f) => ~ PlansBefore(f, p[1])}

(* ContextBuilder.build for the activation of agent a by event e.          *)
Context(e, a) ==
  [activation |-> <<e.id, a>>, agent |-> a, trigger |-> e,
   version |-> states[a].version, cursor |-> states[a].cursor,
   inbox |-> Inbox(a, InboxLimit, states[a].cursor)]

BuildRequests(ready) ==
  /\ phase' = "running"
  /\ batch' = ready
  /\ requests' = {Context(p[1], p[2]) : p \in Plan(ready)}
  /\ todo' = requests'
  /\ UNCHANGED <<usesPolicy, now, wall, results, actions, trace>>

(* Event.create by the environment or a backend, at the present real time. *)
Emitted(id, event, cause) ==
  [id |-> id, to |-> event.to, prio |-> event.prio, due |-> wall,
   made |-> Len(trace), cause |-> cause]

(* step(), its beginning: events are ready and leave the store.            *)
LoadEvents ==
  /\ phase = "ready" /\ now < RunSteps
  /\ Ready(now, MaxEventsPerTick) # {}
  /\ PopReady(now, MaxEventsPerTick)
  /\ BuildRequests(Ready(now, MaxEventsPerTick))
  /\ UNCHANGED <<serial, environment>>

(* step(), its beginning: nothing is ready, so the environment ticks; its  *)
(* events are used at once, neither stored nor cut to the limit.           *)
AdvanceEnvironment ==
  /\ phase = "ready" /\ now < RunSteps
  /\ Ready(now, MaxEventsPerTick) = {}
  /\ environment' = [environment EXCEPT !.tick = @ + 1]
  /\ \E s \in Emissions :
       /\ serial' = serial + Len(s)
       /\ BuildRequests(
            {Emitted(serial + i, s[i], NoActivation) : i \in DOMAIN s})
  /\ UNCHANGED storeVars

-----------------------------------------------------------------------------
(* Execution of one request by the backend.                                *)

(* Mutant: inbox_messages[0].                                              *)
CursorOnFirst(r) ==
  IF r.inbox = {} THEN r.cursor
  ELSE (CHOOSE m \in r.inbox : \A n \in r.inbox \ {m} : ReadsBefore(m, n)).id

NextCursor(r) == IF r.inbox = {} THEN r.cursor ELSE LastOf(r.inbox).id

(* Mutant: the new AgentState is built without the incremented version.    *)
ResultOfOldVersion(r, cursor, sent, emitted, acts) ==
  [agent |-> r.agent, state |-> [version |-> r.version, cursor |-> cursor],
   messages |-> sent, events |-> emitted, acts |-> acts]

Result(r, cursor, sent, emitted, acts) ==
  [agent |-> r.agent, state |-> [version |-> r.version + 1, cursor |-> cursor],
   messages |-> sent, events |-> emitted, acts |-> acts]

(* A message names the activation that sends it as its origin; those that  *)
(* role_policy adds to an incomplete answer name none.                     *)
Sent(r, id, post) ==
  [id |-> id, from |-> r.agent, to |-> post.to, prio |-> post.prio, at |-> id,
   origin |-> IF post.named THEN r.activation ELSE NoActivation]

(* The backends' normal result: version + 1, the cursor on the last inbox  *)
(* message, new messages and events.                                       *)
Completes(r) ==
  \E reply \in Replies[r.agent] :
    LET n == Len(reply.send)
        k == Len(reply.emits)
    IN
    /\ serial' = serial + n + k
    /\ results' = results \cup {Result(r, NextCursor(r),
         {Sent(r, serial + i, reply.send[i]) : i \in 1 .. n},
         {Emitted(serial + n + i, reply.emits[i], r.activation) : i \in 1 .. k},
         reply.acts)}

(* FailureInjectingBackend, "malformed": version + 1 and nothing else.     *)
CompletesMalformed(r) ==
  /\ "malformed" \in Faults
  /\ results' = results \cup {Result(r, r.cursor, {}, {}, FALSE)}
  /\ UNCHANGED serial

Execute(r) ==
  /\ phase = "running"
  /\ Completes(r) \/ CompletesMalformed(r)
  /\ todo' = todo \ {r}
  /\ UNCHANGED <<storeVars, usesPolicy, phase, now, wall, batch, requests,
                 actions, environment, trace>>

(* The backend raises.  SynchronousProviderAdapter turns it into a FAILED  *)
(* outcome, which step() drops.                                            *)
FailedOutcome(r) ==
  /\ phase = "running" /\ "raises" \in Faults /\ usesPolicy
  /\ todo' = todo \ {r}
  /\ UNCHANGED <<storeVars, usesPolicy, phase, now, wall, serial, batch,
                 requests, results, actions, environment, trace>>

(* Mutant: the results of one batch are committed before the next one runs.*)
RaisesAfterCommits ==
  /\ phase = "running" /\ "raises" \in Faults /\ ~ usesPolicy
  /\ phase' = "failed"
  /\ UNCHANGED <<storeVars, usesPolicy, now, wall, serial, batch, requests,
                 todo, results, actions, environment, trace>>

(* Without a policy run_batch's exception leaves step() and run().         *)
BackendRaises ==
  /\ phase = "running" /\ todo # {} /\ "raises" \in Faults /\ ~ usesPolicy
  /\ phase' = "failed"
  /\ UNCHANGED <<storeVars, usesPolicy, now, wall, serial, batch, requests,
                 todo, results, actions, environment, trace>>

(* Real time goes on while step() runs, most of all in the backend.        *)
TimePasses ==
  /\ phase = "running" /\ wall < now + MaxLag
  /\ wall' = wall + 1
  /\ UNCHANGED <<storeVars, usesPolicy, phase, now, serial, batch, requests,
                 todo, results, actions, environment, trace>>

-----------------------------------------------------------------------------
(* request_by_agent[result.agent_id]                                       *)
RequestOf(agent) == CHOOSE r \in requests : r.agent = agent

(* MessageRouter.route: unknown recipients are dropped, every other        *)
(* message gets the event that will activate its recipient.                *)
Deliverable(sent) == {m \in sent : m.to \in Agents}

Arrival(m) ==
  [id |-> m.id, to |-> {m.to}, prio |-> m.prio, due |-> wall,
   made |-> Len(trace) + 1, cause |-> m.origin]

(* Mutant: the record lists the messages that were not delivered as well.  *)
AgentStepBeforeRouting(req, res) ==
  [activation |-> req.activation, agent |-> res.agent, tick |-> now,
   parents |-> {m.id : m \in req.inbox},
   status |-> receipt'.status,
   read |-> receipt'.read, written |-> receipt'.written,
   sent |-> {m.id : m \in res.messages}, acts |-> res.acts]

(* The agent_step record, made from the receipt of the commit.             *)
AgentStep(req, res) ==
  [activation |-> req.activation, agent |-> res.agent, tick |-> now,
   parents |-> {m.id : m \in req.inbox},
   status |-> receipt'.status,
   read |-> receipt'.read, written |-> receipt'.written,
   sent |-> {m.id : m \in Deliverable(res.messages)}, acts |-> res.acts]

(* One round of step()'s result loop: route, commit, collect the actions,  *)
(* record the agent_step, whatever the receipt says.                       *)
CommitResult(res) ==
  LET req == RequestOf(res.agent)
      kept == Deliverable(res.messages)
  IN
  /\ phase = "running" /\ todo = {}
  /\ Commit([activation |-> req.activation, agent |-> res.agent,
             expected |-> req.version, state |-> res.state,
             messages |-> kept,
             events |-> {Arrival(m) : m \in kept} \cup res.events])
  /\ actions' = IF res.acts THEN Append(actions, req.activation) ELSE actions
  /\ trace' = Append(trace, AgentStep(req, res))
  /\ results' = results \ {res}
  /\ UNCHANGED <<usesPolicy, phase, now, wall, serial, batch, requests, todo,
                 environment>>

(* Mutants: the action list outlives its tick; the commits are not awaited.*)
FinishStepKeepingActions ==
  /\ phase = "running" /\ todo = {} /\ results = {}
  /\ environment' = [environment EXCEPT !.applied = @ \o actions]
  /\ now' = now + 1
  /\ phase' = "ready"
  /\ batch' = {} /\ requests' = {}
  /\ UNCHANGED <<storeVars, usesPolicy, wall, serial, todo, results, actions,
                 trace>>

FinishStepEarly ==
  /\ phase = "running"
  /\ environment' = [environment EXCEPT !.applied = @ \o actions]
  /\ actions' = <<>>
  /\ now' = now + 1
  /\ phase' = "ready"
  /\ batch' = {} /\ requests' = {}
  /\ UNCHANGED <<storeVars, usesPolicy, wall, serial, todo, results, trace>>

(* step(), its end: the collected actions reach the environment in one     *)
(* write, and the clock advances.  Results have no metadata here: that the *)
(* summary of theirs can raise, with everything stored, is in Scenario.    *)
FinishStep ==
  /\ phase = "running" /\ todo = {} /\ results = {}
  /\ environment' = [environment EXCEPT !.applied = @ \o actions]
  /\ actions' = <<>>
  /\ now' = now + 1
  /\ phase' = "ready"
  /\ batch' = {} /\ requests' = {}
  /\ UNCHANGED <<storeVars, usesPolicy, wall, serial, todo, results, trace>>

(* apply_actions raises on a value it cannot convert: step() and run() end *)
(* after the commits and before the environment is written.                *)
ActionRaises ==
  /\ phase = "running" /\ todo = {} /\ results = {}
  /\ actions # <<>> /\ "action_raises" \in Faults
  /\ phase' = "failed"
  /\ UNCHANGED <<storeVars, usesPolicy, now, wall, serial, batch, requests,
                 todo, results, actions, environment, trace>>

(* run() has returned or raised.                                           *)
Ended ==
  /\ phase = "failed" \/ (phase = "ready" /\ now = RunSteps)
  /\ UNCHANGED vars

Next ==
  \/ LoadEvents \/ AdvanceEnvironment
  \/ \E r \in todo : Execute(r) \/ FailedOutcome(r)
  \/ BackendRaises \/ TimePasses
  \/ \E res \in results : CommitResult(res)
  \/ FinishStep \/ ActionRaises \/ Ended

Spec == Init /\ [][Next]_vars
-----------------------------------------------------------------------------
Activations == Nat \X Agents

MessageRecord ==
  [id : Nat, from : Agents, to : Recipients, prio : Int, at : Nat,
   origin : Activations \cup {NoActivation}]

EventRecord ==
  [id : Nat, to : SUBSET Recipients, prio : Int, due : Nat, made : Nat,
   cause : Activations \cup {NoActivation}]

RequestRecord ==
  [activation : Activations, agent : Agents, trigger : EventRecord,
   version : Nat, cursor : Nat, inbox : SUBSET MessageRecord]

ResultRecord ==
  [agent : Agents, state : [version : Nat, cursor : Nat],
   messages : SUBSET MessageRecord, events : SUBSET EventRecord, acts : BOOLEAN]

TraceRecord ==
  [activation : Activations, agent : Agents, tick : Nat, parents : SUBSET Nat,
   status : {"committed", "duplicate", "conflict"}, read : Nat,
   written : Nat \cup {NotWritten}, sent : SUBSET Nat, acts : BOOLEAN]

(* Type correctness of the store as the engine uses it, and of the engine. *)
EngineTypeOK ==
  /\ states \in [Agents -> [version : Nat, cursor : Nat]]
  /\ messages \subseteq MessageRecord
  /\ events \subseteq EventRecord
  /\ committed \subseteq [activation : Activations, written : Nat]
  /\ usesPolicy \in BOOLEAN /\ phase \in {"ready", "running", "failed"}
  /\ now \in 0 .. RunSteps /\ wall \in Nat /\ serial \in Nat
  /\ batch \subseteq EventRecord
  /\ requests \subseteq RequestRecord /\ todo \subseteq requests
  /\ results \subseteq ResultRecord
  /\ actions \in Seq(Activations)
  /\ environment \in [tick : Nat, applied : Seq(Activations)]
  /\ trace \in Seq(TraceRecord)

(* The optimistic version check of commit() never rejects anything step()  *)
(* submits, nor does the idempotency check: with one activation per agent  *)
(* and tick, each read of a version is still current at its commit,        *)
(* whatever the order of execution and commit, and whatever fails.         *)
NoConflict == \A i \in DOMAIN trace : trace[i].status = "committed"

RecordsOf(a) == {i \in DOMAIN trace : trace[i].agent = a}

(* The agent_step records of one agent are a chain: each read exactly the  *)
(* version its predecessor wrote, and the store holds what the last one    *)
(* wrote (what causal_verifier's stale-read check assumes of the engine).  *)
VersionChain ==
  \A a \in Agents :
    /\ states[a].version = Cardinality(RecordsOf(a))
    /\ \A i \in RecordsOf(a) :
         trace[i].read = Cardinality({j \in RecordsOf(a) : j < i})

CausalParents(r) == {m.origin : m \in r.inbox} \cup {r.trigger.cause}

(* No activation of a tick depends causally on another one of the same     *)
(* tick, so that a causal dispatch order has a single wave (paper_draft.md *)
(* Proposition 2, CausalOnlyDispatchPolicy's docstring).                   *)
SingleWave ==
  \A r, q \in requests : q.activation \notin CausalParents(r)

(* The records name as sent exactly the messages the store holds, and what *)
(* a record names as its causal parent an earlier record of an earlier     *)
(* tick sent: causal_verifier can find neither a missing parent nor a      *)
(* cycle in the trace of any run.                                          *)
CausallyClosed ==
  /\ {m.id : m \in messages} = UNION {trace[i].sent : i \in DOMAIN trace}
  /\ \A j \in DOMAIN trace : \A id \in trace[j].parents :
       \E i \in 1 .. j - 1 : id \in trace[i].sent /\ trace[i].tick < trace[j].tick

ActingRecords == {i \in DOMAIN trace : trace[i].acts}

(* The environment holds, or is about to be given, the actions of exactly  *)
(* the recorded steps, each once and in the order of their commits: the    *)
(* n-th of them is the n-th record's that proposes any.                    *)
EnvironmentFollowsTrace ==
  LET given == environment.applied \o actions
  IN /\ Len(given) = Cardinality(ActingRecords)
     /\ \A i \in ActingRecords :
          given[Cardinality({j \in ActingRecords : j <= i})] = trace[i].activation

WasRead(m) == \E i \in DOMAIN trace : m.id \in trace[i].parents

(* Between two steps, every stored message has been read or still has the  *)
(* event that will activate its recipient: FIFOScheduler may drop a second *)
(* event for one agent only because the first one's activation reads the   *)
(* messages of both.  Needs an inbox limit no inbox exceeds and a backend  *)
(* that does not fail.                                                     *)
NoStrandedMessage ==
  phase = "ready" =>
    \A m \in messages : WasRead(m) \/ \E e \in events : e.id = m.id

(* While messages have one priority, an agent reads its messages in the    *)
(* order of their creation and each one once, whatever the inbox limit.    *)
ReadsOnceInOrder ==
  \A i, j \in DOMAIN trace :
    i < j /\ trace[i].agent = trace[j].agent =>
      /\ trace[i].parents \cap trace[j].parents = {}
      /\ \A m \in messages :
           m.to = trace[j].agent /\ m.id \in trace[j].parents =>
             \A n \in trace[i].parents : n < m.id

(* No message is lost to its recipient: it has been read, or a later inbox *)
(* will show it, for the cursor has not passed it.  Needs messages of one  *)
(* priority, or an inbox limit no inbox exceeds; research_roadmap.md, item *)
(* 9, says so without either: "a join node's single activation naturally   *)
(* receives all branch messages".                                          *)
NoMessageSkipped ==
  \A m \in messages : WasRead(m) \/ m \in NewerThan(m.to, states[m.to].cursor)

(* The environment ticks only when no message is on its way: although      *)
(* scheduled_for is real time and the clock is simulated, everything sent  *)
(* in one step is due in the next, as long as the steps' real time stays   *)
(* behind the simulated one (MaxLag = 1).                                  *)
QuiescentEnvironment ==
  [][environment'.tick # environment.tick =>
       \A e \in events : e.cause = NoActivation]_vars

(* A run that ends in an exception has committed either nothing of the     *)
(* step that failed or every result of it, which without a dispatch policy *)
(* are all its activations: neither run_batch nor apply_actions is called  *)
(* from the result loop.                                                   *)
FailedStepAllOrNone ==
  LET recorded == {trace[i].activation :
                     i \in {k \in DOMAIN trace : trace[k].tick = now}}
  IN phase = "failed" /\ recorded # {} =>
       /\ todo = {} /\ results = {}
       /\ usesPolicy \/ recorded = {r.activation : r \in requests}
=============================================================================
