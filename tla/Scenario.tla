------------------------------ MODULE Scenario ------------------------------
(***************************************************************************)
(* The storm and the supply-chain scenario (scenarios/, environment/) run  *)
(* by SimulationEngine.step with agents that a served model answers for:   *)
(* the environment's tick, the round of requests and reports it sets off,  *)
(* and what the actions of the answers do to the environment.              *)
(*                                                                         *)
(* A step is taken apart only where it waits for the provider; what may go *)
(* on inside it, and that none of its commits is refused, is the matter of *)
(* Engine.  Steps are shorter than the clock's interval, so that whatever  *)
(* is emitted is due in the next step, and no step has more events than    *)
(* max_events_per_tick.                                                    *)
(***************************************************************************)
EXTENDS ProviderClient

CONSTANTS
  Setups,   \* what may be run; the fields are explained at Init
  Regions   \* regions of the environment, and of the agents by turns

ASSUME RegionsAssumption == Regions # <<>>

VARIABLES
  setup,
  environment,   \* tick and variables
  events,        \* the stored events in the order of their creation
  phase,         \* "ready", "running", "raised"
  todo,          \* the slices of the step's requests still to be run
  answers,       \* the step's results so far: [agent, messages, actions, events, ...]
  steps,         \* taken by run()
  round          \* what has happened since the environment last ticked

stepVars == <<setup, environment, events, phase, todo, answers, steps, round>>
scenarioVars == <<clientVars, stepVars>>

-----------------------------------------------------------------------------
(* _storm_profiles and _supply_chain_profiles, one replica; an agent but   *)
(* the coordinator is named by its role.                                   *)
Roles ==
  IF setup.scenario = "storm" THEN <<"coordinator", "hospital", "utility", "forecaster">>
  ELSE <<"coordinator", "supplier", "warehouse", "transport", "retailer">>

Agent(role) == IF role = "coordinator" THEN AgentCoordinator ELSE role
Profiles == [i \in DOMAIN Roles |-> Agent(Roles[i])]

(* _storm_environment, _supply_chain_environment: operator_ids             *)
OperatorIds ==
  IF setup.scenario = "storm" THEN <<"hospital", "utility">> ELSE Tail(Roles)

(* The role names in a target_scope, as agents.                            *)
Scope(roles) == {Agent(role) : role \in roles}

Notice(to, prio, operators) ==
  [to |-> to, prio |-> prio, operators |-> operators,
   coordinator |-> AgentCoordinator, sender |-> None]

-----------------------------------------------------------------------------
(* A dictionary after an update by another.                                *)
Updated(d, more) ==
  [k \in DOMAIN d \cup DOMAIN more |-> IF k \in DOMAIN more THEN more[k] ELSE d[k]]

(* initialize(), the variables a fixture gives overriding the defaults.    *)
Everywhere(n) == [r \in ToSet(Regions) |-> n]

StormInitialized == [severity |-> 1, capacity |-> Everywhere(100)]

SupplyChainInitialized ==
  [demand |-> 100, inventory |-> Everywhere(120), delayed |-> 0,
   transport |-> 100, risk |-> "normal"]

(* tick_data: a key that an entry of the fixture has overrides the rule.   *)
Given(key, default) ==
  LET ticks == setup.fixture.ticks
  IN IF environment.tick < Len(ticks) /\ key \in DOMAIN ticks[environment.tick + 1]
     THEN ticks[environment.tick + 1][key] ELSE default

Stock(stocks, region, default) == IF region \in DOMAIN stocks THEN stocks[region] ELSE default

(* What stocks[region] = max(0, n) makes of the stocks.                    *)
Stocked(stocks, region, n) == Updated(stocks, [r \in {region} |-> AtLeast(n, 0)])

(* StormEnvironment.tick                                                   *)
StormTick ==
  LET severity == Given("severity", environment.severity + 1)
  IN [environment |->
        Updated(environment, [tick |-> environment.tick + 1, severity |-> severity]),
      emitted |->
        <<Notice(Scope({"coordinator", "hospital", "utility", "forecaster"}), severity,
                 OperatorIds)>>
        \o IF severity >= 3
           THEN <<Notice(Scope({"coordinator", "utility"}), severity + 1, <<"utility">>)>>
           ELSE <<>>]

(* Mutant: the levels are told apart by the delays alone.                  *)
RiskLevelOfDelays(demand, delayed, shortage) ==
  CASE delayed >= 12 -> "high"
    [] delayed < 12 /\ delayed >= 8 -> "elevated"
    [] OTHER -> "normal"

RiskLevel(demand, delayed, shortage) ==
  CASE shortage \/ delayed >= 12 -> "high"
    [] ~ shortage /\ delayed < 12 /\ (demand >= 120 \/ delayed >= 8) -> "elevated"
    [] OTHER -> "normal"

(* SupplyChainEnvironment.tick                                             *)
SupplyChainTick ==
  LET demand == Given("demand", environment.demand + 10)
      delayed == Given("delayed_shipments", environment.delayed + 4)
      region == Given("affected_region",
                      Regions[((environment.tick + 1) % Len(Regions)) + 1])
      consumed == AtLeast(demand \div 20, 1)
      inventory == Given("inventory",
        Stocked(environment.inventory, region,
                Stock(environment.inventory, region, 0) - consumed))
      shortage == \E r \in DOMAIN inventory : inventory[r] < AtLeast(demand \div 2, 20)
      risk == RiskLevel(demand, delayed, shortage)
      toAll == Scope({"coordinator"} \cup Suppliers)
  IN [environment |->
        Updated(environment, [tick |-> environment.tick + 1, demand |-> demand,
                              delayed |-> delayed, inventory |-> inventory, risk |-> risk]),
      emitted |->
        <<Notice(toAll, IF risk = "normal" THEN 1 ELSE 2, OperatorIds)>>
        \o (IF delayed >= 12
            THEN <<Notice(toAll \ Scope({"supplier", "retailer"}), 3, OperatorIds)>>
            ELSE <<>>)
        \o (IF shortage THEN <<Notice(toAll \ Scope({"transport"}), 4, OperatorIds)>>
            ELSE <<>>)]

EnvironmentTick == IF setup.scenario = "storm" THEN StormTick ELSE SupplyChainTick

(* apply_actions of the two, for one action; a region the environment does  *)
(* not have is added to it.                                                *)
Delta(a) == IF a.delta = None THEN 0 ELSE a.delta

StormApply(e, a) ==
  IF a.type = "adjust_capacity" /\ a.region # None
  THEN [e EXCEPT !.capacity = Stocked(@, a.region, Stock(@, a.region, 100) + Delta(a))]
  ELSE e

SupplyChainApply(e, a) ==
  CASE a.type = "adjust_inventory" /\ a.region # None ->
         [e EXCEPT !.inventory = Stocked(@, a.region, Stock(@, a.region, 0) + Delta(a))]
    [] a.type = "adjust_transport_capacity" ->
         [e EXCEPT !.transport = AtLeast(@ + Delta(a), 0)]
    [] OTHER -> e

ApplyAction(e, a) ==
  IF setup.scenario = "storm" THEN StormApply(e, a) ELSE SupplyChainApply(e, a)

(* int(delta) raises, unless the action is skipped for want of a region.   *)
ActionRaises(a) ==
  a.delta = NaN /\ (a.region # None \/ a.type = "adjust_transport_capacity")

-----------------------------------------------------------------------------
(* FIFOScheduler.plan: each agent is activated by the first event that     *)
(* targets it, by priority, then creation; ready events are a sequence.    *)
Targets(e) == IF e.to = {} THEN ToSet(Profiles) ELSE e.to \cap ToSet(Profiles)

PlansBefore(ready, i, j) ==
  \/ ready[i].prio > ready[j].prio
  \/ ready[i].prio = ready[j].prio /\ i < j

Plan(ready) ==
  {p \in (DOMAIN ready) \X (DOMAIN Profiles) :
     /\ Profiles[p[2]] \in Targets(ready[p[1]])
     /\ \A j \in DOMAIN ready :
          Profiles[p[2]] \in Targets(ready[j]) => ~ PlansBefore(ready, j, p[1])}

RequestFor(env, e, i) ==
  [agent |-> Profiles[i], role |-> Roles[i], region |-> Regions[1],
   scenario |-> setup.scenario,
   severity |-> IF setup.scenario = "storm" THEN env.severity ELSE 0,
   strained |-> IF setup.scenario = "storm" THEN env.severity >= 3 ELSE env.risk # "normal",
   prio |-> e.prio, operators |-> e.operators, coordinator |-> e.coordinator,
   sender |-> e.sender]

(* What the scheduler plans before p: by event, then by profile.           *)
Earlier(ready, p) ==
  {q \in Plan(ready) :
     PlansBefore(ready, q[1], p[1]) \/ (q[1] = p[1] /\ q[2] < p[2])}

Activation(ready, k) ==
  CHOOSE p \in Plan(ready) : Cardinality(Earlier(ready, p)) = k - 1

Requests(env, ready) ==
  [k \in 1 .. Cardinality(Plan(ready)) |->
     LET p == Activation(ready, k) IN RequestFor(env, ready[p[1]], p[2])]

(* BatchBuilder.group for agents of one backend.                           *)
Batches(requests) ==
  [k \in 1 .. (Len(requests) + 3) \div 4 |->
     SubSeq(requests, (4 * k) - 3, IF 4 * k < Len(requests) THEN 4 * k ELSE Len(requests))]

-----------------------------------------------------------------------------
(* What the engine takes from a result, and whether the model did more     *)
(* than it was asked to.                                                   *)
Answered(q, result) ==
  [agent |-> q.agent, retry_count |-> result.retry_count,
   messages |-> [i \in DOMAIN result.messages |-> [result.messages[i] EXCEPT !.by = 0]],
   actions |-> [i \in DOMAIN result.actions |-> [result.actions[i] EXCEPT !.by = 0]],
   events |-> result.events,
   unprompted |-> result.events # <<>> \/
     \E i \in DOMAIN result.messages : \A j \in DOMAIN RequiredMessages(q) :
       Kind(result.messages[i]) # Kind(RequiredMessages(q)[j])]

(* MessageRouter.route, then the events of the model itself.               *)
EventsOf(answer) ==
  LET known == Within(answer.messages, LAMBDA m : m.to \in ToSet(Profiles))
  IN [i \in DOMAIN known |->
        [to |-> {known[i].to}, prio |-> known[i].prio, operators |-> <<>>,
         coordinator |-> None, sender |-> answer.agent]]
     \o [i \in DOMAIN answer.events |->
           [to |-> answer.events[i].to, prio |-> answer.events[i].prio, operators |-> <<>>,
            coordinator |-> answer.events[i].coordinator, sender |-> None]]

ActionsOfStep == FlattenSeq([i \in DOMAIN answers |-> answers[i].actions])

-----------------------------------------------------------------------------
NewRound(alarm) ==
  [hops |-> 0, unprompted |-> FALSE, alarm |-> alarm, reported |-> {}, acted |-> {}]

(* setup: scenario, fixture ([initial, ticks]), the number of steps to run *)
(* and the backend's parameters.                                           *)
Init ==
  /\ setup \in Setups
  /\ backend = Parameters(setup.backend)
  /\ batch = <<>> /\ client = <<>> /\ failures = 0
  /\ LET defaults == IF setup.scenario = "storm" THEN StormInitialized
                     ELSE SupplyChainInitialized
     IN environment = Updated(Updated(defaults, setup.fixture.initial), [tick |-> 0])
  /\ events = <<>> /\ phase = "ready" /\ todo = <<>> /\ answers = <<>> /\ steps = 0
  /\ round = NewRound(FALSE)

(* step(), up to the execution: pop_ready takes all events there are, and  *)
(* if there are none the environment ticks.                                *)
LoadStep ==
  /\ phase = "ready" /\ steps < setup.steps
  /\ LET ticks == events = <<>>
         ready == IF ticks THEN EnvironmentTick.emitted ELSE events
     IN /\ environment' = IF ticks THEN EnvironmentTick.environment ELSE environment
        /\ round' = IF ticks THEN NewRound(Len(ready) > 1) ELSE round
        /\ todo' = Batches(Requests(environment', ready))
  /\ events' = <<>> /\ phase' = "running"
  /\ UNCHANGED <<setup, answers, steps, clientVars>>

(* run_batch of MockExecutionBackend or SupplyChainRuleBackend.            *)
RuleAnswer(q) ==
  Answered(q, [messages |-> RuleMessages(q), actions |-> RuleActions(q), events |-> <<>>,
               retry_count |-> 0])

RunByRule ==
  /\ phase = "running" /\ todo # <<>> /\ backend.name = "rule"
  /\ answers' = answers \o [i \in DOMAIN Head(todo) |-> RuleAnswer(Head(todo)[i])]
  /\ todo' = Tail(todo)
  /\ UNCHANGED <<setup, environment, events, phase, steps, round, clientVars>>

RunBatch ==
  /\ phase = "running" /\ batch = <<>> /\ todo # <<>> /\ backend.name # "rule"
  /\ StartBatch(Head(todo)) /\ todo' = Tail(todo)
  /\ UNCHANGED <<setup, environment, events, phase, answers, steps, round>>

ReturnBatch ==
  /\ phase = "running" /\ batch # <<>> /\ BatchOver /\ InPhase("raised") = {}
  /\ answers' = answers \o [i \in DOMAIN batch |-> Answered(batch[i], client[i].result)]
  /\ StartBatch(<<>>)
  /\ UNCHANGED <<setup, environment, events, phase, todo, steps, round>>

(* The exception of the first request that raised leaves step() and run(). *)
RaiseFromBatch ==
  /\ phase = "running" /\ batch # <<>> /\ BatchOver /\ InPhase("raised") # {}
  /\ phase' = "raised"
  /\ UNCHANGED <<setup, environment, events, todo, answers, steps, round, clientVars>>

Commit ==
  /\ phase = "running" /\ batch = <<>> /\ todo = <<>>
  /\ events' = FlattenSeq([i \in DOMAIN answers |-> EventsOf(answers[i])])
  /\ round' = [round EXCEPT !.hops = @ + 1,
       !.unprompted = @ \/ \E i \in DOMAIN answers : answers[i].unprompted,
       !.reported = @ \cup {answers[i].agent : i \in {j \in DOMAIN answers :
          \E k \in DOMAIN answers[j].messages :
            Kind(answers[j].messages[k]) = <<AgentCoordinator, "status_update">>}},
       !.acted = @ \cup {answers[i].agent : i \in {j \in DOMAIN answers :
          \E k \in DOMAIN answers[j].actions : answers[j].actions[k].type # "update_summary"}}]

(* step(), the rest: every answer is committed, then the actions of all of *)
(* them are applied, then the results' metadata are summed up.             *)
ApplyActions ==
  /\ Commit
  /\ \A i \in DOMAIN ActionsOfStep : ~ ActionRaises(ActionsOfStep[i])
  /\ environment' = FoldLeft(ApplyAction, environment, ActionsOfStep)

FinishStep ==
  /\ ApplyActions
  /\ \A i \in DOMAIN answers : answers[i].retry_count # NaN
  /\ phase' = "ready" /\ steps' = steps + 1 /\ answers' = <<>>
  /\ UNCHANGED <<setup, todo, clientVars>>

ApplyActionsRaises ==
  /\ Commit
  /\ \E i \in DOMAIN ActionsOfStep : ActionRaises(ActionsOfStep[i])
  /\ phase' = "raised"
  /\ UNCHANGED <<setup, environment, answers, steps, todo, clientVars>>

(* _tick_backend_summary: int(retry_count) of what a model gave under that *)
(* name; by then everything the step does is stored.                       *)
SummaryRaises ==
  /\ ApplyActions
  /\ \E i \in DOMAIN answers : answers[i].retry_count = NaN
  /\ phase' = "raised"
  /\ UNCHANGED <<setup, answers, steps, todo, clientVars>>

Over ==
  /\ phase = "raised" \/ (phase = "ready" /\ steps = setup.steps)
  /\ UNCHANGED scenarioVars

Next ==
  \/ LoadStep \/ RunByRule \/ RunBatch \/ ReturnBatch \/ RaiseFromBatch \/ FinishStep
  \/ ApplyActionsRaises \/ SummaryRaises \/ Over
  \/ \E i \in DOMAIN client : RunOne(i) /\ UNCHANGED stepVars

Spec == Init /\ [][Next]_scenarioVars

-----------------------------------------------------------------------------
(* The exchange a tick sets off ends by itself: unless a model sends or    *)
(* emits something it was not asked for, the environment ticks again after *)
(* three steps - notices, requests and reports, reports on the requests.   *)
RoundsOfThree == round.unprompted \/ round.hops <= 3

(* Whatever the models answer, and although an agent that two events       *)
(* target is activated by one of them only, a round does not end before    *)
(* every operator has reported to the coordinator, and if the environment  *)
(* raised an alarm those who can act on its stocks have.                   *)
RoundIsAnswered ==
  phase = "ready" /\ events = <<>> /\ environment.tick > 0 =>
    /\ ToSet(OperatorIds) \subseteq round.reported
    /\ round.alarm /\ setup.scenario = "supply_chain" =>
         {"supplier", "transport"} \subseteq round.acted
=============================================================================
