----------------------------- MODULE RolePolicy -----------------------------
(***************************************************************************)
(* execution/role_policy.py and the part of the model clients that runs it *)
(* (openai_compatible_backend.py, _result_from_proposal): what becomes of  *)
(* the messages and actions a model proposes for one activation, and what  *)
(* the two rule backends would have done in its place.                     *)
(*                                                                         *)
(* A request q has the fields agent, role, region, scenario, the priority  *)
(* prio and the payload keys operators, coordinator and sender of its      *)
(* triggering event, the environment's severity (0 where there is none),   *)
(* and strained: severity >= 3 in a storm, a risk level that is not normal *)
(* in a supply chain.  A message has a priority and says whether it names  *)
(* its activation as its origin; of other payload only the region and the  *)
(* delta of an action are kept.  Items carry in by who they are by: the    *)
(* position in the model's proposal, or 0 for the policy and the rules.    *)
(***************************************************************************)
EXTENDS Integers, SequencesExt

CONSTANTS
  AgentCoordinator,  \* "agent_coordinator"
  None,              \* None, and a key that is absent
  NaN                \* a value that int() refuses

Operators == {"hospital", "utility"}
Suppliers == {"supplier", "warehouse", "transport", "retailer"}

SystemKeys == {"last_event_type", "last_environment_tick"}
ProtectiveDeltaBound == 1000
BoundedActionTypes == {"adjust_inventory", "adjust_transport_capacity"}

-----------------------------------------------------------------------------
(* build_role_policy                                                       *)

AllowedEnvironmentActions(scenario, role) ==
  CASE scenario = "storm" /\ role \in {"coordinator", "forecaster"} -> <<"update_summary">>
    [] scenario = "storm" /\ role \in Operators -> <<"adjust_capacity">>
    [] scenario = "supply_chain" /\ role \in {"coordinator", "warehouse"} -> <<"update_summary">>
    [] scenario = "supply_chain" /\ role = "supplier" -> <<"adjust_inventory">>
    [] scenario = "supply_chain" /\ role = "transport" -> <<"adjust_transport_capacity">>
    [] OTHER -> <<>>

Allowed(q) == AllowedEnvironmentActions(q.scenario, q.role)

(* Mutant: a report never goes to whoever asked.                           *)
ReportsToCoordinator(q) == IF q.coordinator # None THEN q.coordinator ELSE AgentCoordinator

ReportsTo(q) ==
  CASE q.coordinator # None -> q.coordinator
    [] q.coordinator = None /\ q.sender # None -> q.sender
    [] OTHER -> AgentCoordinator

(* Message.create; correlation ids follow the trigger and are left out.    *)
Message(to, type, prio, origin, by) ==
  [to |-> to, type |-> type, prio |-> prio, origin |-> origin, by |-> by]

StatusRequest(agent, prio, origin) == Message(agent, "status_request", prio, origin, 0)
StatusUpdate(agent, prio, origin) == Message(agent, "status_update", prio, origin, 0)

(* Mutant: whatever activates the coordinator, it asks the operators.      *)
RequiredOfEveryTrigger(q) ==
  CASE q.role = "coordinator" /\ q.scenario = "storm" -> <<StatusRequest("utility", q.prio, FALSE)>>
    [] q.role = "coordinator" /\ q.scenario # "storm" -> <<StatusRequest("transport", q.prio, FALSE)>>
    [] q.role \in Operators \cup Suppliers -> <<StatusUpdate(ReportsTo(q), q.prio, FALSE)>>
    [] OTHER -> <<>>

(* _required_messages: of the trigger's priority, and without an origin.   *)
RequiredMessages(q) ==
  CASE q.role = "coordinator" ->
         [i \in DOMAIN q.operators |-> StatusRequest(q.operators[i], q.prio, FALSE)]
    [] q.role \in Operators \cup Suppliers -> <<StatusUpdate(ReportsTo(q), q.prio, FALSE)>>
    [] OTHER -> <<>>

ActionOf(type, region, delta) ==
  [type |-> type, region |-> region, delta |-> delta, by |-> 0]

DefaultAction(q, type) ==
  CASE type = "adjust_inventory" -> ActionOf(type, q.region, 15)
    [] type = "adjust_transport_capacity" -> ActionOf(type, None, 5)
    [] OTHER -> ActionOf(type, None, None)

RequiredActions(q) ==
  CASE q.role \in {"coordinator", "forecaster"} -> <<DefaultAction(q, "update_summary")>>
    [] q.role \in Suppliers /\ q.strained /\ Allowed(q) # <<>> ->
         <<DefaultAction(q, Allowed(q)[1])>>
    [] OTHER -> <<>>

-----------------------------------------------------------------------------
(* The enforcement steps.                                                  *)

ToOther(q, m) == m.to # q.agent
IsAllowed(q, a) == Contains(Allowed(q), a.type)

InBounds(a) ==
  a.type \in BoundedActionTypes =>
    /\ a.delta # None
    /\ a.delta # NaN =>     \* abs(nan) > 1000 is False
         -ProtectiveDeltaBound <= a.delta /\ a.delta <= ProtectiveDeltaBound

(* Mutant: a message is one of its type, whoever it goes to.               *)
KindByType(x) == <<x.type>>

(* What there may be only one of: a message to an agent, an action.        *)
Kind(x) == IF "to" \in DOMAIN x THEN <<x.to, x.type>> ELSE <<x.type>>

(* The items of s at the positions in T, in their order.                   *)
Below(i, T) == {j \in T : j < i}

Selection(s, T) ==
  [k \in 1 .. Cardinality(T) |-> s[CHOOSE i \in T : Cardinality(Below(i, T)) = k - 1]]

Within(s, Test(_)) == Selection(s, {i \in DOMAIN s : Test(s[i])})

(* The items in more that are the first of their kind, also after those in *)
(* items.                                                                  *)
NewKinds(items, more) ==
  {i \in DOMAIN more :
     /\ \A j \in DOMAIN items : Kind(items[j]) # Kind(more[i])
     /\ \A j \in Below(i, DOMAIN more) : Kind(more[j]) # Kind(more[i])}

(* enforce_cardinality (of no items yet), ensure_required_messages and     *)
(* ensure_required_actions.                                                *)
Complete(items, more) == items \o Selection(more, NewKinds(items, more))

(* semantic_violations                                                     *)
Violates(q, messages, actions) ==
  \/ \E i \in DOMAIN messages : ~ ToOther(q, messages[i])
  \/ \E i \in DOMAIN actions : ~ IsAllowed(q, actions[i])

(* Mutant: the first action of a type is chosen before the bounds are      *)
(* looked at.                                                              *)
UsableActionsUnchecked(q, actions) ==
  Within(Complete(<<>>, Within(actions, LAMBDA a : IsAllowed(q, a))), InBounds)

UsableActions(q, actions) ==
  Complete(<<>>, Within(actions, LAMBDA a : IsAllowed(q, a) /\ InBounds(a)))

UsableMessages(q, messages) ==
  Complete(<<>>, Within(messages, LAMBDA m : ToOther(q, m)))

-----------------------------------------------------------------------------
(* Proposals: [messages, actions, events, memory, metadata, retry_count,   *)
(* malformed].  metadata is "valid", "invalid" as _try_parse marks a       *)
(* proposal it could not parse, or "flagged" if the model said             *)
(* model_output_invalid itself; retry_count is what metadata has under     *)
(* that key, or None.  The priority of a message or an event is None where *)
(* the model gives none.  malformed: an entry or a whole field is not of   *)
(* the type it must have.                                                  *)

IsInvalid(proposal) == proposal.metadata # "valid"

FallbackProposal ==
  [messages |-> <<>>, actions |-> <<>>, events |-> <<>>, memory |-> {},
   metadata |-> "invalid", retry_count |-> None, malformed |-> FALSE]

(* A priority or a count of the model's own, or what there is without it.  *)
Own(value, default) == IF value = None THEN default ELSE value

(* _messages, _environment_actions, _events                                *)
Messages(q, proposal) ==
  [i \in DOMAIN proposal.messages |->
     LET m == proposal.messages[i]
     IN Message(m.to, m.type, Own(m.prio, q.prio), TRUE, i)]

Actions(proposal) ==
  [i \in DOMAIN proposal.actions |-> [proposal.actions[i] EXCEPT !.by = i]]

Events(q, proposal) ==
  [i \in DOMAIN proposal.events |->
     LET e == proposal.events[i]
     IN [to |-> e.to, prio |-> Own(e.prio, q.prio), coordinator |-> e.coordinator]]

(* _updated_state: what of the model's memory becomes the agent's.         *)
UpdatedMemory(proposal) == proposal.memory \ SystemKeys

(* _result_from_proposal; text is raw_content, counts are retry_count and  *)
(* json_repair_attempts.  The proposal's metadata is laid over the result's*)
(* after the first of the two is in it, and before the second.             *)
ResultFromProposal(q, proposal, text, counts) ==
  LET messages == Messages(q, proposal)
      actions == Actions(proposal)
      keptMessages == UsableMessages(q, messages)
      keptActions == UsableActions(q, actions)
      allMessages == Complete(keptMessages, RequiredMessages(q))
      allActions == Complete(keptActions, RequiredActions(q))
      kept == Len(keptMessages) + Len(keptActions)
      overwrites == proposal.memory \cap SystemKeys
  IN [messages |-> allMessages, actions |-> allActions, events |-> Events(q, proposal),
      memory |-> UpdatedMemory(proposal),
      retry_count |-> Own(proposal.retry_count, counts.retry_count),
      json_repair_attempts |-> counts.json_repair_attempts,
      kept |-> kept, added |-> Len(allMessages) + Len(allActions) - kept,
      semantic_valid |-> ~ IsInvalid(proposal) /\ ~ Violates(q, messages, actions),
      useful_step |->
        /\ ~ Violates(q, allMessages, allActions)
        /\ Within(allActions, InBounds) = allActions
        /\ Complete(<<>>, allMessages) = allMessages
        /\ Complete(<<>>, allActions) = allActions
        /\ overwrites = {},
      proposal |-> proposal, raw_content |-> text, fallback_used |-> IsInvalid(proposal)]

-----------------------------------------------------------------------------
(* MockExecutionBackend and SupplyChainRuleBackend, _run_one.              *)

RuleRecipient(q) ==
  IF q.coordinator # None THEN q.coordinator
  ELSE IF q.sender # None THEN q.sender ELSE AgentCoordinator

RuleMessages(q) ==
  CASE q.role = "coordinator" ->
         [i \in DOMAIN q.operators |-> StatusRequest(q.operators[i], q.prio, TRUE)]
    [] q.role = "forecaster" -> <<>>
    [] q.role \in Operators -> <<StatusUpdate(RuleRecipient(q), q.severity, TRUE)>>
    [] OTHER -> <<StatusUpdate(RuleRecipient(q), q.prio, TRUE)>>

RuleActions(q) ==
  CASE q.role \in {"coordinator", "forecaster"} -> <<ActionOf("update_summary", None, None)>>
    [] q.role = "supplier" /\ q.strained -> <<ActionOf("adjust_inventory", q.region, 15)>>
    [] q.role = "transport" /\ q.strained ->
         <<ActionOf("adjust_transport_capacity", None, 5)>>
    [] q.role = "warehouse" /\ q.strained -> <<ActionOf("update_summary", None, None)>>
    [] OTHER -> <<>>
=============================================================================
