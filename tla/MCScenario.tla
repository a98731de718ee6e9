----------------------------- MODULE MCScenario -----------------------------
(* Instances of Scenario: what different models may answer, and the runs.  *)
EXTENDS Scenario_proofs

Candidate(proposal) == [closes |-> TRUE, parses |-> TRUE, proposal |-> proposal]
Unparsed == [closes |-> TRUE, parses |-> FALSE, proposal |-> None]
Unclosed == [closes |-> FALSE, parses |-> FALSE, proposal |-> None]

Text(candidates) == [choice |-> "text", text |-> candidates]
Says(proposal) == Text(<<Candidate(proposal)>>)
NoChoice == [choice |-> "none", text |-> <<>>]
OddChoice == [choice |-> "odd", text |-> <<>>]

Nothing == [FallbackProposal EXCEPT !.metadata = "valid"]
Does(actions) == [Nothing EXCEPT !.actions = actions]
Tells(messages) == [Nothing EXCEPT !.messages = messages]
Note(to, type) == [to |-> to, type |-> type, prio |-> None]

UpTo(n, S) == UNION {[1 .. k -> S] : k \in 0 .. n}

(* Answers in prose, cut off after a complete entry of a list, with the    *)
(* object behind braces of something else, and what else goes wrong.       *)
BrokenAnswers ==
  {NoChoice, OddChoice, Text(<<>>), Text(<<Unclosed, Candidate(Nothing)>>),
   Text([i \in 1 .. 6 |-> IF i = 6 THEN Candidate(Nothing) ELSE Unparsed]),
   Says([Nothing EXCEPT !.malformed = TRUE]), Says([Nothing EXCEPT !.metadata = "flagged"])}

(* Counts of retries that a model makes up.                                *)
MadeUpCounts == {[Nothing EXCEPT !.retry_count = n] : n \in {None, 7, NaN}}

(* Anything an agent may think of doing: what it must do in its own way,   *)
(* too much of it, nonsense, and what is not its business.                 *)
AnyActions(q) ==
  LET type == IF Allowed(q) = <<>> THEN "update_summary" ELSE Allowed(q)[1]
  IN {ActionOf(type, "helsinki", 40), ActionOf(type, "turku", -1001), ActionOf(type, None, None),
      ActionOf(type, "helsinki", NaN), ActionOf("adjust_nothing", None, 1)}

AnyMessages(q) ==
  {Note(AgentCoordinator, "status_update"),
   [Note("utility", "status_request") EXCEPT !.prio = 9],
   Note(q.agent, "status_update"), Note("nobody", "status_update")}

AnyProposals(q) ==
  {Does(actions) : actions \in UpTo(3, AnyActions(q))} \cup
  {[Tells(messages) EXCEPT !.memory = keys] :
     messages \in UpTo(3, AnyMessages(q)), keys \in {{"plan"}, {"plan", "last_event_type"}}}

(* Talk that nobody asked for: to a peer, or by an event for oneself.      *)
Talk(q) ==
  {Tells(<<Note(peer, "status_update")>>) : peer \in {"hospital", "utility"} \ {q.agent}} \cup
  {[Nothing EXCEPT !.events = <<[to |-> {q.agent}, prio |-> prio, coordinator |-> q.agent]>>] :
     prio \in {None, 9}} \cup
  {[Nothing EXCEPT !.events = <<[to |-> {q.agent}, prio |-> None, coordinator |-> None]>>]}

(* model: "plain"; "broken"; "counts"; "talk" of the operators; or the role that may *)
(* propose anything.  "rule" is no model but the rule backend.             *)
MCResponses(model, q) ==
  CASE model = "broken" -> {Says(Nothing)} \cup BrokenAnswers
    [] model = "counts" -> {Says(p) : p \in MadeUpCounts}
    [] model = "talk" /\ q.role \in Operators -> {Says(p) : p \in {Nothing} \cup Talk(q)}
    [] model = q.role -> {Says(p) : p \in AnyProposals(q)}
    [] OTHER -> {Says(Nothing)}

MCRegions == <<"helsinki", "oulu">>

(* Fixtures: a storm that comes and goes; demand outgrown by low stocks.   *)
NoFixture == [initial |-> <<>>, ticks |-> <<>>]
Gale == [initial |-> [severity |-> 2], ticks |-> <<[severity |-> 3], [severity |-> 0]>>]
Empty ==
  [initial |-> [demand |-> 110, inventory |-> Everywhere(30)],
   ticks |-> <<[demand |-> 100], [affected_region |-> "helsinki"],
               [inventory |-> Everywhere(200), delayed_shipments |-> 0]>>]

Run(scenario, fixture, n, model, concurrency, retries, repairs) ==
  [scenario |-> scenario, fixture |-> fixture, steps |-> n,
   backend |-> [name |-> IF model = "rule" THEN "rule" ELSE "aitta", model_name |-> model,
                max_concurrency |-> concurrency, max_retries |-> retries,
                max_json_repair_attempts |-> repairs]]

MCSetups ==
  {Run("storm", fixture, 13, model, 0, 1, 0) :
     fixture \in {NoFixture, Gale}, model \in {"plain", "rule"}} \cup
  {Run("supply_chain", fixture, 13, model, 4, -1, 0) :
     fixture \in {NoFixture, Empty}, model \in {"plain", "rule"}} \cup
  {Run("storm", Gale, 5, "talk", 1, 1, 1)} \cup
  {Run("storm", Gale, 2, "broken", n, 1, 1) : n \in {1, 2}} \cup
  {Run("storm", Gale, 2, "counts", 1, 1, 1)} \cup
  {Run("storm", Gale, 2, role, 1, 0, 0) : role \in {"coordinator", "utility"}} \cup
  {Run("supply_chain", Empty, 2, role, 1, 0, 0) : role \in Suppliers}

(* The hypotheses of the theorems about Scenario hold of these runs, the   *)
(* one about the answers for every kind of request there is.               *)
MCWords ==
  {AgentCoordinator, None, "forecaster", "nobody", "status_request", "status_update",
   "update_summary", "adjust_capacity", "adjust_nothing", "adjust_inventory",
   "adjust_transport_capacity"}
  \cup Operators \cup Suppliers \cup ToSet(MCRegions) \cup {"turku"}

MCRequests ==
  {[agent |-> IF role = "coordinator" THEN AgentCoordinator ELSE role, role |-> role,
    region |-> "helsinki", scenario |-> scenario, severity |-> 3, strained |-> strained,
    prio |-> 1,
    operators |-> operators, coordinator |-> AgentCoordinator, sender |-> None] :
     scenario \in {"storm", "supply_chain"}, strained \in BOOLEAN,
     operators \in {<<>>, <<"utility", "hospital">>},
     role \in {"coordinator", "forecaster"} \cup Operators \cup Suppliers}

ASSUME MCSettings ==
  /\ SetupsOK(MCWords)
  /\ \A s \in Setups, q \in MCRequests : RequestOK(q, MCWords) =>
       \A response \in Responses(s.backend.model_name, q) : AnswerOK(response, MCWords)
=============================================================================
