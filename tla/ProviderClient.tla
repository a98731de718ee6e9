---------------------------- MODULE ProviderClient ---------------------------
(***************************************************************************)
(* OpenAICompatibleExecutionBackend (openai_compatible_backend.py):        *)
(* run_batch with its pool of threads, and for every request the retries   *)
(* of _send inside the repair loop of _run_one.                            *)
(*                                                                         *)
(* A response of the server is a record [choice, text].  choice: "text";   *)
(* "none": no choices, or no content; "odd": a first choice or a message   *)
(* that is not an object.  text is the sequence of the candidates that     *)
(* _iter_json_candidates finds in the content, one for every opening brace *)
(* in it, outermost first: [closes, parses, proposal] with proposal what   *)
(* it is parsed to.  Mended trailing commas count as parsing.              *)
(***************************************************************************)
EXTENDS RolePolicy, FiniteSets

CONSTANTS
  Responses(_, _),   \* what a model may answer to a request
  MaxFailures        \* bound on the calls of the transport that raise in a batch

ASSUME FailuresAssumption == MaxFailures \in Nat

VARIABLES
  backend,    \* name, model_name, max_concurrency, max_retries,
              \* max_json_repair_attempts
  batch,      \* requests, the argument of run_batch
  client,     \* of every request, where its _run_one is
  failures    \* the calls that raised in this batch

clientVars == <<backend, batch, client, failures>>

AtLeast(n, bound) == IF n < bound THEN bound ELSE n

(* __init__: options are taken as they are or raised to what makes sense.  *)
Parameters(options) ==
  [options EXCEPT !.max_retries = AtLeast(@, 0), !.max_json_repair_attempts = AtLeast(@, 0),
                  !.max_concurrency = AtLeast(@, 1)]

(* attempt: the one in _send; calls: those of transport; retries, repairs: *)
(* retry_count, json_repair_attempts; result: None until there is one.     *)
Waiting == [phase |-> "waiting", attempt |-> 0, calls |-> 0, retries |-> 0,
            repairs |-> 0, result |-> None]

InPhase(phase) == {i \in DOMAIN client : client[i].phase = phase}
Finished(i) == client[i].phase \in {"done", "raised", "cancelled"}

StartBatch(requests) ==
  /\ batch' = requests
  /\ client' = [i \in DOMAIN requests |-> Waiting]
  /\ failures' = 0
  /\ UNCHANGED backend

(* run_batch: one by one, stopping at the first that raises, or in a pool, *)
(* which takes the requests in order until the list of the results stops   *)
(* at one that raised.                                                     *)
Sequential == backend.max_concurrency = 1 \/ Len(batch) <= 1

Workers ==
  IF Sequential THEN 1
  ELSE IF backend.max_concurrency < Len(batch) THEN backend.max_concurrency ELSE Len(batch)

Start(i) ==
  /\ client[i].phase = "waiting"
  /\ \A j \in 1 .. i - 1 : client[j].phase # "waiting"
  /\ Cardinality(InPhase("sending")) < Workers
  /\ Sequential => InPhase("raised") = {}
  /\ client' = [client EXCEPT ![i].phase = "sending"]
  /\ UNCHANGED <<backend, batch, failures>>

(* executor.map, once its results are read up to one that raised: what is  *)
(* still waiting is cancelled, from the last, while threads take the next. *)
Cancel(i) ==
  /\ ~ Sequential /\ client[i].phase = "waiting"
  /\ \A j \in i + 1 .. Len(batch) : client[j].phase # "waiting"
  /\ \E k \in InPhase("raised") : \A j \in 1 .. k - 1 : client[j].phase = "done"
  /\ client' = [client EXCEPT ![i].phase = "cancelled"]
  /\ UNCHANGED <<backend, batch, failures>>

BatchOver ==
  \/ \A i \in DOMAIN client : Finished(i)
  \/ Sequential /\ InPhase("raised") # {}

-----------------------------------------------------------------------------
(* _send: another attempt after a sleep, or RuntimeError.                  *)
Raised(c) ==
  IF c.attempt < backend.max_retries
  THEN [c EXCEPT !.calls = @ + 1, !.attempt = @ + 1]
  ELSE [c EXCEPT !.calls = @ + 1, !.phase = "raised"]

TransportRaises(i) ==
  /\ client[i].phase = "sending" /\ failures < MaxFailures
  /\ failures' = failures + 1
  /\ client' = [client EXCEPT ![i] = Raised(@)]
  /\ UNCHANGED <<backend, batch>>

(* _json_object: of the first five candidates the first that parses.       *)
JsonObject(text) ==
  LET usable == {i \in DOMAIN text : i <= 5 /\ text[i].closes /\ text[i].parses}
  IN IF usable = {} THEN FallbackProposal
     ELSE text[CHOOSE i \in usable : \A j \in usable : i <= j].proposal

(* _first_choice_text, then _try_parse.                                    *)
Content(response) == IF response.choice = "text" THEN response.text ELSE <<>>

(* Mutant: the retries of the first send are forgotten.                    *)
ReceivedAgain(c) ==
  [c EXCEPT !.calls = @ + 1, !.retries = c.attempt, !.attempt = 0]

(* _send returns: the call and its retries are counted.                    *)
Received(c) ==
  [c EXCEPT !.calls = @ + 1, !.retries = @ + c.attempt, !.attempt = 0]

Counts(c) == [retry_count |-> c.retries, json_repair_attempts |-> c.repairs]

Asks(i, response) ==
  /\ response.choice # "odd"
  /\ IsInvalid(JsonObject(Content(response)))
  /\ client[i].repairs < backend.max_json_repair_attempts

(* _repair_payload: the same conversation with the bad answer and a        *)
(* complaint added, sent with attempts of its own.                         *)
Repair(i, response) ==
  /\ Asks(i, response) /\ JsonObject(Content(response)).metadata = "invalid"
  /\ client' = [client EXCEPT ![i] = [Received(client[i]) EXCEPT !.repairs = @ + 1]]

(* The answer raises: a first choice that is no object, a proposal that    *)
(* calls itself invalid and gives no error to complain about, or one that  *)
(* is malformed.                                                           *)
AnswerRaises(i, response) ==
  /\ \/ response.choice = "odd"
     \/ Asks(i, response) /\ JsonObject(Content(response)).metadata = "flagged"
     \/ ~ Asks(i, response) /\ JsonObject(Content(response)).malformed
  /\ client' = [client EXCEPT ![i] = [Received(@) EXCEPT !.phase = "raised"]]

Finish(i, response) ==
  /\ response.choice # "odd" /\ ~ Asks(i, response)
  /\ ~ JsonObject(Content(response)).malformed
  /\ LET c == Received(client[i])
     IN client' = [client EXCEPT ![i] =
          [c EXCEPT !.phase = "done",
             !.result = ResultFromProposal(batch[i], JsonObject(Content(response)),
                                           Content(response), Counts(c))]]

TransportReturns(i) ==
  /\ client[i].phase = "sending"
  /\ \E response \in Responses(backend.model_name, batch[i]) :
       Repair(i, response) \/ AnswerRaises(i, response) \/ Finish(i, response)
  /\ UNCHANGED <<backend, batch, failures>>

RunOne(i) == Start(i) \/ Cancel(i) \/ TransportRaises(i) \/ TransportReturns(i)

(* The client by itself, called with batches of requests of Q, one after   *)
(* the other.                                                              *)
ClientInit ==
  /\ \E options \in [name : STRING, model_name : STRING, max_concurrency : Int,
                     max_retries : Int, max_json_repair_attempts : Int] :
       backend = Parameters(options)
  /\ batch = <<>> /\ client = <<>> /\ failures = 0

ClientNext(Q) ==
  \/ BatchOver /\ \E requests \in Seq(Q) : StartBatch(requests)
  \/ \E i \in DOMAIN client : RunOne(i)

ClientSpec(Q) == ClientInit /\ [][ClientNext(Q)]_clientVars

-----------------------------------------------------------------------------
(* However retries and repairs nest, the calls of a request are bounded,   *)
(* the result tells them all - unless the model puts a retry_count of its  *)
(* own into its metadata, which then stands in place of the client's -, no *)
(* more requests are under way than max_concurrency, and a batch that runs *)
(* one by one calls for none after the one that raised.                    *)
CallsAccounted ==
  /\ \A i \in DOMAIN client :
       LET c == client[i]
       IN /\ c.calls <= (backend.max_retries + 1) * (backend.max_json_repair_attempts + 1)
          /\ c.phase = "done" /\ c.result.proposal.retry_count = None =>
               c.calls = 1 + c.result.retry_count + c.result.json_repair_attempts
          /\ c.phase = "raised" /\ Sequential =>
               \A j \in DOMAIN client : j > i => client[j].calls = 0
  /\ Cardinality(InPhase("sending")) <= backend.max_concurrency

Results == {i \in DOMAIN client : client[i].phase = "done"}

(* What leaves the policy keeps it: nothing forbidden or out of bounds, no *)
(* kind twice, everything required, nothing system-managed; and the result *)
(* says so: its counts are those of its items, and the only step that is   *)
(* not useful without an attempt on the system's keys is one whose trigger *)
(* demands a message to the agent itself.                                  *)
ObeysPolicy(q, r) ==
  LET kinds == {<<r.messages[i].to, r.messages[i].type>> : i \in DOMAIN r.messages}
      types == {r.actions[i].type : i \in DOMAIN r.actions}
      required == RequiredMessages(q)
      toSelf == \E i \in DOMAIN required : required[i].to = q.agent
  IN /\ \A i \in DOMAIN r.messages : ToOther(q, r.messages[i]) \/ toSelf
     /\ Cardinality(kinds) = Len(r.messages) /\ Cardinality(types) = Len(r.actions)
     /\ \A i \in DOMAIN r.actions : IsAllowed(q, r.actions[i]) /\ InBounds(r.actions[i])
     /\ \A i \in DOMAIN required : <<required[i].to, required[i].type>> \in kinds
     /\ \A i \in DOMAIN RequiredActions(q) : RequiredActions(q)[i].type \in types
     /\ r.memory \cap SystemKeys = {}
     /\ r.kept = Cardinality({i \in DOMAIN r.messages : r.messages[i].by # 0})
                   + Cardinality({i \in DOMAIN r.actions : r.actions[i].by # 0})
     /\ r.kept + r.added = Len(r.messages) + Len(r.actions)
     /\ r.useful_step <=> ~ toSelf /\ r.proposal.memory \cap SystemKeys = {}

(* Every result that leaves the client keeps its request's policy.         *)
ResultObeysPolicy == \A n \in Results : ObeysPolicy(batch[n], client[n].result)

(* The policy only fills gaps: of every type of action the first one that  *)
(* the model may take and that is within bounds stands, and a default is   *)
(* there only where the model has none; so for messages.                   *)
FillsGapsOnly(q, r) ==
  LET ownMessages == {i \in DOMAIN r.proposal.messages : ToOther(q, r.proposal.messages[i])}
      ownActions == {i \in DOMAIN r.proposal.actions :
                       LET a == r.proposal.actions[i] IN IsAllowed(q, a) /\ InBounds(a)}
  IN /\ \A i \in ownActions :
          (\A j \in ownActions : r.proposal.actions[j].type = r.proposal.actions[i].type
                                   => i <= j)
            => \E k \in DOMAIN r.actions : r.actions[k].by = i
     /\ \A i \in ownMessages :
          (\A j \in ownMessages : Kind(r.proposal.messages[j]) = Kind(r.proposal.messages[i])
                                    => i <= j)
            => \E k \in DOMAIN r.messages : r.messages[k].by = i
     /\ \A k \in DOMAIN r.actions :
          r.actions[k].by = 0 =>
            \A i \in ownActions : r.proposal.actions[i].type # r.actions[k].type

(* In every result the model's own answer stands.                          *)
OwnAnswerStands == \A n \in Results : FillsGapsOnly(batch[n], client[n].result)

(* Without an answer of its own an agent asks, reports and acts as the     *)
(* rule backend of the scenario would have it: policy completion and the   *)
(* rules are written twice, and agree on who is told what and on every     *)
(* action.  They differ in no more than two things: a completed message    *)
(* never names its origin, which the rules' do, and has the priority of    *)
(* its trigger, where the rule for a storm's operators takes the severity. *)
FallsBackLikeRule(q) ==
  LET r == ResultFromProposal(q, FallbackProposal, <<>>,
                              [retry_count |-> 0, json_repair_attempts |-> 0])
      rule == RuleMessages(q)
  IN /\ r.messages = [i \in DOMAIN rule |->
          [rule[i] EXCEPT !.origin = FALSE,
                          !.prio = IF q.role \in Operators THEN q.prio ELSE @]]
     /\ r.actions = RuleActions(q)

(* Every request that the client is called with has that agreement.        *)
FallbackLikeRule == \A n \in DOMAIN batch : FallsBackLikeRule(batch[n])

(* A completion that was cut off before its outermost object closed is not *)
(* taken for an answer: the agent falls back to its policy.                *)
TruncatedFallsBack ==
  \A n \in Results :
    LET text == client[n].result.raw_content
    IN text # <<>> /\ ~ text[1].closes => client[n].result.fallback_used
=============================================================================
