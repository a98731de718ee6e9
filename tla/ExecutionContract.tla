-------------------------- MODULE ExecutionContract -------------------------
(***************************************************************************)
(* What the engine needs of DispatchPolicy.dispatch(): every request of    *)
(* the tick is answered exactly once, with an outcome of its own, in an    *)
(* order of the policy's choice, and dispatch() returns only then.  The    *)
(* actions Execute and FailedOutcome of Engine are Answer here: a todo set *)
(* that shrinks by one request at a time, in any order.                    *)
(***************************************************************************)
EXTENDS Integers, Sequences

CONSTANTS
  Batches,   \* the requests dispatch() may be given, as sequences
  Kinds      \* the kinds of outcome a request may have

VARIABLES
  batch,     \* requests
  results,   \* the pairs (request, outcome) collected so far
  returned   \* dispatch() has returned them

contractVars == <<batch, results, returned>>

Answered == {results[k].request : k \in DOMAIN results}

Init ==
  /\ batch \in Batches
  /\ results = <<>>
  /\ returned = FALSE

Answer(i) ==
  /\ ~ returned
  /\ i \in DOMAIN batch \ Answered
  /\ \E kind \in Kinds :
       results' = Append(results, [request |-> i, outcome |-> [of |-> i, kind |-> kind]])
  /\ UNCHANGED <<batch, returned>>

Return ==
  /\ ~ returned
  /\ Answered = DOMAIN batch
  /\ returned' = TRUE
  /\ UNCHANGED <<batch, results>>

Next == (\E i \in DOMAIN batch : Answer(i)) \/ Return

Spec == Init /\ [][Next]_contractVars
=============================================================================
