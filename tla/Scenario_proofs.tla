--------------------------- MODULE Scenario_proofs ---------------------------
(***************************************************************************)
(* Of the provider client: that its calls are bounded, and told in the     *)
(* result unless the model gives a retry_count of its own; and that what   *)
(* it makes of the answers obeys the policy.  Of the                       *)
(* scenarios run with it: that a round of requests and reports ends and    *)
(* is answered.  With any parameters, batches, answers and failures of     *)
(* the transport.                                                          *)
(*                                                                         *)
(* The counters of one request are tied by two sums: the calls made are    *)
(* the retries, the repairs and the attempts under way, and each repair    *)
(* has been preceded by a send that retried at most max_retries times.     *)
(* That a batch run one by one stops at the first request that raises      *)
(* rests on the order: a request has begun only if all before it are done. *)
(*                                                                         *)
(* The policy's lists are selections, by sets of positions, of what the    *)
(* model proposes and of what the policy requires, so that what is kept,   *)
(* what is added and that no kind occurs twice are facts about positions.  *)
(* Every result is such a completion of some well-formed proposal, which   *)
(* is the invariant of the second part.                                    *)
(*                                                                         *)
(* In the third part the round decides: ScenarioInv says of every request, *)
(* answer and event how many steps after the tick it is, hence who sent it *)
(* and who may still be asked, and of every operator that until the first  *)
(* commits it has answered or is among the requests left.                  *)
(***************************************************************************)
EXTENDS Scenario, CausalTrace_proofs, SequenceTheorems

Phases == {"waiting", "sending", "done", "raised", "cancelled"}
Fields == {"phase", "attempt", "calls", "retries", "repairs", "result"}

(* What the result tells of the calls, if the model does not say otherwise.*)
CountsTold(r, retries, repairs) ==
  r.proposal.retry_count = None =>
    r.retry_count = retries /\ r.json_repair_attempts = repairs

(* Counted(c): the sums, for the request whose state is c.                 *)
Counted(c, retries, repairs) ==
  /\ c = [f \in Fields |-> c[f]]
  /\ c.phase \in Phases
  /\ c.attempt \in 0 .. retries /\ c.repairs \in 0 .. repairs
  /\ c.calls \in Nat /\ c.retries \in Nat
  /\ c.phase \in {"waiting", "cancelled"} =>
       c.calls = 0 /\ c.attempt = 0 /\ c.retries = 0 /\ c.repairs = 0
  /\ c.phase = "sending" =>
       /\ c.calls = c.retries + c.repairs + c.attempt
       /\ c.retries + c.repairs <= (retries + 1) * c.repairs
  /\ c.phase = "done" =>
       c.calls = 1 + c.retries + c.repairs /\ CountsTold(c.result, c.retries, c.repairs)
  /\ c.phase \in {"done", "raised"} => c.calls <= (retries + 1) * (c.repairs + 1)

BackendOK ==
  /\ backend.max_retries \in Nat
  /\ backend.max_json_repair_attempts \in Nat
  /\ backend.max_concurrency \in Nat \ {0}

ClientInv ==
  /\ BackendOK
  /\ Len(batch) \in Nat
  /\ DOMAIN client = 1 .. Len(batch)
  /\ client = [i \in DOMAIN client |-> client[i]]
  /\ \A i \in DOMAIN client :
       Counted(client[i], backend.max_retries, backend.max_json_repair_attempts)
  /\ Cardinality(InPhase("sending")) <= backend.max_concurrency
  /\ Sequential =>
       \A i, j \in DOMAIN client :
         i < j /\ client[j].phase # "waiting" => client[i].phase = "done"
  /\ Sequential => \A i \in DOMAIN client : client[i].phase # "cancelled"

-----------------------------------------------------------------------------
(* Two facts about the bound on the calls.                                 *)
LEMMA OneMoreSend ==
  ASSUME NEW R \in Nat, NEW r \in Nat
  PROVE  (R + 1) * (r + 1) = (R + 1) * r + R + 1
OBVIOUS

LEMMA BoundGrows ==
  ASSUME NEW R \in Nat, NEW r \in Nat, NEW J \in Nat, r <= J
  PROVE  (R + 1) * (r + 1) <= (R + 1) * (J + 1)
<1>1. /\ J - r \in Nat /\ R + 1 \in Nat
  OBVIOUS
<1>2. (R + 1) * (J + 1) = (R + 1) * (r + 1) + (R + 1) * (J - r)
  OBVIOUS
<1>3. (R + 1) * (J - r) \in Nat
  BY <1>1
<1>4. (R + 1) * (r + 1) \in Nat
  OBVIOUS
<1>. QED
  BY <1>2, <1>3, <1>4

(* What Received changes, and what it leaves as it is.                     *)
LEMMA ReceivedFields ==
  ASSUME NEW c, c = [f \in Fields |-> c[f]]
  PROVE  LET d == Received(c)
         IN /\ d = [f \in Fields |-> d[f]]
            /\ d.calls = c.calls + 1 /\ d.retries = c.retries + c.attempt
            /\ d.attempt = 0 /\ d.repairs = c.repairs /\ d.phase = c.phase
<1>1. DOMAIN c = Fields
  OBVIOUS
<1>. QED
  BY <1>1 DEF Received, Fields

(* The sums after an answer has been received.                             *)
LEMMA ReceivedCounts ==
  ASSUME NEW c, NEW R \in Nat, NEW J \in Nat,
         Counted(c, R, J), c.phase = "sending"
  PROVE  LET d == Received(c)
         IN /\ d = [f \in Fields |-> d[f]]
            /\ d.attempt = 0 /\ d.repairs = c.repairs
            /\ d.calls \in Nat /\ d.retries \in Nat
            /\ d.calls = 1 + d.retries + c.repairs
            /\ d.calls <= (R + 1) * (c.repairs + 1)
<1>. DEFINE d == Received(c)
<1>1. /\ c.calls \in Nat /\ c.retries \in Nat /\ c.attempt \in Nat /\ c.attempt <= R
      /\ c.repairs \in Nat
      /\ c.calls = c.retries + c.repairs + c.attempt
      /\ c.retries + c.repairs <= (R + 1) * c.repairs
      /\ c = [f \in Fields |-> c[f]]
  BY DEF Counted
<1>2. (R + 1) * (c.repairs + 1) = (R + 1) * c.repairs + R + 1
  BY <1>1, OneMoreSend
<1>3. (R + 1) * c.repairs \in Nat
  BY <1>1
<1>4. /\ d = [f \in Fields |-> d[f]]
      /\ d.calls = c.calls + 1 /\ d.retries = c.retries + c.attempt
      /\ d.attempt = 0 /\ d.repairs = c.repairs
  BY <1>1, ReceivedFields
<1>. HIDE DEF d
<1>5. d.calls \in Nat /\ d.retries \in Nat /\ d.calls = 1 + d.retries + c.repairs
  BY <1>1, <1>4
<1>6. d.calls <= (R + 1) * (c.repairs + 1)
  BY <1>1, <1>2, <1>3, <1>4
<1>. QED
  BY <1>4, <1>5, <1>6 DEF d

LEMMA NothingAttempted == \A R \in Nat : 0 \in 0 .. R
OBVIOUS

(* What Counted says of a request under way, and of one that is over.      *)
LEMMA SendingCounted ==
  ASSUME NEW e, NEW R \in Nat, NEW J \in Nat,
         e = [f \in Fields |-> e[f]], e.phase = "sending",
         e.attempt \in 0 .. R, e.repairs \in 0 .. J, e.calls \in Nat, e.retries \in Nat,
         e.calls = e.retries + e.repairs + e.attempt,
         e.retries + e.repairs <= (R + 1) * e.repairs
  PROVE  Counted(e, R, J)
BY DEF Counted, Phases

LEMMA OverCounted ==
  ASSUME NEW e, NEW R \in Nat, NEW J \in Nat,
         e = [f \in Fields |-> e[f]], e.phase = "done" \/ e.phase = "raised",
         e.attempt \in 0 .. R, e.repairs \in 0 .. J, e.calls \in Nat, e.retries \in Nat,
         e.phase = "done" =>
           e.calls = 1 + e.retries + e.repairs /\ CountsTold(e.result, e.retries, e.repairs),
         e.calls <= (R + 1) * (e.repairs + 1)
  PROVE  Counted(e, R, J)
BY DEF Counted, Phases

(* The steps of one request keep the sums.                                 *)
LEMMA RepairCounts ==
  ASSUME NEW c, NEW R \in Nat, NEW J \in Nat,
         Counted(c, R, J), c.phase = "sending", c.repairs < J
  PROVE  LET e == [Received(c) EXCEPT !.repairs = @ + 1]
         IN Counted(e, R, J) /\ e.phase = "sending"
<1>. DEFINE d == Received(c)
            e == [d EXCEPT !.repairs = @ + 1]
<1>1. /\ d = [f \in Fields |-> d[f]]
      /\ d.attempt = 0 /\ d.repairs = c.repairs
      /\ d.calls \in Nat /\ d.retries \in Nat
      /\ d.calls = 1 + d.retries + c.repairs
      /\ d.calls <= (R + 1) * (c.repairs + 1)
      /\ d.phase = "sending" /\ c.repairs \in 0 .. J
  BY ReceivedCounts, ReceivedFields DEF Counted
<1>. HIDE DEF d
<1>2. DOMAIN d = Fields
  BY <1>1
<1>3. /\ e = [f \in Fields |-> e[f]]
      /\ e.attempt = 0 /\ e.repairs = c.repairs + 1 /\ e.phase = "sending"
      /\ e.calls = d.calls /\ e.retries = d.retries
  BY <1>1, <1>2 DEF Fields
<1>. HIDE DEF e
<1>4. Counted(e, R, J)
  <2>1. /\ e.phase \in Phases /\ e.attempt \in 0 .. R /\ e.repairs \in 0 .. J
        /\ e.calls \in Nat /\ e.retries \in Nat
    BY <1>1, <1>3 DEF Phases
  <2>2. e.calls = e.retries + e.repairs + e.attempt
    BY <1>1, <1>3
  <2>3. e.retries + e.repairs <= (R + 1) * e.repairs
    BY <1>1, <1>3
  <2>. QED
    BY <1>3, <2>1, <2>2, <2>3, SendingCounted
<1>. QED
  BY <1>3, <1>4 DEF d, e

(* What the client makes of a proposal tells the counts it is given.       *)
LEMMA ResultTellsCounts ==
  ASSUME NEW q, NEW p, NEW text, NEW c
  PROVE  CountsTold(ResultFromProposal(q, p, text, Counts(c)), c.retries, c.repairs)
<1>1. /\ ResultFromProposal(q, p, text, Counts(c)).proposal = p
      /\ ResultFromProposal(q, p, text, Counts(c)).retry_count = Own(p.retry_count, c.retries)
      /\ ResultFromProposal(q, p, text, Counts(c)).json_repair_attempts = c.repairs
  BY DEF ResultFromProposal, Counts
<1>. QED
  BY <1>1 DEF CountsTold, Own

LEMMA EndCounts ==
  ASSUME NEW c, NEW R \in Nat, NEW J \in Nat,
         Counted(c, R, J), c.phase = "sending", NEW e,
         \/ e = [Received(c) EXCEPT !.phase = "raised"]
         \/ \E r : /\ e = [Received(c) EXCEPT !.phase = "done", !.result = r]
                   /\ CountsTold(r, Received(c).retries, Received(c).repairs)
  PROVE  Counted(e, R, J) /\ e.phase \in {"done", "raised"}
<1>. DEFINE d == Received(c)
<1>1. /\ d = [f \in Fields |-> d[f]]
      /\ d.attempt = 0 /\ d.repairs = c.repairs
      /\ d.calls \in Nat /\ d.retries \in Nat
      /\ d.calls = 1 + d.retries + c.repairs
      /\ d.calls <= (R + 1) * (c.repairs + 1)
      /\ d.phase = "sending" /\ c.repairs \in 0 .. J
  BY ReceivedCounts, ReceivedFields DEF Counted
<1>2. \/ e = [d EXCEPT !.phase = "raised"]
      \/ \E r : /\ e = [d EXCEPT !.phase = "done", !.result = r]
                /\ CountsTold(r, d.retries, d.repairs)
  OBVIOUS
<1>. HIDE DEF d
<1>3. DOMAIN d = Fields
  BY <1>1
<1>4. /\ e = [f \in Fields |-> e[f]]
      /\ e.attempt = 0 /\ e.repairs = c.repairs /\ e.phase \in {"done", "raised"}
      /\ e.calls = d.calls /\ e.retries = d.retries
      /\ e.phase = "done" => CountsTold(e.result, e.retries, e.repairs)
  <2>1. CASE e = [d EXCEPT !.phase = "raised"]
    BY <1>1, <1>3, <2>1 DEF Fields
  <2>2. CASE \E r : /\ e = [d EXCEPT !.phase = "done", !.result = r]
                   /\ CountsTold(r, d.retries, d.repairs)
    <3>1. PICK r : /\ e = [[d EXCEPT !.phase = "done"] EXCEPT !.result = r]
                   /\ CountsTold(r, d.retries, d.repairs)
      BY <2>2
    <3>2. e.result = r
      BY <1>3, <3>1 DEF Fields
    <3>3. /\ e = [f \in Fields |-> e[f]]
          /\ e.attempt = 0 /\ e.repairs = d.repairs /\ e.phase = "done"
          /\ e.calls = d.calls /\ e.retries = d.retries
      BY <1>1, <1>3, <3>1 DEF Fields
    <3>. QED
      BY <1>1, <3>1, <3>2, <3>3
  <2>. QED
    BY <1>2, <2>1, <2>2
<1>5. e.phase = "done" \/ e.phase = "raised"
  BY <1>4
<1>6. 0 \in 0 .. R
  BY NothingAttempted, Zenon
<1>7. /\ e.attempt \in 0 .. R /\ e.repairs \in 0 .. J
      /\ e.calls \in Nat /\ e.retries \in Nat
      /\ e.calls = 1 + e.retries + e.repairs /\ e.calls <= (R + 1) * (e.repairs + 1)
  BY <1>1, <1>4, <1>6, Zenon
<1>. QED
  BY <1>4, <1>5, <1>7, OverCounted

LEMMA RaiseCounts ==
  ASSUME NEW c, NEW R \in Nat, NEW J \in Nat,
         Counted(c, R, J), c.phase = "sending", NEW e,
         R = backend.max_retries, e = Raised(c)
  PROVE  Counted(e, R, J) /\ e.phase \in {"sending", "raised"}
<1>1. /\ c.calls \in Nat /\ c.retries \in Nat /\ c.attempt \in 0 .. R
      /\ c.repairs \in 0 .. J
      /\ c.calls = c.retries + c.repairs + c.attempt
      /\ c.retries + c.repairs <= (R + 1) * c.repairs
      /\ c = [f \in Fields |-> c[f]]
  BY DEF Counted
<1>2. DOMAIN c = Fields
  BY <1>1
<1>3. /\ e = [f \in Fields |-> e[f]]
      /\ e.calls = c.calls + 1 /\ e.retries = c.retries /\ e.repairs = c.repairs
      /\ e.attempt = IF c.attempt < R THEN c.attempt + 1 ELSE c.attempt
      /\ e.phase = IF c.attempt < R THEN "sending" ELSE "raised"
  <2>1. CASE c.attempt < R
    <3>1. e = [c EXCEPT !.calls = c.calls + 1, !.attempt = c.attempt + 1]
      BY <2>1 DEF Raised
    <3>. QED
      BY <1>1, <1>2, <2>1, <3>1 DEF Fields
  <2>2. CASE ~ (c.attempt < R)
    <3>1. e = [c EXCEPT !.calls = c.calls + 1, !.phase = "raised"]
      BY <2>2 DEF Raised
    <3>. QED
      BY <1>1, <1>2, <2>2, <3>1 DEF Fields
  <2>. QED
    BY <2>1, <2>2
<1>4. (R + 1) * (c.repairs + 1) = (R + 1) * c.repairs + R + 1
  BY <1>1, OneMoreSend
<1>5. (R + 1) * c.repairs \in Nat
  BY <1>1
<1>6. CASE c.attempt < R
  <2>1. /\ e.phase = "sending" /\ e.attempt \in 0 .. R /\ e.repairs \in 0 .. J
        /\ e.calls \in Nat /\ e.retries \in Nat
        /\ e.calls = e.retries + e.repairs + e.attempt
        /\ e.retries + e.repairs <= (R + 1) * e.repairs
    BY <1>1, <1>3, <1>6
  <2>. QED
    BY <1>3, <2>1, SendingCounted
<1>7. CASE ~ (c.attempt < R)
  <2>1. e.calls <= (R + 1) * (e.repairs + 1)
    BY <1>1, <1>3, <1>4, <1>5, <1>7
  <2>2. /\ e.phase = "raised" /\ e.attempt \in 0 .. R /\ e.repairs \in 0 .. J
        /\ e.calls \in Nat /\ e.retries \in Nat
    BY <1>1, <1>3, <1>7
  <2>. QED
    BY <1>3, <2>1, <2>2, OverCounted
<1>. QED
  BY <1>3, <1>6, <1>7

(* A request that begins has made no call.                                 *)
LEMMA StartCounts ==
  ASSUME NEW c, NEW R \in Nat, NEW J \in Nat,
         Counted(c, R, J), c.phase = "waiting", NEW e,
         e = [c EXCEPT !.phase = "sending"]
  PROVE  Counted(e, R, J) /\ e.phase = "sending"
<1>1. /\ c = [f \in Fields |-> c[f]]
      /\ c.calls = 0 /\ c.attempt = 0 /\ c.retries = 0 /\ c.repairs = 0
  BY DEF Counted
<1>2. DOMAIN c = Fields
  BY <1>1
<1>3. /\ e = [f \in Fields |-> e[f]] /\ e.phase = "sending"
      /\ e.calls = 0 /\ e.attempt = 0 /\ e.retries = 0 /\ e.repairs = 0
  BY <1>1, <1>2 DEF Fields
<1>4. /\ e.attempt \in 0 .. R /\ e.repairs \in 0 .. J /\ e.calls \in Nat /\ e.retries \in Nat
      /\ e.calls = e.retries + e.repairs + e.attempt
      /\ e.retries + e.repairs <= (R + 1) * e.repairs
  BY <1>3
<1>. QED
  BY <1>3, <1>4, SendingCounted

-----------------------------------------------------------------------------
LEMMA PhasesFinite ==
  ASSUME ClientInv, NEW p
  PROVE  IsFiniteSet(InPhase(p)) /\ Cardinality(InPhase(p)) \in Nat
<1>1. 1 \in Int /\ Len(batch) \in Int
  BY DEF ClientInv
<1>2. IsFiniteSet(1 .. Len(batch))
  BY <1>1, FS_Interval
<1>3. InPhase(p) \subseteq 1 .. Len(batch)
  BY DEF ClientInv, InPhase
<1>. QED
  BY <1>2, <1>3, FS_Subset, FS_CardinalityType

(* A step of request i that was being sent keeps the invariant, whatever   *)
(* the new state e of it is, as long as its sums are right.                *)
LEMMA SendingStep ==
  ASSUME ClientInv, NEW i \in DOMAIN client, client[i].phase = "sending",
         NEW e, e.phase # "waiting", e.phase # "cancelled",
         Counted(e, backend.max_retries, backend.max_json_repair_attempts),
         client' = [client EXCEPT ![i] = e], UNCHANGED <<backend, batch>>
  PROVE  ClientInv'
<1>1. /\ DOMAIN client' = 1 .. Len(batch)'
      /\ client' = [j \in DOMAIN client' |-> client'[j]]
      /\ client'[i] = e /\ \A j \in DOMAIN client : j # i => client'[j] = client[j]
      /\ DOMAIN client' = DOMAIN client
  BY DEF ClientInv
<1>2. /\ BackendOK' /\ Len(batch)' \in Nat /\ Sequential' = Sequential
      /\ backend' = backend
  BY DEF ClientInv, BackendOK, Sequential
<1>3. \A j \in DOMAIN client' :
        Counted(client'[j], backend.max_retries, backend.max_json_repair_attempts)
  BY <1>1 DEF ClientInv
<1>4. Cardinality(InPhase("sending"))' <= backend'.max_concurrency
  <2>1. InPhase("sending")' \subseteq InPhase("sending")
    BY <1>1 DEF InPhase
  <2>2. /\ Cardinality(InPhase("sending")') <= Cardinality(InPhase("sending"))
        /\ Cardinality(InPhase("sending")') \in Nat
        /\ Cardinality(InPhase("sending")) \in Nat
    BY <2>1, PhasesFinite, FS_Subset, FS_CardinalityType
  <2>. QED
    BY <2>2, <1>2 DEF ClientInv, BackendOK
<1>5. ASSUME Sequential', NEW a \in DOMAIN client', NEW b \in DOMAIN client',
             a < b, client'[b].phase # "waiting"
      PROVE  client'[a].phase = "done"
  <2>1. client[b].phase # "waiting"
    BY <1>1, <1>5
  <2>2. client[a].phase = "done"
    BY <2>1, <1>1, <1>2, <1>5 DEF ClientInv
  <2>. QED
    BY <2>2, <1>1
<1>6. \A j \in DOMAIN client' :
        Counted(client'[j], backend'.max_retries, backend'.max_json_repair_attempts)
  BY <1>2, <1>3
<1>7. Sequential' => \A j \in DOMAIN client' : client'[j].phase # "cancelled"
  BY <1>1, <1>2 DEF ClientInv
<1>. QED
  BY <1>1, <1>2, <1>4, <1>5, <1>6, <1>7 DEF ClientInv

(* Starting a request: there is a worker for it, and one by one all before *)
(* it are done.                                                            *)
LEMMA StartStep ==
  ASSUME ClientInv, NEW i \in DOMAIN client, Start(i)
  PROVE  ClientInv'
<1>. DEFINE e == [client[i] EXCEPT !.phase = "sending"]
<1>1. /\ client[i].phase = "waiting"
      /\ client' = [client EXCEPT ![i] = e]
      /\ UNCHANGED <<backend, batch>>
  BY DEF Start
<1>2. Counted(e, backend.max_retries, backend.max_json_repair_attempts) /\ e.phase = "sending"
  BY <1>1, StartCounts DEF ClientInv, BackendOK
<1>. HIDE DEF e
<1>3. /\ DOMAIN client' = 1 .. Len(batch)'
      /\ client' = [j \in DOMAIN client' |-> client'[j]]
      /\ client'[i] = e /\ \A j \in DOMAIN client : j # i => client'[j] = client[j]
      /\ DOMAIN client' = DOMAIN client
  BY <1>1 DEF ClientInv
<1>4. /\ BackendOK' /\ Len(batch)' \in Nat /\ Sequential' = Sequential
      /\ backend' = backend
  BY <1>1 DEF ClientInv, BackendOK, Sequential
<1>5. \A j \in DOMAIN client' :
        Counted(client'[j], backend'.max_retries, backend'.max_json_repair_attempts)
  BY <1>2, <1>3, <1>4 DEF ClientInv
<1>6. Cardinality(InPhase("sending"))' <= backend'.max_concurrency
  <2>1. InPhase("sending")' = InPhase("sending") \cup {i}
    BY <1>2, <1>3 DEF InPhase
  <2>2. i \notin InPhase("sending")
    BY <1>1 DEF InPhase
  <2>3. /\ IsFiniteSet(InPhase("sending"))
        /\ Cardinality(InPhase("sending")) \in Nat
    BY PhasesFinite
  <2>4. Cardinality(InPhase("sending")') = Cardinality(InPhase("sending")) + 1
    BY <2>1, <2>2, <2>3, FS_AddElement
  <2>5. Cardinality(InPhase("sending")) < Workers
    BY DEF Start
  <2>6. Workers <= backend.max_concurrency /\ Workers \in Nat
    BY DEF Workers, ClientInv, BackendOK
  <2>7. Cardinality(InPhase("sending")') <= backend.max_concurrency
    BY <2>3, <2>4, <2>5, <2>6 DEF ClientInv, BackendOK
  <2>. QED
    BY <2>7, <1>4
<1>7. ASSUME Sequential', NEW a \in DOMAIN client', NEW b \in DOMAIN client',
             a < b, client'[b].phase # "waiting"
      PROVE  client'[a].phase = "done"
  <2>1. CASE b = i
    <3>1. Workers = 1 /\ InPhase("raised") = {}
      BY <1>4, <1>7 DEF Start, Workers
    <3>2. Cardinality(InPhase("sending")) = 0
      BY <3>1, PhasesFinite DEF Start
    <3>3. InPhase("sending") = {}
      BY <3>2, PhasesFinite, FS_EmptySet
    <3>4. a \in 1 .. i - 1 /\ a # i /\ a \in DOMAIN client
      BY <1>3, <1>7, <2>1 DEF ClientInv
    <3>5. client[a].phase # "waiting" /\ client[a].phase # "sending"
            /\ client[a].phase # "raised"
      BY <3>1, <3>3, <3>4 DEF Start, InPhase
    <3>6. client[a].phase \in Phases /\ client[a].phase # "cancelled"
      BY <1>4, <1>7, <3>4 DEF ClientInv, Counted
    <3>. QED
      BY <1>3, <3>4, <3>5, <3>6 DEF Phases
  <2>2. CASE b # i
    <3>1. client[b].phase # "waiting" /\ a \in DOMAIN client /\ b \in DOMAIN client
      BY <1>3, <1>7, <2>2
    <3>2. client[a].phase = "done"
      BY <3>1, <1>4, <1>7 DEF ClientInv
    <3>. QED
      BY <3>1, <3>2, <1>1, <1>3
  <2>. QED
    BY <2>1, <2>2
<1>8. Sequential' => \A j \in DOMAIN client' : client'[j].phase # "cancelled"
  BY <1>2, <1>3, <1>4 DEF ClientInv
<1>. QED
  BY <1>3, <1>4, <1>5, <1>6, <1>7, <1>8 DEF ClientInv

(* Cancelling a request: it has made no call, and the batch is not run one *)
(* by one.                                                                 *)
LEMMA CancelStep ==
  ASSUME ClientInv, NEW i \in DOMAIN client, Cancel(i)
  PROVE  ClientInv'
<1>. DEFINE e == [client[i] EXCEPT !.phase = "cancelled"]
            R == backend.max_retries
            J == backend.max_json_repair_attempts
<1>1. /\ ~ Sequential /\ client[i].phase = "waiting"
      /\ client' = [client EXCEPT ![i] = e]
      /\ UNCHANGED <<backend, batch>>
      /\ R \in Nat /\ J \in Nat /\ Counted(client[i], R, J)
  BY DEF Cancel, ClientInv, BackendOK
<1>2. Counted(e, R, J) /\ e.phase = "cancelled"
  <2>. DEFINE c == client[i]
  <2>1. /\ c = [f \in Fields |-> c[f]]
        /\ c.calls = 0 /\ c.attempt = 0 /\ c.retries = 0 /\ c.repairs = 0
    BY <1>1 DEF Counted
  <2>. HIDE DEF c
  <2>2. DOMAIN c = Fields
    BY <2>1
  <2>3. e = [c EXCEPT !.phase = "cancelled"]
    BY DEF c
  <2>. HIDE DEF e
  <2>4. /\ e = [f \in Fields |-> e[f]] /\ e.phase = "cancelled"
        /\ e.calls = 0 /\ e.attempt = 0 /\ e.retries = 0 /\ e.repairs = 0
    BY <2>1, <2>2, <2>3 DEF Fields
  <2>. HIDE DEF R, J
  <2>. QED
    BY <1>1, <2>4 DEF Counted, Phases
<1>. HIDE DEF e
<1>3. /\ DOMAIN client' = 1 .. Len(batch)'
      /\ client' = [j \in DOMAIN client' |-> client'[j]]
      /\ client'[i] = e /\ \A j \in DOMAIN client : j # i => client'[j] = client[j]
      /\ DOMAIN client' = DOMAIN client
  BY <1>1 DEF ClientInv
<1>4. /\ BackendOK' /\ Len(batch)' \in Nat /\ ~ Sequential'
      /\ backend' = backend
  BY <1>1 DEF ClientInv, BackendOK, Sequential
<1>5. \A j \in DOMAIN client' :
        Counted(client'[j], backend'.max_retries, backend'.max_json_repair_attempts)
  BY <1>2, <1>3, <1>4 DEF ClientInv
<1>6. InPhase("sending")' = InPhase("sending")
  BY <1>1, <1>2, <1>3 DEF InPhase
<1>. QED
  BY <1>3, <1>4, <1>5, <1>6 DEF ClientInv

LEMMA ClientInitially == ClientInit => ClientInv
<1>. SUFFICES ASSUME ClientInit PROVE ClientInv
  OBVIOUS
<1>1. BackendOK
  <2>1. PICK options \in [name : STRING, model_name : STRING, max_concurrency : Int,
                          max_retries : Int, max_json_repair_attempts : Int] :
          backend = Parameters(options)
    BY DEF ClientInit
  <2>2. /\ backend.max_retries = AtLeast(options.max_retries, 0)
        /\ backend.max_json_repair_attempts = AtLeast(options.max_json_repair_attempts, 0)
        /\ backend.max_concurrency = AtLeast(options.max_concurrency, 1)
    BY <2>1 DEF Parameters
  <2>. QED
    BY <2>1, <2>2 DEF BackendOK, AtLeast
<1>2. batch = <<>> /\ client = <<>>
  BY DEF ClientInit
<1>3. /\ Len(batch) = 0 /\ DOMAIN client = 1 .. 0 /\ 1 .. 0 = {}
      /\ client = [i \in DOMAIN client |-> client[i]]
  BY <1>2
<1>4. Cardinality(InPhase("sending")) = 0
  <2>1. InPhase("sending") = {}
    BY <1>3 DEF InPhase
  <2>. QED
    BY <2>1, FS_EmptySet
<1>. QED
  BY <1>1, <1>3, <1>4 DEF ClientInv, BackendOK

LEMMA StartBatchStep ==
  ASSUME ClientInv, NEW CONSTANT Q, NEW requests \in Seq(Q), StartBatch(requests)
  PROVE  ClientInv'
<1>1. /\ backend' = backend /\ batch' = requests
      /\ DOMAIN client' = 1 .. Len(requests) /\ Len(requests) \in Nat
      /\ client' = [j \in DOMAIN client' |-> client'[j]]
      /\ \A j \in DOMAIN client' : client'[j] = Waiting
  BY DEF StartBatch
<1>2. BackendOK'
  BY <1>1 DEF ClientInv, BackendOK
<1>3. ASSUME NEW R \in Nat, NEW J \in Nat PROVE Counted(Waiting, R, J)
  <2>1. Waiting = [f \in Fields |-> Waiting[f]]
    BY DEF Waiting, Fields
  <2>. QED
    BY <2>1 DEF Counted, Phases, Waiting
<1>4. \A j \in DOMAIN client' :
        Counted(client'[j], backend'.max_retries, backend'.max_json_repair_attempts)
  BY <1>1, <1>2, <1>3 DEF BackendOK
<1>5. Waiting.phase = "waiting"
  BY DEF Waiting
<1>6. Cardinality(InPhase("sending")') = 0
  <2>1. InPhase("sending")' = {}
    BY <1>1, <1>5 DEF InPhase
  <2>. QED
    BY <2>1, FS_EmptySet
<1>. QED
  BY <1>1, <1>2, <1>4, <1>5, <1>6 DEF ClientInv, BackendOK

LEMMA RunOneStep ==
  ASSUME ClientInv, NEW i \in DOMAIN client, RunOne(i)
  PROVE  ClientInv'
<1>1. /\ Counted(client[i], backend.max_retries, backend.max_json_repair_attempts)
      /\ backend.max_retries \in Nat /\ backend.max_json_repair_attempts \in Nat
  BY DEF ClientInv, BackendOK
<1>2. CASE Start(i)
  BY <1>2, StartStep
<1>3. CASE TransportRaises(i)
  <2>. DEFINE e == Raised(client[i])
  <2>1. /\ client[i].phase = "sending" /\ client' = [client EXCEPT ![i] = e]
        /\ UNCHANGED <<backend, batch>>
    BY <1>3 DEF TransportRaises
  <2>2. Counted(e, backend.max_retries, backend.max_json_repair_attempts)
          /\ e.phase \in {"sending", "raised"}
    BY <1>1, <2>1, RaiseCounts
  <2>. HIDE DEF e
  <2>3. e.phase # "waiting" /\ e.phase # "cancelled"
    BY <2>2
  <2>. QED
    BY <2>1, <2>2, <2>3, SendingStep
<1>4. CASE TransportReturns(i)
  <2>1. PICK response :
          Repair(i, response) \/ AnswerRaises(i, response) \/ Finish(i, response)
    BY <1>4 DEF TransportReturns
  <2>2. client[i].phase = "sending" /\ UNCHANGED <<backend, batch>>
    BY <1>4 DEF TransportReturns
  <2>3. CASE Repair(i, response)
    <3>. DEFINE e == [Received(client[i]) EXCEPT !.repairs = @ + 1]
    <3>1. client' = [client EXCEPT ![i] = e]
      BY <2>3 DEF Repair
    <3>2. client[i].repairs < backend.max_json_repair_attempts
      BY <2>3 DEF Repair, Asks
    <3>3. Counted(e, backend.max_retries, backend.max_json_repair_attempts)
            /\ e.phase = "sending"
      BY <1>1, <2>2, <3>2, RepairCounts
    <3>. HIDE DEF e
    <3>4. e.phase # "waiting" /\ e.phase # "cancelled"
      BY <3>3
    <3>. QED
      BY <2>2, <3>1, <3>3, <3>4, SendingStep
  <2>4. CASE AnswerRaises(i, response)
    <3>. DEFINE e == [Received(client[i]) EXCEPT !.phase = "raised"]
    <3>1. client' = [client EXCEPT ![i] = e]
      BY <2>4 DEF AnswerRaises
    <3>2. Counted(e, backend.max_retries, backend.max_json_repair_attempts)
            /\ e.phase \in {"done", "raised"}
      BY <1>1, <2>2, EndCounts
    <3>. HIDE DEF e
    <3>4. e.phase # "waiting" /\ e.phase # "cancelled"
      BY <3>2
    <3>. QED
      BY <2>2, <3>1, <3>2, <3>4, SendingStep
  <2>5. CASE Finish(i, response)
    <3>. DEFINE d == Received(client[i])
                r == ResultFromProposal(batch[i], JsonObject(Content(response)),
                                        Content(response), Counts(d))
                e == [d EXCEPT !.phase = "done", !.result = r]
    <3>1. client' = [client EXCEPT ![i] = e]
      BY <2>5 DEF Finish
    <3>5. CountsTold(r, d.retries, d.repairs)
      BY ResultTellsCounts
    <3>. HIDE DEF r
    <3>2. Counted(e, backend.max_retries, backend.max_json_repair_attempts)
            /\ e.phase \in {"done", "raised"}
      BY <1>1, <2>2, <3>5, EndCounts
    <3>. HIDE DEF e
    <3>4. e.phase # "waiting" /\ e.phase # "cancelled"
      BY <3>2
    <3>. QED
      BY <2>2, <3>1, <3>2, <3>4, SendingStep
  <2>. QED
    BY <2>1, <2>3, <2>4, <2>5
<1>5. CASE Cancel(i)
  BY <1>5, CancelStep
<1>. QED
  BY <1>2, <1>3, <1>4, <1>5 DEF RunOne

(* The invariant bounds the calls.                                         *)
LEMMA InvAccounts == ClientInv => CallsAccounted
<1>. SUFFICES ASSUME ClientInv PROVE CallsAccounted
  OBVIOUS
<1>1. ASSUME NEW i \in DOMAIN client
      PROVE  /\ client[i].calls <= (backend.max_retries + 1)
                                     * (backend.max_json_repair_attempts + 1)
             /\ client[i].phase = "done" /\ client[i].result.proposal.retry_count = None =>
                  client[i].calls = 1 + client[i].result.retry_count
                                      + client[i].result.json_repair_attempts
  <2>. DEFINE c == client[i]
              R == backend.max_retries
              J == backend.max_json_repair_attempts
  <2>1. Counted(c, R, J) /\ R \in Nat /\ J \in Nat
    BY DEF ClientInv, BackendOK
  <2>. HIDE DEF c, R, J
  <2>2. /\ c.phase \in Phases /\ c.calls \in Nat /\ c.repairs \in Nat /\ c.repairs <= J
        /\ c.phase = "done" /\ c.result.proposal.retry_count = None =>
             c.calls = 1 + c.result.retry_count + c.result.json_repair_attempts
    BY <2>1 DEF Counted, CountsTold
  <2>3. (R + 1) * (c.repairs + 1) <= (R + 1) * (J + 1)
    BY <2>1, <2>2, BoundGrows
  <2>4. /\ (R + 1) * (c.repairs + 1) = (R + 1) * c.repairs + R + 1
        /\ (R + 1) * c.repairs \in Nat /\ (R + 1) * (J + 1) \in Nat
    BY <2>1, <2>2, OneMoreSend
  <2>5. CASE c.phase \in {"waiting", "cancelled"}
    <3>1. c.calls = 0
      BY <2>1, <2>5 DEF Counted
    <3>. QED
      BY <2>2, <2>4, <3>1 DEF c, R, J
  <2>6. CASE c.phase = "sending"
    <3>1. /\ c.calls = c.retries + c.repairs + c.attempt /\ c.retries \in Nat
          /\ c.retries + c.repairs <= (R + 1) * c.repairs
          /\ c.attempt \in Nat /\ c.attempt <= R
      BY <2>1, <2>6 DEF Counted
    <3>2. c.calls <= (R + 1) * (J + 1)
      BY <2>1, <2>2, <2>3, <2>4, <3>1
    <3>. QED
      BY <2>2, <3>2 DEF c, R, J
  <2>7. CASE c.phase \in {"done", "raised"}
    <3>1. c.calls <= (R + 1) * (c.repairs + 1)
      BY <2>1, <2>7 DEF Counted
    <3>2. c.calls <= (R + 1) * (J + 1)
      BY <2>1, <2>2, <2>3, <2>4, <3>1
    <3>. QED
      BY <2>2, <3>2 DEF c, R, J
  <2>. QED
    BY <2>2, <2>5, <2>6, <2>7 DEF Phases
<1>2. ASSUME NEW i \in DOMAIN client, client[i].phase = "raised", Sequential,
             NEW j \in DOMAIN client, j > i
      PROVE  client[j].calls = 0
  <2>1. i < j
    BY <1>2 DEF ClientInv
  <2>2. client[j].phase = "waiting"
    BY <1>2, <2>1 DEF ClientInv
  <2>. QED
    BY <2>2 DEF ClientInv, Counted
<1>. QED
  BY <1>1, <1>2 DEF CallsAccounted, ClientInv

(* Calls are bounded, told by the result unless the model brings its own   *)
(* retry_count and, one by one, stopped by the first that raises, whatever *)
(* the batches, answers and parameters: run_batch, _run_one, _send and     *)
(* _result_from_proposal of OpenAICompatibleExecutionBackend.              *)
THEOREM CallsAreAccounted ==
  ASSUME NEW CONSTANT Q
  PROVE  ClientSpec(Q) => []CallsAccounted
<1>1. ClientInit => ClientInv
  BY ClientInitially
<1>2. ClientInv /\ [ClientNext(Q)]_clientVars => ClientInv'
  <2>. SUFFICES ASSUME ClientInv, [ClientNext(Q)]_clientVars PROVE ClientInv'
    OBVIOUS
  <2>1. CASE \E requests \in Seq(Q) : StartBatch(requests)
    BY <2>1, StartBatchStep
  <2>2. CASE \E i \in DOMAIN client : RunOne(i)
    BY <2>2, RunOneStep
  <2>3. CASE UNCHANGED clientVars
    <3>1. backend' = backend /\ batch' = batch /\ client' = client
      BY <2>3 DEF clientVars
    <3>. QED
      BY <3>1 DEF ClientInv, BackendOK, InPhase, Sequential
  <2>. QED
    BY <2>1, <2>2, <2>3 DEF ClientNext
<1>3. ClientInv => CallsAccounted
  BY InvAccounts
<1>. QED
  BY <1>1, <1>2, <1>3, PTL DEF ClientSpec

-----------------------------------------------------------------------------
(* What the policy makes of a proposal.  First the selections.             *)

(* The number of smaller members tells the members of T apart, and takes   *)
(* every value below the size of T.                                        *)
LEMMA BelowCounts ==
  ASSUME NEW n \in Nat, NEW T \in SUBSET (1 .. n)
  PROVE  /\ IsFiniteSet(T) /\ Cardinality(T) \in Nat
         /\ \A i \in T : Cardinality(Below(i, T)) \in 0 .. Cardinality(T) - 1
         /\ \A i, j \in T : Cardinality(Below(i, T)) = Cardinality(Below(j, T)) => i = j
         /\ \A i, j \in T : j < i => Cardinality(Below(j, T)) < Cardinality(Below(i, T))
         /\ \A k \in 1 .. Cardinality(T) : \E i \in T : Cardinality(Below(i, T)) = k - 1
<1>. DEFINE m == Cardinality(T)
            rank(i) == Cardinality(Below(i, T))
            f == [i \in T |-> rank(i) + 1]
<1>1. IsFiniteSet(T) /\ m \in Nat
  <2>1. IsFiniteSet(1 .. n)
    BY FS_Interval
  <2>. QED
    BY <2>1, FS_Subset, FS_CardinalityType
<1>2. ASSUME NEW i \in T
      PROVE  IsFiniteSet(Below(i, T)) /\ rank(i) \in Nat /\ rank(i) < m
  <2>1. i \notin Below(i, T) /\ Below(i, T) \subseteq T
    BY DEF Below
  <2>. HIDE DEF m
  <2>2. IsFiniteSet(Below(i, T)) /\ Cardinality(Below(i, T)) <= Cardinality(T)
        /\ (Below(i, T) # T => Cardinality(Below(i, T)) < Cardinality(T))
    BY <1>1, <2>1, FS_Subset, FS_CardinalityType
  <2>. QED
    BY <2>1, <2>2, FS_CardinalityType DEF m
<1>3. ASSUME NEW i \in T, NEW j \in T, j < i PROVE rank(j) < rank(i)
  <2>1. ASSUME NEW h \in Below(j, T) PROVE h \in Below(i, T)
    <3>1. h \in T /\ h < j
      BY DEF Below
    <3>2. h \in Nat /\ i \in Nat /\ j \in Nat
      BY <3>1
    <3>. QED
      BY <1>3, <3>1, <3>2 DEF Below
  <2>2. j \in Below(i, T) /\ j \notin Below(j, T)
    BY <1>3 DEF Below
  <2>3. IsFiniteSet(Below(i, T)) /\ Below(j, T) \subseteq Below(i, T)
        /\ Below(j, T) # Below(i, T)
    BY <1>2, <2>1, <2>2
  <2>. QED
    BY <2>3, FS_Subset, FS_CardinalityType
<1>4. ASSUME NEW i \in T, NEW j \in T, rank(i) = rank(j) PROVE i = j
  <2>1. rank(i) \in Nat /\ rank(j) \in Nat
    BY <1>2
  <2>2. i < j => rank(i) < rank(j)
    BY <1>3
  <2>3. j < i => rank(j) < rank(i)
    BY <1>3
  <2>. HIDE DEF rank
  <2>. QED
    BY <1>4, <2>1, <2>2, <2>3
<1>5. \A k \in 1 .. m : \E i \in T : rank(i) = k - 1
  <2>1. f \in [T -> 1 .. m]
    BY <1>1, <1>2
  <2>2. \A i, j \in T : f[i] = f[j] => i = j
    BY <1>2, <1>4
  <2>3. f \in Injection(T, 1 .. m)
    <3>. HIDE DEF f, m
    <3>. QED
      BY <2>1, <2>2, Fun_IsInj
  <2>4. IsFiniteSet(1 .. m) /\ Cardinality(1 .. m) = m
    <3>. HIDE DEF m
    <3>. QED
      BY <1>1, FS_Interval
  <2>5. f \in Surjection(T, 1 .. m)
    <3>. HIDE DEF f
    <3>. QED
      BY <2>3, <2>4, FS_Injection
  <2>6. \A k \in 1 .. m : \E i \in T : f[i] = k
    <3>. HIDE DEF f
    <3>. QED
      BY <2>5, Fun_SurjectionProperties
  <2>. QED
    BY <1>2, <2>6
<1>. QED
  BY <1>1, <1>2, <1>3, <1>4, <1>5

(* place enumerates T in order, as the selection of s does.                *)
Enumerates(place, s, T) ==
  /\ place \in [1 .. Cardinality(T) -> T]
  /\ \A k \in 1 .. Cardinality(T) : Selection(s, T)[k] = s[place[k]]
  /\ \A k, l \in 1 .. Cardinality(T) : place[k] = place[l] => k = l
  /\ \A k, l \in 1 .. Cardinality(T) : k < l => place[k] < place[l]
  /\ \A i \in T : \E k \in 1 .. Cardinality(T) : place[k] = i
  /\ \A k \in 1 .. Cardinality(T) : Cardinality(Below(place[k], T)) = k - 1

(* A selection shows each of its positions once.                           *)
LEMMA SelectionExact ==
  ASSUME NEW S, NEW s \in Seq(S), NEW T \in SUBSET DOMAIN s
  PROVE  /\ Selection(s, T) \in Seq(S)
         /\ Len(Selection(s, T)) = Cardinality(T) /\ Cardinality(T) \in Nat
         /\ \E place : Enumerates(place, s, T)
<1>. DEFINE m == Cardinality(T)
            rank(i) == Cardinality(Below(i, T))
            place == [k \in 1 .. m |-> CHOOSE i \in T : rank(i) = k - 1]
<1>1. /\ Len(s) \in Nat /\ DOMAIN s = 1 .. Len(s) /\ s \in [1 .. Len(s) -> S]
  BY LenProperties
<1>2. /\ m \in Nat
      /\ \A i \in T : rank(i) \in 0 .. m - 1
      /\ \A i, j \in T : rank(i) = rank(j) => i = j
      /\ \A i, j \in T : j < i => rank(j) < rank(i)
      /\ \A k \in 1 .. m : \E i \in T : rank(i) = k - 1
  BY <1>1, BelowCounts
<1>3. \A k \in 1 .. m : place[k] \in T /\ rank(place[k]) = k - 1
  <2>. HIDE DEF rank, m
  <2>. QED
    BY <1>2
<1>4. place \in [1 .. m -> T]
  <2>. HIDE DEF rank, m
  <2>. QED
    BY <1>3
<1>5. Selection(s, T) = [k \in 1 .. m |-> s[place[k]]]
  BY DEF Selection
<1>. HIDE DEF place, rank, m
<1>6. \A k, l \in 1 .. m : place[k] = place[l] => k = l
  BY <1>2, <1>3
<1>7. ASSUME NEW k \in 1 .. m, NEW l \in 1 .. m, k < l PROVE place[k] < place[l]
  <2>1. /\ place[k] \in T /\ rank(place[k]) = k - 1
        /\ place[l] \in T /\ rank(place[l]) = l - 1
    BY <1>3
  <2>2. place[k] \in Nat /\ place[l] \in Nat /\ k \in Nat /\ l \in Nat
    BY <1>1, <1>2, <2>1
  <2>3. ~ (place[l] < place[k]) /\ place[l] # place[k]
    BY <1>2, <1>7, <2>1, <2>2
  <2>. QED
    BY <2>2, <2>3
<1>8. ASSUME NEW i \in T PROVE \E k \in 1 .. m : place[k] = i
  <2>1. rank(i) + 1 \in 1 .. m /\ rank(i) + 1 - 1 = rank(i)
    BY <1>2
  <2>2. place[rank(i) + 1] = i
    BY <1>2, <1>3, <2>1
  <2>. QED
    BY <2>1, <2>2
<1>9. Selection(s, T) \in [1 .. m -> S]
  BY <1>1, <1>4, <1>5
<1>10. Selection(s, T) \in Seq(S) /\ Len(Selection(s, T)) = m
  <2>1. Selection(s, T) \in Seq(S)
    BY <1>2, <1>9, SeqDef
  <2>. QED
    BY <1>2, <1>9, <2>1, LenProperties
<1>11. Enumerates(place, s, T)
  BY <1>2, <1>3, <1>4, <1>5, <1>6, <1>8, <1>7 DEF m, rank, Enumerates
<1>. QED
  BY <1>2, <1>10, <1>11 DEF m

(* All of a sequence.                                                      *)
LEMMA SelectAll ==
  ASSUME NEW S, NEW s \in Seq(S)
  PROVE  Selection(s, DOMAIN s) = s
<1>. DEFINE T == DOMAIN s
            n == Len(s)
<1>1. n \in Nat /\ T = 1 .. n /\ s \in [1 .. n -> S]
  BY LenProperties
<1>2. Cardinality(T) = n
  BY <1>1, FS_Interval
<1>3. ASSUME NEW i \in 1 .. n PROVE Cardinality(Below(i, T)) = i - 1
  <2>1. Below(i, T) = 1 .. i - 1
    BY <1>1 DEF Below
  <2>2. Cardinality(1 .. i - 1) = i - 1
    BY FS_Interval
  <2>. QED
    BY <2>1, <2>2
<1>. HIDE DEF n
<1>4. PICK place : Enumerates(place, s, T)
  BY SelectionExact
<1>. HIDE DEF T
<1>5. /\ place \in [1 .. n -> T]
      /\ \A k \in 1 .. n : Selection(s, T)[k] = s[place[k]]
      /\ \A k \in 1 .. n : Cardinality(Below(place[k], T)) = k - 1
  BY <1>4, <1>2 DEF Enumerates
<1>6. \A k \in 1 .. n : place[k] = k
  <2>. SUFFICES ASSUME NEW k \in 1 .. n PROVE place[k] = k
    OBVIOUS
  <2>1. place[k] \in 1 .. n
    BY <1>1, <1>5
  <2>2. Cardinality(Below(place[k], T)) = place[k] - 1
    BY <1>3, <2>1
  <2>3. k - 1 = place[k] - 1
    BY <1>5, <2>2
  <2>. QED
    BY <1>1, <2>1, <2>3
<1>7. Selection(s, T) \in Seq(S) /\ Len(Selection(s, T)) = n
  BY <1>2, SelectionExact DEF T
<1>8. Selection(s, T) \in [1 .. n -> S]
  BY <1>7, LenProperties
<1>. QED
  BY <1>1, <1>5, <1>6, <1>8 DEF T

(* A set of positions has a first one.                                     *)
LEMMA FirstPosition ==
  ASSUME NEW n \in Nat, NEW T \in SUBSET (1 .. n), T # {}
  PROVE  \E i \in T : \A j \in T : i <= j
<1>1. Cardinality(T) \in Nat /\ Cardinality(T) # 0
  BY BelowCounts, FS_EmptySet
<1>2. PICK i \in T : Cardinality(Below(i, T)) = 1 - 1
  BY <1>1, BelowCounts
<1>3. IsFiniteSet(Below(i, T))
  BY BelowCounts, FS_Subset DEF Below
<1>4. Below(i, T) = {}
  BY <1>2, <1>3, FS_EmptySet
<1>. QED
  BY <1>4 DEF Below

OneOfEach(s) == \A k, l \in DOMAIN s : Kind(s[k]) = Kind(s[l]) => k = l

(* c is items completed with what is new in more: nothing is lost, nothing *)
(* is twice, and every kind is there.                                      *)
Completed(c, items, new, more, S) ==
  /\ c \in Seq(S)
  /\ Len(items) \in Nat /\ Len(c) \in Nat /\ Len(items) <= Len(c)
  /\ \A k \in 1 .. Len(items) : c[k] = items[k]
  /\ \A k \in Len(items) + 1 .. Len(c) : \E i \in new : c[k] = more[i]
  /\ \A i \in new : \E k \in Len(items) + 1 .. Len(c) : c[k] = more[i]
  /\ OneOfEach(items) => OneOfEach(c)
  /\ \A i \in DOMAIN more : \E k \in DOMAIN c : Kind(c[k]) = Kind(more[i])

LEMMA CompleteItems ==
  ASSUME NEW S, NEW items \in Seq(S), NEW more \in Seq(S)
  PROVE  Completed(Complete(items, more), items, NewKinds(items, more), more, S)
<1>. DEFINE c == Complete(items, more)
            new == NewKinds(items, more)
            added == Selection(more, new)
            n == Len(items)
            m == Cardinality(new)
<1>1. /\ n \in Nat /\ DOMAIN items = 1 .. n
      /\ Len(more) \in Nat /\ DOMAIN more = 1 .. Len(more)
  BY LenProperties
<1>2. new \in SUBSET DOMAIN more
  BY DEF NewKinds
<1>3. added \in Seq(S) /\ Len(added) = m /\ m \in Nat
  BY <1>2, SelectionExact
<1>4. PICK place : Enumerates(place, more, new)
  BY <1>2, SelectionExact
<1>5. /\ place \in [1 .. m -> new]
      /\ \A k \in 1 .. m : added[k] = more[place[k]]
      /\ \A k, l \in 1 .. m : place[k] = place[l] => k = l
      /\ \A i \in new : \E k \in 1 .. m : place[k] = i
  BY <1>4 DEF Enumerates
<1>6. /\ \A i \in new : \A j \in DOMAIN items : Kind(items[j]) # Kind(more[i])
      /\ \A i, h \in new : h < i => Kind(more[h]) # Kind(more[i])
  BY <1>2 DEF NewKinds, Below
<1>7. c = items \o added
  BY DEF Complete
<1>. HIDE DEF c, added, m, n, new
<1>8. /\ c \in Seq(S) /\ Len(c) = n + m /\ DOMAIN c = 1 .. n + m
      /\ \A k \in 1 .. n + m : c[k] = IF k <= n THEN items[k] ELSE added[k - n]
  <2>1. /\ c \in Seq(S) /\ Len(c) = Len(items) + Len(added)
        /\ \A k \in 1 .. Len(items) + Len(added) :
             c[k] = IF k <= Len(items) THEN items[k] ELSE added[k - Len(items)]
    BY <1>3, <1>7, ConcatProperties
  <2>2. DOMAIN c = 1 .. Len(c)
    BY <2>1, LenProperties
  <2>. QED
    BY <1>3, <2>1, <2>2 DEF n
<1>9. \A k \in 1 .. n : c[k] = items[k]
  BY <1>1, <1>3, <1>8
<1>10. ASSUME NEW k \in n + 1 .. n + m
      PROVE  k - n \in 1 .. m /\ place[k - n] \in new /\ c[k] = more[place[k - n]]
  BY <1>1, <1>3, <1>5, <1>8
<1>11. ASSUME NEW i \in new PROVE \E k \in n + 1 .. n + m : c[k] = more[i]
  <2>1. PICK k \in 1 .. m : place[k] = i
    BY <1>5
  <2>2. n + k \in n + 1 .. n + m /\ (n + k) - n = k
    BY <1>1, <1>3
  <2>. QED
    BY <1>10, <2>1, <2>2
<1>12. ASSUME OneOfEach(items), NEW k \in 1 .. n + m, NEW l \in 1 .. n + m,
              Kind(c[k]) = Kind(c[l])
       PROVE  k = l
  <2>1. CASE k <= n /\ l <= n
    BY <1>1, <1>9, <1>12, <2>1 DEF OneOfEach
  <2>2. CASE k <= n /\ ~ (l <= n)
    <3>1. l \in n + 1 .. n + m /\ k \in 1 .. n
      BY <1>1, <1>3, <2>2
    <3>. QED
      BY <1>1, <1>6, <1>9, <1>10, <1>12, <3>1
  <2>3. CASE ~ (k <= n) /\ l <= n
    <3>1. k \in n + 1 .. n + m /\ l \in 1 .. n
      BY <1>1, <1>3, <2>3
    <3>. QED
      BY <1>1, <1>6, <1>9, <1>10, <1>12, <3>1
  <2>4. CASE ~ (k <= n) /\ ~ (l <= n)
    <3>1. k \in n + 1 .. n + m /\ l \in n + 1 .. n + m
      BY <1>1, <1>3, <2>4
    <3>2. /\ place[k - n] \in new /\ place[l - n] \in new
          /\ Kind(more[place[k - n]]) = Kind(more[place[l - n]])
          /\ k - n \in 1 .. m /\ l - n \in 1 .. m
      BY <1>10, <1>12, <3>1
    <3>3. place[k - n] \in Nat /\ place[l - n] \in Nat
      BY <1>1, <1>2, <3>2
    <3>4. place[k - n] = place[l - n]
      BY <1>6, <3>2, <3>3
    <3>5. k - n = l - n
      BY <1>5, <3>2, <3>4
    <3>. QED
      BY <1>1, <1>3, <3>5
  <2>. QED
    BY <2>1, <2>2, <2>3, <2>4
<1>13. ASSUME NEW i \in DOMAIN more PROVE \E k \in 1 .. n + m : Kind(c[k]) = Kind(more[i])
  <2>1. CASE \E j \in DOMAIN items : Kind(items[j]) = Kind(more[i])
    <3>1. PICK j \in DOMAIN items : Kind(items[j]) = Kind(more[i])
      BY <2>1
    <3>2. j \in 1 .. n /\ j \in 1 .. n + m
      BY <1>1, <1>3
    <3>. QED
      BY <1>9, <3>1, <3>2
  <2>2. CASE \A j \in DOMAIN items : Kind(items[j]) # Kind(more[i])
    <3>. DEFINE same == {j \in DOMAIN more : Kind(more[j]) = Kind(more[i])}
    <3>1. same \in SUBSET (1 .. Len(more)) /\ same # {}
      BY <1>1
    <3>2. PICK first \in same : \A j \in same : first <= j
      BY <1>1, <3>1, FirstPosition
    <3>3. first \in new
      <4>1. first \in DOMAIN more /\ Kind(more[first]) = Kind(more[i])
        BY <3>2
      <4>2. \A j \in Below(first, DOMAIN more) : Kind(more[j]) # Kind(more[first])
        BY <1>1, <3>2, <4>1 DEF Below
      <4>. QED
        BY <2>2, <4>1, <4>2 DEF new, NewKinds
    <3>4. PICK k \in n + 1 .. n + m : c[k] = more[first]
      BY <1>11, <3>3
    <3>5. k \in 1 .. n + m
      BY <1>1, <1>3
    <3>. QED
      BY <3>2, <3>4, <3>5
  <2>. QED
    BY <2>1, <2>2
<1>14. OneOfEach(items) => OneOfEach(c)
  BY <1>8, <1>12 DEF OneOfEach
<1>15. \A k \in n + 1 .. n + m : \E i \in new : c[k] = more[i]
  BY <1>10
<1>16. n + m \in Nat /\ n <= n + m
  BY <1>1, <1>3
<1>. QED
  BY <1>1, <1>8, <1>9, <1>11, <1>13, <1>14, <1>15, <1>16 DEF Completed, c, n, new

(* u is what is left of the items of s at the positions in T when each     *)
(* kind is to occur once only: the first of it.                            *)
FirstOfEach(u, s, T, S) ==
  /\ u \in Seq(S) /\ OneOfEach(u)
  /\ \A k \in DOMAIN u : \E i \in T : u[k] = s[i]
  /\ \A i \in T :
       (\A j \in T : Kind(s[j]) = Kind(s[i]) => i <= j) => \E k \in DOMAIN u : u[k] = s[i]
  /\ \A i \in T : \E k \in DOMAIN u : Kind(u[k]) = Kind(s[i])

LEMMA UsableItems ==
  ASSUME NEW S, NEW s \in Seq(S), NEW T \in SUBSET DOMAIN s
  PROVE  FirstOfEach(Complete(<<>>, Selection(s, T)), s, T, S)
<1>. DEFINE t == Selection(s, T)
            none == <<>>
            u == Complete(none, t)
            m == Cardinality(T)
            new == NewKinds(none, t)
<1>1. /\ t \in Seq(S) /\ Len(t) = m /\ m \in Nat /\ DOMAIN t = 1 .. m
  BY SelectionExact, LenProperties
<1>2. PICK place : Enumerates(place, s, T)
  BY SelectionExact
<1>3. /\ place \in [1 .. m -> T]
      /\ \A k \in 1 .. m : t[k] = s[place[k]]
      /\ \A k, l \in 1 .. m : k < l => place[k] < place[l]
      /\ \A i \in T : \E k \in 1 .. m : place[k] = i
  BY <1>2 DEF Enumerates
<1>. HIDE DEF t, m
<1>4. none \in Seq(S) /\ Len(none) + 1 = 1 /\ DOMAIN none = {}
  BY EmptySeq
<1>5. OneOfEach(none)
  BY <1>4 DEF OneOfEach
<1>6. Completed(u, none, new, t, S)
  <2>. HIDE DEF none
  <2>. QED
    BY <1>1, <1>4, CompleteItems
<1>. HIDE DEF u, new, none
<1>7. /\ u \in Seq(S) /\ DOMAIN u = 1 .. Len(u)
      /\ \A k \in 1 .. Len(u) : \E i \in new : u[k] = t[i]
      /\ \A i \in new : \E k \in 1 .. Len(u) : u[k] = t[i]
      /\ OneOfEach(u)
      /\ \A i \in DOMAIN t : \E k \in DOMAIN u : Kind(u[k]) = Kind(t[i])
  BY <1>4, <1>5, <1>6, LenProperties DEF Completed
<1>8. new = {i \in 1 .. m : \A j \in Below(i, 1 .. m) : Kind(t[j]) # Kind(t[i])}
  BY <1>1, <1>4 DEF NewKinds, new
<1>9. \A k \in DOMAIN u : \E i \in T : u[k] = s[i]
  BY <1>3, <1>7, <1>8
<1>10. ASSUME NEW i \in T, \A j \in T : Kind(s[j]) = Kind(s[i]) => i <= j
      PROVE  \E k \in DOMAIN u : u[k] = s[i]
  <2>1. PICK k \in 1 .. m : place[k] = i
    BY <1>3
  <2>2. ASSUME NEW l \in Below(k, 1 .. m) PROVE Kind(t[l]) # Kind(t[k])
    <3>1. l \in 1 .. m /\ place[l] < place[k] /\ place[l] \in T
      BY <1>3 DEF Below
    <3>2. place[l] \in Nat /\ place[k] \in Nat
      <4>1. T \subseteq Nat
        BY LenProperties
      <4>. QED
        BY <2>1, <3>1, <4>1
    <3>3. ~ (i <= place[l])
      BY <2>1, <3>1, <3>2
    <3>. QED
      BY <1>3, <1>10, <2>1, <3>1, <3>3
  <2>3. k \in new /\ t[k] = s[i]
    BY <1>3, <1>8, <2>1, <2>2
  <2>4. PICK h \in 1 .. Len(u) : u[h] = t[k]
    BY <1>7, <2>3
  <2>5. h \in DOMAIN u
    BY <1>7
  <2>. QED
    BY <2>3, <2>4, <2>5
<1>11. ASSUME NEW i \in T PROVE \E k \in DOMAIN u : Kind(u[k]) = Kind(s[i])
  <2>1. PICK l \in 1 .. m : place[l] = i
    BY <1>3
  <2>2. t[l] = s[i] /\ l \in DOMAIN t
    BY <1>1, <1>3, <2>1
  <2>. QED
    BY <1>7, <2>2
<1>. QED
  BY <1>7, <1>9, <1>10, <1>11 DEF FirstOfEach, u, t, none
-----------------------------------------------------------------------------
(* Requests and proposals.  Words are the names of agents and regions, the *)
(* types of messages and actions, and None.                                *)

Notes(Words) ==
  [to : Words, type : Words, prio : Int, origin : BOOLEAN, by : Nat]
Moves(Words) == [type : Words, region : Words, delta : Int \cup {None, NaN}, by : Nat]

(* A role belongs to its scenario, and operator_ids are the ids of         *)
(* different agents.                                                       *)
RequestOK(q, Words) ==
  /\ \/ q.scenario = "storm" /\ q.role \in {"coordinator", "forecaster"} \cup Operators
     \/ q.scenario = "supply_chain" /\ q.role \in {"coordinator"} \cup Suppliers
  /\ q.operators \in Seq(Words)
  /\ \A i, j \in DOMAIN q.operators : q.operators[i] = q.operators[j] => i = j
  /\ q.coordinator \in Words /\ q.sender \in Words /\ q.region \in Words
  /\ q.strained \in BOOLEAN /\ q.prio \in Int /\ q.severity \in Int

(* What a proposal holds that passes for one.                              *)
ProposalOK(p, Words) ==
  /\ p.messages \in Seq([to : Words, type : Words, prio : Int \cup {None}])
  /\ p.actions \in Seq(Moves(Words))
  /\ p.events \in Seq([to : SUBSET Words, prio : Int \cup {None}, coordinator : Words])

WordsOK(Words) ==
  /\ {AgentCoordinator, None, "status_request", "status_update", "update_summary",
      "adjust_inventory", "adjust_transport_capacity"} \subseteq Words
  /\ None \notin Int

LEMMA KindOfNote ==
  ASSUME NEW Words, NEW m \in Notes(Words)
  PROVE  Kind(m) = <<m.to, m.type>>
BY DEF Kind, Notes

LEMMA KindOfMove ==
  ASSUME NEW Words, NEW a \in Moves(Words)
  PROVE  Kind(a) = <<a.type>>
BY DEF Kind, Moves

(* What the policy requires is well-formed, its own, and no kind twice.    *)
LEMMA MessagesRequired ==
  ASSUME NEW Words, WordsOK(Words), NEW q, RequestOK(q, Words)
  PROVE  LET r == RequiredMessages(q)
         IN  r \in Seq(Notes(Words)) /\ OneOfEach(r) /\ \A i \in DOMAIN r : r[i].by = 0
<1>. DEFINE r == RequiredMessages(q)
<1>1. ReportsTo(q) \in Words
  BY DEF ReportsTo, WordsOK, RequestOK
<1>. DEFINE report == StatusUpdate(ReportsTo(q), q.prio, FALSE)
<1>2. report \in Notes(Words) /\ report.by = 0
  BY <1>1 DEF StatusUpdate, Message, Notes, WordsOK, RequestOK
<1>3. CASE q.role = "coordinator"
  <2>. DEFINE n == Len(q.operators)
  <2>1. n \in Nat /\ DOMAIN q.operators = 1 .. n /\ \A i \in 1 .. n : q.operators[i] \in Words
    BY LenProperties, ElementOfSeq DEF RequestOK
  <2>2. r = [i \in 1 .. n |-> StatusRequest(q.operators[i], q.prio, FALSE)]
    <3>1. r = [i \in DOMAIN q.operators |-> StatusRequest(q.operators[i], q.prio, FALSE)]
      BY <1>3, SMTT(30) DEF RequiredMessages, Operators, Suppliers
    <3>. HIDE DEF r
    <3>. QED
      BY <2>1, <3>1
  <2>. HIDE DEF n, r
  <2>3. \A i \in 1 .. n : r[i] \in Notes(Words) /\ r[i].by = 0 /\ r[i].to = q.operators[i]
    <3>. SUFFICES ASSUME NEW i \in 1 .. n
                  PROVE  r[i] \in Notes(Words) /\ r[i].by = 0 /\ r[i].to = q.operators[i]
      OBVIOUS
    <3>1. r[i] = StatusRequest(q.operators[i], q.prio, FALSE) /\ q.operators[i] \in Words
      BY <2>1, <2>2
    <3>. QED
      BY <3>1 DEF StatusRequest, Message, Notes, WordsOK, RequestOK
  <2>4. r \in [1 .. n -> Notes(Words)]
    BY <2>2, <2>3
  <2>5. r \in Seq(Notes(Words)) /\ DOMAIN r = 1 .. n
    BY <2>1, <2>4, SeqDef
  <2>6. ASSUME NEW k \in 1 .. n, NEW l \in 1 .. n, Kind(r[k]) = Kind(r[l]) PROVE k = l
    <3>1. <<r[k].to, r[k].type>> = <<r[l].to, r[l].type>>
      BY <2>3, <2>6, KindOfNote
    <3>2. q.operators[k] = q.operators[l]
      BY <2>3, <3>1
    <3>. QED
      BY <2>1, <3>2 DEF RequestOK
  <2>. QED
    BY <2>3, <2>5, <2>6 DEF OneOfEach, r
<1>4. CASE q.role \in Operators \cup Suppliers
  <2>1. r = <<report>>
    BY <1>4 DEF RequiredMessages, Operators, Suppliers
  <2>. HIDE DEF r, report
  <2>. QED
    BY <1>2, <2>1 DEF OneOfEach, r
<1>5. CASE q.role = "forecaster"
  <2>1. r = <<>>
    BY <1>5 DEF RequiredMessages, Operators, Suppliers
  <2>. HIDE DEF r
  <2>. QED
    BY <2>1, EmptySeq DEF OneOfEach, r
<1>. QED
  BY <1>3, <1>4, <1>5 DEF RequestOK

LEMMA ActionsRequired ==
  ASSUME NEW Words, WordsOK(Words), NEW q, RequestOK(q, Words)
  PROVE  LET r == RequiredActions(q)
         IN  /\ r \in Seq(Moves(Words)) /\ OneOfEach(r)
             /\ \A i \in DOMAIN r : r[i].by = 0 /\ IsAllowed(q, r[i]) /\ InBounds(r[i])
<1>. DEFINE r == RequiredActions(q)
<1>1. ASSUME NEW type \in {"update_summary", "adjust_inventory", "adjust_transport_capacity"}
      PROVE  /\ DefaultAction(q, type) \in Moves(Words) /\ InBounds(DefaultAction(q, type))
             /\ DefaultAction(q, type).by = 0 /\ DefaultAction(q, type).type = type
  <2>1. CASE type = "update_summary"
    <3>1. DefaultAction(q, type) = ActionOf(type, None, None)
      BY <2>1 DEF DefaultAction
    <3>. QED
      BY <2>1, <3>1 DEF ActionOf, Moves, InBounds, BoundedActionTypes, WordsOK
  <2>2. CASE type = "adjust_inventory"
    <3>1. DefaultAction(q, type) = ActionOf(type, q.region, 15)
      BY <2>2 DEF DefaultAction
    <3>2. q.region \in Words /\ 15 # None /\ type \in Words
      BY <2>2 DEF WordsOK, RequestOK
    <3>. QED
      BY <2>2, <3>1, <3>2 DEF ActionOf, Moves, InBounds, ProtectiveDeltaBound
  <2>3. CASE type = "adjust_transport_capacity"
    <3>1. DefaultAction(q, type) = ActionOf(type, None, 5)
      BY <2>3 DEF DefaultAction
    <3>2. None \in Words /\ 5 # None /\ type \in Words
      BY <2>3 DEF WordsOK
    <3>. QED
      BY <2>3, <3>1, <3>2 DEF ActionOf, Moves, InBounds, ProtectiveDeltaBound
  <2>. QED
    BY <2>1, <2>2, <2>3
<1>2. ASSUME NEW type \in {"update_summary", "adjust_inventory", "adjust_transport_capacity"},
             Allowed(q) = <<type>>, r = <<DefaultAction(q, type)>>
      PROVE  /\ r \in Seq(Moves(Words)) /\ OneOfEach(r)
             /\ \A i \in DOMAIN r : r[i].by = 0 /\ IsAllowed(q, r[i]) /\ InBounds(r[i])
  <2>. DEFINE d == DefaultAction(q, type)
  <2>1. d \in Moves(Words) /\ InBounds(d) /\ d.by = 0 /\ d.type = type
    BY <1>1
  <2>2. IsAllowed(q, d)
    BY <1>2, <2>1 DEF IsAllowed, Contains
  <2>. HIDE DEF d, r
  <2>3. r = <<d>>
    BY <1>2 DEF d
  <2>. QED
    BY <2>1, <2>2, <2>3 DEF OneOfEach
<1>3. CASE r = <<>>
  <2>. HIDE DEF r
  <2>. QED
    BY <1>3, EmptySeq DEF OneOfEach, r
<1>4. CASE q.role \in {"coordinator", "forecaster"}
  <2>1. r = <<DefaultAction(q, "update_summary")>>
    BY <1>4 DEF RequiredActions, Suppliers
  <2>2. Allowed(q) = <<"update_summary">>
    BY <1>4 DEF RequestOK, Allowed, AllowedEnvironmentActions, Suppliers, Operators
  <2>. QED
    BY <1>2, <2>1, <2>2
<1>5. CASE q.role \in Operators
  BY <1>3, <1>5 DEF RequiredActions, Operators, Suppliers
<1>6. CASE q.role \in Suppliers
  <2>1. q.scenario = "supply_chain"
    BY <1>6 DEF RequestOK, Operators, Suppliers
  <2>2. CASE ~ (q.strained /\ Allowed(q) # <<>>)
    BY <1>3, <1>6, <2>2 DEF RequiredActions, Suppliers
  <2>3. CASE q.strained /\ Allowed(q) # <<>>
    <3>1. r = <<DefaultAction(q, Allowed(q)[1])>>
      BY <1>6, <2>3 DEF RequiredActions, Suppliers
    <3>2. \E type \in {"update_summary", "adjust_inventory", "adjust_transport_capacity"} :
            Allowed(q) = <<type>>
      BY <1>6, <2>1, <2>3 DEF Allowed, AllowedEnvironmentActions, Suppliers, Operators
    <3>3. PICK type \in {"update_summary", "adjust_inventory", "adjust_transport_capacity"} :
            Allowed(q) = <<type>>
      BY <3>2
    <3>4. r = <<DefaultAction(q, type)>>
      BY <3>1, <3>3
    <3>. QED
      BY <1>2, <3>3, <3>4
  <2>. QED
    BY <2>2, <2>3
<1>. QED
  BY <1>4, <1>5, <1>6 DEF RequestOK

(* u is what may be kept of the messages, or of the actions, of p: it is   *)
(* by the model, and every kind is there that the model may use, as the    *)
(* first of that kind has it.                                              *)
KeptMessages(u, q, p, Words) ==
  LET own == {i \in DOMAIN p.messages : ToOther(q, p.messages[i])}
  IN  /\ u \in Seq(Notes(Words)) /\ OneOfEach(u)
      /\ \A k \in DOMAIN u : ToOther(q, u[k]) /\ u[k].by # 0
      /\ \A i \in own :
           (\A j \in own : Kind(p.messages[j]) = Kind(p.messages[i]) => i <= j)
             => \E k \in DOMAIN u : u[k].by = i

KeptActions(u, q, p, Words) ==
  LET own == {i \in DOMAIN p.actions :
                LET a == p.actions[i] IN IsAllowed(q, a) /\ InBounds(a)}
  IN  /\ u \in Seq(Moves(Words)) /\ OneOfEach(u)
      /\ \A k \in DOMAIN u : IsAllowed(q, u[k]) /\ InBounds(u[k]) /\ u[k].by # 0
      /\ \A i \in own :
           (\A j \in own : p.actions[j].type = p.actions[i].type => i <= j)
             => \E k \in DOMAIN u : u[k].by = i
      /\ \A i \in own : \E k \in DOMAIN u : u[k].type = p.actions[i].type

LEMMA MessagesKept ==
  ASSUME NEW Words, NEW q, RequestOK(q, Words), NEW p, ProposalOK(p, Words)
  PROVE  KeptMessages(UsableMessages(q, Messages(q, p)), q, p, Words)
<1>. DEFINE s == Messages(q, p)
            T == {i \in DOMAIN s : ToOther(q, s[i])}
            u == UsableMessages(q, s)
            own == {i \in DOMAIN p.messages : ToOther(q, p.messages[i])}
            n == Len(p.messages)
<1>1. n \in Nat /\ DOMAIN p.messages = 1 .. n
  BY LenProperties DEF ProposalOK
<1>2. \A i \in 1 .. n : p.messages[i] \in [to : Words, type : Words, prio : Int \cup {None}]
  BY ElementOfSeq DEF ProposalOK
<1>3. s = [i \in 1 .. n |-> Message(p.messages[i].to, p.messages[i].type,
                                    Own(p.messages[i].prio, q.prio), TRUE, i)]
  BY <1>1 DEF Messages
<1>4. \A i \in 1 .. n : /\ s[i] \in Notes(Words) /\ s[i].by = i
                        /\ s[i].to = p.messages[i].to /\ s[i].type = p.messages[i].type
  BY <1>2, <1>3 DEF Notes, Message, Own, RequestOK
<1>5. s \in Seq(Notes(Words)) /\ DOMAIN s = 1 .. n
  <2>1. s \in [1 .. n -> Notes(Words)]
    BY <1>3, <1>4
  <2>. QED
    BY <1>1, <2>1, SeqDef
<1>6. u = Complete(<<>>, Selection(s, T))
  BY DEF UsableMessages, Within
<1>7. T \in SUBSET DOMAIN s /\ T = own /\ own \subseteq 1 .. n
  BY <1>1, <1>4, <1>5 DEF ToOther
<1>8. \A i \in 1 .. n : Kind(s[i]) = Kind(p.messages[i])
  <2>. SUFFICES ASSUME NEW i \in 1 .. n PROVE Kind(s[i]) = Kind(p.messages[i])
    OBVIOUS
  <2>1. Kind(s[i]) = <<p.messages[i].to, p.messages[i].type>>
    BY <1>4, KindOfNote
  <2>2. Kind(p.messages[i]) = <<p.messages[i].to, p.messages[i].type>>
    BY <1>2 DEF Kind
  <2>. QED
    BY <2>1, <2>2
<1>9. \A i \in T : ToOther(q, s[i])
  OBVIOUS
<1>. HIDE DEF s, T, u, own, n
<1>10. FirstOfEach(u, s, T, Notes(Words))
  BY <1>5, <1>6, <1>7, UsableItems
<1>11. ASSUME NEW k \in DOMAIN u PROVE ToOther(q, u[k]) /\ u[k].by # 0
  <2>1. PICK i \in T : u[k] = s[i]
    BY <1>10 DEF FirstOfEach
  <2>2. i \in 1 .. n
    BY <1>7
  <2>. QED
    BY <1>4, <1>9, <2>1, <2>2
<1>12. ASSUME NEW i \in own, \A j \in own : Kind(p.messages[j]) = Kind(p.messages[i]) => i <= j
       PROVE  \E k \in DOMAIN u : u[k].by = i
  <2>1. \A j \in T : Kind(s[j]) = Kind(s[i]) => i <= j
    BY <1>7, <1>8, <1>12
  <2>2. PICK k \in DOMAIN u : u[k] = s[i]
    BY <1>7, <1>10, <2>1 DEF FirstOfEach
  <2>. QED
    BY <1>4, <1>7, <2>2
<1>. QED
  BY <1>10, <1>11, <1>12 DEF FirstOfEach, KeptMessages, s, u, own

LEMMA ActionsKept ==
  ASSUME NEW Words, NEW q, NEW p, ProposalOK(p, Words)
  PROVE  KeptActions(UsableActions(q, Actions(p)), q, p, Words)
<1>. DEFINE s == Actions(p)
            T == {i \in DOMAIN s : IsAllowed(q, s[i]) /\ InBounds(s[i])}
            u == UsableActions(q, s)
            own == {i \in DOMAIN p.actions :
                      LET a == p.actions[i] IN IsAllowed(q, a) /\ InBounds(a)}
            n == Len(p.actions)
<1>1. n \in Nat /\ DOMAIN p.actions = 1 .. n
  BY LenProperties DEF ProposalOK
<1>2. \A i \in 1 .. n : p.actions[i] \in Moves(Words)
  BY ElementOfSeq DEF ProposalOK
<1>3. s = [i \in 1 .. n |-> [p.actions[i] EXCEPT !.by = i]]
  BY <1>1 DEF Actions
<1>4. ASSUME NEW i \in 1 .. n
      PROVE  /\ s[i] \in Moves(Words) /\ s[i].by = i
             /\ s[i].type = p.actions[i].type /\ s[i].delta = p.actions[i].delta
  <2>. DEFINE a == p.actions[i]
  <2>1. s[i] = [a EXCEPT !.by = i] /\ a \in Moves(Words) /\ i \in Nat
    BY <1>1, <1>2, <1>3
  <2>. HIDE DEF a, s
  <2>. QED
    BY <2>1 DEF Moves, a
<1>5. s \in Seq(Moves(Words)) /\ DOMAIN s = 1 .. n
  <2>1. s \in [1 .. n -> Moves(Words)]
    BY <1>3, <1>4
  <2>. QED
    BY <1>1, <2>1, SeqDef
<1>6. u = Complete(<<>>, Selection(s, T))
  BY DEF UsableActions, Within
<1>7. T \in SUBSET DOMAIN s /\ T = own /\ own \subseteq 1 .. n
  BY <1>1, <1>4, <1>5 DEF IsAllowed, InBounds
<1>8. \A i \in 1 .. n : Kind(s[i]) = <<p.actions[i].type>>
  BY <1>4, KindOfMove
<1>9. \A i \in T : IsAllowed(q, s[i]) /\ InBounds(s[i])
  OBVIOUS
<1>. HIDE DEF s, T, u, own, n
<1>10. FirstOfEach(u, s, T, Moves(Words))
  BY <1>5, <1>6, <1>7, UsableItems
<1>11. ASSUME NEW k \in DOMAIN u PROVE IsAllowed(q, u[k]) /\ InBounds(u[k]) /\ u[k].by # 0
  <2>1. PICK i \in T : u[k] = s[i]
    BY <1>10 DEF FirstOfEach
  <2>2. i \in 1 .. n
    BY <1>7
  <2>. QED
    BY <1>4, <1>9, <2>1, <2>2
<1>12. ASSUME NEW i \in own, \A j \in own : p.actions[j].type = p.actions[i].type => i <= j
       PROVE  \E k \in DOMAIN u : u[k].by = i
  <2>1. ASSUME NEW j \in T, Kind(s[j]) = Kind(s[i]) PROVE i <= j
    <3>1. <<p.actions[j].type>> = <<p.actions[i].type>>
      BY <1>7, <1>8, <2>1
    <3>2. p.actions[j].type = p.actions[i].type
      BY <3>1
    <3>. QED
      BY <1>7, <1>12, <3>2
  <2>2. PICK k \in DOMAIN u : u[k] = s[i]
    BY <1>7, <1>10, <2>1 DEF FirstOfEach
  <2>. QED
    BY <1>4, <1>7, <2>2
<1>13. ASSUME NEW i \in own PROVE \E k \in DOMAIN u : u[k].type = p.actions[i].type
  <2>1. PICK k \in DOMAIN u : Kind(u[k]) = Kind(s[i])
    BY <1>7, <1>10 DEF FirstOfEach
  <2>2. u[k] \in Moves(Words)
    BY <1>10, LenProperties, ElementOfSeq DEF FirstOfEach
  <2>3. <<u[k].type>> = <<p.actions[i].type>>
    BY <1>7, <1>8, <2>1, <2>2, KindOfMove
  <2>. QED
    BY <2>3
<1>. QED
  BY <1>10, <1>11, <1>12, <1>13 DEF FirstOfEach, KeptActions, s, u, own

LEMMA IntervalSize ==
  \A n \in Nat : IsFiniteSet(1 .. n) /\ Cardinality(1 .. n) = n
BY FS_Interval

(* A sequence without repetition has as many values as items.              *)
LEMMA AsManyKinds ==
  ASSUME NEW n \in Nat, NEW f, f = [i \in 1 .. n |-> f[i]],
         \A i, j \in 1 .. n : f[i] = f[j] => i = j
  PROVE  Cardinality({f[i] : i \in 1 .. n}) = n
<1>. DEFINE V == {f[i] : i \in 1 .. n}
<1>1. f \in [1 .. n -> V]
  OBVIOUS
<1>2. \A v \in V : \E i \in 1 .. n : f[i] = v
  OBVIOUS
<1>. HIDE DEF V
<1>3. f \in Bijection(1 .. n, V)
  <2>1. \A i, j \in 1 .. n : f[i] = f[j] => i = j
    OBVIOUS
  <2>2. f \in Injection(1 .. n, V)
    BY <1>1, <2>1, Fun_IsInj
  <2>3. f \in Surjection(1 .. n, V)
    BY <1>1, <1>2, Fun_IsSurj
  <2>. QED
    BY <2>2, <2>3 DEF Bijection
<1>4. IsFiniteSet(1 .. n) /\ Cardinality(1 .. n) = n
  BY IntervalSize, Zenon
<1>5. Cardinality(V) = n
  BY <1>3, <1>4, FS_Bijection, Fun_ExistsBij
<1>. QED
  BY <1>5 DEF V

(* A sequence with no kind twice loses nothing when each kind may occur    *)
(* only once.                                                              *)
LEMMA CompleteAlone ==
  ASSUME NEW S, NEW s \in Seq(S), OneOfEach(s)
  PROVE  Complete(<<>>, s) = s
<1>1. NewKinds(<<>>, s) = DOMAIN s
  <2>1. \A i \in DOMAIN s : \A j \in Below(i, DOMAIN s) : Kind(s[j]) # Kind(s[i])
    <3>. SUFFICES ASSUME NEW i \in DOMAIN s, NEW j \in Below(i, DOMAIN s),
                         Kind(s[j]) = Kind(s[i])
                  PROVE  FALSE
      OBVIOUS
    <3>1. j \in DOMAIN s /\ j < i /\ DOMAIN s \subseteq Nat
      BY LenProperties DEF Below
    <3>2. j = i
      BY <3>1 DEF OneOfEach
    <3>. QED
      BY <3>1, <3>2
  <2>2. DOMAIN <<>> = {}
    BY EmptySeq
  <2>. QED
    BY <2>1, <2>2 DEF NewKinds
<1>2. Complete(<<>>, s) = <<>> \o s
  BY <1>1, SelectAll DEF Complete
<1>. QED
  BY <1>2, ConcatEmptySeq

(* The items that are by the model are those that there were before the    *)
(* policy added its own.                                                   *)
Attributed(c, items, new, more) ==
  /\ Cardinality({k \in DOMAIN c : c[k].by # 0}) = Len(items)
  /\ \A k \in DOMAIN c : c[k].by = 0 => \E i \in new : c[k] = more[i]

LEMMA ByTheModel ==
  ASSUME NEW S, NEW items \in Seq(S), NEW more \in Seq(S),
         \A k \in DOMAIN items : items[k].by # 0,
         \A i \in DOMAIN more : more[i].by = 0
  PROVE  Attributed(Complete(items, more), items, NewKinds(items, more), more)
<1>. DEFINE c == Complete(items, more)
            new == NewKinds(items, more)
            n == Len(items)
<1>1. Completed(c, items, new, more, S)
  BY CompleteItems
<1>2. new \subseteq DOMAIN more
  BY DEF NewKinds
<1>. HIDE DEF c, new
<1>3. /\ n \in Nat /\ DOMAIN items = 1 .. n /\ Len(c) \in Nat /\ n <= Len(c)
      /\ DOMAIN c = 1 .. Len(c)
      /\ \A k \in 1 .. n : c[k] = items[k]
      /\ \A k \in n + 1 .. Len(c) : \E i \in new : c[k] = more[i]
  BY <1>1, LenProperties DEF Completed
<1>. HIDE DEF n
<1>4. \A k \in 1 .. n : c[k].by # 0
  BY <1>3
<1>5. \A k \in n + 1 .. Len(c) : c[k].by = 0
  BY <1>2, <1>3
<1>6. {k \in DOMAIN c : c[k].by # 0} = 1 .. n
  <2>1. \A k \in 1 .. Len(c) : k \in 1 .. n \/ k \in n + 1 .. Len(c)
    BY <1>3
  <2>2. 1 .. n \subseteq 1 .. Len(c)
    BY <1>3
  <2>. QED
    BY <1>3, <1>4, <1>5, <2>1, <2>2, Zenon
<1>7. ASSUME NEW k \in DOMAIN c, c[k].by = 0
      PROVE  \E i \in new : c[k] = more[i]
  BY <1>3, <1>4, <1>7
<1>8. Cardinality(1 .. n) = n
  BY <1>3, IntervalSize, Zenon
<1>. QED
  BY <1>6, <1>7, <1>8 DEF Attributed, c, new, n

(* All the messages, and all the actions, of an answer: those kept, and    *)
(* those that were missing.                                                *)
AllMessages(all, kept, required, q) ==
  LET kinds == {<<all[i].to, all[i].type>> : i \in DOMAIN all}
  IN  /\ (\E i \in DOMAIN all : ~ ToOther(q, all[i]))
           <=> (\E i \in DOMAIN required : required[i].to = q.agent)
      /\ Cardinality(kinds) = Len(all)
      /\ \A i \in DOMAIN required : <<required[i].to, required[i].type>> \in kinds
      /\ Cardinality({i \in DOMAIN all : all[i].by # 0}) = Len(kept)
      /\ Complete(<<>>, all) = all
      /\ \A k \in DOMAIN kept : k \in DOMAIN all /\ all[k] = kept[k]
      /\ Len(kept) \in Nat /\ Len(all) \in Nat

AllActions(all, kept, required, q) ==
  LET types == {all[i].type : i \in DOMAIN all}
  IN  /\ \A i \in DOMAIN all : IsAllowed(q, all[i]) /\ InBounds(all[i])
      /\ Cardinality(types) = Len(all)
      /\ \A i \in DOMAIN required : required[i].type \in types
      /\ Cardinality({i \in DOMAIN all : all[i].by # 0}) = Len(kept)
      /\ Complete(<<>>, all) = all /\ Within(all, InBounds) = all
      /\ \A k \in DOMAIN kept : k \in DOMAIN all /\ all[k] = kept[k]
      /\ \A k \in DOMAIN all : all[k].by = 0 =>
           \A l \in DOMAIN kept : kept[l].type # all[k].type
      /\ Len(kept) \in Nat /\ Len(all) \in Nat

LEMMA MessagesCompleted ==
  ASSUME NEW Words, WordsOK(Words), NEW q, RequestOK(q, Words),
         NEW p, ProposalOK(p, Words)
  PROVE  LET kept == UsableMessages(q, Messages(q, p))
         IN  AllMessages(Complete(kept, RequiredMessages(q)), kept, RequiredMessages(q), q)
<1>. DEFINE kept == UsableMessages(q, Messages(q, p))
            required == RequiredMessages(q)
            all == Complete(kept, required)
            new == NewKinds(kept, required)
            n == Len(all)
            kind == [i \in 1 .. n |-> <<all[i].to, all[i].type>>]
<1>1. KeptMessages(kept, q, p, Words)
  BY MessagesKept
<1>2. /\ kept \in Seq(Notes(Words)) /\ OneOfEach(kept)
      /\ \A k \in DOMAIN kept : ToOther(q, kept[k]) /\ kept[k].by # 0
  <2>. HIDE DEF kept
  <2>. QED
    BY <1>1 DEF KeptMessages
<1>3. /\ required \in Seq(Notes(Words)) /\ \A i \in DOMAIN required : required[i].by = 0
  BY MessagesRequired
<1>. HIDE DEF kept, required
<1>4. Completed(all, kept, new, required, Notes(Words))
  BY <1>2, <1>3, CompleteItems
<1>5. Attributed(all, kept, new, required)
  BY <1>2, <1>3, ByTheModel
<1>6. new \subseteq DOMAIN required
  BY DEF NewKinds
<1>. HIDE DEF all, new, n
<1>7. /\ all \in Seq(Notes(Words)) /\ n \in Nat /\ DOMAIN all = 1 .. n
      /\ Len(kept) \in Nat /\ Len(kept) <= n /\ DOMAIN kept = 1 .. Len(kept)
      /\ OneOfEach(all)
      /\ \A k \in 1 .. Len(kept) : all[k] = kept[k]
      /\ \A k \in Len(kept) + 1 .. n : \E i \in new : all[k] = required[i]
      /\ \A i \in DOMAIN required : \E k \in 1 .. n : Kind(all[k]) = Kind(required[i])
  BY <1>2, <1>4, LenProperties DEF Completed, n
<1>8. /\ \A i \in 1 .. n : all[i] \in Notes(Words)
      /\ \A i \in DOMAIN required : required[i] \in Notes(Words)
  BY <1>3, <1>7, ElementOfSeq, LenProperties DEF n
<1>9. \A k \in DOMAIN kept : k \in DOMAIN all /\ all[k] = kept[k]
  BY <1>7
<1>10. \A i \in DOMAIN required : \E k \in 1 .. n :
        <<all[k].to, all[k].type>> = <<required[i].to, required[i].type>>
  <2>. SUFFICES ASSUME NEW i \in DOMAIN required
                PROVE  \E k \in 1 .. n :
                         <<all[k].to, all[k].type>> = <<required[i].to, required[i].type>>
    OBVIOUS
  <2>1. PICK k \in 1 .. n : Kind(all[k]) = Kind(required[i])
    BY <1>7
  <2>. QED
    BY <1>8, <2>1, KindOfNote
<1>11. ASSUME NEW k \in 1 .. n, ~ ToOther(q, all[k])
       PROVE  \E i \in DOMAIN required : required[i].to = q.agent
  <2>1. k \in Len(kept) + 1 .. n
    BY <1>2, <1>7, <1>11
  <2>2. PICK i \in new : all[k] = required[i]
    BY <1>7, <2>1
  <2>. QED
    BY <1>6, <1>11, <2>2 DEF ToOther
<1>12. ASSUME NEW i \in DOMAIN required, required[i].to = q.agent
       PROVE  \E k \in 1 .. n : ~ ToOther(q, all[k])
  <2>1. PICK k \in 1 .. n :
          <<all[k].to, all[k].type>> = <<required[i].to, required[i].type>>
    BY <1>10
  <2>2. all[k].to = q.agent
    BY <1>12, <2>1
  <2>. QED
    BY <2>2 DEF ToOther
<1>13. \A i, j \in 1 .. n : kind[i] = kind[j] => i = j
  <2>. SUFFICES ASSUME NEW i \in 1 .. n, NEW j \in 1 .. n, kind[i] = kind[j]
                PROVE  i = j
    OBVIOUS
  <2>1. Kind(all[i]) = Kind(all[j])
    BY <1>8, KindOfNote
  <2>. QED
    BY <1>7, <2>1 DEF OneOfEach
<1>14. Cardinality({kind[i] : i \in 1 .. n}) = n
  <2>1. kind = [i \in 1 .. n |-> kind[i]]
    OBVIOUS
  <2>. HIDE DEF kind
  <2>. QED
    BY <1>7, <1>13, <2>1, AsManyKinds
<1>15. {kind[i] : i \in 1 .. n} = {<<all[i].to, all[i].type>> : i \in DOMAIN all}
  BY <1>7
<1>. HIDE DEF kind
<1>16. Cardinality({<<all[i].to, all[i].type>> : i \in DOMAIN all}) = n
  BY <1>14, <1>15
<1>17. \A i \in DOMAIN required :
         <<required[i].to, required[i].type>> \in
           {<<all[k].to, all[k].type>> : k \in DOMAIN all}
  BY <1>7, <1>10
<1>18. Complete(<<>>, all) = all
  BY <1>7, CompleteAlone
<1>19. (\E i \in DOMAIN all : ~ ToOther(q, all[i]))
         <=> (\E i \in DOMAIN required : required[i].to = q.agent)
  BY <1>7, <1>11, <1>12
<1>. QED
  BY <1>5, <1>7, <1>9, <1>16, <1>17, <1>18, <1>19
  DEF Attributed, AllMessages, all, kept, required, n

LEMMA ActionsCompleted ==
  ASSUME NEW Words, WordsOK(Words), NEW q, RequestOK(q, Words),
         NEW p, ProposalOK(p, Words)
  PROVE  LET kept == UsableActions(q, Actions(p))
         IN  AllActions(Complete(kept, RequiredActions(q)), kept, RequiredActions(q), q)
<1>. DEFINE kept == UsableActions(q, Actions(p))
            required == RequiredActions(q)
            all == Complete(kept, required)
            new == NewKinds(kept, required)
            n == Len(all)
            type == [i \in 1 .. n |-> all[i].type]
<1>1. KeptActions(kept, q, p, Words)
  BY ActionsKept
<1>2. /\ kept \in Seq(Moves(Words)) /\ OneOfEach(kept)
      /\ \A k \in DOMAIN kept : IsAllowed(q, kept[k]) /\ InBounds(kept[k]) /\ kept[k].by # 0
  <2>. HIDE DEF kept
  <2>. QED
    BY <1>1 DEF KeptActions
<1>3. /\ required \in Seq(Moves(Words))
      /\ \A i \in DOMAIN required :
           required[i].by = 0 /\ IsAllowed(q, required[i]) /\ InBounds(required[i])
  BY ActionsRequired
<1>. HIDE DEF kept, required
<1>4. Completed(all, kept, new, required, Moves(Words))
  BY <1>2, <1>3, CompleteItems
<1>5. Attributed(all, kept, new, required)
  BY <1>2, <1>3, ByTheModel
<1>6. /\ new \subseteq DOMAIN required
      /\ \A i \in new : \A l \in DOMAIN kept : Kind(kept[l]) # Kind(required[i])
  BY DEF NewKinds
<1>. HIDE DEF all, new, n
<1>7. /\ all \in Seq(Moves(Words)) /\ n \in Nat /\ DOMAIN all = 1 .. n
      /\ Len(kept) \in Nat /\ Len(kept) <= n /\ DOMAIN kept = 1 .. Len(kept)
      /\ OneOfEach(all)
      /\ \A k \in 1 .. Len(kept) : all[k] = kept[k]
      /\ \A k \in Len(kept) + 1 .. n : \E i \in new : all[k] = required[i]
      /\ \A i \in DOMAIN required : \E k \in 1 .. n : Kind(all[k]) = Kind(required[i])
  BY <1>2, <1>4, LenProperties DEF Completed, n
<1>8. /\ \A i \in 1 .. n : all[i] \in Moves(Words)
      /\ \A i \in DOMAIN required : required[i] \in Moves(Words)
      /\ \A i \in DOMAIN kept : kept[i] \in Moves(Words)
  BY <1>2, <1>3, <1>7, ElementOfSeq, LenProperties DEF n
<1>9. \A k \in DOMAIN kept : k \in DOMAIN all /\ all[k] = kept[k]
  BY <1>7
<1>10. ASSUME NEW i \in DOMAIN required
      PROVE  required[i].type \in {all[k].type : k \in DOMAIN all}
  <2>1. PICK k \in 1 .. n : Kind(all[k]) = Kind(required[i])
    BY <1>7
  <2>2. <<all[k].type>> = <<required[i].type>>
    BY <1>8, <2>1, KindOfMove
  <2>. QED
    BY <1>7, <2>2
<1>11. ASSUME NEW k \in 1 .. n PROVE IsAllowed(q, all[k]) /\ InBounds(all[k])
  <2>1. CASE k <= Len(kept)
    BY <1>2, <1>7, <2>1
  <2>2. CASE ~ (k <= Len(kept))
    <3>1. PICK i \in new : all[k] = required[i]
      BY <1>7, <2>2
    <3>. QED
      BY <1>3, <1>6, <3>1
  <2>. QED
    BY <2>1, <2>2
<1>12. \A i, j \in 1 .. n : type[i] = type[j] => i = j
  <2>. SUFFICES ASSUME NEW i \in 1 .. n, NEW j \in 1 .. n, type[i] = type[j]
                PROVE  i = j
    OBVIOUS
  <2>1. Kind(all[i]) = Kind(all[j])
    BY <1>8, KindOfMove
  <2>. QED
    BY <1>7, <2>1 DEF OneOfEach
<1>13. Cardinality({type[i] : i \in 1 .. n}) = n
  <2>1. type = [i \in 1 .. n |-> type[i]]
    OBVIOUS
  <2>. HIDE DEF type
  <2>. QED
    BY <1>7, <1>12, <2>1, AsManyKinds
<1>14. {type[i] : i \in 1 .. n} = {all[i].type : i \in DOMAIN all}
  BY <1>7
<1>. HIDE DEF type
<1>15. Cardinality({all[i].type : i \in DOMAIN all}) = n
  BY <1>13, <1>14
<1>16. Complete(<<>>, all) = all
  BY <1>7, CompleteAlone
<1>17. Within(all, InBounds) = all
  <2>1. {i \in DOMAIN all : InBounds(all[i])} = DOMAIN all
    BY <1>7, <1>11
  <2>. QED
    BY <1>7, <2>1, SelectAll DEF Within
<1>18. ASSUME NEW k \in DOMAIN all, all[k].by = 0, NEW l \in DOMAIN kept
       PROVE  kept[l].type # all[k].type
  <2>1. PICK i \in new : all[k] = required[i]
    BY <1>5, <1>18 DEF Attributed
  <2>2. Kind(kept[l]) # Kind(required[i])
    BY <1>6
  <2>3. kept[l] \in Moves(Words) /\ required[i] \in Moves(Words)
    BY <1>6, <1>8
  <2>4. Kind(kept[l]) = <<kept[l].type>> /\ Kind(required[i]) = <<required[i].type>>
    BY <2>3, KindOfMove
  <2>. QED
    BY <2>1, <2>2, <2>4
<1>. QED
  BY <1>5, <1>7, <1>9, <1>10, <1>11, <1>15, <1>16, <1>17, <1>18
  DEF Attributed, AllActions, all, kept, required, n

(* The fields of the result r for q that come of the proposal p.           *)
ResultOf(r, q, p, keptMessages, keptActions) ==
  /\ r.messages = Complete(keptMessages, RequiredMessages(q))
  /\ r.actions = Complete(keptActions, RequiredActions(q))
  /\ r.memory = UpdatedMemory(p) /\ r.proposal = p
  /\ r.kept = Len(keptMessages) + Len(keptActions)
  /\ r.added = Len(r.messages) + Len(r.actions) - r.kept
  /\ r.useful_step =
       (/\ ~ Violates(q, r.messages, r.actions)
        /\ Within(r.actions, InBounds) = r.actions
        /\ Complete(<<>>, r.messages) = r.messages
        /\ Complete(<<>>, r.actions) = r.actions
        /\ p.memory \cap SystemKeys = {})

LEMMA ResultFields ==
  ASSUME NEW q, NEW p, NEW text, NEW counts
  PROVE  ResultOf(ResultFromProposal(q, p, text, counts), q, p,
                  UsableMessages(q, Messages(q, p)), UsableActions(q, Actions(p)))
BY DEF ResultFromProposal, ResultOf

(* Every result made of a well-formed proposal keeps its request's policy. *)
LEMMA ResultObeys ==
  ASSUME NEW Words, WordsOK(Words), NEW q, RequestOK(q, Words),
         NEW p, ProposalOK(p, Words), NEW text, NEW counts
  PROVE  ObeysPolicy(q, ResultFromProposal(q, p, text, counts))
<1>. DEFINE r == ResultFromProposal(q, p, text, counts)
            keptMessages == UsableMessages(q, Messages(q, p))
            keptActions == UsableActions(q, Actions(p))
            messages == RequiredMessages(q)
            actions == RequiredActions(q)
            toSelf == \E i \in DOMAIN messages : messages[i].to = q.agent
<1>1. ResultOf(r, q, p, keptMessages, keptActions)
  BY ResultFields
<1>2. AllMessages(Complete(keptMessages, messages), keptMessages, messages, q)
  BY MessagesCompleted
<1>3. AllActions(Complete(keptActions, actions), keptActions, actions, q)
  BY ActionsCompleted
<1>. HIDE DEF r, keptMessages, keptActions, messages, actions
<1>4. /\ AllMessages(r.messages, keptMessages, messages, q)
      /\ AllActions(r.actions, keptActions, actions, q)
  BY <1>1, <1>2, <1>3 DEF ResultOf, messages, actions
<1>5. \A i \in DOMAIN r.messages : ToOther(q, r.messages[i]) \/ toSelf
  BY <1>4 DEF AllMessages
<1>6. /\ Cardinality({<<r.messages[i].to, r.messages[i].type>> : i \in DOMAIN r.messages})
           = Len(r.messages)
      /\ Cardinality({r.actions[i].type : i \in DOMAIN r.actions}) = Len(r.actions)
  BY <1>4 DEF AllMessages, AllActions
<1>7. \A i \in DOMAIN r.actions : IsAllowed(q, r.actions[i]) /\ InBounds(r.actions[i])
  BY <1>4 DEF AllActions
<1>8. \A i \in DOMAIN messages :
        <<messages[i].to, messages[i].type>> \in
          {<<r.messages[k].to, r.messages[k].type>> : k \in DOMAIN r.messages}
  BY <1>4 DEF AllMessages
<1>9. \A i \in DOMAIN actions :
        actions[i].type \in {r.actions[k].type : k \in DOMAIN r.actions}
  BY <1>4 DEF AllActions
<1>10. r.memory \cap SystemKeys = {}
  BY <1>1 DEF UpdatedMemory, ResultOf
<1>11. r.kept = Cardinality({i \in DOMAIN r.messages : r.messages[i].by # 0})
                  + Cardinality({i \in DOMAIN r.actions : r.actions[i].by # 0})
  BY <1>1, <1>4 DEF ResultOf, AllMessages, AllActions
<1>12. r.kept + r.added = Len(r.messages) + Len(r.actions)
  BY <1>1, <1>4 DEF ResultOf, AllMessages, AllActions
<1>13. Violates(q, r.messages, r.actions) <=> toSelf
  BY <1>4, <1>7 DEF AllMessages, Violates
<1>14. r.useful_step <=> ~ toSelf /\ r.proposal.memory \cap SystemKeys = {}
  BY <1>1, <1>4, <1>13 DEF ResultOf, AllMessages, AllActions
<1>. QED
  BY <1>5, <1>6, <1>7, <1>8, <1>9, <1>10, <1>11, <1>12, <1>14 DEF ObeysPolicy, messages, actions, r

(* In every result the model's own answer stands.                          *)
LEMMA OwnStands ==
  ASSUME NEW Words, WordsOK(Words), NEW q, RequestOK(q, Words),
         NEW p, ProposalOK(p, Words), NEW text, NEW counts
  PROVE  FillsGapsOnly(q, ResultFromProposal(q, p, text, counts))
<1>. DEFINE r == ResultFromProposal(q, p, text, counts)
            keptMessages == UsableMessages(q, Messages(q, p))
            keptActions == UsableActions(q, Actions(p))
            messages == RequiredMessages(q)
            actions == RequiredActions(q)
            ownMessages == {i \in DOMAIN p.messages : ToOther(q, p.messages[i])}
            ownActions == {i \in DOMAIN p.actions :
                             LET a == p.actions[i] IN IsAllowed(q, a) /\ InBounds(a)}
<1>1. ResultOf(r, q, p, keptMessages, keptActions)
  BY ResultFields
<1>2. AllMessages(Complete(keptMessages, messages), keptMessages, messages, q)
  BY MessagesCompleted
<1>3. AllActions(Complete(keptActions, actions), keptActions, actions, q)
  BY ActionsCompleted
<1>4. KeptMessages(keptMessages, q, p, Words) /\ KeptActions(keptActions, q, p, Words)
  BY MessagesKept, ActionsKept
<1>. HIDE DEF r, keptMessages, keptActions, messages, actions
<1>5. /\ \A k \in DOMAIN keptMessages :
           k \in DOMAIN r.messages /\ r.messages[k] = keptMessages[k]
      /\ \A k \in DOMAIN keptActions :
           k \in DOMAIN r.actions /\ r.actions[k] = keptActions[k]
      /\ \A k \in DOMAIN r.actions : r.actions[k].by = 0 =>
           \A l \in DOMAIN keptActions : keptActions[l].type # r.actions[k].type
  <2>1. AllMessages(r.messages, keptMessages, messages, q)
    BY <1>1, <1>2 DEF ResultOf, messages
  <2>2. AllActions(r.actions, keptActions, actions, q)
    BY <1>1, <1>3 DEF ResultOf, actions
  <2>. QED
    BY <2>1, <2>2 DEF AllMessages, AllActions
<1>6. \A i \in ownActions :
        (\A j \in ownActions : p.actions[j].type = p.actions[i].type => i <= j)
          => \E k \in DOMAIN r.actions : r.actions[k].by = i
  <2>. SUFFICES ASSUME NEW i \in ownActions,
                       \A j \in ownActions : p.actions[j].type = p.actions[i].type => i <= j
                PROVE  \E k \in DOMAIN r.actions : r.actions[k].by = i
    OBVIOUS
  <2>1. PICK k \in DOMAIN keptActions : keptActions[k].by = i
    BY <1>4 DEF KeptActions
  <2>. QED
    BY <1>5, <2>1
<1>7. \A i \in ownMessages :
        (\A j \in ownMessages : Kind(p.messages[j]) = Kind(p.messages[i]) => i <= j)
          => \E k \in DOMAIN r.messages : r.messages[k].by = i
  <2>. SUFFICES ASSUME NEW i \in ownMessages,
                       \A j \in ownMessages : Kind(p.messages[j]) = Kind(p.messages[i]) => i <= j
                PROVE  \E k \in DOMAIN r.messages : r.messages[k].by = i
    OBVIOUS
  <2>1. PICK k \in DOMAIN keptMessages : keptMessages[k].by = i
    BY <1>4 DEF KeptMessages
  <2>. QED
    BY <1>5, <2>1
<1>8. \A k \in DOMAIN r.actions :
        r.actions[k].by = 0 => \A i \in ownActions : p.actions[i].type # r.actions[k].type
  <2>. SUFFICES ASSUME NEW k \in DOMAIN r.actions, r.actions[k].by = 0, NEW i \in ownActions
                PROVE  p.actions[i].type # r.actions[k].type
    OBVIOUS
  <2>1. PICK l \in DOMAIN keptActions : keptActions[l].type = p.actions[i].type
    BY <1>4 DEF KeptActions
  <2>. QED
    BY <1>5, <2>1
<1>. QED
  BY <1>1, <1>6, <1>7, <1>8 DEF ResultOf, FillsGapsOnly, r

(* An empty proposal leaves what the policy requires.                      *)
LEMMA NothingKept ==
  ASSUME NEW q
  PROVE  /\ UsableMessages(q, Messages(q, FallbackProposal)) = <<>>
         /\ UsableActions(q, Actions(FallbackProposal)) = <<>>
<1>1. DOMAIN <<>> = {}
  BY EmptySeq
<1>2. Messages(q, FallbackProposal) = <<>> /\ Actions(FallbackProposal) = <<>>
  BY <1>1 DEF Messages, Actions, FallbackProposal
<1>3. <<>> \in Seq({}) /\ OneOfEach(<<>>)
  BY <1>1, EmptySeq DEF OneOfEach
<1>4. ASSUME NEW Test(_) PROVE Complete(<<>>, Within(<<>>, Test)) = <<>>
  <2>1. {i \in DOMAIN <<>> : Test(<<>>[i])} = DOMAIN <<>>
    BY <1>1
  <2>2. Within(<<>>, Test) = <<>>
    BY <1>3, <2>1, SelectAll DEF Within
  <2>. QED
    BY <1>3, <2>2, CompleteAlone
<1>. QED
  BY <1>2, <1>4 DEF UsableMessages, UsableActions

(* A message of the rule as the policy would have it.                      *)
Required(m, q) ==
  [m EXCEPT !.origin = FALSE, !.prio = IF q.role \in Operators THEN q.prio ELSE @]

NoteFields == {"to", "type", "prio", "origin", "by"}

LEMMA RequiredMessage ==
  ASSUME NEW q, NEW to, NEW type, NEW prio
  PROVE  Required(Message(to, type, prio, TRUE, 0), q) =
           Message(to, type, IF q.role \in Operators THEN q.prio ELSE prio, FALSE, 0)
<1>. DEFINE m == Message(to, type, prio, TRUE, 0)
            n == Required(m, q)
            p == IF q.role \in Operators THEN q.prio ELSE prio
            k == Message(to, type, p, FALSE, 0)
<1>1. /\ m = [f \in NoteFields |-> m[f]]
      /\ m.to = to /\ m.type = type /\ m.prio = prio /\ m.by = 0
  BY DEF Message, NoteFields
<1>2. /\ k = [f \in NoteFields |-> k[f]]
      /\ k.to = to /\ k.type = type /\ k.prio = p /\ k.origin = FALSE /\ k.by = 0
  <2>. HIDE DEF p
  <2>. QED
    BY DEF Message, NoteFields
<1>. HIDE DEF m, k
<1>3. /\ n = [f \in NoteFields |-> n[f]]
      /\ n.to = m.to /\ n.type = m.type /\ n.origin = FALSE /\ n.by = m.by
  BY <1>1 DEF Required, NoteFields
<1>4. n.prio = p
  BY <1>1 DEF Required, NoteFields
<1>. HIDE DEF n, p
<1>5. n = k
  BY <1>1, <1>2, <1>3, <1>4 DEF NoteFields
<1>. QED
  BY <1>5 DEF n, m, k, p

LEMMA RequiredUpdate ==
  ASSUME NEW q, NEW to, NEW prio
  PROVE  Required(StatusUpdate(to, prio, TRUE), q) =
           StatusUpdate(to, IF q.role \in Operators THEN q.prio ELSE prio, FALSE)
<1>1. Required(Message(to, "status_update", prio, TRUE, 0), q) =
        Message(to, "status_update", IF q.role \in Operators THEN q.prio ELSE prio, FALSE, 0)
  BY RequiredMessage, Zenon
<1>. QED
  BY <1>1, Zenon DEF StatusUpdate

LEMMA RequiredRequest ==
  ASSUME NEW q, NEW to, NEW prio, q.role \notin Operators
  PROVE  Required(StatusRequest(to, prio, TRUE), q) = StatusRequest(to, prio, FALSE)
<1>1. Required(Message(to, "status_request", prio, TRUE, 0), q) =
        Message(to, "status_request", IF q.role \in Operators THEN q.prio ELSE prio, FALSE, 0)
  BY RequiredMessage, Zenon
<1>2. (IF q.role \in Operators THEN q.prio ELSE prio) = prio
  OBVIOUS
<1>3. Required(Message(to, "status_request", prio, TRUE, 0), q) =
        Message(to, "status_request", prio, FALSE, 0)
  BY <1>1, <1>2, Zenon
<1>. QED
  BY <1>3, Zenon DEF StatusRequest

(* What the policy requires is what the rule does, but for the origin and  *)
(* the operators' priorities.                                              *)
LEMMA RuleIsRequired ==
  ASSUME NEW Words, WordsOK(Words), NEW q, RequestOK(q, Words)
  PROVE  LET rule == RuleMessages(q)
         IN  /\ RequiredMessages(q) = [i \in DOMAIN rule |-> Required(rule[i], q)]
             /\ RequiredActions(q) = RuleActions(q)
<1>. DEFINE rule == RuleMessages(q)
            Like == RequiredMessages(q) = [i \in DOMAIN rule |-> Required(rule[i], q)]
<1>4. ASSUME NEW to, NEW prio, prio = q.prio \/ q.role \in Operators,
             rule = <<StatusUpdate(to, prio, TRUE)>>,
             RequiredMessages(q) = <<StatusUpdate(to, q.prio, FALSE)>>
      PROVE  Like
  <2>1. Required(StatusUpdate(to, prio, TRUE), q) = StatusUpdate(to, q.prio, FALSE)
    <3>1. (IF q.role \in Operators THEN q.prio ELSE prio) = q.prio
      BY <1>4
    <3>. QED
      BY <3>1, RequiredUpdate, Zenon
  <2>. DEFINE x == StatusUpdate(to, prio, TRUE)
              y == StatusUpdate(to, q.prio, FALSE)
  <2>4. rule = <<x>> /\ Required(x, q) = y /\ RequiredMessages(q) = <<y>>
    BY <1>4, <2>1
  <2>. HIDE DEF rule, x, y
  <2>2. DOMAIN rule = {1} /\ rule[1] = x
    BY <2>4
  <2>3. [i \in DOMAIN rule |-> Required(rule[i], q)] = <<y>>
    BY <2>2, <2>4
  <2>. QED
    BY <2>3, <2>4 DEF rule
<1>1. CASE q.role = "coordinator"
  <2>1. Like
    <3>1. RequiredMessages(q) =
            [i \in DOMAIN q.operators |-> StatusRequest(q.operators[i], q.prio, FALSE)]
      BY <1>1, SMTT(30) DEF RequiredMessages, Operators, Suppliers
    <3>2. rule = [i \in DOMAIN q.operators |-> StatusRequest(q.operators[i], q.prio, TRUE)]
      BY <1>1, SMTT(30) DEF RuleMessages, Operators
    <3>3. \A i \in DOMAIN q.operators :
            Required(StatusRequest(q.operators[i], q.prio, TRUE), q) =
              StatusRequest(q.operators[i], q.prio, FALSE)
      <4>1. q.role \notin Operators
        BY <1>1 DEF Operators
      <4>. QED
        BY <4>1, RequiredRequest, Zenon
    <3>. HIDE DEF rule
    <3>. QED
      BY <3>1, <3>2, <3>3
  <2>2. RequiredActions(q) = RuleActions(q)
    BY <1>1 DEF RequiredActions, RuleActions, Suppliers, DefaultAction
  <2>. QED
    BY <2>1, <2>2
<1>2. CASE q.role = "forecaster"
  <2>1. RequiredMessages(q) = <<>> /\ rule = <<>>
    BY <1>2 DEF RequiredMessages, RuleMessages, Operators, Suppliers
  <2>2. RequiredActions(q) = RuleActions(q)
    BY <1>2 DEF RequiredActions, RuleActions, Suppliers, DefaultAction
  <2>. HIDE DEF rule
  <2>3. Like
    BY <2>1
  <2>. QED
    BY <2>2, <2>3 DEF rule
<1>3. CASE q.role \in Operators \cup Suppliers
  <2>1. Like
    <3>1. ReportsTo(q) = RuleRecipient(q)
      BY DEF ReportsTo, RuleRecipient
    <3>2. RequiredMessages(q) = <<StatusUpdate(RuleRecipient(q), q.prio, FALSE)>>
      BY <1>3, <3>1 DEF RequiredMessages, Operators, Suppliers
    <3>3. rule = <<StatusUpdate(RuleRecipient(q),
                     IF q.role \in Operators THEN q.severity ELSE q.prio, TRUE)>>
      BY <1>3 DEF RuleMessages, Operators, Suppliers
    <3>. HIDE DEF rule
    <3>. QED
      BY <1>4, <3>2, <3>3
  <2>2. CASE q.role \in Operators
    <3>1. RequiredActions(q) = <<>> /\ RuleActions(q) = <<>>
      BY <2>2 DEF RequiredActions, RuleActions, Operators, Suppliers
    <3>. QED
      BY <2>1, <3>1
  <2>3. CASE q.role \in Suppliers
    <3>1. q.scenario = "supply_chain" /\ q.strained \in BOOLEAN
      BY <2>3 DEF RequestOK, Operators, Suppliers
    <3>2. CASE q.role = "supplier"
      <4>1. Allowed(q) = <<"adjust_inventory">>
        BY <3>1, <3>2 DEF Allowed, AllowedEnvironmentActions, Operators
      <4>2. RequiredActions(q) =
              IF q.strained THEN <<ActionOf("adjust_inventory", q.region, 15)>> ELSE <<>>
        BY <3>2, <4>1 DEF RequiredActions, Suppliers, DefaultAction
      <4>3. RuleActions(q) =
              IF q.strained THEN <<ActionOf("adjust_inventory", q.region, 15)>> ELSE <<>>
        BY <3>2 DEF RuleActions
      <4>. QED
        BY <2>1, <4>2, <4>3
    <3>3. CASE q.role = "warehouse"
      <4>1. Allowed(q) = <<"update_summary">>
        BY <3>1, <3>3 DEF Allowed, AllowedEnvironmentActions, Operators
      <4>2. RequiredActions(q) =
              IF q.strained THEN <<ActionOf("update_summary", None, None)>> ELSE <<>>
        BY <3>3, <4>1 DEF RequiredActions, Suppliers, DefaultAction
      <4>3. RuleActions(q) =
              IF q.strained THEN <<ActionOf("update_summary", None, None)>> ELSE <<>>
        BY <3>3 DEF RuleActions
      <4>. QED
        BY <2>1, <4>2, <4>3
    <3>4. CASE q.role = "transport"
      <4>1. Allowed(q) = <<"adjust_transport_capacity">>
        BY <3>1, <3>4 DEF Allowed, AllowedEnvironmentActions, Operators
      <4>2. RequiredActions(q) =
              IF q.strained THEN <<ActionOf("adjust_transport_capacity", None, 5)>> ELSE <<>>
        BY <3>4, <4>1 DEF RequiredActions, Suppliers, DefaultAction
      <4>3. RuleActions(q) =
              IF q.strained THEN <<ActionOf("adjust_transport_capacity", None, 5)>> ELSE <<>>
        BY <3>4 DEF RuleActions
      <4>. QED
        BY <2>1, <4>2, <4>3
    <3>5. CASE q.role = "retailer"
      <4>1. Allowed(q) = <<>>
        BY <3>1, <3>5 DEF Allowed, AllowedEnvironmentActions, Operators
      <4>2. RequiredActions(q) = <<>>
        BY <3>5, <4>1 DEF RequiredActions, Suppliers, DefaultAction
      <4>3. RuleActions(q) = <<>>
        BY <3>5 DEF RuleActions
      <4>. QED
        BY <2>1, <4>2, <4>3
    <3>. QED
      BY <2>3, <3>2, <3>3, <3>4, <3>5 DEF Suppliers
  <2>. QED
    BY <1>3, <2>1, <2>2, <2>3
<1>. QED
  BY <1>1, <1>2, <1>3 DEF RequestOK

LEMMA FallsBack ==
  ASSUME NEW Words, WordsOK(Words), NEW q, RequestOK(q, Words)
  PROVE  FallsBackLikeRule(q)
<1>. DEFINE counts == [retry_count |-> 0, json_repair_attempts |-> 0]
            r == ResultFromProposal(q, FallbackProposal, <<>>, counts)
            rule == RuleMessages(q)
<1>1. ResultOf(r, q, FallbackProposal, <<>>, <<>>)
  <2>1. ResultOf(r, q, FallbackProposal, UsableMessages(q, Messages(q, FallbackProposal)),
                 UsableActions(q, Actions(FallbackProposal)))
    BY ResultFields
  <2>. QED
    BY <2>1, NothingKept
<1>2. Complete(<<>>, RequiredMessages(q)) = RequiredMessages(q)
  BY MessagesRequired, CompleteAlone
<1>3. Complete(<<>>, RequiredActions(q)) = RequiredActions(q)
  BY ActionsRequired, CompleteAlone
<1>4. r.messages = RequiredMessages(q) /\ r.actions = RequiredActions(q)
  BY <1>1, <1>2, <1>3 DEF ResultOf
<1>5. /\ r.messages = [i \in DOMAIN rule |-> Required(rule[i], q)]
      /\ r.actions = RuleActions(q)
  BY <1>4, RuleIsRequired
<1>. HIDE DEF r, rule
<1>6. [i \in DOMAIN rule |-> Required(rule[i], q)] =
        [i \in DOMAIN rule |->
           [rule[i] EXCEPT !.origin = FALSE,
                           !.prio = IF q.role \in Operators THEN q.prio ELSE @]]
  BY DEF Required
<1>. QED
  BY <1>5, <1>6 DEF FallsBackLikeRule, r, rule

-----------------------------------------------------------------------------
(* Answers: a text is a sequence of candidates, and what of it parses and  *)
(* is not malformed is a proposal.                                         *)
AnswerOK(response, Words) ==
  response.choice = "text" =>
    /\ Len(response.text) \in Nat /\ DOMAIN response.text = 1 .. Len(response.text)
    /\ \A i \in DOMAIN response.text :
         LET c == response.text[i]
         IN c.closes /\ c.parses /\ ~ c.proposal.malformed => ProposalOK(c.proposal, Words)

(* The batches are of well-formed requests, and what the models say to     *)
(* them is well-formed where it has to be.                                 *)
WellFormed(Q, Words) ==
  /\ WordsOK(Words)
  /\ \A q \in Q : RequestOK(q, Words)
  /\ \A model, q : q \in Q => \A response \in Responses(model, q) : AnswerOK(response, Words)

LEMMA FallbackOK ==
  ASSUME NEW Words
  PROVE  ProposalOK(FallbackProposal, Words)
BY EmptySeq DEF ProposalOK, FallbackProposal

(* Whatever is taken for the proposal in an answer is one.                 *)
LEMMA ParsedOK ==
  ASSUME NEW Words, NEW response, AnswerOK(response, Words),
         ~ JsonObject(Content(response)).malformed
  PROVE  ProposalOK(JsonObject(Content(response)), Words)
<1>. DEFINE text == Content(response)
            usable == {i \in DOMAIN text : i <= 5 /\ text[i].closes /\ text[i].parses}
<1>1. CASE usable = {}
  <2>1. JsonObject(text) = FallbackProposal
    BY <1>1 DEF JsonObject
  <2>. QED
    BY <2>1, FallbackOK
<1>2. CASE usable # {}
  <2>1. response.choice = "text" /\ text = response.text
    BY <1>2, EmptySeq DEF Content
  <2>2. Len(text) \in Nat /\ usable \in SUBSET (1 .. Len(text))
    BY <2>1 DEF AnswerOK
  <2>3. \E i \in usable : \A j \in usable : i <= j
    <3>. HIDE DEF usable
    <3>. QED
      BY <1>2, <2>2, FirstPosition
  <2>4. JsonObject(text) = text[CHOOSE i \in usable : \A j \in usable : i <= j].proposal
    BY <1>2 DEF JsonObject
  <2>5. PICK first \in usable : JsonObject(text) = text[first].proposal
    <3>. HIDE DEF usable
    <3>. QED
      BY <2>3, <2>4
  <2>. QED
    BY <2>1, <2>5 DEF AnswerOK
<1>. QED
  BY <1>1, <1>2

(* A result for q made of a proposal, whatever its text and the counts.    *)
MadeFor(q, r, Words) ==
  \E p, text, counts : ProposalOK(p, Words) /\ r = ResultFromProposal(q, p, text, counts)

(* Every result is the policy's work on a proposal.                        *)
ResultsInv(Q, Words) ==
  /\ batch \in Seq(Q)
  /\ \A i \in Results : MadeFor(batch[i], client[i].result, Words)

LEMMA ResultsInitially ==
  ASSUME NEW Q, NEW Words, ClientInit
  PROVE  ResultsInv(Q, Words)
<1>1. batch = <<>> /\ client = <<>>
  BY DEF ClientInit
<1>2. DOMAIN client = {}
  BY <1>1, EmptySeq
<1>. QED
  BY <1>1, <1>2, EmptySeq DEF ResultsInv, Results

LEMMA ResultsNewBatch ==
  ASSUME NEW Q, NEW Words, NEW requests \in Seq(Q), StartBatch(requests)
  PROVE  ResultsInv(Q, Words)'
<1>1. /\ batch' = requests
      /\ \A j \in DOMAIN client' : client'[j] = Waiting
  BY DEF StartBatch
<1>2. Results' = {}
  BY <1>1 DEF Results, Waiting
<1>. QED
  BY <1>1, <1>2 DEF ResultsInv

(* A step of one request that gives it no result.                          *)
LEMMA ResultsKept ==
  ASSUME NEW Q, NEW Words, ClientInv, ResultsInv(Q, Words), batch' = batch,
         NEW i \in DOMAIN client, NEW e, client' = [client EXCEPT ![i] = e],
         \/ e.phase # "done"
         \/ MadeFor(batch[i], e.result, Words)
  PROVE  ResultsInv(Q, Words)'
<1>1. /\ DOMAIN client' = DOMAIN client /\ client'[i] = e
      /\ \A j \in DOMAIN client : j # i => client'[j] = client[j]
  BY DEF ClientInv
<1>2. ASSUME NEW j \in Results'
      PROVE  MadeFor(batch'[j], client'[j].result, Words)
  <2>1. CASE j = i
    BY <1>1, <1>2, <2>1 DEF Results
  <2>2. CASE j # i
    <3>1. j \in Results /\ client'[j] = client[j]
      BY <1>1, <1>2, <2>2 DEF Results
    <3>. QED
      BY <3>1 DEF ResultsInv
  <2>. QED
    BY <2>1, <2>2
<1>. QED
  BY <1>2 DEF ResultsInv

LEMMA ResultsStep ==
  ASSUME NEW Q, NEW Words, WellFormed(Q, Words),
         ClientInv, ResultsInv(Q, Words), NEW i \in DOMAIN client, RunOne(i)
  PROVE  ResultsInv(Q, Words)'
<1>1. /\ Counted(client[i], backend.max_retries, backend.max_json_repair_attempts)
      /\ client[i] = [f \in Fields |-> client[i][f]]
      /\ batch[i] \in Q
  <2>1. /\ Counted(client[i], backend.max_retries, backend.max_json_repair_attempts)
        /\ i \in 1 .. Len(batch)
    BY DEF ClientInv
  <2>2. batch[i] \in Q
    BY <2>1, ElementOfSeq DEF ResultsInv
  <2>. QED
    BY <2>1, <2>2 DEF Counted
<1>2. DOMAIN client[i] = Fields
  BY <1>1
<1>3. CASE Start(i)
  <2>. DEFINE e == [client[i] EXCEPT !.phase = "sending"]
  <2>1. client' = [client EXCEPT ![i] = e] /\ batch' = batch
    BY <1>3 DEF Start
  <2>2. e.phase # "done"
    BY <1>2 DEF Fields
  <2>. HIDE DEF e
  <2>. QED
    BY <2>1, <2>2, ResultsKept
<1>4. CASE Cancel(i)
  <2>. DEFINE e == [client[i] EXCEPT !.phase = "cancelled"]
  <2>1. client' = [client EXCEPT ![i] = e] /\ batch' = batch
    BY <1>4 DEF Cancel
  <2>2. e.phase # "done"
    BY <1>2 DEF Fields
  <2>. HIDE DEF e
  <2>. QED
    BY <2>1, <2>2, ResultsKept
<1>5. CASE TransportRaises(i)
  <2>. DEFINE e == Raised(client[i])
  <2>1. client' = [client EXCEPT ![i] = e] /\ batch' = batch /\ client[i].phase = "sending"
    BY <1>5 DEF TransportRaises
  <2>2. e.phase \in {"sending", "raised"}
    BY <1>1, <2>1, RaiseCounts DEF ClientInv, BackendOK
  <2>. HIDE DEF e
  <2>3. e.phase # "done"
    BY <2>2
  <2>. QED
    BY <2>1, <2>3, ResultsKept
<1>6. CASE TransportReturns(i)
  <2>1. /\ client[i].phase = "sending" /\ batch' = batch
        /\ \E response \in Responses(backend.model_name, batch[i]) :
             Repair(i, response) \/ AnswerRaises(i, response) \/ Finish(i, response)
    BY <1>6 DEF TransportReturns
  <2>2. PICK response \in Responses(backend.model_name, batch[i]) :
          Repair(i, response) \/ AnswerRaises(i, response) \/ Finish(i, response)
    BY <2>1
  <2>. DEFINE d == Received(client[i])
  <2>3. d = [f \in Fields |-> d[f]] /\ d.phase = "sending"
    BY <1>1, <2>1, ReceivedFields
  <2>4. DOMAIN d = Fields
    BY <2>3
  <2>5. CASE Repair(i, response)
    <3>. DEFINE e == [d EXCEPT !.repairs = @ + 1]
    <3>1. client' = [client EXCEPT ![i] = e]
      BY <2>5 DEF Repair
    <3>2. e.phase # "done"
      <4>. HIDE DEF d
      <4>. QED
        BY <2>3, <2>4 DEF Fields
    <3>. HIDE DEF e
    <3>. QED
      BY <2>1, <3>1, <3>2, ResultsKept
  <2>6. CASE AnswerRaises(i, response)
    <3>. DEFINE e == [d EXCEPT !.phase = "raised"]
    <3>1. client' = [client EXCEPT ![i] = e]
      BY <2>6 DEF AnswerRaises
    <3>2. e.phase # "done"
      <4>. HIDE DEF d
      <4>. QED
        BY <2>4 DEF Fields
    <3>. HIDE DEF e
    <3>. QED
      BY <2>1, <3>1, <3>2, ResultsKept
  <2>7. CASE Finish(i, response)
    <3>. DEFINE p == JsonObject(Content(response))
                text == Content(response)
                r == ResultFromProposal(batch[i], p, text, Counts(d))
                e == [d EXCEPT !.phase = "done", !.result = r]
    <3>1. client' = [client EXCEPT ![i] = e] /\ ~ p.malformed
      BY <2>7 DEF Finish
    <3>2. ProposalOK(p, Words)
      BY <1>1, <3>1, ParsedOK DEF WellFormed
    <3>. HIDE DEF p, text
    <3>3. e.result = r
      <4>. HIDE DEF d, r
      <4>. QED
        BY <2>4 DEF Fields
    <3>4. MadeFor(batch[i], e.result, Words)
      BY <3>2, <3>3 DEF MadeFor
    <3>. HIDE DEF e
    <3>. QED
      BY <2>1, <3>1, <3>4, ResultsKept
  <2>. QED
    BY <2>2, <2>5, <2>6, <2>7
<1>. QED
  BY <1>3, <1>4, <1>5, <1>6 DEF RunOne

LEMMA ResultsInvariant ==
  ASSUME NEW CONSTANT Q, NEW CONSTANT Words, WellFormed(Q, Words)
  PROVE  ClientSpec(Q) => [](ClientInv /\ ResultsInv(Q, Words))
<1>. DEFINE Inv == ClientInv /\ ResultsInv(Q, Words)
<1>1. ClientInit => Inv
  BY ClientInitially, ResultsInitially
<1>2. Inv /\ [ClientNext(Q)]_clientVars => Inv'
  <2>. SUFFICES ASSUME Inv, [ClientNext(Q)]_clientVars PROVE Inv'
    OBVIOUS
  <2>1. CASE \E requests \in Seq(Q) : StartBatch(requests)
    BY <2>1, StartBatchStep, ResultsNewBatch
  <2>2. CASE \E i \in DOMAIN client : RunOne(i)
    BY <2>2, RunOneStep, ResultsStep
  <2>3. CASE UNCHANGED clientVars
    <3>1. backend' = backend /\ batch' = batch /\ client' = client
      BY <2>3 DEF clientVars
    <3>2. ClientInv'
      BY <3>1 DEF ClientInv, BackendOK, InPhase, Sequential
    <3>3. ResultsInv(Q, Words)'
      BY <3>1 DEF ResultsInv, Results
    <3>. QED
      BY <3>2, <3>3
  <2>. QED
    BY <2>1, <2>2, <2>3 DEF ClientNext
<1>. QED
  BY <1>1, <1>2, PTL DEF ClientSpec

LEMMA RequestOfBatch ==
  ASSUME NEW Q, NEW Words, WellFormed(Q, Words), ClientInv, ResultsInv(Q, Words),
         NEW i \in DOMAIN batch
  PROVE  RequestOK(batch[i], Words)
BY ElementOfSeq, LenProperties DEF ResultsInv, WellFormed

(* What leaves the client keeps the policy of its request, whatever the    *)
(* models answer: role_policy.py under _result_from_proposal.              *)
THEOREM ResultsObeyPolicy ==
  ASSUME NEW CONSTANT Q, NEW CONSTANT Words, WellFormed(Q, Words)
  PROVE  ClientSpec(Q) => []ResultObeysPolicy
<1>1. ClientInv /\ ResultsInv(Q, Words) => ResultObeysPolicy
  <2>. SUFFICES ASSUME ClientInv, ResultsInv(Q, Words), NEW n \in Results
                PROVE  ObeysPolicy(batch[n], client[n].result)
    BY DEF ResultObeysPolicy
  <2>1. MadeFor(batch[n], client[n].result, Words)
    BY DEF ResultsInv
  <2>2. n \in DOMAIN batch
    BY LenProperties DEF Results, ClientInv, ResultsInv
  <2>3. RequestOK(batch[n], Words)
    BY <2>2, RequestOfBatch
  <2>. QED
    BY <2>1, <2>3, ResultObeys DEF WellFormed, MadeFor
<1>. QED
  BY <1>1, ResultsInvariant, PTL

(* The policy completes an answer and never displaces what the model may   *)
(* do: in every result the model's own answer stands.                      *)
THEOREM OwnAnswersStand ==
  ASSUME NEW CONSTANT Q, NEW CONSTANT Words, WellFormed(Q, Words)
  PROVE  ClientSpec(Q) => []OwnAnswerStands
<1>1. ClientInv /\ ResultsInv(Q, Words) => OwnAnswerStands
  <2>. SUFFICES ASSUME ClientInv, ResultsInv(Q, Words), NEW n \in Results
                PROVE  FillsGapsOnly(batch[n], client[n].result)
    BY DEF OwnAnswerStands
  <2>1. MadeFor(batch[n], client[n].result, Words)
    BY DEF ResultsInv
  <2>2. n \in DOMAIN batch
    BY LenProperties DEF Results, ClientInv, ResultsInv
  <2>3. RequestOK(batch[n], Words)
    BY <2>2, RequestOfBatch
  <2>. QED
    BY <2>1, <2>3, OwnStands DEF WellFormed, MadeFor
<1>. QED
  BY <1>1, ResultsInvariant, PTL

(* An agent whose model says nothing usable asks and tells whom the rule   *)
(* backend of its scenario would, of the same type, and acts as it does,   *)
(* for every request; only the origins and the priorities of a storm's     *)
(* operators differ: role_policy.py against mock_backend.py and the        *)
(* supply-chain rule backend.                                              *)
THEOREM FallbacksAreLikeTheRule ==
  ASSUME NEW CONSTANT Q, NEW CONSTANT Words, WellFormed(Q, Words)
  PROVE  ClientSpec(Q) => []FallbackLikeRule
<1>1. ClientInv /\ ResultsInv(Q, Words) => FallbackLikeRule
  <2>. SUFFICES ASSUME ClientInv, ResultsInv(Q, Words), NEW n \in DOMAIN batch
                PROVE  FallsBackLikeRule(batch[n])
    BY DEF FallbackLikeRule
  <2>. QED
    BY RequestOfBatch, FallsBack DEF WellFormed
<1>. QED
  BY <1>1, ResultsInvariant, PTL

-----------------------------------------------------------------------------
(* A sequence, whatever its items are.                                     *)
IsSeq(s) == Len(s) \in Nat /\ s \in [1 .. Len(s) -> ToSet(s)]

(* The names of the scenarios, all of which are among the words.           *)
NamesOK(Words) ==
  /\ WordsOK(Words) /\ Operators \cup Suppliers \cup {"forecaster"} \subseteq Words
  /\ AgentCoordinator \notin Operators \cup Suppliers \cup {"forecaster", None}

(* What the scenarios are run with: the two scenarios' own agents under    *)
(* names of their own, and numbers where fixtures and options have them.   *)
SetupsOK(Words) ==
  /\ NamesOK(Words) /\ Regions \in Seq(Words)
  /\ \A s \in Setups :
       /\ s.scenario \in {"storm", "supply_chain"}
       /\ \A key \in {"severity", "delayed"} \cap DOMAIN s.fixture.initial :
            s.fixture.initial[key] \in Int
       /\ IsSeq(s.fixture.ticks)
       /\ \A i \in DOMAIN s.fixture.ticks :
            \A key \in {"severity", "delayed_shipments"} \cap DOMAIN s.fixture.ticks[i] :
              s.fixture.ticks[i][key] \in Int
       /\ s.backend \in [name : STRING, model_name : STRING, max_concurrency : Int,
                         max_retries : Int, max_json_repair_attempts : Int]

(* And what the models may answer them: anything, that is of the type it   *)
(* must have or is not understood.                                         *)
AnswersOK(Words) ==
  \A model, q : RequestOK(q, Words) /\ q.agent \in Words =>
    \A response \in Responses(model, q) : AnswerOK(response, Words)

ScenarioSettings(Words) == SetupsOK(Words) /\ AnswersOK(Words)

(* Requests, answers and events, by the steps of the round before theirs.  *)
AnswersTheRound(q, W) ==
  /\ RequestOK(q, W) /\ q.agent \in W
  /\ q.agent = Agent(q.role) /\ q.scenario = setup.scenario
  /\ round.hops = 0 =>
       /\ q.coordinator = AgentCoordinator
       /\ round.alarm /\ q.scenario = "supply_chain" => q.strained
  /\ round.hops = 1 /\ ~ round.unprompted =>
       /\ q.operators = <<>> /\ q.coordinator = None
       /\ q.role # "coordinator" => q.sender = AgentCoordinator
  /\ round.hops >= 2 /\ ~ round.unprompted =>
       q.operators = <<>> /\ q.role = "coordinator"

(* An answer that reports to the coordinator; one that does more than keep *)
(* its summary up to date.                                                 *)
ReportsBack(a) ==
  \E k \in DOMAIN a.messages : Kind(a.messages[k]) = <<AgentCoordinator, "status_update">>
Intervenes(a) == \E k \in DOMAIN a.actions : a.actions[k].type # "update_summary"

(* What an answer may still cause, by the steps of the round before it:    *)
(* notices make the agents but the coordinator report to it and nobody     *)
(* else, requests make whoever is asked report, and after a report nobody  *)
(* says anything.                                                          *)
AnswerInRound(a, W) ==
  /\ a.agent \in W
  /\ IsSeq(a.messages) /\ IsSeq(a.actions) /\ IsSeq(a.events)
  /\ \A i \in DOMAIN a.messages : a.messages[i].prio \in Int
  /\ \A i \in DOMAIN a.events :
       a.events[i].prio \in Int /\ a.events[i].coordinator \in W
  /\ a.unprompted \in BOOLEAN
  /\ ~ a.unprompted =>
       /\ a.events = <<>>
       /\ round.hops = 0 =>
            \A i \in DOMAIN a.messages :
              a.agent = AgentCoordinator \/ a.messages[i].to = AgentCoordinator
       /\ round.hops = 1 /\ ~ round.unprompted =>
            \A i \in DOMAIN a.messages : a.messages[i].to = AgentCoordinator
       /\ round.hops >= 2 /\ ~ round.unprompted => a.messages = <<>>

(* The events between two steps: after the notices they go to or come from *)
(* the coordinator, after the requests they go to it.                      *)
EventInRound(e, W) ==
  /\ e.prio \in Int /\ e.operators = <<>> /\ e.coordinator \in W /\ e.sender \in W
  /\ ~ round.unprompted =>
       /\ e.coordinator = None /\ e.to # {}
       /\ round.hops = 1 => e.sender = AgentCoordinator \/ e.to = {AgentCoordinator}
       /\ round.hops = 2 => e.to = {AgentCoordinator}
       /\ round.hops <= 2

(* Who has done, or is still going to do, what a round is for.             *)
Alarmed == round.alarm /\ setup.scenario = "supply_chain"
Responders == {"supplier", "transport"}

(* The answer that is asked of an operator has been given, or its request  *)
(* is still to be run.                                                     *)
HasAnswered(o) ==
  \E i \in DOMAIN answers :
    /\ answers[i].agent = o /\ ReportsBack(answers[i])
    /\ Alarmed /\ o \in Responders => Intervenes(answers[i])

WillAnswer(o) ==
  \/ \E i \in DOMAIN batch : batch[i].agent = o
  \/ \E k \in DOMAIN todo : \E i \in DOMAIN todo[k] : todo[k][i].agent = o

(* The client counts, asks only what belongs to the round, and every       *)
(* result is made of some well-formed proposal.                            *)
ClientInRound(W) ==
  /\ ClientInv /\ IsSeq(batch)
  /\ \A i \in DOMAIN batch : AnswersTheRound(batch[i], W)
  /\ \A i \in Results : MadeFor(batch[i], client[i].result, W)
  /\ InPhase("cancelled") # {} => InPhase("raised") # {}

(* What holds of a round wherever the step is: unprompted it has three     *)
(* steps, and the first commits record every operator's report.            *)
RoundInv(W) ==
  /\ setup \in Setups /\ phase \in {"ready", "running", "raised"}
  /\ round.hops \in Nat /\ round.unprompted \in BOOLEAN
  /\ round = [f \in {"hops", "unprompted", "alarm", "reported", "acted"} |-> round[f]]
  /\ ~ round.unprompted => round.hops <= 3
  /\ round.hops = 0 => ~ round.unprompted
  /\ round.hops >= 1 =>
       /\ ToSet(OperatorIds) \subseteq round.reported
       /\ Alarmed => Responders \subseteq round.acted

(* Where the step is: what is left of its requests, what has been answered *)
(* and what is emitted belong to the round, and until the notices of a     *)
(* tick are committed every operator has answered or will.                 *)
StepInv(W) ==
  /\ IsSeq(events) /\ IsSeq(todo) /\ IsSeq(answers)
  /\ \A k \in DOMAIN todo :
       IsSeq(todo[k]) /\ \A i \in DOMAIN todo[k] : AnswersTheRound(todo[k][i], W)
  /\ phase # "raised" => \A i \in DOMAIN answers : AnswerInRound(answers[i], W)
  /\ phase = "ready" =>
       /\ batch = <<>> /\ todo = <<>> /\ answers = <<>>
       /\ \A i \in DOMAIN events : EventInRound(events[i], W)
       /\ round.hops = 0 => events = <<>> /\ environment.tick = 0
  /\ phase = "running" =>
       /\ events = <<>>
       /\ ~ round.unprompted => round.hops <= 2
       /\ round.hops = 0 => \A o \in ToSet(OperatorIds) : HasAnswered(o) \/ WillAnswer(o)

(* The environment counts its ticks, a storm has a severity, and of a      *)
(* supply chain it is known how many shipments are delayed.                *)
EnvironmentOK(e) ==
  /\ "tick" \in DOMAIN e /\ e.tick \in Nat
  /\ setup.scenario = "storm" => "severity" \in DOMAIN e /\ e.severity \in Int
  /\ setup.scenario = "supply_chain" => "delayed" \in DOMAIN e /\ e.delayed \in Int

ScenarioInv(W) == EnvironmentOK(environment) /\ ClientInRound(W) /\ RoundInv(W) /\ StepInv(W)

(* Sequences of anything.                                                  *)
LEMMA SeqFacts ==
  ASSUME NEW s, IsSeq(s)
  PROVE  s \in Seq(ToSet(s)) /\ Len(s) \in Nat /\ DOMAIN s = 1 .. Len(s)
BY DEF IsSeq

(* A function on 1 .. n is a sequence of n items.                          *)
LEMMA SeqMade ==
  ASSUME NEW n \in Nat, NEW s, s = [i \in 1 .. n |-> s[i]]
  PROVE  IsSeq(s) /\ Len(s) = n /\ DOMAIN s = 1 .. n
<1>1. s \in [1 .. n -> ToSet(s)]
  BY DEF ToSet
<1>2. s \in Seq(ToSet(s))
  BY <1>1
<1>3. DOMAIN s = 1 .. Len(s) /\ Len(s) \in Nat
  BY <1>2, LenProperties
<1>4. DOMAIN s = 1 .. n
  BY <1>1
<1>5. Len(s) = n
  BY <1>1, <1>3, <1>4
<1> QED
  BY <1>1, <1>4, <1>5 DEF IsSeq

(* What is in Seq(S) is a sequence.                                        *)
LEMMA TypedSeq ==
  ASSUME NEW S, NEW s \in Seq(S)
  PROVE  IsSeq(s)
<1>1. Len(s) \in Nat /\ s = [i \in 1 .. Len(s) |-> s[i]]
  BY LenProperties
<1> QED
  BY <1>1, SeqMade

LEMMA EmptyIsSeq == IsSeq(<<>>) /\ DOMAIN <<>> = {} /\ Len(<<>>) = 0
<1> DEFINE e == <<>>
<1>1. e = [i \in 1 .. 0 |-> e[i]] /\ 1 .. 0 = {}
  OBVIOUS
<1> HIDE DEF e
<1>2. IsSeq(e) /\ Len(e) = 0 /\ DOMAIN e = 1 .. 0
  BY <1>1, SeqMade
<1> QED
  BY <1>1, <1>2 DEF e

(* A sequence without items is the empty one.                              *)
LEMMA NoItems == ASSUME NEW s, IsSeq(s), DOMAIN s = {} PROVE s = <<>>
BY SeqFacts, EmptySeq

(* The items of a tail are those after the first.                          *)
LEMMA SeqTail ==
  ASSUME NEW s, IsSeq(s), s # <<>>
  PROVE  /\ IsSeq(Tail(s)) /\ 1 \in DOMAIN s /\ Head(s) = s[1]
         /\ \A i \in DOMAIN Tail(s) : i + 1 \in DOMAIN s /\ Tail(s)[i] = s[i + 1]
         /\ \A i \in DOMAIN s : i # 1 => i - 1 \in DOMAIN Tail(s) /\ Tail(s)[i - 1] = s[i]
<1> DEFINE n == Len(s)
           t == Tail(s)
<1>1. s \in Seq(ToSet(s)) /\ n \in Nat /\ DOMAIN s = 1 .. n
  BY SeqFacts
<1>2. n # 0
  BY <1>1, EmptySeq
<1>3. t \in Seq(ToSet(s)) /\ Len(t) = n - 1 /\ \A i \in 1 .. n - 1 : t[i] = s[i + 1]
  BY <1>1, <1>2, HeadTailProperties
<1>4. DOMAIN t = 1 .. n - 1
  BY <1>3, LenProperties
<1>5. IsSeq(t)
  BY <1>3, TypedSeq
<1>6. Head(s) = s[1]
  BY <1>1, <1>2
<1> HIDE DEF t, n
<1>7. \A i \in 1 .. n - 1 : i + 1 \in 1 .. n
  BY <1>1, <1>2
<1>8. \A i \in 1 .. n : i # 1 => i - 1 \in 1 .. n - 1 /\ (i - 1) + 1 = i
  BY <1>1, <1>2
<1>9. 1 \in 1 .. n
  BY <1>1, <1>2
<1> QED
  BY <1>1, <1>3, <1>4, <1>5, <1>6, <1>7, <1>8, <1>9 DEF t

(* A sequence of the items of two sequences.                               *)
Joins(u, s, t) ==
  /\ IsSeq(u)
  /\ \A i \in DOMAIN u : (\E j \in DOMAIN s : u[i] = s[j]) \/ (\E j \in DOMAIN t : u[i] = t[j])
  /\ \A j \in DOMAIN s : \E i \in DOMAIN u : u[i] = s[j]
  /\ \A j \in DOMAIN t : \E i \in DOMAIN u : u[i] = t[j]

(* Concatenation joins.                                                    *)
LEMMA SeqJoined ==
  ASSUME NEW s, NEW t, IsSeq(s), IsSeq(t)
  PROVE  Joins(s \o t, s, t)
<1> DEFINE S == ToSet(s) \cup ToSet(t)
           u == s \o t
<1>1. s \in Seq(S) /\ t \in Seq(S)
  <2>1. \A T, w : IsSeq(w) /\ ToSet(w) \subseteq T => w \in Seq(T)
    <3> SUFFICES ASSUME NEW T, NEW w, IsSeq(w), ToSet(w) \subseteq T PROVE w \in Seq(T)
      OBVIOUS
    <3>1. Len(w) \in Nat /\ w \in [1 .. Len(w) -> T]
      BY DEF IsSeq
    <3> HIDE DEF S
    <3> QED
      BY <3>1
  <2> QED
    BY <2>1
<1>2. u \in Seq(S) /\ Len(u) = Len(s) + Len(t)
  BY <1>1, ConcatProperties
<1>3. \A i \in 1 .. Len(s) + Len(t) : u[i] = IF i <= Len(s) THEN s[i] ELSE t[i - Len(s)]
  BY <1>1, ConcatProperties
<1>4. Len(s) \in Nat /\ Len(t) \in Nat /\ DOMAIN s = 1 .. Len(s) /\ DOMAIN t = 1 .. Len(t)
  BY SeqFacts
<1>5. DOMAIN u = 1 .. Len(s) + Len(t) /\ IsSeq(u)
  BY <1>2, LenProperties, TypedSeq
<1> HIDE DEF u
<1>6. ASSUME NEW i \in DOMAIN u
      PROVE  \/ \E j \in DOMAIN s : u[i] = s[j]
             \/ \E j \in DOMAIN t : u[i] = t[j]
  <2>1. CASE i <= Len(s)
    BY <1>3, <1>4, <1>5, <2>1
  <2>2. CASE ~ (i <= Len(s))
    <3>1. i - Len(s) \in DOMAIN t
      BY <1>4, <1>5, <2>2
    <3> QED
      BY <1>3, <1>5, <2>2, <3>1
  <2> QED
    BY <2>1, <2>2
<1>7. ASSUME NEW j \in DOMAIN s PROVE \E i \in DOMAIN u : u[i] = s[j]
  <2>1. j \in DOMAIN u /\ j <= Len(s)
    BY <1>4, <1>5
  <2> QED
    BY <1>3, <1>5, <2>1
<1>8. ASSUME NEW j \in DOMAIN t PROVE \E i \in DOMAIN u : u[i] = t[j]
  <2> DEFINE i == j + Len(s)
  <2>1. i \in DOMAIN u /\ ~ (i <= Len(s)) /\ i - Len(s) = j
    BY <1>4, <1>5
  <2> HIDE DEF i
  <2> QED
    BY <1>3, <1>5, <2>1
<1> QED
  BY <1>5, <1>6, <1>7, <1>8 DEF u, Joins

(* What of numbers holds from 1 up to n.                                   *)
LEMMA UpFromOne ==
  ASSUME NEW n \in Nat, NEW T, 1 \in T, \A k \in 1 .. n : k \in T => k + 1 \in T
  PROVE  1 .. n \subseteq T
<1> DEFINE U == {k \in Nat : k + 1 \in 1 .. n => k + 1 \in T}
<1>1. 0 \in U
  OBVIOUS
<1>2. ASSUME NEW k \in Nat, k \in U PROVE k + 1 \in U
  BY <1>2
<1>3. Nat \subseteq U
  <2> HIDE DEF U
  <2> QED
    BY <1>1, <1>2, UpFromZero
<1>4. ASSUME NEW i \in 1 .. n PROVE i \in T
  <2>1. i - 1 \in Nat /\ (i - 1) + 1 = i
    OBVIOUS
  <2> QED
    BY <1>3, <2>1
<1> QED
  BY <1>4

(* Joined step by step, sequences yield a sequence of their items.         *)
IsJoin(f, ss, n) == f = [i \in 1 .. n |-> IF i = 1 THEN ss[i] ELSE f[i - 1] \o ss[i]]

(* FlattenSeq is defined by a function that is chosen: there is one.       *)
LEMMA JoinExists == ASSUME NEW ss, NEW n \in Nat, n # 0 PROVE \E f : IsJoin(f, ss, n)
<1> DEFINE T == {k \in Nat : \E f : IsJoin(f, ss, k)}
<1>1. 1 \in T
  <2> DEFINE f == [i \in 1 .. 1 |-> ss[i]]
  <2>1. f = [i \in 1 .. 1 |-> IF i = 1 THEN ss[i] ELSE f[i - 1] \o ss[i]]
    OBVIOUS
  <2> QED
    BY <2>1 DEF IsJoin
<1>2. ASSUME NEW k \in 1 .. n, k \in T PROVE k + 1 \in T
  <2>1. PICK f : IsJoin(f, ss, k)
    BY <1>2
  <2> DEFINE g == [i \in 1 .. k + 1 |-> IF i = k + 1 THEN f[k] \o ss[k + 1] ELSE f[i]]
  <2>2. ASSUME NEW i \in 1 .. k + 1 PROVE g[i] = IF i = 1 THEN ss[i] ELSE g[i - 1] \o ss[i]
    <3>1. CASE i = k + 1
      <4>1. i # 1 /\ i - 1 = k /\ k \in 1 .. k + 1 /\ k # k + 1
        BY <3>1
      <4>2. g[i - 1] = f[k]
        BY <4>1
      <4> QED
        BY <3>1, <4>1, <4>2
    <3>2. CASE i # k + 1
      <4>1. i \in 1 .. k
        BY <3>2
      <4>2. g[i] = f[i] /\ f[i] = IF i = 1 THEN ss[i] ELSE f[i - 1] \o ss[i]
        <5>1. g[i] = f[i]
          BY <3>2
        <5> HIDE DEF g
        <5> QED
          BY <2>1, <4>1, <5>1 DEF IsJoin
      <4>3. i # 1 => g[i - 1] = f[i - 1]
        BY <4>1
      <4> HIDE DEF g
      <4> QED
        BY <4>2, <4>3
    <3> QED
      BY <3>1, <3>2
  <2>3. IsJoin(g, ss, k + 1)
    <3>1. g = [i \in 1 .. k + 1 |-> g[i]]
      OBVIOUS
    <3> HIDE DEF g
    <3> QED
      BY <2>2, <3>1 DEF IsJoin
  <2> QED
    BY <2>3
<1>3. 1 .. n \subseteq T
  <2> HIDE DEF T
  <2> QED
    BY <1>1, <1>2, UpFromOne
<1> QED
  BY <1>3

(* A sequence of items of the sequences in ss.                             *)
ItemsOf(s, ss) ==
  IsSeq(s) /\ \A i \in DOMAIN s : \E k \in DOMAIN ss : \E j \in DOMAIN ss[k] : s[i] = ss[k][j]

(* One more of the sequences may be joined.                                *)
LEMMA ItemsJoined ==
  ASSUME NEW ss, NEW s, ItemsOf(s, ss), NEW t, IsSeq(t),
         NEW k \in DOMAIN ss, t = ss[k]
  PROVE  ItemsOf(s \o t, ss)
<1> DEFINE u == s \o t
<1>1. IsSeq(s)
  BY DEF ItemsOf
<1>2. Joins(u, s, t)
  BY <1>1, SeqJoined
<1> HIDE DEF u
<1>3. /\ IsSeq(u)
      /\ \A i \in DOMAIN u : (\E j \in DOMAIN s : u[i] = s[j]) \/ (\E j \in DOMAIN t : u[i] = t[j])
  BY <1>2 DEF Joins
<1>4. ASSUME NEW i \in DOMAIN u PROVE \E l \in DOMAIN ss : \E j \in DOMAIN ss[l] : u[i] = ss[l][j]
  <2>1. CASE \E j \in DOMAIN s : u[i] = s[j]
    BY <2>1 DEF ItemsOf
  <2>2. CASE \E j \in DOMAIN t : u[i] = t[j]
    BY <2>2
  <2> QED
    BY <1>3, <2>1, <2>2
<1> QED
  BY <1>3, <1>4 DEF ItemsOf, u

(* FlattenSeq yields a sequence of the items.                              *)
LEMMA Flattened ==
  ASSUME NEW ss, IsSeq(ss), \A k \in DOMAIN ss : IsSeq(ss[k])
  PROVE  ItemsOf(FlattenSeq(ss), ss)
<1> DEFINE n == Len(ss)
           f == CHOOSE g : IsJoin(g, ss, n)
           T == {k \in Nat : k \in 1 .. n => ItemsOf(f[k], ss)}
<1>1. n \in Nat /\ DOMAIN ss = 1 .. n
  BY SeqFacts
<1>2. CASE n = 0
  <2>1. ss = <<>> /\ FlattenSeq(ss) = ss
    BY <1>2, SeqFacts, EmptySeq DEF FlattenSeq
  <2> QED
    BY <2>1, EmptyIsSeq DEF ItemsOf
<1>3. CASE n # 0
  <2>1. FlattenSeq(ss) = f[n]
    BY <1>3 DEF FlattenSeq, IsJoin
  <2>2. IsJoin(f, ss, n)
    BY <1>1, <1>3, JoinExists
  <2> HIDE DEF f
  <2>3. ASSUME NEW i \in 1 .. n PROVE f[i] = IF i = 1 THEN ss[i] ELSE f[i - 1] \o ss[i]
    BY <2>2 DEF IsJoin
  <2> HIDE DEF n
  <2>4. 1 \in T
    <3>1. 1 \in 1 .. n
      BY <1>1, <1>3
    <3>2. f[1] = ss[1]
      BY <2>3, <3>1
    <3>3. ItemsOf(ss[1], ss)
      BY <1>1, <3>1 DEF ItemsOf
    <3> QED
      BY <3>2, <3>3
  <2>5. ASSUME NEW k \in 1 .. n, k \in T PROVE k + 1 \in T
    <3>1. SUFFICES ASSUME k + 1 \in 1 .. n PROVE ItemsOf(f[k + 1], ss)
      OBVIOUS
    <3>2. k + 1 # 1 /\ (k + 1) - 1 = k
      BY <1>1
    <3>3. f[k + 1] = f[k] \o ss[k + 1]
      BY <2>3, <3>1, <3>2
    <3>4. ItemsOf(f[k], ss)
      BY <1>1, <2>5
    <3>5. IsSeq(f[k]) /\ IsSeq(ss[k + 1]) /\ k + 1 \in DOMAIN ss
      BY <1>1, <3>1, <3>4 DEF ItemsOf
    <3> HIDE DEF T
    <3>6. ItemsOf(f[k] \o ss[k + 1], ss)
      BY <3>4, <3>5, ItemsJoined
    <3> QED
      BY <3>3, <3>6
  <2>6. 1 .. n \subseteq T
    <3> HIDE DEF T
    <3> QED
      BY <1>1, <2>4, <2>5, UpFromOne
  <2>7. n \in 1 .. n
    BY <1>1, <1>3
  <2> QED
    BY <2>1, <2>6, <2>7 DEF n
<1> QED
  BY <1>2, <1>3

-----------------------------------------------------------------------------
(* In a finite set that is strictly ordered by R, the numbers of earlier   *)
(* members are those below the size of the set, each that of one member.   *)
EarlierBy(R, S, p) == {q \in S : <<q, p>> \in R}

StrictlyOrders(R, S) ==
  /\ \A p \in S : <<p, p>> \notin R
  /\ \A p, q, r \in S : <<p, q>> \in R /\ <<q, r>> \in R => <<p, r>> \in R
  /\ \A p, q \in S : p # q => <<p, q>> \in R \/ <<q, p>> \in R

(* Ranks in a strict order are as many as the members, and tell them       *)
(* apart.                                                                  *)
LEMMA Ranked ==
  ASSUME NEW S, IsFiniteSet(S), NEW R, StrictlyOrders(R, S)
  PROVE  /\ Cardinality(S) \in Nat
         /\ \A k \in 1 .. Cardinality(S) : \E p \in S : Cardinality(EarlierBy(R, S, p)) = k - 1
         /\ \A p \in S : /\ Cardinality(EarlierBy(R, S, p)) \in Nat
                        /\ Cardinality(EarlierBy(R, S, p)) + 1 \in 1 .. Cardinality(S)
         /\ \A p, q \in S :
              Cardinality(EarlierBy(R, S, p)) = Cardinality(EarlierBy(R, S, q)) => p = q
<1> DEFINE n == Cardinality(S)
           rank == [p \in S |-> Cardinality(EarlierBy(R, S, p)) + 1]
<1>1. n \in Nat
  BY FS_CardinalityType
<1>2. ASSUME NEW p \in S
      PROVE  /\ IsFiniteSet(EarlierBy(R, S, p)) /\ Cardinality(EarlierBy(R, S, p)) \in Nat
             /\ Cardinality(EarlierBy(R, S, p)) < n
  <2> DEFINE E == EarlierBy(R, S, p)
  <2>1. E \subseteq S /\ p \in S /\ p \notin E
    BY DEF EarlierBy, StrictlyOrders
  <2> HIDE DEF E
  <2>2. E \in SUBSET S /\ E # S
    BY <2>1
  <2>3. IsFiniteSet(E) /\ Cardinality(E) < Cardinality(S)
    BY <2>2, FS_Subset, FS_CardinalityType
  <2> QED
    BY <2>3, FS_CardinalityType DEF E
<1>3. ASSUME NEW p \in S, NEW q \in S, <<p, q>> \in R
      PROVE  Cardinality(EarlierBy(R, S, p)) < Cardinality(EarlierBy(R, S, q))
  <2> DEFINE E == EarlierBy(R, S, p)
             F == EarlierBy(R, S, q)
  <2>1. E \subseteq F /\ p \in F /\ p \notin E
    BY <1>3 DEF EarlierBy, StrictlyOrders
  <2>2. IsFiniteSet(F)
    BY <1>2
  <2> HIDE DEF E, F
  <2>3. E \in SUBSET F /\ E # F
    BY <2>1
  <2>4. Cardinality(E) < Cardinality(F)
    BY <2>2, <2>3, FS_Subset, FS_CardinalityType
  <2> QED
    BY <2>4 DEF E, F
<1>4. ASSUME NEW p \in S, NEW q \in S,
             Cardinality(EarlierBy(R, S, p)) = Cardinality(EarlierBy(R, S, q))
      PROVE  p = q
  <2>1. ~ (<<p, q>> \in R) /\ ~ (<<q, p>> \in R)
    <3>1. Cardinality(EarlierBy(R, S, p)) \in Nat /\ Cardinality(EarlierBy(R, S, q)) \in Nat
      BY <1>2
    <3>2. ~ (Cardinality(EarlierBy(R, S, p)) < Cardinality(EarlierBy(R, S, q)))
      BY <1>4, <3>1
    <3>3. ~ (Cardinality(EarlierBy(R, S, q)) < Cardinality(EarlierBy(R, S, p)))
      BY <1>4, <3>1
    <3> QED
      BY <1>3, <3>2, <3>3
  <2> QED
    BY <2>1 DEF StrictlyOrders
<1>5. \A p \in S : Cardinality(EarlierBy(R, S, p)) + 1 \in 1 .. n
  BY <1>1, <1>2
<1>6. rank \in [S -> 1 .. n]
  BY <1>5
<1>7. \A p, q \in S : rank[p] = rank[q] => p = q
  <2> SUFFICES ASSUME NEW p \in S, NEW q \in S, rank[p] = rank[q] PROVE p = q
    OBVIOUS
  <2>1. Cardinality(EarlierBy(R, S, p)) + 1 = Cardinality(EarlierBy(R, S, q)) + 1
    OBVIOUS
  <2>2. Cardinality(EarlierBy(R, S, p)) = Cardinality(EarlierBy(R, S, q))
    BY <1>2, <2>1
  <2> QED
    BY <1>4, <2>2
<1>8. IsFiniteSet(1 .. n) /\ Cardinality(1 .. n) = n
  BY <1>1, IntervalSize
<1> HIDE DEF rank, n
<1>9. rank \in Surjection(S, 1 .. n)
  <2>1. rank \in Injection(S, 1 .. n)
    BY <1>6, <1>7, Fun_IsInj
  <2>2. Cardinality(S) = Cardinality(1 .. n)
    BY <1>8 DEF n
  <2> QED
    BY <1>8, <2>1, <2>2, FS_Injection
<1>10. ASSUME NEW k \in 1 .. n PROVE \E p \in S : Cardinality(EarlierBy(R, S, p)) = k - 1
  <2>1. \A j \in 1 .. n : \E p \in S : rank[p] = j
    BY <1>9, Fun_SurjectionProperties
  <2>2. PICK p \in S : rank[p] = k
    BY <2>1
  <2>3. Cardinality(EarlierBy(R, S, p)) + 1 = k
    BY <2>2 DEF rank
  <2> QED
    BY <1>2, <2>3
<1> QED
  BY <1>1, <1>2, <1>4, <1>5, <1>10 DEF n

(* Whatever the actions of a step do, time and severity stand.             *)
LEMMA ActionKeeps ==
  ASSUME NEW e, EnvironmentOK(e), NEW a
  PROVE  EnvironmentOK(ApplyAction(e, a))
<1>1. ASSUME NEW v, NEW key \in {"capacity", "inventory", "transport"},
             NEW f, f = [e EXCEPT ![key] = v]
      PROVE  EnvironmentOK(f)
  <2>1. DOMAIN f = DOMAIN e /\ \A k \in DOMAIN e : k # key => f[k] = e[k]
    BY <1>1
  <2> QED
    BY <2>1 DEF EnvironmentOK
<1>2. EnvironmentOK(StormApply(e, a))
  <2> DEFINE f == [e EXCEPT !.capacity = Stocked(@, a.region, Stock(@, a.region, 100) + Delta(a))]
  <2>1. EnvironmentOK(f)
    <3> DEFINE v == Stocked(e.capacity, a.region, Stock(e.capacity, a.region, 100) + Delta(a))
    <3>1. f = [e EXCEPT !["capacity"] = v]
      OBVIOUS
    <3> HIDE DEF v, f
    <3> QED
      BY <1>1, <3>1
  <2>2. StormApply(e, a) \in {e, f}
    BY DEF StormApply
  <2> HIDE DEF f
  <2> QED
    BY <2>1, <2>2
<1>3. EnvironmentOK(SupplyChainApply(e, a))
  <2> DEFINE f == [e EXCEPT !.inventory = Stocked(@, a.region, Stock(@, a.region, 0) + Delta(a))]
             g == [e EXCEPT !.transport = AtLeast(@ + Delta(a), 0)]
  <2>1. EnvironmentOK(f)
    <3> DEFINE v == Stocked(e.inventory, a.region, Stock(e.inventory, a.region, 0) + Delta(a))
    <3>1. f = [e EXCEPT !["inventory"] = v]
      OBVIOUS
    <3> HIDE DEF v, f
    <3> QED
      BY <1>1, <3>1
  <2>2. EnvironmentOK(g)
    <3> DEFINE v == AtLeast(e.transport + Delta(a), 0)
    <3>1. g = [e EXCEPT !["transport"] = v]
      OBVIOUS
    <3> HIDE DEF v, g
    <3> QED
      BY <1>1, <3>1
  <2>3. SupplyChainApply(e, a) \in {e, f, g}
    <3>1. SupplyChainApply(e, a) =
            CASE a.type = "adjust_inventory" /\ a.region # None -> f
              [] a.type = "adjust_transport_capacity" -> g
              [] OTHER -> e
      BY DEF SupplyChainApply
    <3> HIDE DEF f, g
    <3> QED
      BY <3>1
  <2> HIDE DEF f, g
  <2> QED
    BY <2>1, <2>2, <2>3
<1> QED
  BY <1>2, <1>3 DEF ApplyAction

(* The function that FoldLeft chooses, over the sets of positions in a.    *)
IsFold(e, a, g) ==
  g = [s \in SUBSET (DOMAIN a) |->
         IF s = {} THEN e ELSE ApplyAction(g[s \ {Max(s)}], a[Max(s)])]

(* Taking away the last position makes a set of positions smaller by one.  *)
LEMMA SubsetsOfPositions ==
  ASSUME NEW a, IsSeq(a), NEW s \in SUBSET (DOMAIN a)
  PROVE  /\ IsFiniteSet(s) /\ Cardinality(s) \in Nat
         /\ Cardinality(s) = 0 <=> s = {}
         /\ s # {} => /\ Max(s) \in s /\ s \ {Max(s)} \in SUBSET (DOMAIN a)
                      /\ Cardinality(s \ {Max(s)}) = Cardinality(s) - 1
<1>1. DOMAIN a = 1 .. Len(a) /\ Len(a) \in Nat
  BY SeqFacts
<1>2. IsFiniteSet(1 .. Len(a))
  BY <1>1, IntervalSize
<1>3. IsFiniteSet(s) /\ Cardinality(s) \in Nat
  BY <1>1, <1>2, FS_Subset, FS_CardinalityType
<1>4. Cardinality(s) = 0 <=> s = {}
  BY <1>3, FS_EmptySet
<1>5. s # {} => Max(s) \in s
  <2>1. s \in SUBSET Nat
    BY <1>1
  <2> QED
    BY <1>3, <2>1, LargestElement
<1>6. s # {} => Cardinality(s \ {Max(s)}) = Cardinality(s) - 1
  <2> DEFINE x == Max(s)
  <2>1. x \in s => Cardinality(s \ {x}) = Cardinality(s) - 1
    <3> HIDE DEF x
    <3> QED
      BY <1>3, FS_RemoveElement
  <2> QED
    BY <1>5, <2>1
<1> QED
  BY <1>3, <1>4, <1>5, <1>6

(* There is such a function.                                               *)
LEMMA FoldExists == ASSUME NEW e, NEW a, IsSeq(a) PROVE \E g : IsFold(e, a, g)
<1> DEFINE D == SUBSET (DOMAIN a)
           Value(g, s) == IF s = {} THEN e ELSE ApplyAction(g[s \ {Max(s)}], a[Max(s)])
           T == {k \in Nat : \E g : \A s \in D : Cardinality(s) <= k => g[s] = Value(g, s)}
<1>1. 0 \in T
  <2> DEFINE g == [s \in D |-> e]
  <2>1. ASSUME NEW s \in D, Cardinality(s) <= 0 PROVE g[s] = Value(g, s)
    <3>1. s = {}
      <4>1. Cardinality(s) \in Nat /\ (Cardinality(s) = 0 <=> s = {})
        BY SubsetsOfPositions
      <4> HIDE DEF T, g
      <4> QED
        BY <2>1, <4>1
    <3> QED
      BY <3>1
  <2> HIDE DEF g, Value
  <2> QED
    BY <2>1
<1>2. ASSUME NEW k \in Nat, k \in T PROVE k + 1 \in T
  <2>1. PICK g : \A s \in D : Cardinality(s) <= k => g[s] = Value(g, s)
    BY <1>2
  <2> DEFINE h == [s \in D |-> IF Cardinality(s) <= k THEN g[s] ELSE Value(g, s)]
  <2>2. ASSUME NEW s \in D, Cardinality(s) <= k + 1 PROVE h[s] = Value(h, s)
    <3>1. h[s] = Value(g, s)
      <4> HIDE DEF Value
      <4> QED
        BY <2>1
    <3>2. Value(g, s) = Value(h, s)
      <4>1. CASE s # {}
        <5>1. s \ {Max(s)} \in D /\ Cardinality(s \ {Max(s)}) <= k
          <6> HIDE DEF T, h, Value
          <6> QED
            BY <2>2, <4>1, SubsetsOfPositions
        <5>2. h[s \ {Max(s)}] = g[s \ {Max(s)}]
          BY <5>1
        <5> HIDE DEF h
        <5> QED
          BY <5>2
      <4> QED
        BY <4>1
    <3> QED
      BY <3>1, <3>2
  <2> HIDE DEF h, Value
  <2> QED
    BY <2>2
<1>3. Cardinality(DOMAIN a) \in T /\ Cardinality(DOMAIN a) \in Nat
  <2>1. Cardinality(DOMAIN a) \in Nat
    BY SubsetsOfPositions
  <2> HIDE DEF T
  <2> QED
    BY <1>1, <1>2, <2>1, UpFromZero
<1>4. PICK g : \A s \in D : Cardinality(s) <= Cardinality(DOMAIN a) => g[s] = Value(g, s)
  BY <1>3
<1> DEFINE h == [s \in D |-> g[s]]
<1>5. ASSUME NEW s \in D PROVE h[s] = Value(h, s)
  <2>1. Cardinality(s) <= Cardinality(DOMAIN a)
    <3>1. IsFiniteSet(DOMAIN a)
      BY SubsetsOfPositions
    <3> QED
      BY <3>1, FS_Subset
  <2>2. h[s] = Value(g, s)
    <3> HIDE DEF Value
    <3> QED
      BY <1>4, <2>1
  <2>3. s # {} => h[s \ {Max(s)}] = g[s \ {Max(s)}]
    BY SubsetsOfPositions
  <2> HIDE DEF h
  <2> QED
    BY <2>2, <2>3
<1>6. h = [s \in D |-> h[s]]
  OBVIOUS
<1> HIDE DEF h
<1>7. IsFold(e, a, h)
  BY <1>5, <1>6 DEF IsFold
<1> QED
  BY <1>7

(* Folding the actions of a step over the environment keeps what one       *)
(* action keeps.                                                           *)
LEMMA ActionsKeep ==
  ASSUME NEW e, EnvironmentOK(e), NEW a, IsSeq(a)
  PROVE  EnvironmentOK(FoldLeft(ApplyAction, e, a))
<1> DEFINE g == CHOOSE f : IsFold(e, a, f)
           T == {k \in Nat : \A s \in SUBSET (DOMAIN a) : Cardinality(s) = k => EnvironmentOK(g[s])}
<1>1. FoldLeft(ApplyAction, e, a) = g[DOMAIN a]
  BY DEF FoldLeft, MapThenFoldSet, IsFold
<1>2. IsFold(e, a, g)
  BY FoldExists
<1> HIDE DEF g
<1>3. \A s \in SUBSET (DOMAIN a) :
        g[s] = IF s = {} THEN e ELSE ApplyAction(g[s \ {Max(s)}], a[Max(s)])
  BY <1>2 DEF IsFold
<1>4. 0 \in T
  BY <1>3, SubsetsOfPositions
<1>5. ASSUME NEW k \in Nat, k \in T PROVE k + 1 \in T
  <2>1. SUFFICES ASSUME NEW s \in SUBSET (DOMAIN a), Cardinality(s) = k + 1
                 PROVE  EnvironmentOK(g[s])
    OBVIOUS
  <2>2. s # {} /\ s \ {Max(s)} \in SUBSET (DOMAIN a) /\ Cardinality(s \ {Max(s)}) = k
    BY <2>1, SubsetsOfPositions
  <2>3. EnvironmentOK(g[s \ {Max(s)}])
    BY <1>5, <2>2
  <2> QED
    BY <1>3, <2>2, <2>3, ActionKeeps
<1>6. Cardinality(DOMAIN a) \in Nat
  BY SubsetsOfPositions
<1>7. Cardinality(DOMAIN a) \in T
  <2> HIDE DEF T
  <2> QED
    BY <1>4, <1>5, <1>6, UpFromZero
<1> QED
  BY <1>1, <1>7

(* The agents of a scenario.                                               *)
ScenarioOK == setup.scenario \in {"storm", "supply_chain"}

(* Roles, agents and operators are sequences of what the two scenarios     *)
(* name, and the operators are distinct and among the roles.               *)
LEMMA RolesOfScenario ==
  ASSUME ScenarioOK
  PROVE  /\ IsSeq(Roles) /\ IsSeq(OperatorIds) /\ DOMAIN Profiles = DOMAIN Roles
         /\ \A i \in DOMAIN Roles : /\ Roles[i] \in {"coordinator", "forecaster"} \cup Operators \cup Suppliers
                                    /\ Profiles[i] = Agent(Roles[i])
         /\ \A i \in DOMAIN Roles :
              \/ setup.scenario = "storm" /\ Roles[i] \in {"coordinator", "forecaster"} \cup Operators
              \/ setup.scenario = "supply_chain" /\ Roles[i] \in {"coordinator"} \cup Suppliers
         /\ \A i \in DOMAIN OperatorIds :
              OperatorIds[i] \in Operators \cup Suppliers /\ \E j \in DOMAIN Roles : Roles[j] = OperatorIds[i]
         /\ \A i, j \in DOMAIN OperatorIds : OperatorIds[i] = OperatorIds[j] => i = j
<1>1. CASE setup.scenario = "storm"
  <2>1. /\ Roles = <<"coordinator", "hospital", "utility", "forecaster">>
        /\ OperatorIds = <<"hospital", "utility">>
    <3>1. Roles = <<"coordinator", "hospital", "utility", "forecaster">>
      BY <1>1 DEF Roles
    <3>2. OperatorIds = <<"hospital", "utility">>
      BY <1>1 DEF OperatorIds
    <3> QED
      BY <3>1, <3>2
  <2>2. IsSeq(Roles) /\ IsSeq(OperatorIds)
    <3>1. /\ Roles \in Seq({"coordinator", "hospital", "utility", "forecaster"})
          /\ OperatorIds \in Seq({"hospital", "utility"})
      BY <2>1
    <3> QED
      BY <3>1, TypedSeq
  <2>3. DOMAIN Roles = 1 .. 4 /\ DOMAIN OperatorIds = 1 .. 2
    BY <2>1
  <2> QED
    BY <1>1, <2>1, <2>2, <2>3 DEF Profiles, Operators, Suppliers
<1>2. CASE setup.scenario = "supply_chain"
  <2>1. /\ Roles = <<"coordinator", "supplier", "warehouse", "transport", "retailer">>
        /\ OperatorIds = Tail(Roles)
    <3>1. Roles = <<"coordinator", "supplier", "warehouse", "transport", "retailer">>
      BY <1>2 DEF Roles
    <3>2. OperatorIds = Tail(Roles)
      BY <1>2 DEF OperatorIds
    <3> QED
      BY <3>1, <3>2
  <2>2. IsSeq(Roles) /\ DOMAIN Roles = 1 .. 5
    <3>1. /\ Roles \in Seq({"coordinator", "supplier", "warehouse", "transport", "retailer"})
          /\ DOMAIN Roles = 1 .. 5
      BY <2>1
    <3> QED
      BY <3>1, TypedSeq
  <2>3. OperatorIds = <<"supplier", "warehouse", "transport", "retailer">>
    BY <2>1
  <2>4. IsSeq(OperatorIds) /\ DOMAIN OperatorIds = 1 .. 4
    <3>1. /\ OperatorIds \in Seq({"supplier", "warehouse", "transport", "retailer"})
          /\ DOMAIN OperatorIds = 1 .. 4
      BY <2>3
    <3> QED
      BY <3>1, TypedSeq
  <2> QED
    BY <1>2, <2>1, <2>2, <2>3, <2>4 DEF Profiles, Operators, Suppliers
<1> QED
  BY <1>1, <1>2 DEF ScenarioOK

-----------------------------------------------------------------------------
(* The plan of a step.                                                     *)
ReadyOK(ready) == IsSeq(ready) /\ \A i \in DOMAIN ready : ready[i].prio \in Int

(* An agent that some event targets is planned for the first of them.      *)
LEMMA FirstEvent ==
  ASSUME NEW ready, ReadyOK(ready), NEW j \in DOMAIN Profiles,
         NEW e \in DOMAIN ready, Profiles[j] \in Targets(ready[e])
  PROVE  \E i \in DOMAIN ready : <<i, j>> \in Plan(ready)
<1> DEFINE S == {i \in DOMAIN ready : Profiles[j] \in Targets(ready[i])}
           R == {p \in S \X S : PlansBefore(ready, p[1], p[2])}
<1>1. DOMAIN ready = 1 .. Len(ready) /\ Len(ready) \in Nat /\ \A i \in DOMAIN ready : ready[i].prio \in Int
  BY SeqFacts DEF ReadyOK
<1>2. IsFiniteSet(S)
  <2>1. S \in SUBSET (1 .. Len(ready))
    BY <1>1
  <2> HIDE DEF S
  <2> QED
    BY <1>1, <2>1, IntervalSize, FS_Subset
<1>3. \A i, k \in S : <<i, k>> \in R <=> PlansBefore(ready, i, k)
  OBVIOUS
<1>4. \A i \in S : i \in Int /\ ready[i].prio \in Int
  BY <1>1
<1>5. e \in S
  OBVIOUS
<1>6. \A i \in S : (\A k \in S : <<k, i>> \notin R) => <<i, j>> \in Plan(ready)
  <2> SUFFICES ASSUME NEW i \in S, \A k \in S : <<k, i>> \notin R PROVE <<i, j>> \in Plan(ready)
    OBVIOUS
  <2>1. \A k \in S : ~ PlansBefore(ready, k, i)
    BY <1>3
  <2> QED
    BY <2>1 DEF Plan
<1>7. S \subseteq DOMAIN ready
  OBVIOUS
<1> HIDE DEF S, R
<1>8. StrictlyOrders(R, S)
  BY <1>3, <1>4 DEF StrictlyOrders, PlansBefore
<1>9. Cardinality(S) \in Nat /\ Cardinality(S) # 0
  BY <1>2, <1>5, FS_CardinalityType, FS_EmptySet
<1>10. 1 \in 1 .. Cardinality(S)
  BY <1>9
<1>11. PICK i \in S : Cardinality(EarlierBy(R, S, i)) = 1 - 1
  BY <1>2, <1>8, <1>10, Ranked
<1>12. EarlierBy(R, S, i) = {}
  <2>1. EarlierBy(R, S, i) \subseteq S
    BY DEF EarlierBy
  <2>2. IsFiniteSet(EarlierBy(R, S, i))
    BY <1>2, <2>1, FS_Subset
  <2> QED
    BY <1>11, <2>2, FS_EmptySet
<1>13. \A k \in S : <<k, i>> \notin R
  BY <1>12 DEF EarlierBy
<1> QED
  BY <1>6, <1>7, <1>13

(* The order of the plan: by event, then by profile.                       *)
PlannedBefore(ready) ==
  {x \in Plan(ready) \X Plan(ready) :
     PlansBefore(ready, x[1][1], x[2][1]) \/ (x[1][1] = x[2][1] /\ x[1][2] < x[2][2])}

(* It is a strict order of a finite set.                                   *)
LEMMA PlanOrdered ==
  ASSUME NEW ready, ReadyOK(ready), ScenarioOK
  PROVE  /\ IsFiniteSet(Plan(ready)) /\ StrictlyOrders(PlannedBefore(ready), Plan(ready))
         /\ \A p \in Plan(ready) : Earlier(ready, p) = EarlierBy(PlannedBefore(ready), Plan(ready), p)
<1> DEFINE P == Plan(ready)
           R == PlannedBefore(ready)
<1>1. /\ DOMAIN ready = 1 .. Len(ready) /\ Len(ready) \in Nat
      /\ \A i \in DOMAIN ready : ready[i].prio \in Int
  BY SeqFacts DEF ReadyOK
<1>2. DOMAIN Profiles = 1 .. Len(Roles) /\ Len(Roles) \in Nat
  BY RolesOfScenario, SeqFacts
<1>3. IsFiniteSet(P)
  <2>1. IsFiniteSet((1 .. Len(ready)) \X (1 .. Len(Roles)))
    BY <1>1, <1>2, IntervalSize, FS_Product
  <2>2. P \subseteq (1 .. Len(ready)) \X (1 .. Len(Roles))
    BY <1>1, <1>2 DEF Plan
  <2> QED
    BY <2>1, <2>2, FS_Subset
<1>4. \A p \in P : p = <<p[1], p[2]>> /\ p[1] \in Int /\ p[2] \in Int /\ ready[p[1]].prio \in Int
  BY <1>1, <1>2 DEF Plan
<1>5. \A p, q \in P : <<p, q>> \in R <=>
        PlansBefore(ready, p[1], q[1]) \/ (p[1] = q[1] /\ p[2] < q[2])
  BY DEF PlannedBefore
<1>6. \A p \in P : Earlier(ready, p) = EarlierBy(R, P, p)
  <2> SUFFICES ASSUME NEW p \in P PROVE Earlier(ready, p) = EarlierBy(R, P, p)
    OBVIOUS
  <2>1. \A q \in P : <<q, p>> \in R <=>
        PlansBefore(ready, q[1], p[1]) \/ (q[1] = p[1] /\ q[2] < p[2])
    BY <1>5
  <2> HIDE DEF R
  <2> QED
    BY <2>1 DEF Earlier, EarlierBy
<1> HIDE DEF P, R
<1>7. StrictlyOrders(R, P)
  <2>1. \A p \in P : <<p, p>> \notin R
    BY <1>4, <1>5 DEF PlansBefore
  <2>2. ASSUME NEW p \in P, NEW q \in P, NEW r \in P, <<p, q>> \in R, <<q, r>> \in R
        PROVE  <<p, r>> \in R
    BY <1>4, <1>5, <2>2 DEF PlansBefore
  <2>3. ASSUME NEW p \in P, NEW q \in P, p # q PROVE <<p, q>> \in R \/ <<q, p>> \in R
    <3>1. p[1] # q[1] \/ p[2] # q[2]
      BY <1>4, <2>3
    <3> QED
      BY <1>4, <1>5, <3>1 DEF PlansBefore
  <2> QED
    BY <2>1, <2>2, <2>3 DEF StrictlyOrders
<1> QED
  BY <1>3, <1>6, <1>7 DEF P, R

(* So every planned activation has a number, and every number below the    *)
(* size of the plan is that of one.                                        *)
LEMMA Activated ==
  ASSUME NEW ready, ReadyOK(ready), ScenarioOK
  PROVE  /\ Cardinality(Plan(ready)) \in Nat
         /\ \A k \in 1 .. Cardinality(Plan(ready)) : Activation(ready, k) \in Plan(ready)
         /\ \A p \in Plan(ready) : \E k \in 1 .. Cardinality(Plan(ready)) : Activation(ready, k) = p
<1> DEFINE P == Plan(ready)
           R == PlannedBefore(ready)
           n == Cardinality(P)
<1>1. IsFiniteSet(P) /\ StrictlyOrders(R, P) /\ \A p \in P : Earlier(ready, p) = EarlierBy(R, P, p)
  BY PlanOrdered
<1>2. \A k : Activation(ready, k) = CHOOSE p \in P : Cardinality(Earlier(ready, p)) = k - 1
  BY DEF Activation
<1> HIDE DEF P, R
<1>3. /\ n \in Nat
      /\ \A k \in 1 .. n : \E p \in P : Cardinality(EarlierBy(R, P, p)) = k - 1
      /\ \A p \in P : Cardinality(EarlierBy(R, P, p)) + 1 \in 1 .. n
      /\ \A p \in P : Cardinality(EarlierBy(R, P, p)) \in Nat
      /\ \A p, q \in P :
           Cardinality(EarlierBy(R, P, p)) = Cardinality(EarlierBy(R, P, q)) => p = q
  BY <1>1, Ranked
<1>4. ASSUME NEW k \in 1 .. n
      PROVE  Activation(ready, k) \in P /\ Cardinality(EarlierBy(R, P, Activation(ready, k))) = k - 1
  <2>1. \E p \in P : Cardinality(Earlier(ready, p)) = k - 1
    BY <1>1, <1>3
  <2>2. Activation(ready, k) \in P /\ Cardinality(Earlier(ready, Activation(ready, k))) = k - 1
    BY <1>2, <2>1
  <2> QED
    BY <1>1, <2>2
<1>5. ASSUME NEW p \in P PROVE \E k \in 1 .. n : Activation(ready, k) = p
  <2> DEFINE k == Cardinality(EarlierBy(R, P, p)) + 1
  <2>1. k \in 1 .. n /\ k - 1 = Cardinality(EarlierBy(R, P, p))
    BY <1>3
  <2> HIDE DEF k
  <2>2. Activation(ready, k) = p
    BY <1>3, <1>4, <2>1
  <2> QED
    BY <2>1, <2>2
<1> QED
  BY <1>3, <1>4, <1>5 DEF P

(* The requests of a step are those of planned activations, and everyone   *)
(* whom an event targets is asked.                                         *)
LEMMA RequestsMade ==
  ASSUME NEW env, NEW ready, ReadyOK(ready), ScenarioOK, NEW r, r = Requests(env, ready)
  PROVE  /\ IsSeq(r)
         /\ \A k \in DOMAIN r : \E i \in DOMAIN ready : \E j \in DOMAIN Profiles :
              Profiles[j] \in Targets(ready[i]) /\ r[k] = RequestFor(env, ready[i], j)
         /\ \A i \in DOMAIN ready : \A j \in DOMAIN Profiles :
              Profiles[j] \in Targets(ready[i]) => \E k \in DOMAIN r : r[k].agent = Profiles[j]
<1> DEFINE n == Cardinality(Plan(ready))
<1>1. /\ n \in Nat /\ \A k \in 1 .. n : Activation(ready, k) \in Plan(ready)
      /\ \A p \in Plan(ready) : \E k \in 1 .. n : Activation(ready, k) = p
  BY Activated
<1>2. /\ r = [k \in 1 .. n |-> r[k]]
      /\ \A k \in 1 .. n : r[k] =
           RequestFor(env, ready[Activation(ready, k)[1]], Activation(ready, k)[2])
  BY DEF Requests
<1> HIDE DEF n
<1>3. IsSeq(r) /\ DOMAIN r = 1 .. n
  BY <1>1, <1>2, SeqMade
<1>4. \A p \in Plan(ready) : /\ p[1] \in DOMAIN ready /\ p[2] \in DOMAIN Profiles
                             /\ Profiles[p[2]] \in Targets(ready[p[1]])
  BY DEF Plan
<1>5. ASSUME NEW i \in DOMAIN ready, NEW j \in DOMAIN Profiles, Profiles[j] \in Targets(ready[i])
      PROVE  \E k \in DOMAIN r : r[k].agent = Profiles[j]
  <2>1. PICK e \in DOMAIN ready : <<e, j>> \in Plan(ready)
    BY <1>5, FirstEvent
  <2>2. PICK k \in 1 .. n : Activation(ready, k) = <<e, j>>
    BY <1>1, <2>1
  <2>3. r[k] = RequestFor(env, ready[e], j)
    BY <1>2, <2>2
  <2>4. r[k].agent = Profiles[j]
    BY <2>3 DEF RequestFor
  <2> QED
    BY <1>3, <2>4
<1>6. ASSUME NEW k \in DOMAIN r
      PROVE  \E i \in DOMAIN ready : \E j \in DOMAIN Profiles :
               Profiles[j] \in Targets(ready[i]) /\ r[k] = RequestFor(env, ready[i], j)
  <2>1. Activation(ready, k) \in Plan(ready)
    BY <1>1, <1>3
  <2> QED
    BY <1>2, <1>3, <1>4, <2>1
<1> QED
  BY <1>3, <1>5, <1>6

(* The slices of r hold what r holds.                                      *)
Batched(b, r) ==
  /\ IsSeq(b)
  /\ \A k \in DOMAIN b :
       IsSeq(b[k]) /\ \A i \in DOMAIN b[k] : \E l \in DOMAIN r : b[k][i] = r[l]
  /\ \A l \in DOMAIN r : \E k \in DOMAIN b : \E i \in DOMAIN b[k] : b[k][i] = r[l]

(* Slicing the requests by four loses none of them.                        *)
LEMMA BatchesMade ==
  ASSUME NEW r, IsSeq(r)
  PROVE  Batched(Batches(r), r)
<1> DEFINE n == Len(r)
           m == (n + 3) \div 4
           b == Batches(r)
           first(k) == (4 * k) - 3
           last(k) == IF 4 * k < n THEN 4 * k ELSE n
<1>1. r \in Seq(ToSet(r)) /\ n \in Nat /\ DOMAIN r = 1 .. n
  BY SeqFacts
<1>2. m \in Nat /\ 4 * m <= n + 3 /\ n + 3 < 4 * m + 4
  BY <1>1
<1>3. /\ b = [k \in 1 .. m |-> b[k]]
      /\ \A k \in 1 .. m : b[k] = SubSeq(r, first(k), last(k))
  BY DEF Batches
<1>4. \A k \in 1 .. m : /\ first(k) \in 1 .. n /\ last(k) \in 1 .. n /\ first(k) <= last(k)
                        /\ last(k) <= n
  BY <1>1, <1>2
<1> HIDE DEF m, b, n
<1>5. IsSeq(b) /\ DOMAIN b = 1 .. m
  BY <1>2, <1>3, SeqMade
<1>6. ASSUME NEW k \in 1 .. m
      PROVE  /\ IsSeq(b[k]) /\ DOMAIN b[k] = 1 .. last(k) - first(k) + 1
             /\ \A i \in DOMAIN b[k] : b[k][i] = r[first(k) + i - 1]
  <2> DEFINE u == SubSeq(r, first(k), last(k))
             f == first(k)
             l == last(k)
  <2>1. f \in 1 .. n /\ l \in 1 .. n /\ f <= l /\ u = SubSeq(r, f, l)
    BY <1>4
  <2> HIDE DEF f, l, u
  <2>2. /\ u \in Seq(ToSet(r)) /\ Len(u) = l - f + 1
        /\ \A i \in 1 .. l - f + 1 : u[i] = r[f + i - 1]
    BY <1>1, <2>1, SubSeqProperties
  <2>3. IsSeq(u) /\ DOMAIN u = 1 .. Len(u)
    BY <2>2, TypedSeq, SeqFacts
  <2>4. b[k] = u
    BY <1>3 DEF u
  <2> QED
    BY <2>2, <2>3, <2>4 DEF f, l
<1>7. ASSUME NEW k \in DOMAIN b, NEW i \in DOMAIN b[k] PROVE \E l \in DOMAIN r : b[k][i] = r[l]
  <2>1. k \in 1 .. m /\ i \in 1 .. last(k) - first(k) + 1
    BY <1>5, <1>6
  <2>2. first(k) + i - 1 \in 1 .. n
    <3>1. first(k) \in 1 .. n /\ last(k) \in 1 .. n
      BY <1>4, <2>1
    <3> HIDE DEF first, last
    <3> QED
      BY <1>1, <2>1, <3>1
  <2> QED
    BY <1>1, <1>5, <1>6, <2>2
<1>8. ASSUME NEW l \in DOMAIN r PROVE \E k \in DOMAIN b : \E i \in DOMAIN b[k] : b[k][i] = r[l]
  <2> DEFINE k == (l + 3) \div 4
             i == l - first(k) + 1
  <2>1. k \in Int /\ 4 * k <= l + 3 /\ l + 3 < 4 * k + 4 /\ l \in 1 .. n
    BY <1>1
  <2> HIDE DEF k
  <2>2. k \in 1 .. m
    BY <1>1, <1>2, <2>1
  <2>3. i \in 1 .. last(k) - first(k) + 1 /\ first(k) + i - 1 = l
    <3>1. l <= last(k) /\ last(k) \in Int
      BY <1>1, <2>1
    <3>2. first(k) <= l /\ first(k) \in Int
      BY <1>1, <2>1
    <3> HIDE DEF first, last
    <3> QED
      BY <1>1, <3>1, <3>2
  <2> HIDE DEF i
  <2>4. i \in DOMAIN b[k] /\ b[k][i] = r[l]
    BY <1>6, <2>2, <2>3
  <2> QED
    BY <1>5, <2>2, <2>4
<1> QED
  BY <1>5, <1>6, <1>7, <1>8 DEF Batched, b

-----------------------------------------------------------------------------
(* What an answer must contain, by the steps of the round before it.       *)
LEMMA RequiredInRound ==
  ASSUME NEW W, NamesOK(W), NEW q, AnswersTheRound(q, W), round.hops \in Nat
  PROVE  LET m == RequiredMessages(q)
         IN  /\ round.hops = 0 /\ q.role # "coordinator" =>
                  \A i \in DOMAIN m : m[i].to = AgentCoordinator
             /\ round.hops = 1 /\ ~ round.unprompted =>
                  \A i \in DOMAIN m : m[i].to = AgentCoordinator
             /\ round.hops >= 2 /\ ~ round.unprompted => DOMAIN m = {}
             /\ round.hops = 0 /\ q.role \in Operators \cup Suppliers =>
                  1 \in DOMAIN m /\ m[1].to = AgentCoordinator /\ m[1].type = "status_update"
<1> DEFINE m == RequiredMessages(q)
<1>1. /\ "coordinator" \notin Operators \cup Suppliers
      /\ AgentCoordinator # None
  BY DEF NamesOK, Operators, Suppliers
<1>2. CASE q.role = "coordinator"
  <2>1. m = [i \in DOMAIN q.operators |-> StatusRequest(q.operators[i], q.prio, FALSE)]
    BY <1>1, <1>2 DEF RequiredMessages
  <2>2. round.hops >= 1 /\ ~ round.unprompted => q.operators = <<>>
    BY DEF AnswersTheRound
  <2>3. round.hops >= 1 /\ ~ round.unprompted => DOMAIN m = {}
    <3> SUFFICES ASSUME round.hops >= 1, ~ round.unprompted PROVE DOMAIN m = {}
      OBVIOUS
    <3>1. DOMAIN q.operators = {}
      BY <2>2, EmptyIsSeq
    <3> HIDE DEF m
    <3> QED
      BY <2>1, <3>1
  <2> HIDE DEF m
  <2> QED
    BY <1>1, <1>2, <2>3 DEF m
<1>3. CASE q.role \in Operators \cup Suppliers
  <2>1. m = <<StatusUpdate(ReportsTo(q), q.prio, FALSE)>>
    BY <1>1, <1>3 DEF RequiredMessages
  <2>2. round.hops = 0 => q.coordinator = AgentCoordinator
    BY DEF AnswersTheRound
  <2>3. round.hops = 1 /\ ~ round.unprompted => q.coordinator = None /\ q.sender = AgentCoordinator
    BY <1>1, <1>3 DEF AnswersTheRound
  <2>4. round.hops >= 2 /\ ~ round.unprompted => q.role = "coordinator"
    BY DEF AnswersTheRound
  <2>5. round.hops = 0 \/ (round.hops = 1 /\ ~ round.unprompted) => ReportsTo(q) = AgentCoordinator
    BY <1>1, <2>2, <2>3 DEF ReportsTo
  <2>6. DOMAIN m = {1} /\ m[1].to = ReportsTo(q) /\ m[1].type = "status_update"
    BY <2>1 DEF StatusUpdate, Message
  <2> HIDE DEF m
  <2> QED
    BY <1>1, <1>3, <2>4, <2>5, <2>6 DEF m
<1>4. CASE q.role \notin {"coordinator"} \cup Operators \cup Suppliers
  <2>1. m = <<>>
    BY <1>4 DEF RequiredMessages
  <2>2. DOMAIN m = {}
    BY <2>1, EmptyIsSeq
  <2> HIDE DEF m
  <2> QED
    BY <1>4, <2>2 DEF m
<1> QED
  BY <1>2, <1>3, <1>4

(* What a result is made of: messages and actions over the words, with     *)
(* everything the policy requires among them.                              *)
ResultFits(r, q, W) ==
  /\ IsSeq(r.messages) /\ IsSeq(r.actions) /\ IsSeq(r.events)
  /\ \A i \in DOMAIN r.messages : r.messages[i] \in Notes(W)
  /\ \A i \in DOMAIN r.actions : r.actions[i] \in Moves(W)
  /\ \A i \in DOMAIN r.events : r.events[i].prio \in Int /\ r.events[i].coordinator \in W
  /\ \A i \in DOMAIN RequiredMessages(q) : \E k \in DOMAIN r.messages :
       /\ r.messages[k].to = RequiredMessages(q)[i].to
       /\ r.messages[k].type = RequiredMessages(q)[i].type
  /\ \A i \in DOMAIN RequiredActions(q) : \E k \in DOMAIN r.actions :
       r.actions[k].type = RequiredActions(q)[i].type

(* What the engine takes from a result.                                    *)
AnswerOf(a, q, r) ==
  /\ a.agent = q.agent /\ a.events = r.events
  /\ IsSeq(a.messages) /\ DOMAIN a.messages = DOMAIN r.messages
  /\ \A i \in DOMAIN r.messages :
       /\ a.messages[i].to = r.messages[i].to /\ a.messages[i].prio = r.messages[i].prio
       /\ Kind(a.messages[i]) = <<r.messages[i].to, r.messages[i].type>>
  /\ IsSeq(a.actions) /\ DOMAIN a.actions = DOMAIN r.actions
  /\ \A i \in DOMAIN r.actions : a.actions[i].type = r.actions[i].type
  /\ a.unprompted \in BOOLEAN
  /\ ~ a.unprompted =>
       /\ r.events = <<>>
       /\ \A i \in DOMAIN r.messages : \E j \in DOMAIN RequiredMessages(q) :
            Kind(r.messages[i]) = Kind(RequiredMessages(q)[j])

(* Answered(q, r) is that.                                                 *)
LEMMA AnsweredFields ==
  ASSUME NEW W, NEW q, NEW r, ResultFits(r, q, W)
  PROVE  AnswerOf(Answered(q, r), q, r)
<1> DEFINE a == Answered(q, r)
<1>1. /\ a.agent = q.agent /\ a.events = r.events
      /\ a.messages = [i \in DOMAIN r.messages |-> [r.messages[i] EXCEPT !.by = 0]]
      /\ a.actions = [i \in DOMAIN r.actions |-> [r.actions[i] EXCEPT !.by = 0]]
  BY DEF Answered
<1>2. a.unprompted = (r.events # <<>> \/
        \E i \in DOMAIN r.messages : \A j \in DOMAIN RequiredMessages(q) :
          Kind(r.messages[i]) # Kind(RequiredMessages(q)[j]))
  BY DEF Answered
<1>3. /\ DOMAIN r.messages = 1 .. Len(r.messages) /\ Len(r.messages) \in Nat
      /\ DOMAIN r.actions = 1 .. Len(r.actions) /\ Len(r.actions) \in Nat
  BY SeqFacts DEF ResultFits
<1>4. IsSeq(a.messages) /\ DOMAIN a.messages = DOMAIN r.messages
  <2>1. a.messages = [i \in 1 .. Len(r.messages) |-> a.messages[i]]
    BY <1>1, <1>3
  <2> QED
    BY <1>3, <2>1, SeqMade
<1>5. IsSeq(a.actions) /\ DOMAIN a.actions = DOMAIN r.actions
  <2>1. a.actions = [i \in 1 .. Len(r.actions) |-> a.actions[i]]
    BY <1>1, <1>3
  <2> QED
    BY <1>3, <2>1, SeqMade
<1>6. \A i \in DOMAIN r.actions : a.actions[i].type = r.actions[i].type
  <2> SUFFICES ASSUME NEW i \in DOMAIN r.actions PROVE a.actions[i].type = r.actions[i].type
    OBVIOUS
  <2>1. a.actions[i] = [r.actions[i] EXCEPT !.by = 0] /\ r.actions[i] \in Moves(W)
    BY <1>1 DEF ResultFits
  <2> QED
    BY <2>1 DEF Moves
<1>7. a.unprompted \in BOOLEAN
  BY <1>2
<1>8. ~ a.unprompted => r.events = <<>> /\
        \A i \in DOMAIN r.messages : \E j \in DOMAIN RequiredMessages(q) :
          Kind(r.messages[i]) = Kind(RequiredMessages(q)[j])
  BY <1>2
<1>9. \A i \in DOMAIN r.messages :
        /\ a.messages[i].to = r.messages[i].to /\ a.messages[i].prio = r.messages[i].prio
        /\ Kind(a.messages[i]) = <<r.messages[i].to, r.messages[i].type>>
  <2> SUFFICES ASSUME NEW i \in DOMAIN r.messages
               PROVE  LET m == r.messages[i]
                          n == a.messages[i]
                      IN n.to = m.to /\ n.prio = m.prio /\ Kind(n) = <<m.to, m.type>>
    OBVIOUS
  <2> DEFINE m == r.messages[i]
             n == a.messages[i]
  <2>1. n = [m EXCEPT !.by = 0] /\ m \in Notes(W)
    BY <1>1 DEF ResultFits
  <2> HIDE DEF m, n
  <2>2. n \in Notes(W) /\ n.to = m.to /\ n.type = m.type /\ n.prio = m.prio
    BY <2>1 DEF Notes
  <2>3. Kind(n) = <<n.to, n.type>>
    BY <2>2, KindOfNote
  <2> QED
    BY <2>2, <2>3 DEF m, n
<1> QED
  BY <1>1, <1>4, <1>5, <1>6, <1>7, <1>8, <1>9 DEF AnswerOf

(* An answer made of a fitting result belongs to the round of its request, *)
(* whoever gave it.                                                        *)
LEMMA AnswerFits ==
  ASSUME NEW W, NamesOK(W), NEW q, AnswersTheRound(q, W),
         round.hops \in Nat, round.unprompted \in BOOLEAN,
         NEW r, ResultFits(r, q, W)
  PROVE  AnswerInRound(Answered(q, r), W)
<1> DEFINE a == Answered(q, r)
           m == RequiredMessages(q)
<1>1. AnswerOf(a, q, r)
  BY AnsweredFields
<1>2. /\ IsSeq(r.events) /\ \A i \in DOMAIN r.messages : r.messages[i] \in Notes(W)
      /\ \A i \in DOMAIN r.events : r.events[i].prio \in Int /\ r.events[i].coordinator \in W
  BY DEF ResultFits
<1>3. \A j \in DOMAIN m : m[j] \in Notes(W)
  <2>1. m \in Seq(Notes(W))
    BY MessagesRequired DEF NamesOK, AnswersTheRound
  <2> HIDE DEF m
  <2>2. DOMAIN m = 1 .. Len(m) /\ \A j \in 1 .. Len(m) : m[j] \in Notes(W)
    BY <2>1, LenProperties, ElementOfSeq
  <2> QED
    BY <2>2
<1>4. ~ a.unprompted =>
        \A i \in DOMAIN a.messages : \E j \in DOMAIN m : a.messages[i].to = m[j].to
  <2> SUFFICES ASSUME ~ a.unprompted, NEW i \in DOMAIN a.messages
               PROVE  \E j \in DOMAIN m : a.messages[i].to = m[j].to
    OBVIOUS
  <2>1. PICK j \in DOMAIN m : Kind(r.messages[i]) = Kind(m[j])
    BY <1>1 DEF AnswerOf
  <2>2. r.messages[i] \in Notes(W) /\ m[j] \in Notes(W)
    BY <1>1, <1>2, <1>3 DEF AnswerOf
  <2> HIDE DEF a, m
  <2>3. /\ Kind(r.messages[i]) = <<r.messages[i].to, r.messages[i].type>>
        /\ Kind(m[j]) = <<m[j].to, m[j].type>>
    BY <2>2, KindOfNote
  <2>4. r.messages[i].to = m[j].to
    <3>1. <<r.messages[i].to, r.messages[i].type>> = <<m[j].to, m[j].type>>
      BY <2>1, <2>3, Zenon
    <3> QED
      BY <3>1
  <2> QED
    BY <1>1, <2>4 DEF AnswerOf
<1>5. /\ round.hops = 0 /\ q.role # "coordinator" => \A j \in DOMAIN m : m[j].to = AgentCoordinator
      /\ round.hops = 1 /\ ~ round.unprompted => \A j \in DOMAIN m : m[j].to = AgentCoordinator
      /\ round.hops >= 2 /\ ~ round.unprompted => DOMAIN m = {}
  BY RequiredInRound
<1>6. /\ q.agent \in W
      /\ q.role = "coordinator" => q.agent = AgentCoordinator
  BY DEF AnswersTheRound, Agent
<1> HIDE DEF a, m
<1>7. /\ a.agent \in W
      /\ \A i \in DOMAIN a.events : a.events[i].prio \in Int /\ a.events[i].coordinator \in W
  BY <1>1, <1>2, <1>6 DEF AnswerOf
<1>11. \A i \in DOMAIN a.messages : a.messages[i].prio \in Int
  BY <1>1, <1>2 DEF AnswerOf, Notes
<1>8. ~ a.unprompted /\ round.hops = 0 =>
        \A i \in DOMAIN a.messages : a.agent = AgentCoordinator \/ a.messages[i].to = AgentCoordinator
  BY <1>1, <1>4, <1>5, <1>6 DEF AnswerOf
<1>9. ~ a.unprompted /\ round.hops = 1 /\ ~ round.unprompted =>
        \A i \in DOMAIN a.messages : a.messages[i].to = AgentCoordinator
  BY <1>4, <1>5
<1>10. ~ a.unprompted /\ round.hops >= 2 /\ ~ round.unprompted => a.messages = <<>>
  <2>1. ~ a.unprompted /\ round.hops >= 2 /\ ~ round.unprompted => DOMAIN a.messages = {}
    BY <1>4, <1>5
  <2> QED
    BY <1>1, <2>1, NoItems DEF AnswerOf
<1> QED
  BY <1>1, <1>2, <1>7, <1>8, <1>9, <1>10, <1>11 DEF AnswerInRound, AnswerOf, a

(* In the first step an operator reports to the coordinator, and after an  *)
(* alarm it does what it can.                                              *)
LEMMA AnswerReports ==
  ASSUME NEW W, NamesOK(W), NEW q, AnswersTheRound(q, W), round.hops = 0,
         q.role \in Operators \cup Suppliers,
         NEW r, ResultFits(r, q, W)
  PROVE  LET a == Answered(q, r)
         IN  ReportsBack(a) /\ (Alarmed /\ q.role \in Responders => Intervenes(a))
<1> DEFINE a == Answered(q, r)
           m == RequiredMessages(q)
<1>1. AnswerOf(a, q, r)
  BY AnsweredFields
<1>2. 1 \in DOMAIN m /\ m[1].to = AgentCoordinator /\ m[1].type = "status_update"
  BY RequiredInRound
<1>3. PICK k \in DOMAIN r.messages : r.messages[k].to = m[1].to /\ r.messages[k].type = m[1].type
  BY <1>2 DEF ResultFits
<1> HIDE DEF a, m
<1>4. ReportsBack(a)
  <2>1. k \in DOMAIN a.messages /\ Kind(a.messages[k]) = <<AgentCoordinator, "status_update">>
    BY <1>1, <1>2, <1>3 DEF AnswerOf
  <2> QED
    BY <2>1 DEF ReportsBack
<1>5. ASSUME Alarmed, q.role \in Responders PROVE Intervenes(a)
  <2>1. q.strained /\ q.scenario = "supply_chain"
    BY <1>5 DEF AnswersTheRound, Alarmed
  <2>2. \E type \in {"adjust_inventory", "adjust_transport_capacity"} :
          Allowed(q) = <<type>>
    BY <1>5, <2>1 DEF Allowed, AllowedEnvironmentActions, Responders
  <2>3. PICK type \in {"adjust_inventory", "adjust_transport_capacity"} : Allowed(q) = <<type>>
    BY <2>2
  <2>4. Allowed(q) # <<>> /\ Allowed(q)[1] = type
    BY <2>3
  <2>5. RequiredActions(q) = <<DefaultAction(q, type)>>
    BY <1>5, <2>1, <2>4 DEF RequiredActions, Responders, Suppliers
  <2>6. 1 \in DOMAIN RequiredActions(q) /\ RequiredActions(q)[1].type = type
    BY <2>5 DEF DefaultAction, ActionOf
  <2>7. PICK l \in DOMAIN r.actions : r.actions[l].type = type
    BY <2>6 DEF ResultFits
  <2>8. a.actions[l].type = type /\ l \in DOMAIN a.actions /\ type # "update_summary"
    BY <1>1, <2>7 DEF AnswerOf
  <2> QED
    BY <2>8 DEF Intervenes
<1> QED
  BY <1>4, <1>5 DEF a

(* The items of a member of Seq(S) are in S.                               *)
LEMMA ItemsTyped ==
  ASSUME NEW S, NEW s \in Seq(S)
  PROVE  IsSeq(s) /\ \A i \in DOMAIN s : s[i] \in S
<1>1. DOMAIN s = 1 .. Len(s) /\ \A i \in 1 .. Len(s) : s[i] \in S
  BY LenProperties, ElementOfSeq
<1> QED
  BY <1>1, TypedSeq

(* The result of a well-formed proposal fits.                              *)
LEMMA ModelFits ==
  ASSUME NEW W, WordsOK(W), NEW q, RequestOK(q, W), NEW p, ProposalOK(p, W), NEW text, NEW counts
  PROVE  ResultFits(ResultFromProposal(q, p, text, counts), q, W)
<1> DEFINE r == ResultFromProposal(q, p, text, counts)
           kept == UsableMessages(q, Messages(q, p))
           done == UsableActions(q, Actions(p))
<1>1. ResultOf(r, q, p, kept, done) /\ ObeysPolicy(q, r)
  BY ResultFields, ResultObeys
<1>2. r.events = Events(q, p)
  BY DEF ResultFromProposal
<1>3. kept \in Seq(Notes(W)) /\ done \in Seq(Moves(W))
  <2>1. KeptMessages(kept, q, p, W) /\ KeptActions(done, q, p, W)
    BY MessagesKept, ActionsKept
  <2> HIDE DEF kept, done
  <2> QED
    BY <2>1 DEF KeptMessages, KeptActions
<1> HIDE DEF r, kept, done
<1>4. RequiredMessages(q) \in Seq(Notes(W)) /\ RequiredActions(q) \in Seq(Moves(W))
  BY MessagesRequired, ActionsRequired
<1>5. r.messages \in Seq(Notes(W))
  <2>1. Complete(kept, RequiredMessages(q)) \in Seq(Notes(W))
    BY <1>3, <1>4, CompleteItems DEF Completed
  <2> QED
    BY <1>1, <2>1 DEF ResultOf
<1>6. r.actions \in Seq(Moves(W))
  <2>1. Complete(done, RequiredActions(q)) \in Seq(Moves(W))
    BY <1>3, <1>4, CompleteItems DEF Completed
  <2> QED
    BY <1>1, <2>1 DEF ResultOf
<1>7. IsSeq(r.messages) /\ \A i \in DOMAIN r.messages : r.messages[i] \in Notes(W)
  BY <1>5, ItemsTyped
<1>8. IsSeq(r.actions) /\ \A i \in DOMAIN r.actions : r.actions[i] \in Moves(W)
  BY <1>6, ItemsTyped
<1>9. /\ IsSeq(r.events)
      /\ \A i \in DOMAIN r.events : r.events[i].prio \in Int /\ r.events[i].coordinator \in W
  <2> DEFINE T == [to : SUBSET W, prio : Int \cup {None}, coordinator : W]
             n == Len(p.events)
  <2>1. p.events \in Seq(T)
    BY DEF ProposalOK
  <2> HIDE DEF T
  <2>2. DOMAIN p.events = 1 .. n /\ n \in Nat /\ \A i \in 1 .. n : p.events[i] \in T
    BY <2>1, LenProperties, ElementOfSeq
  <2>3. \A i \in 1 .. n : Own(p.events[i].prio, q.prio) \in Int /\ p.events[i].coordinator \in W
    BY <2>2 DEF T, Own, RequestOK
  <2>4. /\ r.events = [i \in 1 .. n |-> r.events[i]]
        /\ \A i \in 1 .. n : /\ r.events[i].prio = Own(p.events[i].prio, q.prio)
                             /\ r.events[i].coordinator = p.events[i].coordinator
    BY <1>2, <2>2 DEF Events
  <2>5. IsSeq(r.events) /\ DOMAIN r.events = 1 .. n
    BY <2>2, <2>4, SeqMade
  <2> QED
    BY <2>3, <2>4, <2>5
<1>10. ASSUME NEW i \in DOMAIN RequiredMessages(q)
       PROVE  \E k \in DOMAIN r.messages :
                /\ r.messages[k].to = RequiredMessages(q)[i].to
                /\ r.messages[k].type = RequiredMessages(q)[i].type
  <2> DEFINE m == RequiredMessages(q)[i]
  <2>1. <<m.to, m.type>> \in {<<r.messages[k].to, r.messages[k].type>> : k \in DOMAIN r.messages}
    BY <1>1 DEF ObeysPolicy
  <2> HIDE DEF m
  <2>2. PICK k \in DOMAIN r.messages : <<m.to, m.type>> = <<r.messages[k].to, r.messages[k].type>>
    BY <2>1
  <2>3. m.to = r.messages[k].to /\ m.type = r.messages[k].type
    BY <2>2
  <2> QED
    BY <2>3 DEF m
<1>11. ASSUME NEW i \in DOMAIN RequiredActions(q)
       PROVE  \E k \in DOMAIN r.actions : r.actions[k].type = RequiredActions(q)[i].type
  <2>1. RequiredActions(q)[i].type \in {r.actions[k].type : k \in DOMAIN r.actions}
    BY <1>1 DEF ObeysPolicy
  <2> QED
    BY <2>1
<1> QED
  BY <1>7, <1>8, <1>9, <1>10, <1>11 DEF ResultFits, r

(* What the rule backends say is well-formed.                              *)
LEMMA RuleMessagesTyped ==
  ASSUME NEW W, WordsOK(W), NEW q, RequestOK(q, W)
  PROVE  LET rule == RuleMessages(q)
         IN  IsSeq(rule) /\ \A i \in DOMAIN rule : rule[i] \in Notes(W)
<1> DEFINE rule == RuleMessages(q)
           n == Len(q.operators)
<1>1. RuleRecipient(q) \in W
  BY DEF RuleRecipient, WordsOK, RequestOK
<1>2. ASSUME NEW prio \in Int
      PROVE  StatusUpdate(RuleRecipient(q), prio, TRUE) \in Notes(W)
  BY <1>1, <1>2 DEF StatusUpdate, Message, Notes, WordsOK
<1>3. q.prio \in Int /\ q.severity \in Int
  BY DEF RequestOK
<1>4. CASE q.role = "coordinator"
  <2>1. n \in Nat /\ DOMAIN q.operators = 1 .. n /\ \A i \in 1 .. n : q.operators[i] \in W
    BY LenProperties, ElementOfSeq DEF RequestOK
  <2>2. rule = [i \in DOMAIN q.operators |-> StatusRequest(q.operators[i], q.prio, TRUE)]
    BY <1>4, SMTT(30) DEF RuleMessages, Operators
  <2> HIDE DEF n, rule
  <2>3. \A i \in 1 .. n : rule[i] \in Notes(W)
    <3> SUFFICES ASSUME NEW i \in 1 .. n PROVE rule[i] \in Notes(W)
      OBVIOUS
    <3>1. rule[i] = StatusRequest(q.operators[i], q.prio, TRUE) /\ q.operators[i] \in W
      BY <2>1, <2>2
    <3> QED
      BY <1>3, <3>1 DEF StatusRequest, Message, Notes, WordsOK
  <2>4. rule = [i \in 1 .. n |-> rule[i]]
    BY <2>1, <2>2
  <2>5. IsSeq(rule) /\ DOMAIN rule = 1 .. n
    BY <2>1, <2>4, SeqMade
  <2> QED
    BY <2>3, <2>5 DEF rule
<1>5. CASE q.role = "forecaster"
  <2>1. rule = <<>>
    BY <1>5 DEF RuleMessages, Operators
  <2> HIDE DEF rule
  <2> QED
    BY <2>1, EmptyIsSeq DEF rule
<1>6. CASE q.role \in Operators \cup Suppliers
  <2>1. \E prio \in Int : rule = <<StatusUpdate(RuleRecipient(q), prio, TRUE)>>
    BY <1>3, <1>6 DEF RuleMessages, Operators, Suppliers
  <2>2. PICK prio \in Int : rule = <<StatusUpdate(RuleRecipient(q), prio, TRUE)>>
    BY <2>1
  <2> DEFINE m == StatusUpdate(RuleRecipient(q), prio, TRUE)
  <2>3. m \in Notes(W) /\ rule = <<m>>
    BY <1>2, <2>2
  <2> HIDE DEF rule, m
  <2>4. rule \in Seq(Notes(W))
    BY <2>3
  <2> QED
    BY <2>4, ItemsTyped DEF rule
<1> QED
  BY <1>4, <1>5, <1>6 DEF RequestOK

(* What the rule backends answer, as a result.                             *)
RuleResult(q) ==
  [messages |-> RuleMessages(q), actions |-> RuleActions(q), events |-> <<>>, retry_count |-> 0]

(* The rule's result fits: what is required is among its messages.         *)
LEMMA RuleFits ==
  ASSUME NEW W, WordsOK(W), NEW q, RequestOK(q, W)
  PROVE  ResultFits(RuleResult(q), q, W)
<1> DEFINE r == RuleResult(q)
           m == RequiredMessages(q)
<1>1. r.messages = RuleMessages(q) /\ r.actions = RuleActions(q) /\ r.events = <<>>
  BY DEF RuleResult
<1> HIDE DEF r
<1>2. /\ m = [i \in DOMAIN r.messages |-> Required(r.messages[i], q)]
      /\ r.actions = RequiredActions(q)
  BY <1>1, RuleIsRequired
<1>3. IsSeq(r.messages) /\ \A i \in DOMAIN r.messages : r.messages[i] \in Notes(W)
  BY <1>1, RuleMessagesTyped
<1>4. IsSeq(r.actions) /\ \A i \in DOMAIN r.actions : r.actions[i] \in Moves(W)
  <2>1. r.actions \in Seq(Moves(W))
    BY <1>2, ActionsRequired
  <2> QED
    BY <2>1, ItemsTyped
<1>5. IsSeq(r.events) /\ DOMAIN r.events = {}
  BY <1>1, EmptyIsSeq
<1> HIDE DEF m
<1>6. ASSUME NEW i \in DOMAIN m
      PROVE  \E k \in DOMAIN r.messages :
               r.messages[k].to = m[i].to /\ r.messages[k].type = m[i].type
  <2>1. i \in DOMAIN r.messages /\ m[i] = Required(r.messages[i], q)
    BY <1>2
  <2>2. r.messages[i] \in Notes(W)
    BY <1>3, <2>1
  <2>3. m[i].to = r.messages[i].to /\ m[i].type = r.messages[i].type
    BY <2>1, <2>2 DEF Required, Notes
  <2> QED
    BY <2>1, <2>3
<1>7. \A i \in DOMAIN RequiredActions(q) : \E k \in DOMAIN r.actions :
        r.actions[k].type = RequiredActions(q)[i].type
  BY <1>2
<1> QED
  BY <1>3, <1>4, <1>5, <1>6, <1>7 DEF ResultFits, m, r

(* The rule's answer belongs to the round, reports and intervenes.         *)
LEMMA RuleAnswers ==
  ASSUME NEW W, NamesOK(W), NEW q, AnswersTheRound(q, W),
         round.hops \in Nat, round.unprompted \in BOOLEAN
  PROVE  LET a == RuleAnswer(q)
         IN  /\ AnswerInRound(a, W) /\ a.agent = q.agent
             /\ round.hops = 0 /\ q.role \in Operators \cup Suppliers =>
                  ReportsBack(a) /\ (Alarmed /\ q.role \in Responders => Intervenes(a))
<1> DEFINE r == RuleResult(q)
           a == RuleAnswer(q)
<1>1. a = Answered(q, r)
  BY DEF RuleAnswer, RuleResult
<1>2. ResultFits(r, q, W)
  BY RuleFits DEF AnswersTheRound, NamesOK
<1> HIDE DEF r, a
<1>3. AnswerInRound(a, W)
  BY <1>1, <1>2, AnswerFits
<1>4. a.agent = q.agent
  BY <1>1 DEF Answered
<1>5. round.hops = 0 /\ q.role \in Operators \cup Suppliers =>
        ReportsBack(a) /\ (Alarmed /\ q.role \in Responders => Intervenes(a))
  BY <1>1, <1>2, AnswerReports
<1> QED
  BY <1>3, <1>4, <1>5 DEF a

(* So does whatever a model's proposal is turned into.                     *)
LEMMA ModelAnswers ==
  ASSUME NEW W, NamesOK(W), NEW q, AnswersTheRound(q, W),
         round.hops \in Nat, round.unprompted \in BOOLEAN,
         NEW r, MadeFor(q, r, W)
  PROVE  LET a == Answered(q, r)
         IN  /\ AnswerInRound(a, W) /\ a.agent = q.agent
             /\ round.hops = 0 /\ q.role \in Operators \cup Suppliers =>
                  ReportsBack(a) /\ (Alarmed /\ q.role \in Responders => Intervenes(a))
<1> DEFINE a == Answered(q, r)
<1>1. ResultFits(r, q, W)
  BY ModelFits DEF AnswersTheRound, NamesOK, MadeFor
<1>2. AnswerInRound(a, W)
  BY <1>1, AnswerFits
<1>3. a.agent = q.agent
  BY DEF Answered
<1>4. round.hops = 0 /\ q.role \in Operators \cup Suppliers =>
        ReportsBack(a) /\ (Alarmed /\ q.role \in Responders => Intervenes(a))
  BY <1>1, AnswerReports
<1> QED
  BY <1>2, <1>3, <1>4

-----------------------------------------------------------------------------
(* Events and the requests they set off.                                   *)
EventOK(e, W) ==
  /\ e.prio \in Int /\ e.operators \in Seq(W) /\ e.coordinator \in W /\ e.sender \in W
  /\ \A i, j \in DOMAIN e.operators : e.operators[i] = e.operators[j] => i = j

(* q is the request of the j-th agent for the event e.                     *)
Requested(q, env, e, j, W) ==
  /\ RequestOK(q, W) /\ q.agent \in W
  /\ q.role = Roles[j] /\ q.agent = Agent(q.role) /\ q.agent = Profiles[j]
  /\ q.scenario = setup.scenario
  /\ q.operators = e.operators /\ q.coordinator = e.coordinator /\ q.sender = e.sender
  /\ setup.scenario = "supply_chain" => (q.strained <=> env.risk # "normal")

(* RequestFor makes it, well-formed.                                       *)
LEMMA RequestMade ==
  ASSUME NEW W, ScenarioSettings(W), setup \in Setups, NEW env, EnvironmentOK(env),
         NEW e, EventOK(e, W), NEW j \in DOMAIN Profiles
  PROVE  Requested(RequestFor(env, e, j), env, e, j, W)
<1> DEFINE q == RequestFor(env, e, j)
<1>1. ScenarioOK /\ NamesOK(W) /\ WordsOK(W)
  BY DEF ScenarioSettings, SetupsOK, ScenarioOK, NamesOK
<1>2. Regions[1] \in W
  <2>1. Regions \in Seq(W) /\ Regions # <<>>
    BY RegionsAssumption DEF ScenarioSettings, SetupsOK
  <2> QED
    BY <2>1, ItemsTyped, SeqTail
<1>3. /\ j \in DOMAIN Roles /\ Profiles[j] = Agent(Roles[j])
      /\ \/ setup.scenario = "storm" /\ Roles[j] \in {"coordinator", "forecaster"} \cup Operators
         \/ setup.scenario = "supply_chain" /\ Roles[j] \in {"coordinator"} \cup Suppliers
  BY <1>1, RolesOfScenario
<1>4. Agent(Roles[j]) \in W
  BY <1>1, <1>3 DEF NamesOK, WordsOK, Agent
<1>5. /\ q.agent = Profiles[j] /\ q.role = Roles[j] /\ q.region = Regions[1]
      /\ q.scenario = setup.scenario /\ q.prio = e.prio /\ q.operators = e.operators
      /\ q.coordinator = e.coordinator /\ q.sender = e.sender
      /\ q.strained = IF setup.scenario = "storm" THEN env.severity >= 3 ELSE env.risk # "normal"
      /\ q.severity = IF setup.scenario = "storm" THEN env.severity ELSE 0
  BY DEF RequestFor
<1> HIDE DEF q
<1>6. q.strained \in BOOLEAN
  <2>1. setup.scenario = "storm" => env.severity \in Int
    BY DEF EnvironmentOK
  <2>2. (setup.scenario = "storm" => (env.severity >= 3) \in BOOLEAN)
        /\ (env.risk # "normal") \in BOOLEAN
    BY <2>1
  <2>3. CASE setup.scenario = "storm"
    <3>1. q.strained = (env.severity >= 3)
      BY <1>5, <2>3, Zenon
    <3> QED
      BY <2>2, <2>3, <3>1, Zenon
  <2>4. CASE setup.scenario # "storm"
    <3>1. q.strained = (env.risk # "normal")
      BY <1>5, <2>4, Zenon
    <3> QED
      BY <2>2, <3>1, Zenon
  <2> QED
    BY <2>3, <2>4
<1>7. setup.scenario = "supply_chain" => (q.strained <=> env.risk # "normal")
  BY <1>5
<1>9. q.severity \in Int
  BY <1>5 DEF EnvironmentOK
<1>8. RequestOK(q, W)
  BY <1>2, <1>3, <1>5, <1>6, <1>9 DEF RequestOK, EventOK
<1> QED
  BY <1>3, <1>4, <1>5, <1>7, <1>8 DEF Requested, EventOK, q

-----------------------------------------------------------------------------
(* The ticks.                                                              *)
LEMMA GivenNumber ==
  ASSUME NEW W, ScenarioSettings(W), setup \in Setups, EnvironmentOK(environment),
         NEW n \in Int, NEW key \in {"severity", "delayed_shipments"}
  PROVE  Given(key, n) \in Int
<1> DEFINE ticks == setup.fixture.ticks
           t == environment.tick
<1>1. IsSeq(ticks) /\ \A i \in DOMAIN ticks :
        key \in DOMAIN ticks[i] => ticks[i][key] \in Int
  BY DEF ScenarioSettings, SetupsOK
<1>2. t \in Nat
  BY DEF EnvironmentOK
<1>3. DOMAIN ticks = 1 .. Len(ticks) /\ Len(ticks) \in Nat
  BY <1>1, SeqFacts
<1>4. Given(key, n) = IF t < Len(ticks) /\ key \in DOMAIN ticks[t + 1]
                             THEN ticks[t + 1][key] ELSE n
  BY DEF Given
<1> HIDE DEF ticks, t
<1> QED
  BY <1>1, <1>2, <1>3, <1>4

(* What a tick gives: its notices go to all agents, and more than one is   *)
(* an alarm, after which a supply chain is not taken for normal.           *)
NoticeOK(e, W) == EventOK(e, W) /\ e.coordinator = AgentCoordinator

Ticked(t, W) ==
  /\ EnvironmentOK(t.environment)
  /\ IsSeq(t.emitted) /\ \A i \in DOMAIN t.emitted : NoticeOK(t.emitted[i], W)
  /\ \E i \in DOMAIN t.emitted : \A j \in DOMAIN Profiles : Profiles[j] \in Targets(t.emitted[i])
  /\ setup.scenario = "supply_chain" /\ Len(t.emitted) > 1 => t.environment.risk # "normal"

(* Notices are events with a coordinator.                                  *)
LEMMA NoticeMade ==
  ASSUME NEW W, NamesOK(W), NEW to, NEW prio \in Int, NEW operators \in Seq(W),
         \A i, j \in DOMAIN operators : operators[i] = operators[j] => i = j
  PROVE  NoticeOK(Notice(to, prio, operators), W) /\ Notice(to, prio, operators).to = to
BY DEF NoticeOK, EventOK, Notice, NamesOK, WordsOK

(* The operators of a scenario are a sequence of words without repetition. *)
LEMMA OperatorsNamed ==
  ASSUME NEW W, NamesOK(W), ScenarioOK
  PROVE  /\ OperatorIds \in Seq(W)
         /\ \A i, j \in DOMAIN OperatorIds : OperatorIds[i] = OperatorIds[j] => i = j
<1>1. /\ IsSeq(OperatorIds) /\ \A i \in DOMAIN OperatorIds : OperatorIds[i] \in W
      /\ \A i, j \in DOMAIN OperatorIds : OperatorIds[i] = OperatorIds[j] => i = j
  BY RolesOfScenario DEF NamesOK
<1> DEFINE s == OperatorIds
<1>2. Len(s) \in Nat /\ s \in [1 .. Len(s) -> W]
  BY <1>1, SeqFacts DEF IsSeq
<1> HIDE DEF s
<1>3. s \in Seq(W)
  BY <1>2
<1> QED
  BY <1>1, <1>3 DEF s

(* The fields of an updated dictionary.                                    *)
LEMMA UpdatedFields ==
  ASSUME NEW d, NEW more
  PROVE  LET u == Updated(d, more)
         IN  /\ DOMAIN u = DOMAIN d \cup DOMAIN more
             /\ \A k \in DOMAIN more : u[k] = more[k]
             /\ \A k \in DOMAIN d : k \notin DOMAIN more => u[k] = d[k]
BY DEF Updated

(* One item is a sequence.                                                 *)
LEMMA SingleIsSeq ==
  ASSUME NEW x
  PROVE  IsSeq(<<x>>) /\ DOMAIN <<x>> = {1} /\ <<x>>[1] = x /\ Len(<<x>>) = 1
<1> DEFINE s == <<x>>
<1>1. s \in Seq({x}) /\ DOMAIN s = {1} /\ s[1] = x /\ Len(s) = 1
  OBVIOUS
<1> HIDE DEF s
<1>2. IsSeq(s)
  BY <1>1, TypedSeq
<1> QED
  BY <1>1, <1>2 DEF s

(* Notices and perhaps more of them.                                       *)
LEMMA NoticesJoined ==
  ASSUME NEW W, NEW s, IsSeq(s), \A i \in DOMAIN s : NoticeOK(s[i], W),
         NEW t, IsSeq(t), \A i \in DOMAIN t : NoticeOK(t[i], W)
  PROVE  /\ IsSeq(s \o t) /\ \A i \in DOMAIN (s \o t) : NoticeOK((s \o t)[i], W)
         /\ \A k \in DOMAIN s : \E i \in DOMAIN (s \o t) : (s \o t)[i] = s[k]
         /\ t = <<>> => s \o t = s
<1> DEFINE u == s \o t
<1>1. Joins(u, s, t)
  BY SeqJoined
<1>2. t = <<>> => u = s
  <2>1. s \in Seq(ToSet(s))
    BY SeqFacts
  <2> QED
    BY <2>1, ConcatEmptySeq
<1> HIDE DEF u
<1>3. IsSeq(u) /\ \A i \in DOMAIN u : NoticeOK(u[i], W)
  BY <1>1 DEF Joins
<1>4. \A k \in DOMAIN s : \E i \in DOMAIN u : u[i] = s[k]
  BY <1>1 DEF Joins
<1> QED
  BY <1>2, <1>3, <1>4 DEF u

(* A storm's tick gives that.                                              *)
LEMMA StormTicks ==
  ASSUME NEW W, ScenarioSettings(W), setup \in Setups, setup.scenario = "storm",
         EnvironmentOK(environment)
  PROVE  Ticked(StormTick, W)
<1> DEFINE severity == Given("severity", environment.severity + 1)
           more == [tick |-> environment.tick + 1, severity |-> severity]
           env == Updated(environment, more)
           all == Scope({"coordinator", "hospital", "utility", "forecaster"})
           a == Notice(all, severity, OperatorIds)
           b == Notice(Scope({"coordinator", "utility"}), severity + 1, <<"utility">>)
           t == IF severity >= 3 THEN <<b>> ELSE <<>>
<1>1. StormTick = [environment |-> env, emitted |-> <<a>> \o t]
  BY DEF StormTick
<1>2. environment.tick \in Nat /\ environment.severity \in Int
  BY DEF EnvironmentOK
<1>3. severity \in Int
  BY <1>2, GivenNumber
<1>4. NamesOK(W) /\ ScenarioOK
  BY DEF ScenarioSettings, SetupsOK, ScenarioOK
<1> HIDE DEF severity
<1>5. EnvironmentOK(env)
  <2>1. "tick" \in DOMAIN more /\ "severity" \in DOMAIN more
        /\ more["tick"] = environment.tick + 1 /\ more["severity"] = severity
    OBVIOUS
  <2> HIDE DEF more
  <2>2. DOMAIN env = DOMAIN environment \cup DOMAIN more /\ \A k \in DOMAIN more : env[k] = more[k]
    BY DEF Updated
  <2> HIDE DEF env
  <2>3. "tick" \in DOMAIN env /\ "severity" \in DOMAIN env
        /\ env["tick"] = environment.tick + 1 /\ env["severity"] = severity
    BY <2>1, <2>2
  <2> QED
    BY <1>2, <1>3, <2>3 DEF EnvironmentOK
<1>6. NoticeOK(a, W) /\ a.to = all
  BY <1>3, <1>4, OperatorsNamed, NoticeMade
<1>7. NoticeOK(b, W)
  <2> DEFINE o == <<"utility">>
  <2>1. o \in Seq(W) /\ DOMAIN o = {1}
    BY <1>4 DEF NamesOK, Operators
  <2> HIDE DEF o
  <2>2. severity + 1 \in Int /\ \A i, j \in DOMAIN o : o[i] = o[j] => i = j
    BY <1>3, <2>1
  <2>3. NoticeOK(Notice(Scope({"coordinator", "utility"}), severity + 1, o), W)
    BY <1>4, <2>1, <2>2, NoticeMade
  <2> QED
    BY <2>3 DEF o
<1>8. \A j \in DOMAIN Profiles : Profiles[j] \in Targets(a)
  <2> SUFFICES ASSUME NEW j \in DOMAIN Profiles PROVE Profiles[j] \in Targets(a)
    OBVIOUS
  <2>1. Profiles[j] = Agent(Roles[j])
        /\ Roles[j] \in {"coordinator", "hospital", "utility", "forecaster"}
    BY <1>4, RolesOfScenario DEF Operators
  <2>2. Profiles[j] \in all
    BY <2>1 DEF Scope
  <2> HIDE DEF a, all
  <2> QED
    BY <1>6, <2>2 DEF Targets, ToSet
<1> HIDE DEF a, b, env
<1>9. IsSeq(t) /\ \A i \in DOMAIN t : NoticeOK(t[i], W)
  BY <1>7, SingleIsSeq, EmptyIsSeq
<1> HIDE DEF t
<1> DEFINE s == <<a>>
           u == s \o t
<1>10. IsSeq(s) /\ DOMAIN s = {1} /\ s[1] = a
  BY SingleIsSeq
<1> HIDE DEF s
<1>11. IsSeq(u) /\ \A i \in DOMAIN u : NoticeOK(u[i], W)
  BY <1>6, <1>9, <1>10, NoticesJoined
<1>12. \E i \in DOMAIN u : u[i] = a
  <2>1. \A k \in DOMAIN s : \E i \in DOMAIN u : u[i] = s[k]
    BY <1>6, <1>9, <1>10, NoticesJoined
  <2> HIDE DEF u
  <2> QED
    BY <1>10, <2>1
<1> HIDE DEF u
<1>13. StormTick.environment = env /\ StormTick.emitted = u
  BY <1>1 DEF u, s
<1> QED
  BY <1>5, <1>8, <1>11, <1>12, <1>13 DEF Ticked

(* So does a supply chain's, which raises an alarm only with a risk that   *)
(* is not normal: twelve or more delayed shipments, or a shortage.         *)
LEMMA SupplyChainTicks ==
  ASSUME NEW W, ScenarioSettings(W), setup \in Setups, setup.scenario = "supply_chain",
         EnvironmentOK(environment)
  PROVE  Ticked(SupplyChainTick, W)
<1> DEFINE demand == Given("demand", environment.demand + 10)
           delayed == Given("delayed_shipments", environment.delayed + 4)
           region == Given("affected_region",
                           Regions[((environment.tick + 1) % Len(Regions)) + 1])
           consumed == AtLeast(demand \div 20, 1)
           inventory == Given("inventory",
             Stocked(environment.inventory, region,
                     Stock(environment.inventory, region, 0) - consumed))
           shortage == \E r \in DOMAIN inventory : inventory[r] < AtLeast(demand \div 2, 20)
           risk == RiskLevel(demand, delayed, shortage)
           toAll == Scope({"coordinator"} \cup Suppliers)
           more == [tick |-> environment.tick + 1, demand |-> demand,
                    delayed |-> delayed, inventory |-> inventory, risk |-> risk]
           env == Updated(environment, more)
           a == Notice(toAll, IF risk = "normal" THEN 1 ELSE 2, OperatorIds)
           b == Notice(toAll \ Scope({"supplier", "retailer"}), 3, OperatorIds)
           c == Notice(toAll \ Scope({"transport"}), 4, OperatorIds)
           x == IF delayed >= 12 THEN <<b>> ELSE <<>>
           y == IF shortage THEN <<c>> ELSE <<>>
<1>1. SupplyChainTick = [environment |-> env, emitted |-> <<a>> \o x \o y]
  BY DEF SupplyChainTick
<1>2. environment.tick \in Nat /\ environment.delayed \in Int /\ delayed \in Int
  <2>1. environment.tick \in Nat /\ environment.delayed \in Int
    BY DEF EnvironmentOK
  <2> QED
    BY <2>1, GivenNumber
<1>3. NamesOK(W) /\ ScenarioOK
  BY DEF ScenarioSettings, SetupsOK, ScenarioOK
<1>4. shortage \/ delayed >= 12 => risk = "high"
  <2>1. ASSUME NEW m, NEW d \in Int, NEW h \in BOOLEAN, h \/ d >= 12 PROVE RiskLevel(m, d, h) = "high"
    <3>1. CASE h
      BY <3>1, Zenon DEF RiskLevel
    <3>2. CASE d >= 12
      <4>1. ~ (d < 12)
        BY <3>2
      <4> QED
        BY <3>2, <4>1, Zenon DEF RiskLevel
    <3> QED
      BY <2>1, <3>1, <3>2
  <2>2. shortage \in BOOLEAN
    OBVIOUS
  <2> HIDE DEF shortage, delayed, demand
  <2> QED
    BY <1>2, <2>1, <2>2, Zenon
<1> HIDE DEF demand, delayed, region, consumed, inventory, shortage, risk
<1>5. EnvironmentOK(env) /\ env.risk = risk
  <2>1. /\ "tick" \in DOMAIN more /\ "delayed" \in DOMAIN more /\ "risk" \in DOMAIN more
        /\ more["tick"] = environment.tick + 1 /\ more["delayed"] = delayed /\ more["risk"] = risk
    OBVIOUS
  <2> HIDE DEF more
  <2>2. DOMAIN env = DOMAIN environment \cup DOMAIN more /\ \A k \in DOMAIN more : env[k] = more[k]
    BY DEF Updated
  <2> HIDE DEF env
  <2>3. /\ "tick" \in DOMAIN env /\ env["tick"] = environment.tick + 1
        /\ "delayed" \in DOMAIN env /\ env["delayed"] = delayed /\ env["risk"] = risk
    BY <2>1, <2>2
  <2> QED
    BY <1>2, <2>3 DEF EnvironmentOK
<1>6. NoticeOK(a, W) /\ a.to = toAll /\ NoticeOK(b, W) /\ NoticeOK(c, W)
  <2>1. (IF risk = "normal" THEN 1 ELSE 2) \in Int /\ 3 \in Int /\ 4 \in Int
    OBVIOUS
  <2> QED
    BY <1>3, <2>1, OperatorsNamed, NoticeMade
<1>7. \A j \in DOMAIN Profiles : Profiles[j] \in Targets(a)
  <2> SUFFICES ASSUME NEW j \in DOMAIN Profiles PROVE Profiles[j] \in Targets(a)
    OBVIOUS
  <2>1. Profiles[j] = Agent(Roles[j]) /\ Roles[j] \in {"coordinator"} \cup Suppliers
    BY <1>3, RolesOfScenario
  <2>2. Profiles[j] \in toAll
    BY <2>1 DEF Scope
  <2> HIDE DEF a, toAll
  <2> QED
    BY <1>6, <2>2 DEF Targets, ToSet
<1> HIDE DEF a, b, c, env
<1>8. /\ IsSeq(x) /\ \A i \in DOMAIN x : NoticeOK(x[i], W)
      /\ IsSeq(y) /\ \A i \in DOMAIN y : NoticeOK(y[i], W)
  BY <1>6, SingleIsSeq, EmptyIsSeq
<1>9. risk = "normal" => x = <<>> /\ y = <<>>
  BY <1>4
<1> HIDE DEF x, y
<1> DEFINE s == <<a>>
           v == s \o x
           u == v \o y
<1>10. IsSeq(s) /\ DOMAIN s = {1} /\ s[1] = a /\ Len(s) = 1
  BY SingleIsSeq
<1> HIDE DEF s
<1>11. IsSeq(v) /\ (\A i \in DOMAIN v : NoticeOK(v[i], W)) /\ (x = <<>> => v = s)
  BY <1>6, <1>8, <1>10, NoticesJoined
<1>12. \E i \in DOMAIN v : v[i] = a
  <2>1. \A k \in DOMAIN s : \E i \in DOMAIN v : v[i] = s[k]
    BY <1>6, <1>8, <1>10, NoticesJoined
  <2> HIDE DEF v
  <2> QED
    BY <1>10, <2>1
<1> HIDE DEF v
<1>13. IsSeq(u) /\ (\A i \in DOMAIN u : NoticeOK(u[i], W)) /\ (y = <<>> => u = v)
  BY <1>8, <1>11, NoticesJoined
<1>14. \E i \in DOMAIN u : u[i] = a
  <2>1. \A k \in DOMAIN v : \E i \in DOMAIN u : u[i] = v[k]
    BY <1>8, <1>11, NoticesJoined
  <2> HIDE DEF u
  <2> QED
    BY <1>12, <2>1
<1> HIDE DEF u
<1>15. Len(u) > 1 => risk # "normal"
  BY <1>9, <1>10, <1>11, <1>13
<1>16. SupplyChainTick.environment = env /\ SupplyChainTick.emitted = u
  BY <1>1 DEF u, v, s
<1> QED
  BY <1>5, <1>7, <1>13, <1>14, <1>15, <1>16 DEF Ticked

-----------------------------------------------------------------------------
(* The client among the steps.                                             *)
LEMMA RoundKept ==
  ASSUME NEW q, NEW W, AnswersTheRound(q, W), UNCHANGED <<round, setup>>
  PROVE  AnswersTheRound(q, W)'
BY DEF AnswersTheRound

(* A batch of requests of the round starts.                                *)
LEMMA BatchStarts ==
  ASSUME NEW W, ClientInv, NEW requests, IsSeq(requests), StartBatch(requests),
         \A i \in DOMAIN requests : AnswersTheRound(requests[i], W),
         UNCHANGED <<round, setup>>
  PROVE  ClientInRound(W)'
<1>1. PICK Q : Q = ToSet(requests)
  OBVIOUS
<1>2. requests \in Seq(Q)
  BY <1>1, SeqFacts
<1>3. ClientInv'
  BY <1>2, StartBatchStep
<1>4. batch' = requests /\ DOMAIN client' = DOMAIN requests /\ \A i \in DOMAIN client' : client'[i] = Waiting
  BY DEF StartBatch
<1>5. \A i \in DOMAIN client' : client'[i].phase = "waiting"
  BY <1>4 DEF Waiting
<1>6. Results' = {} /\ InPhase("cancelled")' = {}
  BY <1>5 DEF Results, InPhase
<1>7. \A i \in DOMAIN batch' : AnswersTheRound(requests[i], W)'
  BY <1>4, RoundKept
<1> QED
  BY <1>3, <1>4, <1>6, <1>7 DEF ClientInRound, AnswersTheRound, IsSeq

(* The client and the round stand.                                         *)
LEMMA ClientKept ==
  ASSUME NEW W, ClientInRound(W), UNCHANGED <<clientVars, round, setup>>
  PROVE  ClientInRound(W)'
<1>1. backend' = backend /\ batch' = batch /\ client' = client /\ round' = round /\ setup' = setup
  BY DEF clientVars
<1>2. ClientInv'
  BY <1>1 DEF ClientInRound, ClientInv, BackendOK, Sequential, InPhase
<1>3. Results' = Results /\ \A p : InPhase(p)' = InPhase(p)
  BY <1>1 DEF Results, InPhase
<1>4. \A i \in DOMAIN batch' : AnswersTheRound(batch[i], W)'
  BY <1>1, RoundKept DEF ClientInRound
<1> QED
  BY <1>1, <1>2, <1>3, <1>4 DEF ClientInRound, AnswersTheRound, IsSeq

(* Requests are cancelled only in a batch one of which has raised.         *)
LEMMA CancelledFollowsRaised ==
  ASSUME ClientInv, InPhase("cancelled") # {} => InPhase("raised") # {},
         NEW i \in DOMAIN client, RunOne(i)
  PROVE  (InPhase("cancelled") # {} => InPhase("raised") # {})'
<1>1. client[i] = [f \in Fields |-> client[i][f]]
  BY DEF ClientInv, Counted
<1>2. ASSUME NEW e, client' = [client EXCEPT ![i] = e], client[i].phase # "raised",
             e.phase # "cancelled"
      PROVE  (InPhase("cancelled") # {} => InPhase("raised") # {})'
  <2>1. DOMAIN client' = DOMAIN client /\ client'[i] = e
        /\ \A j \in DOMAIN client : j # i => client'[j] = client[j]
    BY <1>2
  <2>2. InPhase("cancelled")' \subseteq InPhase("cancelled") /\ InPhase("raised") \subseteq InPhase("raised")'
    BY <1>2, <2>1 DEF InPhase
  <2> QED
    BY <2>2
<1>3. CASE Start(i)
  <2> DEFINE e == [client[i] EXCEPT !.phase = "sending"]
  <2>1. client' = [client EXCEPT ![i] = e] /\ client[i].phase = "waiting" /\ e.phase = "sending"
    BY <1>1, <1>3 DEF Start, Fields
  <2> HIDE DEF e
  <2> QED
    BY <1>2, <2>1
<1>4. CASE Cancel(i)
  <2>1. PICK k \in InPhase("raised") : TRUE
    BY <1>4 DEF Cancel
  <2>2. k # i /\ client[k].phase = "raised" /\ k \in DOMAIN client
    BY <1>4, <2>1 DEF Cancel, InPhase
  <2>3. client' = [client EXCEPT ![i].phase = "cancelled"]
    BY <1>4 DEF Cancel
  <2>4. client'[k] = client[k] /\ DOMAIN client' = DOMAIN client
    BY <2>2, <2>3
  <2>5. k \in InPhase("raised")'
    BY <2>2, <2>4 DEF InPhase
  <2> QED
    BY <2>5
<1>5. CASE TransportRaises(i)
  <2> DEFINE e == Raised(client[i])
  <2>1. client' = [client EXCEPT ![i] = e] /\ client[i].phase = "sending"
    BY <1>5 DEF TransportRaises
  <2>2. e.phase \in {"sending", "raised"}
    BY <2>1, RaiseCounts DEF ClientInv, BackendOK
  <2> HIDE DEF e
  <2> QED
    BY <1>2, <2>1, <2>2
<1>6. CASE TransportReturns(i)
  <2>1. /\ client[i].phase = "sending"
        /\ \E response \in Responses(backend.model_name, batch[i]) :
             Repair(i, response) \/ AnswerRaises(i, response) \/ Finish(i, response)
    BY <1>6 DEF TransportReturns
  <2>2. PICK response \in Responses(backend.model_name, batch[i]) :
          Repair(i, response) \/ AnswerRaises(i, response) \/ Finish(i, response)
    BY <2>1
  <2> DEFINE d == Received(client[i])
  <2>3. d = [f \in Fields |-> d[f]] /\ d.phase = "sending"
    BY <1>1, <2>1, ReceivedFields
  <2>4. DOMAIN d = Fields
    BY <2>3
  <2>5. CASE Repair(i, response)
    <3> DEFINE e == [d EXCEPT !.repairs = @ + 1]
    <3>1. client' = [client EXCEPT ![i] = e]
      BY <2>5 DEF Repair
    <3>2. e.phase = "sending"
      <4> HIDE DEF d
      <4> QED
        BY <2>3, <2>4 DEF Fields
    <3> HIDE DEF e
    <3> QED
      BY <1>2, <2>1, <3>1, <3>2
  <2>6. CASE AnswerRaises(i, response)
    <3> DEFINE e == [d EXCEPT !.phase = "raised"]
    <3>1. client' = [client EXCEPT ![i] = e]
      BY <2>6 DEF AnswerRaises
    <3>2. e.phase = "raised"
      <4> HIDE DEF d
      <4> QED
        BY <2>3, <2>4 DEF Fields
    <3> HIDE DEF e
    <3> QED
      BY <1>2, <2>1, <3>1, <3>2
  <2>7. CASE Finish(i, response)
    <3> DEFINE r == ResultFromProposal(batch[i], JsonObject(Content(response)),
                                       Content(response), Counts(d))
               e == [d EXCEPT !.phase = "done", !.result = r]
    <3>1. client' = [client EXCEPT ![i] = e]
      BY <2>7 DEF Finish
    <3>2. e.phase = "done"
      <4> HIDE DEF d, r
      <4> QED
        BY <2>3, <2>4 DEF Fields
    <3> HIDE DEF e
    <3> QED
      BY <1>2, <2>1, <3>1, <3>2
  <2> QED
    BY <2>2, <2>5, <2>6, <2>7
<1> QED
  BY <1>3, <1>4, <1>5, <1>6 DEF RunOne

(* A request runs: the client keeps its counts, and a new result is made   *)
(* of a well-formed proposal.                                              *)
LEMMA RunOneInRound ==
  ASSUME NEW W, ScenarioSettings(W), ClientInRound(W), NEW i \in DOMAIN client, RunOne(i),
         UNCHANGED stepVars
  PROVE  ClientInRound(W)' /\ batch' = batch
<1>1. ClientInv /\ IsSeq(batch) /\ \A j \in DOMAIN batch : AnswersTheRound(batch[j], W)
  BY DEF ClientInRound
<1>2. PICK Q : Q = ToSet(batch)
  OBVIOUS
<1>3. batch \in Seq(Q)
  BY <1>1, <1>2, SeqFacts
<1>4. ResultsInv(Q, W)
  BY <1>3 DEF ResultsInv, ClientInRound
<1>5. \A q \in Q : RequestOK(q, W) /\ q.agent \in W
  BY <1>1, <1>2 DEF AnswersTheRound, ToSet
<1>6. WellFormed(Q, W)
  BY <1>5 DEF WellFormed, ScenarioSettings, SetupsOK, AnswersOK, NamesOK
<1>7. ClientInv' /\ ResultsInv(Q, W)'
  BY <1>1, <1>4, <1>6, RunOneStep, ResultsStep
<1>8. (InPhase("cancelled") # {} => InPhase("raised") # {})'
  BY <1>1, CancelledFollowsRaised DEF ClientInRound
<1>9. batch' = batch /\ round' = round /\ setup' = setup
  <2>1. batch' = batch
    BY DEF RunOne, Start, Cancel, TransportRaises, TransportReturns
  <2> QED
    BY <2>1 DEF stepVars
<1>10. \A j \in DOMAIN batch' : AnswersTheRound(batch[j], W)'
  BY <1>1, <1>9, RoundKept
<1>11. \A j \in Results' : MadeFor(batch'[j], client'[j].result, W)
  BY <1>7 DEF ResultsInv
<1> QED
  BY <1>1, <1>7, <1>8, <1>9, <1>10, <1>11 DEF ClientInRound, AnswersTheRound, IsSeq

-----------------------------------------------------------------------------
(* Loading a step.                                                         *)
TodoOf(b, env, ready, W) ==
  /\ IsSeq(b) /\ \A k \in DOMAIN b : IsSeq(b[k])
  /\ \A k \in DOMAIN b : \A i \in DOMAIN b[k] :
       \E e \in DOMAIN ready : \E j \in DOMAIN Profiles :
         Profiles[j] \in Targets(ready[e]) /\ Requested(b[k][i], env, ready[e], j, W)
  /\ \A e \in DOMAIN ready : \A j \in DOMAIN Profiles :
       Profiles[j] \in Targets(ready[e]) =>
         \E k \in DOMAIN b : \E i \in DOMAIN b[k] : b[k][i].agent = Profiles[j]

(* A step's slices hold just the requests for what is ready.               *)
LEMMA TodoMade ==
  ASSUME NEW W, ScenarioSettings(W), setup \in Setups, NEW env, EnvironmentOK(env),
         NEW ready, IsSeq(ready), \A i \in DOMAIN ready : EventOK(ready[i], W)
  PROVE  TodoOf(Batches(Requests(env, ready)), env, ready, W)
<1> DEFINE r == Requests(env, ready)
           b == Batches(r)
<1>1. ScenarioOK /\ ReadyOK(ready)
  BY DEF ScenarioSettings, SetupsOK, ScenarioOK, ReadyOK, EventOK
<1>2. r = Requests(env, ready)
  OBVIOUS
<1> HIDE DEF r
<1>3. IsSeq(r)
  BY <1>1, <1>2, RequestsMade
<1>4. \A k \in DOMAIN r : \E i \in DOMAIN ready : \E j \in DOMAIN Profiles :
        Profiles[j] \in Targets(ready[i]) /\ r[k] = RequestFor(env, ready[i], j)
  BY <1>1, <1>2, RequestsMade
<1>5. \A i \in DOMAIN ready : \A j \in DOMAIN Profiles :
        Profiles[j] \in Targets(ready[i]) => \E k \in DOMAIN r : r[k].agent = Profiles[j]
  BY <1>1, <1>2, RequestsMade
<1>6. Batched(b, r)
  BY <1>3, BatchesMade
<1> HIDE DEF b
<1>7. ASSUME NEW k \in DOMAIN b, NEW i \in DOMAIN b[k]
      PROVE  \E e \in DOMAIN ready : \E j \in DOMAIN Profiles :
               Profiles[j] \in Targets(ready[e]) /\ Requested(b[k][i], env, ready[e], j, W)
  <2>1. PICK l \in DOMAIN r : b[k][i] = r[l]
    BY <1>6 DEF Batched
  <2>2. PICK e \in DOMAIN ready, j \in DOMAIN Profiles :
          Profiles[j] \in Targets(ready[e]) /\ r[l] = RequestFor(env, ready[e], j)
    BY <1>4
  <2>3. Requested(b[k][i], env, ready[e], j, W)
    BY <2>1, <2>2, RequestMade
  <2> QED
    BY <2>2, <2>3
<1>8. ASSUME NEW e \in DOMAIN ready, NEW j \in DOMAIN Profiles, Profiles[j] \in Targets(ready[e])
      PROVE  \E k \in DOMAIN b : \E i \in DOMAIN b[k] : b[k][i].agent = Profiles[j]
  <2>1. PICK l \in DOMAIN r : r[l].agent = Profiles[j]
    BY <1>5, <1>8
  <2>2. \E k \in DOMAIN b : \E i \in DOMAIN b[k] : b[k][i] = r[l]
    BY <1>6 DEF Batched
  <2> QED
    BY <2>1, <2>2
<1> QED
  BY <1>6, <1>7, <1>8 DEF TodoOf, Batched, b, r

(* A step that leaves the round and the setup alone keeps what is known of *)
(* them.                                                                   *)
LEMMA RoundInvKept ==
  ASSUME NEW W, RoundInv(W), UNCHANGED <<setup, round>>, phase' \in {"ready", "running", "raised"}
  PROVE  RoundInv(W)'
BY DEF RoundInv, OperatorIds, Roles, Alarmed, ToSet

(* What is known of an environment holds of the next one that equals it.   *)
LEMMA EnvironmentKept ==
  ASSUME NEW env, EnvironmentOK(env), setup' = setup, environment' = env
  PROVE  EnvironmentOK(environment)'
BY DEF EnvironmentOK

(* An operator's agent has the name of its role.                           *)
LEMMA Alone == \A role \in Operators \cup Suppliers : Agent(role) = role
BY DEF Operators, Suppliers, Agent

(* The environment ticks: all operators are notified.                      *)
LEMMA TickLoads ==
  ASSUME NEW W, ScenarioSettings(W), ScenarioInv(W), LoadStep, events = <<>>
  PROVE  ScenarioInv(W)'
<1>1. /\ phase = "ready" /\ phase' = "running" /\ events' = <<>> /\ setup' = setup
      /\ answers' = answers /\ UNCHANGED clientVars
      /\ environment' = EnvironmentTick.environment
      /\ round' = NewRound(Len(EnvironmentTick.emitted) > 1)
      /\ todo' = Batches(Requests(environment', EnvironmentTick.emitted))
  BY DEF LoadStep
<1>2. EnvironmentOK(environment) /\ ClientInRound(W) /\ RoundInv(W) /\ StepInv(W)
      /\ setup \in Setups /\ NamesOK(W) /\ ScenarioOK
  BY DEF ScenarioInv, RoundInv, ScenarioSettings, SetupsOK, ScenarioOK
<1>3. Ticked(EnvironmentTick, W)
  <2>1. CASE setup.scenario = "storm"
    BY <1>2, <2>1, StormTicks DEF EnvironmentTick
  <2>2. CASE setup.scenario = "supply_chain"
    BY <1>2, <2>2, SupplyChainTicks DEF EnvironmentTick
  <2> QED
    BY <1>2, <2>1, <2>2 DEF ScenarioOK
<1>4. PICK env, ready : env = EnvironmentTick.environment /\ ready = EnvironmentTick.emitted
  OBVIOUS
<1>5. /\ EnvironmentOK(env) /\ IsSeq(ready) /\ \A i \in DOMAIN ready : NoticeOK(ready[i], W)
      /\ \E i \in DOMAIN ready : \A j \in DOMAIN Profiles : Profiles[j] \in Targets(ready[i])
      /\ setup.scenario = "supply_chain" /\ Len(ready) > 1 => env.risk # "normal"
  BY <1>3, <1>4 DEF Ticked
<1>6. PICK b : b = Batches(Requests(env, ready))
  OBVIOUS
<1>7. environment' = env /\ round' = NewRound(Len(ready) > 1) /\ todo' = b
  BY <1>1, <1>4, <1>6
<1>8. TodoOf(b, env, ready, W)
  BY <1>2, <1>5, <1>6, TodoMade DEF NoticeOK
<1>9. /\ round'.hops = 0 /\ round'.unprompted = FALSE /\ round'.alarm = (Len(ready) > 1)
      /\ round' = [f \in {"hops", "unprompted", "alarm", "reported", "acted"} |-> round'[f]]
  BY <1>7 DEF NewRound
<1>10. ASSUME NEW k \in DOMAIN b, NEW i \in DOMAIN b[k] PROVE AnswersTheRound(b[k][i], W)'
  <2> DEFINE q == b[k][i]
  <2>1. PICK e \in DOMAIN ready, j \in DOMAIN Profiles : Requested(q, env, ready[e], j, W)
    BY <1>8 DEF TodoOf
  <2> HIDE DEF q
  <2>2. q.coordinator = AgentCoordinator
    BY <1>5, <2>1 DEF NoticeOK, Requested
  <2>3. round'.alarm /\ q.scenario = "supply_chain" => q.strained
    BY <1>5, <1>9, <2>1 DEF Requested
  <2>4. AnswersTheRound(q, W)'
    BY <1>1, <1>9, <2>1, <2>2, <2>3 DEF AnswersTheRound, Requested
  <2> QED
    BY <2>4 DEF q
<1>11. ASSUME NEW o \in ToSet(OperatorIds)
       PROVE  \E k \in DOMAIN b : \E i \in DOMAIN b[k] : b[k][i].agent = o
  <2>1. PICK j \in DOMAIN Roles : Roles[j] = o /\ o \in Operators \cup Suppliers
    BY <1>2, RolesOfScenario DEF ToSet
  <2>2. j \in DOMAIN Profiles /\ Profiles[j] = o
    BY <1>2, <2>1, RolesOfScenario, Alone
  <2> QED
    BY <1>5, <1>8, <2>2 DEF TodoOf
<1>12. ToSet(OperatorIds)' = ToSet(OperatorIds)
  BY <1>1 DEF OperatorIds, Roles
<1>13. EnvironmentOK(environment)'
  BY <1>1, <1>5, <1>7, EnvironmentKept
<1>14. batch = <<>> /\ answers = <<>> /\ batch' = batch
  BY <1>1, <1>2 DEF StepInv, clientVars
<1>15. ClientInRound(W)'
  <2>1. DOMAIN batch = {}
    BY <1>14, EmptyIsSeq
  <2>2. batch' = batch /\ client' = client /\ backend' = backend
    BY <1>1 DEF clientVars
  <2>3. ClientInv'
    BY <1>2, <2>2 DEF ClientInRound, ClientInv, BackendOK, Sequential, InPhase
  <2>4. Results' = Results /\ \A p : InPhase(p)' = InPhase(p)
    BY <2>2 DEF Results, InPhase
  <2> QED
    BY <1>2, <2>1, <2>2, <2>3, <2>4 DEF ClientInRound, IsSeq
<1>16. RoundInv(W)'
  <2>1. /\ round'.hops \in Nat /\ round'.unprompted \in BOOLEAN /\ ~ round'.unprompted
        /\ round'.hops <= 3 /\ ~ (round'.hops >= 1)
    <3>1. round'.unprompted \in BOOLEAN /\ ~ round'.unprompted
      BY <1>9, Zenon
    <3>2. round'.hops = 0
      BY <1>9
    <3> QED
      BY <3>1, <3>2
  <2>2. setup' \in Setups
    BY <1>1, <1>2
  <2>3. phase' \in {"ready", "running", "raised"}
    BY <1>1
  <2> QED
    BY <1>9, <2>1, <2>2, <2>3, Zenon DEF RoundInv
<1>17. StepInv(W)'
  <2>1. \A o \in ToSet(OperatorIds)' : WillAnswer(o)'
    BY <1>7, <1>11, <1>12 DEF WillAnswer
  <2>2. IsSeq(b) /\ \A k \in DOMAIN b : IsSeq(b[k])
    BY <1>8 DEF TodoOf
  <2>3. IsSeq(todo') /\ \A k \in DOMAIN todo' :
          IsSeq(todo'[k]) /\ \A i \in DOMAIN todo'[k] : AnswersTheRound(todo[k][i], W)'
    BY <1>7, <1>10, <2>2
  <2>4. IsSeq(events') /\ events' = <<>> /\ IsSeq(answers') /\ DOMAIN answers' = {}
    BY <1>1, <1>14, EmptyIsSeq
  <2> QED
    BY <1>1, <1>9, <2>1, <2>3, <2>4 DEF StepInv, IsSeq
<1> QED
  BY <1>13, <1>15, <1>16, <1>17 DEF ScenarioInv

(* Stored events are loaded: those they target belong to the next step of  *)
(* the round.                                                              *)
LEMMA EventsLoad ==
  ASSUME NEW W, ScenarioSettings(W), ScenarioInv(W), LoadStep, events # <<>>
  PROVE  ScenarioInv(W)'
<1>1. /\ phase = "ready" /\ phase' = "running" /\ events' = <<>> /\ setup' = setup
      /\ answers' = answers /\ UNCHANGED clientVars
      /\ environment' = environment /\ round' = round
      /\ todo' = Batches(Requests(environment', events))
  BY DEF LoadStep
<1>2. EnvironmentOK(environment) /\ ClientInRound(W) /\ RoundInv(W) /\ StepInv(W)
      /\ setup \in Setups /\ NamesOK(W) /\ ScenarioOK
  BY DEF ScenarioInv, RoundInv, ScenarioSettings, SetupsOK, ScenarioOK
<1>3. PICK env, ready : env = environment /\ ready = events
  OBVIOUS
<1>4. PICK b : b = Batches(Requests(env, ready))
  OBVIOUS
<1>5. environment' = env /\ todo' = b /\ EnvironmentOK(env) /\ IsSeq(ready)
      /\ \A i \in DOMAIN ready : EventInRound(ready[i], W)
  BY <1>1, <1>2, <1>3, <1>4 DEF StepInv
<1>6. ASSUME NEW i \in DOMAIN ready PROVE EventOK(ready[i], W)
  <2>1. ready[i].operators \in Seq(W) /\ DOMAIN ready[i].operators = {}
    <3>1. ready[i].operators = <<>>
      BY <1>5 DEF EventInRound
    <3>2. <<>> \in Seq(W)
      OBVIOUS
    <3> QED
      BY <3>1, <3>2, EmptyIsSeq
  <2> QED
    BY <1>5, <2>1 DEF EventInRound, EventOK
<1>7. TodoOf(b, env, ready, W)
  BY <1>2, <1>4, <1>5, <1>6, TodoMade
<1>8. round.hops \in Nat /\ round.hops # 0 /\ ~ (round.hops = 0) /\ round.hops >= 1
  BY <1>1, <1>2 DEF StepInv, RoundInv
<1>9. \E i \in DOMAIN ready : TRUE
  BY <1>3, <1>5, NoItems
<1>10. ~ round.unprompted => round.hops <= 2
  BY <1>5, <1>9 DEF EventInRound
<1>11. ASSUME NEW k \in DOMAIN b, NEW i \in DOMAIN b[k] PROVE AnswersTheRound(b[k][i], W)'
  <2> DEFINE q == b[k][i]
  <2>1. PICK e \in DOMAIN ready, j \in DOMAIN Profiles :
          Profiles[j] \in Targets(ready[e]) /\ Requested(q, env, ready[e], j, W)
    BY <1>7 DEF TodoOf
  <2> HIDE DEF q
  <2>2. EventInRound(ready[e], W)
    BY <1>5
  <2>3. ready[e].to = {AgentCoordinator} => q.role = "coordinator"
    <3> SUFFICES ASSUME ready[e].to = {AgentCoordinator} PROVE q.role = "coordinator"
      OBVIOUS
    <3>1. Agent(q.role) = AgentCoordinator
      BY <2>1 DEF Targets, Requested
    <3>2. q.role \in {"coordinator", "forecaster"} \cup Operators \cup Suppliers
      BY <1>2, <2>1, RolesOfScenario DEF Requested
    <3> QED
      BY <1>2, <3>1, <3>2 DEF Agent, NamesOK
  <2>4. round.hops = 1 /\ ~ round.unprompted =>
          /\ q.operators = <<>> /\ q.coordinator = None
          /\ q.role # "coordinator" => q.sender = AgentCoordinator
    BY <2>1, <2>2, <2>3 DEF EventInRound, Requested
  <2>5. round.hops >= 2 /\ ~ round.unprompted => q.operators = <<>> /\ q.role = "coordinator"
    BY <1>8, <1>10, <2>1, <2>2, <2>3 DEF EventInRound, Requested
  <2>6. AnswersTheRound(q, W)
    BY <1>8, <2>1, <2>4, <2>5 DEF AnswersTheRound, Requested
  <2>7. AnswersTheRound(q, W)'
    BY <1>1, <2>6, RoundKept
  <2> QED
    BY <2>7 DEF q
<1>12. EnvironmentOK(environment)'
  BY <1>1, <1>5, EnvironmentKept
<1>13. ClientInRound(W)'
  BY <1>1, <1>2, ClientKept
<1>14. RoundInv(W)'
  BY <1>1, <1>2, RoundInvKept
<1>15. StepInv(W)'
  <2>1. answers = <<>>
    BY <1>1, <1>2 DEF StepInv
  <2>2. IsSeq(b) /\ \A k \in DOMAIN b : IsSeq(b[k])
    BY <1>7 DEF TodoOf
  <2>3. IsSeq(todo') /\ \A k \in DOMAIN todo' :
          IsSeq(todo'[k]) /\ \A i \in DOMAIN todo'[k] : AnswersTheRound(todo[k][i], W)'
    BY <1>5, <1>11, <2>2
  <2>4. IsSeq(events') /\ events' = <<>> /\ IsSeq(answers') /\ DOMAIN answers' = {}
    BY <1>1, <2>1, EmptyIsSeq
  <2> QED
    BY <1>1, <1>8, <1>10, <2>3, <2>4 DEF StepInv, IsSeq
<1> QED
  BY <1>12, <1>13, <1>14, <1>15 DEF ScenarioInv

-----------------------------------------------------------------------------
(* Answers are added to those of the step.                                 *)
HasAnsweredIn(s, o) ==
  \E i \in DOMAIN s :
    /\ s[i].agent = o /\ ReportsBack(s[i])
    /\ Alarmed /\ o \in Responders => Intervenes(s[i])

(* What a batch of requests r is answered with.                            *)
AnswersTo(t, r, W) ==
  /\ IsSeq(t) /\ DOMAIN t = DOMAIN r
  /\ \A i \in DOMAIN t :
       /\ AnswerInRound(t[i], W) /\ t[i].agent = r[i].agent
       /\ round.hops = 0 /\ r[i].role \in Operators \cup Suppliers =>
            ReportsBack(t[i]) /\ (Alarmed /\ r[i].role \in Responders => Intervenes(t[i]))

(* Answers are added: all belong to the round, and operators in the batch  *)
(* have answered.                                                          *)
LEMMA AnswersAdded ==
  ASSUME NEW W, NamesOK(W), NEW r, NEW t, AnswersTo(t, r, W),
         \A i \in DOMAIN r : AnswersTheRound(r[i], W),
         NEW s, IsSeq(s), \A i \in DOMAIN s : AnswerInRound(s[i], W),
         NEW u, u = s \o t
  PROVE  /\ IsSeq(u) /\ \A i \in DOMAIN u : AnswerInRound(u[i], W)
         /\ \A o : HasAnsweredIn(s, o) => HasAnsweredIn(u, o)
         /\ round.hops = 0 => \A o \in Operators \cup Suppliers :
              (\E i \in DOMAIN r : r[i].agent = o) => HasAnsweredIn(u, o)
<1>1. IsSeq(t)
  BY DEF AnswersTo
<1>2. Joins(s \o t, s, t)
  BY <1>1, SeqJoined
<1> DEFINE v == s \o t
<1>3. u = v
  OBVIOUS
<1> HIDE DEF v
<1>4. Joins(u, s, t)
  BY <1>2, <1>3 DEF v
<1>5. /\ IsSeq(u)
      /\ \A i \in DOMAIN u : (\E j \in DOMAIN s : u[i] = s[j]) \/ (\E j \in DOMAIN t : u[i] = t[j])
      /\ \A j \in DOMAIN s : \E i \in DOMAIN u : u[i] = s[j]
      /\ \A j \in DOMAIN t : \E i \in DOMAIN u : u[i] = t[j]
  BY <1>4 DEF Joins
<1>6. \A i \in DOMAIN u : AnswerInRound(u[i], W)
  BY <1>5 DEF AnswersTo
<1>7. ASSUME NEW o, HasAnsweredIn(s, o) PROVE HasAnsweredIn(u, o)
  <2>1. PICK j \in DOMAIN s : s[j].agent = o /\ ReportsBack(s[j]) /\ (Alarmed /\ o \in Responders => Intervenes(s[j]))
    BY <1>7 DEF HasAnsweredIn
  <2>2. PICK i \in DOMAIN u : u[i] = s[j]
    BY <1>5
  <2> QED
    BY <2>1, <2>2 DEF HasAnsweredIn
<1>8. ASSUME round.hops = 0, NEW o \in Operators \cup Suppliers, NEW j \in DOMAIN r, r[j].agent = o
      PROVE  HasAnsweredIn(u, o)
  <2>1. r[j].role = o
    <3>1. AnswersTheRound(r[j], W)
      OBVIOUS
    <3>2. Agent(r[j].role) = o
      BY <1>8, <3>1 DEF AnswersTheRound
    <3> QED
      BY <3>2 DEF Agent, NamesOK
  <2>2. j \in DOMAIN t /\ t[j].agent = o /\ ReportsBack(t[j]) /\ (Alarmed /\ o \in Responders => Intervenes(t[j]))
    BY <1>8, <2>1 DEF AnswersTo
  <2>3. PICK i \in DOMAIN u : u[i] = t[j]
    BY <1>5, <2>2
  <2> QED
    BY <2>2, <2>3 DEF HasAnsweredIn
<1> QED
  BY <1>5, <1>6, <1>7, <1>8

(* An answer stays one of the round while the round stands.                *)
LEMMA AnswerKept ==
  ASSUME NEW a, NEW W, AnswerInRound(a, W), round' = round
  PROVE  AnswerInRound(a, W)'
BY DEF AnswerInRound

(* A scenario's operators are operators or suppliers.                      *)
LEMMA OperatorsAmong ==
  ASSUME ScenarioOK
  PROVE  ToSet(OperatorIds) \subseteq Operators \cup Suppliers
BY RolesOfScenario DEF ToSet

(* The execution of a step, with b left of it and the answers s.           *)
GoesOn(b, s, W) ==
  /\ phase = "running" /\ phase' = "running" /\ todo' = b /\ answers' = s
  /\ UNCHANGED <<setup, environment, events, round>>
  /\ IsSeq(b)
  /\ \A k \in DOMAIN b : IsSeq(b[k]) /\ \A i \in DOMAIN b[k] : AnswersTheRound(b[k][i], W)
  /\ IsSeq(s) /\ \A i \in DOMAIN s : AnswerInRound(s[i], W)
  /\ round.hops = 0 => \A o \in ToSet(OperatorIds) :
       \/ HasAnsweredIn(s, o)
       \/ \E i \in DOMAIN batch' : batch'[i].agent = o
       \/ \E k \in DOMAIN b : \E i \in DOMAIN b[k] : b[k][i].agent = o

(* In the execution of a step, what is left and what has been answered is  *)
(* all there is to know.                                                   *)
LEMMA StepGoesOn ==
  ASSUME NEW W, ScenarioSettings(W), ScenarioInv(W), ClientInRound(W)',
         NEW b, NEW s, GoesOn(b, s, W)
  PROVE  ScenarioInv(W)'
<1> USE DEF GoesOn
<1>1. EnvironmentOK(environment) /\ RoundInv(W) /\ StepInv(W)
  BY DEF ScenarioInv
<1>2. EnvironmentOK(environment)'
  BY <1>1, EnvironmentKept
<1>3. RoundInv(W)'
  BY <1>1, RoundInvKept
<1>4. \A k \in DOMAIN todo' :
        IsSeq(todo'[k]) /\ \A i \in DOMAIN todo'[k] : AnswersTheRound(todo[k][i], W)'
  BY RoundKept
<1>5. \A i \in DOMAIN answers' : AnswerInRound(answers[i], W)'
  BY AnswerKept
<1>6. /\ IsSeq(events') /\ IsSeq(todo') /\ IsSeq(answers') /\ events' = <<>>
      /\ ~ round'.unprompted => round'.hops <= 2
  BY <1>1 DEF StepInv
<1>7. round'.hops = 0 => \A o \in ToSet(OperatorIds)' : HasAnswered(o)' \/ WillAnswer(o)'
  <2> SUFFICES ASSUME round.hops = 0, NEW o \in ToSet(OperatorIds)
               PROVE  HasAnswered(o)' \/ WillAnswer(o)'
    <3>1. ToSet(OperatorIds)' = ToSet(OperatorIds)
      BY DEF OperatorIds, Roles
    <3> QED
      BY <3>1
  <2>1. CASE HasAnsweredIn(s, o)
    BY <2>1 DEF HasAnsweredIn, HasAnswered, Alarmed, ReportsBack, Intervenes
  <2>2. CASE \/ \E i \in DOMAIN batch' : batch'[i].agent = o
             \/ \E k \in DOMAIN b : \E i \in DOMAIN b[k] : b[k][i].agent = o
    BY <2>2 DEF WillAnswer
  <2> QED
    BY <2>1, <2>2
<1>8. StepInv(W)'
  BY <1>4, <1>5, <1>6, <1>7 DEF StepInv, IsSeq
<1> QED
  BY <1>2, <1>3, <1>8 DEF ScenarioInv

(* A slice answered by rule.                                               *)
LEMMA RuleRuns ==
  ASSUME NEW W, ScenarioSettings(W), ScenarioInv(W), RunByRule
  PROVE  ScenarioInv(W)'
<1>1. /\ phase = "running" /\ phase' = "running" /\ todo # <<>> /\ todo' = Tail(todo)
      /\ answers' = answers \o [i \in DOMAIN Head(todo) |-> RuleAnswer(Head(todo)[i])]
      /\ UNCHANGED <<setup, environment, events, round, clientVars>>
  BY DEF RunByRule
<1>2. EnvironmentOK(environment) /\ ClientInRound(W) /\ RoundInv(W) /\ StepInv(W)
      /\ setup \in Setups /\ NamesOK(W) /\ ScenarioOK
  BY DEF ScenarioInv, RoundInv, ScenarioSettings, SetupsOK, ScenarioOK
<1>3. round.hops \in Nat /\ round.unprompted \in BOOLEAN
  BY <1>2 DEF RoundInv
<1>4. /\ IsSeq(todo) /\ IsSeq(answers) /\ \A i \in DOMAIN answers : AnswerInRound(answers[i], W)
      /\ \A k \in DOMAIN todo :
           IsSeq(todo[k]) /\ \A i \in DOMAIN todo[k] : AnswersTheRound(todo[k][i], W)
      /\ round.hops = 0 => \A o \in ToSet(OperatorIds) : HasAnswered(o) \/ WillAnswer(o)
  BY <1>1, <1>2 DEF StepInv
<1>5. PICK b, r : b = Tail(todo) /\ r = Head(todo)
  OBVIOUS
<1>6. /\ IsSeq(b) /\ 1 \in DOMAIN todo /\ r = todo[1]
      /\ \A i \in DOMAIN b : i + 1 \in DOMAIN todo /\ b[i] = todo[i + 1]
      /\ \A i \in DOMAIN todo : i # 1 => i - 1 \in DOMAIN b /\ b[i - 1] = todo[i]
  BY <1>1, <1>4, <1>5, SeqTail
<1>7. PICK t : t = [i \in DOMAIN r |-> RuleAnswer(r[i])]
  OBVIOUS
<1>8. IsSeq(r) /\ \A i \in DOMAIN r : AnswersTheRound(r[i], W)
  BY <1>4, <1>6
<1>9. AnswersTo(t, r, W)
  <2>1. DOMAIN r = 1 .. Len(r) /\ Len(r) \in Nat
    BY <1>8, SeqFacts
  <2>2. IsSeq(t) /\ DOMAIN t = DOMAIN r
    <3>1. t = [i \in 1 .. Len(r) |-> t[i]]
      BY <1>7, <2>1
    <3> QED
      BY <2>1, <3>1, SeqMade
  <2>3. ASSUME NEW i \in DOMAIN r
        PROVE  /\ AnswerInRound(t[i], W) /\ t[i].agent = r[i].agent
               /\ round.hops = 0 /\ r[i].role \in Operators \cup Suppliers =>
                    ReportsBack(t[i]) /\ (Alarmed /\ r[i].role \in Responders => Intervenes(t[i]))
    <3> DEFINE q == r[i]
               a == RuleAnswer(q)
    <3>1. t[i] = a
      BY <1>7
    <3>2. AnswersTheRound(q, W)
      BY <1>8
    <3> HIDE DEF q
    <3>3. /\ AnswerInRound(a, W) /\ a.agent = q.agent
          /\ round.hops = 0 /\ q.role \in Operators \cup Suppliers =>
               ReportsBack(a) /\ (Alarmed /\ q.role \in Responders => Intervenes(a))
      BY <1>2, <1>3, <3>2, RuleAnswers
    <3> HIDE DEF a
    <3> QED
      BY <3>1, <3>3 DEF q
  <2> QED
    BY <2>2, <2>3 DEF AnswersTo
<1>10. PICK s, u : s = answers /\ u = s \o t
  OBVIOUS
<1>11. answers' = u /\ todo' = b
  BY <1>1, <1>5, <1>7, <1>10
<1>12. /\ IsSeq(u) /\ \A i \in DOMAIN u : AnswerInRound(u[i], W)
       /\ \A o : HasAnsweredIn(s, o) => HasAnsweredIn(u, o)
       /\ round.hops = 0 => \A o \in Operators \cup Suppliers :
            (\E i \in DOMAIN r : r[i].agent = o) => HasAnsweredIn(u, o)
  BY <1>2, <1>4, <1>8, <1>9, <1>10, AnswersAdded
<1>13. round.hops = 0 => \A o \in ToSet(OperatorIds) :
         \/ HasAnsweredIn(u, o)
         \/ \E i \in DOMAIN batch' : batch'[i].agent = o
         \/ \E k \in DOMAIN b : \E i \in DOMAIN b[k] : b[k][i].agent = o
  <2> SUFFICES ASSUME round.hops = 0, NEW o \in ToSet(OperatorIds)
               PROVE  \/ HasAnsweredIn(u, o)
                      \/ \E i \in DOMAIN batch' : batch'[i].agent = o
                      \/ \E k \in DOMAIN b : \E i \in DOMAIN b[k] : b[k][i].agent = o
    OBVIOUS
  <2>1. CASE HasAnswered(o)
    BY <1>10, <1>12, <2>1 DEF HasAnswered, HasAnsweredIn
  <2>2. CASE \E i \in DOMAIN batch : batch[i].agent = o
    BY <1>1, <2>2 DEF clientVars
  <2>3. CASE \E k \in DOMAIN todo : \E i \in DOMAIN todo[k] : todo[k][i].agent = o
    <3>1. PICK k \in DOMAIN todo : \E i \in DOMAIN todo[k] : todo[k][i].agent = o
      BY <2>3
    <3>2. CASE k = 1
      <4>1. o \in Operators \cup Suppliers
        BY <1>2, OperatorsAmong
      <4> QED
        BY <1>6, <1>12, <3>1, <3>2, <4>1
    <3>3. CASE k # 1
      BY <1>6, <3>1, <3>3
    <3> QED
      BY <3>2, <3>3
  <2> QED
    BY <1>4, <2>1, <2>2, <2>3 DEF WillAnswer
<1>14. ClientInRound(W)'
  BY <1>1, <1>2, ClientKept
<1>15. \A k \in DOMAIN b : IsSeq(b[k]) /\ \A i \in DOMAIN b[k] : AnswersTheRound(b[k][i], W)
  BY <1>4, <1>6
<1>16. GoesOn(b, u, W)
  BY <1>1, <1>6, <1>11, <1>12, <1>13, <1>15 DEF GoesOn
<1> QED
  BY <1>14, <1>16, StepGoesOn

(* A slice handed to the client.                                           *)
LEMMA BatchRuns ==
  ASSUME NEW W, ScenarioSettings(W), ScenarioInv(W), RunBatch
  PROVE  ScenarioInv(W)'
<1>1. /\ phase = "running" /\ phase' = "running" /\ batch = <<>> /\ todo # <<>>
      /\ StartBatch(Head(todo)) /\ todo' = Tail(todo)
      /\ UNCHANGED <<setup, environment, events, answers, round>>
  BY DEF RunBatch
<1>2. ClientInRound(W) /\ StepInv(W)
  BY DEF ScenarioInv
<1>3. /\ IsSeq(todo) /\ IsSeq(answers) /\ \A i \in DOMAIN answers : AnswerInRound(answers[i], W)
      /\ \A k \in DOMAIN todo :
           IsSeq(todo[k]) /\ \A i \in DOMAIN todo[k] : AnswersTheRound(todo[k][i], W)
      /\ round.hops = 0 => \A o \in ToSet(OperatorIds) : HasAnswered(o) \/ WillAnswer(o)
  BY <1>1, <1>2 DEF StepInv
<1>4. PICK b, r, s : b = Tail(todo) /\ r = Head(todo) /\ s = answers
  OBVIOUS
<1>5. /\ IsSeq(b) /\ 1 \in DOMAIN todo /\ r = todo[1]
      /\ \A i \in DOMAIN b : i + 1 \in DOMAIN todo /\ b[i] = todo[i + 1]
      /\ \A i \in DOMAIN todo : i # 1 => i - 1 \in DOMAIN b /\ b[i - 1] = todo[i]
  BY <1>1, <1>3, <1>4, SeqTail
<1>6. IsSeq(r) /\ \A i \in DOMAIN r : AnswersTheRound(r[i], W)
  BY <1>3, <1>5
<1>7. StartBatch(r) /\ batch' = r
  BY <1>1, <1>4 DEF StartBatch
<1>8. ClientInRound(W)'
  BY <1>1, <1>2, <1>6, <1>7, BatchStarts DEF ClientInRound
<1>9. round.hops = 0 => \A o \in ToSet(OperatorIds) :
        \/ HasAnsweredIn(s, o)
        \/ \E i \in DOMAIN batch' : batch'[i].agent = o
        \/ \E k \in DOMAIN b : \E i \in DOMAIN b[k] : b[k][i].agent = o
  <2> SUFFICES ASSUME round.hops = 0, NEW o \in ToSet(OperatorIds)
               PROVE  \/ HasAnsweredIn(s, o)
                      \/ \E i \in DOMAIN batch' : batch'[i].agent = o
                      \/ \E k \in DOMAIN b : \E i \in DOMAIN b[k] : b[k][i].agent = o
    OBVIOUS
  <2>1. CASE HasAnswered(o)
    BY <1>4, <2>1 DEF HasAnswered, HasAnsweredIn
  <2>2. CASE \E i \in DOMAIN batch : batch[i].agent = o
    BY <1>1, <2>2, EmptyIsSeq
  <2>3. CASE \E k \in DOMAIN todo : \E i \in DOMAIN todo[k] : todo[k][i].agent = o
    <3>1. PICK k \in DOMAIN todo : \E i \in DOMAIN todo[k] : todo[k][i].agent = o
      BY <2>3
    <3>2. CASE k = 1
      BY <1>5, <1>7, <3>1, <3>2
    <3>3. CASE k # 1
      BY <1>5, <3>1, <3>3
    <3> QED
      BY <3>2, <3>3
  <2> QED
    BY <1>3, <2>1, <2>2, <2>3 DEF WillAnswer
<1>10. \A k \in DOMAIN b : IsSeq(b[k]) /\ \A i \in DOMAIN b[k] : AnswersTheRound(b[k][i], W)
  BY <1>3, <1>5
<1>11. GoesOn(b, s, W)
  BY <1>1, <1>3, <1>4, <1>5, <1>9, <1>10 DEF GoesOn
<1> QED
  BY <1>8, <1>11, StepGoesOn

(* The results of a batch.                                                 *)
LEMMA BatchReturns ==
  ASSUME NEW W, ScenarioSettings(W), ScenarioInv(W), ReturnBatch
  PROVE  ScenarioInv(W)'
<1>1. /\ phase = "running" /\ phase' = "running" /\ BatchOver /\ InPhase("raised") = {}
      /\ answers' = answers \o [i \in DOMAIN batch |-> Answered(batch[i], client[i].result)]
      /\ StartBatch(<<>>)
      /\ UNCHANGED <<setup, environment, events, todo, round>>
  BY DEF ReturnBatch
<1>2. ClientInRound(W) /\ RoundInv(W) /\ StepInv(W) /\ NamesOK(W) /\ ScenarioOK
  BY DEF ScenarioInv, RoundInv, ScenarioSettings, SetupsOK, ScenarioOK
<1>3. round.hops \in Nat /\ round.unprompted \in BOOLEAN
  BY <1>2 DEF RoundInv
<1>4. /\ IsSeq(todo) /\ IsSeq(answers) /\ \A i \in DOMAIN answers : AnswerInRound(answers[i], W)
      /\ \A k \in DOMAIN todo :
           IsSeq(todo[k]) /\ \A i \in DOMAIN todo[k] : AnswersTheRound(todo[k][i], W)
      /\ round.hops = 0 => \A o \in ToSet(OperatorIds) : HasAnswered(o) \/ WillAnswer(o)
  BY <1>1, <1>2 DEF StepInv
<1>5. PICK b, r, s : b = todo /\ r = batch /\ s = answers
  OBVIOUS
<1>6. PICK t, u : t = [i \in DOMAIN r |-> Answered(r[i], client[i].result)] /\ u = s \o t
  OBVIOUS
<1>7. IsSeq(r) /\ \A i \in DOMAIN r : AnswersTheRound(r[i], W)
  BY <1>2, <1>5 DEF ClientInRound
<1>8. ASSUME NEW i \in DOMAIN r
      PROVE  MadeFor(r[i], client[i].result, W)
  <2>1. DOMAIN client = DOMAIN r
    BY <1>2, <1>5, <1>7, SeqFacts DEF ClientInRound, ClientInv
  <2>2. Finished(i)
    BY <1>1, <2>1 DEF BatchOver
  <2>3. client[i].phase # "raised" /\ client[i].phase # "cancelled"
    BY <1>1, <1>2, <2>1 DEF ClientInRound, InPhase
  <2>4. i \in Results
    BY <2>1, <2>2, <2>3 DEF Finished, Results
  <2> QED
    BY <1>2, <1>5, <2>4 DEF ClientInRound
<1>9. AnswersTo(t, r, W)
  <2>1. DOMAIN r = 1 .. Len(r) /\ Len(r) \in Nat
    BY <1>7, SeqFacts
  <2>2. IsSeq(t) /\ DOMAIN t = DOMAIN r
    <3>1. t = [i \in 1 .. Len(r) |-> t[i]]
      BY <1>6, <2>1
    <3> QED
      BY <2>1, <3>1, SeqMade
  <2>3. ASSUME NEW i \in DOMAIN r
        PROVE  /\ AnswerInRound(t[i], W) /\ t[i].agent = r[i].agent
               /\ round.hops = 0 /\ r[i].role \in Operators \cup Suppliers =>
                    ReportsBack(t[i]) /\ (Alarmed /\ r[i].role \in Responders => Intervenes(t[i]))
    <3> DEFINE q == r[i]
               result == client[i].result
               a == Answered(q, result)
    <3>1. t[i] = a
      BY <1>6
    <3>2. AnswersTheRound(q, W)
      BY <1>7
    <3>3. MadeFor(q, result, W)
      BY <1>8
    <3> HIDE DEF q, result
    <3>4. /\ AnswerInRound(a, W) /\ a.agent = q.agent
          /\ round.hops = 0 /\ q.role \in Operators \cup Suppliers =>
               ReportsBack(a) /\ (Alarmed /\ q.role \in Responders => Intervenes(a))
      BY <1>2, <1>3, <3>2, <3>3, ModelAnswers
    <3> HIDE DEF a
    <3> QED
      BY <3>1, <3>4 DEF q
  <2> QED
    BY <2>2, <2>3 DEF AnswersTo
<1>10. answers' = u /\ todo' = b /\ batch' = <<>>
  BY <1>1, <1>5, <1>6 DEF StartBatch
<1>11. /\ IsSeq(u) /\ \A i \in DOMAIN u : AnswerInRound(u[i], W)
       /\ \A o : HasAnsweredIn(s, o) => HasAnsweredIn(u, o)
       /\ round.hops = 0 => \A o \in Operators \cup Suppliers :
            (\E i \in DOMAIN r : r[i].agent = o) => HasAnsweredIn(u, o)
  BY <1>2, <1>4, <1>5, <1>6, <1>7, <1>9, AnswersAdded
<1>12. round.hops = 0 => \A o \in ToSet(OperatorIds) :
         \/ HasAnsweredIn(u, o)
         \/ \E i \in DOMAIN batch' : batch'[i].agent = o
         \/ \E k \in DOMAIN b : \E i \in DOMAIN b[k] : b[k][i].agent = o
  <2> SUFFICES ASSUME round.hops = 0, NEW o \in ToSet(OperatorIds)
               PROVE  \/ HasAnsweredIn(u, o)
                      \/ \E i \in DOMAIN batch' : batch'[i].agent = o
                      \/ \E k \in DOMAIN b : \E i \in DOMAIN b[k] : b[k][i].agent = o
    OBVIOUS
  <2>1. CASE HasAnswered(o)
    BY <1>5, <1>11, <2>1 DEF HasAnswered, HasAnsweredIn
  <2>2. CASE \E i \in DOMAIN batch : batch[i].agent = o
    <3>1. o \in Operators \cup Suppliers
      BY <1>2, OperatorsAmong
    <3> QED
      BY <1>5, <1>11, <2>2, <3>1
  <2>3. CASE \E k \in DOMAIN todo : \E i \in DOMAIN todo[k] : todo[k][i].agent = o
    BY <1>5, <2>3
  <2> QED
    BY <1>4, <2>1, <2>2, <2>3 DEF WillAnswer
<1>13. ClientInRound(W)'
  <2> DEFINE none == <<>>
  <2>1. IsSeq(none) /\ DOMAIN none = {} /\ StartBatch(none)
    BY <1>1, EmptyIsSeq
  <2> HIDE DEF none
  <2> QED
    BY <1>1, <1>2, <2>1, BatchStarts DEF ClientInRound
<1>14. GoesOn(b, u, W)
  BY <1>1, <1>4, <1>5, <1>10, <1>11, <1>12 DEF GoesOn
<1> QED
  BY <1>13, <1>14, StepGoesOn

(* A batch that raises leaves step() with nothing committed.               *)
LEMMA BatchRaises ==
  ASSUME NEW W, ScenarioSettings(W), ScenarioInv(W), RaiseFromBatch
  PROVE  ScenarioInv(W)'
<1>1. phase' = "raised" /\ UNCHANGED <<setup, environment, events, todo, answers, round, clientVars>>
  BY DEF RaiseFromBatch
<1>2. EnvironmentOK(environment) /\ ClientInRound(W) /\ RoundInv(W) /\ StepInv(W)
  BY DEF ScenarioInv
<1>3. EnvironmentOK(environment)' /\ ClientInRound(W)' /\ RoundInv(W)'
  BY <1>1, <1>2, EnvironmentKept, ClientKept, RoundInvKept
<1>4. \A k \in DOMAIN todo' : \A i \in DOMAIN todo'[k] : AnswersTheRound(todo[k][i], W)'
  BY <1>1, <1>2, RoundKept DEF StepInv
<1>5. StepInv(W)'
  BY <1>1, <1>2, <1>4 DEF StepInv, IsSeq
<1> QED
  BY <1>3, <1>5 DEF ScenarioInv

(* Inside a batch nothing else changes.                                    *)
LEMMA ClientRuns ==
  ASSUME NEW W, ScenarioSettings(W), ScenarioInv(W), NEW i \in DOMAIN client, RunOne(i),
         UNCHANGED stepVars
  PROVE  ScenarioInv(W)'
<1>1. UNCHANGED <<setup, environment, events, phase, todo, answers, steps, round>>
  BY DEF stepVars
<1>2. EnvironmentOK(environment) /\ ClientInRound(W) /\ RoundInv(W) /\ StepInv(W) /\ phase \in {"ready", "running", "raised"}
  BY DEF ScenarioInv, RoundInv
<1>3. ClientInRound(W)' /\ batch' = batch
  BY <1>2, RunOneInRound
<1>4. EnvironmentOK(environment)' /\ RoundInv(W)'
  BY <1>1, <1>2, EnvironmentKept, RoundInvKept
<1>5. \A k \in DOMAIN todo' : \A j \in DOMAIN todo'[k] : AnswersTheRound(todo[k][j], W)'
  BY <1>1, <1>2, RoundKept DEF StepInv
<1>6. phase # "raised" => \A j \in DOMAIN answers' : AnswerInRound(answers[j], W)'
  BY <1>1, <1>2, AnswerKept DEF StepInv
<1>7. phase = "ready" => \A j \in DOMAIN events' : EventInRound(events[j], W)'
  BY <1>1, <1>2 DEF StepInv, EventInRound
<1>8. phase = "running" /\ round'.hops = 0 =>
        \A o \in ToSet(OperatorIds)' : HasAnswered(o)' \/ WillAnswer(o)'
  BY <1>1, <1>2, <1>3 DEF StepInv, HasAnswered, WillAnswer, Alarmed, ReportsBack, Intervenes,
     OperatorIds, Roles
<1>9. StepInv(W)'
  BY <1>1, <1>2, <1>3, <1>5, <1>6, <1>7, <1>8 DEF StepInv, IsSeq
<1> QED
  BY <1>3, <1>4, <1>9 DEF ScenarioInv

-----------------------------------------------------------------------------
(* The events of an answer.                                                *)
EventOf(u, a, W) ==
  /\ u.prio \in Int /\ u.operators = <<>> /\ u.coordinator \in W /\ u.sender \in W
  /\ ~ a.unprompted =>
       /\ u.coordinator = None /\ u.sender = a.agent
       /\ \E m \in DOMAIN a.messages : u.to = {a.messages[m].to}

(* The router's events for an answer are its messages to known agents.     *)
LEMMA EventsOfAnswer ==
  ASSUME NEW W, NamesOK(W), NEW a, AnswerInRound(a, W)
  PROVE  IsSeq(EventsOf(a)) /\ \A i \in DOMAIN EventsOf(a) : EventOf(EventsOf(a)[i], a, W)
<1> DEFINE ms == a.messages
           T == {i \in DOMAIN ms : ms[i].to \in ToSet(Profiles)}
           known == Selection(ms, T)
           s == [i \in DOMAIN known |->
                   [to |-> {known[i].to}, prio |-> known[i].prio, operators |-> <<>>,
                    coordinator |-> None, sender |-> a.agent]]
           t == [i \in DOMAIN a.events |->
                   [to |-> a.events[i].to, prio |-> a.events[i].prio, operators |-> <<>>,
                    coordinator |-> a.events[i].coordinator, sender |-> None]]
           u == s \o t
<1>1. EventsOf(a) = u
  BY DEF EventsOf, Within
<1>2. /\ a.agent \in W /\ IsSeq(ms) /\ IsSeq(a.events)
      /\ \A m \in DOMAIN ms : ms[m].prio \in Int
      /\ \A i \in DOMAIN a.events : a.events[i].prio \in Int /\ a.events[i].coordinator \in W
      /\ ~ a.unprompted => a.events = <<>>
  BY DEF AnswerInRound
<1>3. None \in W
  BY DEF NamesOK, WordsOK
<1>4. ms \in Seq(ToSet(ms))
  BY <1>2, SeqFacts
<1>5. T \in SUBSET DOMAIN ms
  OBVIOUS
<1>6. PICK n : n = Cardinality(T)
  OBVIOUS
<1> HIDE DEF T, ms
<1>7. /\ known \in Seq(ToSet(ms)) /\ Len(known) = n /\ n \in Nat
      /\ \E place : Enumerates(place, ms, T)
  BY <1>4, <1>5, <1>6, SelectionExact
<1>8. DOMAIN known = 1 .. n
  BY <1>7, LenProperties
<1>9. ASSUME NEW i \in DOMAIN known PROVE \E m \in DOMAIN ms : known[i] = ms[m]
  <2>1. PICK place : Enumerates(place, ms, T)
    BY <1>7
  <2>2. place \in [1 .. n -> T] /\ \A k \in 1 .. n : known[k] = ms[place[k]]
    BY <1>6, <2>1 DEF Enumerates
  <2> HIDE DEF known
  <2> QED
    BY <1>5, <1>8, <2>2
<1> HIDE DEF known
<1>10. IsSeq(s) /\ DOMAIN s = DOMAIN known
  <2>1. s = [i \in 1 .. n |-> s[i]]
    BY <1>8
  <2> HIDE DEF s
  <2> QED
    BY <1>7, <1>8, <2>1, SeqMade
<1>11. IsSeq(t) /\ DOMAIN t = DOMAIN a.events
  <2>1. DOMAIN a.events = 1 .. Len(a.events) /\ Len(a.events) \in Nat
    BY <1>2, SeqFacts
  <2>2. t = [i \in 1 .. Len(a.events) |-> t[i]]
    BY <2>1
  <2> HIDE DEF t
  <2> QED
    BY <2>1, <2>2, SeqMade
<1>12. ASSUME NEW i \in DOMAIN s PROVE EventOf(s[i], a, W)
  <2>1. i \in DOMAIN known
    BY <1>10
  <2>2. PICK m \in DOMAIN ms : known[i] = ms[m]
    BY <1>9, <2>1
  <2>3. /\ s[i].to = {ms[m].to} /\ s[i].prio = ms[m].prio /\ s[i].operators = <<>>
        /\ s[i].coordinator = None /\ s[i].sender = a.agent
    BY <2>1, <2>2
  <2> HIDE DEF s
  <2> QED
    BY <1>2, <1>3, <2>3 DEF EventOf, ms
<1>13. ASSUME NEW i \in DOMAIN t PROVE EventOf(t[i], a, W)
  <2>1. i \in DOMAIN a.events
    BY <1>11
  <2>2. a.unprompted
    BY <1>2, <2>1, EmptyIsSeq
  <2>3. /\ t[i].prio = a.events[i].prio /\ t[i].operators = <<>>
        /\ t[i].coordinator = a.events[i].coordinator /\ t[i].sender = None
    BY <2>1
  <2> HIDE DEF t
  <2> QED
    BY <1>2, <1>3, <2>1, <2>2, <2>3 DEF EventOf
<1> HIDE DEF s, t
<1>14. Joins(u, s, t)
  BY <1>10, <1>11, SeqJoined
<1> HIDE DEF u
<1>15. IsSeq(u) /\ \A i \in DOMAIN u : EventOf(u[i], a, W)
  BY <1>12, <1>13, <1>14 DEF Joins
<1> QED
  BY <1>1, <1>15

(* Who can act on the stocks is an operator of a supply chain.             *)
LEMMA RespondersOperate ==
  ASSUME setup.scenario = "supply_chain"
  PROVE  Responders \subseteq ToSet(OperatorIds)
<1>1. Roles = <<"coordinator", "supplier", "warehouse", "transport", "retailer">>
  BY DEF Roles
<1>2. OperatorIds = Tail(Roles)
  BY DEF OperatorIds
<1>3. OperatorIds = <<"supplier", "warehouse", "transport", "retailer">>
  BY <1>1, <1>2
<1>4. OperatorIds[1] = "supplier" /\ OperatorIds[3] = "transport" /\ DOMAIN OperatorIds = 1 .. 4
  BY <1>3
<1> QED
  BY <1>4 DEF ToSet, Responders

-----------------------------------------------------------------------------
(* The commits of a step.                                                  *)
RoundAfter ==
  [round EXCEPT !.hops = @ + 1,
       !.unprompted = @ \/ \E i \in DOMAIN answers : answers[i].unprompted,
       !.reported = @ \cup {answers[i].agent : i \in {j \in DOMAIN answers : ReportsBack(answers[j])}},
       !.acted = @ \cup {answers[i].agent : i \in {j \in DOMAIN answers : Intervenes(answers[j])}}]

(* What the commits make of the round.                                     *)
LEMMA RoundCommitted ==
  ASSUME Commit, NEW W, RoundInv(W)
  PROVE  /\ round' = [f \in {"hops", "unprompted", "alarm", "reported", "acted"} |-> round'[f]]
         /\ round'.hops = round.hops + 1 /\ round'.alarm = round.alarm
         /\ round'.unprompted \in BOOLEAN
         /\ ~ round'.unprompted =>
              ~ round.unprompted /\ \A i \in DOMAIN answers : ~ answers[i].unprompted
         /\ round.reported \subseteq round'.reported /\ round.acted \subseteq round'.acted
         /\ \A i \in DOMAIN answers :
              /\ ReportsBack(answers[i]) => answers[i].agent \in round'.reported
              /\ Intervenes(answers[i]) => answers[i].agent \in round'.acted
<1> DEFINE hops == round.hops + 1
           unprompted == round.unprompted \/ \E i \in DOMAIN answers : answers[i].unprompted
           reported == round.reported \cup
             {answers[i].agent : i \in {j \in DOMAIN answers : ReportsBack(answers[j])}}
           acted == round.acted \cup
             {answers[i].agent : i \in {j \in DOMAIN answers : Intervenes(answers[j])}}
<1>1. round' = [round EXCEPT !.hops = hops, !.unprompted = unprompted, !.reported = reported,
                             !.acted = acted]
  BY DEF Commit, ReportsBack, Intervenes
<1>2. round = [f \in {"hops", "unprompted", "alarm", "reported", "acted"} |-> round[f]]
  BY DEF RoundInv
<1>3. unprompted \in BOOLEAN
  BY Zenon
<1>4. ~ unprompted => ~ round.unprompted /\ \A i \in DOMAIN answers : ~ answers[i].unprompted
  BY Zenon
<1>5. round.reported \subseteq reported /\ round.acted \subseteq acted
  OBVIOUS
<1>6. \A i \in DOMAIN answers :
        /\ ReportsBack(answers[i]) => answers[i].agent \in reported
        /\ Intervenes(answers[i]) => answers[i].agent \in acted
  OBVIOUS
<1> HIDE DEF hops, unprompted, reported, acted
<1>7. /\ round' = [f \in {"hops", "unprompted", "alarm", "reported", "acted"} |-> round'[f]]
      /\ round'.hops = hops /\ round'.alarm = round.alarm /\ round'.reported = reported
      /\ round'.acted = acted
  BY <1>1, <1>2
<1>8. round'.unprompted = unprompted
  BY <1>1, <1>2
<1>9. round'.unprompted \in BOOLEAN
  BY <1>3, <1>8, Zenon
<1>10. ~ round'.unprompted =>
         ~ round.unprompted /\ \A i \in DOMAIN answers : ~ answers[i].unprompted
  BY <1>4, <1>8, Zenon
<1> QED
  BY <1>5, <1>6, <1>7, <1>9, <1>10 DEF hops

(* The events of the answers belong to the next step of the round.         *)
LEMMA EventsCommitted ==
  ASSUME NEW W, ScenarioSettings(W), ScenarioInv(W), Commit
  PROVE  IsSeq(events') /\ \A i \in DOMAIN events' : EventInRound(events[i], W)'
<1>1. /\ phase = "running"
      /\ events' = FlattenSeq([i \in DOMAIN answers |-> EventsOf(answers[i])])
  BY DEF Commit
<1>2. /\ RoundInv(W) /\ NamesOK(W) /\ IsSeq(answers)
      /\ \A i \in DOMAIN answers : AnswerInRound(answers[i], W)
  BY <1>1 DEF ScenarioInv, StepInv, ScenarioSettings, SetupsOK
<1>3. PICK s, ss : s = answers /\ ss = [i \in DOMAIN s |-> EventsOf(s[i])]
  OBVIOUS
<1>4. DOMAIN s = 1 .. Len(s) /\ Len(s) \in Nat
  BY <1>2, <1>3, SeqFacts
<1>5. IsSeq(ss) /\ DOMAIN ss = DOMAIN s
  <2>1. ss = [i \in 1 .. Len(s) |-> ss[i]]
    BY <1>3, <1>4
  <2> QED
    BY <1>4, <2>1, SeqMade
<1>6. ASSUME NEW k \in DOMAIN ss
      PROVE  IsSeq(ss[k]) /\ \A j \in DOMAIN ss[k] : EventOf(ss[k][j], s[k], W)
  <2>1. k \in DOMAIN s /\ AnswerInRound(s[k], W)
    BY <1>2, <1>3, <1>5
  <2>2. ss[k] = EventsOf(s[k])
    BY <1>3, <2>1
  <2> QED
    BY <1>2, <2>1, <2>2, EventsOfAnswer
<1>7. ItemsOf(FlattenSeq(ss), ss)
  BY <1>5, <1>6, Flattened
<1>8. PICK es : es = FlattenSeq(ss)
  OBVIOUS
<1>9. events' = es
  BY <1>1, <1>3, <1>8
<1>10. IsSeq(es) /\ \A i \in DOMAIN es : \E k \in DOMAIN ss : \E j \in DOMAIN ss[k] : es[i] = ss[k][j]
  BY <1>7, <1>8 DEF ItemsOf
<1>11. /\ round.hops \in Nat /\ round'.hops = round.hops + 1
       /\ ~ round'.unprompted =>
            ~ round.unprompted /\ \A i \in DOMAIN answers : ~ answers[i].unprompted
  BY <1>2, RoundCommitted DEF RoundInv
<1>12. ASSUME NEW i \in DOMAIN es PROVE EventInRound(es[i], W)'
  <2>1. PICK k \in DOMAIN ss : \E j \in DOMAIN ss[k] : es[i] = ss[k][j]
    BY <1>10
  <2>2. EventOf(es[i], s[k], W) /\ k \in DOMAIN s /\ AnswerInRound(s[k], W)
    BY <1>2, <1>3, <1>5, <1>6, <2>1
  <2>3. PICK e, a : e = es[i] /\ a = s[k]
    OBVIOUS
  <2>4. EventOf(e, a, W) /\ AnswerInRound(a, W)
    BY <2>2, <2>3
  <2>5. ~ round'.unprompted => ~ round.unprompted /\ ~ a.unprompted
    BY <1>3, <1>11, <2>2, <2>3
  <2>6. ASSUME ~ round'.unprompted
        PROVE  /\ e.coordinator = None /\ e.to # {}
               /\ round'.hops = 1 => e.sender = AgentCoordinator \/ e.to = {AgentCoordinator}
               /\ round'.hops = 2 => e.to = {AgentCoordinator}
               /\ round'.hops <= 2
    <3>1. ~ round.unprompted /\ ~ a.unprompted
      BY <2>5, <2>6
    <3>2. /\ e.coordinator = None /\ e.sender = a.agent
          /\ \E m \in DOMAIN a.messages : e.to = {a.messages[m].to}
      BY <2>4, <3>1 DEF EventOf
    <3>3. PICK m \in DOMAIN a.messages : e.to = {a.messages[m].to}
      BY <3>2
    <3>4. /\ round.hops = 0 => a.agent = AgentCoordinator \/ a.messages[m].to = AgentCoordinator
          /\ round.hops = 1 => a.messages[m].to = AgentCoordinator
      BY <2>4, <3>1 DEF AnswerInRound
    <3>5. ~ (round.hops >= 2)
      <4>1. round.hops >= 2 => a.messages = <<>>
        BY <2>4, <3>1 DEF AnswerInRound
      <4> QED
        BY <3>3, <4>1, EmptyIsSeq
    <3>6. round.hops = 0 \/ round.hops = 1
      BY <1>11, <3>5
    <3>7. e.to # {}
      BY <3>3
    <3>8. CASE round.hops = 0
      <4>1. round'.hops = 1 /\ round'.hops # 2 /\ round'.hops <= 2
        BY <1>11, <3>8
      <4> QED
        BY <3>2, <3>3, <3>4, <3>7, <3>8, <4>1
    <3>9. CASE round.hops = 1
      <4>1. round'.hops = 2 /\ round'.hops # 1 /\ round'.hops <= 2
        BY <1>11, <3>9
      <4> QED
        BY <3>2, <3>3, <3>4, <3>7, <3>9, <4>1
    <3> QED
      BY <3>6, <3>8, <3>9
  <2>7. e.prio \in Int /\ e.operators = <<>> /\ e.coordinator \in W /\ e.sender \in W
    BY <2>4 DEF EventOf
  <2>8. EventInRound(e, W)'
    BY <2>6, <2>7 DEF EventInRound
  <2> QED
    BY <2>3, <2>8
<1> QED
  BY <1>9, <1>10, <1>12

(* The round goes on; the first commits record every operator's answer.    *)
LEMMA RoundGoesOn ==
  ASSUME NEW W, ScenarioSettings(W), ScenarioInv(W), Commit, setup' = setup,
         phase' \in {"ready", "running", "raised"}
  PROVE  RoundInv(W)'
<1>1. phase = "running" /\ batch = <<>> /\ todo = <<>>
  BY DEF Commit
<1>2. /\ RoundInv(W) /\ ScenarioOK /\ StepInv(W) /\ NamesOK(W)
      /\ \A i \in DOMAIN answers : AnswerInRound(answers[i], W)
      /\ round.hops \in Nat
      /\ ~ round.unprompted => round.hops <= 2
  BY <1>1 DEF ScenarioInv, StepInv, ScenarioSettings, SetupsOK, ScenarioOK, RoundInv
<1>3. /\ round' = [f \in {"hops", "unprompted", "alarm", "reported", "acted"} |-> round'[f]]
      /\ round'.hops = round.hops + 1 /\ round'.alarm = round.alarm
      /\ round'.unprompted \in BOOLEAN
      /\ ~ round'.unprompted => ~ round.unprompted
      /\ round.reported \subseteq round'.reported /\ round.acted \subseteq round'.acted
      /\ \A i \in DOMAIN answers :
           /\ ReportsBack(answers[i]) => answers[i].agent \in round'.reported
           /\ Intervenes(answers[i]) => answers[i].agent \in round'.acted
  BY <1>2, RoundCommitted
<1>4. ToSet(OperatorIds)' = ToSet(OperatorIds) /\ Responders' = Responders
  BY DEF OperatorIds, Roles, Responders
<1>5. Alarmed' => Alarmed
  BY <1>3 DEF Alarmed
<1>6. ASSUME round.hops = 0, NEW o \in ToSet(OperatorIds)
      PROVE  o \in round'.reported /\ (Alarmed /\ o \in Responders => o \in round'.acted)
  <2>1. HasAnswered(o) \/ WillAnswer(o)
    BY <1>1, <1>2, <1>6 DEF StepInv
  <2>2. ~ WillAnswer(o)
    BY <1>1, EmptyIsSeq DEF WillAnswer
  <2>3. PICK i \in DOMAIN answers :
          /\ answers[i].agent = o /\ ReportsBack(answers[i])
          /\ Alarmed /\ o \in Responders => Intervenes(answers[i])
    BY <2>1, <2>2 DEF HasAnswered
  <2> QED
    BY <1>3, <2>3
<1>7. /\ ToSet(OperatorIds) \subseteq round'.reported
      /\ Alarmed => Responders \subseteq round'.acted
  <2>1. CASE round.hops = 0
    <3>1. Alarmed => Responders \subseteq ToSet(OperatorIds)
      BY RespondersOperate DEF Alarmed
    <3> QED
      BY <1>6, <2>1, <3>1
  <2>2. CASE round.hops # 0
    <3>1. round.hops >= 1
      BY <1>2, <2>2
    <3>2. /\ ToSet(OperatorIds) \subseteq round.reported
          /\ Alarmed => Responders \subseteq round.acted
      BY <1>2, <3>1 DEF RoundInv
    <3> QED
      BY <1>3, <3>2
  <2> QED
    BY <2>1, <2>2
<1>8. round'.hops \in Nat /\ round'.hops # 0 /\ ~ (round'.hops = 0)
  BY <1>2, <1>3
<1>9. ~ round'.unprompted => round'.hops <= 3
  BY <1>2, <1>3
<1>10. setup' \in Setups
  BY <1>2 DEF RoundInv
<1>11. /\ ToSet(OperatorIds)' \subseteq round'.reported
       /\ Alarmed' => Responders' \subseteq round'.acted
  BY <1>4, <1>5, <1>7
<1> QED
  BY <1>3, <1>8, <1>9, <1>10, <1>11, Zenon DEF RoundInv

(* Between two batches the round does not matter to the client.            *)
LEMMA ClientAtRest ==
  ASSUME NEW W, ClientInRound(W), batch = <<>>, UNCHANGED clientVars
  PROVE  ClientInRound(W)'
<1>1. DOMAIN batch = {}
  BY EmptyIsSeq
<1>2. batch' = batch /\ client' = client /\ backend' = backend
  BY DEF clientVars
<1>3. ClientInv'
  BY <1>2 DEF ClientInRound, ClientInv, BackendOK, Sequential, InPhase
<1>4. Results' = Results /\ \A p : InPhase(p)' = InPhase(p)
  BY <1>2 DEF Results, InPhase
<1> QED
  BY <1>1, <1>2, <1>3, <1>4 DEF ClientInRound, IsSeq

(* Applying the actions keeps the environment's numbers.                   *)
LEMMA ActionsApplied ==
  ASSUME NEW W, ScenarioInv(W), ApplyActions, setup' = setup
  PROVE  EnvironmentOK(environment)'
<1>1. Commit /\ phase = "running"
      /\ environment' = FoldLeft(ApplyAction, environment, ActionsOfStep)
  BY DEF ApplyActions, Commit
<1>2. EnvironmentOK(environment) /\ IsSeq(answers)
      /\ \A i \in DOMAIN answers : AnswerInRound(answers[i], W)
  BY <1>1 DEF ScenarioInv, StepInv
<1>3. IsSeq(ActionsOfStep)
  <2>1. PICK s, ss : s = answers /\ ss = [i \in DOMAIN s |-> s[i].actions]
    OBVIOUS
  <2>2. DOMAIN s = 1 .. Len(s) /\ Len(s) \in Nat
    BY <1>2, <2>1, SeqFacts
  <2>3. ss = [i \in 1 .. Len(s) |-> ss[i]]
    BY <2>1, <2>2
  <2>4. IsSeq(ss) /\ DOMAIN ss = DOMAIN s
    BY <2>2, <2>3, SeqMade
  <2>5. \A k \in DOMAIN ss : IsSeq(ss[k])
    BY <1>2, <2>1, <2>4 DEF AnswerInRound
  <2>6. ItemsOf(FlattenSeq(ss), ss)
    BY <2>4, <2>5, Flattened
  <2> QED
    BY <2>1, <2>6 DEF ItemsOf, ActionsOfStep
<1>4. PICK e : e = FoldLeft(ApplyAction, environment, ActionsOfStep)
  OBVIOUS
<1>5. EnvironmentOK(e)
  BY <1>2, <1>3, <1>4, ActionsKeep
<1> QED
  BY <1>1, <1>4, <1>5, EnvironmentKept

(* A step ends, its actions applied.                                       *)
LEMMA StepFinishes ==
  ASSUME NEW W, ScenarioSettings(W), ScenarioInv(W), FinishStep
  PROVE  ScenarioInv(W)'
<1>1. /\ ApplyActions /\ Commit /\ phase = "running" /\ batch = <<>> /\ todo = <<>>
      /\ phase' = "ready" /\ answers' = <<>>
      /\ UNCHANGED <<setup, todo, clientVars>>
  BY DEF FinishStep, ApplyActions, Commit
<1>2. ClientInRound(W) /\ RoundInv(W) /\ StepInv(W)
  BY DEF ScenarioInv
<1>4. EnvironmentOK(environment)'
  BY <1>1, ActionsApplied
<1>5. ClientInRound(W)'
  BY <1>1, <1>2, ClientAtRest
<1>6. RoundInv(W)'
  BY <1>1, RoundGoesOn
<1>7. IsSeq(events') /\ \A i \in DOMAIN events' : EventInRound(events[i], W)'
  BY <1>1, EventsCommitted
<1>8. round'.hops # 0
  <2>1. round.hops \in Nat /\ round'.hops = round.hops + 1
    BY <1>1, <1>2, RoundCommitted DEF RoundInv
  <2> QED
    BY <2>1
<1>9. batch' = <<>> /\ todo' = <<>> /\ answers' = <<>>
  BY <1>1 DEF clientVars
<1>10. IsSeq(todo') /\ IsSeq(answers') /\ DOMAIN todo' = {} /\ DOMAIN answers' = {}
  BY <1>9, EmptyIsSeq
<1>11. StepInv(W)'
  BY <1>1, <1>7, <1>8, <1>9, <1>10 DEF StepInv, IsSeq
<1> QED
  BY <1>4, <1>5, <1>6, <1>11 DEF ScenarioInv

(* Or it raises after the commits: over one of its actions, or over what   *)
(* the results' metadata hold.                                             *)
LEMMA StepRaises ==
  ASSUME NEW W, ScenarioSettings(W), ScenarioInv(W), ApplyActionsRaises \/ SummaryRaises
  PROVE  ScenarioInv(W)'
<1>1. /\ Commit /\ phase = "running" /\ batch = <<>> /\ todo = <<>> /\ phase' = "raised"
      /\ UNCHANGED <<setup, answers, todo, clientVars>>
  BY DEF ApplyActionsRaises, SummaryRaises, ApplyActions, Commit
<1>2. EnvironmentOK(environment) /\ ClientInRound(W) /\ RoundInv(W) /\ StepInv(W)
  BY DEF ScenarioInv
<1>3. EnvironmentOK(environment)'
  <2>1. CASE ApplyActionsRaises
    BY <1>1, <1>2, <2>1, EnvironmentKept DEF ApplyActionsRaises
  <2>2. CASE SummaryRaises
    BY <1>1, <2>2, ActionsApplied DEF SummaryRaises
  <2> QED
    BY <2>1, <2>2
<1>4. ClientInRound(W)' /\ RoundInv(W)'
  BY <1>1, <1>2, ClientAtRest, RoundGoesOn
<1>5. IsSeq(events')
  BY <1>1, EventsCommitted
<1>6. IsSeq(answers)
  BY <1>2 DEF StepInv
<1>7. IsSeq(todo') /\ DOMAIN todo' = {}
  BY <1>1, EmptyIsSeq
<1>8. StepInv(W)'
  BY <1>1, <1>5, <1>6, <1>7 DEF StepInv, IsSeq
<1> QED
  BY <1>3, <1>4, <1>8 DEF ScenarioInv

(* Nothing changes.                                                        *)
LEMMA NothingChanges ==
  ASSUME NEW W, ScenarioInv(W), UNCHANGED scenarioVars
  PROVE  ScenarioInv(W)'
<1>1. UNCHANGED <<setup, environment, events, phase, todo, answers, steps, round, clientVars>>
  BY DEF scenarioVars, stepVars
<1>2. EnvironmentOK(environment) /\ ClientInRound(W) /\ RoundInv(W) /\ StepInv(W) /\ phase \in {"ready", "running", "raised"}
  BY DEF ScenarioInv, RoundInv
<1>3. ClientInRound(W)' /\ batch' = batch
  BY <1>1, <1>2, ClientKept DEF clientVars
<1>4. EnvironmentOK(environment)' /\ RoundInv(W)'
  BY <1>1, <1>2, EnvironmentKept, RoundInvKept
<1>5. \A k \in DOMAIN todo' : \A j \in DOMAIN todo'[k] : AnswersTheRound(todo[k][j], W)'
  BY <1>1, <1>2, RoundKept DEF StepInv
<1>6. phase # "raised" => \A j \in DOMAIN answers' : AnswerInRound(answers[j], W)'
  BY <1>1, <1>2, AnswerKept DEF StepInv
<1>7. phase = "ready" => \A j \in DOMAIN events' : EventInRound(events[j], W)'
  BY <1>1, <1>2 DEF StepInv, EventInRound
<1>8. phase = "running" /\ round'.hops = 0 =>
        \A o \in ToSet(OperatorIds)' : HasAnswered(o)' \/ WillAnswer(o)'
  BY <1>1, <1>2, <1>3 DEF StepInv, HasAnswered, WillAnswer, Alarmed, ReportsBack, Intervenes,
     OperatorIds, Roles
<1>9. StepInv(W)'
  BY <1>1, <1>2, <1>3, <1>5, <1>6, <1>7, <1>8 DEF StepInv, IsSeq
<1> QED
  BY <1>3, <1>4, <1>9 DEF ScenarioInv

(* Whatever the fixture gives, a run starts with no round under way.       *)
LEMMA ScenarioStarts ==
  ASSUME NEW W, ScenarioSettings(W), Init
  PROVE  ScenarioInv(W)
<1>1. /\ setup \in Setups /\ backend = Parameters(setup.backend)
      /\ batch = <<>> /\ client = <<>> /\ failures = 0
      /\ events = <<>> /\ phase = "ready" /\ todo = <<>> /\ answers = <<>>
      /\ round = NewRound(FALSE)
  BY DEF Init
<1>2. /\ ScenarioOK
      /\ \A key \in {"severity", "delayed"} \cap DOMAIN setup.fixture.initial :
           setup.fixture.initial[key] \in Int
      /\ setup.backend \in [name : STRING, model_name : STRING, max_concurrency : Int,
                            max_retries : Int, max_json_repair_attempts : Int]
  BY <1>1 DEF ScenarioSettings, SetupsOK, ScenarioOK
<1>3. EnvironmentOK(environment) /\ environment.tick = 0
  <2> DEFINE defaults == IF setup.scenario = "storm" THEN StormInitialized
                         ELSE SupplyChainInitialized
             initial == setup.fixture.initial
             zero == [tick |-> 0]
             e == Updated(defaults, initial)
             u == Updated(e, zero)
  <2>1. environment = u
    BY DEF Init
  <2>2. /\ setup.scenario = "storm" => "severity" \in DOMAIN defaults /\ defaults.severity \in Int
        /\ setup.scenario = "supply_chain" =>
             "delayed" \in DOMAIN defaults /\ defaults.delayed \in Int
    BY DEF StormInitialized, SupplyChainInitialized
  <2>3. zero.tick = 0 /\ DOMAIN zero = {"tick"}
    OBVIOUS
  <2> HIDE DEF defaults, zero
  <2>4. /\ DOMAIN e = DOMAIN defaults \cup DOMAIN initial
        /\ \A k \in DOMAIN initial : e[k] = initial[k]
        /\ \A k \in DOMAIN defaults : k \notin DOMAIN initial => e[k] = defaults[k]
    BY UpdatedFields
  <2> HIDE DEF e, initial
  <2>5. /\ DOMAIN u = DOMAIN e \cup DOMAIN zero
        /\ \A k \in DOMAIN zero : u[k] = zero[k]
        /\ \A k \in DOMAIN e : k \notin DOMAIN zero => u[k] = e[k]
    BY UpdatedFields
  <2> HIDE DEF u
  <2>6. \A key \in {"severity", "delayed"} \cap DOMAIN initial : initial[key] \in Int
    BY <1>2 DEF initial
  <2>7. ASSUME NEW key \in {"severity", "delayed"}, key \in DOMAIN defaults, defaults[key] \in Int
        PROVE  key \in DOMAIN u /\ u[key] \in Int
    BY <2>3, <2>4, <2>5, <2>6, <2>7
  <2>8. "tick" \in DOMAIN u /\ u.tick = 0
    BY <2>3, <2>5
  <2>9. /\ setup.scenario = "storm" => "severity" \in DOMAIN u /\ u["severity"] \in Int
        /\ setup.scenario = "supply_chain" => "delayed" \in DOMAIN u /\ u["delayed"] \in Int
    BY <2>2, <2>7
  <2> QED
    BY <2>1, <2>8, <2>9 DEF EnvironmentOK
<1>4. DOMAIN client = {} /\ IsSeq(batch) /\ DOMAIN batch = {} /\ IsSeq(events) /\ DOMAIN events = {}
      /\ IsSeq(todo) /\ DOMAIN todo = {} /\ IsSeq(answers) /\ DOMAIN answers = {}
  BY <1>1, EmptyIsSeq
<1>5. ClientInRound(W)
  <2>1. ClientInit
    BY <1>1, <1>2 DEF ClientInit
  <2>2. ClientInv
    BY <2>1, ClientInitially
  <2>3. Results = {} /\ InPhase("cancelled") = {}
    BY <1>4 DEF Results, InPhase
  <2> QED
    BY <1>4, <2>2, <2>3 DEF ClientInRound
<1>6. /\ round = [f \in {"hops", "unprompted", "alarm", "reported", "acted"} |-> round[f]]
      /\ round.hops = 0 /\ round.unprompted = FALSE
  BY <1>1 DEF NewRound
<1>7. RoundInv(W)
  <2>1. round.hops \in Nat /\ round.hops <= 3 /\ ~ (round.hops >= 1)
    BY <1>6
  <2>2. round.unprompted \in BOOLEAN /\ ~ round.unprompted
    BY <1>6, Zenon
  <2> QED
    BY <1>1, <1>6, <2>1, <2>2, Zenon DEF RoundInv
<1>8. StepInv(W)
  BY <1>1, <1>3, <1>4 DEF StepInv
<1> QED
  BY <1>3, <1>5, <1>7, <1>8 DEF ScenarioInv

-----------------------------------------------------------------------------

(* In every run of a scenario, requests, answers and events belong to the  *)
(* round the last tick set off: FIFOScheduler.plan, BatchBuilder.group,    *)
(* the backends' run_batch, MessageRouter.route and SimulationEngine.step  *)
(* together, whatever the models say and however calls fail.               *)
THEOREM ScenarioInvariant ==
  ASSUME NEW CONSTANT Words, ScenarioSettings(Words)
  PROVE  Spec => []ScenarioInv(Words)
<1>1. Init => ScenarioInv(Words)
  BY ScenarioStarts
<1>2. ScenarioInv(Words) /\ [Next]_scenarioVars => ScenarioInv(Words)'
  <2> SUFFICES ASSUME ScenarioInv(Words), [Next]_scenarioVars PROVE ScenarioInv(Words)'
    OBVIOUS
  <2>1. CASE LoadStep
    BY <2>1, TickLoads, EventsLoad
  <2>2. CASE RunByRule
    BY <2>2, RuleRuns
  <2>3. CASE RunBatch
    BY <2>3, BatchRuns
  <2>4. CASE ReturnBatch
    BY <2>4, BatchReturns
  <2>5. CASE RaiseFromBatch
    BY <2>5, BatchRaises
  <2>6. CASE FinishStep
    BY <2>6, StepFinishes
  <2>7. CASE ApplyActionsRaises \/ SummaryRaises
    BY <2>7, StepRaises
  <2>8. CASE Over
    BY <2>8, NothingChanges DEF Over
  <2>9. CASE \E i \in DOMAIN client : RunOne(i) /\ UNCHANGED stepVars
    BY <2>9, ClientRuns
  <2>10. CASE UNCHANGED scenarioVars
    BY <2>10, NothingChanges
  <2> QED
    BY <2>1, <2>2, <2>3, <2>4, <2>5, <2>6, <2>7, <2>8, <2>9, <2>10 DEF Next
<1> QED
  BY <1>1, <1>2, PTL DEF Spec

(* An exchange that nobody prolongs unasked ends three steps after the     *)
(* environment's tick, whatever else the models say: the rounds of         *)
(* SimulationEngine.step, with required_messages and MessageRouter.route.  *)
THEOREM RoundsEnd ==
  ASSUME NEW CONSTANT Words, ScenarioSettings(Words)
  PROVE  Spec => []RoundsOfThree
<1>1. ScenarioInv(Words) => RoundsOfThree
  BY DEF ScenarioInv, RoundInv, RoundsOfThree
<1>2. Spec => []ScenarioInv(Words)
  BY ScenarioInvariant
<1> QED
  BY <1>1, <1>2, PTL

(* When the exchange is over every operator has reported to the            *)
(* coordinator, and after an alarm supplier and transport have acted,      *)
(* whatever the models say: FIFOScheduler.plan activates each of them for  *)
(* the notices, and the role policy adds what a model leaves out.          *)
THEOREM RoundsAreAnswered ==
  ASSUME NEW CONSTANT Words, ScenarioSettings(Words)
  PROVE  Spec => []RoundIsAnswered
<1>1. ScenarioInv(Words) => RoundIsAnswered
  <2> SUFFICES ASSUME ScenarioInv(Words), phase = "ready", environment.tick > 0
               PROVE  /\ ToSet(OperatorIds) \subseteq round.reported
                      /\ round.alarm /\ setup.scenario = "supply_chain" =>
                           {"supplier", "transport"} \subseteq round.acted
    BY DEF RoundIsAnswered
  <2>1. /\ EnvironmentOK(environment) /\ RoundInv(Words)
        /\ round.hops = 0 => environment.tick = 0
    BY DEF ScenarioInv, StepInv
  <2>2. round.hops # 0
    BY <2>1 DEF EnvironmentOK
  <2>3. round.hops >= 1
    BY <2>1, <2>2 DEF RoundInv
  <2> QED
    BY <2>1, <2>3 DEF RoundInv, Alarmed, Responders
<1>2. Spec => []ScenarioInv(Words)
  BY ScenarioInvariant
<1> QED
  BY <1>1, <1>2, PTL

(* In the runs of a scenario too, calls are bounded and, unless the model  *)
(* brings its own retry_count, told; every result keeps its request's      *)
(* policy and lets the model's own answer stand; and a fallback differs    *)
(* from the rule in no more than origins and storm operators' priorities.  *)
THEOREM StepsKeepPolicy ==
  ASSUME NEW CONSTANT Words, ScenarioSettings(Words)
  PROVE  Spec => [](CallsAccounted /\ ResultObeysPolicy /\ OwnAnswerStands /\ FallbackLikeRule)
<1>1. ASSUME ScenarioInv(Words)
      PROVE  CallsAccounted /\ ResultObeysPolicy /\ OwnAnswerStands /\ FallbackLikeRule
  <2>1. /\ ClientInv /\ WordsOK(Words) /\ IsSeq(batch)
        /\ \A i \in DOMAIN batch : RequestOK(batch[i], Words)
        /\ \A i \in Results : MadeFor(batch[i], client[i].result, Words)
    BY <1>1 DEF ScenarioInv, ClientInRound, AnswersTheRound, ScenarioSettings, SetupsOK, NamesOK
  <2>2. Results \subseteq DOMAIN batch
    BY <2>1, SeqFacts DEF Results, ClientInv
  <2>3. CallsAccounted
    BY <2>1, InvAccounts
  <2>4. ASSUME NEW n \in Results
        PROVE  /\ ObeysPolicy(batch[n], client[n].result)
               /\ FillsGapsOnly(batch[n], client[n].result)
    <3>1. MadeFor(batch[n], client[n].result, Words)
      BY <2>1
    <3>2. RequestOK(batch[n], Words)
      BY <2>1, <2>2
    <3> QED
      BY <2>1, <3>1, <3>2, ResultObeys, OwnStands DEF MadeFor
  <2>5. FallbackLikeRule
    BY <2>1, FallsBack DEF FallbackLikeRule
  <2> QED
    BY <2>3, <2>4, <2>5 DEF ResultObeysPolicy, OwnAnswerStands
<1>2. Spec => []ScenarioInv(Words)
  BY ScenarioInvariant
<1>3. ScenarioInv(Words) => CallsAccounted /\ ResultObeysPolicy /\ OwnAnswerStands /\ FallbackLikeRule
  BY <1>1
<1> QED
  BY <1>2, <1>3, PTL
=============================================================================
