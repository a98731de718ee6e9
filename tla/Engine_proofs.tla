---------------------------- MODULE Engine_proofs ---------------------------
(***************************************************************************)
(* Theorems about Engine: its type invariant, that no commit of step() is  *)
(* ever refused (NoConflict), that the activations of one tick are         *)
(* causally independent (SingleWave), and about the run it records: what   *)
(* the agent_step records say of each other, of the store and of the       *)
(* environment, and what became of every message.                          *)
(*                                                                         *)
(* The inductive invariant IInv says three things no single step shows:    *)
(* ids are handed out once and spent once (IdInv), the requests of a tick  *)
(* stay paired with their results and as fresh as when they were built     *)
(* (StepInv), and every origin the store knows has committed (OriginInv).  *)
(* IInv says that each commit applies; the others what they add up to:     *)
(*                                                                         *)
(*   CausalInv    records name causal parents of earlier ticks             *)
(*   HaltInv      a step commits after all of it has executed              *)
(*   CursorInv    cursors point below everything that is still to come     *)
(*   UnreadInv    a cursor passes only messages that have been read        *)
(*   OrderInv     a cursor has passed every message that has been read     *)
(*   ArrivalInv   an unread message is pending or has its event            *)
(*   DueInv       events are due in the next tick at the latest            *)
(***************************************************************************)
EXTENDS Engine, FiniteSetTheorems, SequenceTheorems,
        WellFoundedInduction, TLAPS

UniqueIds(S) == \A x, y \in S : x.id = y.id => x = y

DisjointIds(S, T) == \A x \in S, y \in T : x.id # y.id

(* No record of S has the id of an event that a committed activation spent.*)
Unspent(S) == \A x \in S, c \in committed : x.id # c.activation[1]

BelowSerial(S) == \A x \in S : x.id <= serial

Proposed(res) == res.messages \cup res.events

IdInv ==
  /\ BelowSerial(messages) /\ BelowSerial(events) /\ BelowSerial(batch)
  /\ \A c \in committed : c.activation[1] <= serial
  /\ UniqueIds(messages) /\ UniqueIds(events) /\ UniqueIds(batch)
  /\ DisjointIds(events, batch)
  /\ Unspent(events)
  /\ \A res \in results :
       /\ BelowSerial(Proposed(res))
       /\ UniqueIds(res.messages) /\ UniqueIds(res.events)
       /\ DisjointIds(res.messages, res.events)
       /\ DisjointIds(Proposed(res), messages)
       /\ DisjointIds(Proposed(res), events)
       /\ DisjointIds(Proposed(res), batch)
       /\ Unspent(Proposed(res))
  /\ \A res, other \in results :
       res # other => DisjointIds(Proposed(res), Proposed(other))

(* The request has not been committed, and what it read is still current.  *)
Fresh(r) == states[r.agent].version = r.version /\ ~ IsCommitted(r.activation)

StepInv ==
  /\ phase = "ready" => batch = {} /\ requests = {} /\ todo = {} /\ results = {}
  /\ phase = "running" => now < RunSteps
  /\ \A r \in requests : r.trigger \in batch /\ r.activation = <<r.trigger.id, r.agent>>
  /\ \A r \in requests : r.inbox \subseteq messages
  /\ \A r, q \in requests : r.agent = q.agent => r = q
  /\ \A r \in todo : Fresh(r)
  /\ \A res \in results : \E r \in requests \ todo :
       r.agent = res.agent /\ Fresh(r) /\ res.state.version = r.version + 1
  /\ \A res, other \in results : res.agent = other.agent => res = other

Known(origin) == origin = NoActivation \/ IsCommitted(origin)

OriginInv ==
  /\ \A m \in messages : Known(m.origin)
  /\ \A e \in events : Known(e.cause)
  /\ \A res \in results, r \in requests : r.agent = res.agent =>
       /\ \A m \in res.messages : m.origin \in {NoActivation, r.activation}
       /\ \A e \in res.events : e.cause \in {NoActivation, r.activation}

IInv == EngineTypeOK /\ IdInv /\ StepInv /\ OriginInv /\ NoConflict /\ SingleWave
-----------------------------------------------------------------------------
(* Facts about the operators the engine is built from.                     *)

(* FIFOScheduler.plan activates an agent once.                             *)
LEMMA PlanUnique ==
  ASSUME NEW ready \in SUBSET EventRecord, UniqueIds(ready),
         NEW p \in Plan(ready), NEW q \in Plan(ready), p[2] = q[2]
  PROVE  p = q
<1>1. /\ p \in ready \X Agents /\ q \in ready \X Agents
      /\ p[2] \in Targets(p[1]) /\ q[2] \in Targets(q[1])
      /\ \A f \in ready : p[2] \in Targets(f) => ~ PlansBefore(f, p[1])
      /\ \A f \in ready : q[2] \in Targets(f) => ~ PlansBefore(f, q[1])
  BY DEF Plan
<1>2. ~ PlansBefore(q[1], p[1]) /\ ~ PlansBefore(p[1], q[1])
  BY <1>1
<1>3. /\ p[1].id \in Nat /\ p[1].prio \in Int /\ p[1].made \in Nat
      /\ q[1].id \in Nat /\ q[1].prio \in Int /\ q[1].made \in Nat
  BY <1>1 DEF EventRecord
<1>4. p[1].id = q[1].id
  BY <1>2, <1>3 DEF PlansBefore
<1>5. p[1] = q[1]
  BY <1>1, <1>4 DEF UniqueIds
<1> QED
  BY <1>1, <1>5

(* Records with distinct bounded ids are finitely many.                    *)
LEMMA FiniteIds ==
  ASSUME NEW S, UniqueIds(S), NEW bound \in Nat,
         \A x \in S : x.id \in Nat /\ x.id <= bound
  PROVE  IsFiniteSet(S)
<1> DEFINE ids == [x \in S |-> x.id]
<1>1. 0 \in Int /\ bound \in Int
  OBVIOUS
<1>2. IsFiniteSet(0 .. bound)
  BY <1>1, FS_Interval
<1>3. ids \in Injection(S, 0 .. bound)
  <2>1. \A x \in S : x.id \in 0 .. bound
    OBVIOUS
  <2> QED
    BY <2>1 DEF Injection, IsInjective, UniqueIds
<1> QED
  BY <1>2, <1>3, FS_Injection

(* A finite set that is not empty has a first element in a strict order.   *)
LEMMA FirstElement ==
  ASSUME NEW S, IsFiniteSet(S), S # {}, NEW R,
         \A x \in S : <<x, x>> \notin R,
         \A x, y, z \in S : <<x, y>> \in R /\ <<y, z>> \in R => <<x, z>> \in R
  PROVE  \E x \in S : \A y \in S : <<y, x>> \notin R
<1> DEFINE Under(x) == {y \in S : <<y, x>> \in R}
           Cones == {Under(x) : x \in S}
<1>1. Cones \subseteq FiniteSubsetsOf(S) /\ Cones # {}
  <2>1. \A x \in S : Under(x) \in SUBSET S
    OBVIOUS
  <2>2. \A T \in SUBSET S : IsFiniteSet(T)
    BY FS_Subset
  <2>3. \A x \in S : Under(x) \in FiniteSubsetsOf(S)
    <3> HIDE DEF Under
    <3> QED
      BY <2>1, <2>2 DEF FiniteSubsetsOf
  <2> HIDE DEF Under
  <2> QED
    BY <2>3
<1>2. PICK T \in Cones : \A U \in Cones : ~ (<<U, T>> \in StrictSubsetOrdering(S))
  BY <1>1, FS_StrictSubsetOrderingWellFounded, WFMin
<1>3. PICK x \in S : T = Under(x)
  BY <1>2
<1>4. ASSUME NEW y \in S, <<y, x>> \in R PROVE FALSE
  <2>1. Under(y) \subseteq Under(x) /\ y \in Under(x) /\ y \notin Under(y)
    BY <1>4
  <2>2. Under(y) \in SUBSET S /\ Under(x) \in SUBSET S /\ Under(y) \in Cones
    OBVIOUS
  <2> HIDE DEF Under, Cones
  <2>3. <<Under(y), Under(x)>> \in StrictSubsetOrdering(S)
    BY <2>1, <2>2 DEF StrictSubsetOrdering
  <2> QED
    BY <1>2, <1>3, <2>2, <2>3
<1> QED
  BY <1>4

(* A non-empty inbox has a last message, so inbox_messages[-1] is one of   *)
(* the messages that the activation read, and every other one is before it.*)
LEMMA LastOfInbox ==
  ASSUME NEW window \in SUBSET MessageRecord, UniqueIds(window), window # {},
         NEW bound \in Nat, \A m \in window : m.id <= bound
  PROVE  /\ LastOf(window) \in window
         /\ \A n \in window \ {LastOf(window)} : ReadsBefore(n, LastOf(window))
<1>1. \A n, k \in window :
        /\ n.prio \in Int /\ n.at \in Nat /\ n.id \in Nat
        /\ n.id = k.id => n = k
  BY DEF MessageRecord, UniqueIds
<1>2. IsFiniteSet(window)
  BY <1>1, FiniteIds
<1> DEFINE After == {p \in window \X window : ReadsBefore(p[2], p[1])}
<1>3. \A n, k \in window : <<n, k>> \in After <=> ReadsBefore(k, n)
  OBVIOUS
<1>4. \A n \in window : ~ ReadsBefore(n, n)
  BY <1>1 DEF ReadsBefore
<1>5. \A n, k, j \in window : ReadsBefore(n, k) /\ ReadsBefore(k, j) => ReadsBefore(n, j)
  BY <1>1 DEF ReadsBefore
<1> HIDE DEF After
<1>6. \E m \in window : \A n \in window : <<n, m>> \notin After
  BY <1>2, <1>3, <1>4, <1>5, FirstElement
<1>7. PICK m \in window : \A n \in window : ~ ReadsBefore(m, n)
  BY <1>3, <1>6
<1>8. \A n \in window \ {m} : ReadsBefore(n, m)
  BY <1>1, <1>7 DEF ReadsBefore
<1> QED
  BY <1>8 DEF LastOf

(* The popped events are stored events, the inbox holds stored messages.   *)
LEMMA ReadyStored == \A t, limit : Ready(t, limit) \subseteq events
  BY DEF Ready, Due

(* The inbox an activation reads holds stored messages only.               *)
LEMMA InboxStored == \A a, limit, after : Inbox(a, limit, after) \subseteq messages
  BY DEF Inbox, NewerThan
-----------------------------------------------------------------------------
(* The invariant is inductive: one lemma per action of step().             *)

(* Building the contexts: unspent events give fresh, distinct requests,    *)
(* and what these read was sent by activations committed before the tick.  *)
LEMMA BuildInv ==
  ASSUME IInv, phase = "ready", now < RunSteps,
         NEW ready \in SUBSET EventRecord,
         UniqueIds(ready), Unspent(ready), \A e \in ready : Known(e.cause),
         BuildRequests(ready), UNCHANGED <<states, messages, committed>>
  PROVE  /\ requests' \subseteq RequestRecord /\ todo' = requests'
         /\ StepInv' /\ SingleWave'
<1>1. todo' = requests' /\ batch' = ready /\ phase' = "running" /\ now' = now
  BY DEF BuildRequests
<1>2. results' = {}
  BY DEF BuildRequests, IInv, StepInv
<1>3. \A r \in requests' : \E e \in ready, a \in Agents :
        <<e, a>> \in Plan(ready) /\ r = Context(e, a)
  BY DEF BuildRequests, Plan
<1>4. ASSUME NEW e \in ready, NEW a \in Agents
      PROVE  /\ Context(e, a) \in RequestRecord
             /\ Context(e, a).inbox \subseteq messages
  <2>1. Inbox(a, InboxLimit, states[a].cursor) \subseteq messages
    BY InboxStored
  <2>2. states[a].version \in Nat /\ states[a].cursor \in Nat /\ messages \subseteq MessageRecord
    BY DEF IInv, EngineTypeOK
  <2>3. <<e.id, a>> \in Activations /\ e \in EventRecord
    BY DEF EventRecord, Activations
  <2> QED
    BY <2>1, <2>2, <2>3 DEF Context, RequestRecord
<1>5. \A r \in requests' : r \in RequestRecord /\ r.inbox \subseteq messages
  <2> TAKE r \in requests'
  <2>1. PICK e \in ready, a \in Agents : r = Context(e, a)
    BY <1>3
  <2> QED
    BY <1>4, <2>1
<1>6. \A r \in requests' : ~ IsCommitted(r.activation)
  <2> SUFFICES ASSUME NEW r \in requests' PROVE ~ IsCommitted(r.activation)
    OBVIOUS
  <2>1. PICK e \in ready, a \in Agents : r = Context(e, a)
    BY <1>3
  <2>2. r.activation = <<e.id, a>>
    BY <2>1 DEF Context
  <2> QED
    BY <2>2 DEF Unspent, IsCommitted
<1>7. StepInv'
  <2>1. \A r \in requests' :
          /\ r.trigger \in batch' /\ r.activation = <<r.trigger.id, r.agent>>
          /\ r.inbox \subseteq messages' /\ states'[r.agent].version = r.version
    <3> TAKE r \in requests'
    <3>1. PICK e \in ready, a \in Agents : r = Context(e, a)
      BY <1>3
    <3>2. /\ r.trigger = e /\ r.activation = <<e.id, a>> /\ r.agent = a
          /\ r.version = states[a].version
      BY <3>1 DEF Context
    <3> QED
      BY <1>1, <1>5, <3>2
  <2>2. \A r, q \in requests' : r.agent = q.agent => r = q
    <3> SUFFICES ASSUME NEW r \in requests', NEW q \in requests', r.agent = q.agent
                 PROVE  r = q
      OBVIOUS
    <3>1. PICK e \in ready, a \in Agents : <<e, a>> \in Plan(ready) /\ r = Context(e, a)
      BY <1>3
    <3>2. PICK f \in ready, b \in Agents : <<f, b>> \in Plan(ready) /\ q = Context(f, b)
      BY <1>3
    <3>3. a = b
      BY <3>1, <3>2 DEF Context
    <3>4. e = f
      BY <3>1, <3>2, <3>3, PlanUnique
    <3> QED
      BY <3>1, <3>2, <3>3, <3>4
  <2>3. \A r \in todo' : Fresh(r)'
    BY <1>1, <1>6, <2>1 DEF Fresh, IsCommitted
  <2> QED
    BY <1>1, <1>2, <2>1, <2>2, <2>3 DEF StepInv
<1>8. SingleWave'
  <2> SUFFICES ASSUME NEW r \in requests', NEW q \in requests', NEW origin,
                      origin \in CausalParents(r)
               PROVE  q.activation # origin
    BY DEF SingleWave, CausalParents
  <2>1. Known(origin)
    <3>1. CASE origin = r.trigger.cause
      BY <1>1, <1>7, <3>1 DEF StepInv
    <3>2. CASE \E m \in r.inbox : origin = m.origin
      BY <1>5, <3>2 DEF IInv, OriginInv
    <3> QED
      BY <3>1, <3>2 DEF CausalParents
  <2>2. q.activation # NoActivation
    BY <1>5, EngineAssumption DEF RequestRecord, Activations
  <2> QED
    BY <1>6, <2>1, <2>2 DEF Known
<1> QED
  BY <1>1, <1>5, <1>7, <1>8

(* Events that leave the store were stored, so none of them is spent.      *)
LEMMA LoadEventsInv == IInv /\ LoadEvents => IInv'
<1> SUFFICES ASSUME IInv, LoadEvents PROVE IInv'
  OBVIOUS
<1> DEFINE ready == Ready(now, MaxEventsPerTick)
<1>1. ready \subseteq events
  BY ReadyStored
<1>2. /\ phase = "ready" /\ now < RunSteps /\ results = {} /\ events' = events \ ready
      /\ BuildRequests(ready)
      /\ UNCHANGED <<states, messages, committed, receipt, serial, environment>>
  BY DEF LoadEvents, PopReady, IInv, StepInv
<1>3. /\ phase' = "running" /\ batch' = ready
      /\ UNCHANGED <<usesPolicy, now, wall, results, actions, trace>>
  BY <1>2 DEF BuildRequests
<1>4. /\ ready \in SUBSET EventRecord /\ UniqueIds(ready) /\ Unspent(ready)
      /\ \A e \in ready : Known(e.cause)
  BY <1>1 DEF IInv, EngineTypeOK, IdInv, OriginInv, UniqueIds, Unspent
<1> HIDE DEF ready
<1>5. requests' \subseteq RequestRecord /\ todo' = requests' /\ StepInv' /\ SingleWave'
  BY <1>2, <1>4, BuildInv
<1>6. EngineTypeOK'
  BY <1>2, <1>3, <1>4, <1>5 DEF IInv, EngineTypeOK
<1>7. IdInv'
  BY <1>1, <1>2, <1>3
     DEF IInv, IdInv, UniqueIds, DisjointIds, Unspent, BelowSerial
<1>8. OriginInv'
  BY <1>2, <1>3 DEF IInv, OriginInv, Known, IsCommitted
<1>9. NoConflict'
  BY <1>3 DEF IInv, NoConflict
<1> QED
  BY <1>5, <1>6, <1>7, <1>8, <1>9 DEF IInv

(* The events of a tick carry new ids and no cause, and are not stored.    *)
LEMMA AdvanceEnvironmentInv == IInv /\ AdvanceEnvironment => IInv'
<1> SUFFICES ASSUME IInv, AdvanceEnvironment PROVE IInv'
  OBVIOUS
<1>1. PICK s \in Emissions :
        /\ serial' = serial + Len(s)
        /\ BuildRequests({Emitted(serial + i, s[i], NoActivation) : i \in DOMAIN s})
  BY DEF AdvanceEnvironment
<1> DEFINE ready == {Emitted(serial + i, s[i], NoActivation) : i \in DOMAIN s}
<1>2. /\ phase = "ready" /\ now < RunSteps /\ results = {} /\ BuildRequests(ready)
      /\ UNCHANGED <<states, messages, events, committed, receipt>>
      /\ environment' = [environment EXCEPT !.tick = @ + 1]
  BY <1>1 DEF AdvanceEnvironment, storeVars, IInv, StepInv
<1>3. /\ phase' = "running" /\ batch' = ready
      /\ UNCHANGED <<usesPolicy, now, wall, results, actions, trace>>
  BY <1>2 DEF BuildRequests
<1>4. /\ serial \in Nat /\ wall \in Nat /\ Len(trace) \in Nat
      /\ s \in Seq([to : SUBSET Recipients, prio : Int])
  <2>1. trace \in Seq(TraceRecord)
    BY DEF IInv, EngineTypeOK
  <2>2. s \in Seq([to : SUBSET Recipients, prio : Int])
    BY EngineAssumption
  <2>3. serial \in Nat /\ wall \in Nat
    BY DEF IInv, EngineTypeOK
  <2> QED
    BY <2>1, <2>2, <2>3, LenProperties
<1>5. /\ DOMAIN s = 1 .. Len(s) /\ Len(s) \in Nat
      /\ \A i \in DOMAIN s : s[i] \in [to : SUBSET Recipients, prio : Int]
  BY <1>4, LenProperties, ElementOfSeq
<1>6. \A e \in ready : \E i \in 1 .. Len(s) : e = Emitted(serial + i, s[i], NoActivation)
  BY <1>5
<1>7. ready \in SUBSET EventRecord
  <2> SUFFICES ASSUME NEW i \in 1 .. Len(s)
               PROVE  Emitted(serial + i, s[i], NoActivation) \in EventRecord
    BY <1>6
  <2>1. s[i] \in [to : SUBSET Recipients, prio : Int] /\ serial + i \in Nat
    BY <1>4, <1>5
  <2> QED
    BY <1>4, <2>1 DEF Emitted, EventRecord
<1>8. \A e \in ready : serial < e.id /\ e.id <= serial' /\ e.cause = NoActivation
  BY <1>1, <1>4, <1>5, <1>6 DEF Emitted
<1>9. UniqueIds(ready)
  BY <1>4, <1>6 DEF UniqueIds, Emitted
<1>10. \A c \in committed : c.activation[1] \in Nat
  BY DEF IInv, EngineTypeOK, Activations
<1> HIDE DEF ready
<1>11. Unspent(ready) /\ \A e \in ready : Known(e.cause)
  <2>1. \A c \in committed : c.activation[1] <= serial
    BY DEF IInv, IdInv
  <2>2. \A e \in ready : e.id \in Nat
    BY <1>7 DEF EventRecord
  <2> QED
    BY <1>4, <1>8, <1>10, <2>1, <2>2 DEF Unspent, Known
<1>12. requests' \subseteq RequestRecord /\ todo' = requests' /\ StepInv' /\ SingleWave'
  BY <1>2, <1>7, <1>9, <1>11, BuildInv
<1>13. EngineTypeOK'
  <2>1. serial' \in Nat
    BY <1>1, <1>4, <1>5
  <2>2. environment' \in [tick : Nat, applied : Seq(Activations)]
    <3>1. environment.tick \in Nat /\ environment.applied \in Seq(Activations)
      BY DEF IInv, EngineTypeOK
    <3>2. environment' = [tick |-> environment.tick + 1, applied |-> environment.applied]
      BY <1>2 DEF IInv, EngineTypeOK
    <3> QED
      BY <3>1, <3>2
  <2> QED
    BY <1>2, <1>3, <1>7, <1>12, <2>1, <2>2 DEF IInv, EngineTypeOK
<1>14. IdInv'
  <2>1. /\ \A m \in messages : m.id \in Nat
        /\ \A e \in events \cup ready : e.id \in Nat
    BY <1>7 DEF IInv, EngineTypeOK, MessageRecord, EventRecord
  <2>2. serial <= serial' /\ serial' \in Nat
    BY <1>1, <1>4, <1>5
  <2>3. BelowSerial(messages)' /\ BelowSerial(events)' /\ BelowSerial(batch)'
    BY <1>2, <1>3, <1>4, <1>8, <2>1, <2>2 DEF IInv, IdInv, BelowSerial
  <2>4. \A c \in committed' : c.activation[1] <= serial'
    BY <1>2, <1>4, <1>10, <2>2 DEF IInv, IdInv
  <2>5. DisjointIds(events, batch)'
    BY <1>2, <1>3, <1>4, <1>8, <2>1 DEF IInv, IdInv, BelowSerial, DisjointIds
  <2> QED
    BY <1>2, <1>3, <1>9, <2>3, <2>4, <2>5 DEF IInv, IdInv, UniqueIds, Unspent
<1>15. OriginInv'
  BY <1>2, <1>3 DEF IInv, OriginInv, Known, IsCommitted
<1>16. NoConflict'
  BY <1>3 DEF IInv, NoConflict
<1> QED
  BY <1>12, <1>13, <1>14, <1>15, <1>16 DEF IInv

(* What both ways of completing a request have in common: the result names *)
(* only ids handed out by this step, so it collides with nothing.          *)
LEMMA AddResultInv ==
  ASSUME IInv, phase = "running", NEW r \in todo, NEW res \in ResultRecord,
         res.agent = r.agent, res.state.version = r.version + 1,
         serial' \in Nat, serial <= serial',
         \A x \in Proposed(res) : serial < x.id /\ x.id <= serial',
         UniqueIds(res.messages), UniqueIds(res.events),
         DisjointIds(res.messages, res.events),
         \A m \in res.messages : m.origin \in {NoActivation, r.activation},
         \A e \in res.events : e.cause \in {NoActivation, r.activation},
         results' = results \cup {res}, todo' = todo \ {r},
         UNCHANGED <<storeVars, usesPolicy, phase, now, wall, batch, requests,
                     actions, environment, trace>>
  PROVE  IInv'
<1>1. UNCHANGED <<states, messages, events, committed, receipt>>
  BY DEF storeVars
<1>2. /\ requests \subseteq RequestRecord /\ todo \subseteq requests /\ r \in requests
      /\ \A q \in requests : q.agent = r.agent => q = r
  BY DEF IInv, EngineTypeOK, StepInv
<1>3. \A other \in results : other.agent # res.agent
  BY <1>2 DEF IInv, StepInv
<1>4. EngineTypeOK'
  BY <1>1 DEF IInv, EngineTypeOK
<1>5. IdInv'
  <2>1. /\ \A m \in messages : m.id \in Nat
        /\ \A e \in events \cup batch : e.id \in Nat
        /\ \A c \in committed : c.activation[1] \in Nat
        /\ \A other \in results \cup {res} : \A x \in Proposed(other) : x.id \in Nat
        /\ serial \in Nat
    BY DEF IInv, EngineTypeOK, MessageRecord, EventRecord, ResultRecord, Activations, Proposed
  <2>2. /\ BelowSerial(messages)' /\ BelowSerial(events)' /\ BelowSerial(batch)'
        /\ \A c \in committed' : c.activation[1] <= serial'
    BY <1>1, <2>1 DEF IInv, IdInv, BelowSerial
  <2>3. /\ UniqueIds(messages)' /\ UniqueIds(events)' /\ UniqueIds(batch)'
        /\ DisjointIds(events, batch)' /\ Unspent(events)'
    BY <1>1 DEF IInv, IdInv, UniqueIds, DisjointIds, Unspent
  <2>4. /\ DisjointIds(Proposed(res), messages) /\ DisjointIds(Proposed(res), events)
        /\ DisjointIds(Proposed(res), batch) /\ Unspent(Proposed(res))
    BY <2>1 DEF IInv, IdInv, BelowSerial, DisjointIds, Unspent
  <2>5. ASSUME NEW other \in results
        PROVE  /\ BelowSerial(Proposed(other))'
               /\ DisjointIds(Proposed(res), Proposed(other))
               /\ DisjointIds(Proposed(other), Proposed(res))
    <3>1. \A x \in Proposed(other) : x.id <= serial /\ x.id \in Nat
      BY <2>1 DEF IInv, IdInv, BelowSerial
    <3>2. \A x \in Proposed(res) : serial < x.id /\ x.id \in Nat
      BY <2>1
    <3> QED
      BY <2>1, <3>1, <3>2 DEF BelowSerial, DisjointIds
  <2>6. ASSUME NEW other \in results'
        PROVE  /\ BelowSerial(Proposed(other))'
               /\ UniqueIds(other.messages) /\ UniqueIds(other.events)
               /\ DisjointIds(other.messages, other.events)
               /\ DisjointIds(Proposed(other), messages)
               /\ DisjointIds(Proposed(other), events)
               /\ DisjointIds(Proposed(other), batch)
               /\ Unspent(Proposed(other))
    <3>1. CASE other \in results
      BY <2>5, <3>1 DEF IInv, IdInv
    <3>2. CASE other = res
      BY <2>4, <3>2 DEF BelowSerial
    <3> QED
      BY <3>1, <3>2
  <2>7. \A one, other \in results' :
          one # other => DisjointIds(Proposed(one), Proposed(other))
    BY <2>5 DEF IInv, IdInv
  <2>8. \A other \in results' : Unspent(Proposed(other))'
    BY <1>1, <2>6 DEF Unspent
  <2> QED
    BY <1>1, <2>2, <2>3, <2>6, <2>7, <2>8 DEF IdInv
<1>6. StepInv'
  <2>1. Fresh(r)
    BY DEF IInv, StepInv
  <2>2. \A q \in requests : Fresh(q) => Fresh(q)'
    BY <1>1 DEF Fresh, IsCommitted
  <2>3. ASSUME NEW other \in results'
        PROVE  \E q \in requests' \ todo' :
                 q.agent = other.agent /\ Fresh(q)' /\ other.state.version = q.version + 1
    <3>1. CASE other = res
      BY <1>2, <2>1, <2>2, <3>1
    <3>2. CASE other \in results
      <4>1. PICK q \in requests \ todo :
              q.agent = other.agent /\ Fresh(q) /\ other.state.version = q.version + 1
        BY <3>2 DEF IInv, StepInv
      <4> QED
        BY <2>2, <4>1
    <3> QED
      BY <3>1, <3>2
  <2>4. \A one, other \in results' : one.agent = other.agent => one = other
    BY <1>3 DEF IInv, StepInv
  <2>5. \A q \in todo' : Fresh(q)'
    BY <1>2, <2>2 DEF IInv, StepInv
  <2> QED
    BY <1>1, <2>3, <2>4, <2>5 DEF IInv, StepInv
<1>7. OriginInv'
  <2>1. ASSUME NEW other \in results', NEW q \in requests, q.agent = other.agent
        PROVE  /\ \A m \in other.messages : m.origin \in {NoActivation, q.activation}
               /\ \A e \in other.events : e.cause \in {NoActivation, q.activation}
    <3>1. CASE other = res
      BY <1>2, <2>1, <3>1
    <3>2. CASE other \in results
      BY <2>1, <3>2 DEF IInv, OriginInv
    <3> QED
      BY <3>1, <3>2
  <2> QED
    BY <1>1, <2>1 DEF IInv, OriginInv, Known, IsCommitted
<1>8. NoConflict' /\ SingleWave'
  BY DEF IInv, NoConflict, SingleWave, CausalParents
<1> QED
  BY <1>4, <1>5, <1>6, <1>7, <1>8 DEF IInv

(* Executing a request only adds a result made from that request.          *)
LEMMA ExecuteInv == ASSUME IInv, NEW r \in todo, Execute(r) PROVE IInv'
<1>1. /\ phase = "running" /\ todo' = todo \ {r}
      /\ UNCHANGED <<storeVars, usesPolicy, phase, now, wall, batch, requests,
                     actions, environment, trace>>
  BY DEF Execute
<1>2. /\ serial \in Nat /\ wall \in Nat /\ trace \in Seq(TraceRecord)
      /\ messages \subseteq MessageRecord /\ requests \subseteq RequestRecord
      /\ r \in requests
  BY DEF IInv, EngineTypeOK
<1>3. /\ r.agent \in Agents /\ r.activation \in Activations
      /\ r.version \in Nat /\ r.cursor \in Nat
  BY <1>2 DEF RequestRecord
<1>4. Len(trace) \in Nat
  BY <1>2, LenProperties
<1>5. CASE Completes(r)
  <2>1. PICK reply \in Replies[r.agent] :
          LET n == Len(reply.send)
              k == Len(reply.emits)
          IN  /\ serial' = serial + n + k
              /\ results' = results \cup {Result(r, NextCursor(r),
                   {Sent(r, serial + i, reply.send[i]) : i \in 1 .. n},
                   {Emitted(serial + n + i, reply.emits[i], r.activation) : i \in 1 .. k},
                   reply.acts)}
    BY <1>5 DEF Completes
  <2> DEFINE n == Len(reply.send)
             k == Len(reply.emits)
             sent == {Sent(r, serial + i, reply.send[i]) : i \in 1 .. n}
             emitted == {Emitted(serial + n + i, reply.emits[i], r.activation) : i \in 1 .. k}
             res == Result(r, NextCursor(r), sent, emitted, reply.acts)
  <2>2. serial' = serial + n + k /\ results' = results \cup {res}
    BY <2>1
  <2>3. /\ reply.send \in Seq([to : Recipients, prio : Int, named : BOOLEAN])
        /\ reply.emits \in Seq([to : SUBSET Recipients, prio : Int])
        /\ reply.acts \in BOOLEAN
    BY <1>3, EngineAssumption
  <2>4. n \in Nat /\ k \in Nat
    BY <2>3, LenProperties
  <2>5. \A i \in 1 .. n : reply.send[i] \in [to : Recipients, prio : Int, named : BOOLEAN]
    BY <2>3, ElementOfSeq
  <2>6. \A i \in 1 .. k : reply.emits[i] \in [to : SUBSET Recipients, prio : Int]
    BY <2>3, ElementOfSeq
  <2>7. NextCursor(r) \in Nat
    <3>1. CASE r.inbox = {}
      BY <1>3, <3>1 DEF NextCursor
    <3>2. CASE r.inbox # {}
      <4>1. r.inbox \subseteq messages
        BY <1>2 DEF IInv, StepInv
      <4>2. UniqueIds(r.inbox) /\ \A m \in r.inbox : m.id <= serial
        BY <4>1 DEF IInv, IdInv, UniqueIds, BelowSerial
      <4>3. LastOf(r.inbox) \in r.inbox
        BY <1>2, <3>2, <4>1, <4>2, LastOfInbox
      <4> QED
        BY <1>2, <3>2, <4>1, <4>3 DEF NextCursor, MessageRecord
    <3> QED
      BY <3>1, <3>2
  <2>8. \A m \in sent : \E i \in 1 .. n : m = Sent(r, serial + i, reply.send[i])
    OBVIOUS
  <2>9. \A e \in emitted : \E i \in 1 .. k :
          e = Emitted(serial + n + i, reply.emits[i], r.activation)
    OBVIOUS
  <2> HIDE DEF n, k, sent, emitted
  <2>10. sent \subseteq MessageRecord
    <3> SUFFICES ASSUME NEW i \in 1 .. n PROVE Sent(r, serial + i, reply.send[i]) \in MessageRecord
      BY <2>8
    <3>1. serial + i \in Nat
      BY <1>2, <2>4
    <3>2. reply.send[i] \in [to : Recipients, prio : Int, named : BOOLEAN]
      BY <2>5
    <3> QED
      BY <1>3, <3>1, <3>2 DEF Sent, MessageRecord
  <2>11. emitted \subseteq EventRecord
    <3> SUFFICES ASSUME NEW i \in 1 .. k
                 PROVE  Emitted(serial + n + i, reply.emits[i], r.activation) \in EventRecord
      BY <2>9
    <3>1. serial + n + i \in Nat
      BY <1>2, <2>4
    <3>2. reply.emits[i] \in [to : SUBSET Recipients, prio : Int]
      BY <2>6
    <3> QED
      BY <1>2, <1>3, <1>4, <3>1, <3>2 DEF Emitted, EventRecord
  <2>12. /\ res.agent = r.agent /\ res.messages = sent /\ res.events = emitted
         /\ res.state.version = r.version + 1 /\ Proposed(res) = sent \cup emitted
    BY DEF Result, Proposed
  <2>13. res \in ResultRecord
    BY <1>3, <2>3, <2>7, <2>10, <2>11 DEF Result, ResultRecord
  <2>14. /\ \A m \in sent : serial < m.id /\ m.id <= serial + n
         /\ \A e \in emitted : serial + n < e.id /\ e.id <= serial + n + k
         /\ UniqueIds(sent) /\ UniqueIds(emitted)
    <3>1. \A m \in sent : serial < m.id /\ m.id <= serial + n
      BY <1>2, <2>4, <2>8 DEF Sent
    <3>2. \A e \in emitted : serial + n < e.id /\ e.id <= serial + n + k
      BY <1>2, <2>4, <2>9 DEF Emitted
    <3>3. UniqueIds(sent)
      BY <1>2, <2>4, <2>8 DEF Sent, UniqueIds
    <3>4. UniqueIds(emitted)
      BY <1>2, <2>4, <2>9 DEF Emitted, UniqueIds
    <3> QED
      BY <3>1, <3>2, <3>3, <3>4
  <2>15. /\ \A m \in sent : m.origin \in {NoActivation, r.activation}
         /\ \A e \in emitted : e.cause \in {NoActivation, r.activation}
    BY <2>8, <2>9 DEF Sent, Emitted
  <2>16. /\ serial' \in Nat /\ serial <= serial' /\ DisjointIds(sent, emitted)
         /\ \A x \in sent \cup emitted : serial < x.id /\ x.id <= serial'
    <3>1. /\ \A m \in sent : m.id \in Nat
          /\ \A e \in emitted : e.id \in Nat
      BY <2>10, <2>11 DEF MessageRecord, EventRecord
    <3> QED
      BY <1>2, <2>2, <2>4, <2>14, <3>1 DEF DisjointIds
  <2> HIDE DEF res
  <2> QED
    BY <1>1, <2>2, <2>12, <2>13, <2>14, <2>15, <2>16, AddResultInv
<1>6. CASE CompletesMalformed(r)
  <2> DEFINE res == Result(r, r.cursor, {}, {}, FALSE)
  <2>1. results' = results \cup {res} /\ serial' = serial
    BY <1>6 DEF CompletesMalformed
  <2>2. /\ res.agent = r.agent /\ res.messages = {} /\ res.events = {}
        /\ res.state.version = r.version + 1 /\ Proposed(res) = {}
    BY DEF Result, Proposed
  <2>3. res \in ResultRecord
    BY <1>3 DEF Result, ResultRecord
  <2> HIDE DEF res
  <2> QED
    BY <1>1, <1>2, <2>1, <2>2, <2>3, AddResultInv DEF UniqueIds, DisjointIds
<1> QED
  BY <1>5, <1>6 DEF Execute

(* A request that fails leaves no result, and its id is never used again.  *)
LEMMA FailedOutcomeInv == ASSUME IInv, NEW r \in todo, FailedOutcome(r) PROVE IInv'
<1>1. /\ todo' = todo \ {r}
      /\ UNCHANGED <<storeVars, usesPolicy, phase, now, wall, serial, batch,
                     requests, results, actions, environment, trace>>
  BY DEF FailedOutcome
<1>2. UNCHANGED <<states, messages, events, committed, receipt>>
  BY <1>1 DEF storeVars
<1>3. EngineTypeOK'
  BY <1>1, <1>2 DEF IInv, EngineTypeOK
<1>4. IdInv'
  BY <1>1, <1>2 DEF IInv, IdInv, BelowSerial, UniqueIds, DisjointIds, Unspent
<1>5. StepInv'
  BY <1>1, <1>2 DEF IInv, StepInv, Fresh, IsCommitted
<1>6. OriginInv' /\ NoConflict' /\ SingleWave'
  BY <1>1, <1>2
     DEF IInv, OriginInv, Known, IsCommitted, NoConflict, SingleWave, CausalParents
<1> QED
  BY <1>3, <1>4, <1>5, <1>6 DEF IInv

(* Raising, the passing of time and idling leave every record alone.       *)
LEMMA FrameInv ==
  ASSUME IInv, wall' \in Nat, phase' \in {phase, "failed"},
         UNCHANGED <<storeVars, usesPolicy, now, serial, batch, requests, todo,
                     results, actions, environment, trace>>
  PROVE  IInv'
<1>1. UNCHANGED <<states, messages, events, committed, receipt>>
  BY DEF storeVars
<1>2. EngineTypeOK'
  BY <1>1 DEF IInv, EngineTypeOK
<1>3. IdInv'
  BY <1>1 DEF IInv, IdInv, BelowSerial, UniqueIds, DisjointIds, Unspent
<1>4. StepInv'
  BY <1>1 DEF IInv, StepInv, Fresh, IsCommitted
<1>5. OriginInv' /\ NoConflict' /\ SingleWave'
  BY <1>1 DEF IInv, OriginInv, Known, IsCommitted, NoConflict, SingleWave, CausalParents
<1> QED
  BY <1>2, <1>3, <1>4, <1>5 DEF IInv

(* At the end of step() there is neither a request nor a result left.      *)
LEMMA FinishStepInv == IInv /\ FinishStep => IInv'
<1> SUFFICES ASSUME IInv, FinishStep PROVE IInv'
  OBVIOUS
<1>1. /\ results = {} /\ todo = {} /\ batch' = {} /\ requests' = {} /\ actions' = <<>>
      /\ phase' = "ready" /\ now' = now + 1
      /\ environment' = [environment EXCEPT !.applied = @ \o actions]
      /\ UNCHANGED <<usesPolicy, wall, serial, todo, results, trace>>
      /\ UNCHANGED <<states, messages, events, committed, receipt>>
  BY DEF FinishStep, storeVars
<1>2. EngineTypeOK'
  <2>1. now' \in 0 .. RunSteps
    BY <1>1, EngineAssumption DEF IInv, EngineTypeOK, StepInv, FinishStep
  <2>2. environment' \in [tick : Nat, applied : Seq(Activations)]
    <3>1. environment.tick \in Nat /\ environment.applied \o actions \in Seq(Activations)
      BY ConcatProperties DEF IInv, EngineTypeOK
    <3>2. environment' =
            [tick |-> environment.tick, applied |-> environment.applied \o actions]
      BY <1>1 DEF IInv, EngineTypeOK
    <3> QED
      BY <3>1, <3>2
  <2> QED
    BY <1>1, <2>1, <2>2 DEF IInv, EngineTypeOK
<1>3. IdInv'
  BY <1>1 DEF IInv, IdInv, BelowSerial, UniqueIds, DisjointIds, Unspent
<1>4. StepInv'
  BY <1>1 DEF StepInv
<1>5. OriginInv' /\ NoConflict' /\ SingleWave'
  BY <1>1 DEF IInv, OriginInv, Known, IsCommitted, NoConflict, SingleWave
<1> QED
  BY <1>2, <1>3, <1>4, <1>5 DEF IInv

(* The record that step() writes for a result, which the store committed.  *)
Step(req, res) ==
  [activation |-> req.activation, agent |-> req.agent, tick |-> now,
   parents |-> {m.id : m \in req.inbox}, status |-> "committed",
   read |-> req.version, written |-> req.version + 1,
   sent |-> {m.id : m \in Deliverable(res.messages)}, acts |-> res.acts]

(* A commit of step(): the request is still fresh, so the store applies    *)
(* the unit.                                                               *)
LEMMA CommitEffect ==
  ASSUME IInv, NEW res \in results, CommitResult(res)
  PROVE  \E req \in requests :
           /\ phase = "running" /\ todo = {}
           /\ req.agent = res.agent /\ Fresh(req) /\ res.state.version = req.version + 1
           /\ states' = [states EXCEPT ![res.agent] = res.state]
           /\ messages' = messages \cup Deliverable(res.messages)
           /\ events' = events \cup {Arrival(m) : m \in Deliverable(res.messages)}
                               \cup res.events
           /\ committed' = committed \cup
                {[activation |-> req.activation, written |-> res.state.version]}
           /\ actions' = IF res.acts THEN Append(actions, req.activation) ELSE actions
           /\ trace' = Append(trace, Step(req, res))
           /\ results' = results \ {res}
           /\ UNCHANGED <<usesPolicy, phase, now, wall, serial, batch, requests,
                          todo, environment>>
<1> DEFINE req == RequestOf(res.agent)
           kept == Deliverable(res.messages)
           unit == [activation |-> req.activation, agent |-> res.agent,
                    expected |-> req.version, state |-> res.state,
                    messages |-> kept,
                    events |-> {Arrival(m) : m \in kept} \cup res.events]
<1>1. /\ phase = "running" /\ todo = {}
      /\ Commit(unit)
      /\ actions' = IF res.acts THEN Append(actions, req.activation) ELSE actions
      /\ trace' = Append(trace, AgentStep(req, res))
      /\ results' = results \ {res}
      /\ UNCHANGED <<usesPolicy, phase, now, wall, serial, batch, requests, todo, environment>>
  BY DEF CommitResult
<1>2. /\ req \in requests /\ req.agent = res.agent /\ Fresh(req)
      /\ res.state.version = req.version + 1
  <2>1. PICK r \in requests : /\ r.agent = res.agent /\ Fresh(r)
                              /\ res.state.version = r.version + 1
    BY <1>1 DEF IInv, StepInv
  <2>2. \A q \in requests : q.agent = res.agent => q = r
    BY <2>1 DEF IInv, StepInv
  <2> QED
    BY <2>1, <2>2 DEF RequestOf
<1> HIDE DEF req, kept
<1>3. /\ unit.activation = req.activation /\ unit.agent = res.agent
      /\ unit.expected = req.version /\ unit.state = res.state
      /\ unit.messages = kept
      /\ unit.events = {Arrival(m) : m \in kept} \cup res.events
  OBVIOUS
<1> HIDE DEF unit
<1>4. CommitApply(unit)
  <2>1. ~ IsCommitted(unit.activation) /\ states[unit.agent].version = unit.expected
    BY <1>2, <1>3 DEF Fresh
  <2> QED
    BY <1>1, <2>1 DEF Commit, CommitDuplicate, CommitConflict
<1>5. /\ states' = [states EXCEPT ![res.agent] = res.state]
      /\ messages' = messages \cup kept
      /\ events' = events \cup {Arrival(m) : m \in kept} \cup res.events
      /\ committed' = committed \cup
           {[activation |-> req.activation, written |-> res.state.version]}
      /\ receipt' = Receipt(unit, "committed", res.state.version)
  BY <1>3, <1>4 DEF CommitApply, Land
<1>6. /\ receipt'.status = "committed" /\ receipt'.read = req.version
      /\ receipt'.written = req.version + 1
  BY <1>2, <1>3, <1>5 DEF Receipt
<1>7. AgentStep(req, res) = Step(req, res)
  BY <1>2, <1>6 DEF AgentStep, Step
<1> QED
  BY <1>1, <1>2, <1>5, <1>7 DEF kept

(* What a commit appends to the trace, position by position.               *)
LEMMA TraceGrows ==
  ASSUME EngineTypeOK, EngineTypeOK', NEW t, trace' = Append(trace, t)
  PROVE  /\ Len(trace) \in Nat
         /\ DOMAIN trace = 1 .. Len(trace)
         /\ DOMAIN trace' = DOMAIN trace \cup {Len(trace) + 1}
         /\ \A i \in DOMAIN trace : trace'[i] = trace[i]
         /\ trace'[Len(trace) + 1] = t
<1>1. trace \in Seq(TraceRecord) /\ trace' \in Seq(TraceRecord)
  BY DEF EngineTypeOK
<1>2. /\ Len(trace) \in Nat /\ DOMAIN trace = 1 .. Len(trace)
      /\ DOMAIN trace' = 1 .. Len(trace')
  BY <1>1, LenProperties
<1>3. /\ Len(trace') = Len(trace) + 1 /\ trace'[Len(trace) + 1] = t
      /\ \A i \in 1 .. Len(trace) : trace'[i] = trace[i]
  <2>1. trace' \in Seq(TraceRecord \cup {t}) /\ trace \in Seq(TraceRecord \cup {t})
    BY <1>1, SeqMonotonic
  <2> QED
    BY <2>1, AppendProperties
<1> QED
  BY <1>2, <1>3

(* A commit leaves the requests of the other results fresh.                *)
LEMMA CommitResultInv == ASSUME IInv, NEW res \in results, CommitResult(res) PROVE IInv'
<1> DEFINE kept == Deliverable(res.messages)
           arrivals == {Arrival(m) : m \in kept}
<1>1. PICK req \in requests :
        /\ phase = "running" /\ todo = {}
        /\ req.agent = res.agent /\ Fresh(req) /\ res.state.version = req.version + 1
        /\ states' = [states EXCEPT ![res.agent] = res.state]
        /\ messages' = messages \cup kept
        /\ events' = events \cup arrivals \cup res.events
        /\ committed' = committed \cup
             {[activation |-> req.activation, written |-> res.state.version]}
        /\ actions' = IF res.acts THEN Append(actions, req.activation) ELSE actions
        /\ trace' = Append(trace, Step(req, res))
        /\ results' = results \ {res}
        /\ UNCHANGED <<usesPolicy, phase, now, wall, serial, batch, requests, todo, environment>>
  BY CommitEffect
<1>2. /\ req.agent = res.agent /\ Fresh(req) /\ res.state.version = req.version + 1
  BY <1>1
<1>3. /\ res \in ResultRecord /\ req \in RequestRecord
      /\ serial \in Nat /\ wall \in Nat /\ trace \in Seq(TraceRecord) /\ now \in Nat
      /\ committed \subseteq [activation : Activations, written : Nat]
  BY <1>2 DEF IInv, EngineTypeOK
<1>4. /\ res.agent \in Agents /\ res.state \in [version : Nat, cursor : Nat]
      /\ res.messages \subseteq MessageRecord /\ res.events \subseteq EventRecord
      /\ res.acts \in BOOLEAN
      /\ req.activation \in Activations /\ req.version \in Nat /\ req.cursor \in Nat
      /\ req.inbox \subseteq MessageRecord
  BY <1>3 DEF ResultRecord, RequestRecord
<1>5. req.trigger \in batch /\ req.activation = <<req.trigger.id, req.agent>>
  BY <1>2 DEF IInv, StepInv
<1>6. kept \subseteq res.messages /\ \A m \in kept : m.to \in Agents
  BY DEF Deliverable
<1>7. \A e \in arrivals : \E m \in kept : e.id = m.id /\ e.cause = m.origin
  BY DEF Arrival
<1>8. arrivals \subseteq EventRecord
  <2> SUFFICES ASSUME NEW m \in kept PROVE Arrival(m) \in EventRecord
    OBVIOUS
  <2>1. /\ m.id \in Nat /\ m.to \in Recipients /\ m.prio \in Int
        /\ m.origin \in Activations \cup {NoActivation}
    BY <1>4, <1>6 DEF MessageRecord
  <2>2. Len(trace) \in Nat
    BY <1>3, LenProperties
  <2> QED
    BY <1>3, <2>1, <2>2 DEF Arrival, EventRecord
<1>9. UniqueIds(arrivals)
  <2>1. UniqueIds(res.messages)
    BY DEF IInv, IdInv
  <2>2. \A e \in arrivals : \E m \in kept : e = Arrival(m)
    OBVIOUS
  <2>3. \A m \in kept : Arrival(m).id = m.id
    BY DEF Arrival
  <2> HIDE DEF arrivals, kept
  <2> QED
    BY <1>6, <2>1, <2>2, <2>3 DEF UniqueIds
<1> HIDE DEF kept, arrivals
<1>11. /\ states' = [states EXCEPT ![res.agent] = res.state]
       /\ messages' = messages \cup kept
       /\ events' = events \cup arrivals \cup res.events
       /\ committed' = committed \cup
            {[activation |-> req.activation, written |-> res.state.version]}
  BY <1>1
<1>13. Step(req, res) \in TraceRecord /\ Step(req, res).status = "committed"
  <2>1. {m.id : m \in req.inbox} \in SUBSET Nat
    BY <1>4 DEF MessageRecord
  <2>2. {m.id : m \in Deliverable(res.messages)} \in SUBSET Nat
    BY <1>4 DEF MessageRecord, Deliverable
  <2> QED
    BY <1>1, <1>3, <1>4, <2>1, <2>2 DEF Step, TraceRecord
<1>14. EngineTypeOK'
  <2>1. states' \in [Agents -> [version : Nat, cursor : Nat]]
    BY <1>4, <1>11 DEF IInv, EngineTypeOK
  <2>2. messages' \subseteq MessageRecord /\ events' \subseteq EventRecord
    BY <1>4, <1>6, <1>8, <1>11 DEF IInv, EngineTypeOK
  <2>3. committed' \subseteq [activation : Activations, written : Nat]
    BY <1>3, <1>4, <1>11
  <2>4. actions' \in Seq(Activations)
    BY <1>1, <1>4, AppendProperties DEF IInv, EngineTypeOK
  <2>5. trace' \in Seq(TraceRecord)
    BY <1>1, <1>3, <1>13, AppendProperties
  <2>6. results' \subseteq ResultRecord
    BY <1>1 DEF IInv, EngineTypeOK
  <2> QED
    BY <1>1, <2>1, <2>2, <2>3, <2>4, <2>5, <2>6 DEF IInv, EngineTypeOK
<1>15. NoConflict'
  <2>1. /\ DOMAIN trace' = DOMAIN trace \cup {Len(trace) + 1}
        /\ \A i \in DOMAIN trace : trace'[i] = trace[i]
        /\ trace'[Len(trace) + 1] = Step(req, res)
    BY <1>1, <1>14, TraceGrows DEF IInv
  <2> QED
    BY <1>13, <2>1 DEF IInv, NoConflict
<1>16. SingleWave'
  BY <1>1 DEF IInv, SingleWave, CausalParents
<1>17. IdInv'
  <2>1. /\ BelowSerial(Proposed(res)) /\ UniqueIds(res.messages) /\ UniqueIds(res.events)
        /\ DisjointIds(res.messages, res.events)
        /\ DisjointIds(Proposed(res), messages) /\ DisjointIds(Proposed(res), events)
        /\ DisjointIds(Proposed(res), batch) /\ Unspent(Proposed(res))
    BY DEF IInv, IdInv
  <2>2. \A x \in kept \cup arrivals \cup res.events : \E y \in Proposed(res) : x.id = y.id
    BY <1>6, <1>7 DEF Proposed
  <2>3. /\ BelowSerial(messages') /\ BelowSerial(events') /\ BelowSerial(batch')
        /\ \A c \in committed' : c.activation[1] <= serial
    <3>1. req.activation[1] <= serial
      BY <1>5 DEF IInv, IdInv, BelowSerial
    <3> QED
      BY <1>1, <1>11, <2>1, <2>2, <3>1 DEF IInv, IdInv, BelowSerial
  <2>4. UniqueIds(messages') /\ UniqueIds(batch')
    BY <1>1, <1>6, <1>11, <2>1 DEF IInv, IdInv, UniqueIds, DisjointIds, Proposed
  <2>5. UniqueIds(events')
    <3>1. DisjointIds(arrivals, res.events)
      BY <1>6, <1>7, <2>1 DEF DisjointIds
    <3>2. DisjointIds(arrivals \cup res.events, events)
      BY <2>1, <2>2 DEF DisjointIds
    <3> QED
      BY <1>9, <1>11, <2>1, <3>1, <3>2 DEF IInv, IdInv, UniqueIds, DisjointIds
  <2>6. DisjointIds(events', batch')
    BY <1>1, <1>11, <2>1, <2>2 DEF IInv, IdInv, DisjointIds
  <2>7. \A x \in events', c \in committed' : x.id # c.activation[1]
    <3>1. \A x \in events' : x.id # req.trigger.id
      BY <1>1, <1>5, <2>6 DEF DisjointIds
    <3>2. \A x \in events', c \in committed : x.id # c.activation[1]
      BY <1>11, <2>1, <2>2 DEF IInv, IdInv, Unspent
    <3> QED
      BY <1>5, <1>11, <3>1, <3>2
  <2>8. ASSUME NEW other \in results'
        PROVE  /\ BelowSerial(Proposed(other))
               /\ UniqueIds(other.messages) /\ UniqueIds(other.events)
               /\ DisjointIds(other.messages, other.events)
               /\ DisjointIds(Proposed(other), messages')
               /\ DisjointIds(Proposed(other), events')
               /\ DisjointIds(Proposed(other), batch)
               /\ \A x \in Proposed(other), c \in committed' : x.id # c.activation[1]
    <3>1. other \in results /\ other # res
      BY <1>1
    <3>2. /\ BelowSerial(Proposed(other))
          /\ UniqueIds(other.messages) /\ UniqueIds(other.events)
          /\ DisjointIds(other.messages, other.events)
          /\ DisjointIds(Proposed(other), messages) /\ DisjointIds(Proposed(other), events)
          /\ DisjointIds(Proposed(other), batch) /\ Unspent(Proposed(other))
      BY <3>1 DEF IInv, IdInv
    <3>3. DisjointIds(Proposed(other), Proposed(res))
      BY <3>1 DEF IInv, IdInv
    <3>4. DisjointIds(Proposed(other), messages') /\ DisjointIds(Proposed(other), events')
      BY <1>11, <2>2, <3>2, <3>3 DEF DisjointIds
    <3>5. \A x \in Proposed(other), c \in committed' : x.id # c.activation[1]
      BY <1>5, <1>11, <3>2 DEF Unspent, DisjointIds
    <3> QED
      BY <3>2, <3>4, <3>5
  <2>9. \A one, other \in results' :
          one # other => DisjointIds(Proposed(one), Proposed(other))
    BY <1>1 DEF IInv, IdInv
  <2> QED
    BY <1>1, <2>3, <2>4, <2>5, <2>6, <2>7, <2>8, <2>9 DEF IdInv, BelowSerial, Unspent
<1>18. \A q \in requests : q.agent # res.agent /\ Fresh(q) => Fresh(q)'
  <2> SUFFICES ASSUME NEW q \in requests, q.agent # res.agent, Fresh(q) PROVE Fresh(q)'
    OBVIOUS
  <2>1. q.agent \in Agents /\ q.activation = <<q.trigger.id, q.agent>>
    BY DEF IInv, EngineTypeOK, StepInv, RequestRecord
  <2>2. q.activation # req.activation
    BY <1>2, <1>5, <2>1
  <2>3. states'[q.agent] = states[q.agent]
    BY <1>11, <2>1 DEF IInv, EngineTypeOK
  <2> QED
    BY <1>11, <2>2, <2>3 DEF Fresh, IsCommitted
<1>19. StepInv'
  <2>1. ASSUME NEW other \in results'
        PROVE  \E q \in requests' \ todo' :
                 q.agent = other.agent /\ Fresh(q)' /\ other.state.version = q.version + 1
    <3>1. other \in results /\ other # res
      BY <1>1
    <3>2. other.agent # res.agent
      BY <3>1 DEF IInv, StepInv
    <3>3. PICK q \in requests \ todo :
            q.agent = other.agent /\ Fresh(q) /\ other.state.version = q.version + 1
      BY <3>1 DEF IInv, StepInv
    <3> QED
      BY <1>1, <1>18, <3>2, <3>3
  <2>2. \A r \in requests' : r.inbox \subseteq messages'
    BY <1>1, <1>11 DEF IInv, StepInv
  <2> QED
    BY <1>1, <2>1, <2>2 DEF IInv, StepInv
<1>20. OriginInv'
  <2>1. \A origin : Known(origin) => Known(origin)'
    BY <1>11 DEF Known, IsCommitted
  <2>2. \A origin \in {NoActivation, req.activation} : Known(origin)'
    <3> DEFINE key == [activation |-> req.activation, written |-> res.state.version]
    <3>1. key \in committed' /\ key.activation = req.activation
      BY <1>11
    <3> HIDE DEF key
    <3> QED
      BY <3>1 DEF Known, IsCommitted
  <2>3. /\ \A m \in res.messages : m.origin \in {NoActivation, req.activation}
        /\ \A e \in res.events : e.cause \in {NoActivation, req.activation}
    BY <1>2 DEF IInv, OriginInv
  <2>4. \A m \in messages' : Known(m.origin)'
    BY <1>6, <1>11, <2>1, <2>2, <2>3 DEF IInv, OriginInv
  <2>5. \A e \in events' : Known(e.cause)'
    BY <1>6, <1>7, <1>11, <2>1, <2>2, <2>3 DEF IInv, OriginInv
  <2> QED
    BY <1>1, <2>4, <2>5 DEF IInv, OriginInv
<1> QED
  BY <1>14, <1>15, <1>16, <1>17, <1>19, <1>20 DEF IInv

-----------------------------------------------------------------------------
(* The freshly built scenario satisfies the invariant.                     *)
LEMMA InitInv == Init => IInv
<1> SUFFICES ASSUME Init PROVE IInv
  OBVIOUS
<1>1. EngineTypeOK
  <2>1. /\ <<>> \in Seq(Activations) /\ <<>> \in Seq(TraceRecord)
        /\ NoMessage \in Nat /\ usesPolicy \in BOOLEAN /\ 0 \in 0 .. RunSteps
    BY EngineAssumption DEF Init
  <2> QED
    BY <2>1 DEF Init, StoreInit, EngineTypeOK
<1>2. IdInv
  BY DEF Init, StoreInit, IdInv, BelowSerial, UniqueIds, DisjointIds, Unspent
<1>3. StepInv /\ OriginInv /\ SingleWave
  BY DEF Init, StoreInit, StepInv, OriginInv, SingleWave
<1>4. NoConflict
  BY DEF Init, NoConflict
<1> QED
  BY <1>1, <1>2, <1>3, <1>4 DEF IInv

(* Every action of the engine preserves the invariant.                     *)
LEMMA StepPreservesInv == IInv /\ [Next]_vars => IInv'
<1> SUFFICES ASSUME IInv, [Next]_vars PROVE IInv'
  OBVIOUS
<1>1. wall \in Nat
  BY DEF IInv, EngineTypeOK
<1>2. CASE LoadEvents
  BY <1>2, LoadEventsInv
<1>3. CASE AdvanceEnvironment
  BY <1>3, AdvanceEnvironmentInv
<1>4. CASE \E r \in todo : Execute(r)
  BY <1>4, ExecuteInv
<1>5. CASE \E r \in todo : FailedOutcome(r)
  BY <1>5, FailedOutcomeInv
<1>6. CASE BackendRaises
  BY <1>1, <1>6, FrameInv DEF BackendRaises
<1>7. CASE TimePasses
  BY <1>1, <1>7, FrameInv DEF TimePasses
<1>8. CASE \E res \in results : CommitResult(res)
  BY <1>8, CommitResultInv
<1>9. CASE FinishStep
  BY <1>9, FinishStepInv
<1>10. CASE ActionRaises
  BY <1>1, <1>10, FrameInv DEF ActionRaises
<1>11. CASE UNCHANGED vars
  BY <1>1, <1>11, FrameInv DEF vars, engineVars
<1> QED
  BY <1>2, <1>3, <1>4, <1>5, <1>6, <1>7, <1>8, <1>9, <1>10, <1>11 DEF Next, Ended

(* The inductive invariant holds in every reachable state.                 *)
THEOREM Invariance == Spec => []IInv
<1> QED
  BY InitInv, StepPreservesInv, PTL DEF Spec

(* The engine's records keep their types: among others, every cursor is    *)
(* None or the id of a message, since it comes from a window that has a    *)
(* last message.                                                           *)
THEOREM TypeCorrect == Spec => []EngineTypeOK
<1> QED
  BY Invariance, PTL DEF IInv

(* commit() never answers DUPLICATE or CONFLICT to step(), in whatever     *)
(* order a dispatch policy executes and returns the activations of a tick, *)
(* and whatever fails, for every number of agents, events and steps.       *)
THEOREM EveryCommitApplies == Spec => []NoConflict
<1> QED
  BY Invariance, PTL DEF IInv

(* Within one tick no activation is a causal parent of another, so that    *)
(* build_causal_waves yields one wave (paper_draft.md, Proposition 2), for *)
(* every workload.                                                         *)
THEOREM OneWavePerTick == Spec => []SingleWave
<1> QED
  BY Invariance, PTL DEF IInv
-----------------------------------------------------------------------------
(* An activation of the running step that has not been committed yet.      *)
Pending(r) == r \in todo \/ \E res \in results : res.agent = r.agent

TicksInOrder ==
  \A i \in DOMAIN trace :
    trace[i].tick <= now /\ (phase = "ready" => trace[i].tick < now)

(* Whatever is in an inbox was sent in an earlier tick, by a record.       *)
InboxesRecorded ==
  \A r \in requests : \A m \in r.inbox :
    \E i \in DOMAIN trace : m.id \in trace[i].sent /\ trace[i].tick < now

CausalInv == CausallyClosed /\ TicksInOrder /\ InboxesRecorded

RecordedNow == {trace[i].activation : i \in {k \in DOMAIN trace : trace[k].tick = now}}

HaltInv ==
  /\ phase # "ready" /\ RecordedNow # {} => todo = {}
  /\ phase = "failed" /\ RecordedNow # {} => results = {}
  /\ phase # "ready" => RecordedNow \subseteq {r.activation : r \in requests}
  /\ phase # "ready" /\ ~ usesPolicy =>
       \A r \in requests : Pending(r) \/ r.activation \in RecordedNow

(* A cursor is None or the id of a stored message.                         *)
Stored(cursor) == cursor = NoMessage \/ \E m \in messages : m.id = cursor

CursorInv ==
  /\ \A m \in messages : m.at = m.id /\ m.id > 0 /\ m.to \in Agents
  /\ \A a \in Agents : Stored(states[a].cursor)
  /\ \A r \in requests : Stored(r.cursor) /\ Stored(NextCursor(r))
  /\ \A r \in requests : Pending(r) => states[r.agent].cursor = r.cursor
  /\ \A res \in results, r \in requests : res.agent = r.agent =>
       /\ res.state.cursor \in {r.cursor, NextCursor(r)}
       /\ "malformed" \notin Faults => res.state.cursor = NextCursor(r)
  /\ \A res \in results : \A m \in res.messages :
       /\ m.at = m.id /\ m.id > 0
       /\ \A r \in requests : r.cursor < m.id /\ NextCursor(r) < m.id
       /\ \A a \in Agents : states[a].cursor < m.id

UnreadInv ==
  /\ \A m \in messages : WasRead(m) \/ states[m.to].cursor < m.id
  /\ \A r \in requests : Pending(r) =>
       \A m \in messages : m.to = r.agent =>
         \/ WasRead(m)
         \/ m \in r.inbox
         \/ r.cursor < m.id /\ NextCursor(r) < m.id

OrderInv ==
  /\ \A i \in DOMAIN trace : \A id \in trace[i].parents :
       id <= states[trace[i].agent].cursor
  /\ \A i, j \in DOMAIN trace : i < j /\ trace[i].agent = trace[j].agent =>
       \A k \in trace[i].parents, id \in trace[j].parents : k < id
  /\ \A r \in requests : Pending(r) => \A m \in r.inbox :
       r.cursor < m.id /\ m.id <= NextCursor(r)

ArrivalInv ==
  /\ usesPolicy \in Policies
  /\ \A e \in events, m \in messages : e.id = m.id => e.to = {m.to}
  /\ \A m \in messages :
       \/ WasRead(m)
       \/ \E e \in events : e.id = m.id
       \/ \E r \in requests : Pending(r) /\ m \in r.inbox

DueInv ==
  /\ wall <= now + 1
  /\ \A e \in events : e.due <= IF phase = "ready" THEN now ELSE now + 1
  /\ phase # "ready" => \A res \in results : \A e \in res.events : e.due <= now + 1
-----------------------------------------------------------------------------
(* What the actions do to the variables these invariants are about.        *)

(* A step begins by building requests; the store only loses events.        *)
LEMMA BeginEffect ==
  ASSUME IInv, LoadEvents \/ AdvanceEnvironment
  PROVE  /\ phase = "ready" /\ phase' = "running"
         /\ results = {} /\ results' = {} /\ requests = {} /\ todo = {} /\ todo' = requests'
         /\ UNCHANGED <<states, messages, committed, usesPolicy, now, wall, actions, trace>>
         /\ environment'.applied = environment.applied
         /\ events' \subseteq events
         /\ \A r \in requests' : \E e \in batch', a \in Agents : r = Context(e, a)
<1>1. ASSUME NEW ready, BuildRequests(ready)
      PROVE  /\ phase' = "running" /\ todo' = requests'
             /\ UNCHANGED <<usesPolicy, now, wall, results, actions, trace>>
             /\ \A r \in requests' : \E e \in batch', a \in Agents : r = Context(e, a)
  BY <1>1 DEF BuildRequests, Plan
<1>2. phase = "ready" /\ results = {} /\ requests = {} /\ todo = {}
  BY DEF LoadEvents, AdvanceEnvironment, IInv, StepInv
<1>3. CASE LoadEvents
  <2>1. /\ BuildRequests(Ready(now, MaxEventsPerTick))
        /\ events' = events \ Ready(now, MaxEventsPerTick)
        /\ UNCHANGED <<states, messages, committed, environment>>
    BY <1>3 DEF LoadEvents, PopReady
  <2> QED
    BY <1>1, <1>2, <2>1
<1>4. CASE AdvanceEnvironment
  <2>1. /\ UNCHANGED <<states, messages, events, committed>>
        /\ \E ready : BuildRequests(ready)
        /\ environment' = [environment EXCEPT !.tick = @ + 1]
    BY <1>4 DEF AdvanceEnvironment, storeVars
  <2>2. environment'.applied = environment.applied
    BY <2>1 DEF IInv, EngineTypeOK
  <2> QED
    BY <1>1, <1>2, <2>1, <2>2
<1> QED
  BY <1>3, <1>4

(* Types of the records, position by position.                             *)
LEMMA TraceTypes ==
  ASSUME EngineTypeOK
  PROVE  /\ now \in Nat
         /\ DOMAIN trace = 1 .. Len(trace) /\ Len(trace) \in Nat
         /\ \A i \in DOMAIN trace : trace[i] \in TraceRecord /\ trace[i].tick \in Nat
<1>1. trace \in Seq(TraceRecord) /\ now \in 0 .. RunSteps
  BY DEF EngineTypeOK
<1>2. now \in Nat
  BY <1>1, EngineAssumption
<1>3. DOMAIN trace = 1 .. Len(trace) /\ Len(trace) \in Nat
  BY <1>1, LenProperties
<1>4. \A i \in 1 .. Len(trace) : trace[i] \in TraceRecord
  BY <1>1, ElementOfSeq
<1>5. \A t \in TraceRecord : t.tick \in Nat
  BY DEF TraceRecord
<1> QED
  BY <1>2, <1>3, <1>4, <1>5

(* Raising, the passing of time and idling: only phase and wall change.    *)
Rests ==
  /\ UNCHANGED <<storeVars, usesPolicy, now, serial, batch, requests, todo,
                 results, actions, environment, trace>>
  /\ wall' = wall \/ (wall < now + MaxLag /\ wall' = wall + 1)
  /\ \/ phase' = phase
     \/ phase = "running" /\ phase' = "failed" /\ todo # {} /\ ~ usesPolicy
     \/ phase = "running" /\ phase' = "failed" /\ todo = {} /\ results = {}

(* The steps of the engine, by what they do to the trace and the requests. *)
LEMMA StepKinds ==
  ASSUME [Next]_vars
  PROVE  \/ LoadEvents \/ AdvanceEnvironment
         \/ \E r \in todo : Execute(r) \/ FailedOutcome(r)
         \/ \E res \in results : CommitResult(res)
         \/ FinishStep
         \/ Rests
BY DEF Next, BackendRaises, TimePasses, ActionRaises, Ended, Rests, vars, engineVars

(* Executing a request changes neither the store nor the trace.            *)
LEMMA WorkEffect ==
  ASSUME NEW r \in todo, Execute(r) \/ FailedOutcome(r)
  PROVE  /\ phase = "running"
         /\ UNCHANGED <<states, messages, events, committed, receipt, usesPolicy, phase,
                        now, wall, batch, requests, actions, environment, trace>>
         /\ todo' = todo \ {r}
         /\ FailedOutcome(r) => results' = results
BY DEF Execute, FailedOutcome, storeVars

(* The end of step().                                                      *)
LEMMA FinishEffect ==
  ASSUME FinishStep
  PROVE  /\ phase = "running" /\ todo = {} /\ results = {} /\ phase' = "ready"
         /\ requests' = {} /\ now' = now + 1 /\ actions' = <<>>
         /\ environment' = [environment EXCEPT !.applied = @ \o actions]
         /\ UNCHANGED <<states, messages, events, committed, receipt, usesPolicy, wall,
                        todo, results, trace>>
BY DEF FinishStep, storeVars
-----------------------------------------------------------------------------
(* Causal parents: every inbox holds what earlier ticks' records sent.     *)
LEMMA CausalStep ==
  ASSUME IInv, IInv', CausalInv, [Next]_vars
  PROVE  CausalInv'
<1>1. EngineTypeOK /\ EngineTypeOK'
  BY DEF IInv
<1>2. now \in Nat /\ \A i \in DOMAIN trace : trace[i].tick \in Nat
  BY <1>1, TraceTypes
<1>3. CASE LoadEvents \/ AdvanceEnvironment
  <2>1. /\ phase = "ready" /\ phase' = "running"
        /\ UNCHANGED <<states, messages, now, trace>>
    BY <1>3, BeginEffect
  <2>2. \A r \in requests' : r.inbox \subseteq messages
    BY <2>1 DEF IInv, StepInv
  <2>3. ASSUME NEW r \in requests', NEW m \in r.inbox
        PROVE  \E i \in DOMAIN trace : m.id \in trace[i].sent /\ trace[i].tick < now
    <3>1. m.id \in UNION {trace[i].sent : i \in DOMAIN trace}
      BY <2>2 DEF CausalInv, CausallyClosed
    <3> QED
      BY <2>1, <3>1 DEF CausalInv, TicksInOrder
  <2> QED
    BY <2>1, <2>3 DEF CausalInv, CausallyClosed, TicksInOrder, InboxesRecorded
<1>4. CASE \E r \in todo : Execute(r) \/ FailedOutcome(r)
  <2>1. UNCHANGED <<phase, messages, now, trace, requests>>
    BY <1>4, WorkEffect
  <2> QED
    BY <2>1 DEF CausalInv, CausallyClosed, TicksInOrder, InboxesRecorded
<1>5. CASE \E res \in results : CommitResult(res)
  <2>1. PICK res \in results : CommitResult(res)
    BY <1>5
  <2>2. PICK req \in requests :
          /\ phase = "running"
          /\ messages' = messages \cup Deliverable(res.messages)
          /\ trace' = Append(trace, Step(req, res))
          /\ UNCHANGED <<phase, now, requests>>
    BY <2>1, CommitEffect
  <2> DEFINE n == Len(trace)
             t == Step(req, res)
  <2>3. /\ t.tick = now /\ t.parents = {m.id : m \in req.inbox}
        /\ t.sent = {m.id : m \in Deliverable(res.messages)}
    BY DEF Step
  <2> HIDE DEF t
  <2>4. /\ n \in Nat /\ DOMAIN trace = 1 .. n /\ DOMAIN trace' = DOMAIN trace \cup {n + 1}
        /\ \A i \in DOMAIN trace : trace'[i] = trace[i]
        /\ trace'[n + 1] = t
    BY <1>1, <2>2, TraceGrows DEF t
  <2> HIDE DEF n
  <2>5. {m.id : m \in messages'} = UNION {trace'[i].sent : i \in DOMAIN trace'}
    <3>1. ASSUME NEW id
          PROVE  (\E m \in messages' : id = m.id) <=> (\E i \in DOMAIN trace' : id \in trace'[i].sent)
      <4>1. (\E m \in messages : id = m.id) <=> (\E i \in DOMAIN trace : id \in trace[i].sent)
        BY DEF CausalInv, CausallyClosed
      <4>2. (\E m \in Deliverable(res.messages) : id = m.id) <=> id \in trace'[n + 1].sent
        BY <2>3, <2>4
      <4> QED
        BY <2>2, <2>4, <4>1, <4>2
    <3> QED
      BY <3>1
  <2>6. ASSUME NEW j \in DOMAIN trace', NEW id \in trace'[j].parents
        PROVE  \E i \in 1 .. j - 1 : id \in trace'[i].sent /\ trace'[i].tick < trace'[j].tick
    <3>1. CASE j \in DOMAIN trace
      <4>1. PICK i \in 1 .. j - 1 : id \in trace[i].sent /\ trace[i].tick < trace[j].tick
        BY <2>4, <2>6, <3>1 DEF CausalInv, CausallyClosed
      <4> QED
        BY <2>4, <3>1, <4>1
    <3>2. CASE j = n + 1
      <4>1. PICK i \in DOMAIN trace : id \in trace[i].sent /\ trace[i].tick < now
        BY <2>2, <2>3, <2>4, <2>6, <3>2 DEF CausalInv, InboxesRecorded
      <4> QED
        BY <2>3, <2>4, <3>2, <4>1
    <3> QED
      BY <2>4, <3>1, <3>2
  <2>7. TicksInOrder'
    BY <1>2, <2>2, <2>3, <2>4 DEF CausalInv, TicksInOrder
  <2>8. InboxesRecorded'
    BY <2>2, <2>4 DEF CausalInv, InboxesRecorded
  <2> QED
    BY <2>5, <2>6, <2>7, <2>8 DEF CausalInv, CausallyClosed
<1>6. CASE FinishStep
  <2>1. now' = now + 1 /\ requests' = {} /\ UNCHANGED <<messages, trace>>
    BY <1>6, FinishEffect
  <2>2. TicksInOrder'
    BY <1>2, <2>1 DEF CausalInv, TicksInOrder
  <2> QED
    BY <2>1, <2>2 DEF CausalInv, CausallyClosed, InboxesRecorded
<1>7. CASE Rests
  <2>1. UNCHANGED <<messages, now, trace, requests>> /\ (phase' = "ready" => phase = "ready")
    BY <1>7 DEF Rests, storeVars
  <2> QED
    BY <2>1 DEF CausalInv, CausallyClosed, TicksInOrder, InboxesRecorded
<1> QED
  BY <1>3, <1>4, <1>5, <1>6, <1>7, StepKinds

LEMMA CausalInvariance == Spec => []CausalInv
<1>1. Init => CausalInv
  BY DEF Init, StoreInit, CausalInv, CausallyClosed, TicksInOrder, InboxesRecorded
<1>2. IInv /\ IInv' /\ CausalInv /\ [Next]_vars => CausalInv'
  BY CausalStep
<1> QED
  BY <1>1, <1>2, Invariance, PTL DEF Spec

(* causal_verifier finds neither a missing parent nor a cycle in the trace *)
(* of any run: the records name as sent what the store holds, and their    *)
(* causal parents were sent in an earlier tick, whatever the order of      *)
(* execution and commit, and whatever fails.                               *)
THEOREM ParentsInEarlierTicks == Spec => [](CausallyClosed /\ TicksInOrder)
<1> QED
  BY CausalInvariance, PTL DEF CausalInv
-----------------------------------------------------------------------------
(* The version chain: every record of an agent adds one to its version.    *)

(* A commit adds one record, to those of its agent.                        *)
LEMMA RecordsGrow ==
  ASSUME EngineTypeOK, EngineTypeOK', NEW t, trace' = Append(trace, t)
  PROVE  /\ \A a : a # t.agent => RecordsOf(a)' = RecordsOf(a)
         /\ RecordsOf(t.agent)' = RecordsOf(t.agent) \cup {Len(trace) + 1}
         /\ \A a : IsFiniteSet(RecordsOf(a)) /\ RecordsOf(a) \subseteq 1 .. Len(trace)
<1>1. /\ Len(trace) \in Nat
      /\ DOMAIN trace = 1 .. Len(trace) /\ DOMAIN trace' = DOMAIN trace \cup {Len(trace) + 1}
      /\ \A i \in DOMAIN trace : trace'[i] = trace[i]
      /\ trace'[Len(trace) + 1] = t
  BY TraceGrows
<1>2. \A a : RecordsOf(a) \subseteq 1 .. Len(trace)
  BY <1>1 DEF RecordsOf
<1>3. \A a : IsFiniteSet(RecordsOf(a))
  <2>1. 1 \in Int /\ Len(trace) \in Int
    BY <1>1
  <2>2. IsFiniteSet(1 .. Len(trace))
    BY <2>1, FS_Interval
  <2> QED
    BY <1>2, <2>2, FS_Subset
<1>4. ASSUME NEW a, a # t.agent PROVE RecordsOf(a)' = RecordsOf(a)
  BY <1>1, <1>4 DEF RecordsOf
<1>5. RecordsOf(t.agent)' = RecordsOf(t.agent) \cup {Len(trace) + 1}
  BY <1>1 DEF RecordsOf
<1> QED
  BY <1>2, <1>3, <1>4, <1>5

(* The new record read the version that the records before it add up to.   *)
LEMMA ChainStep ==
  ASSUME IInv, IInv', VersionChain, [Next]_vars
  PROVE  VersionChain'
<1>1. CASE UNCHANGED <<states, trace>>
  BY <1>1 DEF VersionChain, RecordsOf
<1>2. CASE \E res \in results : CommitResult(res)
  <2>1. PICK res \in results : CommitResult(res)
    BY <1>2
  <2>2. PICK req \in requests :
          /\ req.agent = res.agent /\ Fresh(req) /\ res.state.version = req.version + 1
          /\ states' = [states EXCEPT ![res.agent] = res.state]
          /\ trace' = Append(trace, Step(req, res))
    BY <2>1, CommitEffect
  <2> DEFINE n == Len(trace)
             t == Step(req, res)
             a == res.agent
  <2>3. t.agent = a /\ t.read = req.version
    BY <2>2 DEF Step
  <2>4. /\ a \in Agents /\ states \in [Agents -> [version : Nat, cursor : Nat]]
        /\ EngineTypeOK /\ EngineTypeOK'
    BY DEF IInv, EngineTypeOK, ResultRecord
  <2> HIDE DEF t
  <2>5. /\ \A b : b # a => RecordsOf(b)' = RecordsOf(b)
        /\ RecordsOf(a)' = RecordsOf(a) \cup {n + 1}
        /\ \A b : IsFiniteSet(RecordsOf(b)) /\ RecordsOf(b) \subseteq 1 .. n
    BY <2>2, <2>3, <2>4, RecordsGrow DEF t
  <2>6. /\ n \in Nat /\ DOMAIN trace = 1 .. n
        /\ \A i \in DOMAIN trace : trace'[i] = trace[i]
        /\ trace'[n + 1] = t
    BY <2>2, <2>4, TraceGrows DEF t
  <2> HIDE DEF n, a
  <2>7. ASSUME NEW b \in Agents PROVE states'[b].version = Cardinality(RecordsOf(b)')
    <3>1. states[b].version = Cardinality(RecordsOf(b))
      BY DEF VersionChain
    <3>2. CASE b # a
      BY <2>2, <2>4, <2>5, <3>1, <3>2 DEF a
    <3>3. CASE b = a
      <4>1. n + 1 \notin RecordsOf(a)
        BY <2>5, <2>6
      <4>2. Cardinality(RecordsOf(a)') = Cardinality(RecordsOf(a)) + 1
        BY <2>5, <4>1, FS_AddElement
      <4>3. states'[a].version = states[a].version + 1
        BY <2>2, <2>4 DEF Fresh, a
      <4> QED
        BY <3>1, <3>3, <4>2, <4>3
    <3> QED
      BY <3>2, <3>3
  <2>8. ASSUME NEW b \in Agents, NEW i \in RecordsOf(b)'
        PROVE  trace'[i].read = Cardinality({j \in RecordsOf(b)' : j < i})
    <3>1. CASE i \in RecordsOf(b)
      <4>1. {j \in RecordsOf(b)' : j < i} = {j \in RecordsOf(b) : j < i}
        BY <2>5, <2>6, <3>1
      <4>2. trace'[i] = trace[i]
        BY <2>6, <3>1 DEF RecordsOf
      <4> QED
        BY <3>1, <4>1, <4>2 DEF VersionChain
    <3>2. CASE i \notin RecordsOf(b)
      <4>1. b = a /\ i = n + 1
        BY <2>5, <2>8, <3>2
      <4>2. {j \in RecordsOf(b)' : j < i} = RecordsOf(a)
        BY <2>5, <2>6, <4>1
      <4>3. trace'[i].read = states[a].version
        BY <2>2, <2>3, <2>6, <4>1 DEF Fresh, a
      <4> QED
        BY <2>4, <4>2, <4>3 DEF VersionChain
    <3> QED
      BY <3>1, <3>2
  <2> QED
    BY <2>7, <2>8 DEF VersionChain
<1> QED
  BY <1>1, <1>2, StepKinds, BeginEffect, WorkEffect, FinishEffect DEF Rests, storeVars

(* Each agent_step record of an agent read exactly the version that its    *)
(* predecessor wrote, and the store holds what the last one wrote, in      *)
(* every run, however its steps are executed and whatever fails.           *)
THEOREM RecordsFormChains == Spec => []VersionChain
<1>1. Init => VersionChain
  <2> SUFFICES ASSUME Init PROVE VersionChain
    OBVIOUS
  <2>1. /\ DOMAIN trace = {}
        /\ \A a \in Agents : states[a].version = 0
    BY DEF Init, StoreInit
  <2>2. \A a : RecordsOf(a) = {}
    BY <2>1 DEF RecordsOf
  <2> QED
    BY <2>1, <2>2, FS_EmptySet DEF VersionChain
<1>2. IInv /\ IInv' /\ VersionChain /\ [Next]_vars => VersionChain'
  BY ChainStep
<1> QED
  BY <1>1, <1>2, Invariance, PTL DEF Spec, VersionChain
-----------------------------------------------------------------------------
(* The environment's actions: the n-th is that of the n-th acting record.  *)

(* Collecting one more action extends what the environment will be given.  *)
LEMMA OneMoreAction ==
  ASSUME EngineTypeOK, NEW x \in Activations
  PROVE  environment.applied \o Append(actions, x) = Append(environment.applied \o actions, x)
<1> DEFINE applied == environment.applied
<1>1. applied \in Seq(Activations) /\ actions \in Seq(Activations)
  BY DEF EngineTypeOK
<1> HIDE DEF applied
<1>2. applied \o Append(actions, x) = Append(applied \o actions, x)
  BY <1>1
<1> QED
  BY <1>2 DEF applied

LEMMA ActionStep ==
  ASSUME IInv, IInv', EnvironmentFollowsTrace, [Next]_vars
  PROVE  EnvironmentFollowsTrace'
<1> DEFINE given == environment.applied \o actions
           n == Len(trace)
           Upto(i) == {j \in ActingRecords : j <= i}
<1>1. EngineTypeOK /\ EngineTypeOK'
  BY DEF IInv
<1>2. environment.applied \in Seq(Activations) /\ actions \in Seq(Activations)
  BY <1>1 DEF EngineTypeOK
<1>3. /\ Len(given) = Cardinality(ActingRecords)
      /\ \A i \in ActingRecords : given[Cardinality(Upto(i))] = trace[i].activation
  BY DEF EnvironmentFollowsTrace
<1>4. CASE given' = given /\ trace' = trace
  <2>1. ActingRecords' = ActingRecords
    BY <1>4 DEF ActingRecords
  <2>2. \A i : Upto(i)' = Upto(i)
    BY <2>1
  <2> HIDE DEF given
  <2> QED
    BY <1>3, <1>4, <2>1, <2>2 DEF EnvironmentFollowsTrace, given
<1>5. CASE \E res \in results : CommitResult(res)
  <2>1. PICK res \in results : CommitResult(res)
    BY <1>5
  <2>2. PICK req \in requests :
          /\ actions' = IF res.acts THEN Append(actions, req.activation) ELSE actions
          /\ trace' = Append(trace, Step(req, res))
          /\ environment' = environment
    BY <2>1, CommitEffect
  <2> DEFINE t == Step(req, res)
  <2>3. t.acts = res.acts /\ t.activation = req.activation /\ res.acts \in BOOLEAN
        /\ req.activation \in Activations
    BY <1>1 DEF Step, EngineTypeOK, ResultRecord, RequestRecord
  <2> HIDE DEF t
  <2>4. /\ n \in Nat /\ DOMAIN trace = 1 .. n /\ DOMAIN trace' = DOMAIN trace \cup {n + 1}
        /\ \A i \in DOMAIN trace : trace'[i] = trace[i]
        /\ trace'[n + 1] = t
    BY <1>1, <2>2, TraceGrows DEF t
  <2>5. ActingRecords \subseteq 1 .. n /\ IsFiniteSet(ActingRecords)
    <3>1. ActingRecords \subseteq 1 .. n
      BY <2>4 DEF ActingRecords
    <3>2. 1 \in Int /\ n \in Int
      BY <2>4
    <3>3. IsFiniteSet(1 .. n)
      BY <3>2, FS_Interval
    <3> QED
      BY <3>1, <3>3, FS_Subset
  <2> HIDE DEF n
  <2>6. CASE ~ res.acts
    <3>1. given' = given
      BY <2>2, <2>6
    <3>2. ActingRecords' = ActingRecords
      BY <2>3, <2>4, <2>6 DEF ActingRecords
    <3>3. \A i \in ActingRecords : trace'[i] = trace[i]
      BY <2>4 DEF ActingRecords
    <3>4. \A i : Upto(i)' = Upto(i)
      BY <3>2
    <3> HIDE DEF given
    <3> QED
      BY <1>3, <3>1, <3>2, <3>3, <3>4 DEF EnvironmentFollowsTrace, given
  <2>7. CASE res.acts
    <3> DEFINE c == Cardinality(ActingRecords)
    <3>1. given' = Append(given, req.activation)
      <4>1. actions' = Append(actions, req.activation) /\ environment' = environment
        BY <2>2, <2>7
      <4>2. environment.applied \o Append(actions, req.activation) = Append(given, req.activation)
        BY <1>1, <2>3, OneMoreAction, Zenon
      <4> QED
        BY <4>1, <4>2, Zenon
    <3>2. given \in Seq(Activations) /\ Len(given) = c
      BY <1>2, <1>3, ConcatProperties
    <3>3. /\ Len(given') = c + 1 /\ c \in Nat
          /\ \A k \in 1 .. c : given'[k] = given[k]
          /\ given'[c + 1] = req.activation
      BY <2>3, <3>1, <3>2, AppendProperties, LenProperties
    <3>4. ActingRecords' = ActingRecords \cup {n + 1} /\ n + 1 \notin ActingRecords
      <4>1. trace'[n + 1].acts
        BY <2>3, <2>4, <2>7
      <4>2. \A i \in DOMAIN trace : trace'[i].acts <=> trace[i].acts
        BY <2>4
      <4> QED
        BY <2>4, <2>5, <4>1, <4>2 DEF ActingRecords
    <3>5. Cardinality(ActingRecords') = c + 1
      BY <2>5, <3>4, FS_AddElement
    <3>6. ASSUME NEW i \in ActingRecords'
          PROVE  given'[Cardinality(Upto(i)')] = trace'[i].activation
      <4>1. CASE i = n + 1
        <5>1. Upto(i)' = ActingRecords'
          <6>1. \A j \in ActingRecords' : j <= i
            BY <2>4, <2>5, <3>4, <4>1
          <6> QED
            BY <6>1
        <5> QED
          BY <2>3, <2>4, <3>3, <3>5, <4>1, <5>1
      <4>2. CASE i \in ActingRecords
        <5>1. Upto(i)' = Upto(i)
          BY <2>4, <2>5, <3>4, <4>2
        <5>2. Cardinality(Upto(i)) \in 1 .. c
          <6>1. Upto(i) \subseteq ActingRecords /\ i \in Upto(i)
            BY <2>4, <2>5, <4>2
          <6>2. /\ IsFiniteSet(Upto(i)) /\ Cardinality(Upto(i)) <= c
                /\ Cardinality(Upto(i)) \in Nat
            BY <2>5, <6>1, FS_Subset, FS_CardinalityType
          <6>3. Cardinality(Upto(i)) # 0
            BY <6>1, <6>2, FS_EmptySet
          <6> QED
            BY <3>3, <6>2, <6>3
        <5>3. trace'[i] = trace[i]
          BY <2>4, <4>2 DEF ActingRecords
        <5> QED
          BY <1>3, <3>3, <4>2, <5>1, <5>2, <5>3
      <4> QED
        BY <3>4, <4>1, <4>2
    <3> HIDE DEF given, c
    <3> QED
      BY <3>3, <3>5, <3>6 DEF EnvironmentFollowsTrace, given
  <2> QED
    BY <2>3, <2>6, <2>7
<1>6. CASE FinishStep
  <2>1. /\ environment'.applied = environment.applied \o actions
        /\ actions' = <<>> /\ trace' = trace
    BY <1>1, <1>6, FinishEffect DEF EngineTypeOK
  <2>2. given' = given
    BY <1>2, <2>1, ConcatProperties, ConcatEmptySeq
  <2> QED
    BY <1>4, <2>1, <2>2
<1>7. CASE LoadEvents \/ AdvanceEnvironment
  BY <1>4, <1>7, BeginEffect
<1>8. CASE \E r \in todo : Execute(r) \/ FailedOutcome(r)
  BY <1>4, <1>8, WorkEffect
<1>9. CASE Rests
  BY <1>4, <1>9 DEF Rests
<1> QED
  BY <1>5, <1>6, <1>7, <1>8, <1>9, StepKinds

(* The environment holds, or is about to be given, the actions of exactly  *)
(* the recorded steps, each once and in the order of the commits: no run   *)
(* applies an action of a step it did not commit, or loses one it did.     *)
THEOREM ActionsFollowRecords == Spec => []EnvironmentFollowsTrace
<1>1. Init => EnvironmentFollowsTrace
  <2> SUFFICES ASSUME Init PROVE EnvironmentFollowsTrace
    OBVIOUS
  <2>1. DOMAIN trace = {} /\ environment.applied = <<>> /\ actions = <<>>
    BY DEF Init
  <2>2. ActingRecords = {} /\ Len(environment.applied \o actions) = 0
    BY <2>1 DEF ActingRecords
  <2> QED
    BY <2>2, FS_EmptySet DEF EnvironmentFollowsTrace
<1>2. IInv /\ IInv' /\ EnvironmentFollowsTrace /\ [Next]_vars => EnvironmentFollowsTrace'
  BY ActionStep
<1> QED
  BY <1>1, <1>2, Invariance, PTL DEF Spec
-----------------------------------------------------------------------------
(* Failures: the commits of a step begin when all of it has executed.      *)

(* Execution adds one result of the request, whose proposals are new.      *)
LEMMA ExecuteEffect ==
  ASSUME NEW r \in todo, Execute(r), serial \in Nat,
         \A reply \in Replies[r.agent] : Len(reply.send) \in Nat /\ Len(reply.emits) \in Nat
  PROVE  \E res :
           /\ results' = results \cup {res} /\ res.agent = r.agent
           /\ \/ res.state.cursor = NextCursor(r)
              \/ "malformed" \in Faults /\ res.state.cursor = r.cursor
           /\ \A m \in res.messages : m.at = m.id /\ serial < m.id
           /\ \A m \in res.messages : \E reply \in Replies[r.agent] :
                \E i \in 1 .. Len(reply.send) : m.prio = reply.send[i].prio
           /\ \A e \in res.events : e.due = wall /\ serial < e.id
<1>1. CASE Completes(r)
  <2>1. PICK reply \in Replies[r.agent] :
          LET n == Len(reply.send)
              k == Len(reply.emits)
          IN  results' = results \cup {Result(r, NextCursor(r),
                {Sent(r, serial + i, reply.send[i]) : i \in 1 .. n},
                {Emitted(serial + n + i, reply.emits[i], r.activation) : i \in 1 .. k},
                reply.acts)}
    BY <1>1 DEF Completes
  <2> DEFINE n == Len(reply.send)
             k == Len(reply.emits)
             sent == {Sent(r, serial + i, reply.send[i]) : i \in 1 .. n}
             emitted == {Emitted(serial + n + i, reply.emits[i], r.activation) : i \in 1 .. k}
             res == Result(r, NextCursor(r), sent, emitted, reply.acts)
  <2>2. n \in Nat /\ k \in Nat
    OBVIOUS
  <2>3. results' = results \cup {res}
    BY <2>1
  <2>4. /\ res.agent = r.agent /\ res.state.cursor = NextCursor(r)
        /\ res.messages = sent /\ res.events = emitted
    BY DEF Result
  <2> HIDE DEF res, n, k
  <2>5. \A m \in sent : /\ m.at = m.id /\ serial < m.id
                        /\ \E i \in 1 .. n : m.prio = reply.send[i].prio
    BY <2>2 DEF Sent
  <2>6. \A e \in emitted : e.due = wall /\ serial < e.id
    BY <2>2 DEF Emitted
  <2> QED
    BY <2>3, <2>4, <2>5, <2>6 DEF n
<1>2. CASE CompletesMalformed(r)
  <2> DEFINE res == Result(r, r.cursor, {}, {}, FALSE)
  <2>1. /\ results' = results \cup {res} /\ res.agent = r.agent /\ "malformed" \in Faults
        /\ res.state.cursor = r.cursor /\ res.messages = {} /\ res.events = {}
    BY <1>2 DEF CompletesMalformed, Result
  <2> HIDE DEF res
  <2> QED
    BY <2>1
<1> QED
  BY <1>1, <1>2 DEF Execute

(* The lengths of what a backend may propose.                              *)
LEMMA ReplyLengths ==
  ASSUME EngineTypeOK, NEW r \in todo
  PROVE  /\ serial \in Nat
         /\ \A reply \in Replies[r.agent] : Len(reply.send) \in Nat /\ Len(reply.emits) \in Nat
<1>1. serial \in Nat /\ r.agent \in Agents
  BY DEF EngineTypeOK, RequestRecord
<1>2. ASSUME NEW reply \in Replies[r.agent]
      PROVE  Len(reply.send) \in Nat /\ Len(reply.emits) \in Nat
  <2>1. /\ reply.send \in Seq([to : Recipients, prio : Int, named : BOOLEAN])
        /\ reply.emits \in Seq([to : SUBSET Recipients, prio : Int])
    BY <1>1, EngineAssumption
  <2> QED
    BY <2>1, LenProperties
<1> QED
  BY <1>1, <1>2

LEMMA HaltStep ==
  ASSUME IInv, IInv', CausalInv, HaltInv, [Next]_vars
  PROVE  HaltInv'
<1>1. EngineTypeOK /\ EngineTypeOK'
  BY DEF IInv
<1>2. CASE LoadEvents \/ AdvanceEnvironment
  <2>1. /\ phase = "ready" /\ phase' = "running" /\ todo' = requests'
        /\ UNCHANGED <<now, trace>>
    BY <1>2, BeginEffect
  <2>2. RecordedNow' = {}
    <3>1. \A i \in DOMAIN trace : trace[i].tick < now /\ trace[i].tick \in Nat /\ now \in Nat
      BY <1>1, <2>1, TraceTypes DEF CausalInv, TicksInOrder
    <3> QED
      BY <2>1, <3>1 DEF RecordedNow
  <2> QED
    BY <2>1, <2>2 DEF HaltInv, Pending
<1>3. CASE \E r \in todo : Execute(r) \/ FailedOutcome(r)
  <2>1. PICK r \in todo : Execute(r) \/ FailedOutcome(r)
    BY <1>3
  <2>2. /\ phase = "running" /\ todo' = todo \ {r}
        /\ UNCHANGED <<usesPolicy, phase, now, requests, trace>>
    BY <2>1, WorkEffect
  <2>3. RecordedNow = {} /\ RecordedNow' = {}
    BY <2>2 DEF HaltInv, RecordedNow
  <2>4. ASSUME ~ usesPolicy, NEW q \in requests PROVE Pending(q)'
    <3>1. Execute(r)
      BY <2>1, <2>4 DEF FailedOutcome
    <3>2. results \subseteq results' /\ \E res \in results' : res.agent = r.agent
      BY <1>1, <3>1, ExecuteEffect, ReplyLengths
    <3>3. Pending(q)
      BY <2>2, <2>3, <2>4 DEF HaltInv
    <3> QED
      BY <2>2, <3>2, <3>3 DEF Pending
  <2> QED
    BY <2>2, <2>3, <2>4 DEF HaltInv
<1>4. CASE \E res \in results : CommitResult(res)
  <2>1. PICK res \in results : CommitResult(res)
    BY <1>4
  <2>2. PICK req \in requests :
          /\ phase = "running" /\ todo = {} /\ req.agent = res.agent
          /\ trace' = Append(trace, Step(req, res))
          /\ results' = results \ {res}
          /\ UNCHANGED <<usesPolicy, phase, now, requests, todo>>
    BY <2>1, CommitEffect
  <2> DEFINE t == Step(req, res)
  <2>3. t.tick = now /\ t.activation = req.activation
    BY DEF Step
  <2> HIDE DEF t
  <2>4. /\ DOMAIN trace' = DOMAIN trace \cup {Len(trace) + 1}
        /\ \A i \in DOMAIN trace : trace'[i] = trace[i]
        /\ trace'[Len(trace) + 1] = t
        /\ Len(trace) + 1 \notin DOMAIN trace
    BY <1>1, <2>2, TraceGrows DEF t
  <2>5. RecordedNow' = RecordedNow \cup {req.activation}
    BY <2>2, <2>3, <2>4 DEF RecordedNow
  <2>6. ASSUME ~ usesPolicy, NEW q \in requests
        PROVE  Pending(q)' \/ q.activation \in RecordedNow'
    <3>1. Pending(q) \/ q.activation \in RecordedNow
      BY <2>2, <2>6 DEF HaltInv
    <3>2. q.agent = req.agent => q = req
      BY DEF IInv, StepInv
    <3> QED
      BY <2>2, <2>5, <3>1, <3>2 DEF Pending
  <2> QED
    BY <2>2, <2>5, <2>6 DEF HaltInv
<1>5. CASE FinishStep
  <2>1. phase' = "ready"
    BY <1>5, FinishEffect
  <2> QED
    BY <2>1 DEF HaltInv
<1>6. CASE Rests
  <2>1. RecordedNow' = RecordedNow /\ \A r : Pending(r)' <=> Pending(r)
    BY <1>6 DEF Rests, RecordedNow, Pending
  <2> QED
    BY <1>6, <2>1 DEF Rests, HaltInv
<1> QED
  BY <1>2, <1>3, <1>4, <1>5, <1>6, StepKinds

(* A run that ends in an exception has committed nothing of the step that  *)
(* failed or every result of it, which without a dispatch policy are all   *)
(* its activations.                                                        *)
THEOREM FailuresAllOrNone == Spec => []FailedStepAllOrNone
<1>1. Init => HaltInv
  BY DEF Init, HaltInv
<1>2. IInv /\ IInv' /\ CausalInv /\ HaltInv /\ [Next]_vars => HaltInv'
  BY HaltStep
<1>3. HaltInv => FailedStepAllOrNone
  <2> SUFFICES ASSUME HaltInv, phase = "failed", RecordedNow # {}
               PROVE  /\ todo = {} /\ results = {}
                      /\ usesPolicy \/ RecordedNow = {r.activation : r \in requests}
    BY DEF FailedStepAllOrNone, RecordedNow
  <2>1. todo = {} /\ results = {}
    BY DEF HaltInv
  <2>2. ASSUME ~ usesPolicy PROVE RecordedNow = {r.activation : r \in requests}
    BY <2>1, <2>2 DEF HaltInv, Pending
  <2> QED
    BY <2>1, <2>2
<1> QED
  BY <1>1, <1>2, <1>3, Invariance, CausalInvariance, PTL DEF Spec
-----------------------------------------------------------------------------
(* Cursors: they come from stored messages, and what is still to be sent   *)
(* or delivered is newer than all of them.                                 *)

(* Within a step, activations only cease to be pending.                    *)
LEMMA PendingShrinks ==
  ASSUME IInv, NEW r \in todo, Execute(r) \/ FailedOutcome(r),
         NEW q \in requests, Pending(q)'
  PROVE  Pending(q)
<1>1. EngineTypeOK /\ r \in requests
  BY DEF IInv, EngineTypeOK
<1>2. todo' = todo \ {r} /\ (FailedOutcome(r) => results' = results)
  BY WorkEffect
<1>3. CASE FailedOutcome(r)
  BY <1>2, <1>3 DEF Pending
<1>4. CASE Execute(r)
  <2>1. PICK res : results' = results \cup {res} /\ res.agent = r.agent
    BY <1>1, <1>4, ExecuteEffect, ReplyLengths
  <2>2. q.agent = r.agent => q = r
    BY <1>1 DEF IInv, StepInv
  <2> QED
    BY <1>2, <2>1, <2>2 DEF Pending
<1> QED
  BY <1>3, <1>4

(* A commit ends the pending state of its own activation.                  *)
LEMMA PendingEnds ==
  ASSUME IInv, NEW res \in results, todo' = {}, results' = results \ {res},
         NEW q \in requests, Pending(q)'
  PROVE  Pending(q) /\ q.agent # res.agent
BY DEF Pending, IInv, StepInv

(* The cursor of a result is the request's or the id of a message it read. *)
LEMMA NextCursorRead ==
  ASSUME IInv, NEW r, r.inbox \subseteq messages
  PROVE  \/ r.inbox = {} /\ NextCursor(r) = r.cursor
         \/ /\ \E m \in r.inbox : NextCursor(r) = m.id
            /\ \A m \in r.inbox : m.id = NextCursor(r) \/ ReadsBefore(m, LastOf(r.inbox))
<1>1. CASE r.inbox = {}
  BY <1>1 DEF NextCursor
<1>2. CASE r.inbox # {}
  <2>1. messages \subseteq MessageRecord /\ serial \in Nat
    BY DEF IInv, EngineTypeOK
  <2>2. UniqueIds(r.inbox) /\ \A m \in r.inbox : m.id <= serial
    BY DEF IInv, IdInv, UniqueIds, BelowSerial
  <2>3. r.inbox \in SUBSET MessageRecord
    BY <2>1
  <2>4. /\ LastOf(r.inbox) \in r.inbox
        /\ \A m \in r.inbox \ {LastOf(r.inbox)} : ReadsBefore(m, LastOf(r.inbox))
    BY <1>2, <2>1, <2>2, <2>3, LastOfInbox
  <2> QED
    BY <1>2, <2>4 DEF NextCursor
<1> QED
  BY <1>1, <1>2

(* A stored cursor is an id that has been handed out.                      *)
LEMMA StoredBound ==
  ASSUME IInv, NEW c, Stored(c)
  PROVE  c \in Nat /\ c <= serial
<1>1. serial \in Nat /\ NoMessage = 0
  BY EngineAssumption DEF IInv, EngineTypeOK
<1>2. \A m \in messages : m.id \in Nat /\ m.id <= serial
  BY DEF IInv, EngineTypeOK, IdInv, BelowSerial, MessageRecord
<1> QED
  BY <1>1, <1>2 DEF Stored

LEMMA CursorStep ==
  ASSUME IInv, IInv', CursorInv, [Next]_vars
  PROVE  CursorInv'
<1>1. EngineTypeOK /\ EngineTypeOK'
  BY DEF IInv
<1>2. CASE LoadEvents \/ AdvanceEnvironment
  <2>1. /\ results' = {} /\ UNCHANGED <<states, messages>>
        /\ \A r \in requests' : \E e \in batch', a \in Agents : r = Context(e, a)
    BY <1>2, BeginEffect
  <2>2. ASSUME NEW r \in requests'
        PROVE  /\ Stored(r.cursor) /\ Stored(NextCursor(r))
               /\ states[r.agent].cursor = r.cursor
    <3>1. PICK a \in Agents : r.agent = a /\ r.cursor = states[a].cursor
      BY <2>1, <2>2 DEF Context
    <3>2. r.inbox \subseteq messages
      BY <2>1 DEF IInv, StepInv
    <3>3. Stored(r.cursor)
      BY <3>1 DEF CursorInv
    <3> QED
      BY <3>1, <3>2, <3>3, NextCursorRead DEF Stored
  <2>3. \A c : Stored(c) => Stored(c)'
    BY <2>1 DEF Stored
  <2> QED
    BY <2>1, <2>2, <2>3 DEF CursorInv
<1>3. CASE \E r \in todo : Execute(r) \/ FailedOutcome(r)
  <2>1. PICK r \in todo : Execute(r) \/ FailedOutcome(r)
    BY <1>3
  <2>2. UNCHANGED <<states, messages, requests>> /\ (FailedOutcome(r) => results' = results)
    BY <2>1, WorkEffect
  <2>3. \A c : Stored(c)' <=> Stored(c)
    BY <2>2 DEF Stored
  <2>4. \A q \in requests' : Pending(q)' => states'[q.agent].cursor = q.cursor
    BY <2>1, <2>2, PendingShrinks DEF CursorInv
  <2>5. CASE FailedOutcome(r)
    BY <2>2, <2>3, <2>4, <2>5 DEF CursorInv
  <2>6. CASE Execute(r)
    <3>1. PICK res :
            /\ results' = results \cup {res} /\ res.agent = r.agent
            /\ \/ res.state.cursor = NextCursor(r)
               \/ "malformed" \in Faults /\ res.state.cursor = r.cursor
            /\ \A m \in res.messages : m.at = m.id /\ serial < m.id
      BY <1>1, <2>6, ExecuteEffect, ReplyLengths
    <3>2. \A m \in res.messages : m.id \in Nat
      BY <1>1, <3>1 DEF EngineTypeOK, ResultRecord, MessageRecord
    <3>3. serial \in Nat
      BY <1>1 DEF EngineTypeOK
    <3>4. ASSUME NEW m \in res.messages, NEW c, Stored(c) PROVE c < m.id /\ m.id > 0
      BY <3>1, <3>2, <3>3, <3>4, StoredBound
    <3>5. \A q \in requests : q.agent = r.agent => q = r
      BY <1>1 DEF IInv, StepInv, EngineTypeOK
    <3>6. \A m \in res.messages :
            /\ m.at = m.id /\ m.id > 0
            /\ \A q \in requests : q.cursor < m.id /\ NextCursor(q) < m.id
            /\ \A a \in Agents : states[a].cursor < m.id
      BY <3>1, <3>2, <3>3, <3>4 DEF CursorInv
    <3>7. \A q \in requests : res.agent = q.agent =>
            /\ res.state.cursor \in {q.cursor, NextCursor(q)}
            /\ "malformed" \notin Faults => res.state.cursor = NextCursor(q)
      BY <3>1, <3>5
    <3> QED
      BY <2>2, <2>3, <2>4, <3>1, <3>6, <3>7 DEF CursorInv
  <2> QED
    BY <2>1, <2>5, <2>6
<1>4. CASE \E res \in results : CommitResult(res)
  <2>1. PICK res \in results : CommitResult(res)
    BY <1>4
  <2>2. PICK req \in requests :
          /\ req.agent = res.agent
          /\ states' = [states EXCEPT ![res.agent] = res.state]
          /\ messages' = messages \cup Deliverable(res.messages)
          /\ todo = {} /\ results' = results \ {res}
          /\ UNCHANGED <<requests, todo>>
    BY <2>1, CommitEffect
  <2>3. /\ res.agent \in Agents
        /\ \A a \in Agents : states'[a] = IF a = res.agent THEN res.state ELSE states[a]
    BY <1>1, <2>2 DEF EngineTypeOK, ResultRecord
  <2>4. res.state.cursor \in {req.cursor, NextCursor(req)}
    BY <2>2 DEF CursorInv
  <2>5. \A c : Stored(c) => Stored(c)'
    BY <2>2 DEF Stored
  <2>6. \A m \in messages' : m.at = m.id /\ m.id > 0 /\ m.to \in Agents
    BY <2>2 DEF CursorInv, Deliverable
  <2>7. \A a \in Agents : Stored(states[a].cursor)'
    <3>1. Stored(res.state.cursor) /\ \A a \in Agents : Stored(states[a].cursor)
      BY <2>4 DEF CursorInv
    <3> TAKE a \in Agents
    <3>2. states'[a].cursor = IF a = res.agent THEN res.state.cursor ELSE states[a].cursor
      BY <2>3
    <3>3. states'[a].cursor = res.state.cursor \/ states'[a].cursor = states[a].cursor
      BY <3>2
    <3> QED
      BY <2>5, <3>1, <3>3
  <2>8. ASSUME NEW q \in requests, Pending(q)' PROVE states'[q.agent].cursor = q.cursor
    <3>1. Pending(q) /\ q.agent # res.agent
      BY <2>2, <2>8, PendingEnds
    <3>2. q.agent \in Agents
      BY <1>1 DEF EngineTypeOK, RequestRecord
    <3> QED
      BY <2>3, <3>1, <3>2 DEF CursorInv
  <2>9. ASSUME NEW other \in results', NEW m \in other.messages, NEW a \in Agents
        PROVE  states'[a].cursor < m.id
    BY <2>2, <2>3, <2>4 DEF CursorInv
  <2> QED
    BY <2>2, <2>5, <2>6, <2>7, <2>8, <2>9 DEF CursorInv
<1>5. CASE FinishStep
  <2>1. requests' = {} /\ results' = {} /\ UNCHANGED <<states, messages>>
    BY <1>5, FinishEffect
  <2> QED
    BY <2>1 DEF CursorInv, Stored
<1>6. CASE Rests
  <2>1. UNCHANGED <<states, messages, requests, results>> /\ \A r : Pending(r)' <=> Pending(r)
    BY <1>6 DEF Rests, Pending, storeVars
  <2> QED
    BY <2>1 DEF CursorInv, Stored
<1> QED
  BY <1>2, <1>3, <1>4, <1>5, <1>6, StepKinds

LEMMA CursorInvariance == Spec => []CursorInv
<1>1. Init => CursorInv
  BY DEF Init, StoreInit, CursorInv, Stored
<1>2. IInv /\ IInv' /\ CursorInv /\ [Next]_vars => CursorInv'
  BY CursorStep
<1> QED
  BY <1>1, <1>2, Invariance, PTL DEF Spec
-----------------------------------------------------------------------------
(* Unread messages: what an inbox leaves out stays ahead of the cursor.    *)

Unread(a) == NewerThan(a, states[a].cursor)

OnePriority(a) == \A m, n \in Unread(a) : m.prio = n.prio

AllOfOnePriority == \A a \in Agents : OnePriority(a)

InboxFits(a) == Cardinality(Unread(a)) <= InboxLimit

(* No agent has unread messages of two priorities that do not fit into one *)
(* inbox, so that none of them overtakes another into an inbox.            *)
NothingOvertakes == \A a \in Agents : OnePriority(a) \/ InboxFits(a)

(* Ids are creation times, so the cursor divides an agent's messages.      *)
LEMMA UnreadIds ==
  ASSUME IInv, CursorInv, NEW a \in Agents
  PROVE  /\ Unread(a) = {m \in messages : m.to = a /\ states[a].cursor < m.id}
         /\ IsFiniteSet(Unread(a))
<1>1. \A m \in messages : m.at = m.id /\ m.id \in Nat /\ m.id > 0 /\ m.id <= serial
  BY DEF CursorInv, IInv, EngineTypeOK, IdInv, BelowSerial, MessageRecord
<1>2. Stored(states[a].cursor) /\ NoMessage = 0 /\ UniqueIds(messages) /\ serial \in Nat
  BY EngineAssumption DEF CursorInv, IInv, IdInv, EngineTypeOK
<1>3. Unread(a) = {m \in messages : m.to = a /\ states[a].cursor < m.id}
  <2>1. CASE states[a].cursor = 0
    <3>1. \A m, c \in messages : c.id # states[a].cursor /\ states[a].cursor < m.id
      BY <1>1, <2>1
    <3> QED
      BY <3>1 DEF Unread, NewerThan
  <2>2. CASE \E c \in messages : c.id = states[a].cursor
    <3>1. PICK c \in messages : c.id = states[a].cursor
      BY <2>2
    <3>2. \A d \in messages : d.id = states[a].cursor <=> d = c
      BY <1>2, <3>1 DEF UniqueIds
    <3>3. \A m \in messages : m.at > c.at <=> states[a].cursor < m.id
      BY <1>1, <3>1
    <3> QED
      BY <3>1, <3>2, <3>3 DEF Unread, NewerThan
  <2> QED
    BY <1>2, <2>1, <2>2 DEF Stored
<1>5. IsFiniteSet(messages)
  BY <1>1, <1>2, FiniteIds
<1>6. IsFiniteSet(Unread(a))
  <2>1. Unread(a) \subseteq messages
    BY DEF Unread, NewerThan
  <2> QED
    BY <1>5, <2>1, FS_Subset
<1> QED
  BY <1>3, <1>6

(* An inbox that fits holds every unread message.                          *)
LEMMA InboxOfAll ==
  ASSUME IInv, CursorInv, NEW a \in Agents, InboxFits(a)
  PROVE  Inbox(a, InboxLimit, states[a].cursor) = Unread(a)
<1>1. IsFiniteSet(Unread(a)) /\ InboxLimit \in Nat
  BY UnreadIds, EngineAssumption
<1>2. ASSUME NEW m \in Unread(a)
      PROVE  Cardinality({n \in Unread(a) : ReadsBefore(n, m)}) < InboxLimit
  <2> DEFINE before == {n \in Unread(a) : ReadsBefore(n, m)}
  <2>1. m \notin before /\ before \subseteq Unread(a)
    <3>1. m.prio \in Int /\ m.at \in Nat /\ m.id \in Nat
      BY DEF Unread, NewerThan, IInv, EngineTypeOK, MessageRecord
    <3> QED
      BY <3>1 DEF ReadsBefore
  <2> HIDE DEF before
  <2>2. /\ IsFiniteSet(before) /\ Cardinality(before) <= Cardinality(Unread(a))
        /\ (Cardinality(before) = Cardinality(Unread(a)) => before = Unread(a))
    BY <1>1, <2>1, FS_Subset
  <2>3. Cardinality(before) \in Nat /\ Cardinality(Unread(a)) \in Nat
    BY <1>1, <2>2, FS_CardinalityType
  <2>4. Cardinality(before) # Cardinality(Unread(a))
    BY <2>1, <2>2
  <2> QED
    BY <1>1, <2>2, <2>3, <2>4 DEF InboxFits, before
<1> QED
  BY <1>2 DEF Inbox, Unread

(* A message that is cut off an inbox is newer than all that are in it.    *)
LEMMA CutOffIsNewer ==
  ASSUME IInv, CursorInv, NEW a \in Agents, OnePriority(a) \/ InboxFits(a),
         NEW m \in Unread(a), m \notin Inbox(a, InboxLimit, states[a].cursor),
         NEW n \in Inbox(a, InboxLimit, states[a].cursor)
  PROVE  n.id < m.id
<1> DEFINE Before(k) == {j \in Unread(a) : ReadsBefore(j, k)}
<1>1. OnePriority(a)
  BY InboxOfAll
<1>2. IsFiniteSet(Unread(a)) /\ InboxLimit \in Nat
  BY UnreadIds, EngineAssumption
<1>3. \A k \in Unread(a) : /\ IsFiniteSet(Before(k)) /\ Cardinality(Before(k)) \in Nat
                           /\ Before(k) \subseteq Unread(a)
  <2> TAKE k \in Unread(a)
  <2>1. Before(k) \subseteq Unread(a)
    OBVIOUS
  <2> HIDE DEF Before
  <2> QED
    BY <1>2, <2>1, FS_Subset, FS_CardinalityType
<1>4. n \in Unread(a) /\ Cardinality(Before(n)) < InboxLimit
  BY DEF Inbox, Unread
<1>5. ~ (Cardinality(Before(m)) < InboxLimit)
  BY DEF Inbox, Unread
<1>6. \A k \in Unread(a) : k.prio \in Int /\ k.at = k.id /\ k.id \in Nat
  BY DEF Unread, NewerThan, CursorInv, IInv, EngineTypeOK, MessageRecord
<1>7. SUFFICES ASSUME ~ (n.id < m.id) PROVE FALSE
  OBVIOUS
<1>8. Before(m) \subseteq Before(n)
  BY <1>1, <1>4, <1>6, <1>7 DEF ReadsBefore, OnePriority
<1> HIDE DEF Before
<1>9. Cardinality(Before(m)) <= Cardinality(Before(n))
  BY <1>3, <1>4, <1>8, FS_Subset
<1> QED
  BY <1>2, <1>3, <1>4, <1>5, <1>9

(* What has been read stays read, and a commit reads its request's inbox.  *)
LEMMA ReadStays ==
  ASSUME EngineTypeOK, EngineTypeOK', NEW t, trace' = Append(trace, t), NEW m
  PROVE  WasRead(m) \/ m.id \in t.parents => WasRead(m)'
<1>1. /\ DOMAIN trace' = DOMAIN trace \cup {Len(trace) + 1}
      /\ \A i \in DOMAIN trace : trace'[i] = trace[i]
      /\ trace'[Len(trace) + 1] = t
  BY TraceGrows
<1> QED
  BY <1>1 DEF WasRead

LEMMA UnreadStep ==
  ASSUME IInv, IInv', CursorInv, NothingOvertakes, UnreadInv, [Next]_vars
  PROVE  UnreadInv'
<1>1. EngineTypeOK /\ EngineTypeOK'
  BY DEF IInv
<1>2. CASE LoadEvents \/ AdvanceEnvironment
  <2>1. /\ UNCHANGED <<states, messages, trace>>
        /\ \A r \in requests' : \E e \in batch', a \in Agents : r = Context(e, a)
    BY <1>2, BeginEffect
  <2>2. \A m : WasRead(m)' <=> WasRead(m)
    BY <2>1 DEF WasRead
  <2>3. ASSUME NEW r \in requests', NEW m \in messages, m.to = r.agent,
               ~ WasRead(m), m \notin r.inbox
        PROVE  r.cursor < m.id /\ NextCursor(r) < m.id
    <3>1. PICK a \in Agents : /\ r.agent = a /\ r.cursor = states[a].cursor
                              /\ r.inbox = Inbox(a, InboxLimit, states[a].cursor)
      BY <2>1, <2>3 DEF Context
    <3>2. r.cursor < m.id
      BY <2>3, <3>1 DEF UnreadInv
    <3>3. m \in Unread(a)
      BY <2>3, <3>1, <3>2, UnreadIds
    <3>4. \A n \in r.inbox : n.id < m.id
      BY <2>3, <3>1, <3>3, CutOffIsNewer DEF NothingOvertakes
    <3>5. r.inbox \subseteq messages
      BY <3>1, InboxStored
    <3> QED
      BY <3>2, <3>4, <3>5, NextCursorRead
  <2> QED
    BY <2>1, <2>2, <2>3 DEF UnreadInv
<1>3. CASE \E r \in todo : Execute(r) \/ FailedOutcome(r)
  <2>1. PICK r \in todo : Execute(r) \/ FailedOutcome(r)
    BY <1>3
  <2>2. UNCHANGED <<states, messages, requests, trace>>
    BY <2>1, WorkEffect
  <2>3. \A m : WasRead(m)' <=> WasRead(m)
    BY <2>2 DEF WasRead
  <2>4. \A q \in requests : Pending(q)' => Pending(q)
    BY <2>1, PendingShrinks
  <2> QED
    BY <2>2, <2>3, <2>4 DEF UnreadInv
<1>4. CASE \E res \in results : CommitResult(res)
  <2>1. PICK res \in results : CommitResult(res)
    BY <1>4
  <2>2. PICK req \in requests :
          /\ req.agent = res.agent
          /\ states' = [states EXCEPT ![res.agent] = res.state]
          /\ messages' = messages \cup Deliverable(res.messages)
          /\ trace' = Append(trace, Step(req, res))
          /\ todo = {} /\ results' = results \ {res}
          /\ UNCHANGED <<requests, todo>>
    BY <2>1, CommitEffect
  <2>3. /\ res.agent \in Agents
        /\ \A a \in Agents : states'[a] = IF a = res.agent THEN res.state ELSE states[a]
    BY <1>1, <2>2 DEF EngineTypeOK, ResultRecord
  <2>4. \A m : WasRead(m) \/ m \in req.inbox => WasRead(m)'
    <3>1. Step(req, res).parents = {m.id : m \in req.inbox}
      BY DEF Step
    <3>2. \A m : WasRead(m) \/ m.id \in Step(req, res).parents => WasRead(m)'
      BY <1>1, <2>2, ReadStays
    <3> QED
      BY <3>1, <3>2
  <2>5. res.state.cursor \in {req.cursor, NextCursor(req)} /\ Pending(req)
    BY <2>2 DEF CursorInv, Pending
  <2>6. \A m \in messages' : m \in messages \/ (m \in res.messages /\ m.to \in Agents)
    BY <2>2 DEF Deliverable
  <2>7. ASSUME NEW m \in messages' PROVE WasRead(m)' \/ states'[m.to].cursor < m.id
    <3>1. CASE m \in messages /\ m.to = res.agent
      BY <2>2, <2>3, <2>4, <2>5, <3>1 DEF UnreadInv
    <3>2. CASE m \in messages /\ m.to # res.agent
      <4>1. m.to \in Agents
        BY <3>2 DEF CursorInv
      <4> QED
        BY <2>3, <2>4, <3>2, <4>1 DEF UnreadInv
    <3>3. CASE m \in res.messages /\ m.to \in Agents
      BY <2>2, <2>3, <2>5, <3>3 DEF CursorInv
    <3> QED
      BY <2>6, <3>1, <3>2, <3>3
  <2>8. ASSUME NEW q \in requests, Pending(q)', NEW m \in messages', m.to = q.agent
        PROVE  WasRead(m)' \/ m \in q.inbox \/ (q.cursor < m.id /\ NextCursor(q) < m.id)
    <3>1. Pending(q)
      BY <2>2, <2>8, PendingEnds
    <3>2. CASE m \in messages
      BY <2>4, <2>8, <3>1, <3>2 DEF UnreadInv
    <3>3. CASE m \in res.messages
      BY <3>3 DEF CursorInv
    <3> QED
      BY <2>6, <3>2, <3>3
  <2> QED
    BY <2>2, <2>7, <2>8 DEF UnreadInv
<1>5. CASE FinishStep
  <2>1. requests' = {} /\ UNCHANGED <<states, messages, trace>>
    BY <1>5, FinishEffect
  <2> QED
    BY <2>1 DEF UnreadInv, WasRead
<1>6. CASE Rests
  <2>1. UNCHANGED <<states, messages, trace, requests>> /\ \A r : Pending(r)' <=> Pending(r)
    BY <1>6 DEF Rests, Pending, storeVars
  <2> QED
    BY <2>1 DEF UnreadInv, WasRead
<1> QED
  BY <1>2, <1>3, <1>4, <1>5, <1>6, StepKinds

LEMMA UnreadInvariance == Spec /\ []NothingOvertakes => []UnreadInv
<1>1. Init => UnreadInv
  BY DEF Init, StoreInit, UnreadInv
<1>2. IInv /\ IInv' /\ CursorInv /\ NothingOvertakes /\ UnreadInv /\ [Next]_vars => UnreadInv'
  BY UnreadStep
<1> QED
  BY <1>1, <1>2, Invariance, CursorInvariance, PTL DEF Spec

(* A message is never lost to its recipient: it has been read, or a later  *)
(* inbox will show it.  This holds as long as the unread messages of one   *)
(* agent have one priority or fit into one inbox; the run Engine_skips     *)
(* shows that it fails otherwise.                                          *)
THEOREM NothingSkipped == Spec /\ []NothingOvertakes => []NoMessageSkipped
<1>1. IInv /\ CursorInv /\ UnreadInv => NoMessageSkipped
  <2> SUFFICES ASSUME IInv, CursorInv, UnreadInv, NEW m \in messages, ~ WasRead(m)
               PROVE  m \in NewerThan(m.to, states[m.to].cursor)
    BY DEF NoMessageSkipped
  <2>1. m.to \in Agents /\ states[m.to].cursor < m.id
    BY DEF CursorInv, UnreadInv
  <2> QED
    BY <2>1, UnreadIds DEF Unread
<1> QED
  BY <1>1, UnreadInvariance, CursorInvariance, Invariance, PTL
-----------------------------------------------------------------------------
(* The order of reading: with one priority the last message of an inbox is *)
(* its newest, so each result moves the cursor past all that was read.     *)
LEMMA OrderStep ==
  ASSUME IInv, IInv', CursorInv, AllOfOnePriority,
         "malformed" \notin Faults, OrderInv, [Next]_vars
  PROVE  OrderInv'
<1>1. EngineTypeOK /\ EngineTypeOK'
  BY DEF IInv
<1>2. CASE LoadEvents \/ AdvanceEnvironment
  <2>1. /\ UNCHANGED <<states, messages, trace>>
        /\ \A r \in requests' : \E e \in batch', a \in Agents : r = Context(e, a)
    BY <1>2, BeginEffect
  <2>2. ASSUME NEW r \in requests', NEW m \in r.inbox
        PROVE  r.cursor < m.id /\ m.id <= NextCursor(r)
    <3>1. PICK a \in Agents : /\ r.agent = a /\ r.cursor = states[a].cursor
                              /\ r.inbox = Inbox(a, InboxLimit, states[a].cursor)
      BY <2>1, <2>2 DEF Context
    <3>2. r.inbox \subseteq Unread(a) /\ Unread(a) \subseteq messages
      BY <3>1 DEF Inbox, Unread, NewerThan
    <3>3. r.cursor < m.id
      BY <3>1, <3>2, UnreadIds
    <3>4. \A k \in messages : k.at = k.id /\ k.id \in Nat /\ k.prio \in Int
      BY <1>1 DEF CursorInv, EngineTypeOK, MessageRecord
    <3>5. PICK last \in r.inbox : NextCursor(r) = last.id /\ last = LastOf(r.inbox)
      <4>1. r.inbox # {}
        BY <2>2
      <4>2. LastOf(r.inbox) \in r.inbox
        <5>1. messages \subseteq MessageRecord /\ serial \in Nat
          BY <1>1 DEF EngineTypeOK
        <5>2. UniqueIds(r.inbox) /\ \A k \in r.inbox : k.id <= serial
          BY <3>2 DEF IInv, IdInv, UniqueIds, BelowSerial
        <5>3. r.inbox \in SUBSET MessageRecord
          BY <3>2, <5>1
        <5> QED
          BY <4>1, <5>1, <5>2, <5>3, LastOfInbox
      <4> QED
        BY <4>1, <4>2 DEF NextCursor
    <3>6. m.id = last.id \/ ReadsBefore(m, last)
      BY <3>2, <3>5, NextCursorRead
    <3>7. m.prio = last.prio
      BY <3>2 DEF OnePriority, AllOfOnePriority
    <3>8. m.id \in Nat /\ m.at = m.id /\ last.at = last.id /\ last.id \in Nat /\ m.prio \in Int
      BY <3>2, <3>4
    <3> QED
      BY <3>3, <3>5, <3>6, <3>7, <3>8 DEF ReadsBefore
  <2> QED
    BY <2>1, <2>2 DEF OrderInv
<1>3. CASE \E r \in todo : Execute(r) \/ FailedOutcome(r)
  <2>1. PICK r \in todo : Execute(r) \/ FailedOutcome(r)
    BY <1>3
  <2>2. UNCHANGED <<states, requests, trace>>
    BY <2>1, WorkEffect
  <2>3. \A q \in requests : Pending(q)' => Pending(q)
    BY <2>1, PendingShrinks
  <2> QED
    BY <2>2, <2>3 DEF OrderInv
<1>4. CASE \E res \in results : CommitResult(res)
  <2>1. PICK res \in results : CommitResult(res)
    BY <1>4
  <2>2. PICK req \in requests :
          /\ req.agent = res.agent
          /\ states' = [states EXCEPT ![res.agent] = res.state]
          /\ trace' = Append(trace, Step(req, res))
          /\ todo = {} /\ results' = results \ {res}
          /\ UNCHANGED <<requests, todo>>
    BY <2>1, CommitEffect
  <2> DEFINE n == Len(trace)
             t == Step(req, res)
  <2>3. t.parents = {m.id : m \in req.inbox} /\ t.agent = res.agent
    BY <2>2 DEF Step
  <2> HIDE DEF t
  <2>4. /\ n \in Nat /\ DOMAIN trace = 1 .. n /\ DOMAIN trace' = DOMAIN trace \cup {n + 1}
        /\ \A i \in DOMAIN trace : trace'[i] = trace[i]
        /\ trace'[n + 1] = t
    BY <1>1, <2>2, TraceGrows DEF t
  <2> HIDE DEF n
  <2>5. /\ res.agent \in Agents
        /\ \A a \in Agents : states'[a] = IF a = res.agent THEN res.state ELSE states[a]
        /\ \A a \in Agents : states[a].cursor \in Nat
        /\ res.state.cursor \in Nat
        /\ \A m \in req.inbox : m.id \in Nat
    BY <1>1, <2>2 DEF EngineTypeOK, ResultRecord, RequestRecord, MessageRecord
  <2>6. \A i \in DOMAIN trace : /\ trace[i].agent \in Agents
                                /\ \A id \in trace[i].parents : id \in Nat
    BY <1>1, TraceTypes DEF TraceRecord
  <2>7. /\ states[res.agent].cursor = req.cursor
        /\ res.state.cursor = NextCursor(req)
        /\ \A m \in req.inbox : req.cursor < m.id /\ m.id <= NextCursor(req)
    BY <2>2 DEF CursorInv, Pending, OrderInv
  <2>8. /\ states'[res.agent].cursor = NextCursor(req)
        /\ \A a \in Agents : states[a].cursor <= states'[a].cursor
    <3>1. states'[res.agent].cursor = NextCursor(req)
      BY <2>5, <2>7
    <3>2. req.cursor <= NextCursor(req)
      <4>1. NextCursor(req) = req.cursor \/ \E m \in req.inbox : NextCursor(req) = m.id
        BY NextCursorRead DEF IInv, StepInv
      <4> QED
        BY <2>5, <2>7, <4>1
    <3>3. ASSUME NEW a \in Agents PROVE states[a].cursor <= states'[a].cursor
      <4>1. CASE a = res.agent
        BY <2>7, <3>1, <3>2, <4>1
      <4>2. CASE a # res.agent
        BY <2>5, <4>2
      <4> QED
        BY <4>1, <4>2
    <3> QED
      BY <3>1, <3>3
  <2>9. ASSUME NEW i \in DOMAIN trace', NEW id \in trace'[i].parents
        PROVE  id <= states'[trace'[i].agent].cursor
    <3>1. CASE i \in DOMAIN trace
      <4>1. id <= states[trace[i].agent].cursor /\ id \in Nat /\ trace[i].agent \in Agents
        BY <2>4, <2>6, <2>9, <3>1 DEF OrderInv
      <4>2. states'[trace[i].agent].cursor \in Nat
        BY <2>5, <4>1
      <4> QED
        BY <2>4, <2>5, <2>8, <3>1, <4>1, <4>2
    <3>2. CASE i = n + 1
      BY <2>3, <2>4, <2>7, <2>8, <2>9, <3>2
    <3> QED
      BY <2>4, <3>1, <3>2
  <2>10. ASSUME NEW i \in DOMAIN trace', NEW j \in DOMAIN trace', i < j,
                trace'[i].agent = trace'[j].agent,
                NEW k \in trace'[i].parents, NEW id \in trace'[j].parents
         PROVE  k < id
    <3>1. i \in DOMAIN trace
      BY <2>4, <2>10
    <3>2. CASE j \in DOMAIN trace
      BY <2>4, <2>10, <3>1, <3>2 DEF OrderInv
    <3>3. CASE j = n + 1
      <4>1. trace[i].agent = res.agent /\ k \in trace[i].parents
        BY <2>3, <2>4, <2>10, <3>1, <3>3
      <4>2. k <= req.cursor /\ k \in Nat
        BY <2>6, <2>7, <3>1, <4>1 DEF OrderInv
      <4>3. req.cursor < id /\ id \in Nat /\ req.cursor \in Nat
        BY <2>3, <2>4, <2>5, <2>7, <2>10, <3>3
      <4> QED
        BY <4>2, <4>3
    <3> QED
      BY <2>4, <3>2, <3>3
  <2>11. ASSUME NEW q \in requests, Pending(q)' PROVE Pending(q)
    BY <2>2, <2>11, PendingEnds
  <2> QED
    BY <2>2, <2>9, <2>10, <2>11 DEF OrderInv
<1>5. CASE FinishStep
  <2>1. requests' = {} /\ UNCHANGED <<states, trace>>
    BY <1>5, FinishEffect
  <2> QED
    BY <2>1 DEF OrderInv
<1>6. CASE Rests
  <2>1. UNCHANGED <<states, trace, requests>> /\ \A r : Pending(r)' <=> Pending(r)
    BY <1>6 DEF Rests, Pending, storeVars
  <2> QED
    BY <2>1 DEF OrderInv
<1> QED
  BY <1>2, <1>3, <1>4, <1>5, <1>6, StepKinds

(* While the unread messages of every agent have one priority, an agent    *)
(* reads each message once and in the order of creation, whatever the      *)
(* inbox limit, unless a backend answers without moving the cursor.        *)
THEOREM ReadOnceInOrder ==
  ASSUME "malformed" \notin Faults
  PROVE  Spec /\ []AllOfOnePriority => []ReadsOnceInOrder
<1>1. Init => OrderInv
  BY DEF Init, StoreInit, OrderInv
<1>2. IInv /\ IInv' /\ CursorInv /\ AllOfOnePriority /\ OrderInv /\ [Next]_vars => OrderInv'
  BY OrderStep
<1>3. IInv /\ OrderInv => ReadsOnceInOrder
  <2> SUFFICES ASSUME IInv, OrderInv, NEW i \in DOMAIN trace, NEW j \in DOMAIN trace,
                      i < j, trace[i].agent = trace[j].agent
               PROVE  /\ trace[i].parents \cap trace[j].parents = {}
                      /\ \A m \in messages : m.to = trace[j].agent /\ m.id \in trace[j].parents =>
                           \A n \in trace[i].parents : n < m.id
    BY DEF ReadsOnceInOrder
  <2>1. \A k \in trace[i].parents, id \in trace[j].parents : k < id
    BY DEF OrderInv
  <2>2. \A k \in trace[i].parents : k \in Nat
    BY TraceTypes DEF IInv, TraceRecord
  <2> QED
    BY <2>1, <2>2
<1> QED
  BY <1>1, <1>2, <1>3, Invariance, CursorInvariance, PTL DEF Spec
-----------------------------------------------------------------------------
(* Arrivals: the event of an unread message activates its recipient.       *)

AllInboxesFit == \A a \in Agents : InboxFits(a)

(* FIFOScheduler.plan drops events, but never an agent that one targets.   *)
LEMMA PlanCovers ==
  ASSUME NEW ready \in SUBSET EventRecord, IsFiniteSet(ready),
         NEW e \in ready, NEW a \in Agents, a \in Targets(e)
  PROVE  \E f \in ready : <<f, a>> \in Plan(ready)
<1> DEFINE S == {f \in ready : a \in Targets(f)}
           R == {p \in S \X S : PlansBefore(p[1], p[2])}
<1>1. IsFiniteSet(S) /\ S # {}
  <2>1. S \subseteq ready
    OBVIOUS
  <2>2. e \in S
    OBVIOUS
  <2> HIDE DEF S
  <2> QED
    BY <2>1, <2>2, FS_Subset
<1>2. \A f \in ready : f.prio \in Int /\ f.made \in Nat /\ f.id \in Nat
  BY DEF EventRecord
<1>3. \A f \in ready : ~ PlansBefore(f, f)
  BY <1>2 DEF PlansBefore
<1>4. \A f, g, h \in ready : PlansBefore(f, g) /\ PlansBefore(g, h) => PlansBefore(f, h)
  BY <1>2 DEF PlansBefore
<1>5. S \subseteq ready /\ \A f, g \in S : <<f, g>> \in R <=> PlansBefore(f, g)
  OBVIOUS
<1>6. \A f \in ready : f \in S <=> a \in Targets(f)
  OBVIOUS
<1> HIDE DEF S, R
<1>7. \E f \in S : \A g \in S : <<g, f>> \notin R
  BY <1>1, <1>3, <1>4, <1>5, FirstElement
<1>8. PICK f \in S : \A g \in S : ~ PlansBefore(g, f)
  BY <1>5, <1>7
<1> QED
  BY <1>5, <1>6, <1>8 DEF Plan

LEMMA ArrivalStep ==
  ASSUME IInv, IInv', CursorInv, UnreadInv, AllInboxesFit,
         "raises" \notin Faults \/ TRUE \notin Policies,
         ArrivalInv, [Next]_vars
  PROVE  ArrivalInv'
<1>1. EngineTypeOK /\ EngineTypeOK'
  BY DEF IInv
<1>2. CASE LoadEvents
  <2> DEFINE ready == Ready(now, MaxEventsPerTick)
  <2>1. /\ requests = {} /\ todo' = requests'
        /\ UNCHANGED <<states, messages, usesPolicy, trace>>
    BY <1>2, BeginEffect
  <2>2. events' = events \ ready /\ BuildRequests(ready)
    BY <1>2 DEF LoadEvents, PopReady
  <2>3. ready \subseteq events /\ ready \in SUBSET EventRecord
    BY <1>1, ReadyStored DEF EngineTypeOK
  <2>4. IsFiniteSet(ready)
    <3>1. UniqueIds(ready) /\ serial \in Nat /\ \A e \in ready : e.id \in Nat /\ e.id <= serial
      BY <1>1, <2>3 DEF IInv, IdInv, UniqueIds, BelowSerial, EngineTypeOK, EventRecord
    <3> QED
      BY <3>1, FiniteIds
  <2> HIDE DEF ready
  <2>5. ASSUME NEW m \in messages, ~ WasRead(m), NEW e \in ready, e.id = m.id
        PROVE  \E r \in requests' : m \in r.inbox
    <3>1. m.to \in Agents /\ m.to \in Targets(e)
      BY <2>3, <2>5 DEF CursorInv, ArrivalInv, Targets
    <3>2. PICK f \in ready : <<f, m.to>> \in Plan(ready)
      BY <2>3, <2>4, <3>1, PlanCovers
    <3>3. Context(f, m.to) \in requests'
      BY <2>2, <3>2 DEF BuildRequests
    <3>4. m \in Unread(m.to)
      BY <2>5, <3>1, UnreadIds DEF UnreadInv
    <3>5. Context(f, m.to).inbox = Unread(m.to)
      <4>1. Inbox(m.to, InboxLimit, states[m.to].cursor) = Unread(m.to)
        BY <3>1, InboxOfAll DEF AllInboxesFit
      <4> QED
        BY <4>1 DEF Context
    <3> QED
      BY <3>3, <3>4, <3>5
  <2>6. \A m : WasRead(m)' <=> WasRead(m)
    BY <2>1 DEF WasRead
  <2>7. \A r : Pending(r)' <=> r \in requests' \/ \E res \in results' : res.agent = r.agent
    BY <2>1 DEF Pending
  <2> QED
    BY <2>1, <2>2, <2>5, <2>6, <2>7 DEF ArrivalInv
<1>3. CASE AdvanceEnvironment
  <2>1. requests = {} /\ UNCHANGED <<messages, usesPolicy, trace>>
    BY <1>3, BeginEffect
  <2>2. events' = events
    BY <1>3 DEF AdvanceEnvironment, storeVars
  <2> QED
    BY <2>1, <2>2 DEF ArrivalInv, WasRead
<1>4. CASE \E r \in todo : Execute(r) \/ FailedOutcome(r)
  <2>1. PICK r \in todo : Execute(r) \/ FailedOutcome(r)
    BY <1>4
  <2>2. Execute(r)
    BY <2>1 DEF FailedOutcome, ArrivalInv
  <2>3. UNCHANGED <<messages, events, usesPolicy, requests, trace>> /\ todo' = todo \ {r}
    BY <2>1, WorkEffect
  <2>4. PICK res : results' = results \cup {res} /\ res.agent = r.agent
    BY <1>1, <2>2, ExecuteEffect, ReplyLengths
  <2>5. \A q \in requests : Pending(q) => Pending(q)'
    BY <2>3, <2>4 DEF Pending
  <2> QED
    BY <2>3, <2>5 DEF ArrivalInv, WasRead
<1>5. CASE \E res \in results : CommitResult(res)
  <2>1. PICK res \in results : CommitResult(res)
    BY <1>5
  <2> DEFINE kept == Deliverable(res.messages)
             arrivals == {Arrival(m) : m \in kept}
  <2>2. PICK req \in requests :
          /\ req.agent = res.agent
          /\ messages' = messages \cup kept
          /\ events' = events \cup arrivals \cup res.events
          /\ trace' = Append(trace, Step(req, res))
          /\ todo = {} /\ results' = results \ {res}
          /\ UNCHANGED <<requests, todo, usesPolicy>>
    BY <2>1, CommitEffect
  <2>3. kept \subseteq res.messages
    BY DEF Deliverable
  <2>4. /\ \A e \in arrivals : \E m \in kept : e.id = m.id /\ e.to = {m.to}
        /\ \A m \in kept : \E e \in arrivals : e.id = m.id
    <3>1. \A m \in kept : Arrival(m).id = m.id /\ Arrival(m).to = {m.to}
      BY DEF Arrival
    <3> QED
      BY <3>1
  <2> HIDE DEF kept, arrivals
  <2>5. \A m : WasRead(m) \/ m \in req.inbox => WasRead(m)'
    <3>1. Step(req, res).parents = {m.id : m \in req.inbox}
      BY DEF Step
    <3>2. \A m : WasRead(m) \/ m.id \in Step(req, res).parents => WasRead(m)'
      BY <1>1, <2>2, ReadStays
    <3> QED
      BY <3>1, <3>2
  <2>6. ASSUME NEW e \in events', NEW m \in messages', e.id = m.id PROVE e.to = {m.to}
    <3>1. /\ UniqueIds(res.messages) /\ DisjointIds(res.messages, res.events)
          /\ DisjointIds(Proposed(res), messages) /\ DisjointIds(Proposed(res), events)
      BY DEF IInv, IdInv
    <3>2. e \in events \/ (e \in arrivals /\ e \notin events) \/ (e \in res.events /\ e \notin events)
      BY <2>2
    <3>3. m \in messages \/ m \in kept
      BY <2>2
    <3>4. CASE e \in events
      <4>1. m \notin kept
        BY <2>3, <2>6, <3>1, <3>4 DEF DisjointIds, Proposed
      <4> QED
        BY <2>6, <3>3, <3>4, <4>1 DEF ArrivalInv
    <3>5. CASE e \in arrivals
      <4>1. PICK k \in kept : e.id = k.id /\ e.to = {k.to}
        BY <2>4, <3>5
      <4>2. m \notin messages
        BY <2>3, <2>6, <3>1, <4>1 DEF DisjointIds, Proposed
      <4>3. m = k
        BY <2>3, <2>6, <3>1, <3>3, <4>1, <4>2 DEF UniqueIds
      <4> QED
        BY <4>1, <4>3
    <3>6. CASE e \in res.events
      BY <2>3, <2>6, <3>1, <3>3, <3>6 DEF DisjointIds, Proposed
    <3> QED
      BY <3>2, <3>4, <3>5, <3>6
  <2>7. ASSUME NEW m \in messages'
        PROVE  \/ WasRead(m)'
               \/ \E e \in events' : e.id = m.id
               \/ \E r \in requests' : Pending(r)' /\ m \in r.inbox
    <3>1. CASE m \in kept
      BY <2>2, <2>4, <3>1
    <3>2. CASE m \in messages
      <4>1. CASE WasRead(m)
        BY <2>5, <4>1
      <4>2. CASE \E e \in events : e.id = m.id
        BY <2>2, <4>2
      <4>3. ASSUME NEW r \in requests, Pending(r), m \in r.inbox
            PROVE  WasRead(m)' \/ Pending(r)'
        <5>1. r.agent = req.agent => r = req
          BY DEF IInv, StepInv
        <5>2. CASE r = req
          BY <2>5, <4>3, <5>2
        <5>3. CASE r.agent # res.agent
          BY <2>2, <4>3, <5>3 DEF Pending
        <5> QED
          BY <2>2, <5>1, <5>2, <5>3
      <4> QED
        BY <2>2, <3>2, <4>1, <4>2, <4>3 DEF ArrivalInv
    <3> QED
      BY <2>2, <3>1, <3>2
  <2> QED
    BY <2>2, <2>6, <2>7 DEF ArrivalInv
<1>6. CASE FinishStep
  <2>1. todo = {} /\ results = {} /\ UNCHANGED <<messages, events, usesPolicy, trace>>
    BY <1>6, FinishEffect
  <2> QED
    BY <2>1 DEF ArrivalInv, WasRead, Pending
<1>7. CASE Rests
  <2>1. /\ UNCHANGED <<messages, events, usesPolicy, trace, requests>>
        /\ \A r : Pending(r)' <=> Pending(r)
    BY <1>7 DEF Rests, Pending, storeVars
  <2> QED
    BY <2>1 DEF ArrivalInv, WasRead
<1> QED
  BY <1>2, <1>3, <1>4, <1>5, <1>6, <1>7, StepKinds

(* Between two steps every stored message has been read or still has the   *)
(* event that will activate its recipient, although FIFOScheduler drops    *)
(* events, as long as no inbox is cut and no activation is dropped after a *)
(* failure.                                                                *)
THEOREM NothingStranded ==
  ASSUME "raises" \notin Faults \/ TRUE \notin Policies
  PROVE  Spec /\ []AllInboxesFit => []NoStrandedMessage
<1>1. Init => ArrivalInv
  BY DEF Init, StoreInit, ArrivalInv
<1>2. IInv /\ IInv' /\ CursorInv /\ UnreadInv /\ AllInboxesFit /\ ArrivalInv /\ [Next]_vars
      => ArrivalInv'
  BY ArrivalStep
<1>3. AllInboxesFit => NothingOvertakes
  BY DEF AllInboxesFit, NothingOvertakes
<1>4. IInv /\ ArrivalInv => NoStrandedMessage
  BY DEF IInv, StepInv, ArrivalInv, NoStrandedMessage
<1> QED
  BY <1>1, <1>2, <1>3, <1>4, Invariance, CursorInvariance, UnreadInvariance, PTL DEF Spec
-----------------------------------------------------------------------------
(* Due times: real time stays within one step of the simulated time.       *)

LEMMA DueStep ==
  ASSUME IInv, IInv', MaxLag <= 1, DueInv, [Next]_vars
  PROVE  DueInv'
<1>1. /\ EngineTypeOK /\ now \in Nat /\ wall \in Nat /\ MaxLag \in Nat
      /\ \A e \in events : e.due \in Nat
  <2>1. EngineTypeOK
    BY DEF IInv
  <2>2. \A e \in events : e.due \in Nat
    BY <2>1 DEF EngineTypeOK, EventRecord
  <2>3. wall \in Nat /\ MaxLag \in Nat
    BY <2>1, EngineAssumption DEF EngineTypeOK
  <2> QED
    BY <2>1, <2>2, <2>3, TraceTypes
<1>2. CASE LoadEvents \/ AdvanceEnvironment
  <2>1. /\ phase = "ready" /\ phase' = "running" /\ results' = {} /\ events' \subseteq events
        /\ UNCHANGED <<now, wall>>
    BY <1>2, BeginEffect
  <2>2. ASSUME NEW e \in events' PROVE e.due <= now' + 1
    BY <1>1, <2>1 DEF DueInv
  <2> QED
    BY <2>1, <2>2 DEF DueInv
<1>3. CASE \E r \in todo : Execute(r) \/ FailedOutcome(r)
  <2>1. PICK r \in todo : Execute(r) \/ FailedOutcome(r)
    BY <1>3
  <2>2. /\ UNCHANGED <<events, phase, now, wall>> /\ phase = "running"
        /\ (FailedOutcome(r) => results' = results)
    BY <2>1, WorkEffect
  <2>3. CASE FailedOutcome(r)
    BY <2>2, <2>3 DEF DueInv
  <2>4. CASE Execute(r)
    <3>1. PICK res : results' = results \cup {res} /\ \A e \in res.events : e.due = wall
      BY <1>1, <2>4, ExecuteEffect, ReplyLengths
    <3> QED
      BY <2>2, <3>1 DEF DueInv
  <2> QED
    BY <2>1, <2>3, <2>4
<1>4. CASE \E res \in results : CommitResult(res)
  <2>1. PICK res \in results : CommitResult(res)
    BY <1>4
  <2> DEFINE arrivals == {Arrival(m) : m \in Deliverable(res.messages)}
  <2>2. /\ phase = "running" /\ events' = events \cup arrivals \cup res.events
        /\ results' = results \ {res}
        /\ UNCHANGED <<phase, now, wall>>
    BY <2>1, CommitEffect
  <2>3. \A e \in arrivals : e.due = wall
    BY DEF Arrival
  <2> HIDE DEF arrivals
  <2>4. \A e \in events' : e.due <= now + 1
    BY <2>2, <2>3 DEF DueInv
  <2> QED
    BY <2>2, <2>4 DEF DueInv
<1>5. CASE FinishStep
  <2>1. /\ phase = "running" /\ phase' = "ready" /\ now' = now + 1
        /\ UNCHANGED <<events, wall>>
    BY <1>5, FinishEffect
  <2> QED
    BY <1>1, <2>1 DEF DueInv
<1>6. CASE Rests
  <2>1. UNCHANGED <<events, now, results>> /\ (phase' = phase \/ (phase # "ready" /\ phase' # "ready"))
    BY <1>6 DEF Rests, storeVars
  <2>2. wall' <= now + 1
    BY <1>1, <1>6 DEF Rests, DueInv
  <2> QED
    BY <2>1, <2>2 DEF DueInv
<1> QED
  BY <1>2, <1>3, <1>4, <1>5, <1>6, StepKinds

(* If every stored event is due and none is popped, none is stored.        *)
LEMMA NothingLeft ==
  ASSUME IInv, \A e \in events : e.due <= now,
         MaxEventsPerTick >= 1, Ready(now, MaxEventsPerTick) = {}
  PROVE  events = {}
<1> SUFFICES ASSUME events # {} PROVE FALSE
  OBVIOUS
<1> DEFINE R == {p \in events \X events : PopsBefore(p[1], p[2])}
<1>1. /\ \A e \in events : /\ e.prio \in Int /\ e.due \in Nat /\ e.made \in Nat
                           /\ e.id \in Nat /\ e.id <= serial
      /\ UniqueIds(events) /\ serial \in Nat
  BY DEF IInv, EngineTypeOK, EventRecord, IdInv, BelowSerial
<1>2. IsFiniteSet(events)
  BY <1>1, FiniteIds
<1>3. \A e \in events : ~ PopsBefore(e, e)
  BY <1>1 DEF PopsBefore
<1>4. \A e, f, g \in events : PopsBefore(e, f) /\ PopsBefore(f, g) => PopsBefore(e, g)
  BY <1>1 DEF PopsBefore
<1>5. \A e, f \in events : <<e, f>> \in R <=> PopsBefore(e, f)
  OBVIOUS
<1> HIDE DEF R
<1>6. \E e \in events : \A f \in events : <<f, e>> \notin R
  BY <1>2, <1>3, <1>4, <1>5, FirstElement
<1>7. PICK e \in events : \A f \in events : ~ PopsBefore(f, e)
  BY <1>5, <1>6
<1>8. Due(now) = events
  BY DEF Due
<1>9. {f \in Due(now) : PopsBefore(f, e)} = {}
  BY <1>7, <1>8
<1>10. Cardinality({f \in Due(now) : PopsBefore(f, e)}) < MaxEventsPerTick
  <2>1. Cardinality({f \in Due(now) : PopsBefore(f, e)}) = 0
    BY <1>9, FS_EmptySet
  <2>2. MaxEventsPerTick \in Nat
    BY EngineAssumption
  <2> QED
    BY <2>1, <2>2
<1> QED
  BY <1>7, <1>8, <1>10 DEF Ready

(* The environment ticks only when nothing that an activation caused is on *)
(* its way: while real time stays behind the simulated time, an event that *)
(* step() stores is due in the next step, and the environment ticks when   *)
(* the store holds no event at all.                                        *)
THEOREM EnvironmentWaits ==
  ASSUME MaxLag <= 1, MaxEventsPerTick >= 1
  PROVE  Spec => QuiescentEnvironment
<1>1. Init => DueInv
  BY DEF Init, StoreInit, DueInv
<1>2. IInv /\ IInv' /\ DueInv /\ [Next]_vars => DueInv'
  BY DueStep
<1>3. IInv /\ DueInv /\ [Next]_vars
        => [environment'.tick # environment.tick =>
              \A e \in events : e.cause = NoActivation]_vars
  <2> SUFFICES ASSUME IInv, DueInv, [Next]_vars, environment'.tick # environment.tick
               PROVE  events = {}
    OBVIOUS
  <2>1. CASE AdvanceEnvironment
    BY <2>1, NothingLeft DEF AdvanceEnvironment, DueInv
  <2>2. CASE FinishStep
    BY <2>2, FinishEffect DEF IInv, EngineTypeOK
  <2>3. CASE LoadEvents
    BY <2>3 DEF LoadEvents
  <2>4. CASE \E r \in todo : Execute(r) \/ FailedOutcome(r)
    BY <2>4, WorkEffect
  <2>5. CASE \E res \in results : CommitResult(res)
    BY <2>5, CommitEffect
  <2>6. CASE Rests
    BY <2>6 DEF Rests
  <2> QED
    BY <2>1, <2>2, <2>3, <2>4, <2>5, <2>6, StepKinds
<1> QED
  BY <1>1, <1>2, <1>3, Invariance, PTL DEF Spec, QuiescentEnvironment
-----------------------------------------------------------------------------
(* The hypotheses of NothingSkipped and ReadOnceInOrder hold of every      *)
(* scenario whose agents send with one priority.                           *)

SendsWithOnePriority(p) ==
  \A a \in Agents : \A reply \in Replies[a] :
    \A i \in 1 .. Len(reply.send) : reply.send[i].prio = p

PriorityInv(p) ==
  /\ \A m \in messages : m.prio = p
  /\ \A res \in results : \A m \in res.messages : m.prio = p

LEMMA PriorityStep ==
  ASSUME NEW p, SendsWithOnePriority(p), IInv, PriorityInv(p), [Next]_vars
  PROVE  PriorityInv(p)'
<1>1. EngineTypeOK
  BY DEF IInv
<1>2. CASE LoadEvents \/ AdvanceEnvironment
  BY <1>2, BeginEffect DEF PriorityInv
<1>3. CASE \E r \in todo : Execute(r) \/ FailedOutcome(r)
  <2>1. PICK r \in todo : Execute(r) \/ FailedOutcome(r)
    BY <1>3
  <2>2. messages' = messages /\ (FailedOutcome(r) => results' = results)
    BY <2>1, WorkEffect
  <2>3. CASE FailedOutcome(r)
    BY <2>2, <2>3 DEF PriorityInv
  <2>4. CASE Execute(r)
    <3>1. PICK res :
            /\ results' = results \cup {res}
            /\ \A m \in res.messages : \E reply \in Replies[r.agent] :
                 \E i \in 1 .. Len(reply.send) : m.prio = reply.send[i].prio
      BY <1>1, <2>4, ExecuteEffect, ReplyLengths
    <3>2. r.agent \in Agents
      BY <1>1 DEF EngineTypeOK, RequestRecord
    <3>3. \A m \in res.messages : m.prio = p
      BY <3>1, <3>2 DEF SendsWithOnePriority
    <3> QED
      BY <2>2, <3>1, <3>3 DEF PriorityInv
  <2> QED
    BY <2>1, <2>3, <2>4
<1>4. CASE \E res \in results : CommitResult(res)
  <2>1. PICK res \in results : CommitResult(res)
    BY <1>4
  <2>2. messages' = messages \cup Deliverable(res.messages) /\ results' = results \ {res}
    BY <2>1, CommitEffect
  <2> QED
    BY <2>2 DEF PriorityInv, Deliverable
<1>5. CASE FinishStep
  BY <1>5, FinishEffect DEF PriorityInv
<1>6. CASE Rests
  BY <1>6 DEF Rests, storeVars, PriorityInv
<1> QED
  BY <1>2, <1>3, <1>4, <1>5, <1>6, StepKinds

(* When all messages are sent with one priority, no message is skipped,    *)
(* and an agent reads each once and in order, whatever the inbox limit.    *)
THEOREM UniformPriority ==
  ASSUME NEW p, SendsWithOnePriority(p), "malformed" \notin Faults
  PROVE  Spec => [](NoMessageSkipped /\ ReadsOnceInOrder)
<1>1. Init => PriorityInv(p)
  BY DEF Init, StoreInit, PriorityInv
<1>2. IInv /\ PriorityInv(p) /\ [Next]_vars => PriorityInv(p)'
  BY PriorityStep
<1>3. PriorityInv(p) => AllOfOnePriority
  BY DEF PriorityInv, AllOfOnePriority, OnePriority, Unread, NewerThan
<1>4. AllOfOnePriority => NothingOvertakes
  BY DEF AllOfOnePriority, NothingOvertakes
<1> QED
  BY <1>1, <1>2, <1>3, <1>4, Invariance, NothingSkipped, ReadOnceInOrder, PTL DEF Spec
=============================================================================
