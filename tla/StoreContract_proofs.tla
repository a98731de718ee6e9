------------------------ MODULE StoreContract_proofs ------------------------
(***************************************************************************)
(* Theorems about the store's contract, for every set of units: a unit is  *)
(* stored whole, at most one attempt of an activation is stored, receipts  *)
(* are truthful and no update is lost.  The properties are inductive       *)
(* together; only the last one needs the types as well.                    *)
(***************************************************************************)
EXTENDS StoreContract, TLAPS

CInv == StoreTypeOK /\ AllOrNothing /\ AppliedOnce /\ ReceiptTruthful

(* Each of the three outcomes of commit() preserves the invariant.         *)
LEMMA CommitPreserves == ASSUME CInv, NEW u \in Units, Commit(u) PROVE CInv'
<1>1. /\ u.agent \in Agents /\ u.expected \in Nat /\ u.state.version = u.expected + 1
      /\ \A v, w \in Units : v # w => v.messages \cap w.messages = {}
  BY UnitsAssumption
<1>2. CASE CommitDuplicate(u)
  <2>1. /\ UNCHANGED <<states, messages, events, committed>>
        /\ \E c \in committed : /\ c.activation = u.activation
                                /\ receipt' = Receipt(u, "duplicate", c.written)
    BY <1>2 DEF CommitDuplicate
  <2>2. PICK c \in committed : /\ c.activation = u.activation
                               /\ receipt' = Receipt(u, "duplicate", c.written)
    BY <2>1
  <2>3. c = [activation |-> receipt'.activation, written |-> receipt'.written]
    BY <2>2 DEF CInv, StoreTypeOK, Receipt
  <2>4. receipt'.status = "duplicate"
    BY <2>2 DEF Receipt
  <2> QED
    BY <2>1, <2>3, <2>4
       DEF CInv, StoreTypeOK, AllOrNothing, AppliedOnce, ReceiptTruthful, Visible, IsCommitted
<1>3. CASE CommitConflict(u)
  <2>1. /\ UNCHANGED <<states, messages, events, committed>>
        /\ ~ IsCommitted(u.activation)
        /\ receipt'.activation = u.activation /\ receipt'.status = "conflict"
    BY <1>3 DEF CommitConflict, Receipt
  <2> QED
    BY <2>1
       DEF CInv, StoreTypeOK, AllOrNothing, AppliedOnce, ReceiptTruthful, Visible, IsCommitted
<1>4. CASE CommitApply(u)
  <2> DEFINE key == [activation |-> u.activation, written |-> u.state.version]
  <2>1. /\ ~ IsCommitted(u.activation)
        /\ states' = [states EXCEPT ![u.agent] = u.state]
        /\ messages' = messages \cup u.messages
        /\ events' = events \cup u.events
        /\ committed' = committed \cup {key}
        /\ receipt' = Receipt(u, "committed", u.state.version)
    BY <1>4 DEF CommitApply, Land
  <2>2. /\ receipt'.status = "committed"
        /\ key = [activation |-> receipt'.activation, written |-> receipt'.written]
    BY <2>1 DEF Receipt
  <2>3. key \in committed' /\ key.activation = u.activation
    BY <2>1
  <2>4. StoreTypeOK'
    <3>1. (DOMAIN states' = Agents) /\ \A a \in Agents : states'[a].version \in Nat
      BY <1>1, <2>1 DEF CInv, StoreTypeOK
    <3>2. \A c \in committed' : \E v \in Units :
            c = [activation |-> v.activation, written |-> v.state.version]
      BY <2>1 DEF CInv, StoreTypeOK
    <3>3. /\ messages' \subseteq UNION {v.messages : v \in Units}
          /\ events' \subseteq UNION {v.events : v \in Units}
      BY <2>1 DEF CInv, StoreTypeOK
    <3> QED
      BY <2>2, <3>1, <3>2, <3>3 DEF StoreTypeOK
  <2>5. \A v \in Units \ {u} : Visible(v)' => Visible(v)
    BY <1>1, <2>1 DEF Visible
  <2>6. \A v \in Units : IsCommitted(v.activation) => IsCommitted(v.activation)'
    BY <2>1 DEF IsCommitted
  <2>7. IsCommitted(u.activation)'
    BY <2>3 DEF IsCommitted
  <2>8. AllOrNothing'
    <3> SUFFICES ASSUME NEW v \in Units, Visible(v)'
                 PROVE  v.messages \subseteq messages' /\ IsCommitted(v.activation)'
      BY DEF AllOrNothing
    <3>1. CASE v = u
      BY <2>1, <2>7, <3>1
    <3>2. CASE v # u
      BY <2>1, <2>5, <2>6, <3>2 DEF CInv, AllOrNothing
    <3> QED
      BY <3>1, <3>2
  <2>9. AppliedOnce'
    <3> SUFFICES ASSUME NEW v \in Units, NEW w \in Units,
                        v.activation = w.activation, Visible(v)', Visible(w)'
                 PROVE  v = w
      BY DEF AppliedOnce
    <3>1. \A x \in Units \ {u} : Visible(x)' => x.activation # u.activation
      BY <2>1, <2>5 DEF CInv, AllOrNothing
    <3> QED
      BY <2>5, <3>1 DEF CInv, AppliedOnce
  <2>10. ReceiptTruthful'
    BY <2>2, <2>3 DEF ReceiptTruthful
  <2> QED
    BY <2>4, <2>8, <2>9, <2>10 DEF CInv
<1> QED
  BY <1>2, <1>3, <1>4 DEF Commit

(* So does every call, since pop_ready only removes events.                *)
LEMMA StepPreservesCInv == CInv /\ [Next]_storeVars => CInv'
<1> SUFFICES ASSUME CInv, [Next]_storeVars PROVE CInv'
  OBVIOUS
<1>1. CASE \E u \in Units : Commit(u)
  BY <1>1, CommitPreserves
<1>2. CASE \E now \in Times : PopReady(now, PopLimit)
  <2>1. UNCHANGED <<states, messages, committed, receipt>> /\ events' \subseteq events
    BY <1>2 DEF PopReady
  <2> QED
    BY <2>1
       DEF CInv, StoreTypeOK, AllOrNothing, AppliedOnce, ReceiptTruthful, Visible, IsCommitted
<1>3. CASE UNCHANGED storeVars
  BY <1>3
     DEF storeVars, CInv, StoreTypeOK, AllOrNothing, AppliedOnce, ReceiptTruthful, Visible,
         IsCommitted
<1> QED
  BY <1>1, <1>2, <1>3 DEF Next

(* The contract's invariants hold together in every reachable state.       *)
THEOREM ContractInvariance == Spec => []CInv
<1>1. StoreInit => CInv
  BY DEF StoreInit, CInv, StoreTypeOK, AllOrNothing, AppliedOnce, ReceiptTruthful, Visible
<1> QED
  BY <1>1, StepPreservesCInv, PTL DEF Spec

(* What is stored, and what the idempotency keys name, comes from units.   *)
THEOREM StoreTypes == Spec => []StoreTypeOK
<1> QED
  BY ContractInvariance, PTL DEF CInv

(* A commit unit is stored whole or not at all.                            *)
THEOREM StoredWhole == Spec => []AllOrNothing
<1> QED
  BY ContractInvariance, PTL DEF CInv

(* However often an activation is retried, and from whatever version, the  *)
(* effects of at most one attempt are stored.                              *)
THEOREM StoredOnce == Spec => []AppliedOnce
<1> QED
  BY ContractInvariance, PTL DEF CInv

(* No receipt promises what the store does not hold.                       *)
THEOREM ReceiptsHold == Spec => []ReceiptTruthful
<1> QED
  BY ContractInvariance, PTL DEF CInv

(* A unit computed from an old state never overwrites a newer one.         *)
THEOREM NoUpdateIsLost == Spec => NoLostUpdate
<1>1. ASSUME CInv, [Next]_storeVars, NEW a \in Agents, states'[a] # states[a]
      PROVE  states'[a].version = states[a].version + 1
  <2>1. PICK u \in Units : CommitApply(u)
    BY <1>1
       DEF Next, storeVars, PopReady, Commit, CommitDuplicate, CommitConflict
  <2>2. /\ states' = [states EXCEPT ![u.agent] = u.state]
        /\ states[u.agent].version = u.expected
        /\ u.agent \in Agents /\ u.state.version = u.expected + 1
    BY <2>1, UnitsAssumption DEF CommitApply, Land
  <2> QED
    BY <1>1, <2>2 DEF CInv, StoreTypeOK
<1>2. CInv /\ [Next]_storeVars =>
        [\A a \in Agents :
           states'[a] # states[a] => states'[a].version = states[a].version + 1]_storeVars
  BY <1>1
<1> QED
  BY <1>2, ContractInvariance, PTL DEF Spec, NoLostUpdate
=============================================================================
