------------------------- MODULE SQLiteStore_proofs -------------------------
(***************************************************************************)
(* Theorem: SQLiteStateStore, statement by statement, implements the       *)
(* store's contract for every set of units, whatever raises and wherever   *)
(* the process dies.                                                       *)
(*                                                                         *)
(* The invariant says how far the open transaction has come: the tables    *)
(* plus the part of the unit already written, or minus the events already  *)
(* deleted.  Hence the one statement that publishes it publishes the whole *)
(* of a commit() or a pop_ready(), and every other step is invisible.      *)
(***************************************************************************)
EXTENDS SQLiteStore, TLAPS

(* The transaction after some rows of the running commit.                  *)
Writing(newMessages, newEvents, newKeys) ==
  txn = [states |-> [states EXCEPT ![unit.agent] = unit.state],
         messages |-> messages \cup newMessages,
         events |-> events \cup newEvents,
         committed |-> committed \cup newKeys]

Key == [activation |-> unit.activation, written |-> unit.state.version]

Committing == {"state", "messages", "events", "key", "end"}

TxnInv ==
  /\ pc \in {"idle", "down", "version", "delete"} \cup Committing
  /\ pc \in {"idle", "down"} => txn = NoTxn /\ todo = {}
  /\ pc \in {"version", "state"} => txn = NoTxn
  /\ pc \in {"version"} \cup Committing =>
       unit \in Units /\ ~ IsCommitted(unit.activation)
  /\ pc \in Committing => states[unit.agent].version = unit.expected
  /\ pc = "messages" => todo \subseteq unit.messages /\ Writing(unit.messages \ todo, {}, {})
  /\ pc = "events" => todo \subseteq unit.events /\ Writing(unit.messages, unit.events \ todo, {})
  /\ pc = "key" => Writing(unit.messages, unit.events, {})
  /\ pc = "end" => Writing(unit.messages, unit.events, {Key})
  /\ pc = "delete" => \E now \in Times :
       /\ todo \subseteq Ready(now, PopLimit)
       /\ txn = [states |-> states, messages |-> messages,
                 events |-> events \ (Ready(now, PopLimit) \ todo),
                 committed |-> committed]

(* Steps of a running commit() before its end: the tables do not change.   *)
LEMMA WritingPreserves ==
  ASSUME TxnInv,
         \/ SelectVersion \/ WriteState \/ WriteMessage \/ MessagesWritten
         \/ WriteEvent \/ EventsWritten \/ WriteKey
  PROVE  TxnInv'
<1>1. CASE SelectVersion
  <2>1. CASE states[unit.agent].version # unit.expected
    BY <1>1, <2>1 DEF SelectVersion, TxnInv, Finish, Committing, tables
  <2>2. CASE states[unit.agent].version = unit.expected
    BY <1>1, <2>2 DEF SelectVersion, TxnInv, Committing, storeVars, IsCommitted
  <2> QED
    BY <2>1, <2>2
<1>2. CASE WriteState
  <2>1. /\ pc = "state" /\ pc' = "messages" /\ todo' = unit.messages
        /\ unit' = unit /\ UNCHANGED <<states, messages, events, committed>>
        /\ txn' = [View EXCEPT !.states[unit.agent] = unit.state]
    BY <1>2 DEF WriteState, storeVars
  <2>2. txn' = [states |-> [states EXCEPT ![unit.agent] = unit.state],
                messages |-> messages, events |-> events, committed |-> committed]
    BY <2>1 DEF TxnInv, View
  <2>3. Writing(unit.messages \ todo, {}, {})'
    BY <2>1, <2>2 DEF Writing
  <2> QED
    BY <2>1, <2>3 DEF TxnInv, Committing, IsCommitted
<1>3. CASE WriteMessage
  <2>1. PICK m \in todo : /\ txn' = [txn EXCEPT !.messages = @ \cup {m}]
                          /\ todo' = todo \ {m}
    BY <1>3 DEF WriteMessage
  <2>2. /\ pc = "messages" /\ pc' = pc /\ unit' = unit
        /\ UNCHANGED <<states, messages, events, committed>>
    BY <1>3 DEF WriteMessage, storeVars
  <2>3. todo \subseteq unit.messages /\ Writing(unit.messages \ todo, {}, {})
    BY <2>2 DEF TxnInv
  <2>4. Writing(unit.messages \ todo, {}, {})'
    <3>1. (messages \cup (unit.messages \ todo)) \cup {m} = messages \cup (unit.messages \ (todo \ {m}))
      BY <2>3
    <3> QED
      BY <2>1, <2>2, <2>3, <3>1 DEF Writing
  <2> QED
    BY <2>1, <2>2, <2>3, <2>4 DEF TxnInv, Committing, IsCommitted
<1>4. CASE MessagesWritten
  <2>1. /\ pc = "messages" /\ pc' = "events" /\ todo = {} /\ todo' = unit.events
        /\ UNCHANGED <<unit, txn, states, messages, events, committed>>
    BY <1>4 DEF MessagesWritten, storeVars
  <2>2. Writing(unit.messages \ todo, {}, {})
    BY <2>1 DEF TxnInv
  <2>3. Writing(unit.messages, unit.events \ todo, {})'
    BY <2>1, <2>2 DEF Writing
  <2> QED
    BY <2>1, <2>3 DEF TxnInv, Committing, IsCommitted
<1>5. CASE WriteEvent
  <2>1. PICK e \in todo : /\ txn' = [txn EXCEPT !.events = @ \cup {e}]
                          /\ todo' = todo \ {e}
    BY <1>5 DEF WriteEvent
  <2>2. /\ pc = "events" /\ pc' = pc /\ unit' = unit
        /\ UNCHANGED <<states, messages, events, committed>>
    BY <1>5 DEF WriteEvent, storeVars
  <2>3. todo \subseteq unit.events /\ Writing(unit.messages, unit.events \ todo, {})
    BY <2>2 DEF TxnInv
  <2>4. Writing(unit.messages, unit.events \ todo, {})'
    <3>1. (events \cup (unit.events \ todo)) \cup {e} = events \cup (unit.events \ (todo \ {e}))
      BY <2>3
    <3> QED
      BY <2>1, <2>2, <2>3, <3>1 DEF Writing
  <2> QED
    BY <2>1, <2>2, <2>3, <2>4 DEF TxnInv, Committing, IsCommitted
<1>6. CASE EventsWritten
  <2>1. /\ pc = "events" /\ pc' = "key" /\ todo = {}
        /\ UNCHANGED <<unit, todo, txn, states, messages, events, committed>>
    BY <1>6 DEF EventsWritten, storeVars
  <2>2. Writing(unit.messages, unit.events, {})'
    BY <2>1 DEF TxnInv, Writing
  <2> QED
    BY <2>1, <2>2 DEF TxnInv, Committing, IsCommitted
<1>7. CASE WriteKey
  <2>1. /\ pc = "key" /\ pc' = "end" /\ txn' = [txn EXCEPT !.committed = @ \cup {Key}]
        /\ UNCHANGED <<unit, todo, states, messages, events, committed>>
    BY <1>7 DEF WriteKey, storeVars, Key
  <2>2. txn = [states |-> [states EXCEPT ![unit.agent] = unit.state],
               messages |-> messages \cup unit.messages,
               events |-> events \cup unit.events,
               committed |-> committed \cup {}]
    BY <2>1 DEF TxnInv, Writing
  <2>3. Key' = Key
    BY <2>1 DEF Key
  <2>4. Writing(unit.messages, unit.events, {Key})'
    BY <2>1, <2>2, <2>3 DEF Writing
  <2> QED
    BY <2>1, <2>4 DEF TxnInv, Committing, IsCommitted
<1> QED
  BY <1>1, <1>2, <1>3, <1>4, <1>5, <1>6, <1>7

(* The DELETEs of a running pop_ready() touch events that are ready only.  *)
LEMMA DeletingPreserves ==
  ASSUME TxnInv, (\E now \in Times : SelectReady(now)) \/ DeleteEvent
  PROVE  TxnInv'
<1>1. CASE \E now \in Times : SelectReady(now)
  <2>1. PICK now \in Times : SelectReady(now)
    BY <1>1
  <2>2. /\ pc = "idle" /\ pc' = "delete" /\ todo' = Ready(now, PopLimit) /\ txn' = View
        /\ UNCHANGED <<unit, states, messages, events, committed>>
    BY <2>1 DEF SelectReady, storeVars
  <2>3. txn' = [states |-> states, messages |-> messages, events |-> events,
                committed |-> committed]
    BY <2>2 DEF TxnInv, View
  <2>4. Ready(now, PopLimit)' = Ready(now, PopLimit)
    BY <2>2 DEF Ready, Due
  <2> QED
    BY <2>2, <2>3, <2>4 DEF TxnInv, Committing
<1>2. CASE DeleteEvent
  <2>1. PICK e \in todo : /\ txn' = [txn EXCEPT !.events = @ \ {e}]
                          /\ todo' = todo \ {e}
    BY <1>2 DEF DeleteEvent
  <2>2. /\ pc = "delete" /\ pc' = pc
        /\ UNCHANGED <<unit, states, messages, events, committed>>
    BY <1>2 DEF DeleteEvent, storeVars
  <2>3. PICK now \in Times :
          /\ todo \subseteq Ready(now, PopLimit)
          /\ txn = [states |-> states, messages |-> messages,
                    events |-> events \ (Ready(now, PopLimit) \ todo),
                    committed |-> committed]
    BY <2>2 DEF TxnInv
  <2>4. (events \ (Ready(now, PopLimit) \ todo)) \ {e} =
          events \ (Ready(now, PopLimit) \ (todo \ {e}))
    BY <2>3
  <2>5. Ready(now, PopLimit)' = Ready(now, PopLimit)
    BY <2>2 DEF Ready, Due
  <2>6. txn' = [states |-> states, messages |-> messages,
                events |-> events \ (Ready(now, PopLimit) \ todo'),
                committed |-> committed]
    BY <2>1, <2>3, <2>4
  <2> QED
    BY <2>1, <2>2, <2>3, <2>5, <2>6 DEF TxnInv, Committing
<1> QED
  BY <1>1, <1>2

(* Every statement, raise, crash and restart preserves the invariant.      *)
LEMMA StepPreservesTxnInv == TxnInv /\ [Next]_vars => TxnInv'
<1> SUFFICES ASSUME TxnInv, [Next]_vars PROVE TxnInv'
  OBVIOUS
<1>1. CASE \/ SelectVersion \/ WriteState \/ WriteMessage \/ MessagesWritten
           \/ WriteEvent \/ EventsWritten \/ WriteKey
  BY <1>1, WritingPreserves
<1>2. CASE (\E now \in Times : SelectReady(now)) \/ DeleteEvent
  BY <1>2, DeletingPreserves
<1>3. CASE \E u \in Units : SelectKey(u)
  <2>1. PICK u \in Units : SelectKey(u)
    BY <1>3
  <2>2. CASE IsCommitted(u.activation)
    BY <2>1, <2>2 DEF SelectKey, Finish, TxnInv, Committing
  <2>3. CASE ~ IsCommitted(u.activation)
    BY <2>1, <2>3 DEF SelectKey, TxnInv, Committing, IsCommitted, storeVars
  <2> QED
    BY <2>2, <2>3
<1>4. CASE CommitTransaction \/ CommitDeletes \/ RaiseAndRollback
  BY <1>4 DEF CommitTransaction, CommitDeletes, RaiseAndRollback, Finish, TxnInv, Committing
<1>5. CASE Crash \/ Reopen
  BY <1>5 DEF Crash, Reopen, TxnInv, Committing
<1>6. CASE UNCHANGED vars
  BY <1>6 DEF vars, storeVars, TxnInv, Committing, Writing, Key, IsCommitted, Ready, Due
<1> QED
  BY <1>1, <1>2, <1>3, <1>4, <1>5, <1>6 DEF Next

(* A store that has just been opened is between two calls.                 *)
LEMMA InitTxnInv == Init => TxnInv
  BY DEF Init, TxnInv, Committing

(* A running transaction is never left behind by a call that returned or   *)
(* raised, nor by a killed process.                                        *)
THEOREM TransactionsEnd == Spec => []NoTransactionLeaks
<1>1. TxnInv => NoTransactionLeaks
  BY DEF TxnInv, NoTransactionLeaks
<1> QED
  BY <1>1, InitTxnInv, StepPreservesTxnInv, PTL DEF Spec

-----------------------------------------------------------------------------
(* Every statement is a step of the contract or leaves the tables and the  *)
(* receipt alone.                                                          *)
LEMMA StepRefines == TxnInv /\ [Next]_vars => [Contract!Next]_storeVars
<1> SUFFICES ASSUME TxnInv, [Next]_vars, ~ UNCHANGED storeVars PROVE Contract!Next
  OBVIOUS
<1> USE DEF Contract!Next, Contract!Commit
<1>1. CASE \E u \in Units : SelectKey(u)
  <2>1. PICK u \in Units : SelectKey(u)
    BY <1>1
  <2>2. CommitDuplicate(u)
    BY <2>1 DEF SelectKey
  <2>3. Contract!CommitDuplicate(u)
    BY <2>2 DEF CommitDuplicate, Contract!CommitDuplicate, IsCommitted,
                Contract!IsCommitted, Receipt, Contract!Receipt
  <2> QED
    BY <2>3
<1>2. CASE SelectVersion
  <2>1. /\ pc = "version" /\ states[unit.agent].version # unit.expected
        /\ receipt' = Receipt(unit, "conflict", NotWritten) /\ UNCHANGED tables
    BY <1>2 DEF SelectVersion
  <2>2. unit \in Units /\ ~ IsCommitted(unit.activation)
    BY <2>1 DEF TxnInv
  <2>3. Contract!CommitConflict(unit)
    BY <2>1, <2>2 DEF tables, Contract!CommitConflict, IsCommitted, Contract!IsCommitted,
                      Receipt, Contract!Receipt, NotWritten, Contract!NotWritten
  <2> QED
    BY <2>2, <2>3
<1>3. CASE CommitTransaction
  <2>1. /\ pc = "end" /\ states' = txn.states /\ messages' = txn.messages
        /\ events' = txn.events /\ committed' = txn.committed
        /\ receipt' = Receipt(unit, "committed", unit.state.version)
    BY <1>3 DEF CommitTransaction
  <2>2. /\ unit \in Units /\ ~ IsCommitted(unit.activation)
        /\ states[unit.agent].version = unit.expected
        /\ txn = [states |-> [states EXCEPT ![unit.agent] = unit.state],
                  messages |-> messages \cup unit.messages,
                  events |-> events \cup unit.events,
                  committed |-> committed \cup {Key}]
    BY <2>1 DEF TxnInv, Committing, Writing
  <2>3. Contract!Land(unit, unit.state.version)
    BY <2>1, <2>2 DEF Contract!Land, Key, Receipt, Contract!Receipt
  <2>4. Contract!CommitApply(unit)
    BY <2>2, <2>3 DEF Contract!CommitApply, IsCommitted, Contract!IsCommitted
  <2> QED
    BY <2>2, <2>4
<1>4. CASE CommitDeletes
  <2>1. /\ pc = "delete" /\ todo = {} /\ events' = txn.events
        /\ UNCHANGED <<states, messages, committed, receipt>>
    BY <1>4 DEF CommitDeletes
  <2>2. PICK now \in Times :
          txn.events = events \ (Ready(now, PopLimit) \ todo)
    BY <2>1 DEF TxnInv
  <2>3. events' = events \ Ready(now, PopLimit)
    BY <2>1, <2>2
  <2>4. Contract!Ready(now, PopLimit) = Ready(now, PopLimit)
    <3>1. Contract!Due(now) = Due(now)
      BY DEF Due, Contract!Due
    <3>2. \A e, f : Contract!PopsBefore(e, f) <=> PopsBefore(e, f)
      BY DEF PopsBefore, Contract!PopsBefore
    <3>3. \A e : {f \in Contract!Due(now) : Contract!PopsBefore(f, e)} =
                   {f \in Due(now) : PopsBefore(f, e)}
      BY <3>1, <3>2
    <3>4. \A S : Contract!Cardinality(S) = Cardinality(S)
      BY DEF Cardinality, Contract!Cardinality
    <3> QED
      BY <3>1, <3>3, <3>4 DEF Ready, Contract!Ready
  <2>5. Contract!PopReady(now, PopLimit)
    BY <2>1, <2>3, <2>4 DEF Contract!PopReady
  <2> QED
    BY <2>5
<1>5. ~ \/ WriteState \/ WriteMessage \/ MessagesWritten \/ WriteEvent \/ EventsWritten
        \/ WriteKey \/ (\E now \in Times : SelectReady(now)) \/ DeleteEvent
        \/ RaiseAndRollback \/ Crash \/ Reopen \/ UNCHANGED vars
  BY DEF WriteState, WriteMessage, MessagesWritten, WriteEvent, EventsWritten, WriteKey,
         SelectReady, DeleteEvent, RaiseAndRollback, Crash, Reopen, vars
<1> QED
  BY <1>1, <1>2, <1>3, <1>4, <1>5 DEF Next

(* SQLiteStateStore implements the contract that InMemoryStateStore is.    *)
THEOREM ImplementsTheContract == Spec => ImplementsContract
<1>1. Init => Contract!StoreInit
  BY DEF Init, StoreInit, Contract!StoreInit
<1>2. storeVars = Contract!storeVars
  BY DEF storeVars, Contract!storeVars
<1>3. TxnInv /\ [Next]_vars => [Contract!Next]_(Contract!storeVars)
  BY <1>2, StepRefines DEF storeVars, Contract!storeVars
<1> QED
  BY <1>1, <1>3, InitTxnInv, StepPreservesTxnInv, PTL
     DEF Spec, ImplementsContract, Contract!Spec
=============================================================================
