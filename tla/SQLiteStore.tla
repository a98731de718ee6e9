----------------------------- MODULE SQLiteStore ----------------------------
(***************************************************************************)
(* SQLiteStateStore.commit and pop_ready (state/sqlite_store.py) one SQL   *)
(* statement at a time, with the process dying or a statement raising      *)
(* between any two of them.                                                *)
(*                                                                         *)
(* states, messages, events and committed are the tables as any other      *)
(* reader of the file sees them.  The first INSERT or DELETE opens a       *)
(* transaction (the sqlite3 module's implicit BEGIN); its effects stay in  *)
(* txn until "with self.conn" commits them on a normal exit, or rolls them *)
(* back when a statement raises: json.dumps of a payload it cannot         *)
(* serialise, or an error of SQLite.  A killed process leaves the tables   *)
(* as they were before the transaction.                                    *)
(***************************************************************************)
EXTENDS RuntimeStore

CONSTANTS
  Units,     \* the commit units the callers may submit
  Times,     \* the values of now that pop_ready is called with
  PopLimit,  \* its limit
  NoTxn,     \* no transaction is open
  NoUnit     \* commit() has not been called yet

VARIABLES
  pc,        \* the next statement of the running call
  unit,      \* the argument of the running commit()
  todo,      \* the rows its current loop has still to write or delete
  txn        \* the open transaction's view of the tables

tables == <<states, messages, events, committed>>
vars == <<storeVars, pc, unit, todo, txn>>

Init ==
  /\ StoreInit
  /\ pc = "idle"
  /\ unit = NoUnit
  /\ todo = {}
  /\ txn = NoTxn

Finish == pc' = "idle" /\ todo' = {} /\ txn' = NoTxn

-----------------------------------------------------------------------------
(* commit(unit)                                                            *)

(* SELECT ... FROM committed_activations: a hit returns DUPLICATE.         *)
SelectKey(u) ==
  /\ pc = "idle"
  /\ unit' = u
  /\ IF IsCommitted(u.activation)
     THEN CommitDuplicate(u) /\ Finish
     ELSE /\ pc' = "version"
          /\ UNCHANGED <<storeVars, todo, txn>>

(* SELECT payload FROM agent_states: a stale version returns CONFLICT.     *)
SelectVersion ==
  /\ pc = "version"
  /\ IF states[unit.agent].version # unit.expected
     THEN /\ receipt' = Receipt(unit, "conflict", NotWritten)
          /\ Finish
          /\ UNCHANGED tables
     ELSE /\ pc' = "state"
          /\ UNCHANGED <<storeVars, todo, txn>>
  /\ UNCHANGED unit

(* The tables as the connection sees them inside its transaction.          *)
View == IF txn = NoTxn
        THEN [states |-> states, messages |-> messages, events |-> events,
              committed |-> committed]
        ELSE txn

(* INSERT OR REPLACE INTO agent_states, which opens the transaction.       *)
WriteState ==
  /\ pc = "state"
  /\ txn' = [View EXCEPT !.states[unit.agent] = unit.state]
  /\ pc' = "messages"
  /\ todo' = unit.messages
  /\ UNCHANGED <<storeVars, unit>>

(* Mutant: messages.put, which commits the open transaction by itself.     *)
PutsMessage ==
  /\ pc = "messages" /\ todo # {}
  /\ \E m \in todo :
       /\ txn' = [txn EXCEPT !.messages = @ \cup {m}]
       /\ todo' = todo \ {m}
  /\ states' = txn'.states
  /\ messages' = txn'.messages
  /\ UNCHANGED <<events, committed, receipt, pc, unit>>

(* One INSERT per outgoing message, then on to the events.                 *)
WriteMessage ==
  /\ pc = "messages" /\ todo # {}
  /\ \E m \in todo :
       /\ txn' = [txn EXCEPT !.messages = @ \cup {m}]
       /\ todo' = todo \ {m}
  /\ UNCHANGED <<storeVars, pc, unit>>

MessagesWritten ==
  /\ pc = "messages" /\ todo = {}
  /\ pc' = "events"
  /\ todo' = unit.events
  /\ UNCHANGED <<storeVars, unit, txn>>

(* One INSERT per emitted event, then on to the idempotency key.           *)
WriteEvent ==
  /\ pc = "events" /\ todo # {}
  /\ \E e \in todo :
       /\ txn' = [txn EXCEPT !.events = @ \cup {e}]
       /\ todo' = todo \ {e}
  /\ UNCHANGED <<storeVars, pc, unit>>

EventsWritten ==
  /\ pc = "events" /\ todo = {}
  /\ pc' = "key"
  /\ UNCHANGED <<storeVars, unit, todo, txn>>

(* INSERT INTO committed_activations.                                      *)
WriteKey ==
  /\ pc = "key"
  /\ txn' = [txn EXCEPT !.committed = @ \cup
               {[activation |-> unit.activation, written |-> unit.state.version]}]
  /\ pc' = "end"
  /\ UNCHANGED <<storeVars, unit, todo>>

(* Leaving "with self.conn" commits; the call returns COMMITTED.           *)
CommitTransaction ==
  /\ pc = "end"
  /\ states' = txn.states
  /\ messages' = txn.messages
  /\ events' = txn.events
  /\ committed' = txn.committed
  /\ receipt' = Receipt(unit, "committed", unit.state.version)
  /\ Finish
  /\ UNCHANGED unit

-----------------------------------------------------------------------------
(* pop_ready(now, limit): SELECT the rows, DELETE them one by one, commit. *)

SelectReady(now) ==
  /\ pc = "idle"
  /\ Ready(now, PopLimit) # {}
  /\ todo' = Ready(now, PopLimit)
  /\ txn' = View
  /\ pc' = "delete"
  /\ UNCHANGED <<storeVars, unit>>

DeleteEvent ==
  /\ pc = "delete" /\ todo # {}
  /\ \E e \in todo :
       /\ txn' = [txn EXCEPT !.events = @ \ {e}]
       /\ todo' = todo \ {e}
  /\ UNCHANGED <<storeVars, pc, unit>>

CommitDeletes ==
  /\ pc = "delete" /\ todo = {}
  /\ events' = txn.events
  /\ Finish
  /\ UNCHANGED <<states, messages, committed, receipt, unit>>

-----------------------------------------------------------------------------
(* Mutant: execute() without "with self.conn" leaves the transaction open. *)
RaiseWithoutRollback ==
  /\ pc \notin {"idle", "down"}
  /\ pc' = "idle" /\ todo' = {}
  /\ UNCHANGED <<storeVars, unit, txn>>

(* Any statement of a running call may raise: "with self.conn" rolls back  *)
(* and the exception reaches the caller, which gets no receipt.            *)
RaiseAndRollback ==
  /\ pc \notin {"idle", "down"}
  /\ Finish
  /\ UNCHANGED <<storeVars, unit>>

(* The process is killed: SQLite's journal undoes the open transaction.    *)
Crash ==
  /\ pc # "down"
  /\ pc' = "down"
  /\ todo' = {}
  /\ txn' = NoTxn
  /\ UNCHANGED <<storeVars, unit>>

(* SQLiteStateStore(path) without an environment: the rows are kept.       *)
Reopen ==
  /\ pc = "down"
  /\ pc' = "idle"
  /\ UNCHANGED <<storeVars, unit, todo, txn>>

Next ==
  \/ \E u \in Units : SelectKey(u)
  \/ SelectVersion \/ WriteState
  \/ WriteMessage \/ MessagesWritten
  \/ WriteEvent \/ EventsWritten
  \/ WriteKey \/ CommitTransaction
  \/ \E now \in Times : SelectReady(now)
  \/ DeleteEvent \/ CommitDeletes
  \/ RaiseAndRollback \/ Crash \/ Reopen

Spec == Init /\ [][Next]_vars
-----------------------------------------------------------------------------
(* The statement-level store implements the contract: under every placing  *)
(* of a raise or a crash, what the tables show changes only by whole       *)
(* commits and whole pops, each receipt being the one the contract gives.  *)
(* target_architecture.md: "Recovery may retry an uncommitted proposal but *)
(* must never expose a partial commit or apply an activation twice."       *)
Contract == INSTANCE StoreContract

ImplementsContract == Contract!Spec

(* Between two calls no transaction is left open: a call that failed half  *)
(* way leaves nothing that the next call's commit would publish.           *)
NoTransactionLeaks == pc \in {"idle", "down"} => txn = NoTxn /\ todo = {}
=============================================================================
