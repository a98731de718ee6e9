---------------------------- MODULE RuntimeStore ----------------------------
(***************************************************************************)
(* The runtime store behind one simulation: agent states, undelivered      *)
(* events, messages and the activations already committed.  This is        *)
(* InMemoryStateStore (state/in_memory_store.py), whose operations run to  *)
(* completion on one thread, so each is one step.  SQLiteStore.tla models  *)
(* the other implementation of the same port, statement by statement.      *)
(*                                                                         *)
(* Records:                                                                *)
(*   state    [version, cursor]: AgentState, reduced to what the store and *)
(*            the engine read; cursor is a message id or NoMessage         *)
(*   message  [id, from, to, prio, at, origin]: at is created_at           *)
(*   event    [id, to, prio, due, made, cause]: due is scheduled_for, made *)
(*            orders events by created_at, to is the resolved target_scope *)
(*            (the empty set stands for an empty scope: every profile)     *)
(*   unit     [activation, agent, expected, state, messages, events]:      *)
(*            CommitUnit                                                   *)
(***************************************************************************)
EXTENDS Integers, FiniteSets

CONSTANTS
  Agents,       \* the agents with a profile and a state in the store
  NoMessage,    \* inbox_cursor = None
  NoReceipt     \* commit() has not been called yet

VARIABLES
  states,       \* _states: the AgentState of each agent
  messages,     \* _messages: every message ever committed
  events,       \* _events: the events not yet popped
  committed,    \* _committed: {[activation, written]}
  receipt       \* the CommitReceipt that the last commit() returned

storeVars == <<states, messages, events, committed, receipt>>

(* put_profile and put_state of the freshly built scenario: every agent    *)
(* starts at version 0 with no cursor, and nothing is stored yet.          *)
StoreInit ==
  /\ states = [a \in Agents |-> [version |-> 0, cursor |-> NoMessage]]
  /\ messages = {}
  /\ events = {}
  /\ committed = {}
  /\ receipt = NoReceipt

-----------------------------------------------------------------------------
(* commit(unit): the outcome is decided by the idempotency check first,    *)
(* then by the version check.                                              *)

IsCommitted(activation) == \E c \in committed : c.activation = activation

NotWritten == -1    \* commit_version_written = None

Receipt(unit, status, written) ==
  [activation |-> unit.activation, status |-> status,
   read |-> unit.expected, written |-> written]

(* Mutant: the duplicate's own version is answered.                        *)
AnswersOwnVersion(unit) ==
  /\ IsCommitted(unit.activation)
  /\ receipt' = Receipt(unit, "duplicate", unit.state.version)
  /\ UNCHANGED <<states, messages, events, committed>>

(* An activation committed before is answered with the version it wrote.   *)
CommitDuplicate(unit) ==
  /\ IsCommitted(unit.activation)
  /\ \E c \in committed :
       /\ c.activation = unit.activation
       /\ receipt' = Receipt(unit, "duplicate", c.written)
  /\ UNCHANGED <<states, messages, events, committed>>

(* Mutant: the messages are put before the version is checked.             *)
ConflictKeepsMessages(unit) ==
  /\ ~ IsCommitted(unit.activation)
  /\ states[unit.agent].version # unit.expected
  /\ receipt' = Receipt(unit, "conflict", NotWritten)
  /\ messages' = messages \cup unit.messages
  /\ UNCHANGED <<states, events, committed>>

(* A stale expected version rejects the whole unit.                        *)
CommitConflict(unit) ==
  /\ ~ IsCommitted(unit.activation)
  /\ states[unit.agent].version # unit.expected
  /\ receipt' = Receipt(unit, "conflict", NotWritten)
  /\ UNCHANGED <<states, messages, events, committed>>

(* What lands together: state, messages, events and the idempotency key.   *)
Land(unit, written) ==
  /\ states' = [states EXCEPT ![unit.agent] = unit.state]
  /\ messages' = messages \cup unit.messages
  /\ events' = events \cup unit.events
  /\ committed' = committed \cup
       {[activation |-> unit.activation, written |-> written]}
  /\ receipt' = Receipt(unit, "committed", written)

(* Mutants: a check is missing, the wrong version is remembered.           *)
ApplyAgain(unit) ==
  states[unit.agent].version = unit.expected /\ Land(unit, unit.state.version)

ApplyStale(unit) == ~ IsCommitted(unit.activation) /\ Land(unit, unit.state.version)

RemembersReadVersion(unit) ==
  /\ ~ IsCommitted(unit.activation)
  /\ states[unit.agent].version = unit.expected
  /\ Land(unit, unit.expected)

(* Otherwise the whole unit is applied.                                    *)
CommitApply(unit) ==
  /\ ~ IsCommitted(unit.activation)
  /\ states[unit.agent].version = unit.expected
  /\ Land(unit, unit.state.version)

Commit(unit) == CommitDuplicate(unit) \/ CommitConflict(unit) \/ CommitApply(unit)

-----------------------------------------------------------------------------
(* pop_ready(now, limit): the due events, highest priority first, then by  *)
(* scheduled_for, then by created_at; at most limit of them are removed.   *)

PopsBefore(e, f) ==
  \/ e.prio > f.prio
  \/ e.prio = f.prio /\ e.due < f.due
  \/ e.prio = f.prio /\ e.due = f.due /\ e.made < f.made
  \/ e.prio = f.prio /\ e.due = f.due /\ e.made = f.made /\ e.id < f.id

(* Mutant: an event due right now is not due yet.                          *)
DueStrictly(now) == {e \in events : e.due < now}

Due(now) == {e \in events : e.due <= now}

Ready(now, limit) ==
  {e \in Due(now) : Cardinality({f \in Due(now) : PopsBefore(f, e)}) < limit}

(* Mutants: nothing is removed; what the limit cut off is removed too.     *)
PopsNothing(now, limit) == UNCHANGED storeVars

PopsAllDue(now, limit) ==
  /\ events' = events \ Due(now)
  /\ UNCHANGED <<states, messages, committed, receipt>>

PopReady(now, limit) ==
  /\ events' = events \ Ready(now, limit)
  /\ UNCHANGED <<states, messages, committed, receipt>>

-----------------------------------------------------------------------------
(* inbox(agent, limit, after): the messages to the agent newer than the    *)
(* cursor message, highest priority first and oldest first within one      *)
(* priority, cut to limit.                                                 *)

ReadsBefore(m, n) ==
  \/ m.prio > n.prio
  \/ m.prio = n.prio /\ m.at < n.at
  \/ m.prio = n.prio /\ m.at = n.at /\ m.id < n.id

NewerThan(agent, after) ==
  {m \in messages :
     /\ m.to = agent
     /\ \A c \in messages : c.id = after => m.at > c.at}

(* Mutant: the newest messages instead of the first unread ones.           *)
InboxOfNewest(agent, limit, after) ==
  {m \in NewerThan(agent, after) :
     Cardinality({n \in NewerThan(agent, after) : n.at > m.at}) < limit}

Inbox(agent, limit, after) ==
  {m \in NewerThan(agent, after) :
     Cardinality({n \in NewerThan(agent, after) : ReadsBefore(n, m)}) < limit}

(* inbox_messages[-1], the message the backends store as the next cursor.  *)
LastOf(window) ==
  CHOOSE m \in window : \A n \in window \ {m} : ReadsBefore(n, m)
=============================================================================
