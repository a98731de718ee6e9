---------------------------- MODULE StoreContract ---------------------------
(***************************************************************************)
(* What the store promises its callers: commit() and pop_ready() as atomic *)
(* steps, called in any order and with any of the Units, a unit being      *)
(* retried or arriving late included.  InMemoryStateStore is this          *)
(* specification; SQLiteStore is shown to implement it.                    *)
(***************************************************************************)
EXTENDS RuntimeStore

CONSTANTS
  Units,     \* the commit units the callers may submit
  Times,     \* the values of now that pop_ready is called with
  PopLimit   \* its limit

(* Message ids are fresh (new_id), so no two units carry the same message, *)
(* and every backend builds updated_state with with_activation_count, one  *)
(* version above the state the request was built from.                     *)
ASSUME UnitsAssumption ==
  /\ \A u \in Units :
       /\ u.agent \in Agents
       /\ u.expected \in Nat
       /\ u.state.version = u.expected + 1
  /\ \A u, v \in Units : u # v => u.messages \cap v.messages = {}

Next ==
  \/ \E u \in Units : Commit(u)
  \/ \E now \in Times : PopReady(now, PopLimit)

Spec == StoreInit /\ [][Next]_storeVars
-----------------------------------------------------------------------------
(* Type correctness of the stored records.                                 *)
StoreTypeOK ==
  /\ \A a \in Agents : states[a].version \in Nat
  /\ DOMAIN states = Agents
  /\ messages \subseteq UNION {u.messages : u \in Units}
  /\ events \subseteq UNION {u.events : u \in Units}
  /\ \A c \in committed : \E u \in Units :
       c = [activation |-> u.activation, written |-> u.state.version]
  /\ receipt = NoReceipt \/ receipt.status \in {"committed", "duplicate", "conflict"}

Visible(u) == u.messages \cap messages # {}

(* A unit is stored whole or not at all: one stored message of it implies  *)
(* all of them and its idempotency key (commit, paper_draft.md section     *)
(* 2.1, "all-or-nothing application").                                     *)
AllOrNothing ==
  \A u \in Units :
    Visible(u) => u.messages \subseteq messages /\ IsCommitted(u.activation)

(* Of the attempts submitted under one activation id, the effects of at    *)
(* most one are ever stored, whatever versions the attempts expect.        *)
AppliedOnce ==
  \A u, v \in Units :
    u.activation = v.activation /\ Visible(u) /\ Visible(v) => u = v

(* A version advances by one commit at a time: a unit computed from an     *)
(* older state never overwrites a newer one (the optimistic version check).*)
NoLostUpdate ==
  [][\A a \in Agents :
       states'[a] # states[a] => states'[a].version = states[a].version + 1]_storeVars

(* The receipt answers truthfully: committed and duplicate name a version  *)
(* that the store holds for the activation, conflict an activation that    *)
(* the store does not hold at all.                                         *)
ReceiptTruthful ==
  receipt # NoReceipt =>
    IF receipt.status = "conflict"
    THEN ~ IsCommitted(receipt.activation)
    ELSE [activation |-> receipt.activation, written |-> receipt.written] \in committed
=============================================================================
