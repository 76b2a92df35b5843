---------------------------- MODULE CausalLedger ----------------------------
(***************************************************************************)
(* What every research stage promises about its event ledger as the        *)
(* processing time advances: the ledger is append-only, it is ordered by   *)
(* confirm time, and the events one advance adds were confirmed after the  *)
(* previous processing time and no later than the new one.  Nothing is     *)
(* rewritten, nothing appears before it is known and nothing appears late. *)
(* msa/research/*/contracts.py state this promise in their History types.  *)
(***************************************************************************)
EXTENDS Integers, Sequences

CONSTANT Event

VARIABLES
    asOf,       \* the processing time of the last snapshot, -1 before any
    ledger      \* the events that snapshot holds

vars == <<asOf, ledger>>

TypeOK == asOf \in Int /\ ledger \in Seq(Event)

OrderedByConfirm(events) ==
    \A j, k \in DOMAIN events : j <= k => events[j].confirm <= events[k].confirm

Init == asOf = -1 /\ ledger = <<>>

(* A snapshot is taken at a later processing time. *)
Advance ==
    /\ asOf' \in Int /\ asOf' > asOf
    /\ ledger' \in Seq(Event)
    /\ Len(ledger) <= Len(ledger')
    /\ \A k \in DOMAIN ledger : ledger'[k] = ledger[k]
    /\ \A k \in DOMAIN ledger' \ DOMAIN ledger :
          asOf < ledger'[k].confirm /\ ledger'[k].confirm <= asOf'
    /\ OrderedByConfirm(ledger')

Spec == Init /\ [][Advance]_vars

-----------------------------------------------------------------------------

(* No event is held before it is confirmed, and the ledger is ordered. *)
KnownByNow ==
    /\ \A k \in DOMAIN ledger : ledger[k].confirm <= asOf
    /\ OrderedByConfirm(ledger)

(* Every earlier snapshot is exactly the part of the later one that was    *)
(* confirmed by then: the exact-prefix rule of LifecycleHistory.           *)
ExactPrefix ==
    [][\A k \in DOMAIN ledger' : ledger'[k].confirm <= asOf <=> k <= Len(ledger)]_vars
=============================================================================
