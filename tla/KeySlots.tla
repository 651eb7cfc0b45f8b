------------------------------ MODULE KeySlots ------------------------------
(***************************************************************************)
(* What the key pool promises its callers, without tables, clocks or       *)
(* processes: every key has at most Cap holders, a holder is a ticket that *)
(* is issued once and never again, and a ticket never moves to another key. *)
(* Tickets may end at any time (finish, expiry, deletion, restart); one    *)
(* transaction may end some and issue at most one.                         *)
(***************************************************************************)
EXTENDS Naturals, FiniteSets

CONSTANTS
  SlotKeys,   \* the keys
  Cap         \* max_inflight: how many holders a key may have at once

VARIABLES
  holders,    \* holders[k]: the tickets that hold key k
  issued      \* the number of tickets issued so far

slotVars == <<holders, issued>>

SlotInit ==
  /\ holders = [k \in SlotKeys |-> {}]
  /\ issued = 0

\* Some tickets end, none is issued.
End ==
  /\ holders' \in [SlotKeys -> SUBSET (1..issued)]
  /\ \A k \in SlotKeys : holders'[k] \subseteq holders[k]
  /\ UNCHANGED issued

\* The next ticket goes to key k, which has room once the ended ones are gone.
Issue(k) ==
  /\ issued' = issued + 1
  /\ holders' \in [SlotKeys -> SUBSET (1..issued')]
  /\ \A j \in SlotKeys : holders'[j] \ {issued'} \subseteq holders[j]
  /\ \A j \in SlotKeys : issued' \in holders'[j] <=> j = k
  /\ Cardinality(holders'[k]) <= Cap

SlotNext == End \/ \E k \in SlotKeys : Issue(k)

SlotSpec == SlotInit /\ [][SlotNext]_slotVars
=============================================================================
