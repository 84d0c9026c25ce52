------------------------------ MODULE EdgeList ------------------------------
(***************************************************************************)
(* What CloudflareClient.Sync promises about the items of the account's    *)
(* list, and what SyncCycle relies on: the items change as a whole, to the *)
(* list of a Sync; a Sync confirms its list at one moment; a bulk          *)
(* operation that nobody waits for any more, at most one, may still        *)
(* replace the items later.                                                *)
(***************************************************************************)

CONSTANTS Lists, NoCIDRs

VARIABLES
    items,       \* of the list; none while there is no list
    orphan,      \* the operation this client does not wait for: {} or {its items}
    confirmed,   \* {} or {the list the latest Sync has confirmed}
    disturbed    \* items changed behind the latest Sync's back since it began

vars == <<items, orphan, confirmed, disturbed>>

Init ==
    /\ items \in Lists
    /\ orphan = {} /\ confirmed = {} /\ disturbed = FALSE

\* A Sync begins, or ends without success: nothing is confirmed any more.
Begin == confirmed' = {} /\ disturbed' = FALSE /\ UNCHANGED <<items, orphan>>
Fail  == confirmed' = {} /\ UNCHANGED <<items, orphan, disturbed>>

\* The items are the list already, or are replaced while no other operation
\* runs.  Only a read torn by somebody else's change confirms what never was.
Confirm ==
    /\ \E l \in Lists :
         /\ confirmed' = {l}
         /\ \/ items = l /\ UNCHANGED items
            \/ orphan = {} /\ items' = l
            \/ disturbed /\ UNCHANGED items
    /\ UNCHANGED <<orphan, disturbed>>

\* The client stops waiting for its operation, or another pod starts one.
Orphan ==
    /\ orphan = {} /\ \E l \in Lists : orphan' = {l}
    /\ confirmed' \in {confirmed, {}}
    /\ UNCHANGED <<items, disturbed>>

OrphanEnds ==
    /\ \E l \in orphan : \/ items' = l /\ disturbed' = TRUE
                         \/ UNCHANGED <<items, disturbed>>
    /\ orphan' = {} /\ UNCHANGED confirmed

\* The list is deleted or created by somebody else.
Outside ==
    /\ items' = NoCIDRs /\ disturbed' = TRUE
    /\ orphan' \in {orphan, {}} /\ UNCHANGED confirmed

Next == Begin \/ Fail \/ Confirm \/ Orphan \/ OrphanEnds \/ Outside

Spec == Init /\ [][Next]_vars
=============================================================================
