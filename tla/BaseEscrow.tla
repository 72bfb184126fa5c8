----------------------------- MODULE BaseEscrow -----------------------------
(***************************************************************************)
(* What a campaign's base deposit promises, with none of the machinery:    *)
(* the brand puts in one base payment per slot, each leaves once, to the   *)
(* creator who took the slot or back to the brand, and never more leaves   *)
(* than was put in.  docs/CAMPAIGN-FUNDING.md is the prose of it; the      *)
(* ledger of CampaignFunding implements it.                                *)
(***************************************************************************)
EXTENDS Naturals, FiniteSets

CONSTANTS Creators, MaxSlots

VARIABLES
    deposit,    \* base payments put in
    paid,       \* creators whose base was released to them
    returned,   \* creators whose base was refunded after a cancellation
    unused      \* base payments refunded for slots nobody took

vars == <<deposit, paid, returned, unused>>

Init == deposit = 0 /\ paid = {} /\ returned = {} /\ unused = 0

Left == Cardinality(paid) + Cardinality(returned) + unused

Capture ==
    /\ deposit = 0
    /\ deposit' \in 1 .. MaxSlots
    /\ UNCHANGED <<paid, returned, unused>>

Pay(c) ==
    /\ c \notin paid \cup returned
    /\ Left < deposit
    /\ paid' = paid \cup {c}
    /\ UNCHANGED <<deposit, returned, unused>>

Return(c) ==
    /\ c \notin paid \cup returned
    /\ Left < deposit
    /\ returned' = returned \cup {c}
    /\ UNCHANGED <<deposit, paid, unused>>

ReturnUnused ==
    /\ unused = 0
    /\ unused' \in 1 .. (deposit - Left)
    /\ UNCHANGED <<deposit, paid, returned>>

Next == Capture \/ ReturnUnused \/ \E c \in Creators : Pay(c) \/ Return(c)

Spec == Init /\ [][Next]_vars
=============================================================================
