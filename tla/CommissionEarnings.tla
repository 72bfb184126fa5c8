------------------------- MODULE CommissionEarnings -------------------------
(***************************************************************************)
(* What one attributed order line earns its creator: ingest of             *)
(* commission-earnings.service.ts and the arithmetic of commission-math.ts.*)
(* Commerce sends a revision of the line whenever what it observes of the  *)
(* order changes, and sends it again until it is acknowledged; deliveries  *)
(* overlap, repeat and overtake each other, and a faulty sender may reuse  *)
(* an identity.                                                            *)
(***************************************************************************)
EXTENDS Integers, Sequences, FiniteSetsExt

CONSTANTS
    Calls,          \* concurrent calls of ingest
    Events,         \* event ids
    MaxRevision,    \* bound: revisions of the line
    Net,            \* netSaleCents of the line
    Facts,          \* what a revision may say of fees, refunds and holds
    Terms           \* affiliate terms the creator may have accepted

\* In place of a platform fee that is null, and of a refund that is left out.
Unknown == -1

Cents == {Unknown} \cup Nat

FactsType == [sale : {"original", "other"}, fee : Cents, refundedNet : Nat, refundedFee : Cents,
              full : BOOLEAN, hold : BOOLEAN]
TermsType == [type : {"percentage_of_sale", "percentage_of_platform_commission", "fixed_amount_per_sale"},
              points : 1 .. 10000, fixed : Nat \ {0}]

EarningsAssumption ==
    /\ MaxRevision \in Nat /\ Net \in Nat
    /\ Facts \subseteq FactsType /\ Terms \subseteq TermsType

VARIABLES
    terms,          \* the affiliate terms of the accepted snapshot
    claimed,        \* whether the receipt of the line has been claimed
    ledger,         \* commission_earning_event, in the order of insertion
    acknowledged,   \* the events whose sender was told they are accepted
    holder,         \* who holds the advisory lock of the line
    call            \* the local variables of each ingest

vars == <<terms, claimed, ledger, acknowledged, holder, call>>

\* A revision as it is posted; purchasedAt lies in the receipt's window or not.
Posted == [event : Events, revision : 1 .. MaxRevision, facts : Facts, inWindow : BOOLEAN]

NoCall == [at |-> "idle"]

Init ==
    /\ terms \in Terms /\ claimed \in BOOLEAN
    /\ ledger = <<>> /\ acknowledged = {}
    /\ holder = {}
    /\ call = [c \in Calls |-> NoCall]

-----------------------------------------------------------------------------
(* commissionResult                                                         *)

Known(n) == IF n = Unknown THEN 0 ELSE n

\* Faulty: the amounts are taken as they come.
Valid_Unchecked(f) == TRUE

Valid(f) == f.refundedNet <= Net /\ Known(f.refundedFee) <= Known(f.fee)

Reversed(t, f) == f.full \/ (t.type = "percentage_of_sale" /\ Net > 0 /\ f.refundedNet = Net)

\* What the percentage is of; an unknown fee counts as nothing, and is held.
Basis(t, f) ==
    IF t.type # "percentage_of_platform_commission" THEN Net - f.refundedNet
    ELSE IF f.fee = Unknown THEN 0
    ELSE f.fee - Known(f.refundedFee)

Accrued(t, f) ==
    IF Reversed(t, f) THEN 0
    ELSE IF t.type = "fixed_amount_per_sale" THEN t.fixed
    ELSE (Basis(t, f) * t.points) \div 10000

Held(t, f) ==
    \/ f.hold
    \/ t.type = "percentage_of_platform_commission" /\
          (f.fee = Unknown \/ (f.refundedNet > 0 /\ ~f.full /\ f.refundedFee = Unknown))

State(t, f) ==
    IF Reversed(t, f) THEN "reversed" ELSE IF Held(t, f) THEN "held" ELSE "under_review"

-----------------------------------------------------------------------------
(* ingest                                                                   *)

Latest == IF ledger = <<>> THEN [revision |-> 0, accrued |-> 0] ELSE ledger[Len(ledger)]

Ends(c) == call' = [call EXCEPT ![c] = NoCall] /\ holder' = holder \ {c}

\* Faulty: nothing serializes the receipts of a line.
Lock_Missing(c, posted) ==
    /\ call[c] = NoCall
    /\ holder' = holder \cup {c}
    /\ call' = [call EXCEPT ![c] = [at |-> "read", posted |-> posted]]
    /\ UNCHANGED <<terms, claimed, ledger, acknowledged>>

\* pg_advisory_xact_lock of the order line.
Lock(c, posted) ==
    /\ call[c] = NoCall /\ holder = {}
    /\ holder' = {c}
    /\ call' = [call EXCEPT ![c] = [at |-> "read", posted |-> posted]]
    /\ UNCHANGED <<terms, claimed, ledger, acknowledged>>

\* The rows with this event's id, or with this revision of the line.
Duplicates(p) == {r \in DOMAIN ledger : ledger[r].posted.event = p.event \/ ledger[r].posted.revision = p.revision}

\* isDeepStrictEqual of the stored and the posted event.
Same(r, p) == ledger[r].posted = p

Acknowledge(p) == acknowledged' = acknowledged \cup {p}

\* What was posted before is answered, or refused when it says something else.
Repeated(c) ==
    LET p == call[c].posted IN
    /\ call[c].at = "read" /\ Duplicates(p) # {}
    /\ IF Cardinality(Duplicates(p)) = 1 /\ \A r \in Duplicates(p) : Same(r, p)
       THEN Acknowledge(p) ELSE UNCHANGED acknowledged
    /\ Ends(c)
    /\ UNCHANGED <<terms, claimed, ledger>>

\* Faulty: a refund that is taken back is believed.
Follows_Restored(p) == p.revision = Latest.revision + 1

\* What a revision must say after the one before it.
Follows(p) ==
    /\ p.revision = Latest.revision + 1
    /\ ledger # <<>> =>
         LET before == Latest.posted.facts IN
         /\ p.facts.sale = before.sale
         /\ p.facts.refundedNet >= before.refundedNet
         /\ Known(p.facts.refundedFee) >= Known(before.refundedFee)
         /\ before.full => p.facts.full

\* The receipt, whatever became of its link since, and the arithmetic.
Accept(c) ==
    LET p == call[c].posted IN
    /\ call[c].at = "read" /\ Duplicates(p) = {}
    /\ IF Follows(p) /\ claimed /\ p.inWindow /\ Valid(p.facts)
       THEN /\ call' = [call EXCEPT ![c] = [at |-> "insert", posted |-> p, before |-> Latest.accrued]]
            /\ UNCHANGED holder
       ELSE Ends(c)
    /\ UNCHANGED <<terms, claimed, ledger, acknowledged>>

Insert(c) ==
    LET p == call[c].posted
        accrued == Accrued(terms, p.facts)
    IN /\ call[c].at = "insert"
       /\ ledger' = Append(ledger, [posted |-> p, revision |-> p.revision, accrued |-> accrued,
                                    adjustment |-> accrued - call[c].before, state |-> State(terms, p.facts)])
       /\ call' = [call EXCEPT ![c] = [at |-> "answer", posted |-> p]]
       /\ holder' = holder \ {c}
       /\ UNCHANGED <<terms, claimed, acknowledged>>

\* The answer arrives; when it is lost the sender will post again.
Answer(c) ==
    /\ call[c].at = "answer"
    /\ Acknowledge(call[c].posted)
    /\ Ends(c)
    /\ UNCHANGED <<terms, claimed, ledger>>

\* A statement throws, the answer is lost, or the process dies.
CallStops(c) == call[c] # NoCall /\ Ends(c) /\ UNCHANGED <<terms, claimed, ledger, acknowledged>>

\* The shopper claims the receipt (CreatorTracking); a claim is never undone.
ReceiptClaimed == ~claimed /\ claimed' = TRUE /\ UNCHANGED <<terms, ledger, acknowledged, holder, call>>

Next ==
    \/ ReceiptClaimed
    \/ \E c \in Calls :
        \/ \E posted \in Posted : Lock(c, posted)
        \/ Repeated(c) \/ Accept(c) \/ Insert(c) \/ Answer(c) \/ CallStops(c)

Spec == Init /\ [][Next]_vars

-----------------------------------------------------------------------------

TypeOK ==
    /\ terms \in Terms /\ claimed \in BOOLEAN
    /\ ledger \in Seq([posted : Posted, revision : 1 .. MaxRevision, accrued : Nat, adjustment : Int,
                       state : {"under_review", "held", "reversed"}])
    /\ acknowledged \subseteq Posted
    /\ holder \subseteq Calls

(* The ledger of a line is one history: its revisions are 1, 2, ... without *)
(* a gap or a double, and the adjustments the creator is shown add up to    *)
(* what the latest revision accrues, which is no more than the agreed part  *)
(* of what is left of the sale (ingest, commissionResult).                  *)
AdjustmentsAddUp ==
    /\ \A r \in DOMAIN ledger :
        /\ ledger[r].revision = r
        /\ MapThenSumSet(LAMBDA q : ledger[q].adjustment, 1 .. r) = ledger[r].accrued
        /\ terms.type = "percentage_of_sale" =>
              ledger[r].accrued * 10000 <= (Net - ledger[r].posted.facts.refundedNet) * terms.points

(* The sender drops an event once it is acknowledged, so an acknowledged    *)
(* event is in the ledger, with the facts it was sent with.                 *)
AcknowledgedIsRecorded ==
    \A p \in acknowledged : \E r \in DOMAIN ledger : ledger[r].posted = p

(* The creator's history neither misses an event that Commerce believes     *)
(* delivered, nor counts one twice or wrongly.                              *)
LedgerExact == AdjustmentsAddUp /\ AcknowledgedIsRecorded

(* What a refund reversed stays reversed: no later revision, overtaking or  *)
(* contradicting, gives it back.                                            *)
ReversedStays ==
    \A q, r \in DOMAIN ledger : q < r /\ ledger[q].state = "reversed" =>
        ledger[r].state = "reversed" /\ ledger[r].accrued = 0
=============================================================================
