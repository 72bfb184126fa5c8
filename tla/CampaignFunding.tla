--------------------------- MODULE CampaignFunding ---------------------------
(***************************************************************************)
(* One campaign's base deposit, from the owner's first request to the last *)
(* release or refund: thesi-api/src/api/campaign-funding.  The rows of the *)
(* campaign, its fund, its obligations, its operations and its ledger are  *)
(* shared by the API handlers and by any number of concurrent calls of     *)
(* process(), which claims an operation under a two-minute lease, calls    *)
(* the provider outside any transaction, and records the answer.           *)
(***************************************************************************)
EXTENDS FundingProvider

CONSTANTS
    Workers,        \* concurrent calls of process(): the tick of each API instance, retries, deposits
    MaxSlots,       \* bound: the largest creator_capacity the owner sets
    MaxRefundRetries,   \* bound: refundRetryId values an operator gives one refund
    NoLease,        \* the lease_until of an operation nobody has claimed
    ChargeHolds,    \* what others may do to the charge: dispute it, refund part of it
    LeaseMargin     \* TRUE: a call of process() is never stalled past its own lease

ASSUME WorkersAssumption == IsFiniteSet(Workers) /\ NoLease \notin Workers
ASSUME SlotsAssumption == MaxSlots \in Nat \ {0}
ASSUME BoundsAssumption == MaxRefundRetries \in Nat /\ LeaseMargin \in BOOLEAN
ASSUME HoldsAssumption == ChargeHolds \subseteq {"disputed", "refunded"}

VARIABLES
    status,         \* campaign.status
    slots,          \* campaign.creator_capacity
    requests,       \* deposit() calls between their first read and their transaction: the slots each read
    launching,      \* whether an update() that launches has passed beforeSave
    fund,           \* campaign_base_fund: state, slots and deposit_cents, and the captured payment intent
    obligated,      \* creators with a campaign_base_obligation
    accepted,       \* those with accepted_work_at
    cancelled,      \* those with cancelled_at
    op,             \* campaign_fund_operation
    entry,          \* campaign_fund_entry: the provider_id recorded for the operation, or 0
    ctx             \* the local variables of each call of process()

rows == <<status, slots, requests, launching, fund, obligated, accepted, cancelled, op, entry>>
vars == <<status, slots, requests, launching, fund, obligated, accepted, cancelled, op, entry, ctx,
          objects, keys, hold>>

CampaignStatus == {"draft", "active", "paused", "completed"}
FundState == {"none", "awaiting_deposit", "funded", "closed"}
OpState == {"absent", "pending", "processing", "provider_pending", "succeeded", "review"}

NoFund == [state |-> "none", slots |-> 0, charge |-> 0]

(* lease is the claim's lease_until, unique to the call that wrote it;      *)
(* expired says it has passed; attempted that first_attempt_at is set; aged *)
(* that this was more than 23 hours ago; provider is provider_id or 0; retry*)
(* numbers the refundRetryId in args.                                       *)
NoRow == [state |-> "absent", amount |-> 0, lease |-> NoLease, expired |-> FALSE,
          attempted |-> FALSE, aged |-> FALSE, provider |-> 0, retry |-> 0]
NewRow(n) == [NoRow EXCEPT !.state = "pending", !.amount = n]

Idle == [pc |-> "idle", op |-> Deposit, prepared |-> FALSE, provider |-> 0, retry |-> 0,
         expected |-> 0, result |-> 0, pending |-> FALSE, clean |-> FALSE]

\* Faulty: a plan accepts a capacity of zero.
Init_ZeroCapacity ==
    /\ status = "draft"
    /\ slots \in 0 .. MaxSlots
    /\ requests = {} /\ launching = FALSE
    /\ fund = NoFund
    /\ obligated = {} /\ accepted = {} /\ cancelled = {}
    /\ op = [o \in Op |-> NoRow]
    /\ entry = [o \in Op |-> 0]
    /\ ctx = [w \in Workers |-> Idle]
    /\ ProviderInit

Init ==
    /\ status = "draft"
    /\ slots \in 1 .. MaxSlots
    /\ requests = {} /\ launching = FALSE
    /\ fund = NoFund
    /\ obligated = {} /\ accepted = {} /\ cancelled = {}
    /\ op = [o \in Op |-> NoRow]
    /\ entry = [o \in Op |-> 0]
    /\ ctx = [w \in Workers |-> Idle]
    /\ ProviderInit

-----------------------------------------------------------------------------
(* The campaign's own life.  The guards on the fund are the code's          *)
(* (beforeSave) where src/ has them and the database triggers' otherwise.   *)

Captured == fund.charge # 0

\* Saving a draft; the terms are locked once a deposit operation exists.
EditTerms(n) ==
    /\ status = "draft"
    /\ op[Deposit].state = "absent"
    /\ n # slots
    /\ slots' = n
    /\ UNCHANGED <<status, requests, launching, fund, obligated, accepted, cancelled, op, entry, ctx, provider>>

\* beforeSave lets an update() to active through; others may follow, so launching stays.
BeforeSave ==
    /\ fund.state = "funded"
    /\ fund.slots = slots
    /\ launching' = TRUE
    /\ UNCHANGED <<status, slots, requests, fund, obligated, accepted, cancelled, op, entry, ctx, provider>>

\* Faulty: the save trusts what beforeSave read.
Launch_Unchecked ==
    /\ launching
    /\ status' = "active"
    /\ UNCHANGED <<slots, requests, launching, fund, obligated, accepted, cancelled, op, entry, ctx, provider>>

\* The trigger on the campaign's row: a launch is funded, a closed fund is not reopened.
FundedLaunch == fund.state = "funded" /\ fund.slots = slots

\* The save of that update(), some awaits later, under the trigger.
Launch ==
    /\ launching
    /\ FundedLaunch
    /\ status' = "active"
    /\ UNCHANGED <<slots, requests, launching, fund, obligated, accepted, cancelled, op, entry, ctx, provider>>

Pause ==
    /\ status \in {"draft", "active"}
    /\ status' = "paused"
    /\ UNCHANGED <<slots, requests, launching, fund, obligated, accepted, cancelled, op, entry, ctx, provider>>

CloseFund(unused) ==
    IF fund.state = "funded"
    THEN /\ fund' = [fund EXCEPT !.state = "closed"]
         /\ op' = IF unused > 0 THEN [op EXCEPT ![Unused] = NewRow(unused)] ELSE op
    ELSE UNCHANGED <<fund, op>>

\* The slots no creator took; a cancelled creator's slot stays taken.
UnusedSlots == slots - Cardinality(obligated)

(* Completion is refused while the deposit is undecided; it closes the fund *)
(* and queues the refund of the slots no creator took, in one transaction.  *)
Complete ==
    /\ status # "completed"
    /\ op[Deposit].state \in {"absent", "succeeded"}
    /\ status' = "completed"
    /\ CloseFund(UnusedSlots)
    /\ UNCHANGED <<slots, requests, launching, obligated, accepted, cancelled, entry, ctx, provider>>

\* createAcceptanceSnapshot: the trigger reserves a slot with the snapshot.
AdmitCreator(c) ==
    /\ fund.state = "funded"
    /\ c \notin obligated
    /\ Cardinality(obligated) < slots
    /\ obligated' = obligated \cup {c}
    /\ UNCHANGED <<status, slots, requests, launching, fund, accepted, cancelled, op, entry, ctx, provider>>

-----------------------------------------------------------------------------
(* The owner's and the operator's requests.                                 *)

\* deposit(), up to the await of the charge context: the owner confirmed the total of `slots'.
RequestDeposit ==
    /\ status = "draft"
    /\ op[Deposit].state = "absent"
    /\ requests' = requests \cup {slots}
    /\ UNCHANGED <<status, slots, launching, fund, obligated, accepted, cancelled, op, entry, ctx, provider>>

\* Faulty: the transaction trusts the terms read before the await.
OpenDeposit_NoRecheck(n) ==
    /\ n \in requests
    /\ requests' = requests \ {n}
    /\ IF status = "draft" /\ op[Deposit].state = "absent"
       THEN /\ fund' = [state |-> "awaiting_deposit", slots |-> n, charge |-> 0]
            /\ op' = [op EXCEPT ![Deposit] = NewRow(n)]
       ELSE UNCHANGED <<fund, op>>
    /\ UNCHANGED <<status, slots, launching, obligated, accepted, cancelled, entry, ctx, provider>>

(* deposit(), its transaction: the campaign is read again under its lock    *)
(* and compared; both inserts are ON CONFLICT DO NOTHING.                   *)
OpenDeposit(n) ==
    /\ n \in requests
    /\ requests' = requests \ {n}
    /\ IF status = "draft" /\ slots = n /\ op[Deposit].state = "absent"
       THEN /\ fund' = [state |-> "awaiting_deposit", slots |-> n, charge |-> 0]
            /\ op' = [op EXCEPT ![Deposit] = NewRow(n)]
       ELSE UNCHANGED <<fund, op>>
    /\ UNCHANGED <<status, slots, launching, obligated, accepted, cancelled, entry, ctx, provider>>

\* Faulty: work is accepted after its obligation was cancelled.
AcceptWork_Cancelled(c) ==
    /\ c \in obligated
    /\ accepted' = accepted \cup {c}
    /\ op' = IF op[Release(c)].state = "absent"
             THEN [op EXCEPT ![Release(c)] = NewRow(1)]
             ELSE op
    /\ UNCHANGED <<status, slots, requests, launching, fund, obligated, cancelled, entry, ctx, provider>>

AcceptWork(c) ==
    /\ c \in obligated
    /\ c \notin cancelled
    /\ accepted' = accepted \cup {c}
    /\ op' = IF op[Release(c)].state = "absent"
             THEN [op EXCEPT ![Release(c)] = NewRow(1)]
             ELSE op
    /\ UNCHANGED <<status, slots, requests, launching, fund, obligated, cancelled, entry, ctx, provider>>

\* Faulty: only a finished payout stops a cancellation.
CancelObligation_Accepted(c) ==
    /\ c \in obligated
    /\ entry[Release(c)] = 0
    /\ c \notin cancelled
    /\ op[Cancel(c)].state = "absent"
    /\ cancelled' = cancelled \cup {c}
    /\ op' = [op EXCEPT ![Cancel(c)] = NewRow(1)]
    /\ UNCHANGED <<status, slots, requests, launching, fund, obligated, accepted, entry, ctx, provider>>

\* Faulty: the obligation is cancelled and its refund is not queued.
CancelObligation_Unqueued(c) ==
    /\ c \in obligated \ (accepted \cup cancelled)
    /\ cancelled' = cancelled \cup {c}
    /\ UNCHANGED <<status, slots, requests, launching, fund, obligated, accepted, op, entry, ctx, provider>>

CancelObligation(c) ==
    /\ c \in obligated
    /\ c \notin accepted
    /\ c \notin cancelled
    /\ op[Release(c)].state = "absent" /\ op[Cancel(c)].state = "absent"
    /\ cancelled' = cancelled \cup {c}
    /\ op' = [op EXCEPT ![Cancel(c)] = NewRow(1)]
    /\ UNCHANGED <<status, slots, requests, launching, fund, obligated, accepted, entry, ctx, provider>>

LeaseFree(o) == op[o].lease = NoLease \/ op[o].expired

\* The rows a confirmed movement writes, whoever confirmed it.
RecordMovement(o, i) ==
    /\ entry' = IF entry[o] = 0 THEN [entry EXCEPT ![o] = i] ELSE entry
    /\ fund' = IF o = Deposit THEN [fund EXCEPT !.state = "funded", !.charge = i] ELSE fund
    /\ op' = [op EXCEPT ![o] = [@ EXCEPT !.state = "succeeded", !.provider = i,
                                       !.lease = NoLease, !.expired = FALSE]]

\* recover(), mode verify: the operator names a provider object that moved the money.
RecoverVerified(o, i) ==
    /\ op[o].state \notin {"absent", "succeeded"}
    /\ LeaseFree(o)
    /\ i \in DOMAIN objects[o]
    /\ objects[o][i].status = "succeeded"
    /\ RecordMovement(o, i)
    /\ UNCHANGED <<status, slots, requests, launching, obligated, accepted, cancelled, ctx, provider>>

\* recover(), mode retry_refund: the known refund failed, so a new one may be asked for.
RecoverRetryRefund(o) ==
    /\ op[o].state \notin {"absent", "succeeded"}
    /\ LeaseFree(o)
    /\ o \in Refunds
    /\ op[o].provider # 0
    /\ objects[o][op[o].provider].status = "failed"
    /\ op[o].retry < MaxRefundRetries
    /\ op' = [op EXCEPT ![o] = [NewRow(@.amount) EXCEPT !.retry = op[o].retry + 1]]
    /\ UNCHANGED <<status, slots, requests, launching, fund, obligated, accepted, cancelled, entry, ctx, provider>>

-----------------------------------------------------------------------------
(* process(): claim, call, record.                                          *)

\* Faulty: an operation left in processing by a crash is not picked up again.
Due_NotProcessing(o) == op[o].state \in {"pending", "provider_pending"} /\ LeaseFree(o)

Due(o) == op[o].state \in {"pending", "processing", "provider_pending"} /\ LeaseFree(o)

\* Faulty: an unknown outcome is retried however old it is.
Overdue_Never(o) == FALSE

Overdue(o) == op[o].attempted /\ op[o].provider = 0 /\ op[o].aged

\* Recorded refunds, the expectedRefundCents frozen into args at the claim.
RecordedRefunds ==
    Cardinality({c \in Creators : entry[Cancel(c)] # 0})
      + (IF entry[Unused] # 0 THEN op[Unused].amount ELSE 0)

\* charge.amount_refunded: the live refunds of this flow, and anybody else's.
RefundedAtProvider ==
    Cardinality(UNION {{c} \X LiveObjects(Cancel(c)) : c \in Creators})
      + op[Unused].amount * Cardinality(LiveObjects(Unused))
      + (IF hold = "refunded" THEN 1 ELSE 0)

\* 23 hours after a first attempt whose outcome is unknown, no further attempt is made.
StopForReview(o) ==
    /\ Due(o) /\ Overdue(o)
    /\ op' = [op EXCEPT ![o] = [@ EXCEPT !.state = "review"]]
    /\ UNCHANGED <<status, slots, requests, launching, fund, obligated, accepted, cancelled, entry, ctx, provider>>

(* What the claim demands of the fund and, for a release, of the obligation.*)
(* The destination is looked up once: payable says whether the creator's    *)
(* payout setup is complete at that moment.                                 *)
Claimable(o, payable) ==
    o # Deposit =>
        /\ Captured
        /\ fund.state \in {"funded", "closed"}
        /\ o \in Releases =>
              /\ o[2] \in accepted
              /\ op[o].amount = 1
              /\ op[o].attempted \/ payable

\* The claim transaction: the row is leased and the arguments are frozen.
Claim(w, o) ==
    /\ ctx[w].pc = "idle"
    /\ Due(o) /\ ~Overdue(o)
    /\ Claimable(o, TRUE)
    /\ op' = [op EXCEPT ![o] = [@ EXCEPT !.state = "processing", !.attempted = TRUE,
                                       !.lease = w, !.expired = FALSE]]
    /\ ctx' = [ctx EXCEPT ![w] =
                 [Idle EXCEPT !.pc = IF o = Deposit THEN "call" ELSE "verify",
                              !.op = o, !.prepared = TRUE,
                              !.provider = op[o].provider, !.retry = op[o].retry,
                              !.expected = IF o \in Releases THEN RecordedRefunds ELSE 0,
                              !.clean = (hold = "none")]]
    /\ UNCHANGED <<status, slots, requests, launching, fund, obligated, accepted, cancelled, entry, provider>>

\* The claim transaction throws and rolls back.
ClaimThrows(w, o) ==
    /\ ctx[w].pc = "idle"
    /\ Due(o) /\ ~Overdue(o)
    /\ ~Claimable(o, FALSE)
    /\ ctx' = [ctx EXCEPT ![w] = [Idle EXCEPT !.pc = "catch", !.op = o]]
    /\ UNCHANGED <<rows, provider>>

\* Faulty: refunds of the charge are not compared with the ledger.
VerifyCharge_NoRefundCheck(w) ==
    /\ ctx[w].pc = "verify"
    /\ ctx' = [ctx EXCEPT ![w] = [@ EXCEPT !.pc = IF hold # "disputed" THEN "call" ELSE "catch"]]
    /\ UNCHANGED <<rows, provider>>

\* gateway.execute, the charge it retrieves before a release or a refund.
VerifyCharge(w) ==
    /\ ctx[w].pc = "verify"
    /\ LET ok == /\ hold # "disputed"
                 /\ ctx[w].op \in Releases => RefundedAtProvider = ctx[w].expected
       IN  ctx' = [ctx EXCEPT ![w] = [@ EXCEPT !.pc = IF ok THEN "call" ELSE "catch"]]
    /\ UNCHANGED <<rows, provider>>

\* The answer about object i with status s, as gateway.execute hands it to process().
Answer(w, i, s) ==
    ctx' = [ctx EXCEPT ![w] =
              IF s = "failed" THEN [@ EXCEPT !.pc = "catch"]
              ELSE [@ EXCEPT !.pc = "record", !.result = i, !.pending = (s = "pending")]]

Creates(w) == ctx[w].provider = 0 \/ ctx[w].op \in Releases

RetrieveObject(w) ==
    /\ ctx[w].pc = "call"
    /\ ~Creates(w)
    /\ Answer(w, ctx[w].provider, objects[ctx[w].op][ctx[w].provider].status)
    /\ UNCHANGED <<rows, provider>>

\* Faulty: every call is sent under a key of its own.
CallProvider_FreshKey(w, s) ==
    /\ ctx[w].pc = "call"
    /\ Creates(w)
    /\ s \in BornStatus(ctx[w].op)
    /\ CreateObject(ctx[w].op, Cardinality(keys[ctx[w].op]), s)
    /\ Answer(w, Len(objects[ctx[w].op]) + 1, s)
    /\ UNCHANGED rows

CallProvider(w, s) ==
    /\ ctx[w].pc = "call"
    /\ Creates(w)
    /\ s \in BornStatus(ctx[w].op)
    /\ CreateObject(ctx[w].op, ctx[w].retry, s)
    /\ Answer(w, Len(objects[ctx[w].op]) + 1, s)
    /\ UNCHANGED rows

ReplayCall(w) ==
    /\ ctx[w].pc = "call"
    /\ Creates(w)
    /\ ctx[w].retry \in keys[ctx[w].op]
    /\ \E i \in LatestMadeWith(ctx[w].op, ctx[w].retry) :
         \E s \in ReplayedStatus(ctx[w].op, i) : Answer(w, i, s)
    /\ UNCHANGED <<rows, provider>>

(* Any throw after the claim: the provider is unreachable, its answer is    *)
(* lost, or the recording transaction fails and rolls back.                 *)
CallFails(w) ==
    /\ ctx[w].pc \in {"verify", "call", "record"}
    /\ ctx' = [ctx EXCEPT ![w] = [@ EXCEPT !.pc = "catch"]]
    /\ UNCHANGED <<rows, provider>>

\* Faulty: a pending answer is recorded as a movement.
Record_Pending(w) ==
    /\ ctx[w].pc = "record"
    /\ LET o == ctx[w].op
       IN  IF op[o].state = "succeeded"
           THEN UNCHANGED <<entry, fund, op>>
           ELSE RecordMovement(o, ctx[w].result)
    /\ ctx' = [ctx EXCEPT ![w] = Idle]
    /\ UNCHANGED <<status, slots, requests, launching, obligated, accepted, cancelled, provider>>

\* Faulty: an operation that has succeeded is recorded again.
Record_Again(w) ==
    /\ ctx[w].pc = "record"
    /\ RecordMovement(ctx[w].op, ctx[w].result)
    /\ ctx' = [ctx EXCEPT ![w] = Idle]
    /\ UNCHANGED <<status, slots, requests, launching, obligated, accepted, cancelled, provider>>

\* The recording transaction.  It checks that the operation has not succeeded, and nothing else.
Record(w) ==
    /\ ctx[w].pc = "record"
    /\ LET o == ctx[w].op
       IN  IF op[o].state = "succeeded"
           THEN UNCHANGED <<entry, fund, op>>
           ELSE IF ctx[w].pending
           THEN /\ op' = [op EXCEPT ![o] = [@ EXCEPT !.state = "provider_pending",
                                                   !.provider = ctx[w].result,
                                                   !.lease = NoLease, !.expired = FALSE]]
                /\ UNCHANGED <<entry, fund>>
           ELSE RecordMovement(o, ctx[w].result)
    /\ ctx' = [ctx EXCEPT ![w] = Idle]
    /\ UNCHANGED <<status, slots, requests, launching, obligated, accepted, cancelled, provider>>

(* The catch clause: only the call that still holds the lease, or one that  *)
(* never claimed while nobody holds it, puts the operation back.            *)
Catch(w) ==
    /\ ctx[w].pc = "catch"
    /\ LET o == ctx[w].op
           fenced == IF ctx[w].prepared THEN op[o].lease = w ELSE LeaseFree(o)
       IN  op' = IF op[o].state \notin {"succeeded", "review"} /\ fenced
                 THEN [op EXCEPT ![o] = [@ EXCEPT
                                    !.state = IF op[o].state = "provider_pending"
                                              THEN "provider_pending" ELSE "pending",
                                    !.lease = NoLease, !.expired = FALSE]]
                 ELSE op
    /\ ctx' = [ctx EXCEPT ![w] = Idle]
    /\ UNCHANGED <<status, slots, requests, launching, fund, obligated, accepted, cancelled, entry, provider>>

-----------------------------------------------------------------------------
(* Crashes and time.                                                        *)

\* The API instance dies: the local variables are lost, the rows stay.
Crash(w) ==
    /\ ctx[w].pc # "idle"
    /\ ctx' = [ctx EXCEPT ![w] = Idle]
    /\ UNCHANGED <<rows, provider>>

Holds(w, o) == ctx[w].prepared /\ ctx[w].op = o

LeaseExpires(o) ==
    /\ op[o].lease # NoLease
    /\ ~op[o].expired
    /\ LeaseMargin => \A w \in Workers : ~Holds(w, o)
    /\ op' = [op EXCEPT ![o] = [@ EXCEPT !.expired = TRUE]]
    /\ UNCHANGED <<status, slots, requests, launching, fund, obligated, accepted, cancelled, entry, ctx, provider>>

(* 23 hours pass since first_attempt_at.  While a call holds the operation  *)
(* or its provider_id is known nothing depends on the age, so the step may  *)
(* as well come later.                                                      *)
Ages(o) ==
    /\ op[o].attempted /\ ~op[o].aged
    /\ op[o].provider = 0
    /\ \A w \in Workers : ~Holds(w, o)
    /\ op' = [op EXCEPT ![o] = [@ EXCEPT !.aged = TRUE]]
    /\ UNCHANGED <<status, slots, requests, launching, fund, obligated, accepted, cancelled, entry, ctx, provider>>

(* The provider forgets a key 24 hours after its first use, so after the    *)
(* operation aged; no call is stalled for the hour in between.              *)
KeyExpires(o) ==
    /\ op[o].aged
    /\ \A w \in Workers : ~Holds(w, o)
    /\ ForgetKey(o, op[o].retry)
    /\ UNCHANGED <<rows, ctx>>

ProviderSettles(o, i, s) == Settle(o, i, s) /\ UNCHANGED <<rows, ctx>>
ChargeHeld(h) == HoldCharge(h) /\ UNCHANGED <<rows, ctx>>

-----------------------------------------------------------------------------
Call(w) == RetrieveObject(w) \/ ReplayCall(w) \/ \E s \in ObjectStatus : CallProvider(w, s)

Process(w) ==
    \/ \E o \in Op : Claim(w, o) \/ ClaimThrows(w, o)
    \/ VerifyCharge(w) \/ Call(w) \/ CallFails(w)
    \/ Record(w) \/ Catch(w)

Requests ==
    \/ \E n \in 1 .. MaxSlots : EditTerms(n) \/ OpenDeposit(n)
    \/ RequestDeposit \/ BeforeSave \/ Launch \/ Pause \/ Complete
    \/ \E c \in Creators : AdmitCreator(c) \/ AcceptWork(c) \/ CancelObligation(c)
    \/ \E o \in Op : \/ RecoverRetryRefund(o)
                     \/ \E i \in 1 .. MaxObjects : RecoverVerified(o, i)

Environment ==
    \/ \E w \in Workers : Crash(w)
    \/ \E o \in Op :
         \/ StopForReview(o) \/ LeaseExpires(o) \/ Ages(o) \/ KeyExpires(o)
         \/ \E i \in 1 .. MaxObjects, s \in ObjectStatus : ProviderSettles(o, i, s)
    \/ \E h \in ChargeHolds : ChargeHeld(h)

Next == Requests \/ Environment \/ \E w \in Workers : Process(w)

Spec == Init /\ [][Next]_vars

\* What a call does when nothing fails it.
GoesOn(w) == VerifyCharge(w) \/ Call(w) \/ Record(w) \/ Catch(w)

(* The tick comes every 30 seconds, takes the ten oldest operations that    *)
(* are due, and a failed attempt puts the next one off: so each release is  *)
(* claimed again and again, and at last with the creator's payout setup     *)
(* complete; a call goes on to its end; leases expire and time passes;      *)
(* outages and crashes come to an end.  Nothing makes the owner, an         *)
(* operator or the payer act, and no refund needs to settle.                *)
Fairness ==
    /\ \A o \in Releases :
         /\ SF_vars(\E w \in Workers : Claim(w, o)) /\ WF_vars(StopForReview(o))
         /\ WF_vars(LeaseExpires(o)) /\ SF_vars(Ages(o))
    /\ \A w \in Workers : WF_vars(GoesOn(w))
    /\ <>[][\A w \in Workers : CallFails(w) \/ Crash(w) => GoesOn(w)]_vars

FairSpec == Spec /\ Fairness

-----------------------------------------------------------------------------
Amount == 0 .. MaxSlots

Row == [state : OpState, amount : Amount, lease : Workers \cup {NoLease},
        expired : BOOLEAN, attempted : BOOLEAN, aged : BOOLEAN,
        provider : Nat, retry : Nat]

Locals == [pc : {"idle", "verify", "call", "record", "catch"}, op : Op, prepared : BOOLEAN,
         provider : Nat, retry : Nat, expected : Nat, result : Nat,
         pending : BOOLEAN, clean : BOOLEAN]

\* The shape of the rows, of the calls and of the provider's objects.
TypeOK ==
    /\ status \in CampaignStatus
    /\ slots \in 1 .. MaxSlots
    /\ requests \subseteq 1 .. MaxSlots /\ launching \in BOOLEAN
    /\ fund \in [state : FundState, slots : Amount, charge : Nat]
    /\ obligated \subseteq Creators
    /\ accepted \subseteq Creators
    /\ cancelled \subseteq Creators
    /\ op \in [Op -> Row]
    /\ entry \in [Op -> Nat]
    /\ ctx \in [Workers -> Locals]
    /\ objects \in [Op -> Seq(Object)]
    /\ keys \in [Op -> SUBSET Nat]
    /\ hold \in {"none", "disputed", "refunded"}

Deposited == IF entry[Deposit] # 0 THEN op[Deposit].amount ELSE 0
Released == Cardinality({c \in Creators : entry[Release(c)] # 0})

(* No sequence of admissions, acceptances, cancellations, a closure and     *)
(* their provider answers records more money released and refunded than the *)
(* deposit recorded (heldCents of status() is never negative).              *)
LedgerSolvent == Released + RecordedRefunds <= Deposited

(* What the ledger records as moved did move: campaign_fund_entry names a   *)
(* provider object that succeeded.                                          *)
LedgerBacked ==
    \A o \in Op : entry[o] # 0 =>
        /\ entry[o] \in DOMAIN objects[o]
        /\ objects[o][entry[o]].status = "succeeded"

(* However often process() is repeated, crashed or left without an answer,  *)
(* the provider is made to move the money of one operation once.            *)
MovedOnce == \A o \in Op : Cardinality(LiveObjects(o)) <= 1

(* The deposit and each release are made once even when a call of process() *)
(* is stalled past its lease and comes back after another has taken over.   *)
ChargedAndPaidOnce ==
    \A o \in {Deposit} \cup Releases : Cardinality(LiveObjects(o)) <= 1

(* Each refund is made once, stalled calls included: closure refunds each   *)
(* allocated dollar only once (scripts/verify-campaign-funding.mjs).        *)
RefundedOnce == \A o \in Refunds : Cardinality(LiveObjects(o)) <= 1

(* A refund that failed at the provider and stopped for review can be tried *)
(* again by an operator: recover() refuses the retry without a provider_id. *)
FailedRefundRetryable ==
    \A o \in Refunds :
        (op[o].state = "review" /\ objects[o] # << >> /\ LiveObjects(o) = {})
        => op[o].provider # 0

\* No creator's slot is both paid to the creator and refunded to the brand.
PaidOrReturned ==
    \A c \in Creators : LiveObjects(Release(c)) = {} \/ LiveObjects(Cancel(c)) = {}

(* A campaign that is active has its whole deposit captured for the slots   *)
(* it has, whatever happens - a closure, say - between what beforeSave read *)
(* and the save, which the launch trigger checks again.                     *)
ActiveIsFunded ==
    status = "active" =>
        /\ fund.state = "funded"
        /\ fund.slots = slots
        /\ Deposited = slots
        /\ objects[Deposit][fund.charge].status = "succeeded"

(* Whatever edits race the deposit request, the deposit taken is for the    *)
(* slots the campaign has.                                                  *)
DepositMatchesTerms ==
    fund.state # "none" => fund.slots = slots /\ op[Deposit].amount = slots

(* When the campaign is completed, every obligation is decided and every    *)
(* operation has succeeded, nothing of the deposit is left held.            *)
NothingStranded ==
    (/\ fund.state = "closed"
     /\ obligated \subseteq accepted \cup cancelled
     /\ \A o \in Op : op[o].state \in {"absent", "succeeded"})
    => Released + RecordedRefunds = Deposited

(* A closed fund stays closed and a recorded movement stays as recorded,    *)
(* whatever late answer or recovery arrives.                                *)
LedgerOnlyGrows ==
    [][/\ fund.state = "closed" => fund'.state = "closed"
       /\ \A o \in Op : entry[o] # 0 => entry'[o] = entry[o]]_vars

(* A charge disputed or refunded outside the flow before an operation was   *)
(* claimed lets no transfer leave under that claim.                         *)
NoTransferUnderHold ==
    [][\A c \in Creators :
         objects'[Release(c)] # objects[Release(c)] =>
             \E w \in Workers : ctx[w].pc = "call" /\ ctx[w].op = Release(c) /\ ctx[w].clean]_vars

(* Once the brand has accepted a creator's work, the release is made or is  *)
(* handed to an operator, through crashes, lost answers and refunds in      *)
(* flight on the same charge.                                               *)
AcceptedWorkDecided ==
    \A c \in Creators :
        c \in accepted ~> op[Release(c)].state \in {"succeeded", "review"}
=============================================================================
