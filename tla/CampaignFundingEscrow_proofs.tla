--------------------- MODULE CampaignFundingEscrow_proofs ---------------------
(***************************************************************************)
(* Theorems about CampaignFunding and CampaignFundingEscrow for every set  *)
(* of creators, every number of concurrent calls, every capacity and every *)
(* bound: first of the tables, then of what they have to do with the money *)
(* the provider moved, and that the ledger implements BaseEscrow.          *)
(***************************************************************************)
EXTENDS CampaignFundingEscrow, FiniteSetTheorems, SequenceTheorems, TLAPS

\* The operations of one campaign are distinct, one per kind and obligation.
LEMMA Operations ==
    /\ Deposit \in Op /\ Unused \in Op /\ Deposit # Unused
    /\ Deposit \notin Releases /\ Deposit \notin Refunds
    /\ Unused \in Refunds /\ Unused \notin Releases
    /\ \A c \in Creators :
         /\ Release(c) \in Op /\ Release(c) \in Releases /\ Release(c) \notin Refunds
         /\ Cancel(c) \in Op /\ Cancel(c) \in Refunds /\ Cancel(c) \notin Releases
         /\ Release(c) # Deposit /\ Release(c) # Unused
         /\ Cancel(c) # Deposit /\ Cancel(c) # Unused
    /\ \A c, d \in Creators :
         /\ Release(c) # Cancel(d)
         /\ Release(c) = Release(d) => c = d
         /\ Cancel(c) = Cancel(d) => c = d
  BY CreatorsAssumption DEF Op, Deposit, Unused, Release, Cancel, Releases, Refunds

\* Sets of creators have a natural number of members, at most as many as a set around them.
LEMMA CreatorSets ==
    ASSUME NEW S \in SUBSET Creators, NEW T \in SUBSET S
    PROVE  /\ IsFiniteSet(S) /\ IsFiniteSet(T)
           /\ Cardinality(S) \in Nat /\ Cardinality(T) \in Nat
           /\ Cardinality(T) <= Cardinality(S)
  <1>1. IsFiniteSet(S)
    BY CreatorsAssumption, FS_Subset
  <1>2. IsFiniteSet(T) /\ Cardinality(T) <= Cardinality(S)
    BY <1>1, FS_Subset
  <1> QED
    BY <1>1, <1>2, FS_CardinalityType

LEMMA RecordedRefundsType == TypeOK => RecordedRefunds \in Nat
  <1> SUFFICES ASSUME TypeOK PROVE RecordedRefunds \in Nat
    OBVIOUS
  <1>1. Cardinality({c \in Creators : entry[Cancel(c)] # 0}) \in Nat
    BY CreatorSets
  <1>2. op[Unused].amount \in Nat
    BY Operations, SlotsAssumption DEF TypeOK, Row, Amount
  <1> QED
    BY <1>1, <1>2 DEF RecordedRefunds
-----------------------------------------------------------------------------
(* The inductive invariant.  LedgerSolvent alone does not survive a step:   *)
(* that one more movement fits depends on where operations come from (an    *)
(* accepted or a cancelled obligation, or closure), on no obligation being  *)
(* both, on the obligations fitting the slots, on closure having frozen     *)
(* them, and on an operation being recorded only after it was queued.       *)

Obligations ==
    /\ accepted \cap cancelled = {}
    /\ accepted \subseteq obligated /\ cancelled \subseteq obligated
    /\ Cardinality(obligated) <= slots

FundOfCampaign ==
    /\ fund.state = "none" <=> op[Deposit].state = "absent"
    /\ fund.state # "none" => fund.slots = slots /\ op[Deposit].amount = slots
    /\ fund.state \in {"funded", "closed"} => entry[Deposit] # 0
    /\ obligated # {} => fund.state \in {"funded", "closed"}

Queued ==
    /\ \A c \in Creators : op[Release(c)].state # "absent" => c \in accepted
    /\ \A c \in Creators : op[Cancel(c)].state # "absent" => c \in cancelled
    /\ op[Unused].state # "absent" =>
          fund.state = "closed" /\ op[Unused].amount + Cardinality(obligated) <= slots

Recorded == \A o \in Op : entry[o] # 0 => op[o].state = "succeeded"

InFlight ==
    \A w \in Workers :
        /\ ctx[w].pc # "idle" => op[ctx[w].op].state # "absent"
        /\ ctx[w].pc = "record" => ctx[w].result # 0

IInv == TypeOK /\ Obligations /\ FundOfCampaign /\ Queued /\ Recorded /\ InFlight

\* The empty tables satisfy the invariant.
LEMMA Initially == Init => IInv
  <1> SUFFICES ASSUME Init PROVE IInv
    OBVIOUS
  <1> USE Operations, SlotsAssumption DEF Init, ProviderInit, NoFund, NoRow, Idle
  <1>1. TypeOK
    <2>1. op \in [Op -> Row] /\ ctx \in [Workers -> Locals]
      BY DEF Row, Locals, Amount, OpState
    <2>2. /\ status \in CampaignStatus /\ slots \in 1..MaxSlots
          /\ requests \subseteq 1..MaxSlots /\ launching \in BOOLEAN
          /\ obligated \subseteq Creators /\ accepted \subseteq Creators
          /\ cancelled \subseteq Creators
      BY DEF CampaignStatus
    <2>3. fund \in [state : FundState, slots : Amount, charge : Nat]
      BY DEF FundState, Amount
    <2>4. /\ entry \in [Op -> Nat] /\ objects \in [Op -> Seq(Object)]
          /\ keys \in [Op -> SUBSET Nat] /\ hold \in {"none", "disputed", "refunded"}
      OBVIOUS
    <2> QED
      BY <2>1, <2>2, <2>3, <2>4 DEF TypeOK
  <1>2. Obligations
    BY FS_EmptySet DEF Obligations
  <1>3. FundOfCampaign /\ Queued /\ Recorded /\ InFlight
    BY DEF FundOfCampaign, Queued, Recorded, InFlight
  <1> QED
    BY <1>1, <1>2, <1>3 DEF IInv
-----------------------------------------------------------------------------
(* One row or one call changes at a time; these lemmas say what that leaves *)
(* of the invariant, so that a step is left with what it really touches.    *)

LEMMA Fields ==
    ASSUME TypeOK
    PROVE  /\ \A o \in Op : op[o] \in Row
           /\ \A w \in Workers : ctx[w] \in Locals /\ ctx[w].op \in Op
           /\ \A o \in Op : objects[o] \in Seq(Object)
  BY DEF TypeOK, Locals

LEMMA NewRows ==
    ASSUME NEW n \in Amount
    PROVE  NewRow(n) \in Row /\ NewRow(n).state = "pending" /\ NewRow(n).amount = n
  BY SlotsAssumption DEF NewRow, NoRow, Row, OpState, Amount

\* A step that queues nothing, forgets nothing and unrecords nothing.
OperationsKept ==
    \A p \in Op :
        /\ op'[p].state = "absent" <=> op[p].state = "absent"
        /\ op'[p].amount = op[p].amount
        /\ op[p].state = "succeeded" => op'[p].state = "succeeded"

LEMMA RowChange ==
    ASSUME TypeOK, NEW o \in Op, NEW r \in Row, op' = [op EXCEPT ![o] = r]
    PROVE  /\ op' \in [Op -> Row]
           /\ op'[o] = r
           /\ \A p \in Op : p # o => op'[p] = op[p]
  BY DEF TypeOK

LEMMA RowKept ==
    ASSUME TypeOK, NEW o \in Op, NEW r \in Row, op' = [op EXCEPT ![o] = r],
           r.state = "absent" <=> op[o].state = "absent",
           r.amount = op[o].amount,
           op[o].state = "succeeded" => r.state = "succeeded"
    PROVE  op' \in [Op -> Row] /\ OperationsKept
  BY RowChange DEF OperationsKept

\* The ledger's part of the invariant follows the operations.
LEMMA LedgerKept ==
    ASSUME IInv, OperationsKept,
           UNCHANGED <<slots, fund, obligated, accepted, cancelled, entry>>
    PROVE  Obligations' /\ FundOfCampaign' /\ Queued' /\ Recorded'
  <1>1. Obligations'
    BY DEF IInv, Obligations
  <1>2. FundOfCampaign'
    BY Operations DEF IInv, FundOfCampaign, OperationsKept
  <1>3. Queued'
    BY Operations DEF IInv, Queued, OperationsKept
  <1>4. Recorded'
    BY DEF IInv, Recorded, OperationsKept
  <1> QED
    BY <1>1, <1>2, <1>3, <1>4

LEMMA RowsUnchanged ==
    ASSUME IInv, UNCHANGED <<slots, fund, obligated, accepted, cancelled, op, entry>>
    PROVE  Obligations' /\ FundOfCampaign' /\ Queued' /\ Recorded'
  BY LedgerKept DEF OperationsKept

LEMMA CallsUnchanged ==
    ASSUME IInv, UNCHANGED ctx,
           \A p \in Op : op'[p].state = "absent" => op[p].state = "absent"
    PROVE  InFlight'
  BY Fields DEF IInv, InFlight

LEMMA CallChange ==
    ASSUME IInv, NEW w \in Workers, NEW c \in Locals, ctx' = [ctx EXCEPT ![w] = c],
           \A p \in Op : op'[p].state = "absent" => op[p].state = "absent",
           c.pc # "idle" => op'[c.op].state # "absent",
           c.pc = "record" => c.result # 0
    PROVE  ctx' \in [Workers -> Locals] /\ InFlight'
  <1>1. /\ ctx' \in [Workers -> Locals] /\ ctx'[w] = c
        /\ \A v \in Workers : v # w => ctx'[v] = ctx[v]
    BY DEF IInv, TypeOK
  <1>2. InFlight'
    BY <1>1, Fields DEF IInv, InFlight
  <1> QED
    BY <1>1, <1>2

LEMMA CallEnds == Idle \in Locals /\ Idle.pc = "idle"
  BY Operations DEF Idle, Locals

\* A movement is recorded for an operation that was queued and is not recorded yet.
LEMMA Movement ==
    ASSUME IInv, NEW o \in Op, NEW i \in Nat \ {0}, RecordMovement(o, i),
           op[o].state \notin {"absent", "succeeded"},
           UNCHANGED <<slots, obligated, accepted, cancelled>>
    PROVE  /\ op' \in [Op -> Row] /\ entry' \in [Op -> Nat]
           /\ fund' \in [state : FundState, slots : Amount, charge : Nat]
           /\ Obligations' /\ FundOfCampaign' /\ Queued' /\ Recorded'
           /\ \A p \in Op : op'[p].state = "absent" => op[p].state = "absent"
  <1> DEFINE r == [op[o] EXCEPT !.state = "succeeded", !.provider = i,
                                !.lease = NoLease, !.expired = FALSE]
  <1>1. r \in Row /\ r.state = "succeeded" /\ r.amount = op[o].amount
    BY Fields DEF IInv, Row, OpState
  <1>2. op' = [op EXCEPT ![o] = r]
    BY DEF RecordMovement
  <1> HIDE DEF r
  <1>3. op' \in [Op -> Row] /\ OperationsKept
    BY <1>1, <1>2, RowKept DEF IInv
  <1>4. op'[o].state = "succeeded"
    BY <1>1, <1>2, RowChange DEF IInv
  <1>5. /\ entry' \in [Op -> Nat]
        /\ \A p \in Op : p # o => entry'[p] = entry[p]
        /\ entry'[o] # 0
    BY DEF IInv, TypeOK, RecordMovement
  <1>6. /\ fund' \in [state : FundState, slots : Amount, charge : Nat]
        /\ o # Deposit => fund' = fund
        /\ o = Deposit => fund'.state = "funded" /\ fund'.slots = fund.slots
    BY DEF IInv, TypeOK, RecordMovement, FundState
  <1>7. o = Deposit => fund.state = "awaiting_deposit"
    BY DEF IInv, TypeOK, FundState, FundOfCampaign, Recorded
  <1>8. Obligations'
    BY DEF IInv, Obligations
  <1>9. FundOfCampaign'
    BY <1>3, <1>5, <1>6, <1>7, Operations DEF IInv, FundOfCampaign, OperationsKept
  <1>10. Queued'
    BY <1>3, <1>6, <1>7, Operations DEF IInv, Queued, OperationsKept
  <1>11. Recorded'
    BY <1>3, <1>4, <1>5 DEF IInv, Recorded, OperationsKept
  <1> QED
    BY <1>3, <1>5, <1>6, <1>8, <1>9, <1>10, <1>11 DEF OperationsKept
-----------------------------------------------------------------------------
(* The campaign's own life and its requests.                                *)

LEMMA EditTermsStep ==
    ASSUME IInv, NEW n \in 1 .. MaxSlots, EditTerms(n)
    PROVE  IInv'
  <1> USE DEF EditTerms, provider
  <1>1. TypeOK'
    BY DEF IInv, TypeOK
  <1>2. fund.state = "none" /\ obligated = {}
    BY DEF IInv, FundOfCampaign
  <1>3. Cardinality(obligated) = 0
    BY <1>2, FS_EmptySet
  <1>4. Obligations'
    BY <1>3 DEF IInv, Obligations
  <1>5. FundOfCampaign'
    BY <1>2 DEF IInv, FundOfCampaign
  <1>6. Queued'
    BY <1>2 DEF IInv, Queued
  <1>7. Recorded' /\ InFlight'
    BY DEF IInv, Recorded, InFlight
  <1> QED
    BY <1>1, <1>4, <1>5, <1>6, <1>7 DEF IInv

LEMMA LaunchStep ==
    ASSUME IInv, BeforeSave \/ Launch \/ Pause
    PROVE  IInv'
  <1> USE DEF BeforeSave, Launch, FundedLaunch, Pause, provider
  <1>1. TypeOK'
    BY DEF IInv, TypeOK, CampaignStatus
  <1>2. InFlight'
    BY CallsUnchanged
  <1> QED
    BY <1>1, <1>2, RowsUnchanged DEF IInv

LEMMA CompleteStep ==
    ASSUME IInv, Complete
    PROVE  IInv'
  <1> USE DEF Complete, CloseFund, provider
  <1>1. CASE fund.state # "funded"
    <2>1. TypeOK'
      BY <1>1 DEF IInv, TypeOK, CampaignStatus
    <2>2. InFlight'
      BY <1>1, CallsUnchanged
    <2> QED
      BY <1>1, <2>1, <2>2, RowsUnchanged DEF IInv
  <1>2. CASE fund.state = "funded"
    <2> DEFINE r == IF UnusedSlots > 0 THEN NewRow(UnusedSlots) ELSE op[Unused]
    <2>1. Cardinality(obligated) \in Nat /\ Cardinality(obligated) <= slots /\ slots \in 1 .. MaxSlots
      BY CreatorSets DEF IInv, TypeOK, Obligations
    <2>2. UnusedSlots \in Amount /\ UnusedSlots + Cardinality(obligated) = slots
      BY <2>1, SlotsAssumption DEF UnusedSlots, Amount
    <2>3. op[Unused].state = "absent"
      BY <1>2 DEF IInv, Queued
    <2>4. /\ r \in Row
          /\ r.state # "absent" => r.amount = UnusedSlots
      BY <2>2, <2>3, NewRows, Fields, Operations DEF IInv
    <2>5. op' = [op EXCEPT ![Unused] = r]
      BY <1>2, Operations DEF IInv, TypeOK
    <2> HIDE DEF r
    <2>6. /\ op' \in [Op -> Row] /\ op'[Unused] = r
          /\ \A p \in Op : p # Unused => op'[p] = op[p]
      BY <2>4, <2>5, RowChange, Operations DEF IInv
    <2>7. /\ fund' \in [state : FundState, slots : Amount, charge : Nat]
          /\ fund'.state = "closed" /\ fund'.slots = fund.slots
      BY <1>2 DEF IInv, TypeOK, FundState
    <2>8. TypeOK'
      BY <2>6, <2>7 DEF IInv, TypeOK, CampaignStatus
    <2>9. Obligations'
      BY DEF IInv, Obligations
    <2>10. FundOfCampaign'
      BY <1>2, <2>6, <2>7, Operations DEF IInv, FundOfCampaign
    <2>11. Queued'
      BY <2>1, <2>2, <2>4, <2>6, <2>7, Operations DEF IInv, Queued
    <2>12. Recorded'
      BY <2>3, <2>6 DEF IInv, Recorded
    <2>13. \A p \in Op : op'[p].state = "absent" => op[p].state = "absent"
      BY <2>3, <2>6
    <2>14. InFlight'
      BY <2>13, CallsUnchanged
    <2> QED
      BY <2>8, <2>9, <2>10, <2>11, <2>12, <2>14 DEF IInv
  <1> QED
    BY <1>1, <1>2

LEMMA AdmitStep ==
    ASSUME IInv, NEW c \in Creators, AdmitCreator(c)
    PROVE  IInv'
  <1> USE DEF AdmitCreator, provider
  <1>1. TypeOK'
    BY DEF IInv, TypeOK
  <1>2. /\ Cardinality(obligated) \in Nat
        /\ Cardinality(obligated') = Cardinality(obligated) + 1
    BY CreatorSets, FS_AddElement DEF IInv, TypeOK
  <1>3. Obligations'
    BY <1>2 DEF IInv, TypeOK, Obligations
  <1>4. FundOfCampaign' /\ Queued'
    BY DEF IInv, FundOfCampaign, Queued
  <1>5. Recorded' /\ InFlight'
    BY DEF IInv, Recorded, InFlight
  <1> QED
    BY <1>1, <1>3, <1>4, <1>5 DEF IInv

LEMMA RequestDepositStep ==
    ASSUME IInv, RequestDeposit
    PROVE  IInv'
  <1> USE DEF RequestDeposit, provider
  <1>1. TypeOK'
    BY DEF IInv, TypeOK
  <1>2. InFlight'
    BY CallsUnchanged
  <1> QED
    BY <1>1, <1>2, RowsUnchanged DEF IInv

LEMMA OpenDepositStep ==
    ASSUME IInv, NEW n \in 1 .. MaxSlots, OpenDeposit(n)
    PROVE  IInv'
  <1> USE DEF OpenDeposit, provider
  <1>1. CASE ~(status = "draft" /\ slots = n /\ op[Deposit].state = "absent")
    <2>1. TypeOK'
      BY <1>1 DEF IInv, TypeOK
    <2>2. InFlight'
      BY <1>1, CallsUnchanged
    <2> QED
      BY <1>1, <2>1, <2>2, RowsUnchanged DEF IInv
  <1>2. CASE status = "draft" /\ slots = n /\ op[Deposit].state = "absent"
    <2>1. n \in Amount
      BY SlotsAssumption DEF Amount
    <2>2. op' = [op EXCEPT ![Deposit] = NewRow(n)]
      BY <1>2
    <2>3. /\ op' \in [Op -> Row]
          /\ op'[Deposit].state = "pending" /\ op'[Deposit].amount = n
          /\ \A p \in Op : p # Deposit => op'[p] = op[p]
      BY <2>1, <2>2, NewRows, RowChange, Operations DEF IInv
    <2>4. fund' = [state |-> "awaiting_deposit", slots |-> n, charge |-> 0]
      BY <1>2
    <2>5. fund.state = "none" /\ obligated = {}
      BY <1>2 DEF IInv, FundOfCampaign
    <2>6. TypeOK'
      BY <2>1, <2>3, <2>4 DEF IInv, TypeOK, FundState
    <2>7. Obligations'
      BY DEF IInv, Obligations
    <2>8. FundOfCampaign'
      BY <1>2, <2>3, <2>4, <2>5 DEF FundOfCampaign
    <2>9. Queued'
      BY <2>3, <2>5, Operations DEF IInv, Queued
    <2>10. Recorded'
      BY <1>2, <2>3 DEF IInv, Recorded
    <2>11. \A p \in Op : op'[p].state = "absent" => op[p].state = "absent"
      BY <2>3
    <2>12. InFlight'
      BY <2>11, CallsUnchanged
    <2> QED
      BY <2>6, <2>7, <2>8, <2>9, <2>10, <2>12 DEF IInv
  <1> QED
    BY <1>1, <1>2

LEMMA AcceptWorkStep ==
    ASSUME IInv, NEW c \in Creators, AcceptWork(c)
    PROVE  IInv'
  <1> USE DEF AcceptWork, provider
  <1> DEFINE r == IF op[Release(c)].state = "absent" THEN NewRow(1) ELSE op[Release(c)]
  <1>1. 1 \in Amount
    BY SlotsAssumption DEF Amount
  <1>2. r \in Row /\ r.state # "absent"
    BY <1>1, NewRows, Fields, Operations DEF IInv
  <1>3. op' = [op EXCEPT ![Release(c)] = r]
    BY Operations DEF IInv, TypeOK
  <1>4. op[Release(c)].state # "absent" => r = op[Release(c)]
    OBVIOUS
  <1> HIDE DEF r
  <1>5. /\ op' \in [Op -> Row] /\ op'[Release(c)] = r
        /\ \A p \in Op : p # Release(c) => op'[p] = op[p]
    BY <1>2, <1>3, RowChange, Operations DEF IInv
  <1>6. TypeOK'
    BY <1>5 DEF IInv, TypeOK
  <1>7. Obligations'
    BY DEF IInv, Obligations
  <1>8. FundOfCampaign'
    BY <1>5, Operations DEF IInv, FundOfCampaign
  <1>9. Queued'
    BY <1>5, Operations DEF IInv, Queued
  <1>10. Recorded'
    BY <1>4, <1>5 DEF IInv, Recorded
  <1>11. \A p \in Op : op'[p].state = "absent" => op[p].state = "absent"
    BY <1>2, <1>5
  <1>12. InFlight'
    BY <1>11, CallsUnchanged
  <1> QED
    BY <1>6, <1>7, <1>8, <1>9, <1>10, <1>12 DEF IInv

LEMMA CancelObligationStep ==
    ASSUME IInv, NEW c \in Creators, CancelObligation(c)
    PROVE  IInv'
  <1> USE DEF CancelObligation, provider
  <1>1. 1 \in Amount
    BY SlotsAssumption DEF Amount
  <1>2. /\ op' \in [Op -> Row] /\ op'[Cancel(c)].state = "pending"
        /\ \A p \in Op : p # Cancel(c) => op'[p] = op[p]
    BY <1>1, NewRows, RowChange, Operations DEF IInv
  <1>3. TypeOK'
    BY <1>2 DEF IInv, TypeOK
  <1>4. Obligations'
    BY DEF IInv, Obligations
  <1>5. FundOfCampaign'
    BY <1>2, Operations DEF IInv, FundOfCampaign
  <1>6. Queued'
    BY <1>2, Operations DEF IInv, Queued
  <1>7. Recorded'
    BY <1>2, Operations DEF IInv, Recorded
  <1>8. \A p \in Op : op'[p].state = "absent" => op[p].state = "absent"
    BY <1>2
  <1>9. InFlight'
    BY <1>8, CallsUnchanged
  <1> QED
    BY <1>3, <1>4, <1>5, <1>6, <1>7, <1>9 DEF IInv

LEMMA RecoverVerifiedStep ==
    ASSUME IInv, NEW o \in Op, NEW i \in 1 .. MaxObjects, RecoverVerified(o, i)
    PROVE  IInv'
  <1> USE DEF RecoverVerified, provider
  <1>1. i \in Nat \ {0}
    BY MaxObjectsAssumption
  <1>2. /\ op' \in [Op -> Row] /\ entry' \in [Op -> Nat]
        /\ fund' \in [state : FundState, slots : Amount, charge : Nat]
        /\ Obligations' /\ FundOfCampaign' /\ Queued' /\ Recorded'
        /\ \A p \in Op : op'[p].state = "absent" => op[p].state = "absent"
    BY <1>1, Movement
  <1>3. TypeOK'
    BY <1>2 DEF IInv, TypeOK
  <1>4. InFlight'
    BY <1>2, CallsUnchanged
  <1> QED
    BY <1>2, <1>3, <1>4 DEF IInv

\* A row changes and nothing is queued, recorded or taken back.
LEMMA RowOnlyStep ==
    ASSUME IInv, NEW o \in Op, NEW r \in Row, op' = [op EXCEPT ![o] = r],
           r.state = "absent" <=> op[o].state = "absent",
           r.amount = op[o].amount,
           op[o].state = "succeeded" => r.state = "succeeded",
           UNCHANGED <<status, slots, requests, launching, fund, obligated, accepted, cancelled, entry, ctx, provider>>
    PROVE  IInv'
  <1>1. op' \in [Op -> Row] /\ OperationsKept
    BY RowKept DEF IInv
  <1>2. TypeOK'
    BY <1>1 DEF IInv, TypeOK, provider
  <1>3. InFlight'
    BY <1>1, CallsUnchanged DEF OperationsKept
  <1> QED
    BY <1>1, <1>2, <1>3, LedgerKept DEF IInv

LEMMA RecoverRetryRefundStep ==
    ASSUME IInv, NEW o \in Op, RecoverRetryRefund(o)
    PROVE  IInv'
  <1> DEFINE r == [NewRow(op[o].amount) EXCEPT !.retry = op[o].retry + 1]
  <1>1. op[o].amount \in Amount /\ op[o].retry \in Nat
    BY Fields DEF IInv, Row
  <1>2. r \in Row /\ r.state = "pending" /\ r.amount = op[o].amount
    BY <1>1, NewRows DEF Row
  <1>3. op' = [op EXCEPT ![o] = r]
    BY DEF RecoverRetryRefund
  <1> HIDE DEF r
  <1> QED
    BY <1>2, <1>3, RowOnlyStep DEF RecoverRetryRefund
-----------------------------------------------------------------------------
(* process().                                                               *)

LEMMA StopForReviewStep ==
    ASSUME IInv, NEW o \in Op, StopForReview(o)
    PROVE  IInv'
  <1> DEFINE r == [op[o] EXCEPT !.state = "review"]
  <1>1. r \in Row /\ r.state = "review" /\ r.amount = op[o].amount
    BY Fields DEF IInv, Row, OpState
  <1>2. op' = [op EXCEPT ![o] = r]
    BY DEF StopForReview
  <1> HIDE DEF r
  <1> QED
    BY <1>1, <1>2, RowOnlyStep DEF StopForReview, Due

LEMMA ClaimStep ==
    ASSUME IInv, NEW w \in Workers, NEW o \in Op, Claim(w, o)
    PROVE  IInv'
  <1> USE DEF Claim, provider
  <1> DEFINE r == [op[o] EXCEPT !.state = "processing", !.attempted = TRUE,
                                !.lease = w, !.expired = FALSE]
  <1> DEFINE c == [Idle EXCEPT !.pc = IF o = Deposit THEN "call" ELSE "verify",
                               !.op = o, !.prepared = TRUE,
                               !.provider = op[o].provider, !.retry = op[o].retry,
                               !.expected = IF o \in Releases THEN RecordedRefunds ELSE 0,
                               !.clean = (hold = "none")]
  <1>1. op[o] \in Row /\ op[o].provider \in Nat /\ op[o].retry \in Nat
    BY Fields DEF IInv, Row
  <1>2. r \in Row /\ r.state = "processing" /\ r.amount = op[o].amount
    BY <1>1 DEF Row, OpState
  <1>3. (IF o \in Releases THEN RecordedRefunds ELSE 0) \in Nat
    BY RecordedRefundsType DEF IInv
  <1>4. c \in Locals /\ c.op = o /\ c.pc # "record"
    BY <1>1, <1>3, Operations DEF Idle, Locals
  <1>5. op' = [op EXCEPT ![o] = r] /\ ctx' = [ctx EXCEPT ![w] = c]
    OBVIOUS
  <1> HIDE DEF r, c
  <1>6. op[o].state \notin {"absent", "succeeded"}
    BY DEF Due
  <1>7. op' \in [Op -> Row] /\ OperationsKept
    BY <1>2, <1>5, <1>6, RowKept DEF IInv
  <1>8. op'[c.op].state # "absent" /\ \A p \in Op : op'[p].state = "absent" => op[p].state = "absent"
    BY <1>4, <1>6, <1>7 DEF OperationsKept
  <1>9. ctx' \in [Workers -> Locals] /\ InFlight'
    BY <1>4, <1>5, <1>8, CallChange
  <1>10. TypeOK'
    BY <1>7, <1>9 DEF IInv, TypeOK
  <1> QED
    BY <1>7, <1>9, <1>10, LedgerKept DEF IInv

\* One call goes on; the rows stay as they are.
LEMMA CallOnlyStep ==
    ASSUME IInv, NEW w \in Workers, NEW c \in Locals, ctx' = [ctx EXCEPT ![w] = c],
           c.pc # "idle" => op[c.op].state # "absent",
           c.pc = "record" => c.result # 0,
           UNCHANGED <<rows, provider>>
    PROVE  IInv'
  <1> USE DEF rows, provider
  <1>1. ctx' \in [Workers -> Locals] /\ InFlight'
    BY CallChange
  <1>2. TypeOK'
    BY <1>1 DEF IInv, TypeOK
  <1> QED
    BY <1>1, <1>2, RowsUnchanged DEF IInv

LEMMA ClaimThrowsStep ==
    ASSUME IInv, NEW w \in Workers, NEW o \in Op, ClaimThrows(w, o)
    PROVE  IInv'
  <1> DEFINE c == [Idle EXCEPT !.pc = "catch", !.op = o]
  <1>1. c \in Locals /\ c.op = o /\ c.pc = "catch"
    BY Operations DEF Idle, Locals
  <1>2. ctx' = [ctx EXCEPT ![w] = c]
    BY DEF ClaimThrows
  <1> HIDE DEF c
  <1> QED
    BY <1>1, <1>2, CallOnlyStep DEF ClaimThrows, Due

\* The call goes on about the operation it claimed.
LEMMA CallGoesOn ==
    ASSUME IInv, NEW w \in Workers, ctx[w].pc # "idle", NEW q \in {"call", "catch"}
    PROVE  /\ [ctx[w] EXCEPT !.pc = q] \in Locals
           /\ [ctx[w] EXCEPT !.pc = q].pc = q
           /\ op[[ctx[w] EXCEPT !.pc = q].op].state # "absent"
  BY Fields DEF IInv, InFlight, Locals

LEMMA VerifyStep ==
    ASSUME IInv, NEW w \in Workers, VerifyCharge(w) \/ CallFails(w)
    PROVE  IInv'
  <1>1. PICK q \in {"call", "catch"} : ctx' = [ctx EXCEPT ![w] = [ctx[w] EXCEPT !.pc = q]]
    BY DEF VerifyCharge, CallFails
  <1>2. ctx[w].pc # "idle" /\ UNCHANGED <<rows, provider>>
    BY DEF VerifyCharge, CallFails
  <1> DEFINE c == [ctx[w] EXCEPT !.pc = q]
  <1>3. c \in Locals /\ c.pc # "record" /\ op[c.op].state # "absent"
    BY <1>2, CallGoesOn
  <1> HIDE DEF c
  <1> QED
    BY <1>1, <1>2, <1>3, CallOnlyStep DEF c

\* What Answer leaves in the call: an object to record, or a failure to catch.
LEMMA Answered ==
    ASSUME IInv, NEW w \in Workers, NEW i \in Nat \ {0}, NEW s,
           ctx[w].pc = "call", Answer(w, i, s)
    PROVE  \E c \in Locals : /\ ctx' = [ctx EXCEPT ![w] = c]
                             /\ c.pc = "record" => c.result # 0
                             /\ op[c.op].state # "absent"
  <1>1. ctx[w] \in Locals /\ op[ctx[w].op].state # "absent"
    BY Fields DEF IInv, InFlight
  <1>2. CASE s = "failed"
    <2> DEFINE c == [ctx[w] EXCEPT !.pc = "catch"]
    <2>1. c \in Locals /\ c.pc # "record" /\ op[c.op].state # "absent"
      BY <1>1, CallGoesOn
    <2>2. ctx' = [ctx EXCEPT ![w] = c]
      BY <1>2 DEF Answer
    <2> HIDE DEF c
    <2> QED
      BY <2>1, <2>2
  <1>3. CASE s # "failed"
    <2> DEFINE c == [ctx[w] EXCEPT !.pc = "record", !.result = i, !.pending = (s = "pending")]
    <2>1. c \in Locals /\ c.result # 0 /\ op[c.op].state # "absent"
      BY <1>1 DEF Locals
    <2>2. ctx' = [ctx EXCEPT ![w] = c]
      BY <1>3 DEF Answer
    <2> HIDE DEF c
    <2> QED
      BY <2>1, <2>2
  <1> QED
    BY <1>2, <1>3

\* The provider's objects have numbers from 1 and a status.
LEMMA ObjectFields ==
    ASSUME TypeOK, NEW o \in Op, NEW i \in DOMAIN objects[o]
    PROVE  /\ i \in Nat \ {0}
           /\ objects[o][i] \in Object
           /\ objects[o][i].status \in ObjectStatus /\ objects[o][i].born \in ObjectStatus
  <1>1. objects[o] \in Seq(Object)
    BY Fields
  <1>2. i \in 1 .. Len(objects[o]) /\ objects[o][i] \in Object
    BY <1>1
  <1> QED
    BY <1>1, <1>2 DEF Object

LEMMA RetrieveStep ==
    ASSUME IInv, NEW w \in Workers, RetrieveObject(w)
    PROVE  IInv'
  <1>1. ctx[w].provider \in Nat \ {0}
    BY Fields DEF IInv, Locals, RetrieveObject, Creates
  <1>2. \E c \in Locals : /\ ctx' = [ctx EXCEPT ![w] = c]
                          /\ c.pc = "record" => c.result # 0
                          /\ op[c.op].state # "absent"
    BY <1>1, Answered DEF RetrieveObject
  <1> QED
    BY <1>2, CallOnlyStep DEF RetrieveObject

LEMMA ReplayStep ==
    ASSUME IInv, NEW w \in Workers, ReplayCall(w)
    PROVE  IInv'
  <1>1. PICK i \in DOMAIN objects[ctx[w].op] : \E s : Answer(w, i, s)
    BY DEF ReplayCall, LatestMadeWith, MadeWith
  <1>2. i \in Nat \ {0}
    BY ObjectFields, Fields DEF IInv
  <1>3. \E c \in Locals : /\ ctx' = [ctx EXCEPT ![w] = c]
                          /\ c.pc = "record" => c.result # 0
                          /\ op[c.op].state # "absent"
    BY <1>1, <1>2, Answered DEF ReplayCall
  <1> QED
    BY <1>3, CallOnlyStep DEF ReplayCall

LEMMA CreateStep ==
    ASSUME IInv, NEW w \in Workers, NEW s \in ObjectStatus, CallProvider(w, s)
    PROVE  IInv'
  <1> DEFINE o == ctx[w].op
  <1> DEFINE object == [key |-> ctx[w].retry, born |-> s, status |-> s]
  <1>1. o \in Op /\ ctx[w].retry \in Nat /\ objects[o] \in Seq(Object)
    BY Fields DEF IInv, Locals
  <1>2. object \in Object
    BY <1>1 DEF Object
  <1> HIDE DEF object
  <1>3. Append(objects[o], object) \in Seq(Object)
    BY <1>1, <1>2, AppendProperties
  <1>4. objects' = [objects EXCEPT ![o] = Append(objects[o], object)]
    BY DEF CallProvider, CreateObject, object
  <1>5. objects' \in [Op -> Seq(Object)]
    BY <1>1, <1>3, <1>4 DEF IInv, TypeOK
  <1>6. keys' \in [Op -> SUBSET Nat]
    BY <1>1 DEF CallProvider, CreateObject, IInv, TypeOK
  <1>7. Len(objects[o]) + 1 \in Nat \ {0}
    BY <1>1
  <1>8. PICK c \in Locals : /\ ctx' = [ctx EXCEPT ![w] = c]
                            /\ c.pc = "record" => c.result # 0
                            /\ op[c.op].state # "absent"
    BY <1>7, Answered DEF CallProvider
  <1>9. UNCHANGED rows /\ UNCHANGED hold
    BY DEF CallProvider, CreateObject
  <1>10. ctx' \in [Workers -> Locals] /\ InFlight'
    BY <1>8, <1>9, CallChange DEF rows
  <1>11. TypeOK'
    BY <1>5, <1>6, <1>9, <1>10 DEF IInv, TypeOK, rows
  <1> QED
    BY <1>9, <1>10, <1>11, RowsUnchanged DEF IInv, rows

LEMMA RecordStep ==
    ASSUME IInv, NEW w \in Workers, Record(w)
    PROVE  IInv'
  <1> USE DEF provider
  <1> DEFINE o == ctx[w].op
  <1> DEFINE i == ctx[w].result
  <1>1. /\ o \in Op /\ op[o] \in Row /\ op[o].state # "absent"
        /\ i \in Nat \ {0}
    BY Fields DEF IInv, InFlight, Locals, Record
  <1>2. /\ op' \in [Op -> Row] /\ entry' \in [Op -> Nat]
        /\ fund' \in [state : FundState, slots : Amount, charge : Nat]
        /\ Obligations' /\ FundOfCampaign' /\ Queued' /\ Recorded'
        /\ \A p \in Op : op'[p].state = "absent" => op[p].state = "absent"
    <2>1. CASE op[o].state = "succeeded"
      <3>1. UNCHANGED <<slots, fund, obligated, accepted, cancelled, op, entry>>
        BY <2>1 DEF Record
      <3> QED
        BY <3>1, RowsUnchanged DEF IInv, TypeOK
    <2>2. CASE op[o].state # "succeeded" /\ ctx[w].pending
      <3> DEFINE r == [op[o] EXCEPT !.state = "provider_pending", !.provider = i,
                                    !.lease = NoLease, !.expired = FALSE]
      <3>1. r \in Row /\ r.state = "provider_pending" /\ r.amount = op[o].amount
        BY <1>1 DEF Row, OpState
      <3>2. op' = [op EXCEPT ![o] = r]
        BY <2>2 DEF Record
      <3> HIDE DEF r
      <3>3. op' \in [Op -> Row] /\ OperationsKept
        BY <1>1, <2>2, <3>1, <3>2, RowKept DEF IInv
      <3>4. UNCHANGED <<slots, fund, obligated, accepted, cancelled, entry>>
        BY <2>2 DEF Record
      <3>5. Obligations' /\ FundOfCampaign' /\ Queued' /\ Recorded'
        BY <3>3, <3>4, LedgerKept
      <3> QED
        BY <3>3, <3>4, <3>5 DEF IInv, TypeOK, OperationsKept
    <2>3. CASE op[o].state # "succeeded" /\ ~ctx[w].pending
      <3>1. RecordMovement(o, i) /\ UNCHANGED <<slots, obligated, accepted, cancelled>>
        BY <2>3 DEF Record
      <3> QED
        BY <1>1, <2>3, <3>1, Movement
    <2> QED
      BY <2>1, <2>2, <2>3
  <1>3. ctx' = [ctx EXCEPT ![w] = Idle]
    BY DEF Record
  <1>4. ctx' \in [Workers -> Locals] /\ InFlight'
    BY <1>2, <1>3, CallChange, CallEnds
  <1>5. TypeOK'
    BY <1>2, <1>4 DEF IInv, TypeOK, Record
  <1> QED
    BY <1>2, <1>4, <1>5 DEF IInv

LEMMA CatchStep ==
    ASSUME IInv, NEW w \in Workers, Catch(w)
    PROVE  IInv'
  <1> USE DEF provider
  <1> DEFINE o == ctx[w].op
  <1> DEFINE r == [op[o] EXCEPT
                     !.state = IF op[o].state = "provider_pending"
                               THEN "provider_pending" ELSE "pending",
                     !.lease = NoLease, !.expired = FALSE]
  <1>1. o \in Op /\ op[o] \in Row /\ op[o].state # "absent"
    BY Fields DEF IInv, InFlight, Catch
  <1>2. \/ op' = op
        \/ op' = [op EXCEPT ![o] = r] /\ op[o].state # "succeeded"
    BY DEF Catch
  <1>3. r \in Row /\ r.state # "absent" /\ r.amount = op[o].amount
    BY <1>1 DEF Row, OpState
  <1> HIDE DEF r
  <1>4. op' \in [Op -> Row] /\ OperationsKept
    <2>1. CASE op' = op
      BY <2>1 DEF IInv, TypeOK, OperationsKept
    <2>2. CASE op' = [op EXCEPT ![o] = r] /\ op[o].state # "succeeded"
      BY <1>1, <1>3, <2>2, RowKept DEF IInv
    <2> QED
      BY <1>2, <2>1, <2>2
  <1>5. ctx' = [ctx EXCEPT ![w] = Idle]
    BY DEF Catch
  <1>6. ctx' \in [Workers -> Locals] /\ InFlight'
    BY <1>4, <1>5, CallChange, CallEnds DEF OperationsKept
  <1>7. TypeOK'
    BY <1>4, <1>6 DEF IInv, TypeOK, Catch
  <1>8. Obligations' /\ FundOfCampaign' /\ Queued' /\ Recorded'
    BY <1>4, LedgerKept DEF Catch
  <1> QED
    BY <1>6, <1>7, <1>8 DEF IInv
-----------------------------------------------------------------------------
(* Crashes, time and the provider.                                          *)

LEMMA CrashStep ==
    ASSUME IInv, NEW w \in Workers, Crash(w)
    PROVE  IInv'
  BY CallEnds, CallOnlyStep DEF Crash

LEMMA LeaseExpiresStep ==
    ASSUME IInv, NEW o \in Op, LeaseExpires(o)
    PROVE  IInv'
  <1> DEFINE r == [op[o] EXCEPT !.expired = TRUE]
  <1>1. r \in Row /\ r.state = op[o].state /\ r.amount = op[o].amount
    BY Fields DEF IInv, Row
  <1>2. op' = [op EXCEPT ![o] = r]
    BY DEF LeaseExpires
  <1> HIDE DEF r
  <1> QED
    BY <1>1, <1>2, RowOnlyStep DEF LeaseExpires

LEMMA AgesStep ==
    ASSUME IInv, NEW o \in Op, Ages(o)
    PROVE  IInv'
  <1> DEFINE r == [op[o] EXCEPT !.aged = TRUE]
  <1>1. r \in Row /\ r.state = op[o].state /\ r.amount = op[o].amount
    BY Fields DEF IInv, Row
  <1>2. op' = [op EXCEPT ![o] = r]
    BY DEF Ages
  <1> HIDE DEF r
  <1> QED
    BY <1>1, <1>2, RowOnlyStep DEF Ages

\* Only the provider changes.
LEMMA ProviderStep ==
    ASSUME IInv, UNCHANGED <<rows, ctx>>,
           objects' \in [Op -> Seq(Object)], keys' \in [Op -> SUBSET Nat],
           hold' \in {"none", "disputed", "refunded"}
    PROVE  IInv'
  <1> USE DEF rows
  <1>1. TypeOK'
    BY DEF IInv, TypeOK
  <1>2. InFlight'
    BY CallsUnchanged
  <1> QED
    BY <1>1, <1>2, RowsUnchanged DEF IInv

LEMMA KeyExpiresStep ==
    ASSUME IInv, NEW o \in Op, KeyExpires(o)
    PROVE  IInv'
  <1>1. keys' \in [Op -> SUBSET Nat]
    BY DEF IInv, TypeOK, KeyExpires, ForgetKey
  <1> QED
    BY <1>1, ProviderStep DEF IInv, TypeOK, KeyExpires, ForgetKey

LEMMA SettlesStep ==
    ASSUME IInv, NEW o \in Op, NEW i \in 1 .. MaxObjects, NEW s \in ObjectStatus,
           ProviderSettles(o, i, s)
    PROVE  IInv'
  <1> USE DEF ProviderSettles, Settle
  <1> DEFINE object == [objects[o][i] EXCEPT !.status = s]
  <1>1. objects[o] \in Seq(Object) /\ i \in 1 .. Len(objects[o])
    BY Fields DEF IInv
  <1>2. object \in Object
    BY <1>1, ObjectFields DEF IInv, Object
  <1>3. objects' = [objects EXCEPT ![o] = [objects[o] EXCEPT ![i] = object]]
    OBVIOUS
  <1> HIDE DEF object
  <1>4. [objects[o] EXCEPT ![i] = object] \in Seq(Object)
    BY <1>1, <1>2, ExceptSeq
  <1>5. objects' \in [Op -> Seq(Object)]
    BY <1>3, <1>4 DEF IInv, TypeOK
  <1> QED
    BY <1>5, ProviderStep DEF IInv, TypeOK

LEMMA HeldStep ==
    ASSUME IInv, NEW h \in ChargeHolds, ChargeHeld(h)
    PROVE  IInv'
  BY HoldsAssumption, ProviderStep DEF IInv, TypeOK, ChargeHeld, HoldCharge

LEMMA StutterStep ==
    ASSUME IInv, UNCHANGED vars
    PROVE  IInv'
  BY ProviderStep DEF vars, rows, IInv, TypeOK
-----------------------------------------------------------------------------
(* Every step keeps the invariant.                                          *)
LEMMA Inductive == IInv /\ [Next]_vars => IInv'
  <1> SUFFICES ASSUME IInv, [Next]_vars PROVE IInv'
    OBVIOUS
  <1>1. CASE Requests
    BY <1>1, EditTermsStep, OpenDepositStep, RequestDepositStep, LaunchStep, CompleteStep,
       AdmitStep, AcceptWorkStep, CancelObligationStep, RecoverRetryRefundStep,
       RecoverVerifiedStep
    DEF Requests
  <1>2. CASE Environment
    BY <1>2, CrashStep, StopForReviewStep, LeaseExpiresStep, AgesStep, KeyExpiresStep,
       SettlesStep, HeldStep
    DEF Environment
  <1>3. ASSUME NEW w \in Workers, Process(w) PROVE IInv'
    BY <1>3, ClaimStep, ClaimThrowsStep, VerifyStep, RetrieveStep, ReplayStep, CreateStep,
       RecordStep, CatchStep
    DEF Process, Call
  <1> QED
    BY <1>1, <1>2, <1>3, StutterStep DEF Next

LEMMA Invariance == Spec => []IInv
  BY Initially, Inductive, PTL DEF Spec
-----------------------------------------------------------------------------
(* What follows from the invariant.                                         *)

\* The slots paid and the slots refunded after a cancellation are different slots, all of them taken.
LEMMA SlotsLeftOnce ==
    ASSUME IInv
    PROVE  LET paid == {c \in Creators : entry[Release(c)] # 0}
               returned == {c \in Creators : entry[Cancel(c)] # 0}
           IN  /\ paid \subseteq obligated /\ returned \subseteq obligated
               /\ Cardinality(paid) \in Nat /\ Cardinality(returned) \in Nat
               /\ Cardinality(obligated) \in Nat
               /\ Cardinality(paid) + Cardinality(returned) <= Cardinality(obligated)
  <1> DEFINE paid == {c \in Creators : entry[Release(c)] # 0}
  <1> DEFINE returned == {c \in Creators : entry[Cancel(c)] # 0}
  <1>1. paid \subseteq accepted /\ returned \subseteq cancelled
    BY Operations DEF IInv, Queued, Recorded
  <1>2. paid \cap returned = {} /\ paid \cup returned \subseteq obligated
    BY <1>1 DEF IInv, Obligations
  <1> HIDE DEF paid, returned
  <1>3. obligated \in SUBSET Creators
    BY DEF IInv, TypeOK
  <1>4. /\ IsFiniteSet(paid) /\ IsFiniteSet(returned) /\ Cardinality(obligated) \in Nat
        /\ Cardinality(paid) \in Nat /\ Cardinality(returned) \in Nat
        /\ Cardinality(paid \cup returned) <= Cardinality(obligated)
    BY <1>2, <1>3, CreatorSets
  <1>5. Cardinality(paid \cup returned) = Cardinality(paid) + Cardinality(returned)
    <2>1. Cardinality(paid \cap returned) = 0
      BY <1>2, FS_EmptySet
    <2>2. Cardinality(paid \cup returned)
            = Cardinality(paid) + Cardinality(returned) - Cardinality(paid \cap returned)
      BY <1>4, FS_Union
    <2> QED
      BY <1>4, <2>1, <2>2
  <1> QED
    BY <1>2, <1>4, <1>5 DEF paid, returned

LEMMA SolventFollows == IInv => LedgerSolvent
  <1> SUFFICES ASSUME IInv PROVE LedgerSolvent
    OBVIOUS
  <1> DEFINE paid == {c \in Creators : entry[Release(c)] # 0}
  <1> DEFINE returned == {c \in Creators : entry[Cancel(c)] # 0}
  <1> DEFINE unused == IF entry[Unused] # 0 THEN op[Unused].amount ELSE 0
  <1>1. /\ paid \subseteq obligated /\ returned \subseteq obligated
        /\ Cardinality(paid) \in Nat /\ Cardinality(returned) \in Nat
        /\ Cardinality(obligated) \in Nat
        /\ Cardinality(paid) + Cardinality(returned) <= Cardinality(obligated)
    BY SlotsLeftOnce
  <1>2. /\ Released = Cardinality(paid)
        /\ RecordedRefunds = Cardinality(returned) + unused
    BY DEF Released, RecordedRefunds
  <1>3. op[Unused].amount \in Nat /\ op[Deposit].amount \in Nat /\ slots \in Nat
    BY Operations, SlotsAssumption DEF IInv, TypeOK, Row, Amount
  <1>4. Cardinality(obligated) <= slots
    BY DEF IInv, Obligations
  <1>5. entry[Unused] # 0 =>
            fund.state = "closed" /\ op[Unused].amount + Cardinality(obligated) <= slots
    BY Operations DEF IInv, Queued, Recorded
  <1>6. fund.state \in {"funded", "closed"} => Deposited = slots
    BY DEF IInv, FundOfCampaign, Deposited
  <1>7. Deposited \in Nat
    BY <1>3 DEF Deposited
  <1>8. CASE fund.state \in {"funded", "closed"}
    <2>1. unused \in Nat /\ unused + Cardinality(obligated) <= slots
      BY <1>1, <1>3, <1>4, <1>5
    <2> HIDE DEF paid, returned, unused
    <2> QED
      BY <1>1, <1>2, <1>3, <1>6, <1>8, <2>1 DEF LedgerSolvent
  <1>9. CASE fund.state \notin {"funded", "closed"}
    <2>1. obligated = {} /\ unused = 0
      BY <1>5, <1>9 DEF IInv, FundOfCampaign
    <2>2. Cardinality(obligated) = 0
      BY <2>1, FS_EmptySet
    <2> HIDE DEF paid, returned, unused
    <2> QED
      BY <1>1, <1>2, <1>7, <2>1, <2>2 DEF LedgerSolvent
  <1> QED
    BY <1>8, <1>9

\* Every reachable state has the shape TypeOK gives it.
THEOREM TypeCorrect == Spec => []TypeOK
  <1>1. IInv => TypeOK
    BY DEF IInv
  <1> QED
    BY <1>1, Invariance, PTL

(* However many creators, calls, capacities, retries, crashes and lost      *)
(* answers there are, no more money is recorded as released and refunded    *)
(* than was recorded as deposited.                                          *)
THEOREM SolventAlways == Spec => []LedgerSolvent
  BY SolventFollows, Invariance, PTL

(* The deposit taken is the one for the campaign's slots, whatever edits    *)
(* race the deposit request.                                                *)
THEOREM TermsAlwaysMatch == Spec => []DepositMatchesTerms
  <1>1. IInv => DepositMatchesTerms
    BY DEF IInv, FundOfCampaign, DepositMatchesTerms
  <1> QED
    BY <1>1, Invariance, PTL
-----------------------------------------------------------------------------
(* No step reopens a closed fund or rewrites a recorded movement.           *)
LEMMA MovementGrows ==
    ASSUME IInv, NEW o \in Op, NEW i, RecordMovement(o, i),
           op[o].state \notin {"absent", "succeeded"}
    PROVE  /\ fund.state = "closed" => fund'.state = "closed"
           /\ \A p \in Op : entry[p] # 0 => entry'[p] = entry[p]
  <1>1. entry[o] = 0
    BY DEF IInv, Recorded
  <1>2. \A p \in Op : entry[p] # 0 => entry'[p] = entry[p]
    BY <1>1 DEF IInv, TypeOK, RecordMovement
  <1>3. fund.state = "closed" => o # Deposit
    BY DEF IInv, FundOfCampaign, Recorded
  <1> QED
    BY <1>2, <1>3 DEF RecordMovement

LEMMA StepGrows ==
    ASSUME IInv, Next
    PROVE  /\ fund.state = "closed" => fund'.state = "closed"
           /\ \A p \in Op : entry[p] # 0 => entry'[p] = entry[p]
  <1>1. CASE Requests
    <2>1. ASSUME NEW o \in Op, NEW i \in 1 .. MaxObjects, RecoverVerified(o, i)
          PROVE  /\ fund.state = "closed" => fund'.state = "closed"
                 /\ \A p \in Op : entry[p] # 0 => entry'[p] = entry[p]
      BY <2>1, MovementGrows DEF RecoverVerified
    <2>2. ASSUME NEW n \in 1 .. MaxSlots, OpenDeposit(n)
          PROVE  /\ fund.state = "closed" => fund'.state = "closed"
                 /\ \A p \in Op : entry[p] # 0 => entry'[p] = entry[p]
      BY <2>2 DEF OpenDeposit, IInv, FundOfCampaign
    <2>3. ASSUME Complete
          PROVE  /\ fund.state = "closed" => fund'.state = "closed"
                 /\ \A p \in Op : entry[p] # 0 => entry'[p] = entry[p]
      BY <2>3 DEF Complete, CloseFund
    <2> QED
      BY <1>1, <2>1, <2>2, <2>3
      DEF Requests, EditTerms, RequestDeposit, BeforeSave, Launch, FundedLaunch, Pause, AdmitCreator, AcceptWork,
          CancelObligation, RecoverRetryRefund
  <1>2. CASE Environment
    BY <1>2
    DEF Environment, Crash, StopForReview, LeaseExpires, Ages, KeyExpires, ProviderSettles,
        ChargeHeld, rows
  <1>3. ASSUME NEW w \in Workers, Process(w)
        PROVE  /\ fund.state = "closed" => fund'.state = "closed"
               /\ \A p \in Op : entry[p] # 0 => entry'[p] = entry[p]
    <2>1. CASE Record(w)
      <3>1. ctx[w].op \in Op /\ op[ctx[w].op].state # "absent"
        BY <2>1, Fields DEF IInv, InFlight, Record
      <3>2. CASE RecordMovement(ctx[w].op, ctx[w].result) /\ op[ctx[w].op].state # "succeeded"
        BY <3>1, <3>2, MovementGrows
      <3>3. CASE UNCHANGED <<entry, fund>>
        BY <3>3
      <3> QED
        BY <2>1, <3>2, <3>3 DEF Record
    <2> QED
      BY <1>3, <2>1
      DEF Process, Claim, ClaimThrows, VerifyCharge, Call, RetrieveObject, CallProvider,
          ReplayCall, CallFails, Catch, rows
  <1> QED
    BY <1>1, <1>2, <1>3 DEF Next

(* A late answer, a recovery or a stalled call never reopens a closed fund  *)
(* and never rewrites what the ledger has recorded.                         *)
THEOREM LedgerMonotone == Spec => LedgerOnlyGrows
  <1> DEFINE Grows == /\ fund.state = "closed" => fund'.state = "closed"
                      /\ \A o \in Op : entry[o] # 0 => entry'[o] = entry[o]
  <1>1. IInv /\ [Next]_vars => [Grows]_vars
    BY StepGrows
  <1> QED
    BY <1>1, Invariance, PTL DEF Spec, LedgerOnlyGrows

-----------------------------------------------------------------------------
(* The invariant so far speaks of the tables; what was made at the provider *)
(* needs four facts more.                                                   *)

(* Numbers of objects are numbers of objects: a row, a call and the ledger  *)
(* name what the provider made, and only what succeeded is recorded.        *)
RowTraced(o) == op[o].provider \in {0} \cup DOMAIN objects[o]

CallTraced(w) ==
    /\ ctx[w].provider \in {0} \cup DOMAIN objects[ctx[w].op]
    /\ ctx[w].pc = "record" =>
          /\ ctx[w].result \in DOMAIN objects[ctx[w].op]
          /\ ~ctx[w].pending => objects[ctx[w].op][ctx[w].result].status = "succeeded"

SettledOnce ==
    \A o \in Op : \A i \in DOMAIN objects[o] :
        objects[o][i].born = "succeeded" => objects[o][i].status = "succeeded"

Traced ==
    /\ \A o \in Op : RowTraced(o)
    /\ \A w \in Workers : CallTraced(w)
    /\ SettledOnce
    /\ LedgerBacked

\* Nothing is made for an operation that was not queued.
Made == \A o \in Op : objects[o] # << >> => op[o].state # "absent"

(* A deposit or a release has one key, which outlives every call that may   *)
(* still use it: it is forgotten only for an operation that aged without an *)
(* answer, and such an operation is not claimed again.                      *)
OneKey ==
    /\ \A o \in Op \ Refunds :
         /\ op[o].retry = 0
         /\ Len(objects[o]) <= 1
         /\ objects[o] # << >> /\ ~op[o].aged => 0 \in keys[o]
         /\ op[o].aged => /\ op[o].attempted
                          /\ op[o].provider = 0 \/ op[o].state = "succeeded"
                          /\ \A w \in Workers : ~Holds(w, o)
    /\ \A w \in Workers :
         /\ ctx[w].pc \in {"verify", "call", "record"} => ctx[w].prepared
         /\ ctx[w].op \notin Refunds => ctx[w].retry = 0

(* The tables agree in the other direction too: what succeeded is recorded, *)
(* what was decided is queued, and closure queued what is left.             *)
Decided ==
    /\ \A o \in Op : op[o].state = "succeeded" => entry[o] # 0
    /\ \A c \in accepted : op[Release(c)].state # "absent"
    /\ \A c \in cancelled : op[Cancel(c)].state # "absent"
    /\ op[Unused].state # "absent" => op[Unused].amount > 0
    /\ fund.state = "closed" =>
          Cardinality(obligated)
            + (IF op[Unused].state # "absent" THEN op[Unused].amount ELSE 0) = slots

Campaign ==
    /\ fund.state = "closed" => status = "completed"
    /\ status = "active" => fund.state = "funded"
    /\ fund.state \in {"funded", "closed"} => fund.charge = entry[Deposit]

EInv == IInv /\ Traced /\ Made /\ OneKey /\ Decided /\ Campaign

\* Nothing is made, queued, recorded or claimed in the beginning.
LEMMA EscrowInitially == Init => EInv
  <1> SUFFICES ASSUME Init PROVE EInv
    OBVIOUS
  <1> USE Operations DEF Init, ProviderInit, NoFund, NoRow, Idle
  <1>1. IInv
    BY Initially
  <1>2. Traced /\ Made
    BY DEF Traced, RowTraced, CallTraced, SettledOnce, LedgerBacked, Made
  <1>3. OneKey
    BY DEF OneKey, Holds
  <1>4. Decided /\ Campaign
    BY DEF Decided, Campaign
  <1> QED
    BY <1>1, <1>2, <1>3, <1>4 DEF EInv

\* A part of the campaign, of a row or of a call may not disturb what is made at the provider.
LEMMA Footprint ==
    ASSUME EInv
    PROVE  /\ UNCHANGED <<op, entry, ctx, objects>> => Traced'
           /\ UNCHANGED <<op, objects>> => Made'
           /\ UNCHANGED <<op, ctx, objects, keys>> => OneKey'
           /\ UNCHANGED <<slots, obligated, accepted, cancelled, fund, op, entry>> => Decided'
           /\ UNCHANGED <<status, fund, entry>> => Campaign'
  <1>1. UNCHANGED <<op, entry, ctx, objects>> => Traced'
    BY DEF EInv, Traced, RowTraced, CallTraced, SettledOnce, LedgerBacked
  <1>2. UNCHANGED <<op, objects>> => Made'
    BY DEF EInv, Made
  <1>3. UNCHANGED <<op, ctx, objects, keys>> => OneKey'
    BY DEF EInv, OneKey, Holds
  <1>4. UNCHANGED <<slots, obligated, accepted, cancelled, fund, op, entry>> => Decided'
    BY DEF EInv, Decided
  <1>5. UNCHANGED <<status, fund, entry>> => Campaign'
    BY DEF EInv, Campaign
  <1> QED
    BY <1>1, <1>2, <1>3, <1>4, <1>5

-----------------------------------------------------------------------------
(* The rows change.                                                         *)

\* A new operation has no objects yet.
LEMMA QueueStep ==
    ASSUME EInv, NEW o \in Op, NEW n \in Amount, op[o].state = "absent",
           op' = [op EXCEPT ![o] = NewRow(n)],
           UNCHANGED <<entry, ctx, objects, keys>>
    PROVE  Traced' /\ Made' /\ OneKey'
  <1>1. /\ op'[o] = NewRow(n)
        /\ \A p \in Op : p # o => op'[p] = op[p]
    BY NewRows, RowChange DEF EInv, IInv
  <1>2. objects[o] = << >>
    BY DEF EInv, Made
  <1>3. \A w \in Workers : Holds(w, o)' <=> Holds(w, o)
    BY DEF Holds
  <1>4. NewRow(n).state = "pending" /\ NewRow(n).provider = 0 /\ NewRow(n).retry = 0 /\ ~NewRow(n).aged
    BY DEF NewRow, NoRow
  <1>5. Traced'
    BY <1>1, <1>4 DEF EInv, Traced, RowTraced, CallTraced, SettledOnce, LedgerBacked
  <1>6. Made'
    BY <1>1, <1>4 DEF EInv, Made
  <1>7. OneKey'
    BY <1>1, <1>2, <1>4 DEF EInv, OneKey, Holds
  <1> QED
    BY <1>5, <1>6, <1>7

\* A row changes in its state and its lease, or in how long it has been tried.
LEMMA RowMoves ==
    ASSUME EInv, NEW o \in Op, NEW r \in Row, op' = [op EXCEPT ![o] = r],
           r.state = "absent" => op[o].state = "absent",
           r.provider \in {0, op[o].provider},
           o \notin Refunds => /\ r.retry = op[o].retry /\ r.provider = op[o].provider
                               /\ op[o].attempted => r.attempted
                               /\ op[o].aged => r.aged
                               /\ r.aged => \/ /\ op[o].aged
                                               /\ op[o].state = "succeeded" => r.state = "succeeded"
                                            \/ /\ r.attempted /\ r.provider = 0
                                               /\ \A w \in Workers : ~Holds(w, o),
           UNCHANGED <<entry, ctx, objects, keys>>
    PROVE  Traced' /\ Made' /\ OneKey'
  <1>1. /\ op'[o] = r
        /\ \A p \in Op : p # o => op'[p] = op[p]
    BY RowChange DEF EInv, IInv
  <1>2. Traced'
    BY <1>1 DEF EInv, Traced, RowTraced, CallTraced, SettledOnce, LedgerBacked
  <1>3. Made'
    BY <1>1 DEF EInv, Made
  <1>4. OneKey'
    BY <1>1 DEF EInv, OneKey, Holds
  <1> QED
    BY <1>2, <1>3, <1>4

(* The requests that queue an operation, decide an obligation or move the   *)
(* campaign.                                                                *)
QueuesNothing ==
    \/ \E n \in 1 .. MaxSlots : EditTerms(n)
    \/ RequestDeposit \/ BeforeSave \/ Launch \/ Pause
    \/ \E c \in Creators : AdmitCreator(c)

LEMMA CampaignMoves ==
    ASSUME EInv, QueuesNothing
    PROVE  EInv'
  <1> USE DEF QueuesNothing, EditTerms, BeforeSave, Launch, FundedLaunch, Pause, AdmitCreator, RequestDeposit, provider
  <1>1. IInv'
    BY Inductive DEF EInv, Next, Requests
  <1>2. UNCHANGED <<op, entry, ctx, objects, keys, fund, accepted, cancelled>>
    OBVIOUS
  <1>3. Traced' /\ Made' /\ OneKey'
    BY <1>2, Footprint
  <1>4. Decided'
    BY <1>2 DEF EInv, IInv, FundOfCampaign, Decided
  <1>5. Campaign'
    BY <1>2 DEF EInv, Campaign
  <1> QED
    BY <1>1, <1>3, <1>4, <1>5 DEF EInv

LEMMA OpensDeposit ==
    ASSUME EInv, NEW n \in 1 .. MaxSlots, OpenDeposit(n)
    PROVE  EInv'
  <1> USE DEF OpenDeposit, provider
  <1>1. IInv'
    BY Inductive DEF EInv, Next, Requests
  <1>2. CASE UNCHANGED <<fund, op>>
    BY <1>1, <1>2, Footprint DEF EInv
  <1>3. CASE status = "draft" /\ slots = n /\ op[Deposit].state = "absent"
    <2>1. n \in Amount
      BY SlotsAssumption DEF Amount
    <2>2. Traced' /\ Made' /\ OneKey'
      BY <1>3, <2>1, QueueStep, Operations
    <2>3. /\ op'[Deposit].state = "pending"
          /\ \A p \in Op : p # Deposit => op'[p] = op[p]
      BY <1>3, <2>1, NewRows, RowChange, Operations DEF EInv, IInv
    <2>4. fund'.state = "awaiting_deposit"
      BY <1>3
    <2>5. Decided'
      BY <2>3, <2>4, Operations DEF EInv, IInv, TypeOK, Decided
    <2>6. Campaign'
      BY <1>3, <2>4 DEF EInv, Campaign
    <2> QED
      BY <1>1, <2>2, <2>5, <2>6 DEF EInv
  <1> QED
    BY <1>2, <1>3

LEMMA Completes ==
    ASSUME EInv, Complete
    PROVE  EInv'
  <1> USE DEF Complete, CloseFund, provider
  <1>1. IInv'
    BY Inductive DEF EInv, Next, Requests
  <1>2. Cardinality(obligated) \in Nat /\ Cardinality(obligated) <= slots /\ slots \in 1 .. MaxSlots
    BY CreatorSets DEF EInv, IInv, TypeOK, Obligations
  <1>3. UnusedSlots \in Amount /\ UnusedSlots + Cardinality(obligated) = slots
    BY <1>2, SlotsAssumption DEF UnusedSlots, Amount
  <1>4. CASE fund.state # "funded"
    <2>1. Traced' /\ Made' /\ OneKey' /\ Decided'
      BY <1>4, Footprint
    <2>2. Campaign'
      BY <1>4 DEF EInv, Campaign
    <2> QED
      BY <1>1, <2>1, <2>2 DEF EInv
  <1>5. CASE fund.state = "funded"
    <2>1. op[Unused].state = "absent"
      BY <1>5 DEF EInv, IInv, Queued
    <2>2. fund'.state = "closed" /\ fund'.charge = fund.charge
      BY <1>5 DEF EInv, IInv, TypeOK
    <2>3. Campaign'
      BY <1>5, <2>2 DEF EInv, Campaign
    <2>4. CASE UnusedSlots > 0
      <3>1. op' = [op EXCEPT ![Unused] = NewRow(UnusedSlots)]
        BY <1>5, <2>4
      <3>2. Traced' /\ Made' /\ OneKey'
        BY <1>3, <2>1, <3>1, QueueStep, Operations
      <3>3. /\ op'[Unused].state = "pending" /\ op'[Unused].amount = UnusedSlots
            /\ \A p \in Op : p # Unused => op'[p] = op[p]
        BY <1>3, <3>1, NewRows, RowChange, Operations DEF EInv, IInv
      <3>4. op'[Unused].amount > 0 /\ Cardinality(obligated') + op'[Unused].amount = slots'
        BY <1>2, <1>3, <2>4, <3>3 DEF Amount
      <3>5. /\ \A o \in Op : op'[o].state = "succeeded" => entry'[o] # 0
            /\ \A c \in accepted : op'[Release(c)].state # "absent"
            /\ \A c \in cancelled : op'[Cancel(c)].state # "absent"
        BY <3>3, Operations DEF EInv, IInv, TypeOK, Decided
      <3>6. Decided'
        BY <3>3, <3>4, <3>5 DEF Decided
      <3> QED
        BY <1>1, <2>3, <3>2, <3>6 DEF EInv
    <2>5. CASE ~(UnusedSlots > 0)
      <3>1. UNCHANGED op
        BY <1>5, <2>5
      <3>2. Traced' /\ Made' /\ OneKey'
        BY <3>1, Footprint
      <3>3. Cardinality(obligated) = slots
        BY <1>2, <1>3, <2>5 DEF Amount
      <3>4. Decided'
        BY <1>2, <2>1, <3>1, <3>3 DEF EInv, Decided
      <3> QED
        BY <1>1, <2>3, <3>2, <3>4 DEF EInv
    <2> QED
      BY <2>4, <2>5
  <1> QED
    BY <1>4, <1>5

LEMMA AcceptsWork ==
    ASSUME EInv, NEW c \in Creators, AcceptWork(c)
    PROVE  EInv'
  <1> USE DEF AcceptWork, provider
  <1>1. IInv'
    BY Inductive DEF EInv, Next, Requests
  <1>2. 1 \in Amount
    BY SlotsAssumption DEF Amount
  <1>3. Campaign'
    BY Footprint
  <1>4. CASE op[Release(c)].state = "absent"
    <2>1. Traced' /\ Made' /\ OneKey'
      BY <1>2, <1>4, QueueStep, Operations
    <2>2. /\ op'[Release(c)].state = "pending"
          /\ \A p \in Op : p # Release(c) => op'[p] = op[p]
      BY <1>2, <1>4, NewRows, RowChange, Operations DEF EInv, IInv
    <2>3. Decided'
      BY <2>2, Operations DEF EInv, IInv, TypeOK, Decided
    <2> QED
      BY <1>1, <1>3, <2>1, <2>3 DEF EInv
  <1>5. CASE op[Release(c)].state # "absent"
    <2>1. UNCHANGED op
      BY <1>5
    <2>2. Traced' /\ Made' /\ OneKey'
      BY <2>1, Footprint
    <2>3. Decided'
      BY <1>5, <2>1 DEF EInv, Decided
    <2> QED
      BY <1>1, <1>3, <2>2, <2>3 DEF EInv
  <1> QED
    BY <1>4, <1>5

LEMMA CancelsObligation ==
    ASSUME EInv, NEW c \in Creators, CancelObligation(c)
    PROVE  EInv'
  <1> USE DEF CancelObligation, provider
  <1>1. IInv'
    BY Inductive DEF EInv, Next, Requests
  <1>2. 1 \in Amount
    BY SlotsAssumption DEF Amount
  <1>3. Traced' /\ Made' /\ OneKey'
    BY <1>2, QueueStep, Operations
  <1>4. /\ op'[Cancel(c)].state = "pending"
        /\ \A p \in Op : p # Cancel(c) => op'[p] = op[p]
    BY <1>2, NewRows, RowChange, Operations DEF EInv, IInv
  <1>5. Decided'
    BY <1>4, Operations DEF EInv, IInv, TypeOK, Decided
  <1>6. Campaign'
    BY Footprint
  <1> QED
    BY <1>1, <1>3, <1>5, <1>6 DEF EInv

-----------------------------------------------------------------------------
(* A movement is recorded, by a call or by an operator.                     *)

\* The ledger agrees with its operations after a movement that succeeded at the provider.
LEMMA MovementRecorded ==
    ASSUME EInv, NEW o \in Op, NEW i \in DOMAIN objects[o], objects[o][i].status = "succeeded",
           RecordMovement(o, i), op[o].state \notin {"absent", "succeeded"},
           UNCHANGED <<status, slots, obligated, accepted, cancelled, objects, keys>>,
           \A w \in Workers : \/ ctx'[w] = ctx[w]
                              \/ ctx'[w] = Idle
    PROVE  Traced' /\ Made' /\ OneKey' /\ Decided' /\ Campaign'
  <1>1. i \in Nat \ {0}
    BY ObjectFields DEF EInv, IInv
  <1>2. entry[o] = 0
    BY DEF EInv, IInv, Recorded
  <1>3. /\ op'[o].state = "succeeded" /\ op'[o].provider = i /\ op'[o].amount = op[o].amount
        /\ op'[o].retry = op[o].retry /\ op'[o].aged = op[o].aged
        /\ op'[o].attempted = op[o].attempted
        /\ \A p \in Op : p # o => op'[p] = op[p]
    BY Fields DEF EInv, IInv, TypeOK, Row, RecordMovement
  <1>4. /\ entry'[o] = i
        /\ \A p \in Op : p # o => entry'[p] = entry[p]
    BY <1>2 DEF EInv, IInv, TypeOK, RecordMovement
  <1>5. o = Deposit => fund.state = "awaiting_deposit"
    BY <1>2 DEF EInv, IInv, TypeOK, FundState, FundOfCampaign
  <1>6. /\ o # Deposit => fund' = fund
        /\ o = Deposit => fund'.state = "funded" /\ fund'.charge = i
    BY DEF EInv, IInv, TypeOK, RecordMovement
  <1>7. Idle.pc = "idle" /\ Idle.provider = 0 /\ Idle.retry = 0 /\ ~Idle.prepared
    BY DEF Idle
  <1>8. Traced'
    BY <1>3, <1>4, <1>7 DEF EInv, Traced, RowTraced, CallTraced, SettledOnce, LedgerBacked
  <1>9. Made'
    BY <1>3 DEF EInv, Made
  <1>10. OneKey'
    BY <1>3, <1>7 DEF EInv, OneKey, Holds
  <1>11. Decided'
    BY <1>1, <1>3, <1>4, <1>5, <1>6, Operations DEF EInv, IInv, TypeOK, Decided
  <1>12. Campaign'
    BY <1>4, <1>5, <1>6, Operations DEF EInv, Campaign
  <1> QED
    BY <1>8, <1>9, <1>10, <1>11, <1>12

LEMMA Recovers ==
    ASSUME EInv, NEW o \in Op, NEW i \in 1 .. MaxObjects, RecoverVerified(o, i)
    PROVE  EInv'
  <1>1. IInv'
    BY Inductive DEF EInv, Next, Requests
  <1>2. Traced' /\ Made' /\ OneKey' /\ Decided' /\ Campaign'
    BY MovementRecorded DEF RecoverVerified, provider
  <1> QED
    BY <1>1, <1>2 DEF EInv

-----------------------------------------------------------------------------
(* A row changes in its state, its lease or its age, or is asked to be      *)
(* tried again.                                                             *)
LEMMA RowOnly ==
    ASSUME EInv, IInv', NEW o \in Op, NEW r \in Row, op' = [op EXCEPT ![o] = r],
           r.state = "absent" <=> op[o].state = "absent",
           r.state = "succeeded" => op[o].state = "succeeded",
           r.amount = op[o].amount,
           UNCHANGED <<status, slots, fund, obligated, accepted, cancelled, entry>>,
           Traced' /\ Made' /\ OneKey'
    PROVE  EInv'
  <1>1. /\ op'[o] = r
        /\ \A p \in Op : p # o => op'[p] = op[p]
    BY RowChange DEF EInv, IInv
  <1>2. Decided'
    BY <1>1, Operations DEF EInv, IInv, TypeOK, Decided
  <1>3. Campaign'
    BY Footprint
  <1> QED
    BY <1>2, <1>3 DEF EInv

LEMMA RetriesRefund ==
    ASSUME EInv, NEW o \in Op, RecoverRetryRefund(o)
    PROVE  EInv'
  <1> USE DEF RecoverRetryRefund, provider
  <1> DEFINE r == [NewRow(op[o].amount) EXCEPT !.retry = op[o].retry + 1]
  <1>1. IInv'
    BY Inductive DEF EInv, Next, Requests
  <1>2. op[o].amount \in Amount /\ op[o].retry \in Nat
    BY Fields DEF EInv, IInv, Row
  <1>3. r \in Row /\ r.state = "pending" /\ r.amount = op[o].amount
    BY <1>2, NewRows DEF Row
  <1>4. r.provider = 0
    BY DEF NewRow, NoRow
  <1>5. op' = [op EXCEPT ![o] = r]
    OBVIOUS
  <1> HIDE DEF r
  <1>6. Traced' /\ Made' /\ OneKey'
    BY <1>3, <1>4, <1>5, RowMoves
  <1> QED
    BY <1>1, <1>3, <1>5, <1>6, RowOnly

LEMMA StopsForReview ==
    ASSUME EInv, NEW o \in Op, StopForReview(o)
    PROVE  EInv'
  <1> USE DEF StopForReview, provider
  <1> DEFINE r == [op[o] EXCEPT !.state = "review"]
  <1>1. IInv'
    BY Inductive DEF EInv, Next, Environment
  <1>2. /\ r \in Row /\ r.state = "review" /\ r.amount = op[o].amount
        /\ r.provider = op[o].provider /\ r.retry = op[o].retry
        /\ r.aged = op[o].aged /\ r.attempted = op[o].attempted
    BY Fields DEF EInv, IInv, Row, OpState
  <1>3. op' = [op EXCEPT ![o] = r] /\ op[o].state \notin {"absent", "succeeded"}
    BY DEF Due
  <1> HIDE DEF r
  <1>4. Traced' /\ Made' /\ OneKey'
    BY <1>2, <1>3, RowMoves
  <1> QED
    BY <1>1, <1>2, <1>3, <1>4, RowOnly

\* A lease runs out, or 23 hours have passed without an answer.
LEMMA TimePasses ==
    ASSUME EInv, NEW o \in Op, LeaseExpires(o) \/ Ages(o)
    PROVE  EInv'
  <1> USE DEF LeaseExpires, Ages, provider
  <1>1. IInv'
    BY Inductive DEF EInv, Next, Environment
  <1>2. PICK r \in Row : /\ op' = [op EXCEPT ![o] = r]
                         /\ r.state = op[o].state /\ r.amount = op[o].amount
                         /\ r.provider = op[o].provider /\ r.retry = op[o].retry
                         /\ r.attempted = op[o].attempted
                         /\ op[o].aged => r.aged
                         /\ r.aged => \/ op[o].aged
                                      \/ /\ op[o].attempted /\ op[o].provider = 0
                                         /\ \A w \in Workers : ~Holds(w, o)
    <2>1. op[o] \in Row
      BY Fields DEF EInv, IInv
    <2>2. CASE LeaseExpires(o)
      <3> DEFINE r == [op[o] EXCEPT !.expired = TRUE]
      <3>1. r \in Row
        BY <2>1 DEF Row
      <3> QED
        BY <2>1, <2>2, <3>1 DEF Row
    <2>3. CASE Ages(o)
      <3> DEFINE r == [op[o] EXCEPT !.aged = TRUE]
      <3>1. r \in Row
        BY <2>1 DEF Row
      <3> QED
        BY <2>1, <2>3, <3>1 DEF Row
    <2> QED
      BY <2>2, <2>3
  <1>3. UNCHANGED <<status, slots, fund, obligated, accepted, cancelled, entry, ctx, objects, keys>>
    OBVIOUS
  <1>4. Traced' /\ Made' /\ OneKey'
    BY <1>2, <1>3, RowMoves
  <1> QED
    BY <1>1, <1>2, <1>3, <1>4, RowOnly

-----------------------------------------------------------------------------
(* One call of process() goes on.                                           *)

\* The rows and the objects stay; the call is about an operation that exists.
LEMMA CallMoves ==
    ASSUME EInv, IInv', NEW w \in Workers, NEW c \in Locals, ctx' = [ctx EXCEPT ![w] = c],
           UNCHANGED <<rows, provider>>,
           c.provider \in {0} \cup DOMAIN objects[c.op],
           c.pc = "record" => /\ c.result \in DOMAIN objects[c.op]
                              /\ ~c.pending => objects[c.op][c.result].status = "succeeded",
           c.pc \in {"verify", "call", "record"} => c.prepared,
           c.op \notin Refunds => c.retry = 0,
           c.prepared => ctx[w].prepared /\ c.op = ctx[w].op
    PROVE  EInv'
  <1> USE DEF rows, provider
  <1>1. /\ ctx'[w] = c
        /\ \A v \in Workers : v # w => ctx'[v] = ctx[v]
    BY DEF EInv, IInv, TypeOK
  <1>2. Made' /\ Decided' /\ Campaign'
    BY Footprint
  <1>3. Traced'
    BY <1>1 DEF EInv, Traced, RowTraced, CallTraced, SettledOnce, LedgerBacked
  <1>4. OneKey'
    BY <1>1 DEF EInv, OneKey, Holds
  <1> QED
    BY <1>2, <1>3, <1>4 DEF EInv

LEMMA Throws ==
    ASSUME EInv, NEW w \in Workers, NEW o \in Op, ClaimThrows(w, o)
    PROVE  EInv'
  <1> DEFINE c == [Idle EXCEPT !.pc = "catch", !.op = o]
  <1>1. IInv'
    BY Inductive DEF EInv, Next, Process
  <1>2. /\ c \in Locals /\ c.op = o /\ c.pc = "catch"
        /\ c.provider = 0 /\ c.retry = 0 /\ ~c.prepared
    BY Operations DEF Idle, Locals
  <1>3. ctx' = [ctx EXCEPT ![w] = c]
    BY DEF ClaimThrows
  <1> HIDE DEF c
  <1> QED
    BY <1>1, <1>2, <1>3, CallMoves DEF ClaimThrows

LEMMA Dies ==
    ASSUME EInv, NEW w \in Workers, Crash(w)
    PROVE  EInv'
  <1>1. IInv'
    BY Inductive DEF EInv, Next, Environment
  <1>2. Idle.provider = 0 /\ Idle.retry = 0 /\ ~Idle.prepared /\ Idle.pc = "idle"
    BY DEF Idle
  <1> QED
    BY <1>1, <1>2, CallEnds, CallMoves DEF Crash

LEMMA Verifies ==
    ASSUME EInv, NEW w \in Workers, VerifyCharge(w) \/ CallFails(w)
    PROVE  EInv'
  <1>1. IInv'
    BY Inductive DEF EInv, Next, Process
  <1>2. PICK q \in {"call", "catch"} : ctx' = [ctx EXCEPT ![w] = [ctx[w] EXCEPT !.pc = q]]
    BY DEF VerifyCharge, CallFails
  <1>3. ctx[w].pc \in {"verify", "call", "record"} /\ UNCHANGED <<rows, provider>>
    BY DEF VerifyCharge, CallFails
  <1> DEFINE c == [ctx[w] EXCEPT !.pc = q]
  <1>4. ctx[w] \in Locals
    BY Fields DEF EInv, IInv
  <1>5. /\ c \in Locals /\ c.pc = q /\ c.op = ctx[w].op /\ c.provider = ctx[w].provider
        /\ c.retry = ctx[w].retry /\ c.prepared = ctx[w].prepared
    BY <1>4 DEF Locals
  <1>6. ctx' = [ctx EXCEPT ![w] = c]
    BY <1>2
  <1> HIDE DEF c
  <1>7. /\ c.provider \in {0} \cup DOMAIN objects[c.op] /\ c.prepared
        /\ c.op \notin Refunds => c.retry = 0
    BY <1>3, <1>5 DEF EInv, Traced, CallTraced, OneKey
  <1> QED
    BY <1>1, <1>3, <1>5, <1>6, <1>7, CallMoves

\* An answer sends the call to its catch clause, or to record the object it is about.
LEMMA AnswerOf ==
    ASSUME EInv, NEW w \in Workers, NEW i \in Nat, NEW s, Answer(w, i, s)
    PROVE  \E c \in Locals :
               /\ ctx' = [ctx EXCEPT ![w] = c]
               /\ c.op = ctx[w].op /\ c.provider = ctx[w].provider
               /\ c.retry = ctx[w].retry /\ c.prepared = ctx[w].prepared
               /\ c.pc \in {"catch", "record"}
               /\ c.pc = "record" => s # "failed" /\ c.result = i /\ c.pending = (s = "pending")
  <1>1. ctx[w] \in Locals
    BY Fields DEF EInv, IInv
  <1>2. CASE s = "failed"
    <2> DEFINE c == [ctx[w] EXCEPT !.pc = "catch"]
    <2>1. /\ c \in Locals /\ c.pc = "catch" /\ c.op = ctx[w].op /\ c.provider = ctx[w].provider
          /\ c.retry = ctx[w].retry /\ c.prepared = ctx[w].prepared
      BY <1>1 DEF Locals
    <2>2. ctx' = [ctx EXCEPT ![w] = c]
      BY <1>2 DEF Answer
    <2> HIDE DEF c
    <2> QED
      BY <2>1, <2>2
  <1>3. CASE s # "failed"
    <2> DEFINE c == [ctx[w] EXCEPT !.pc = "record", !.result = i, !.pending = (s = "pending")]
    <2>1. /\ c \in Locals /\ c.pc = "record" /\ c.op = ctx[w].op /\ c.provider = ctx[w].provider
          /\ c.retry = ctx[w].retry /\ c.prepared = ctx[w].prepared
          /\ c.result = i /\ c.pending = (s = "pending")
      BY <1>1 DEF Locals
    <2>2. ctx' = [ctx EXCEPT ![w] = c]
      BY <1>3 DEF Answer
    <2> HIDE DEF c
    <2> QED
      BY <1>3, <2>1, <2>2
  <1> QED
    BY <1>2, <1>3

\* An answer about an object the provider made earlier.
LEMMA AnswersKnown ==
    ASSUME EInv, IInv', NEW w \in Workers, ctx[w].pc = "call",
           NEW i \in DOMAIN objects[ctx[w].op],
           NEW s \in ReplayedStatus(ctx[w].op, i) \cup {objects[ctx[w].op][i].status},
           Answer(w, i, s), UNCHANGED <<rows, provider>>
    PROVE  EInv'
  <1> DEFINE o == ctx[w].op
  <1>1. o \in Op
    BY Fields DEF EInv, IInv
  <1>2. i \in Nat \ {0} /\ objects[o][i].status \in ObjectStatus /\ objects[o][i].born \in ObjectStatus
    BY <1>1, ObjectFields DEF EInv, IInv
  <1>3. s \in ObjectStatus /\ (s = "succeeded" => objects[o][i].status = "succeeded")
    BY <1>1, <1>2 DEF EInv, Traced, SettledOnce, ReplayedStatus
  <1>4. PICK c \in Locals :
          /\ ctx' = [ctx EXCEPT ![w] = c]
          /\ c.op = ctx[w].op /\ c.provider = ctx[w].provider
          /\ c.retry = ctx[w].retry /\ c.prepared = ctx[w].prepared
          /\ c.pc \in {"catch", "record"}
          /\ c.pc = "record" => s # "failed" /\ c.result = i /\ c.pending = (s = "pending")
    BY <1>2, AnswerOf
  <1>5. /\ c.provider \in {0} \cup DOMAIN objects[c.op] /\ c.prepared
        /\ c.op \notin Refunds => c.retry = 0
    BY <1>4 DEF EInv, Traced, CallTraced, OneKey
  <1>6. c.pc = "record" => /\ c.result \in DOMAIN objects[c.op]
                           /\ ~c.pending => objects[c.op][c.result].status = "succeeded"
    BY <1>3, <1>4 DEF ObjectStatus
  <1> QED
    BY <1>4, <1>5, <1>6, CallMoves

LEMMA Retrieves ==
    ASSUME EInv, NEW w \in Workers, RetrieveObject(w)
    PROVE  EInv'
  <1>1. IInv'
    BY Inductive DEF EInv, Next, Process, Call
  <1>2. ctx[w].provider \in DOMAIN objects[ctx[w].op]
    BY DEF EInv, Traced, CallTraced, RetrieveObject, Creates
  <1> QED
    BY <1>1, <1>2, AnswersKnown DEF RetrieveObject

LEMMA Replays ==
    ASSUME EInv, NEW w \in Workers, ReplayCall(w)
    PROVE  EInv'
  <1>1. IInv'
    BY Inductive DEF EInv, Next, Process, Call
  <1>2. PICK i \in DOMAIN objects[ctx[w].op] : \E s \in ReplayedStatus(ctx[w].op, i) : Answer(w, i, s)
    BY DEF ReplayCall, LatestMadeWith, MadeWith
  <1> QED
    BY <1>1, <1>2, AnswersKnown DEF ReplayCall

LEMMA Creating ==
    ASSUME EInv, NEW w \in Workers, NEW s \in ObjectStatus, CallProvider(w, s)
    PROVE  EInv'
  <1> DEFINE o == ctx[w].op
  <1> DEFINE n == Len(objects[o]) + 1
  <1> DEFINE object == [key |-> ctx[w].retry, born |-> s, status |-> s]
  <1>1. IInv'
    BY Inductive DEF EInv, Next, Process, Call
  <1>2. /\ o \in Op /\ op[o].state # "absent" /\ ctx[w].retry \in Nat
        /\ objects[o] \in Seq(Object) /\ Len(objects[o]) \in Nat
    BY Fields DEF EInv, IInv, InFlight, Locals, CallProvider
  <1>3. object \in Object /\ object.status = s /\ object.born = s
    BY <1>2 DEF Object
  <1> HIDE DEF object
  <1> DEFINE longer == Append(objects[o], object)
  <1>4. /\ Len(longer) = n /\ n \in DOMAIN longer
        /\ \A i \in DOMAIN longer : i \in DOMAIN objects[o] \/ i = n
        /\ \A i \in DOMAIN objects[o] : i \in DOMAIN longer /\ longer[i] = objects[o][i]
        /\ longer[n] = object
    BY <1>2, <1>3, AppendProperties
  <1>5. objects' = [objects EXCEPT ![o] = longer]
    BY DEF CallProvider, CreateObject, object
  <1> HIDE DEF longer
  <1>6. /\ objects'[o] = longer
        /\ \A p \in Op : p # o => objects'[p] = objects[p]
    BY <1>2, <1>5 DEF EInv, IInv, TypeOK
  <1> DEFINE Held(p) == \A i \in DOMAIN objects[p] : i \in DOMAIN objects'[p] /\ objects'[p][i] = objects[p][i]
  <1>7. \A p \in Op : Held(p)
    BY <1>4, <1>6
  <1>8. n \in DOMAIN objects'[o] /\ objects'[o][n] = object /\ n \in Nat
    BY <1>2, <1>4, <1>6
  <1>9. PICK c \in Locals :
          /\ ctx' = [ctx EXCEPT ![w] = c]
          /\ c.op = ctx[w].op /\ c.provider = ctx[w].provider
          /\ c.retry = ctx[w].retry /\ c.prepared = ctx[w].prepared
          /\ c.pc \in {"catch", "record"}
          /\ c.pc = "record" => s # "failed" /\ c.result = n /\ c.pending = (s = "pending")
    BY <1>8, AnswerOf DEF CallProvider
  <1>10. /\ ctx'[w] = c
         /\ \A v \in Workers : v # w => ctx'[v] = ctx[v]
    BY <1>9 DEF EInv, IInv, TypeOK
  <1>11. UNCHANGED rows
    BY DEF CallProvider
  <1>12. Made'
    BY <1>2, <1>6, <1>11 DEF EInv, Made, rows
  <1>13. Decided' /\ Campaign'
    BY <1>11, Footprint DEF rows
  <1>14. Traced'
    <2>1. \A p \in Op : RowTraced(p)'
      BY <1>7, <1>11 DEF EInv, Traced, RowTraced, rows
    <2>2. \A v \in Workers : v # w => CallTraced(v)'
      BY <1>7, <1>10, Fields DEF EInv, IInv, Traced, CallTraced
    <2>3. CallTraced(w)'
      <3>1. ctx'[w].provider \in {0} \cup DOMAIN objects'[o]
        BY <1>2, <1>7, <1>9, <1>10 DEF EInv, Traced, CallTraced
      <3>2. CASE ctx'[w].pc = "record"
        <4>1. s # "failed" /\ ctx'[w].result = n /\ (s # "pending" => s = "succeeded")
          BY <1>9, <1>10, <3>2 DEF ObjectStatus
        <4>2. ~ctx'[w].pending => s # "pending"
          BY <1>9, <1>10, <3>2
        <4>3. objects'[o][n].status = s
          BY <1>3, <1>8
        <4> QED
          BY <1>8, <1>9, <1>10, <3>1, <4>1, <4>2, <4>3 DEF CallTraced
      <3> QED
        BY <1>9, <1>10, <3>1, <3>2 DEF CallTraced
    <2>4. SettledOnce'
      <3>1. \A i \in DOMAIN objects'[o] : i \in DOMAIN objects[o] \/ i = n
        BY <1>4, <1>6
      <3> QED
        BY <1>3, <1>6, <1>7, <1>8, <3>1 DEF EInv, Traced, SettledOnce
    <2>5. LedgerBacked'
      BY <1>7, <1>11 DEF EInv, Traced, LedgerBacked, rows
    <2> QED
      BY <2>1, <2>2, <2>3, <2>4, <2>5 DEF Traced
  <1>15. OneKey'
    <2>1. /\ keys'[o] = keys[o] \cup {ctx[w].retry}
          /\ \A p \in Op : p # o => keys'[p] = keys[p]
      BY <1>2 DEF EInv, IInv, TypeOK, CallProvider, CreateObject
    <2>2. \A p \in Op : Holds(w, p)' <=> Holds(w, p)
      BY <1>9, <1>10 DEF Holds
    <2>3. ASSUME o \notin Refunds
          PROVE  Len(objects[o]) = 0 /\ ctx[w].retry = 0
      <3>1. ctx[w].prepared /\ Holds(w, o) /\ ctx[w].retry = 0
        BY <2>3 DEF EInv, OneKey, CallProvider, Holds
      <3>2. ~op[o].aged
        BY <1>2, <2>3, <3>1 DEF EInv, OneKey
      <3>3. objects[o] = << >>
        BY <1>2, <2>3, <3>1, <3>2 DEF EInv, OneKey, CallProvider, CreateObject
      <3> QED
        BY <3>1, <3>3
    <2>4. o \notin Refunds => Len(objects'[o]) = 1 /\ 0 \in keys'[o]
      <3>1. Len(objects'[o]) = Len(objects[o]) + 1
        BY <1>4, <1>6
      <3> QED
        BY <2>1, <2>3, <3>1
    <2>5. \A p \in Op \ Refunds :
            /\ op'[p].retry = 0
            /\ Len(objects'[p]) <= 1
            /\ objects'[p] # << >> /\ ~op'[p].aged => 0 \in keys'[p]
      <3>1. UNCHANGED op
        BY <1>11 DEF rows
      <3>2. \A p \in Op \ Refunds : op'[p].retry = 0
        BY <3>1 DEF EInv, OneKey
      <3>3. ASSUME NEW p \in Op \ Refunds, p # o
            PROVE  /\ Len(objects'[p]) <= 1
                   /\ objects'[p] # << >> /\ ~op'[p].aged => 0 \in keys'[p]
        BY <1>6, <2>1, <3>1, <3>3 DEF EInv, OneKey
      <3>4. ASSUME NEW p \in Op \ Refunds
            PROVE  /\ Len(objects'[p]) <= 1
                   /\ objects'[p] # << >> /\ ~op'[p].aged => 0 \in keys'[p]
        <4>1. CASE p = o
          <5>1. Len(objects'[p]) = 1 /\ 0 \in keys'[p]
            BY <2>4, <4>1, Zenon
          <5> QED
            BY <5>1
        <4>2. CASE p # o
          BY <3>3, <4>2
        <4> QED
          BY <4>1, <4>2
      <3> QED
        BY <3>2, <3>4
    <2>6. \A p \in Op \ Refunds :
            op'[p].aged => /\ op'[p].attempted
                           /\ op'[p].provider = 0 \/ op'[p].state = "succeeded"
                           /\ \A v \in Workers : ~Holds(v, p)'
      BY <1>10, <1>11, <2>2 DEF EInv, OneKey, Holds, rows
    <2>7. \A v \in Workers :
            /\ ctx'[v].pc \in {"verify", "call", "record"} => ctx'[v].prepared
            /\ ctx'[v].op \notin Refunds => ctx'[v].retry = 0
      BY <1>9, <1>10 DEF EInv, OneKey, CallProvider
    <2> QED
      BY <2>5, <2>6, <2>7 DEF OneKey
  <1> QED
    BY <1>1, <1>12, <1>13, <1>14, <1>15 DEF EInv

LEMMA Claims ==
    ASSUME EInv, NEW w \in Workers, NEW o \in Op, Claim(w, o)
    PROVE  EInv'
  <1> USE DEF Claim, provider
  <1> DEFINE r == [op[o] EXCEPT !.state = "processing", !.attempted = TRUE,
                                !.lease = w, !.expired = FALSE]
  <1> DEFINE c == [Idle EXCEPT !.pc = IF o = Deposit THEN "call" ELSE "verify",
                               !.op = o, !.prepared = TRUE,
                               !.provider = op[o].provider, !.retry = op[o].retry,
                               !.expected = IF o \in Releases THEN RecordedRefunds ELSE 0,
                               !.clean = (hold = "none")]
  <1>1. IInv'
    BY Inductive DEF EInv, Next, Process
  <1>2. op[o] \in Row /\ op[o].state \notin {"absent", "succeeded"}
    BY Fields DEF EInv, IInv, Due
  <1>3. /\ r \in Row /\ r.state = "processing" /\ r.amount = op[o].amount
        /\ r.provider = op[o].provider /\ r.retry = op[o].retry
        /\ r.attempted /\ r.aged = op[o].aged
    BY <1>2 DEF Row, OpState
  <1>4. /\ c.pc \in {"call", "verify"} /\ c.op = o /\ c.prepared
        /\ c.provider = op[o].provider /\ c.retry = op[o].retry
    BY DEF Idle
  <1>5. op' = [op EXCEPT ![o] = r] /\ ctx' = [ctx EXCEPT ![w] = c]
    OBVIOUS
  <1> HIDE DEF r, c
  <1>6. /\ op'[o] = r /\ ctx'[w] = c
        /\ \A p \in Op : p # o => op'[p] = op[p]
        /\ \A v \in Workers : v # w => ctx'[v] = ctx[v]
    BY <1>3, <1>5, RowChange DEF EInv, IInv, TypeOK
  <1>7. o \notin Refunds => ~op[o].aged
    BY <1>2 DEF EInv, OneKey, Overdue
  <1>8. Traced'
    BY <1>3, <1>4, <1>6 DEF EInv, Traced, RowTraced, CallTraced, SettledOnce, LedgerBacked
  <1>9. Made'
    BY <1>3, <1>6 DEF EInv, Made
  <1>10. OneKey'
    BY <1>3, <1>4, <1>6, <1>7 DEF EInv, OneKey, Holds
  <1> QED
    BY <1>1, <1>2, <1>3, <1>5, <1>8, <1>9, <1>10, RowOnly

\* The call is over: it leaves the rows to others.
LEMMA CallOver ==
    ASSUME EInv, NEW w \in Workers, ctx' = [ctx EXCEPT ![w] = Idle]
    PROVE  \A v \in Workers : ctx'[v] = ctx[v] \/ ctx'[v] = Idle
  BY DEF EInv, IInv, TypeOK

\* A row changes and a call ends.
LEMMA RowAndCall ==
    ASSUME EInv, IInv', NEW w \in Workers, ctx' = [ctx EXCEPT ![w] = Idle],
           NEW o \in Op, NEW r \in Row, op' = [op EXCEPT ![o] = r],
           r.state = "absent" <=> op[o].state = "absent",
           r.state = "succeeded" <=> op[o].state = "succeeded",
           r.amount = op[o].amount, r.retry = op[o].retry,
           r.aged = op[o].aged, r.attempted = op[o].attempted,
           r.provider \in {0} \cup DOMAIN objects[o],
           o \notin Refunds /\ op[o].aged => r.provider = op[o].provider,
           UNCHANGED <<status, slots, fund, obligated, accepted, cancelled, entry, objects, keys>>
    PROVE  EInv'
  <1>1. /\ op'[o] = r
        /\ \A p \in Op : p # o => op'[p] = op[p]
    BY RowChange DEF EInv, IInv
  <1>2. \A v \in Workers : ctx'[v] = ctx[v] \/ ctx'[v] = Idle
    BY CallOver
  <1>3. Idle.pc = "idle" /\ Idle.provider = 0 /\ Idle.retry = 0 /\ ~Idle.prepared
    BY DEF Idle
  <1>4. Traced'
    BY <1>1, <1>2, <1>3 DEF EInv, Traced, RowTraced, CallTraced, SettledOnce, LedgerBacked
  <1>5. Made'
    BY <1>1 DEF EInv, Made
  <1>6. OneKey'
    BY <1>1, <1>2, <1>3 DEF EInv, OneKey, Holds
  <1> QED
    BY <1>4, <1>5, <1>6, RowOnly

LEMMA Records ==
    ASSUME EInv, NEW w \in Workers, Record(w)
    PROVE  EInv'
  <1> USE DEF Record, provider
  <1> DEFINE o == ctx[w].op
  <1> DEFINE i == ctx[w].result
  <1>1. IInv'
    BY Inductive DEF EInv, Next, Process
  <1>2. /\ o \in Op /\ op[o] \in Row /\ op[o].state # "absent"
        /\ i \in DOMAIN objects[o]
        /\ ~ctx[w].pending => objects[o][i].status = "succeeded"
    BY Fields DEF EInv, IInv, InFlight, Traced, CallTraced
  <1>3. o \notin Refunds => ~op[o].aged
    BY <1>2 DEF EInv, OneKey, Holds
  <1>4. CASE op[o].state = "succeeded"
    <2>1. UNCHANGED <<entry, fund, op>>
      BY <1>4
    <2>2. op' = [op EXCEPT ![o] = op[o]]
      BY <1>2, <2>1 DEF EInv, IInv, TypeOK
    <2>3. op[o].provider \in {0} \cup DOMAIN objects[o]
      BY <1>2 DEF EInv, Traced, RowTraced
    <2> QED
      BY <1>1, <1>2, <2>1, <2>2, <2>3, RowAndCall
  <1>5. CASE op[o].state # "succeeded" /\ ctx[w].pending
    <2> DEFINE r == [op[o] EXCEPT !.state = "provider_pending", !.provider = i,
                                  !.lease = NoLease, !.expired = FALSE]
    <2>1. i \in Nat
      BY <1>2, ObjectFields DEF EInv, IInv
    <2>2. /\ r \in Row /\ r.state = "provider_pending" /\ r.amount = op[o].amount
          /\ r.retry = op[o].retry /\ r.aged = op[o].aged /\ r.attempted = op[o].attempted
          /\ r.provider = i
      BY <1>2, <2>1 DEF Row, OpState
    <2>3. op' = [op EXCEPT ![o] = r] /\ UNCHANGED <<entry, fund>>
      BY <1>5
    <2> HIDE DEF r
    <2> QED
      BY <1>1, <1>2, <1>3, <1>5, <2>2, <2>3, RowAndCall
  <1>6. CASE op[o].state # "succeeded" /\ ~ctx[w].pending
    <2>1. RecordMovement(o, i) /\ objects[o][i].status = "succeeded"
      BY <1>2, <1>6
    <2>2. \A v \in Workers : ctx'[v] = ctx[v] \/ ctx'[v] = Idle
      BY CallOver
    <2>3. Traced' /\ Made' /\ OneKey' /\ Decided' /\ Campaign'
      BY <1>2, <1>6, <2>1, <2>2, MovementRecorded
    <2> QED
      BY <1>1, <2>3 DEF EInv
  <1> QED
    BY <1>4, <1>5, <1>6

LEMMA Catches ==
    ASSUME EInv, NEW w \in Workers, Catch(w)
    PROVE  EInv'
  <1> USE DEF Catch, provider
  <1> DEFINE o == ctx[w].op
  <1>1. IInv'
    BY Inductive DEF EInv, Next, Process
  <1>2. o \in Op /\ op[o] \in Row /\ op[o].state # "absent"
    BY Fields DEF EInv, IInv, InFlight
  <1>3. op[o].provider \in {0} \cup DOMAIN objects[o]
    BY <1>2 DEF EInv, Traced, RowTraced
  <1>4. CASE UNCHANGED op
    <2>1. op' = [op EXCEPT ![o] = op[o]]
      BY <1>2, <1>4 DEF EInv, IInv, TypeOK
    <2> QED
      BY <1>1, <1>2, <1>3, <2>1, RowAndCall
  <1>5. CASE op[o].state \notin {"succeeded", "review"} /\ op' # op
    <2> DEFINE r == [op[o] EXCEPT !.state = IF op[o].state = "provider_pending"
                                            THEN "provider_pending" ELSE "pending",
                                  !.lease = NoLease, !.expired = FALSE]
    <2>1. /\ r \in Row /\ r.state \in {"provider_pending", "pending"} /\ r.amount = op[o].amount
          /\ r.retry = op[o].retry /\ r.aged = op[o].aged /\ r.attempted = op[o].attempted
          /\ r.provider = op[o].provider
      BY <1>2 DEF Row, OpState
    <2>2. op' = [op EXCEPT ![o] = r]
      BY <1>5
    <2> HIDE DEF r
    <2> QED
      BY <1>1, <1>2, <1>3, <1>5, <2>1, <2>2, RowAndCall
  <1> QED
    BY <1>4, <1>5

-----------------------------------------------------------------------------
(* The provider moves on its own.                                           *)

LEMMA Forgets ==
    ASSUME EInv, NEW o \in Op, KeyExpires(o)
    PROVE  EInv'
  <1>1. IInv'
    BY Inductive DEF EInv, Next, Environment
  <1>2. UNCHANGED <<rows, ctx, objects>>
    BY DEF KeyExpires, ForgetKey
  <1>3. Traced' /\ Made' /\ Decided' /\ Campaign'
    BY <1>2, Footprint DEF rows
  <1>4. /\ op[o].aged
        /\ \A p \in Op : p # o => keys'[p] = keys[p]
    BY DEF EInv, IInv, TypeOK, KeyExpires, ForgetKey
  <1>5. OneKey'
    BY <1>2, <1>4 DEF EInv, OneKey, Holds, rows
  <1> QED
    BY <1>1, <1>3, <1>5 DEF EInv

LEMMA Settling ==
    ASSUME EInv, NEW o \in Op, NEW i \in 1 .. MaxObjects, NEW s \in ObjectStatus,
           ProviderSettles(o, i, s)
    PROVE  EInv'
  <1> USE DEF ProviderSettles, Settle
  <1> DEFINE object == [objects[o][i] EXCEPT !.status = s]
  <1> DEFINE settled == [objects[o] EXCEPT ![i] = object]
  <1>1. IInv'
    BY Inductive DEF EInv, Next, Environment
  <1>2. /\ objects[o] \in Seq(Object) /\ i \in DOMAIN objects[o]
        /\ objects[o][i].status = "pending"
        /\ objects[o][i] \in Object
    BY Fields, ObjectFields DEF EInv, IInv
  <1>3. object.status = s /\ object.born = objects[o][i].born /\ objects[o][i].born # "succeeded"
    BY <1>2 DEF EInv, Traced, SettledOnce, Object
  <1>4. objects' = [objects EXCEPT ![o] = settled]
    OBVIOUS
  <1> HIDE DEF object
  <1>5. /\ Len(settled) = Len(objects[o]) /\ DOMAIN settled = DOMAIN objects[o]
        /\ settled[i] = object
        /\ \A j \in DOMAIN objects[o] : j # i => settled[j] = objects[o][j]
    <2>1. DOMAIN settled = 1 .. Len(objects[o]) /\ Len(objects[o]) \in Nat
      BY <1>2
    <2>2. Len(settled) = Len(objects[o])
      BY <1>2, <2>1
    <2> QED
      BY <1>2, <2>2
  <1> HIDE DEF settled
  <1>6. /\ objects'[o] = settled
        /\ \A p \in Op : p # o => objects'[p] = objects[p]
    BY <1>4 DEF EInv, IInv, TypeOK
  <1>7. \A p \in Op : DOMAIN objects'[p] = DOMAIN objects[p] /\ Len(objects'[p]) = Len(objects[p])
    BY <1>5, <1>6
  <1>8. \A p \in Op : \A j \in DOMAIN objects[p] :
          /\ objects'[p][j].born = objects[p][j].born
          /\ objects[p][j].status = "succeeded" => objects'[p][j].status = "succeeded"
    BY <1>2, <1>3, <1>5, <1>6
  <1>9. \A p \in Op : objects'[p] # << >> => objects[p] # << >>
    BY <1>2, <1>6
  <1>10. UNCHANGED <<rows, ctx, keys>>
    OBVIOUS
  <1>11. Decided' /\ Campaign'
    BY <1>10, Footprint DEF rows
  <1>12. Traced'
    <2>1. SettledOnce' /\ LedgerBacked'
      BY <1>7, <1>8, <1>10 DEF EInv, Traced, SettledOnce, LedgerBacked, rows
    <2>2. \A p \in Op : RowTraced(p)'
      BY <1>7, <1>10 DEF EInv, Traced, RowTraced, rows
    <2>3. \A w \in Workers : CallTraced(w)'
      BY <1>7, <1>8, <1>10, Fields DEF EInv, IInv, Traced, CallTraced
    <2> QED
      BY <2>1, <2>2, <2>3 DEF Traced
  <1>13. Made'
    BY <1>9, <1>10 DEF EInv, Made, rows
  <1>14. OneKey'
    BY <1>7, <1>9, <1>10 DEF EInv, OneKey, Holds, rows
  <1> QED
    BY <1>1, <1>11, <1>12, <1>13, <1>14 DEF EInv

LEMMA Stands ==
    ASSUME EInv, IInv', UNCHANGED <<rows, ctx, objects, keys>>
    PROVE  EInv'
  BY Footprint DEF EInv, rows

-----------------------------------------------------------------------------
(* Every step keeps the invariant.                                          *)
LEMMA EscrowInductive == EInv /\ [Next]_vars => EInv'
  <1> SUFFICES ASSUME EInv, [Next]_vars PROVE EInv'
    OBVIOUS
  <1>1. CASE Requests
    BY <1>1, CampaignMoves, OpensDeposit, Completes, AcceptsWork, CancelsObligation,
       RetriesRefund, Recovers
    DEF Requests, QueuesNothing
  <1>2. CASE Environment
    <2>1. ASSUME NEW h \in ChargeHolds, ChargeHeld(h)
          PROVE  EInv'
      <3>1. IInv'
        BY <1>2, Inductive DEF EInv, Next
      <3> QED
        BY <2>1, <3>1, Stands DEF ChargeHeld, HoldCharge
    <2> QED
      BY <1>2, <2>1, Dies, StopsForReview, TimePasses, Forgets, Settling DEF Environment
  <1>3. ASSUME NEW w \in Workers, Process(w) PROVE EInv'
    BY <1>3, Claims, Throws, Verifies, Retrieves, Replays, Creating, Records, Catches
    DEF Process, Call
  <1>4. CASE UNCHANGED vars
    <2>1. IInv'
      BY <1>4, Inductive DEF EInv
    <2> QED
      BY <1>4, <2>1, Stands DEF vars, rows
  <1> QED
    BY <1>1, <1>2, <1>3, <1>4 DEF Next

LEMMA EscrowInvariance == Spec => []EInv
  BY EscrowInitially, EscrowInductive, PTL DEF Spec

-----------------------------------------------------------------------------
(* What follows from the invariant.                                         *)

(* Whatever the ledger records as moved did move at the provider, through   *)
(* stalled calls, replayed answers and recoveries.                          *)
THEOREM LedgerAlwaysBacked == Spec => []LedgerBacked
  <1>1. EInv => LedgerBacked
    BY DEF EInv, Traced
  <1> QED
    BY <1>1, EscrowInvariance, PTL

(* The deposit is charged once and each creator paid once, however many     *)
(* calls of process() race, stall, crash and repeat.                        *)
THEOREM ChargedAndPaidAtMostOnce == Spec => []ChargedAndPaidOnce
  <1>1. ASSUME EInv PROVE ChargedAndPaidOnce
    <2>1. ASSUME NEW o \in {Deposit} \cup Releases
          PROVE  Cardinality(LiveObjects(o)) <= 1
      <3>1. o \in Op \ Refunds
        BY Operations DEF Op, Releases, Refunds, Unused
      <3>2. objects[o] \in Seq(Object) /\ Len(objects[o]) <= 1 /\ Len(objects[o]) \in Nat
        BY <1>1, <3>1, Fields DEF EInv, IInv, OneKey
      <3>3. LiveObjects(o) \subseteq {1}
        BY <3>2 DEF LiveObjects
      <3>4. LiveObjects(o) = {} \/ LiveObjects(o) = {1}
        BY <3>3
      <3> QED
        BY <3>4, FS_EmptySet, FS_Singleton
    <2> QED
      BY <2>1 DEF ChargedAndPaidOnce
  <1> QED
    BY <1>1, EscrowInvariance, PTL

(* No slot is both paid to its creator and refunded to the brand, not even  *)
(* by calls whose answer was never recorded.                                *)
THEOREM NeverBoth == Spec => []PaidOrReturned
  <1>1. ASSUME EInv PROVE PaidOrReturned
    <2>1. \A o \in Op : LiveObjects(o) # {} => op[o].state # "absent"
      <3>1. \A o \in Op : objects[o] = << >> => LiveObjects(o) = {}
        BY DEF LiveObjects
      <3> QED
        BY <1>1, <3>1 DEF EInv, Made
    <2>2. \A c \in Creators : op[Release(c)].state = "absent" \/ op[Cancel(c)].state = "absent"
      BY <1>1 DEF EInv, IInv, Queued, Obligations
    <2> QED
      BY <2>1, <2>2, Operations DEF PaidOrReturned
  <1> QED
    BY <1>1, EscrowInvariance, PTL

(* A campaign is active only with its whole deposit captured at the         *)
(* provider.                                                                *)
THEOREM ActiveAlwaysFunded == Spec => []ActiveIsFunded
  <1>1. EInv => ActiveIsFunded
    BY Operations DEF EInv, IInv, FundOfCampaign, Campaign, Traced, LedgerBacked, ActiveIsFunded, Deposited
  <1> QED
    BY <1>1, EscrowInvariance, PTL

\* What the ledger amounts to, in cardinalities.
Paid == {c \in Creators : entry[Release(c)] # 0}
Returned == {c \in Creators : entry[Cancel(c)] # 0}
Unneeded == IF entry[Unused] # 0 THEN op[Unused].amount ELSE 0

Fits ==
    /\ Released = Cardinality(Paid) /\ RecordedRefunds = Cardinality(Returned) + Unneeded
    /\ IsFiniteSet(Paid) /\ IsFiniteSet(Returned)
    /\ Cardinality(Paid) \in Nat /\ Cardinality(Returned) \in Nat /\ Unneeded \in Nat
    /\ Deposited \in Nat
    /\ Cardinality(Paid) + Cardinality(Returned) + Unneeded <= Deposited

LEMMA Sums == EInv => Fits
  <1> SUFFICES ASSUME EInv PROVE Fits
    OBVIOUS
  <1>1. Released = Cardinality(Paid) /\ RecordedRefunds = Cardinality(Returned) + Unneeded
    BY DEF Released, RecordedRefunds, Paid, Returned, Unneeded
  <1>2. /\ IsFiniteSet(Paid) /\ IsFiniteSet(Returned)
        /\ Cardinality(Paid) \in Nat /\ Cardinality(Returned) \in Nat
    BY CreatorSets DEF Paid, Returned
  <1>3. Unneeded \in Nat /\ Deposited \in Nat
    BY Operations, SlotsAssumption DEF EInv, IInv, TypeOK, Row, Amount, Deposited, Unneeded
  <1>4. Released + RecordedRefunds <= Deposited
    BY SolventFollows DEF EInv, LedgerSolvent
  <1> QED
    BY <1>1, <1>2, <1>3, <1>4 DEF Fits

LEMMA NothingHeld == EInv => NothingStranded
  <1> SUFFICES ASSUME EInv, fund.state = "closed", obligated \subseteq accepted \cup cancelled,
                      \A o \in Op : op[o].state \in {"absent", "succeeded"}
               PROVE  Released + RecordedRefunds = Deposited
    BY DEF NothingStranded
  <1>1. \A o \in Op : entry[o] # 0 <=> op[o].state # "absent"
    BY DEF EInv, IInv, Recorded, Decided
  <1>2. Paid = accepted
    BY <1>1, Operations DEF Paid, EInv, IInv, TypeOK, Queued, Decided
  <1>3. Returned = cancelled
    BY <1>1, Operations DEF Returned, EInv, IInv, TypeOK, Queued, Decided
  <1>4. accepted \cap cancelled = {} /\ accepted \cup cancelled = obligated
    BY DEF EInv, IInv, Obligations
  <1>5. /\ IsFiniteSet(accepted) /\ IsFiniteSet(cancelled)
        /\ Cardinality(accepted) \in Nat /\ Cardinality(cancelled) \in Nat
        /\ Cardinality(obligated) \in Nat
    BY CreatorSets DEF EInv, IInv, TypeOK
  <1>6. Cardinality(obligated) = Cardinality(accepted) + Cardinality(cancelled)
    <2>1. Cardinality(accepted \cap cancelled) = 0
      BY <1>4, FS_EmptySet
    <2>2. Cardinality(accepted \cup cancelled)
            = Cardinality(accepted) + Cardinality(cancelled) - Cardinality(accepted \cap cancelled)
      BY <1>5, FS_Union
    <2>3. Cardinality(accepted \cup cancelled) = Cardinality(obligated)
      BY <1>4, Zenon
    <2> QED
      BY <1>5, <2>1, <2>2, <2>3
  <1>7. Unneeded = (IF op[Unused].state # "absent" THEN op[Unused].amount ELSE 0)
    BY <1>1, Operations DEF Unneeded
  <1>8. Cardinality(obligated) + Unneeded = slots
    BY <1>7 DEF EInv, Decided
  <1>9. Deposited = slots
    BY DEF EInv, IInv, FundOfCampaign, Deposited
  <1>10. /\ Released = Cardinality(Paid) /\ RecordedRefunds = Cardinality(Returned) + Unneeded
         /\ Unneeded \in Nat
    BY Sums DEF Fits
  <1> QED
    BY <1>2, <1>3, <1>5, <1>6, <1>8, <1>9, <1>10

(* When a completed campaign has decided and made everything, the whole     *)
(* deposit was paid or refunded, however it was divided.                    *)
THEOREM AllOfItLeaves == Spec => []NothingStranded
  BY NothingHeld, EscrowInvariance, PTL

-----------------------------------------------------------------------------
(* The ledger implements the escrow.                                        *)

\* One movement enters the ledger; its operation was queued.
Enters(o) ==
    /\ entry[o] = 0 /\ entry'[o] # 0 /\ op[o].state # "absent"
    /\ \A p \in Op : p # o => entry'[p] = entry[p]
    /\ \A p \in Op : op'[p].amount = op[p].amount

\* Nothing enters the ledger, and what is in it stays.
Rests == UNCHANGED entry /\ \A o \in Op : entry[o] # 0 => op'[o].amount = op[o].amount

LEMMA MovementEnters ==
    ASSUME EInv, NEW o \in Op, NEW i \in Nat \ {0}, RecordMovement(o, i),
           op[o].state \notin {"absent", "succeeded"}
    PROVE  Enters(o)
  <1>1. entry[o] = 0
    BY DEF EInv, IInv, Recorded
  <1>2. \A p \in Op : op'[p].amount = op[p].amount
    BY Fields DEF EInv, IInv, TypeOK, Row, RecordMovement
  <1> QED
    BY <1>1, <1>2 DEF EInv, IInv, TypeOK, RecordMovement, Enters

LEMMA LedgerStep ==
    ASSUME EInv, [Next]_vars
    PROVE  Rests \/ \E o \in Op : Enters(o)
  <1>1. CASE Requests
    <2>1. ASSUME NEW o \in Op, NEW i \in 1 .. MaxObjects, RecoverVerified(o, i)
          PROVE  Enters(o)
      <3>1. i \in Nat \ {0}
        BY MaxObjectsAssumption
      <3> QED
        BY <2>1, <3>1, MovementEnters DEF RecoverVerified
    <2>2. ASSUME NEW n \in 1 .. MaxSlots, OpenDeposit(n)
          PROVE  Rests
      BY <2>2, Operations DEF OpenDeposit, EInv, IInv, TypeOK, Recorded, Rests
    <2>3. ASSUME Complete
          PROVE  Rests
      <3>1. fund.state = "funded" => entry[Unused] = 0
        BY Operations DEF EInv, IInv, Queued, Recorded
      <3> QED
        BY <2>3, <3>1, Operations DEF Complete, CloseFund, EInv, IInv, TypeOK, Rests
    <2>4. ASSUME NEW c \in Creators, AcceptWork(c)
          PROVE  Rests
      BY <2>4, Operations DEF AcceptWork, EInv, IInv, TypeOK, Recorded, Rests
    <2>5. ASSUME NEW c \in Creators, CancelObligation(c)
          PROVE  Rests
      BY <2>5, Operations DEF CancelObligation, EInv, IInv, TypeOK, Recorded, Rests
    <2>6. ASSUME NEW o \in Op, RecoverRetryRefund(o)
          PROVE  Rests
      <3>1. entry[o] = 0 /\ UNCHANGED entry
        BY <2>6 DEF RecoverRetryRefund, EInv, IInv, Recorded
      <3>2. \A p \in Op : p # o => op'[p] = op[p]
        BY <2>6 DEF RecoverRetryRefund, EInv, IInv, TypeOK
      <3> QED
        BY <3>1, <3>2 DEF Rests
    <2> QED
      BY <1>1, <2>1, <2>2, <2>3, <2>4, <2>5, <2>6
      DEF Requests, EditTerms, RequestDeposit, BeforeSave, Launch, FundedLaunch, Pause, AdmitCreator, Rests
  <1>2. CASE Environment
    <2>1. ASSUME NEW o \in Op, StopForReview(o) \/ LeaseExpires(o) \/ Ages(o)
          PROVE  Rests
      <3>1. op[o] \in Row /\ UNCHANGED entry
        BY <2>1, Fields DEF StopForReview, LeaseExpires, Ages, EInv, IInv
      <3>2. op'[o].amount = op[o].amount
        BY <2>1, <3>1 DEF StopForReview, LeaseExpires, Ages, EInv, IInv, TypeOK, Row
      <3>3. \A p \in Op : p # o => op'[p] = op[p]
        BY <2>1 DEF StopForReview, LeaseExpires, Ages, EInv, IInv, TypeOK
      <3> QED
        BY <3>1, <3>2, <3>3 DEF Rests
    <2> QED
      BY <1>2, <2>1
      DEF Environment, Crash, KeyExpires, ProviderSettles, ChargeHeld, rows, Rests
  <1>3. ASSUME NEW w \in Workers, Process(w)
        PROVE  Rests \/ \E o \in Op : Enters(o)
    <2>1. CASE Record(w)
      <3>1. ctx[w].op \in Op /\ op[ctx[w].op].state # "absent" /\ ctx[w].result \in Nat \ {0}
        BY <2>1, Fields DEF EInv, IInv, InFlight, Record, Locals
      <3>2. CASE RecordMovement(ctx[w].op, ctx[w].result) /\ op[ctx[w].op].state # "succeeded"
        BY <3>1, <3>2, MovementEnters
      <3>3. CASE UNCHANGED <<entry, fund, op>>
        BY <3>3 DEF Rests
      <3>4. CASE /\ op' = [op EXCEPT ![ctx[w].op] = [@ EXCEPT !.state = "provider_pending",
                                                   !.provider = ctx[w].result,
                                                   !.lease = NoLease, !.expired = FALSE]]
                 /\ UNCHANGED <<entry, fund>>
        BY <3>1, <3>4, Fields DEF EInv, IInv, TypeOK, Row, Rests
      <3> QED
        BY <2>1, <3>2, <3>3, <3>4 DEF Record
    <2>2. ASSUME NEW o \in Op, Claim(w, o)
          PROVE  Rests
      BY <2>2, Fields DEF Claim, EInv, IInv, TypeOK, Row, Rests
    <2>3. CASE Catch(w)
      BY <2>3, Fields DEF Catch, EInv, IInv, TypeOK, Row, Rests
    <2> QED
      BY <1>3, <2>1, <2>2, <2>3
      DEF Process, ClaimThrows, VerifyCharge, Call, RetrieveObject, CallProvider, ReplayCall,
          CallFails, rows, Rests
  <1>4. CASE UNCHANGED vars
    BY <1>4 DEF vars, Rests
  <1> QED
    BY <1>1, <1>2, <1>3, <1>4 DEF Next

\* The step of the escrow that a movement of the ledger is.
LEMMA Moves ==
    ASSUME EInv, Fits, EInv', Fits', NEW o \in Op, Enters(o)
    PROVE  Escrow!Next
  <1> USE DEF Fits
  <1>1. /\ Deposited = Deposited' \/ o = Deposit
        /\ Unneeded = Unneeded' \/ o = Unused
        /\ Paid = Paid' \/ o \in Releases
        /\ Returned = Returned' \/ (o \in Refunds /\ o # Unused)
    <2>1. \A c \in Creators : /\ o # Release(c) => entry'[Release(c)] = entry[Release(c)]
                              /\ o # Cancel(c) => entry'[Cancel(c)] = entry[Cancel(c)]
      BY Operations DEF Enters
    <2>2. Deposited = Deposited' \/ o = Deposit
      BY Operations DEF Enters, Deposited
    <2>3. Unneeded = Unneeded' \/ o = Unused
      BY Operations DEF Enters, Unneeded
    <2>4. Paid = Paid' \/ o \in Releases
      BY <2>1, Operations DEF Paid
    <2>5. Returned = Returned' \/ (o \in Refunds /\ o # Unused)
      BY <2>1, Operations DEF Returned
    <2> QED
      BY <2>2, <2>3, <2>4, <2>5
  <1>2. Escrow!Left = Cardinality(Paid) + Cardinality(Returned) + Unneeded
    \* the module's own copy of the operator
    <2>1. ASSUME NEW S PROVE Escrow!Cardinality(S) = Cardinality(S)
      BY DEF Escrow!Cardinality, Cardinality
    <2> QED
      BY <2>1 DEF Escrow!Left, Paid, Returned, Unneeded
  <1>3. CASE o = Deposit
    <2>1. Paid' = Paid /\ Returned' = Returned /\ Unneeded' = Unneeded
      BY <1>1, <1>3, Operations
    <2>2. Deposited = 0 /\ Deposited' = op[Deposit].amount
      BY <1>3 DEF Enters, Deposited
    <2>3. op[Deposit].amount \in 1 .. MaxSlots
      BY <1>3 DEF Enters, EInv, IInv, TypeOK, FundOfCampaign
    <2>4. Escrow!Capture
      BY <2>1, <2>2, <2>3 DEF Escrow!Capture, Paid, Returned, Unneeded
    <2> QED
      BY <2>4 DEF Escrow!Next
  <1>4. CASE o = Unused
    <2>1. Paid' = Paid /\ Returned' = Returned /\ Deposited' = Deposited
      BY <1>1, <1>4, Operations
    <2>2. Unneeded = 0 /\ Unneeded' = op[Unused].amount /\ op[Unused].amount > 0
      BY <1>4 DEF Enters, Unneeded, EInv, Decided
    <2>3. Unneeded' \in 1 .. (Deposited - Escrow!Left)
      BY <1>2, <2>1, <2>2
    <2>4. Escrow!ReturnUnused
      BY <2>1, <2>2, <2>3 DEF Escrow!ReturnUnused, Paid, Returned, Unneeded
    <2> QED
      BY <2>4 DEF Escrow!Next
  <1>5. ASSUME NEW c \in Creators, o = Release(c)
        PROVE  Escrow!Pay(c)
    <2>1. Returned' = Returned /\ Unneeded' = Unneeded /\ Deposited' = Deposited
      BY <1>1, <1>5, Operations
    <2>2. c \notin Paid /\ Paid' = Paid \cup {c}
      BY <1>5, Operations DEF Enters, Paid
    <2>3. c \notin Returned
      BY <1>5, Operations DEF Enters, Returned, EInv, IInv, Recorded, Queued, Obligations
    <2>4. Cardinality(Paid') = Cardinality(Paid) + 1
      BY <2>2, FS_AddElement
    <2>5. Escrow!Left < Deposited
      BY <1>2, <2>1, <2>4
    <2> QED
      BY <2>1, <2>2, <2>3, <2>5 DEF Escrow!Pay, Paid, Returned, Unneeded
  <1>6. ASSUME NEW c \in Creators, o = Cancel(c)
        PROVE  Escrow!Return(c)
    <2>1. Paid' = Paid /\ Unneeded' = Unneeded /\ Deposited' = Deposited
      BY <1>1, <1>6, Operations
    <2>2. c \notin Returned /\ Returned' = Returned \cup {c}
      BY <1>6, Operations DEF Enters, Returned
    <2>3. c \notin Paid
      BY <1>6, Operations DEF Enters, Paid, EInv, IInv, Recorded, Queued, Obligations
    <2>4. Cardinality(Returned') = Cardinality(Returned) + 1
      BY <2>2, FS_AddElement
    <2>5. Escrow!Left < Deposited
      BY <1>2, <2>1, <2>4
    <2> QED
      BY <2>1, <2>2, <2>3, <2>5 DEF Escrow!Return, Paid, Returned, Unneeded
  <1>7. o \in {Deposit, Unused} \/ \E c \in Creators : o = Release(c) \/ o = Cancel(c)
    BY DEF Op, Releases, Refunds, Release, Cancel
  <1> QED
    BY <1>3, <1>4, <1>5, <1>6, <1>7 DEF Escrow!Next

\* A step that moves nothing is one the escrow does not see.
LEMMA Unmoved == Rests => UNCHANGED Escrow!vars
  <1> SUFFICES ASSUME Rests PROVE UNCHANGED Escrow!vars
    OBVIOUS
  <1>1. Deposited' = Deposited
    BY Operations DEF Rests, Deposited
  <1>2. UNCHANGED <<Paid, Returned, Unneeded>>
    BY Operations DEF Rests, Paid, Returned, Unneeded
  <1> QED
    BY <1>1, <1>2 DEF Escrow!vars, Paid, Returned, Unneeded

LEMMA EscrowStep == EInv /\ EInv' /\ [Next]_vars => [Escrow!Next]_(Escrow!vars)
  <1> SUFFICES ASSUME EInv, EInv', [Next]_vars PROVE [Escrow!Next]_(Escrow!vars)
    OBVIOUS
  <1>1. Fits
    BY Sums
  <1>2. Fits'
    BY Sums, PTL
  <1> QED
    BY <1>1, <1>2, LedgerStep, Moves, Unmoved

LEMMA EscrowInit == Init => Escrow!Init
  <1> SUFFICES ASSUME Init PROVE Escrow!Init
    OBVIOUS
  <1> QED
    BY Operations DEF Init, Escrow!Init, Deposited

(* Every behaviour of the service, the provider and the operators, mapped   *)
(* by the ledger, is a behaviour of the escrow: what is promised of the     *)
(* deposit is kept, for every number of creators, calls, slots and retries. *)
THEOREM LedgerImplementsEscrow == Spec => ImplementsEscrow
  <1>1. Spec => Escrow!Init
    BY EscrowInit DEF Spec
  <1> QED
    BY <1>1, EscrowStep, EscrowInvariance, PTL DEF Spec, ImplementsEscrow, Escrow!Spec

-----------------------------------------------------------------------------
(* A claim that saw a disputed or foreign refund lets no transfer leave.    *)
(* The charge is compared with the refunds recorded at the claim, which are *)
(* never more than what the provider holds now, so a refund made by         *)
(* somebody else shows.                                                     *)

OnHold ==
    /\ \A c \in Creators : \A i \in DOMAIN objects[Release(c)] :
          objects[Release(c)][i].status # "pending"
    /\ \A w \in Workers : ctx[w].op \in Releases =>
          /\ ctx[w].pc = "verify" => /\ ctx[w].expected <= RecordedRefunds
                                     /\ ~ctx[w].clean => hold # "none"
          /\ ctx[w].pc = "call" => ctx[w].clean

HInv == EInv /\ OnHold

\* The live refunds of all cancelled slots, one pair for each.
CancelRefunds == UNION {{c} \X LiveObjects(Cancel(c)) : c \in Creators}

LEMMA LiveFinite ==
    ASSUME EInv, NEW o \in Op
    PROVE  IsFiniteSet(LiveObjects(o))
  <1> DEFINE n == Len(objects[o])
  <1>1. LiveObjects(o) \subseteq 1 .. n /\ n \in Int
    BY Fields DEF EInv, IInv, LiveObjects
  <1> HIDE DEF n
  <1>2. IsFiniteSet(1 .. n)
    BY <1>1, 1 \in Int, FS_Interval
  <1> QED
    BY <1>1, <1>2, FS_Subset

LEMMA CancelRefundsFinite == EInv => IsFiniteSet(CancelRefunds)
  <1> SUFFICES ASSUME EInv PROVE IsFiniteSet(CancelRefunds)
    OBVIOUS
  <1> DEFINE f == [c \in Creators |-> {c} \X LiveObjects(Cancel(c))]
  <1> DEFINE T == {{c} \X LiveObjects(Cancel(c)) : c \in Creators}
  <1>1. f \in Surjection(Creators, T)
    BY DEF Surjection
  <1>2. IsFiniteSet(T)
    BY <1>1, CreatorsAssumption, FS_Surjection
  <1>3. ASSUME NEW c \in Creators
        PROVE  IsFiniteSet({c} \X LiveObjects(Cancel(c)))
    <2>1. IsFiniteSet(LiveObjects(Cancel(c)))
      BY LiveFinite, Operations
    <2> QED
      BY <2>1, FS_Singleton, FS_Product
  <1> QED
    BY <1>2, <1>3, FS_UNION DEF CancelRefunds

\* What the ledger recorded as refunded is still refunded at the provider.
LEMMA RefundsShow ==
    EInv => RecordedRefunds + (IF hold = "refunded" THEN 1 ELSE 0) <= RefundedAtProvider
  <1> SUFFICES ASSUME EInv
               PROVE  RecordedRefunds + (IF hold = "refunded" THEN 1 ELSE 0) <= RefundedAtProvider
    OBVIOUS
  <1>1. Fits
    BY Sums
  <1>2. Cardinality(Returned) <= Cardinality(CancelRefunds) /\ Cardinality(CancelRefunds) \in Nat
    <2> DEFINE g == [c \in Returned |-> <<c, entry[Cancel(c)]>>]
    <2>1. \A c \in Returned : c \in Creators /\ entry[Cancel(c)] \in LiveObjects(Cancel(c))
      BY Operations DEF Returned, EInv, Traced, LedgerBacked, LiveObjects, Live
    <2>2. \A c \in Returned : g[c] \in CancelRefunds
      BY <2>1 DEF CancelRefunds
    <2>3. g \in Injection(Returned, CancelRefunds)
      BY <2>2 DEF Injection, IsInjective
    <2> QED
      BY <2>3, CancelRefundsFinite, FS_Injection, FS_CardinalityType
  <1> DEFINE a == op[Unused].amount
  <1> DEFINE k == Cardinality(LiveObjects(Unused))
  <1>3. a \in Nat
    BY Operations, SlotsAssumption DEF EInv, IInv, TypeOK, Row, Amount
  <1>4. k \in Nat /\ (entry[Unused] # 0 => k # 0)
    <2>1. IsFiniteSet(LiveObjects(Unused))
      BY LiveFinite, Operations
    <2>2. entry[Unused] # 0 => LiveObjects(Unused) # {}
      BY Operations DEF EInv, Traced, LedgerBacked, LiveObjects, Live
    <2> QED
      BY <2>1, <2>2, FS_EmptySet, FS_CardinalityType
  <1> HIDE DEF a, k
  <1>5. Unneeded <= a * k
    <2>1. Unneeded = IF entry[Unused] # 0 THEN a ELSE 0
      BY DEF Unneeded, a
    <2>2. \A x, y \in Nat : x * y >= 0 /\ (y # 0 => x <= x * y)
      OBVIOUS
    <2> QED
      BY <1>3, <1>4, <2>1, <2>2
  <1>6. a * k \in Nat
    BY <1>3, <1>4
  <1>7. RefundedAtProvider = Cardinality(CancelRefunds) + a * k + (IF hold = "refunded" THEN 1 ELSE 0)
    BY DEF RefundedAtProvider, CancelRefunds, a, k
  <1> QED
    BY <1>1, <1>2, <1>5, <1>6, <1>7 DEF Fits

\* No step takes back a recorded refund.
LEMMA RefundsGrow ==
    ASSUME EInv, Fits, EInv', Fits', [Next]_vars
    PROVE  RecordedRefunds <= RecordedRefunds' /\ RecordedRefunds \in Nat /\ RecordedRefunds' \in Nat
  <1> USE DEF Fits
  <1>1. Returned \subseteq Returned' /\ Unneeded <= Unneeded'
    <2>1. CASE Rests
      BY <2>1, Operations DEF Rests, Returned, Unneeded
    <2>2. ASSUME NEW o \in Op, Enters(o)
          PROVE  Returned \subseteq Returned' /\ Unneeded <= Unneeded'
      <3>1. \A p \in Op : entry[p] # 0 => entry'[p] = entry[p] /\ op'[p].amount = op[p].amount
        BY <2>2 DEF Enters
      <3>2. Returned \subseteq Returned'
        BY <3>1, Operations DEF Returned
      <3>3. entry[Unused] # 0 => Unneeded' = Unneeded
        BY <3>1, Operations DEF Unneeded
      <3>4. entry[Unused] = 0 => Unneeded = 0
        BY DEF Unneeded
      <3> QED
        BY <3>2, <3>3, <3>4
    <2> QED
      BY <2>1, <2>2, LedgerStep
  <1>2. Cardinality(Returned) <= Cardinality(Returned')
    BY <1>1, FS_Subset
  <1> QED
    BY <1>1, <1>2

\* What a step of a call does to the two stages of a release that OnHold is about.
Position(w) ==
    ctx[w].op \in Releases =>
        /\ ctx[w].pc = "verify" => /\ ctx[w].expected <= RecordedRefunds
                                   /\ ~ctx[w].clean => hold # "none"
        /\ ctx[w].pc = "call" => ctx[w].clean

LEMMA PositionStays ==
    ASSUME HInv, RecordedRefunds <= RecordedRefunds', RecordedRefunds \in Nat, RecordedRefunds' \in Nat,
           hold # "none" => hold' # "none", NEW w \in Workers,
           ctx'[w] = ctx[w] \/ ctx'[w].pc \notin {"verify", "call"}
    PROVE  Position(w)'
  <1>1. ctx[w].expected \in Nat
    BY Fields DEF HInv, EInv, IInv, Locals
  <1> QED
    BY <1>1 DEF HInv, OnHold, Position

\* A transfer is made at once, so it is never pending.
TransfersMade ==
    \A c \in Creators : \A i \in DOMAIN objects[Release(c)] : objects[Release(c)][i].status # "pending"

LEMMA TransfersStay ==
    ASSUME HInv, EInv', [Next]_vars
    PROVE  TransfersMade'
  <1>1. CASE UNCHANGED objects
    BY <1>1 DEF HInv, OnHold, TransfersMade
  <1>2. ASSUME NEW w \in Workers, NEW s \in ObjectStatus, CallProvider(w, s)
        PROVE  TransfersMade'
    <2> DEFINE o == ctx[w].op
    <2> DEFINE object == [key |-> ctx[w].retry, born |-> s, status |-> s]
    <2>1. o \in Op /\ ctx[w].retry \in Nat /\ objects[o] \in Seq(Object)
      BY Fields DEF HInv, EInv, IInv, Locals
    <2>2. object \in Object /\ object.status = s
      BY <2>1 DEF Object
    <2>3. o \in Releases => s = "succeeded"
      <3>1. o \in Releases => o # Deposit /\ o \notin Refunds
        BY Operations DEF Releases, Release
      <3>2. o \in Releases => BornStatus(o) = {"succeeded"}
        BY <3>1 DEF BornStatus
      <3> QED
        BY <1>2, <3>2 DEF CallProvider
    <2> HIDE DEF object
    <2> DEFINE longer == Append(objects[o], object)
    <2>4. \A i \in DOMAIN longer : (i \in DOMAIN objects[o] /\ longer[i] = objects[o][i]) \/ longer[i] = object
      BY <2>1, <2>2, AppendProperties
    <2>5. objects' = [objects EXCEPT ![o] = longer]
      BY <1>2 DEF CallProvider, CreateObject, object
    <2> HIDE DEF longer
    <2>6. objects'[o] = longer /\ \A p \in Op : p # o => objects'[p] = objects[p]
      BY <2>1, <2>5 DEF HInv, EInv, IInv, TypeOK
    <2> QED
      BY <2>2, <2>3, <2>4, <2>6, Operations DEF HInv, OnHold, TransfersMade
  <1>3. ASSUME NEW o \in Op, NEW i \in 1 .. MaxObjects, NEW s \in ObjectStatus, ProviderSettles(o, i, s)
        PROVE  TransfersMade'
    <2>1. \A c \in Creators : o # Release(c)
      BY <1>3 DEF HInv, OnHold, ProviderSettles, Settle
    <2>2. \A p \in Op : p # o => objects'[p] = objects[p]
      BY <1>3 DEF HInv, EInv, IInv, TypeOK, ProviderSettles, Settle
    <2> QED
      BY <2>1, <2>2, Operations DEF HInv, OnHold, TransfersMade
  <1>4. \/ UNCHANGED objects
        \/ \E w \in Workers, s \in ObjectStatus : CallProvider(w, s)
        \/ \E o \in Op, i \in 1 .. MaxObjects, s \in ObjectStatus : ProviderSettles(o, i, s)
    <2>1. CASE Requests
      BY <2>1
      DEF Requests, EditTerms, OpenDeposit, RequestDeposit, BeforeSave, Launch, FundedLaunch, Pause,
          Complete, AdmitCreator,
          AcceptWork, CancelObligation, RecoverRetryRefund, RecoverVerified, provider
    <2>2. CASE Environment
      BY <2>2
      DEF Environment, Crash, StopForReview, LeaseExpires, Ages, KeyExpires, ForgetKey, ChargeHeld,
          HoldCharge, provider
    <2>3. ASSUME NEW w \in Workers, Process(w)
          PROVE  UNCHANGED objects \/ \E s \in ObjectStatus : CallProvider(w, s)
      BY <2>3
      DEF Process, Claim, ClaimThrows, VerifyCharge, Call, RetrieveObject, ReplayCall, CallFails,
          Record, Catch, provider
    <2>4. CASE UNCHANGED vars
      BY <2>4 DEF vars
    <2> QED
      BY <2>1, <2>2, <2>3, <2>4 DEF Next
  <1> QED
    BY <1>1, <1>2, <1>3, <1>4

LEMMA HoldInitially == Init => HInv
  <1> SUFFICES ASSUME Init PROVE HInv
    OBVIOUS
  <1>1. EInv
    BY EscrowInitially
  <1>2. OnHold
    BY Operations DEF Init, ProviderInit, Idle, OnHold
  <1> QED
    BY <1>1, <1>2 DEF HInv

\* A claim notes what is recorded and whether the charge is on hold.
LEMMA ClaimNotes ==
    ASSUME HInv, NEW w \in Workers, NEW o \in Op, Claim(w, o), RecordedRefunds <= RecordedRefunds'
    PROVE  \A v \in Workers : \/ Position(v)'
                              \/ ctx'[v] = ctx[v]
  <1>1. \A v \in Workers : v # w => ctx'[v] = ctx[v]
    BY DEF Claim, HInv, EInv, IInv, TypeOK
  <1>2. /\ ctx'[w].op = o
        /\ o \in Releases => /\ ctx'[w].pc = "verify"
                             /\ ctx'[w].expected = RecordedRefunds
                             /\ ctx'[w].clean = (hold = "none")
    BY Operations DEF Claim, HInv, EInv, IInv, TypeOK, Idle
  <1>3. hold' = hold
    BY DEF Claim, provider
  <1>4. Position(w)'
    BY <1>2, <1>3 DEF Position
  <1> QED
    BY <1>1, <1>4

\* A transfer is tried only when the charge shows no refund but those recorded, and no dispute.
LEMMA VerifyShows ==
    ASSUME HInv, NEW w \in Workers, VerifyCharge(w)
    PROVE  \A v \in Workers : \/ Position(v)'
                              \/ ctx'[v] = ctx[v]
  <1>1. \A v \in Workers : v # w => ctx'[v] = ctx[v]
    BY DEF VerifyCharge, HInv, EInv, IInv, TypeOK
  <1>2. /\ ctx[w] \in Locals /\ ctx[w].expected \in Nat
        /\ ctx'[w].op = ctx[w].op /\ ctx'[w].clean = ctx[w].clean
        /\ ctx'[w].pc \in {"call", "catch"}
    BY Fields DEF VerifyCharge, HInv, EInv, IInv, TypeOK, Locals
  <1>3. ASSUME ctx[w].op \in Releases, ctx'[w].pc = "call"
        PROVE  ctx[w].clean
    <2>1. hold # "disputed" /\ RefundedAtProvider = ctx[w].expected
      BY <1>2, <1>3 DEF VerifyCharge, HInv, EInv, IInv, TypeOK, Locals
    <2>2. ctx[w].expected <= RecordedRefunds /\ (~ctx[w].clean => hold # "none")
      BY <1>3 DEF VerifyCharge, HInv, OnHold
    <2>3. hold # "refunded"
      <3>1. RecordedRefunds \in Nat
        BY RecordedRefundsType DEF HInv, EInv, IInv
      <3>2. RecordedRefunds + (IF hold = "refunded" THEN 1 ELSE 0) <= RefundedAtProvider
        BY RefundsShow DEF HInv
      <3> QED
        BY <1>2, <2>1, <2>2, <3>1, <3>2
    <2> QED
      BY <2>1, <2>2, <2>3 DEF HInv, EInv, IInv, TypeOK
  <1>4. Position(w)'
    BY <1>2, <1>3 DEF Position
  <1> QED
    BY <1>1, <1>4

LEMMA HoldInductive == HInv /\ EInv' /\ Fits /\ Fits' /\ [Next]_vars => HInv'
  <1> SUFFICES ASSUME HInv, EInv', Fits, Fits', [Next]_vars PROVE HInv'
    OBVIOUS
  <1>1. RecordedRefunds <= RecordedRefunds' /\ RecordedRefunds \in Nat /\ RecordedRefunds' \in Nat
    BY RefundsGrow DEF HInv
  <1>2. TransfersMade'
    BY TransfersStay
  <1>3. hold # "none" => hold' # "none"
    <2>1. CASE Requests
      BY <2>1
      DEF Requests, EditTerms, OpenDeposit, RequestDeposit, BeforeSave, Launch, FundedLaunch, Pause,
          Complete, AdmitCreator,
          AcceptWork, CancelObligation, RecoverRetryRefund, RecoverVerified, provider
    <2>2. CASE Environment
      BY <2>2
      DEF Environment, Crash, StopForReview, LeaseExpires, Ages, KeyExpires, ForgetKey,
          ProviderSettles, Settle, ChargeHeld, HoldCharge, provider
    <2>3. ASSUME NEW w \in Workers, Process(w)
          PROVE  hold' = hold
      BY <2>3
      DEF Process, Claim, ClaimThrows, VerifyCharge, Call, RetrieveObject, CallProvider,
          CreateObject, ReplayCall, CallFails, Record, Catch, provider
    <2> QED
      BY <2>1, <2>2, <2>3 DEF Next, vars
  <1>4. ASSUME NEW w \in Workers, Process(w)
        PROVE  \A v \in Workers : \/ Position(v)'
                                  \/ ctx'[v] = ctx[v]
                                  \/ ctx'[v].pc \notin {"verify", "call"}
    <2>1. ASSUME NEW o \in Op, Claim(w, o)
          PROVE  \A v \in Workers : Position(v)' \/ ctx'[v] = ctx[v]
      BY <1>1, <2>1, ClaimNotes
    <2>2. CASE VerifyCharge(w)
      BY <2>2, VerifyShows
    <2>3. CASE ~VerifyCharge(w) /\ \A o \in Op : ~Claim(w, o)
      <3>1. ctx[w] \in Locals
        BY Fields DEF HInv, EInv, IInv
      <3>2. ASSUME NEW i, NEW s, Answer(w, i, s)
            PROVE  /\ ctx'[w].pc \notin {"verify", "call"}
                   /\ \A v \in Workers : v # w => ctx'[v] = ctx[v]
        BY <3>1, <3>2 DEF Answer, Locals, HInv, EInv, IInv, TypeOK
      <3>3. ASSUME CallFails(w) \/ Record(w) \/ Catch(w)
            PROVE  /\ ctx'[w].pc \notin {"verify", "call"}
                   /\ \A v \in Workers : v # w => ctx'[v] = ctx[v]
        <4>1. CASE CallFails(w)
          BY <3>1, <4>1 DEF CallFails, Locals, HInv, EInv, IInv, TypeOK
        <4>2. CASE Record(w) \/ Catch(w)
          <5>1. ctx' = [ctx EXCEPT ![w] = Idle]
            BY <4>2 DEF Record, Catch
          <5> QED
            BY <5>1 DEF Idle, HInv, EInv, IInv, TypeOK
        <4> QED
          BY <3>3, <4>1, <4>2
      <3>4. ASSUME NEW o \in Op, ClaimThrows(w, o)
            PROVE  /\ ctx'[w].pc \notin {"verify", "call"}
                   /\ \A v \in Workers : v # w => ctx'[v] = ctx[v]
        BY <3>4 DEF ClaimThrows, Idle, HInv, EInv, IInv, TypeOK
      <3> QED
        BY <1>4, <2>3, <3>2, <3>3, <3>4
        DEF Process, Call, RetrieveObject, CallProvider, ReplayCall
    <2> QED
      BY <2>1, <2>2, <2>3
  <1>5. ASSUME Requests \/ Environment \/ UNCHANGED vars
        PROVE  \A v \in Workers : \/ ctx'[v] = ctx[v]
                                  \/ ctx'[v].pc \notin {"verify", "call"}
    <2>1. ASSUME NEW w \in Workers, Crash(w)
          PROVE  \A v \in Workers : ctx'[v] = ctx[v] \/ ctx'[v].pc \notin {"verify", "call"}
      BY <2>1 DEF Crash, Idle, HInv, EInv, IInv, TypeOK
    <2>2. (\A w \in Workers : ~Crash(w)) => ctx' = ctx
      BY <1>5
      DEF Requests, EditTerms, OpenDeposit, RequestDeposit, BeforeSave, Launch, FundedLaunch, Pause,
          Complete, AdmitCreator,
          AcceptWork, CancelObligation, RecoverRetryRefund, RecoverVerified, Environment,
          StopForReview, LeaseExpires, Ages, KeyExpires, ProviderSettles, ChargeHeld, vars
    <2> QED
      BY <2>1, <2>2
  <1>6. \A v \in Workers : Position(v)'
    BY <1>1, <1>3, <1>4, <1>5, PositionStays DEF Next
  <1> QED
    BY <1>2, <1>6 DEF HInv, OnHold, Position, TransfersMade

LEMMA HoldInvariance == Spec => []HInv
  <1>1. EInv => Fits
    BY Sums
  <1>2. HInv => EInv
    BY DEF HInv
  <1> QED
    BY <1>1, <1>2, HoldInitially, HoldInductive, EscrowInvariance, PTL DEF Spec

LEMMA TransferNeedsClean ==
    ASSUME HInv, [Next]_vars, NEW c \in Creators, objects'[Release(c)] # objects[Release(c)]
    PROVE  \E w \in Workers : ctx[w].pc = "call" /\ ctx[w].op = Release(c) /\ ctx[w].clean
  <1>1. CASE Requests
    BY <1>1
    DEF Requests, EditTerms, OpenDeposit, RequestDeposit, BeforeSave, Launch, FundedLaunch, Pause,
        Complete, AdmitCreator,
        AcceptWork, CancelObligation, RecoverRetryRefund, RecoverVerified, provider
  <1>2. CASE Environment
    <2>1. ASSUME NEW o \in Op, NEW i \in 1 .. MaxObjects, NEW s \in ObjectStatus, ProviderSettles(o, i, s)
          PROVE  o # Release(c) /\ objects'[Release(c)] = objects[Release(c)]
      <3>1. o # Release(c)
        BY <2>1 DEF HInv, OnHold, ProviderSettles, Settle
      <3> QED
        BY <2>1, <3>1, Operations DEF HInv, EInv, IInv, TypeOK, ProviderSettles, Settle
    <2> QED
      BY <1>2, <2>1
      DEF Environment, Crash, StopForReview, LeaseExpires, Ages, KeyExpires, ForgetKey, ChargeHeld,
          HoldCharge, provider
  <1>3. ASSUME NEW w \in Workers, Process(w)
        PROVE  ctx[w].pc = "call" /\ ctx[w].op = Release(c) /\ ctx[w].clean
    <2>1. PICK s \in ObjectStatus : CallProvider(w, s)
      BY <1>3
      DEF Process, Claim, ClaimThrows, VerifyCharge, Call, RetrieveObject, ReplayCall, CallFails,
          Record, Catch, provider
    <2>2. ctx[w].op = Release(c)
      BY <2>1, Operations DEF CallProvider, CreateObject, HInv, EInv, IInv, TypeOK
    <2> QED
      BY <2>1, <2>2, Operations DEF CallProvider, HInv, OnHold
  <1> QED
    BY <1>1, <1>2, <1>3 DEF Next, vars

(* A charge that was disputed, or refunded by somebody else, before an      *)
(* operation was claimed lets no transfer leave under that claim, however   *)
(* many refunds of the flow itself are in flight on the same charge.        *)
THEOREM HoldStopsTransfers == Spec => NoTransferUnderHold
  <1> DEFINE Clean == \A c \in Creators :
                        objects'[Release(c)] # objects[Release(c)] =>
                          \E w \in Workers : ctx[w].pc = "call" /\ ctx[w].op = Release(c) /\ ctx[w].clean
  <1>1. HInv /\ [Next]_vars => [Clean]_vars
    BY TransferNeedsClean
  <1> QED
    BY <1>1, HoldInvariance, PTL DEF Spec, NoTransferUnderHold
-----------------------------------------------------------------------------
(* A refund may be retried under a fresh key, so that one key per operation *)
(* does not bound what is made for it.  What does, as long as no call is    *)
(* stalled past its own lease: the call that claimed a row has it to itself,*)
(* and a retry is allowed only after the attempt before it has failed.      *)

\* The row is as the call that claimed it left it, and the answer is to the present retry.
Fence(w, call, row, made) ==
    /\ row.lease = w /\ ~row.expired
    /\ row.state = "processing" /\ ~row.aged
    /\ call.retry = row.retry /\ call.provider = row.provider
    /\ call.pc = "record" => made[call.result].key = call.retry

(* Each attempt was made under the key of its retry, those of earlier       *)
(* retries failed, and the key of the present one is forgotten only for a   *)
(* row that aged without an answer.                                         *)
Attempts(row, made, known) ==
    /\ \A i \in DOMAIN made :
         /\ made[i].key <= row.retry
         /\ made[i].key < row.retry => made[i].status = "failed"
         /\ made[i].key = row.retry => row.retry \in known \/ row.aged
    /\ \A i, j \in DOMAIN made : made[i].key = made[j].key => i = j
    /\ row.aged => row.attempted /\ (row.provider = 0 \/ row.state = "succeeded")
    /\ row.provider # 0 /\ row.state # "succeeded" => made[row.provider].key = row.retry

Alone ==
    \A o \in Refunds :
        /\ Attempts(op[o], objects[o], keys[o])
        /\ \A w \in Workers : Holds(w, o) => Fence(w, ctx[w], op[o], objects[o])

LEMMA RefundFields ==
    ASSUME EInv, NEW o \in Refunds
    PROVE  /\ o \in Op /\ o # Deposit /\ o \notin Releases
           /\ op[o] \in Row /\ objects[o] \in Seq(Object)
           /\ \A i \in DOMAIN objects[o] :
                i \in Nat \ {0} /\ objects[o][i] \in Object /\ objects[o][i].key \in Nat
           /\ op[o].retry \in Nat
           /\ op[o].provider \in {0} \cup DOMAIN objects[o]
  <1>1. o \in Op /\ o # Deposit /\ o \notin Releases
    BY Operations DEF Op, Refunds, Releases, Unused
  <1>2. op[o] \in Row /\ objects[o] \in Seq(Object)
    BY <1>1, Fields DEF EInv, IInv
  <1>3. \A i \in DOMAIN objects[o] : i \in Nat \ {0} /\ objects[o][i] \in Object
    BY <1>2, ElementOfSeq, LenProperties
  <1> QED
    BY <1>1, <1>2, <1>3 DEF Object, Row, EInv, Traced, RowTraced

\* Nobody is at work on a refund that may be claimed, or that was not queued.
LEMMA Unheld ==
    ASSUME EInv, Alone, NEW o \in Refunds, LeaseFree(o) \/ op[o].state = "absent"
    PROVE  \A w \in Workers : ~Holds(w, o)
  BY WorkersAssumption DEF Alone, Fence, LeaseFree

LEMMA RowsAlone ==
    ASSUME EInv, Alone, NEW o \in Op, NEW r \in Row, op' = [op EXCEPT ![o] = r],
           UNCHANGED <<ctx, objects, keys>>,
           o \in Refunds => /\ Attempts(r, objects[o], keys[o])
                            /\ \A w \in Workers : ~Holds(w, o)
    PROVE  Alone'
  <1>1. op'[o] = r /\ \A p \in Op : p # o => op'[p] = op[p]
    BY RowChange DEF EInv, IInv
  <1>2. \A p \in Refunds, w \in Workers : Holds(w, p)' <=> Holds(w, p)
    BY DEF Holds
  <1>3. ASSUME NEW p \in Refunds
        PROVE  /\ Attempts(op'[p], objects'[p], keys'[p])
               /\ \A w \in Workers : Holds(w, p)' => Fence(w, ctx'[w], op'[p], objects'[p])
    <2>1. p \in Op
      BY RefundFields
    <2>2. CASE p = o
      BY <1>1, <1>2, <2>2
    <2>3. CASE p # o
      <3>1. op'[p] = op[p]
        BY <1>1, <2>1, <2>3
      <3> QED
        BY <1>2, <3>1 DEF Alone
    <2> QED
      BY <2>2, <2>3
  <1> QED
    BY <1>3 DEF Alone

\* A row and a call change together: the call has claimed the row, or is done with it.
LEMMA BothAlone ==
    ASSUME EInv, Alone, NEW w \in Workers, NEW c \in Locals, ctx' = [ctx EXCEPT ![w] = c],
           NEW o \in Op, NEW r \in Row, op' = [op EXCEPT ![o] = r],
           UNCHANGED <<objects, keys>>,
           o \in Refunds => /\ Attempts(r, objects[o], keys[o])
                            /\ \A v \in Workers \ {w} : Holds(v, o) => r = op[o],
           c.prepared => c.op = o /\ (o \in Refunds => Fence(w, c, r, objects[o]))
    PROVE  Alone'
  <1>1. op'[o] = r /\ \A p \in Op : p # o => op'[p] = op[p]
    BY RowChange DEF EInv, IInv
  <1>2. ctx'[w] = c /\ \A v \in Workers : v # w => ctx'[v] = ctx[v]
    BY DEF EInv, IInv, TypeOK
  <1>3. ASSUME NEW p \in Refunds
        PROVE  /\ Attempts(op'[p], objects'[p], keys'[p])
               /\ \A v \in Workers : Holds(v, p)' => Fence(v, ctx'[v], op'[p], objects'[p])
    <2>1. p \in Op
      BY RefundFields
    <2>2. Attempts(op'[p], objects'[p], keys'[p])
      <3>1. CASE p = o
        BY <1>1, <3>1
      <3>2. CASE p # o
        <4>1. op'[p] = op[p]
          BY <1>1, <2>1, <3>2
        <4> QED
          BY <4>1 DEF Alone
      <3> QED
        BY <3>1, <3>2
    <2>3. ASSUME NEW v \in Workers, Holds(v, p)'
          PROVE  Fence(v, ctx'[v], op'[p], objects'[p])
      <3>1. CASE v = w
        <4>1. c.prepared /\ c.op = p
          BY <1>2, <2>3, <3>1 DEF Holds
        <4> QED
          BY <1>1, <1>2, <3>1, <4>1
      <3>2. CASE v # w
        <4>1. ctx'[v] = ctx[v] /\ Holds(v, p)
          BY <1>2, <2>3, <3>2 DEF Holds
        <4>2. op'[p] = op[p]
          BY <1>1, <2>1, <3>2, <4>1
        <4> QED
          BY <4>1, <4>2 DEF Alone
      <3> QED
        BY <3>1, <3>2
    <2> QED
      BY <2>2, <2>3
  <1> QED
    BY <1>3 DEF Alone

\* A call goes on about the same row, or leaves it.
LEMMA CallsAlone ==
    ASSUME EInv, Alone, NEW w \in Workers, NEW c \in Locals, ctx' = [ctx EXCEPT ![w] = c],
           UNCHANGED <<op, objects, keys>>,
           c.prepared => /\ c.op = ctx[w].op
                         /\ c.op \in Refunds => Fence(w, c, op[c.op], objects[c.op])
    PROVE  Alone'
  <1>1. PICK o \in Op : o = ctx[w].op
    BY Fields DEF EInv, IInv
  <1>2. PICK r \in Row : r = op[o]
    BY <1>1, Fields DEF EInv, IInv
  <1>3. op' = [op EXCEPT ![o] = r]
    BY <1>2 DEF EInv, IInv, TypeOK
  <1>4. o \in Refunds => /\ Attempts(r, objects[o], keys[o])
                        /\ \A v \in Workers \ {w} : Holds(v, o) => r = op[o]
    BY <1>2 DEF Alone
  <1>5. c.prepared => c.op = o /\ (o \in Refunds => Fence(w, c, r, objects[o]))
    BY <1>1, <1>2
  <1>6. UNCHANGED <<objects, keys>>
    OBVIOUS
  <1> QED
    BY <1>3, <1>4, <1>5, <1>6, BothAlone, Zenon

\* A new operation has no attempts.
LEMMA QueuesAlone ==
    ASSUME EInv, Alone, NEW o \in Op, NEW n \in Amount, op[o].state = "absent",
           op' = [op EXCEPT ![o] = NewRow(n)], UNCHANGED <<ctx, objects, keys>>
    PROVE  Alone'
  <1>1. NewRow(n) \in Row
    BY NewRows
  <1>2. objects[o] = << >>
    BY DEF EInv, Made
  <1>3. Attempts(NewRow(n), objects[o], keys[o])
    BY <1>2 DEF Attempts, NewRow, NoRow
  <1> QED
    BY <1>1, <1>3, Unheld, RowsAlone

-----------------------------------------------------------------------------
(* The requests.                                                            *)

LEMMA RequestsAlone ==
    ASSUME EInv, Alone, Requests
    PROVE  Alone'
  <1>1. CASE UNCHANGED <<op, ctx, objects, keys>>
    BY <1>1 DEF Alone, Holds
  <1>2. CASE QueuesNothing
    BY <1>1, <1>2
    DEF QueuesNothing, EditTerms, BeforeSave, Launch, FundedLaunch, Pause, AdmitCreator, RequestDeposit, provider
  <1>3. ASSUME NEW n \in 1 .. MaxSlots, OpenDeposit(n)
        PROVE  Alone'
    <2>1. n \in Amount
      BY SlotsAssumption DEF Amount
    <2>2. CASE status = "draft" /\ slots = n /\ op[Deposit].state = "absent"
      BY <1>3, <2>1, <2>2, QueuesAlone, Operations DEF OpenDeposit, provider
    <2>3. CASE UNCHANGED op
      BY <1>1, <1>3, <2>3 DEF OpenDeposit, provider
    <2> QED
      BY <1>3, <2>2, <2>3 DEF OpenDeposit
  <1>4. ASSUME Complete
        PROVE  Alone'
    <2>1. UNCHANGED <<ctx, objects, keys>>
      BY <1>4 DEF Complete, provider
    <2>2. CASE UNCHANGED op
      BY <1>1, <2>1, <2>2
    <2>3. CASE op' # op
      <3>1. /\ fund.state = "funded" /\ UnusedSlots > 0
            /\ op' = [op EXCEPT ![Unused] = NewRow(UnusedSlots)]
        BY <1>4, <2>3 DEF Complete, CloseFund
      <3>2. op[Unused].state = "absent"
        BY <3>1 DEF EInv, IInv, Queued
      <3>3. UnusedSlots \in Amount
        <4>1. Cardinality(obligated) \in Nat
          BY CreatorSets DEF EInv, IInv, TypeOK
        <4> QED
          BY <3>1, <4>1, SlotsAssumption DEF UnusedSlots, Amount, EInv, IInv, TypeOK
      <3> QED
        BY <2>1, <3>1, <3>2, <3>3, QueuesAlone, Operations
    <2> QED
      BY <2>2, <2>3
  <1>5. 1 \in Amount
    BY SlotsAssumption DEF Amount
  <1>6. ASSUME NEW c \in Creators, AcceptWork(c)
        PROVE  Alone'
    <2>1. CASE op[Release(c)].state = "absent"
      BY <1>5, <1>6, <2>1, QueuesAlone, Operations DEF AcceptWork, provider
    <2>2. CASE op[Release(c)].state # "absent"
      BY <1>1, <1>6, <2>2 DEF AcceptWork, provider
    <2> QED
      BY <2>1, <2>2
  <1>7. ASSUME NEW c \in Creators, CancelObligation(c)
        PROVE  Alone'
    BY <1>5, <1>7, QueuesAlone, Operations DEF CancelObligation, provider
  <1>8. ASSUME NEW o \in Op, RecoverRetryRefund(o)
        PROVE  Alone'
    <2> USE DEF RecoverRetryRefund, provider
    <2> DEFINE r == [NewRow(op[o].amount) EXCEPT !.retry = op[o].retry + 1]
    <2>1. o \in Refunds /\ op[o] \in Row /\ op[o].retry \in Nat
      BY <1>8, RefundFields
    <2>2. NewRow(op[o].amount) \in Row /\ op[o].retry + 1 \in Nat
      BY <2>1, NewRows DEF Row
    <2>3. r \in Row
      BY <2>2 DEF Row
    <2>4. r.retry = op[o].retry + 1 /\ ~r.aged /\ r.provider = 0
      BY DEF NewRow, NoRow
    <2>5. op' = [op EXCEPT ![o] = r]
      BY <1>8
    <2> HIDE DEF r
    <2>6. \A i \in DOMAIN objects[o] : objects[o][i].status = "failed" /\ objects[o][i].key <= op[o].retry
      <3>1. /\ op[o].provider \in DOMAIN objects[o]
            /\ objects[o][op[o].provider].status = "failed"
            /\ objects[o][op[o].provider].key = op[o].retry
        BY <1>8, <2>1, RefundFields DEF Alone, Attempts
      <3>2. ASSUME NEW i \in DOMAIN objects[o]
            PROVE  objects[o][i].status = "failed" /\ objects[o][i].key <= op[o].retry
        <4>1. objects[o][i].key \in Nat /\ objects[o][i].key <= op[o].retry
          BY <2>1, RefundFields DEF Alone, Attempts
        <4>2. CASE objects[o][i].key < op[o].retry
          BY <2>1, <4>1, <4>2 DEF Alone, Attempts
        <4>3. CASE objects[o][i].key = op[o].retry
          <5>1. i = op[o].provider
            BY <2>1, <3>1, <4>3 DEF Alone, Attempts
          <5> QED
            BY <3>1, <4>1, <5>1
        <4> QED
          BY <2>1, <4>1, <4>2, <4>3
      <3> QED
        BY <3>2
    <2>7. Attempts(r, objects[o], keys[o])
      <3>1. \A i, j \in DOMAIN objects[o] : objects[o][i].key = objects[o][j].key => i = j
        BY <2>1 DEF Alone, Attempts
      <3>2. \A i \in DOMAIN objects[o] :
              objects[o][i].key < r.retry /\ objects[o][i].status = "failed"
        BY <2>1, <2>4, <2>6, RefundFields
      <3>3. \A i \in DOMAIN objects[o] : objects[o][i].key <= r.retry /\ objects[o][i].key # r.retry
        BY <2>1, <2>4, <3>2, RefundFields
      <3> QED
        BY <2>4, <3>1, <3>2, <3>3 DEF Attempts
    <2> QED
      BY <1>8, <2>1, <2>3, <2>5, <2>7, Unheld, RowsAlone
  <1>9. ASSUME NEW o \in Op, NEW i \in 1 .. MaxObjects, RecoverVerified(o, i)
        PROVE  Alone'
    <2> USE DEF RecoverVerified, provider
    <2> DEFINE r == [op[o] EXCEPT !.state = "succeeded", !.provider = i,
                                  !.lease = NoLease, !.expired = FALSE]
    <2>1. op[o] \in Row
      BY Fields DEF EInv, IInv
    <2>2. /\ r.state = "succeeded" /\ r.retry = op[o].retry
          /\ r.aged = op[o].aged /\ r.attempted = op[o].attempted
      BY <2>1 DEF Row
    <2>3. i \in Nat
      BY MaxObjectsAssumption
    <2>4. r \in Row
      BY <2>1, <2>3 DEF Row, OpState
    <2>5. op' = [op EXCEPT ![o] = r]
      BY <1>9 DEF RecordMovement
    <2> HIDE DEF r
    <2>6. o \in Refunds => Attempts(r, objects[o], keys[o])
      BY <2>2 DEF Alone, Attempts
    <2> QED
      BY <1>9, <2>4, <2>5, <2>6, Unheld, RowsAlone
  <1> QED
    BY <1>2, <1>3, <1>4, <1>6, <1>7, <1>8, <1>9 DEF Requests, QueuesNothing

-----------------------------------------------------------------------------
(* Time, and the provider on its own.                                       *)

LEMMA TimeAlone ==
    ASSUME EInv, Alone, LeaseMargin, NEW o \in Op, StopForReview(o) \/ LeaseExpires(o) \/ Ages(o)
    PROVE  Alone'
  <1>1. op[o] \in Row
    BY Fields DEF EInv, IInv
  <1>2. UNCHANGED <<ctx, objects, keys>>
    BY DEF StopForReview, LeaseExpires, Ages, provider
  <1>3. o \in Refunds => \A w \in Workers : ~Holds(w, o)
    BY Unheld DEF StopForReview, Due, LeaseExpires, Ages
  <1>4. PICK r \in Row :
          /\ op' = [op EXCEPT ![o] = r]
          /\ r.retry = op[o].retry /\ r.provider = op[o].provider /\ r.attempted = op[o].attempted
          /\ r.state = op[o].state \/ (op[o].state # "succeeded" /\ r.state = "review")
          /\ r.aged = op[o].aged \/ (r.aged /\ op[o].attempted /\ op[o].provider = 0)
    <2>1. CASE StopForReview(o)
      <3> DEFINE r == [op[o] EXCEPT !.state = "review"]
      <3>1. /\ r \in Row /\ r.retry = op[o].retry /\ r.provider = op[o].provider
            /\ r.attempted = op[o].attempted /\ r.state = "review" /\ r.aged = op[o].aged
        BY <1>1 DEF Row, OpState
      <3>2. op' = [op EXCEPT ![o] = r] /\ op[o].state # "succeeded"
        BY <2>1 DEF StopForReview, Due
      <3> HIDE DEF r
      <3> QED
        BY <3>1, <3>2
    <2>2. CASE LeaseExpires(o)
      <3> DEFINE r == [op[o] EXCEPT !.expired = TRUE]
      <3>1. /\ r \in Row /\ r.retry = op[o].retry /\ r.provider = op[o].provider
            /\ r.attempted = op[o].attempted /\ r.state = op[o].state /\ r.aged = op[o].aged
        BY <1>1 DEF Row, OpState
      <3>2. op' = [op EXCEPT ![o] = r]
        BY <2>2 DEF LeaseExpires
      <3> HIDE DEF r
      <3> QED
        BY <3>1, <3>2
    <2>3. CASE Ages(o)
      <3> DEFINE r == [op[o] EXCEPT !.aged = TRUE]
      <3>1. /\ r \in Row /\ r.retry = op[o].retry /\ r.provider = op[o].provider
            /\ r.attempted = op[o].attempted /\ r.state = op[o].state /\ r.aged
        BY <1>1 DEF Row, OpState
      <3>2. op' = [op EXCEPT ![o] = r] /\ op[o].attempted /\ op[o].provider = 0
        BY <2>3 DEF Ages
      <3> HIDE DEF r
      <3> QED
        BY <3>1, <3>2
    <2> QED
      BY <2>1, <2>2, <2>3
  <1>5. o \in Refunds => Attempts(r, objects[o], keys[o])
    BY <1>4 DEF Alone, Attempts
  <1> QED
    BY <1>2, <1>3, <1>4, <1>5, RowsAlone

LEMMA ForgetsAlone ==
    ASSUME EInv, Alone, NEW o \in Op, KeyExpires(o)
    PROVE  Alone'
  <1>1. UNCHANGED <<op, ctx, objects>>
    BY DEF KeyExpires, ForgetKey, rows
  <1>2. /\ op[o].aged /\ keys' = [keys EXCEPT ![o] = @ \ {op[o].retry}]
        /\ \A p \in Op : p # o => keys'[p] = keys[p]
    BY DEF EInv, IInv, TypeOK, KeyExpires, ForgetKey
  <1>3. ASSUME NEW p \in Refunds
        PROVE  Attempts(op'[p], objects'[p], keys'[p])
    <2>1. Attempts(op[p], objects[p], keys[p]) /\ p \in Op
      BY RefundFields DEF Alone
    <2>2. op[p].aged \/ keys'[p] = keys[p]
      BY <1>2, <2>1
    <2> QED
      BY <1>1, <2>1, <2>2 DEF Attempts
  <1> QED
    BY <1>1, <1>3 DEF Alone, Holds

LEMMA SettlesAlone ==
    ASSUME EInv, Alone, NEW o \in Op, NEW i \in 1 .. MaxObjects, NEW s \in ObjectStatus,
           ProviderSettles(o, i, s)
    PROVE  Alone'
  <1> USE DEF ProviderSettles, Settle
  <1>1. UNCHANGED <<op, ctx, keys>>
    BY DEF rows
  <1>2. \A p \in Op : /\ DOMAIN objects'[p] = DOMAIN objects[p]
                      /\ \A j \in DOMAIN objects[p] :
                           /\ objects'[p][j].key = objects[p][j].key
                           /\ objects[p][j].status = "failed" => objects'[p][j].status = "failed"
    <2>1. objects[o] \in Seq(Object) /\ objects[o][i] \in Object /\ i \in DOMAIN objects[o]
      BY Fields, ObjectFields DEF EInv, IInv
    <2> DEFINE object == [objects[o][i] EXCEPT !.status = s]
    <2>2. object.key = objects[o][i].key
      BY <2>1 DEF Object
    <2> DEFINE settled == [objects[o] EXCEPT ![i] = object]
    <2>3. objects' = [objects EXCEPT ![o] = settled]
      OBVIOUS
    <2> HIDE DEF object
    <2>4. /\ DOMAIN settled = DOMAIN objects[o] /\ settled[i] = object
          /\ \A j \in DOMAIN objects[o] : j # i => settled[j] = objects[o][j]
      BY <2>1
    <2> HIDE DEF settled
    <2>5. objects'[o] = settled /\ \A p \in Op : p # o => objects'[p] = objects[p]
      BY <2>3 DEF EInv, IInv, TypeOK
    <2> QED
      BY <2>2, <2>4, <2>5
  <1>3. ASSUME NEW p \in Refunds
        PROVE  /\ Attempts(op'[p], objects'[p], keys'[p])
               /\ \A w \in Workers : Holds(w, p)' => Fence(w, ctx'[w], op'[p], objects'[p])
    <2>1. /\ Attempts(op[p], objects[p], keys[p]) /\ p \in Op
          /\ op[p].provider \in {0} \cup DOMAIN objects[p]
      BY RefundFields DEF Alone
    <2>2. Attempts(op'[p], objects'[p], keys'[p])
      BY <1>1, <1>2, <2>1 DEF Attempts
    <2>3. ASSUME NEW w \in Workers, Holds(w, p)
          PROVE  Fence(w, ctx'[w], op'[p], objects'[p])
      <3>1. Fence(w, ctx[w], op[p], objects[p])
        BY <2>3 DEF Alone
      <3>2. ctx[w].pc = "record" => ctx[w].result \in DOMAIN objects[p]
        BY <2>3 DEF EInv, Traced, CallTraced, Holds
      <3> QED
        BY <1>1, <1>2, <2>1, <3>1, <3>2 DEF Fence
    <2>4. \A w \in Workers : Holds(w, p)' <=> Holds(w, p)
      BY <1>1 DEF Holds
    <2> QED
      BY <2>2, <2>3, <2>4, <1>1
  <1> QED
    BY <1>3 DEF Alone

-----------------------------------------------------------------------------
(* The calls of process().                                                  *)

\* What a call that is not idle and has a claim knows of its refund.
LEMMA AtWork ==
    ASSUME EInv, Alone, NEW w \in Workers, ctx[w].pc \in {"verify", "call", "record"},
           ctx[w].op \in Refunds
    PROVE  Holds(w, ctx[w].op) /\ Fence(w, ctx[w], op[ctx[w].op], objects[ctx[w].op])
  BY DEF EInv, OneKey, Holds, Alone

\* A call that claims a refund finds it free, and not aged without an answer.
LEMMA ClaimsAlone ==
    ASSUME EInv, Alone, NEW w \in Workers, NEW o \in Op, Claim(w, o)
    PROVE  Alone'
  <1> USE DEF Claim, provider
  <1> DEFINE r == [op[o] EXCEPT !.state = "processing", !.attempted = TRUE,
                                !.lease = w, !.expired = FALSE]
  <1> DEFINE c == [Idle EXCEPT !.pc = IF o = Deposit THEN "call" ELSE "verify",
                               !.op = o, !.prepared = TRUE,
                               !.provider = op[o].provider, !.retry = op[o].retry,
                               !.expected = IF o \in Releases THEN RecordedRefunds ELSE 0,
                               !.clean = (hold = "none")]
  <1>1. op[o] \in Row /\ op[o].state \notin {"absent", "succeeded"}
    BY Fields DEF EInv, IInv, Due
  <1>2. /\ r \in Row /\ r.state = "processing" /\ r.provider = op[o].provider /\ r.retry = op[o].retry
        /\ r.attempted /\ r.aged = op[o].aged /\ r.lease = w /\ ~r.expired
    BY <1>1 DEF Row, OpState
  <1>3. /\ c.pc \in {"call", "verify"} /\ c.op = o /\ c.prepared
        /\ c.provider = op[o].provider /\ c.retry = op[o].retry
    BY DEF Idle
  <1>4. c \in Locals
    <2>1. RecordedRefunds \in Nat /\ op[o].provider \in Nat /\ op[o].retry \in Nat
      BY <1>1, RecordedRefundsType DEF EInv, IInv, Row
    <2> QED
      BY <2>1, CallEnds DEF Idle, Locals
  <1>5. op' = [op EXCEPT ![o] = r] /\ ctx' = [ctx EXCEPT ![w] = c] /\ UNCHANGED <<objects, keys>>
    OBVIOUS
  <1>6. LeaseFree(o) /\ ~Overdue(o)
    BY DEF Due
  <1> HIDE DEF r, c
  <1>7. ASSUME o \in Refunds
        PROVE  /\ Attempts(r, objects[o], keys[o])
               /\ \A v \in Workers \ {w} : Holds(v, o) => r = op[o]
               /\ Fence(w, c, r, objects[o])
    <2>1. Attempts(op[o], objects[o], keys[o]) /\ \A v \in Workers : ~Holds(v, o)
      BY <1>6, <1>7, Unheld DEF Alone
    <2>2. ~op[o].aged
      BY <1>1, <1>6, <2>1 DEF Attempts, Overdue
    <2>3. Attempts(r, objects[o], keys[o])
      BY <1>1, <1>2, <2>1, <2>2 DEF Attempts
    <2> QED
      BY <1>2, <1>3, <2>1, <2>2, <2>3 DEF Fence
  <1>8. /\ o \in Refunds => /\ Attempts(r, objects[o], keys[o])
                            /\ \A v \in Workers \ {w} : Holds(v, o) => r = op[o]
        /\ c.prepared => c.op = o /\ (o \in Refunds => Fence(w, c, r, objects[o]))
        /\ r \in Row
    BY <1>2, <1>3, <1>7
  <1> HIDE DEF Claim, provider
  <1> QED
    BY <1>4, <1>5, <1>8, BothAlone, Zenon

\* A call that goes on to no new answer, or is over without having touched a row.
LEMMA GoesAlone ==
    ASSUME EInv, Alone, NEW w \in Workers,
           \/ VerifyCharge(w) \/ CallFails(w) \/ Crash(w)
           \/ \E o \in Op : ClaimThrows(w, o)
    PROVE  Alone'
  <1>1. UNCHANGED <<op, objects, keys>>
    BY DEF VerifyCharge, CallFails, Crash, ClaimThrows, rows, provider
  <1>2. CASE VerifyCharge(w) \/ CallFails(w)
    <2>1. PICK q \in {"call", "catch"} : ctx' = [ctx EXCEPT ![w] = [ctx[w] EXCEPT !.pc = q]]
      BY <1>2 DEF VerifyCharge, CallFails
    <2>2. ctx[w] \in Locals /\ ctx[w].pc \in {"verify", "call", "record"}
      BY <1>2, Fields DEF EInv, IInv, VerifyCharge, CallFails
    <2> DEFINE c == [ctx[w] EXCEPT !.pc = q]
    <2>3. /\ c \in Locals /\ c.pc = q /\ c.op = ctx[w].op /\ c.provider = ctx[w].provider
          /\ c.retry = ctx[w].retry
      BY <2>2 DEF Locals
    <2>4. ctx' = [ctx EXCEPT ![w] = c]
      BY <2>1
    <2> HIDE DEF c
    <2>5. c.op \in Refunds => Fence(w, c, op[c.op], objects[c.op])
      BY <2>2, <2>3, AtWork DEF Fence
    <2> QED
      BY <1>1, <2>3, <2>4, <2>5, CallsAlone
  <1>3. CASE Crash(w)
    <2>1. Idle \in Locals /\ ~Idle.prepared
      BY CallEnds DEF Idle
    <2> QED
      BY <1>1, <1>3, <2>1, CallsAlone DEF Crash
  <1>4. ASSUME NEW o \in Op, ClaimThrows(w, o)
        PROVE  Alone'
    <2> DEFINE c == [Idle EXCEPT !.pc = "catch", !.op = o]
    <2>1. c \in Locals /\ ~c.prepared
      BY Operations DEF Idle, Locals
    <2>2. ctx' = [ctx EXCEPT ![w] = c]
      BY <1>4 DEF ClaimThrows
    <2> HIDE DEF c
    <2> QED
      BY <1>1, <2>1, <2>2, CallsAlone
  <1> QED
    BY <1>2, <1>3, <1>4

\* An answer about an object made earlier is about the present retry.
LEMMA KnownAlone ==
    ASSUME EInv, Alone, NEW w \in Workers, ctx[w].pc = "call", NEW i \in Nat, NEW s,
           Answer(w, i, s), UNCHANGED <<rows, provider>>,
           ctx[w].op \in Refunds => objects[ctx[w].op][i].key = ctx[w].retry
    PROVE  Alone'
  <1>1. PICK c \in Locals :
          /\ ctx' = [ctx EXCEPT ![w] = c]
          /\ c.op = ctx[w].op /\ c.provider = ctx[w].provider
          /\ c.retry = ctx[w].retry /\ c.prepared = ctx[w].prepared
          /\ c.pc \in {"catch", "record"}
          /\ c.pc = "record" => s # "failed" /\ c.result = i /\ c.pending = (s = "pending")
    BY AnswerOf
  <1>2. UNCHANGED <<op, objects, keys>>
    BY DEF rows, provider
  <1>3. c.op \in Refunds => Fence(w, c, op[c.op], objects[c.op])
    BY <1>1, AtWork DEF Fence
  <1> QED
    BY <1>1, <1>2, <1>3, CallsAlone

LEMMA LooksAlone ==
    ASSUME EInv, Alone, NEW w \in Workers, RetrieveObject(w) \/ ReplayCall(w)
    PROVE  Alone'
  <1>1. CASE RetrieveObject(w)
    <2>1. /\ ctx[w].pc = "call" /\ UNCHANGED <<rows, provider>>
          /\ Answer(w, ctx[w].provider, objects[ctx[w].op][ctx[w].provider].status)
          /\ ctx[w].provider # 0
      BY <1>1 DEF RetrieveObject, Creates
    <2>2. ctx[w].provider \in Nat
      BY Fields DEF EInv, IInv, Locals
    <2>3. ASSUME ctx[w].op \in Refunds
          PROVE  objects[ctx[w].op][ctx[w].provider].key = ctx[w].retry
      <3>1. Fence(w, ctx[w], op[ctx[w].op], objects[ctx[w].op])
        BY <2>1, <2>3, AtWork
      <3>2. Attempts(op[ctx[w].op], objects[ctx[w].op], keys[ctx[w].op])
        BY <2>3 DEF Alone
      <3> QED
        BY <2>1, <3>1, <3>2 DEF Fence, Attempts
    <2> QED
      BY <2>1, <2>2, <2>3, KnownAlone
  <1>2. CASE ReplayCall(w)
    <2>1. /\ ctx[w].pc = "call" /\ UNCHANGED <<rows, provider>>
          /\ \E i \in LatestMadeWith(ctx[w].op, ctx[w].retry) :
               \E s \in ReplayedStatus(ctx[w].op, i) : Answer(w, i, s)
      BY <1>2 DEF ReplayCall
    <2>2. PICK i \in LatestMadeWith(ctx[w].op, ctx[w].retry) :
            \E s \in ReplayedStatus(ctx[w].op, i) : Answer(w, i, s)
      BY <2>1
    <2>3. i \in DOMAIN objects[ctx[w].op] /\ objects[ctx[w].op][i].key = ctx[w].retry
      BY <2>2 DEF LatestMadeWith, MadeWith
    <2>4. i \in Nat
      BY <2>3, Fields, ObjectFields DEF EInv, IInv
    <2> QED
      BY <2>1, <2>2, <2>3, <2>4, KnownAlone
  <1> QED
    BY <1>1, <1>2

\* A new object is made only when there is none of the present retry.
LEMMA CreatesAlone ==
    ASSUME EInv, Alone, NEW w \in Workers, NEW s \in ObjectStatus, CallProvider(w, s)
    PROVE  Alone'
  <1>0. PICK o \in Op : o = ctx[w].op
    BY Fields DEF EInv, IInv
  <1> DEFINE n == Len(objects[o]) + 1
  <1> DEFINE object == [key |-> ctx[w].retry, born |-> s, status |-> s]
  <1>1. /\ o \in Op /\ ctx[w].retry \in Nat /\ ctx[w].pc = "call"
        /\ objects[o] \in Seq(Object) /\ Len(objects[o]) \in Nat
    BY <1>0, Fields DEF EInv, IInv, Locals, CallProvider
  <1>2. object \in Object /\ object.key = ctx[w].retry
    BY <1>1 DEF Object
  <1> HIDE DEF object
  <1> DEFINE longer == Append(objects[o], object)
  <1>3. /\ n \in DOMAIN longer /\ n \notin DOMAIN objects[o] /\ longer[n] = object
        /\ \A i \in DOMAIN longer : i \in DOMAIN objects[o] \/ i = n
        /\ \A i \in DOMAIN objects[o] : i \in DOMAIN longer /\ longer[i] = objects[o][i]
    BY <1>1, <1>2, AppendProperties
  <1>4. objects' = [objects EXCEPT ![o] = longer]
    BY <1>0 DEF CallProvider, CreateObject, object
  <1> HIDE DEF longer
  <1>5. /\ objects'[o] = longer
        /\ \A p \in Op : p # o => objects'[p] = objects[p]
    BY <1>1, <1>4 DEF EInv, IInv, TypeOK
  <1>6. /\ keys'[o] = keys[o] \cup {ctx[w].retry} /\ ctx[w].retry \notin keys[o]
        /\ \A p \in Op : p # o => keys'[p] = keys[p]
    BY <1>0, <1>1 DEF EInv, IInv, TypeOK, CallProvider, CreateObject
  <1>7. UNCHANGED op
    BY DEF CallProvider, rows
  <1>8. n \in Nat
    BY <1>1
  <1>9. PICK c \in Locals :
          /\ ctx' = [ctx EXCEPT ![w] = c]
          /\ c.op = o /\ c.provider = ctx[w].provider
          /\ c.retry = ctx[w].retry /\ c.prepared = ctx[w].prepared
          /\ c.pc \in {"catch", "record"}
          /\ c.pc = "record" => s # "failed" /\ c.result = n /\ c.pending = (s = "pending")
    BY <1>0, <1>8, AnswerOf DEF CallProvider
  <1> HIDE DEF n
  <1>10. ctx'[w] = c /\ \A v \in Workers : v # w => ctx'[v] = ctx[v]
    BY <1>9 DEF EInv, IInv, TypeOK
  <1>11. ASSUME NEW p \in Refunds, p # o
         PROVE  /\ Attempts(op'[p], objects'[p], keys'[p])
                /\ \A v \in Workers : Holds(v, p)' => Fence(v, ctx'[v], op'[p], objects'[p])
    <2>1. p \in Op
      BY RefundFields
    <2>2. objects'[p] = objects[p] /\ keys'[p] = keys[p] /\ op'[p] = op[p]
      BY <1>5, <1>6, <1>7, <1>11, <2>1
    <2>3. \A v \in Workers : Holds(v, p)' => v # w /\ Holds(v, p)
      BY <1>9, <1>10, <1>11 DEF Holds
    <2> QED
      BY <1>10, <2>2, <2>3 DEF Alone
  <1>12. ASSUME o \in Refunds
         PROVE  /\ Attempts(op'[o], objects'[o], keys'[o])
                /\ \A v \in Workers : Holds(v, o)' => Fence(v, ctx'[v], op'[o], objects'[o])
    <2>1. /\ Holds(w, o) /\ Fence(w, ctx[w], op[o], objects[o]) /\ Attempts(op[o], objects[o], keys[o])
      BY <1>0, <1>1, <1>12, AtWork DEF Alone
    <2>2. \A i \in DOMAIN objects[o] : objects[o][i].key # ctx[w].retry
      BY <1>6, <2>1 DEF Attempts, Fence
    <2>3. Attempts(op'[o], objects'[o], keys'[o])
      <3>1. \A i \in DOMAIN longer :
              /\ longer[i].key <= op[o].retry
              /\ longer[i].key < op[o].retry => longer[i].status = "failed"
              /\ longer[i].key = op[o].retry => op[o].retry \in keys'[o] \/ op[o].aged
        BY <1>1, <1>2, <1>3, <1>6, <2>1 DEF Attempts, Fence
      <3>2. \A i, j \in DOMAIN longer : longer[i].key = longer[j].key => i = j
        BY <1>2, <1>3, <2>1, <2>2 DEF Attempts
      <3>3. op[o].provider # 0 /\ op[o].state # "succeeded" => longer[op[o].provider].key = op[o].retry
        BY <1>3, <1>12, <2>1, RefundFields DEF Attempts
      <3> QED
        BY <1>5, <1>7, <2>1, <3>1, <3>2, <3>3 DEF Attempts
    <2>4. ASSUME NEW v \in Workers, Holds(v, o)'
          PROVE  Fence(v, ctx'[v], op'[o], objects'[o])
      <3>1. CASE v = w
        <4>1. c.pc = "record" => objects'[o][c.result].key = c.retry
          BY <1>2, <1>3, <1>5, <1>9
        <4>2. Fence(w, c, op[o], objects'[o])
          BY <1>9, <2>1, <4>1 DEF Fence
        <4> QED
          BY <1>7, <1>10, <3>1, <4>2
      <3>2. CASE v # w
        <4>1. Holds(v, o)
          BY <1>10, <2>4, <3>2 DEF Holds
        <4>2. Fence(v, ctx[v], op[o], objects[o])
          BY <1>12, <4>1 DEF Alone
        <4> QED
          BY <2>1, <3>2, <4>2 DEF Fence
      <3> QED
        BY <3>1, <3>2
    <2> QED
      BY <2>3, <2>4
  <1>13. ASSUME NEW p \in Refunds
         PROVE  /\ Attempts(op'[p], objects'[p], keys'[p])
                /\ \A v \in Workers : Holds(v, p)' => Fence(v, ctx'[v], op'[p], objects'[p])
    <2>1. CASE p = o
      BY <1>12, <2>1
    <2>2. CASE p # o
      BY <1>11, <2>2
    <2> QED
      BY <2>1, <2>2
  <1> QED
    BY <1>13 DEF Alone

\* A call that is over leaves the row recorded, waiting or put back.
LEMMA EndsAlone ==
    ASSUME EInv, Alone, NEW w \in Workers, Record(w) \/ Catch(w)
    PROVE  Alone'
  <1> DEFINE o == ctx[w].op
  <1>1. /\ o \in Op /\ op[o] \in Row /\ ctx[w] \in Locals
        /\ ctx[w].result \in Nat
    BY Fields DEF EInv, IInv, Locals
  <1>2. UNCHANGED <<objects, keys>> /\ ctx' = [ctx EXCEPT ![w] = Idle]
    BY DEF Record, Catch, provider
  <1>3. Idle \in Locals /\ ~Idle.prepared
    BY CallEnds DEF Idle
  <1>4. CASE op' = op
    BY <1>2, <1>3, <1>4, CallsAlone
  <1>5. CASE Record(w) /\ op' # op
    <2>1. PICK r \in Row :
            /\ op' = [op EXCEPT ![o] = r]
            /\ r.provider = ctx[w].result /\ r.retry = op[o].retry
            /\ r.aged = op[o].aged /\ r.attempted = op[o].attempted
      <3>1. CASE ctx[w].pending
        <4> DEFINE r == [op[o] EXCEPT !.state = "provider_pending", !.provider = ctx[w].result,
                                      !.lease = NoLease, !.expired = FALSE]
        <4>1. /\ r \in Row /\ r.provider = ctx[w].result /\ r.retry = op[o].retry
              /\ r.aged = op[o].aged /\ r.attempted = op[o].attempted
          BY <1>1 DEF Row, OpState
        <4>2. op' = [op EXCEPT ![o] = r]
          BY <1>5, <3>1 DEF Record
        <4> HIDE DEF r
        <4> QED
          BY <4>1, <4>2
      <3>2. CASE ~ctx[w].pending
        <4> DEFINE r == [op[o] EXCEPT !.state = "succeeded", !.provider = ctx[w].result,
                                      !.lease = NoLease, !.expired = FALSE]
        <4>1. /\ r \in Row /\ r.provider = ctx[w].result /\ r.retry = op[o].retry
              /\ r.aged = op[o].aged /\ r.attempted = op[o].attempted
          BY <1>1 DEF Row, OpState
        <4>2. op' = [op EXCEPT ![o] = r]
          BY <1>5, <3>2 DEF Record, RecordMovement
        <4> HIDE DEF r
        <4> QED
          BY <4>1, <4>2
      <3> QED
        BY <3>1, <3>2
    <2>2. ASSUME o \in Refunds
          PROVE  /\ Attempts(r, objects[o], keys[o])
                 /\ \A v \in Workers \ {w} : Holds(v, o) => r = op[o]
      <3>1. /\ Fence(w, ctx[w], op[o], objects[o]) /\ Attempts(op[o], objects[o], keys[o])
            /\ objects[o][ctx[w].result].key = op[o].retry
        BY <1>5, <2>2, AtWork DEF Alone, Fence, Record
      <3>2. Attempts(r, objects[o], keys[o])
        BY <2>1, <3>1 DEF Attempts, Fence
      <3>3. \A v \in Workers \ {w} : ~Holds(v, o)
        BY <2>2, <3>1 DEF Alone, Fence
      <3> QED
        BY <3>2, <3>3
    <2> QED
      BY <1>1, <1>2, <1>3, <2>1, <2>2, BothAlone
  <1>6. CASE Catch(w) /\ op' # op
    <2>1. /\ op[o].state \notin {"succeeded", "review"}
          /\ IF ctx[w].prepared THEN op[o].lease = w ELSE LeaseFree(o)
      BY <1>6 DEF Catch
    <2>2. PICK r \in Row :
            /\ op' = [op EXCEPT ![o] = r]
            /\ r.provider = op[o].provider /\ r.retry = op[o].retry
            /\ r.aged = op[o].aged /\ r.attempted = op[o].attempted
      <3> DEFINE r == [op[o] EXCEPT !.state = IF op[o].state = "provider_pending"
                                              THEN "provider_pending" ELSE "pending",
                                    !.lease = NoLease, !.expired = FALSE]
      <3>1. /\ r \in Row /\ r.provider = op[o].provider /\ r.retry = op[o].retry
            /\ r.aged = op[o].aged /\ r.attempted = op[o].attempted
        BY <1>1 DEF Row, OpState
      <3>2. op' = [op EXCEPT ![o] = r]
        BY <1>6 DEF Catch
      <3> HIDE DEF r
      <3> QED
        BY <3>1, <3>2
    <2>3. ASSUME o \in Refunds
          PROVE  /\ Attempts(r, objects[o], keys[o])
                 /\ \A v \in Workers \ {w} : Holds(v, o) => r = op[o]
      <3>1. Attempts(r, objects[o], keys[o])
        BY <2>1, <2>2, <2>3 DEF Alone, Attempts
      <3>2. \A v \in Workers \ {w} : ~Holds(v, o)
        <4>1. CASE ctx[w].prepared
          BY <2>1, <2>3, <4>1 DEF Alone, Fence
        <4>2. CASE ~ctx[w].prepared
          BY <2>1, <2>3, <4>2, Unheld
        <4> QED
          BY <4>1, <4>2
      <3> QED
        BY <3>1, <3>2
    <2> QED
      BY <1>1, <1>2, <1>3, <2>2, <2>3, BothAlone
  <1> QED
    BY <1>4, <1>5, <1>6

LEMMA AloneInitially == Init => Alone
  BY RefundFields, Operations
  DEF Init, ProviderInit, Alone, Attempts, Holds, NoRow, Idle, Op, Refunds

LEMMA AloneInductive == LeaseMargin /\ EInv /\ Alone /\ [Next]_vars => Alone'
  <1> SUFFICES ASSUME LeaseMargin, EInv, Alone, [Next]_vars PROVE Alone'
    OBVIOUS
  <1>1. CASE UNCHANGED <<op, ctx, objects, keys>>
    BY <1>1 DEF Alone, Holds
  <1>2. CASE Requests
    BY <1>2, RequestsAlone
  <1>3. CASE Environment
    <2>1. ASSUME NEW h \in ChargeHolds, ChargeHeld(h)
          PROVE  Alone'
      BY <1>1, <2>1 DEF ChargeHeld, HoldCharge, rows
    <2> QED
      BY <1>3, <2>1, GoesAlone, TimeAlone, ForgetsAlone, SettlesAlone DEF Environment
  <1>4. ASSUME NEW w \in Workers, Process(w)
        PROVE  Alone'
    BY <1>4, ClaimsAlone, GoesAlone, LooksAlone, CreatesAlone, EndsAlone DEF Process, Call
  <1>5. CASE UNCHANGED vars
    BY <1>1, <1>5 DEF vars
  <1> QED
    BY <1>2, <1>3, <1>4, <1>5 DEF Next

LEMMA AloneInvariance == LeaseMargin => (Spec => []Alone)
  <1>1. LeaseMargin /\ EInv /\ Alone /\ [Next]_vars => Alone'
    BY AloneInductive
  <1> SUFFICES ASSUME LeaseMargin PROVE Spec => []Alone
    OBVIOUS
  <1>2. EInv /\ Alone /\ [Next]_vars => Alone'
    BY <1>1
  <1> QED
    BY <1>2, AloneInitially, EscrowInvariance, PTL DEF Spec

(* As long as no call is stalled past its own lease, the provider is made   *)
(* to move the money of one operation once, refunds that failed and were    *)
(* retried by an operator included (process(), recover()).  Without the     *)
(* margin refunds are not: the run funding_refund_twice.                    *)
THEOREM MovedAtMostOnce == LeaseMargin => (Spec => []MovedOnce)
  <1>1. ASSUME Alone, EInv, ChargedAndPaidOnce
        PROVE  MovedOnce
    <2>1. ASSUME NEW o \in Refunds
          PROVE  Cardinality(LiveObjects(o)) <= 1
      <3>1. /\ Attempts(op[o], objects[o], keys[o])
            /\ op[o].retry \in Nat /\ \A i \in DOMAIN objects[o] : objects[o][i].key \in Nat
        BY <1>1, <2>1, RefundFields DEF Alone
      <3>2. \A i \in LiveObjects(o) : i \in DOMAIN objects[o] /\ objects[o][i].key = op[o].retry
        BY <3>1 DEF Attempts, LiveObjects, Live
      <3>3. \A i, j \in LiveObjects(o) : i = j
        BY <3>1, <3>2 DEF Attempts
      <3>4. LiveObjects(o) = {} \/ \E i : LiveObjects(o) = {i}
        BY <3>3
      <3>5. CASE LiveObjects(o) = {}
        BY <3>5, FS_EmptySet
      <3>6. ASSUME NEW i, LiveObjects(o) = {i}
            PROVE  Cardinality(LiveObjects(o)) <= 1
        <4>1. Cardinality({i}) = 1
          BY FS_Singleton
        <4> QED
          BY <3>6, <4>1
      <3> QED
        BY <3>4, <3>5, <3>6
    <2> QED
      BY <1>1, <2>1 DEF MovedOnce, ChargedAndPaidOnce, Op
  <1>2. Alone /\ EInv /\ ChargedAndPaidOnce => MovedOnce
    BY <1>1
  <1> SUFFICES ASSUME LeaseMargin PROVE Spec => []MovedOnce
    OBVIOUS
  <1>3. Spec => []Alone
    BY AloneInvariance
  <1> QED
    BY <1>2, <1>3, EscrowInvariance, ChargedAndPaidAtMostOnce, PTL
=============================================================================
