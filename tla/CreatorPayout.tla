---------------------------- MODULE CreatorPayout ----------------------------
(***************************************************************************)
(* The flat payment of one creator of one campaign: payCreator in          *)
(* campaigns.service.ts, which charges the brand and transfers to the      *)
(* creator, and the handlers of stripe-webhooks.service.ts that follow     *)
(* what Stripe tells later.  Both write the same creator_payout row, in    *)
(* separate statements and without a lock.                                 *)
(***************************************************************************)
EXTENDS PayoutProvider

CONSTANTS
    Calls,          \* concurrent calls of payCreator
    Deliveries      \* concurrent deliveries of events

VARIABLES
    row,            \* creator_payout of the campaign and creator
    processed,      \* stripe_webhook_event
    call,           \* the local variables of each payCreator
    delivery        \* the local variables of each handleEvent

vars == <<row, processed, call, delivery, provider>>

NoRow == [status |-> "absent", intent |-> 0, transfer |-> 0]

\* intent is paymentIntentId, answer the id in a provider's answer.
NoCall == [pc |-> "idle", intent |-> 0, answer |-> 0]

Nothing == [type |-> "transfer.created", object |-> 0]
NoDelivery == [pc |-> "idle", event |-> Nothing, seen |-> "absent"]

Init ==
    /\ ProviderInit
    /\ row = NoRow
    /\ processed = {}
    /\ call = [w \in Calls |-> NoCall]
    /\ delivery = [h \in Deliveries |-> NoDelivery]

CallEnds(w) == call' = [call EXCEPT ![w] = NoCall]

-----------------------------------------------------------------------------
(* payCreator.  The checks between reading the row and charging (invite,    *)
(* approved content, readiness, card) change nothing: they may end the call.*)

ReadPayout(w) ==
    /\ call[w].pc = "idle"
    /\ row.status # "transferred"
    /\ call' = [call EXCEPT ![w] =
            [pc |-> IF row.status = "charged" /\ row.intent # 0 THEN "transfer" ELSE "charge",
             intent |-> row.intent, answer |-> 0]]
    /\ UNCHANGED <<row, processed, delivery, provider>>

\* Faulty: the key differs from one attempt to the next.
ChargeBrand_FreshKey(w, i, status) ==
    /\ call[w].pc = "charge"
    /\ CreateIntent(i, status)
    /\ call' = [call EXCEPT ![w].pc = IF status = "declined" THEN "catch" ELSE "save_charge",
                            ![w].answer = i]
    /\ UNCHANGED <<row, processed, delivery>>

\* Faulty: the row is not written before the transfer.
ChargeBrand_Unsaved(w, i, status) ==
    /\ call[w].pc = "charge"
    /\ charged = 0 /\ CreateIntent(i, status)
    /\ call' = [call EXCEPT ![w].pc = IF status = "declined" THEN "catch" ELSE "transfer",
                            ![w].intent = i]
    /\ UNCHANGED <<row, processed, delivery>>

\* chargeOffSession: a repetition answers as the first request did.
ChargeBrand(w, i, status) ==
    /\ call[w].pc = "charge"
    /\ \/ charged = 0 /\ CreateIntent(i, status)
       \/ charged = i /\ status = intent[i] /\ UNCHANGED provider
    /\ call' = [call EXCEPT ![w].pc = IF status = "declined" THEN "catch" ELSE "save_charge",
                            ![w].answer = i]
    /\ UNCHANGED <<row, processed, delivery>>

SaveCharge(w) ==
    /\ call[w].pc = "save_charge"
    /\ row' = [status |-> "charged", intent |-> call[w].answer, transfer |-> 0]
    /\ call' = [call EXCEPT ![w] = [pc |-> "transfer", intent |-> call[w].answer, answer |-> 0]]
    /\ UNCHANGED <<processed, delivery, provider>>

\* Stripe moves money that a charge of the brand is the source of.
Source(i) == i # 0 /\ intent[i] \in {"processing", "succeeded", "disputed"}

\* Faulty: an answer without a transfer is taken for one.
PayToCreator_Unchecked(w, i) ==
    /\ call[w].pc = "transfer"
    /\ \/ Source(call[w].intent) /\ moved = 0 /\ CreateTransfer(i)
       \/ ~Source(call[w].intent) /\ UNCHANGED provider
    /\ call' = [call EXCEPT ![w].pc = "save_transfer", ![w].answer = i]
    /\ UNCHANGED <<row, processed, delivery>>

\* createTransfer, from the charge just made or the one recorded before.
PayToCreator(w, i) ==
    /\ call[w].pc = "transfer"
    /\ \/ moved = 0 /\ Source(call[w].intent) /\ CreateTransfer(i)
       \/ moved = i /\ UNCHANGED provider
    /\ call' = [call EXCEPT ![w].pc = "save_transfer", ![w].answer = i]
    /\ UNCHANGED <<row, processed, delivery>>

SaveTransfer(w) ==
    /\ call[w].pc = "save_transfer"
    /\ row' = [status |-> "transferred", intent |-> call[w].intent, transfer |-> call[w].answer]
    /\ CallEnds(w)
    /\ UNCHANGED <<processed, delivery, provider>>

(* A provider's refusal, a lost answer, or a statement that throws: the     *)
(* call knows the intent only if the answer had come.                       *)
CallFails(w) ==
    /\ call[w].pc \in {"charge", "save_charge", "transfer", "save_transfer"}
    /\ \E known \in {call[w].intent} \cup
                    (IF call[w].pc = "save_charge" THEN {call[w].answer} ELSE {}) :
            call' = [call EXCEPT ![w] = [pc |-> "catch", intent |-> known, answer |-> 0]]
    /\ UNCHANGED <<row, processed, delivery, provider>>

\* The catch clause, which writes no transfer whatever the row says by now.
Catch(w) ==
    /\ call[w].pc = "catch"
    /\ row' = [status |-> IF call[w].intent # 0 THEN "charged" ELSE "failed",
               intent |-> call[w].intent, transfer |-> 0]
    /\ CallEnds(w)
    /\ UNCHANGED <<processed, delivery, provider>>

\* A check fails before anything is done, or the process dies.
CallStops(w) ==
    /\ call[w].pc # "idle"
    /\ CallEnds(w)
    /\ UNCHANGED <<row, processed, delivery, provider>>

-----------------------------------------------------------------------------
(* handleEvent: has it been processed, find the payout, update it, mark it. *)

Receive(h, e) ==
    /\ delivery[h].pc = "idle"
    /\ e \notin processed
    /\ delivery' = [delivery EXCEPT ![h] = [pc |-> "find", event |-> e, seen |-> "absent"]]
    /\ UNCHANGED <<row, processed, call, provider>>

\* By the intent, or by the transfer or the campaign and creator it names.
Matches(e) ==
    /\ row.status # "absent"
    /\ e.type \in IntentEvent => row.intent = e.object

FindPayout(h) ==
    /\ delivery[h].pc = "find"
    /\ delivery' = IF Matches(delivery[h].event)
                   THEN [delivery EXCEPT ![h].pc = "apply", ![h].seen = row.status]
                   ELSE [delivery EXCEPT ![h].pc = "mark"]
    /\ UNCHANGED <<row, processed, call, provider>>

\* The row after an event, given the status the handler saw.
Updated(e, seen) ==
    CASE e.type = "payment_intent.succeeded" ->
            IF seen = "failed" THEN [row EXCEPT !.status = "charged"] ELSE row
      [] e.type = "payment_intent.payment_failed" ->
            IF seen # "transferred" THEN [row EXCEPT !.status = "failed"] ELSE row
      [] e.type = "charge.refunded" -> [row EXCEPT !.status = "refunded"]
      [] e.type = "charge.dispute.created" -> [row EXCEPT !.status = "disputed"]
      [] e.type = "transfer.created" ->
            IF seen # "transferred"
            THEN [row EXCEPT !.status = "transferred", !.transfer = e.object] ELSE row
      [] OTHER -> [row EXCEPT !.status = "reversed", !.transfer = e.object]

ApplyEvent(h) ==
    /\ delivery[h].pc = "apply"
    /\ row' = Updated(delivery[h].event, delivery[h].seen)
    /\ delivery' = [delivery EXCEPT ![h].pc = "mark"]
    /\ UNCHANGED <<processed, call, provider>>

MarkProcessed(h) ==
    /\ delivery[h].pc = "mark"
    /\ processed' = processed \cup {delivery[h].event}
    /\ delivery' = [delivery EXCEPT ![h] = NoDelivery]
    /\ UNCHANGED <<row, call, provider>>

\* A statement throws or the process dies: Stripe gets no 200 and sends the event again.
DeliveryStops(h) ==
    /\ delivery[h].pc # "idle"
    /\ delivery' = [delivery EXCEPT ![h] = NoDelivery]
    /\ UNCHANGED <<row, processed, call, provider>>

-----------------------------------------------------------------------------

PayCreator(w) ==
    \/ ReadPayout(w)
    \/ \E i \in Object, status \in IntentStatus : ChargeBrand(w, i, status)
    \/ SaveCharge(w)
    \/ \E i \in Object : PayToCreator(w, i)
    \/ SaveTransfer(w)
    \/ CallFails(w)
    \/ Catch(w)
    \/ CallStops(w)

HandleEvent(h) ==
    \/ \E e \in sent : Receive(h, e)
    \/ FindPayout(h)
    \/ ApplyEvent(h)
    \/ MarkProcessed(h)
    \/ DeliveryStops(h)

ProviderSteps ==
    /\ \E i \in Object :
        \/ \E status \in IntentStatus : IntentSettles(i, status)
        \/ TransferReversed(i)
    /\ UNCHANGED <<row, processed, call, delivery>>

Next ==
    \/ \E w \in Calls : PayCreator(w)
    \/ \E h \in Deliveries : HandleEvent(h)
    \/ ProviderSteps

Spec == Init /\ [][Next]_vars

-----------------------------------------------------------------------------

Status == {"absent", "charged", "transferred", "failed", "refunded", "disputed", "reversed"}

Row == [status : Status, intent : 0 .. MaxObjects, transfer : 0 .. MaxObjects]
CallLocals == [pc : {"idle", "charge", "save_charge", "transfer", "save_transfer", "catch"},
               intent : 0 .. MaxObjects, answer : 0 .. MaxObjects]
DeliveryLocals == [pc : {"idle", "find", "apply", "mark"},
                   event : Event \cup {Nothing}, seen : Status]

TypeOK ==
    /\ ProviderType
    /\ row \in Row
    /\ processed \subseteq Event
    /\ call \in [Calls -> CallLocals]
    /\ delivery \in [Deliveries -> DeliveryLocals]

(* However many calls race, die, lose answers and are repeated, and         *)
(* whatever events do to the row meanwhile, the brand is charged at most    *)
(* once and the creator paid at most once, as long as Stripe remembers the  *)
(* keys.                                                                    *)
ChargedAndPaidOnce ==
    /\ \A i, j \in Object : Taken(i) /\ Taken(j) => i = j
    /\ \A i, j \in Object : Made(i) /\ Made(j) => i = j

(* A payout that reads "transferred" names a transfer that Stripe made, out *)
(* of a charge the brand did not decline.  The row need not name that       *)
(* charge: the catch clause of another call may have erased it.             *)
PaidIsBacked ==
    row.status = "transferred" =>
        /\ row.transfer # 0 /\ Made(row.transfer)
        /\ \E i \in Object : intent[i] \notin {"none", "declined"}

(* Money never moves to a creator without a row: the charge is recorded     *)
(* before the transfer is made, so that whatever Stripe tells of the        *)
(* transfer finds the payout, even if the call died.                        *)
TransferHasRow == \A i \in Object : Made(i) => row.status # "absent"

Quiet ==
    /\ \A w \in Calls : call[w].pc = "idle"
    /\ \A h \in Deliveries : delivery[h].pc = "idle"

(* docs/STRIPE-PAYMENTS-ROLLOUT.md: transfer.reversed marks the local       *)
(* operation as held.  Once the reversal was processed, the payout does not *)
(* read "transferred" by that transfer.                                     *)
ReversedIsHeld ==
    Quiet => \A i \in Object :
        [type |-> "transfer.reversed", object |-> i] \in processed =>
            ~(row.status = "transferred" /\ row.transfer = i)
=============================================================================
