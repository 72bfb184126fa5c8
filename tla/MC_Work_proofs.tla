--------------------------- MODULE MC_Work_proofs ---------------------------
(***************************************************************************)
(* Theorems about the components of MC_Work: about CreatorPayout for every  *)
(* number of concurrent calls, of concurrent deliveries and of the          *)
(* provider's objects; then about the others, for every value of the        *)
(* constants the run gives them.                                            *)
(***************************************************************************)
EXTENDS MC_Work, FiniteSetTheorems, SequenceTheorems, WellFoundedInduction, TLAPS

(* The inductive invariant.  ChargedAndPaidOnce says nothing of the keys,   *)
(* and a step keeps it only because the key remembers whatever was ever     *)
(* made; PaidIsBacked says nothing of the answers and events on their way,  *)
(* and it is those that make a row "transferred".                           *)

KeysRemember ==
    /\ \A i \in Object : intent[i] # "none" => charged = i
    /\ \A i \in Object : transfer[i] # "none" <=> moved = i

Charged == \E i \in Object : intent[i] \notin {"none", "declined"}

MovedFromCharge == \A i \in Object : Made(i) => Charged

\* A call that goes on to the transfer has a row; an answer names a transfer.
CallsAhead ==
    \A w \in Calls :
        /\ call[w].pc \in {"transfer", "save_transfer"} => row.status # "absent"
        /\ call[w].pc = "save_transfer" => call[w].answer \in Object /\ Made(call[w].answer)

\* Whatever was sent about a transfer, a transfer made is behind it.
EventsAhead ==
    /\ \A e \in sent : e.type \in TransferEvent => Made(e.object)
    /\ \A h \in Deliveries :
        /\ delivery[h].pc # "idle" => delivery[h].event \in sent
        /\ delivery[h].pc = "apply" => row.status # "absent"

Paid ==
    row.status = "transferred" =>
        row.transfer \in Object /\ Made(row.transfer)

IInv ==
    /\ TypeOK
    /\ KeysRemember
    /\ MovedFromCharge
    /\ CallsAhead
    /\ EventsAhead
    /\ TransferHasRow
    /\ Paid

\* Nothing was asked of the provider and there is no row.
LEMMA Initially == Init => IInv
  <1> SUFFICES ASSUME Init PROVE IInv
    OBVIOUS
  <1> USE ProviderAssumption DEF Init, ProviderInit, NoRow, NoCall, NoDelivery
  <1>1. TypeOK
    BY DEF TypeOK, ProviderType, Row, Status, CallLocals, DeliveryLocals, Nothing,
           IntentStatus, TransferStatus
  <1>2. KeysRemember /\ MovedFromCharge /\ CallsAhead /\ EventsAhead /\ TransferHasRow /\ Paid
    BY DEF KeysRemember, MovedFromCharge, CallsAhead, EventsAhead, TransferHasRow, Paid, Made,
           Object
  <1> QED
    BY <1>1, <1>2 DEF IInv
-----------------------------------------------------------------------------
(* What the provider's steps do to what it remembers and has sent.          *)

\* Made transfers stay made, sent events stay sent, a taken charge stays one.
ProviderGrows ==
    /\ \A i \in Object : Made(i) => Made(i)'
    /\ sent \subseteq sent'
    /\ Charged => Charged'

ProviderSound ==
    /\ ProviderType
    /\ KeysRemember
    /\ \A e \in sent : e.type \in TransferEvent => Made(e.object)

\* The events about an intent are events, and none of them is about a transfer.
LEMMA EventsOfIntents ==
    ASSUME NEW i \in Object, NEW status \in IntentStatus
    PROVE  IntentEvents(i, status) \subseteq [type : IntentEvent, object : Object]
  BY DEF IntentEvents, IntentEvent, IntentStatus

LEMMA IntentEventsSound ==
    ASSUME TypeOK, EventsAhead, NEW i \in Object, NEW status \in IntentStatus,
           sent' = sent \cup IntentEvents(i, status), transfer' = transfer
    PROVE  /\ sent \subseteq sent' /\ sent' \subseteq Event
           /\ (\A e \in sent : e.type \in TransferEvent => Made(e.object))'
  <1>1. \A e \in IntentEvents(i, status) : e \in Event /\ e.type \notin TransferEvent
    BY EventsOfIntents DEF Event, IntentEvent, TransferEvent
  <1>2. \A e \in sent : e \in Event /\ (e.type \in TransferEvent => Made(e.object))
    BY DEF TypeOK, ProviderType, EventsAhead
  <1> QED
    BY <1>1, <1>2 DEF Made

LEMMA CreateIntentStep ==
    ASSUME IInv, NEW i \in Object, NEW status \in IntentStatus, charged = 0,
           CreateIntent(i, status)
    PROVE  ProviderSound' /\ ProviderGrows
  <1> USE DEF IInv, CreateIntent
  <1>1. /\ sent \subseteq sent' /\ sent' \subseteq Event
        /\ (\A e \in sent : e.type \in TransferEvent => Made(e.object))'
    BY IntentEventsSound
  <1>2. \A j \in Object : intent[j] = "none"
    BY DEF KeysRemember, Object
  <1>3. ProviderType'
    BY <1>1, ProviderAssumption DEF TypeOK, ProviderType, Object
  <1>4. KeysRemember'
    BY <1>2 DEF KeysRemember, TypeOK, ProviderType
  <1>5. ProviderGrows
    BY <1>1, <1>2 DEF ProviderGrows, Charged, Made
  <1> QED
    BY <1>1, <1>3, <1>4, <1>5 DEF ProviderSound

LEMMA CreateTransferStep ==
    ASSUME IInv, NEW i \in Object, moved = 0, CreateTransfer(i)
    PROVE  ProviderSound' /\ ProviderGrows /\ Made(i)'
  <1> USE DEF IInv, CreateTransfer
  <1>1. \A j \in Object : transfer[j] = "none"
    BY DEF KeysRemember, Object
  <1>2. Made(i)'
    BY DEF Made, TypeOK, ProviderType
  <1>3. ProviderType'
    BY ProviderAssumption DEF TypeOK, ProviderType, Object, TransferStatus, Event, TransferEvent
  <1>4. KeysRemember'
    BY <1>1 DEF KeysRemember, TypeOK, ProviderType
  <1>5. ProviderGrows
    BY <1>1 DEF ProviderGrows, Charged, Made
  <1>6. (\A e \in sent : e.type \in TransferEvent => Made(e.object))'
    <2>1. \A e \in sent : e.type \in TransferEvent => e.object \in Object /\ Made(e.object)
      BY DEF EventsAhead, TypeOK, ProviderType, Event
    <2> QED
      BY <2>1, <1>1, <1>2 DEF Made
  <1> QED
    BY <1>2, <1>3, <1>4, <1>5, <1>6 DEF ProviderSound

\* A step of the provider's own: settlements and reversals.
LEMMA SettlementStep ==
    ASSUME IInv, NEW i \in Object, NEW status \in IntentStatus, IntentSettles(i, status)
    PROVE  ProviderSound' /\ ProviderGrows
  <1> USE DEF IInv, IntentSettles
  <1>1. /\ sent \subseteq sent' /\ sent' \subseteq Event
        /\ (\A e \in sent : e.type \in TransferEvent => Made(e.object))'
    BY IntentEventsSound
  <1>2. status \notin {"none", "declined"} /\ intent[i] # "none"
    OBVIOUS
  <1>3. ProviderType'
    BY <1>1 DEF TypeOK, ProviderType
  <1>4. KeysRemember'
    BY <1>2 DEF KeysRemember, TypeOK, ProviderType
  <1>5. ProviderGrows
    BY <1>1, <1>2 DEF ProviderGrows, Charged, Made, TypeOK, ProviderType
  <1> QED
    BY <1>1, <1>3, <1>4, <1>5 DEF ProviderSound

LEMMA ReversalStep ==
    ASSUME IInv, NEW i \in Object, TransferReversed(i)
    PROVE  ProviderSound' /\ ProviderGrows
  <1> USE DEF IInv, TransferReversed
  <1>1. ProviderType'
    BY DEF TypeOK, ProviderType, TransferStatus, Event, TransferEvent
  <1>2. KeysRemember'
    BY DEF KeysRemember, TypeOK, ProviderType
  <1>3. ProviderGrows
    BY DEF ProviderGrows, Charged, Made, TypeOK, ProviderType
  <1>4. (\A e \in sent : e.type \in TransferEvent => Made(e.object))'
    <2>1. \A e \in sent : e.type \in TransferEvent => e.object \in Object /\ Made(e.object)
      BY DEF EventsAhead, TypeOK, ProviderType, Event
    <2>2. Made(i)' /\ Made(i)
      BY DEF Made, TypeOK, ProviderType
    <2> QED
      BY <2>1, <2>2, <1>3 DEF ProviderGrows
  <1> QED
    BY <1>1, <1>2, <1>3, <1>4 DEF ProviderSound

LEMMA ProviderKept ==
    ASSUME IInv, UNCHANGED provider
    PROVE  ProviderSound' /\ ProviderGrows
  BY DEF IInv, provider, TypeOK, ProviderType, ProviderSound, ProviderGrows, KeysRemember,
         EventsAhead, Charged, Made
-----------------------------------------------------------------------------
(* The steps of a call, of a delivery and of the provider.                  *)

LEMMA Fields ==
    ASSUME TypeOK
    PROVE  /\ row \in Row
           /\ \A w \in Calls : call[w] \in CallLocals
           /\ \A h \in Deliveries : delivery[h] \in DeliveryLocals
           /\ Object = (0 .. MaxObjects) \ {0}
  BY ProviderAssumption DEF TypeOK, Object

\* Row, answers and events may be looked at after the provider has moved on.
LEMMA Moved ==
    ASSUME IInv, ProviderSound', ProviderGrows,
           row \in Row, UNCHANGED <<row, processed, delivery>>,
           NEW w \in Calls, NEW c \in CallLocals, call' = [call EXCEPT ![w] = c],
           c.pc \in {"transfer", "save_transfer"} => row.status # "absent",
           c.pc = "save_transfer" => c.answer \in Object /\ Made(c.answer)',
           \A i \in Object : Made(i)' => Made(i) \/ (Charged /\ row.status # "absent")
    PROVE  IInv'
  <1> USE DEF IInv
  <1>1. TypeOK'
    BY DEF TypeOK, ProviderSound
  <1>2. KeysRemember'
    BY DEF ProviderSound
  <1>3. MovedFromCharge' /\ TransferHasRow'
    BY DEF MovedFromCharge, TransferHasRow, ProviderGrows
  <1>4. CallsAhead'
    <2> SUFFICES ASSUME NEW v \in Calls
                 PROVE  (/\ call[v].pc \in {"transfer", "save_transfer"} => row.status # "absent"
                         /\ call[v].pc = "save_transfer" =>
                               call[v].answer \in Object /\ Made(call[v].answer))'
      BY DEF CallsAhead
    <2>1. CASE v = w
      BY <2>1 DEF TypeOK
    <2>2. CASE v # w
      <3>1. call'[v] = call[v]
        BY <2>2 DEF TypeOK
      <3> QED
        BY <3>1 DEF CallsAhead, ProviderGrows, Made
    <2> QED
      BY <2>1, <2>2
  <1>5. EventsAhead'
    BY DEF EventsAhead, ProviderSound, ProviderGrows
  <1>6. Paid'
    BY DEF Paid, ProviderGrows, Object
  <1> QED
    BY <1>1, <1>2, <1>3, <1>4, <1>5, <1>6

\* A call that leaves the provider and the row alone.
LEMMA CallOnly ==
    ASSUME IInv, UNCHANGED <<row, processed, delivery, provider>>,
           NEW w \in Calls, NEW c \in CallLocals, call' = [call EXCEPT ![w] = c],
           c.pc \in {"transfer", "save_transfer"} => row.status # "absent",
           c.pc # "save_transfer"
    PROVE  IInv'
  BY ProviderKept, Moved, Fields DEF IInv, provider, Made

\* The row is written, with a transfer only if there is one.
LEMMA RowWritten ==
    ASSUME IInv, UNCHANGED provider, NEW r \in Row, row' = r,
           r.status # "absent",
           r.status = "transferred" => r.transfer \in Object /\ Made(r.transfer),
           call' \in [Calls -> CallLocals],
           \A w \in Calls : call'[w] = call[w] \/ call'[w].pc # "save_transfer",
           processed' \subseteq Event,
           delivery' \in [Deliveries -> DeliveryLocals],
           \A h \in Deliveries :
               /\ delivery'[h].pc # "idle" => delivery[h].pc # "idle"
               /\ delivery'[h].event = delivery[h].event
    PROVE  IInv'
  <1> USE DEF IInv, provider
  <1>1. TypeOK'
    BY DEF TypeOK, ProviderType
  <1>2. KeysRemember' /\ MovedFromCharge'
    BY DEF KeysRemember, MovedFromCharge, Made, Charged
  <1>3. TransferHasRow' /\ Paid'
    BY DEF TransferHasRow, Paid, Made
  <1>4. CallsAhead'
    BY DEF CallsAhead, Made
  <1>5. EventsAhead'
    BY DEF EventsAhead, Made
  <1> QED
    BY <1>1, <1>2, <1>3, <1>4, <1>5

\* A delivery that leaves the row alone.
LEMMA DeliveryOnly ==
    ASSUME IInv, UNCHANGED <<row, call, provider>>, processed' \subseteq Event,
           NEW h \in Deliveries, NEW d \in DeliveryLocals, delivery' = [delivery EXCEPT ![h] = d],
           d.pc # "idle" => d.event \in sent,
           d.pc = "apply" => row.status # "absent"
    PROVE  IInv'
  <1> USE DEF IInv, provider
  <1>1. TypeOK'
    BY DEF TypeOK, ProviderType
  <1>2. KeysRemember' /\ MovedFromCharge' /\ TransferHasRow' /\ Paid' /\ CallsAhead'
    BY DEF KeysRemember, MovedFromCharge, TransferHasRow, Paid, CallsAhead, Made, Charged
  <1>3. EventsAhead'
    <2>1. \A g \in Deliveries : delivery'[g] = IF g = h THEN d ELSE delivery[g]
      BY DEF TypeOK
    <2> QED
      BY <2>1 DEF EventsAhead, Made
  <1> QED
    BY <1>1, <1>2, <1>3

LEMMA PayCreatorStep ==
    ASSUME IInv, NEW w \in Calls, PayCreator(w)
    PROVE  IInv'
  <1> USE Fields DEF IInv
  <1>0. NoCall \in CallLocals /\ NoCall.pc = "idle"
    BY ProviderAssumption DEF NoCall, CallLocals
  <1>1. CASE ReadPayout(w)
    <2> DEFINE c == [pc |-> IF row.status = "charged" /\ row.intent # 0
                             THEN "transfer" ELSE "charge",
                     intent |-> row.intent, answer |-> 0]
    <2>1. c \in CallLocals /\ c.pc # "save_transfer" /\ (c.pc = "transfer" => row.status = "charged")
      BY ProviderAssumption DEF CallLocals, Row
    <2>2. call' = [call EXCEPT ![w] = c] /\ UNCHANGED <<row, processed, delivery, provider>>
      BY <1>1 DEF ReadPayout
    <2> QED
      BY <2>1, <2>2, CallOnly
  <1>2. CASE \E i \in Object, status \in IntentStatus : ChargeBrand(w, i, status)
    <2> PICK i \in Object, status \in IntentStatus : ChargeBrand(w, i, status)
      BY <1>2
    <2> DEFINE c == [call[w] EXCEPT !.pc = IF status = "declined" THEN "catch" ELSE "save_charge",
                                    !.answer = i]
    <2>1. /\ c \in CallLocals /\ c.pc \in {"catch", "save_charge"}
          /\ call' = [call EXCEPT ![w] = c] /\ UNCHANGED <<row, processed, delivery>>
      BY DEF ChargeBrand, CallLocals, TypeOK
    <2>2. ProviderSound' /\ ProviderGrows /\ transfer' = transfer
      BY CreateIntentStep, ProviderKept DEF ChargeBrand, CreateIntent, provider
    <2> QED
      BY <2>1, <2>2, Moved DEF Made
  <1>3. CASE SaveCharge(w)
    <2> DEFINE c == [pc |-> "transfer", intent |-> call[w].answer, answer |-> 0]
               r == [status |-> "charged", intent |-> call[w].answer, transfer |-> 0]
    <2>1. c \in CallLocals /\ r \in Row
      BY ProviderAssumption DEF CallLocals, Row, Status
    <2>2. /\ row' = r /\ call' = [call EXCEPT ![w] = c]
          /\ UNCHANGED <<processed, delivery, provider>>
      BY <1>3 DEF SaveCharge
    <2> QED
      BY <2>1, <2>2, RowWritten DEF TypeOK
  <1>4. CASE \E i \in Object : PayToCreator(w, i)
    <2> PICK i \in Object : PayToCreator(w, i)
      BY <1>4
    <2> DEFINE c == [call[w] EXCEPT !.pc = "save_transfer", !.answer = i]
    <2>1. /\ c \in CallLocals /\ c.pc = "save_transfer" /\ c.answer = i
          /\ call' = [call EXCEPT ![w] = c] /\ UNCHANGED <<row, processed, delivery>>
      BY DEF PayToCreator, CallLocals, TypeOK
    <2>2. row.status # "absent"
      BY DEF PayToCreator, CallsAhead
    <2>3. CASE moved = 0 /\ Source(call[w].intent) /\ CreateTransfer(i)
      <3>1. Charged
        BY <2>3 DEF Source, Charged, CallLocals
      <3> QED
        BY <2>1, <2>2, <2>3, <3>1, CreateTransferStep, Moved
    <2>4. CASE moved = i /\ UNCHANGED provider
      BY <2>1, <2>2, <2>4, ProviderKept, Moved DEF provider, Made, KeysRemember
    <2> QED
      BY <2>3, <2>4 DEF PayToCreator
  <1>5. CASE SaveTransfer(w)
    <2> DEFINE r == [status |-> "transferred", intent |-> call[w].intent, transfer |-> call[w].answer]
    <2>1. r \in Row
      BY DEF CallLocals, Row, Status
    <2>2. call[w].answer \in Object /\ Made(call[w].answer)
      BY <1>5 DEF SaveTransfer, CallsAhead
    <2>3. /\ row' = r /\ call' = [call EXCEPT ![w] = NoCall]
          /\ UNCHANGED <<processed, delivery, provider>>
      BY <1>5 DEF SaveTransfer, CallEnds
    <2> QED
      BY <1>0, <2>1, <2>2, <2>3, RowWritten DEF TypeOK
  <1>6. CASE CallFails(w)
    <2> PICK known \in 0 .. MaxObjects :
            call' = [call EXCEPT ![w] = [pc |-> "catch", intent |-> known, answer |-> 0]]
      BY <1>6 DEF CallFails, CallLocals
    <2>1. [pc |-> "catch", intent |-> known, answer |-> 0] \in CallLocals
      BY ProviderAssumption DEF CallLocals
    <2> QED
      BY <1>6, <2>1, CallOnly DEF CallFails
  <1>7. CASE Catch(w)
    <2> DEFINE r == [status |-> IF call[w].intent # 0 THEN "charged" ELSE "failed",
                     intent |-> call[w].intent, transfer |-> 0]
    <2>1. r \in Row /\ r.status \notin {"absent", "transferred"}
      BY ProviderAssumption DEF CallLocals, Row, Status
    <2>2. /\ row' = r /\ call' = [call EXCEPT ![w] = NoCall]
          /\ UNCHANGED <<processed, delivery, provider>>
      BY <1>7 DEF Catch, CallEnds
    <2> QED
      BY <1>0, <2>1, <2>2, RowWritten DEF TypeOK
  <1>8. CASE CallStops(w)
    BY <1>0, <1>8, CallOnly DEF CallStops, CallEnds
  <1> QED
    BY <1>1, <1>2, <1>3, <1>4, <1>5, <1>6, <1>7, <1>8 DEF PayCreator

\* The row an event leaves: a transfer is named only by the event that tells of it.
LEMMA UpdatedRow ==
    ASSUME IInv, NEW e \in sent, NEW seen \in Status, row.status # "absent"
    PROVE  LET r == Updated(e, seen)
           IN /\ r \in Row /\ r.status # "absent"
              /\ r.status = "transferred" => r.transfer \in Object /\ Made(r.transfer)
  <1> USE Fields DEF IInv
  <1>1. e \in Event /\ e.object \in Object /\ e.object \in 0 .. MaxObjects
    BY DEF TypeOK, ProviderType, Event, Object
  <1>2. row.status = "transferred" => row.transfer \in Object /\ Made(row.transfer)
    BY DEF Paid
  <1>3. CASE e.type = "transfer.created"
    <2>1. Made(e.object)
      BY <1>3 DEF EventsAhead, TransferEvent
    <2>2. Updated(e, seen) = IF seen # "transferred"
                             THEN [row EXCEPT !.status = "transferred", !.transfer = e.object]
                             ELSE row
      BY <1>3 DEF Updated
    <2> QED
      BY <1>1, <1>2, <2>1, <2>2 DEF Row, Status
  <1>4. CASE e.type \in IntentEvent
    <2>1. \/ Updated(e, seen) = row
          \/ \E s \in {"charged", "failed", "refunded", "disputed"} :
                  Updated(e, seen) = [row EXCEPT !.status = s]
      BY <1>4 DEF Updated, IntentEvent
    <2> QED
      BY <1>2, <2>1 DEF Row, Status
  <1>5. CASE e.type = "transfer.reversed"
    <2>1. Updated(e, seen) = [row EXCEPT !.status = "reversed", !.transfer = e.object]
      BY <1>5 DEF Updated
    <2> QED
      BY <1>1, <2>1 DEF Row, Status
  <1> QED
    BY <1>1, <1>3, <1>4, <1>5 DEF Event, TransferEvent

LEMMA HandleEventStep ==
    ASSUME IInv, NEW h \in Deliveries, HandleEvent(h)
    PROVE  IInv'
  <1> USE Fields DEF IInv
  <1>0. NoDelivery \in DeliveryLocals /\ NoDelivery.pc = "idle" /\ processed \subseteq Event
    BY DEF NoDelivery, DeliveryLocals, Status, TypeOK
  <1>1. CASE \E e \in sent : Receive(h, e)
    <2> PICK e \in sent : Receive(h, e)
      BY <1>1
    <2> DEFINE d == [pc |-> "find", event |-> e, seen |-> "absent"]
    <2>1. d \in DeliveryLocals
      BY DEF DeliveryLocals, Status, TypeOK, ProviderType
    <2>2. delivery' = [delivery EXCEPT ![h] = d] /\ UNCHANGED <<row, processed, call, provider>>
      BY DEF Receive
    <2> QED
      BY <1>0, <2>1, <2>2, DeliveryOnly
  <1>2. CASE FindPayout(h)
    <2> DEFINE d == IF Matches(delivery[h].event)
                    THEN [delivery[h] EXCEPT !.pc = "apply", !.seen = row.status]
                    ELSE [delivery[h] EXCEPT !.pc = "mark"]
    <2>1. /\ d \in DeliveryLocals /\ d.event = delivery[h].event
          /\ d.pc = "apply" => row.status # "absent"
      BY DEF DeliveryLocals, Row, Matches
    <2>2. delivery' = [delivery EXCEPT ![h] = d] /\ UNCHANGED <<row, processed, call, provider>>
      BY <1>2 DEF FindPayout, TypeOK
    <2>3. delivery[h].event \in sent
      BY <1>2 DEF FindPayout, EventsAhead
    <2> QED
      BY <1>0, <2>1, <2>2, <2>3, DeliveryOnly
  <1>3. CASE ApplyEvent(h)
    <2> DEFINE r == Updated(delivery[h].event, delivery[h].seen)
               d == [delivery[h] EXCEPT !.pc = "mark"]
    <2>1. /\ r \in Row /\ r.status # "absent"
          /\ r.status = "transferred" => r.transfer \in Object /\ Made(r.transfer)
      BY <1>3, UpdatedRow DEF ApplyEvent, EventsAhead, DeliveryLocals
    <2>2. d \in DeliveryLocals /\ d.event = delivery[h].event
      BY DEF DeliveryLocals
    <2>3. row' = r /\ delivery' = [delivery EXCEPT ![h] = d] /\ UNCHANGED <<processed, call, provider>>
      BY <1>3 DEF ApplyEvent
    <2> QED
      BY <1>0, <1>3, <2>1, <2>2, <2>3, RowWritten DEF ApplyEvent, TypeOK
  <1>4. CASE MarkProcessed(h)
    <2>1. processed' \subseteq Event
      BY <1>0, <1>4 DEF MarkProcessed, EventsAhead, TypeOK, ProviderType
    <2> QED
      BY <1>0, <1>4, <2>1, DeliveryOnly DEF MarkProcessed
  <1>5. CASE DeliveryStops(h)
    BY <1>0, <1>5, DeliveryOnly DEF DeliveryStops
  <1> QED
    BY <1>1, <1>2, <1>3, <1>4, <1>5 DEF HandleEvent

\* What the provider does of itself, and a step that changes nothing.
LEMMA ProviderMoves ==
    ASSUME IInv, ProviderSound', ProviderGrows, UNCHANGED <<row, processed, call, delivery>>,
           \A i \in Object : Made(i)' => Made(i)
    PROVE  IInv'
  <1> USE DEF IInv
  <1>1. TypeOK' /\ KeysRemember'
    BY DEF TypeOK, ProviderSound
  <1>2. MovedFromCharge' /\ TransferHasRow' /\ Paid'
    BY DEF MovedFromCharge, TransferHasRow, Paid, ProviderGrows
  <1>3. CallsAhead'
    BY DEF CallsAhead, ProviderGrows, Made
  <1>4. EventsAhead'
    BY DEF EventsAhead, ProviderSound, ProviderGrows
  <1> QED
    BY <1>1, <1>2, <1>3, <1>4

LEMMA Inductive == IInv /\ [Next]_vars => IInv'
  <1> SUFFICES ASSUME IInv, [Next]_vars PROVE IInv'
    OBVIOUS
  <1>1. CASE \E w \in Calls : PayCreator(w)
    BY <1>1, PayCreatorStep
  <1>2. CASE \E h \in Deliveries : HandleEvent(h)
    BY <1>2, HandleEventStep
  <1>3. CASE ProviderSteps
    <2>1. ASSUME NEW i \in Object, NEW status \in IntentStatus, IntentSettles(i, status)
          PROVE  IInv'
      BY <1>3, <2>1, SettlementStep, ProviderMoves DEF ProviderSteps, IntentSettles, Made
    <2>2. ASSUME NEW i \in Object, TransferReversed(i)
          PROVE  IInv'
      <3>1. \A j \in Object : Made(j)' => Made(j)
        BY <2>2 DEF TransferReversed, Made, IInv, TypeOK, ProviderType
      <3> QED
        BY <1>3, <2>2, <3>1, ReversalStep, ProviderMoves DEF ProviderSteps
    <2> QED
      BY <1>3, <2>1, <2>2 DEF ProviderSteps
  <1>4. CASE UNCHANGED vars
    BY <1>4, ProviderKept, ProviderMoves DEF vars, provider, Made
  <1> QED
    BY <1>1, <1>2, <1>3, <1>4 DEF Next

LEMMA Invariance == Spec => []IInv
  BY Initially, Inductive, PTL DEF Spec
-----------------------------------------------------------------------------

(* Every reachable state is well typed, whatever events arrive in whatever  *)
(* order and however the calls of payCreator overlap.                       *)
THEOREM TypeCorrect == Spec => []TypeOK
  <1>1. IInv => TypeOK
    BY DEF IInv
  <1> QED
    BY <1>1, Invariance, PTL

(* The brand is charged once and the creator is paid once, for every number *)
(* of overlapping, failing and repeated calls of payCreator.                *)
THEOREM OnceOnly == Spec => []ChargedAndPaidOnce
  <1>1. IInv => ChargedAndPaidOnce
    BY DEF IInv, KeysRemember, ChargedAndPaidOnce, Taken, Made
  <1> QED
    BY <1>1, Invariance, PTL

(* No money moves to a creator before there is a payout for the events of   *)
(* the transfer to find.                                                    *)
THEOREM RowBeforeTransfer == Spec => []TransferHasRow
  <1>1. IInv => TransferHasRow
    BY DEF IInv
  <1> QED
    BY <1>1, Invariance, PTL

(* A payout reads "transferred" only with a transfer that was made, out of  *)
(* a charge that was not declined, however late the statement or the event  *)
(* that says so.                                                            *)
THEOREM PaidAlwaysBacked == Spec => []PaidIsBacked
  <1>1. IInv => PaidIsBacked
    BY ProviderAssumption
       DEF IInv, Paid, PaidIsBacked, MovedFromCharge, Charged, Object
  <1> QED
    BY <1>1, Invariance, PTL

-----------------------------------------------------------------------------
(* The other components of the run.  The invariants of admission, drafts    *)
(* and tracking are proved beside those modules; here they are facts about  *)
(* a second instance of each, whose steps are those of the first.           *)

AdmissionProofs == INSTANCE CampaignAdmission_proofs WITH
    call <- admission, listing <- offer, Creators <- Applicants, MaxRows <- MaxAnswers

ReviewProofs == INSTANCE ContentReview_proofs WITH call <- review, MaxRows <- MaxDrafts

TrackingProofs == INSTANCE CreatorTracking_proofs WITH call <- tracking, linked <- product

workVars == <<component, vars, publishingVars, admissionVars, reviewVars, earningsVars, trackingVars,
              socialVars, crmVars>>

\* Both instances start and step alike.
LEMMA AdmissionSteps ==
    /\ Admission!Init <=> AdmissionProofs!Init
    /\ [Admission!Next]_admissionVars <=> [AdmissionProofs!Next]_AdmissionProofs!vars
  <1>1. Admission!NoCall = AdmissionProofs!NoCall
    BY DEF Admission!NoCall, AdmissionProofs!NoCall
  <1>2. \A seq, k : Admission!Rows(seq, k) = AdmissionProofs!Rows(seq, k)
    BY DEF Admission!Rows, AdmissionProofs!Rows
  <1>3. Admission!Accepted = AdmissionProofs!Accepted
    BY <1>2 DEF Admission!Accepted, AdmissionProofs!Accepted
  <1>4. Admission!SlotsLeft <=> AdmissionProofs!SlotsLeft
    BY <1>3
       DEF Admission!SlotsLeft, AdmissionProofs!SlotsLeft, Admission!Cardinality,
           AdmissionProofs!Cardinality
  <1>5. Admission!Init <=> AdmissionProofs!Init
    BY <1>1
       DEF Admission!Init, AdmissionProofs!Init, Admission!NoListing, AdmissionProofs!NoListing,
                Admission!NoSnapshot, AdmissionProofs!NoSnapshot
  <1>6. Admission!Next <=> AdmissionProofs!Next
    <2>1. \A open, n : Admission!ListCampaign(open, n) <=> AdmissionProofs!ListCampaign(open, n)
      BY <1>1, <1>2, <1>4 DEF Admission!ListCampaign, AdmissionProofs!ListCampaign
    <2>2. Admission!Unlist <=> AdmissionProofs!Unlist
      BY <1>1, <1>2, <1>4
         DEF Admission!Unlist, AdmissionProofs!Unlist, Admission!NoListing,
             AdmissionProofs!NoListing
    <2>3. \A c, k : Admission!ReadListing(c, k) <=> AdmissionProofs!ReadListing(c, k)
      BY <1>1, <1>2, <1>4
         DEF Admission!ReadListing, AdmissionProofs!ReadListing, Admission!At,
             AdmissionProofs!At, Admission!Applied, AdmissionProofs!Applied
    <2>4. \A c, k : Admission!ReadNoInvite(c, k) <=> AdmissionProofs!ReadNoInvite(c, k)
      BY <1>1, <1>2, <1>4
         DEF Admission!ReadNoInvite, AdmissionProofs!ReadNoInvite, Admission!At,
             AdmissionProofs!At
    <2>5. \A c, a, d : Admission!ReadApplication(c, a, d) <=> AdmissionProofs!ReadApplication(c, a, d)
      BY <1>1, <1>2, <1>4
         DEF Admission!ReadApplication, AdmissionProofs!ReadApplication, Admission!At,
             AdmissionProofs!At
    <2>6. \A c, i, d : Admission!ReadInvite(c, i, d) <=> AdmissionProofs!ReadInvite(c, i, d)
      BY <1>1, <1>2, <1>4
         DEF Admission!ReadInvite, AdmissionProofs!ReadInvite, Admission!At, AdmissionProofs!At
    <2>7. \A c : Admission!Apply(c) <=> AdmissionProofs!Apply(c)
      BY <1>1, <1>2, <1>4
         DEF Admission!Apply, AdmissionProofs!Apply, Admission!At, AdmissionProofs!At,
             Admission!Ends, AdmissionProofs!Ends
    <2>8. \A c : Admission!Respond(c) <=> AdmissionProofs!Respond(c)
      BY <1>1, <1>2, <1>4
         DEF Admission!Respond, AdmissionProofs!Respond, Admission!At, AdmissionProofs!At,
             Admission!Ends, AdmissionProofs!Ends, Admission!Goes, AdmissionProofs!Goes
    <2>9. \A c : Admission!FindInvite(c) <=> AdmissionProofs!FindInvite(c)
      BY <1>1, <1>2, <1>4
         DEF Admission!FindInvite, AdmissionProofs!FindInvite, Admission!At, AdmissionProofs!At,
             Admission!Goes, AdmissionProofs!Goes
    <2>10. \A c : Admission!AcceptInvite(c) <=> AdmissionProofs!AcceptInvite(c)
      BY <1>1, <1>2, <1>4
         DEF Admission!AcceptInvite, AdmissionProofs!AcceptInvite, Admission!At,
             AdmissionProofs!At, Admission!Goes, AdmissionProofs!Goes
    <2>11. \A c : Admission!Invite(c) <=> AdmissionProofs!Invite(c)
      BY <1>1, <1>2, <1>4
         DEF Admission!Invite, AdmissionProofs!Invite, Admission!At, AdmissionProofs!At,
             Admission!Ends, AdmissionProofs!Ends
    <2>12. \A c : Admission!Answer(c) <=> AdmissionProofs!Answer(c)
      BY <1>1, <1>2, <1>4
         DEF Admission!Answer, AdmissionProofs!Answer, Admission!At, AdmissionProofs!At,
             Admission!Ends, AdmissionProofs!Ends, Admission!Goes, AdmissionProofs!Goes
    <2>13. \A c : Admission!Snapshot(c) <=> AdmissionProofs!Snapshot(c)
      BY <1>1, <1>2, <1>4
         DEF Admission!Snapshot, AdmissionProofs!Snapshot, Admission!At, AdmissionProofs!At,
             Admission!Ends, AdmissionProofs!Ends, Admission!NoSnapshot,
             AdmissionProofs!NoSnapshot
    <2>14. \A c : Admission!CallStops(c) <=> AdmissionProofs!CallStops(c)
      BY <1>1, <1>2, <1>4
         DEF Admission!CallStops, AdmissionProofs!CallStops, Admission!At, AdmissionProofs!At,
             Admission!Ends, AdmissionProofs!Ends
    <2> QED
      BY <2>1, <2>2, <2>3, <2>4, <2>5, <2>6, <2>7, <2>8, <2>9, <2>10, <2>11, <2>12, <2>13, <2>14,
         Zenon
         DEF Admission!Next, AdmissionProofs!Next
  <1> QED
    BY <1>5, <1>6 DEF admissionVars, AdmissionProofs!vars

LEMMA ReviewSteps ==
    /\ Review!Init <=> ReviewProofs!Init
    /\ [Review!Next]_reviewVars <=> [ReviewProofs!Next]_ReviewProofs!vars
  BY DEF reviewVars, ReviewProofs!vars,
         Review!Init, Review!NoCall, Review!Next, Review!Upload, Review!At, Review!Stores,
         Review!FindSlot, Review!Goes, Review!Locked, Review!Discard, Review!Ends,
         Review!InsertSubmission, Review!UpdateSubmissionFile, Review!DeletePrevious,
         Review!UpdateStatus, Review!Revise, Review!Open, Review!Decisions, Review!ReadForStatus,
         Review!CallStops, ReviewProofs!Init, ReviewProofs!NoCall, ReviewProofs!Next,
         ReviewProofs!Upload, ReviewProofs!At, ReviewProofs!Stores, ReviewProofs!FindSlot,
         ReviewProofs!Goes, ReviewProofs!Locked, ReviewProofs!Discard, ReviewProofs!Ends,
         ReviewProofs!InsertSubmission, ReviewProofs!UpdateSubmissionFile,
         ReviewProofs!DeletePrevious, ReviewProofs!UpdateStatus, ReviewProofs!Revise,
         ReviewProofs!Open, ReviewProofs!Decisions, ReviewProofs!ReadForStatus,
         ReviewProofs!CallStops

LEMMA TrackingSteps ==
    /\ Tracking!Init <=> TrackingProofs!Init
    /\ [Tracking!Next]_trackingVars <=> [TrackingProofs!Next]_TrackingProofs!vars
  BY DEF trackingVars, TrackingProofs!vars,
         Tracking!Init, Tracking!NoTouch, Tracking!NoCall, Tracking!Next, Tracking!Issue,
         Tracking!ClaimInstall, Tracking!Credit, Tracking!TouchExpires,
         Tracking!RecordConversion, Tracking!ReadLink, Tracking!At, Tracking!Current,
         Tracking!Usable, Tracking!tables, Tracking!ShareLink, Tracking!Click, Tracking!NewGrant,
         Tracking!Unclaimed, Tracking!Ends, Tracking!OpenProduct, Tracking!Validate,
         Tracking!LockGrant, Tracking!Taken, Tracking!MayClaim, Tracking!ShareContext,
         Tracking!Claim, Tracking!CallStops, Tracking!Expires, Tracking!Disconnect,
         Tracking!CampaignEnds, TrackingProofs!Init, TrackingProofs!NoTouch,
         TrackingProofs!NoCall, TrackingProofs!Next, TrackingProofs!Issue,
         TrackingProofs!ClaimInstall, TrackingProofs!Credit, TrackingProofs!TouchExpires,
         TrackingProofs!RecordConversion, TrackingProofs!ReadLink, TrackingProofs!At,
         TrackingProofs!Current, TrackingProofs!Usable, TrackingProofs!tables,
         TrackingProofs!ShareLink, TrackingProofs!Click, TrackingProofs!NewGrant,
         TrackingProofs!Unclaimed, TrackingProofs!Ends, TrackingProofs!OpenProduct,
         TrackingProofs!Validate, TrackingProofs!LockGrant, TrackingProofs!Taken,
         TrackingProofs!MayClaim, TrackingProofs!ShareContext, TrackingProofs!Claim,
         TrackingProofs!CallStops, TrackingProofs!Expires, TrackingProofs!Disconnect,
         TrackingProofs!CampaignEnds

\* A behaviour of the run is one of each component.
LEMMA AdmissionRuns == WorkSpec => AdmissionProofs!Spec
  <1>1. WorkInit => AdmissionProofs!Init
    BY AdmissionSteps DEF WorkInit
  <1>2. [WorkNext]_workVars => [AdmissionProofs!Next]_AdmissionProofs!vars
    <2>1. [WorkNext]_workVars => [Admission!Next]_admissionVars
      BY DEF WorkNext, workVars
    <2> QED
      BY <2>1, AdmissionSteps
  <1> QED
    BY <1>1, <1>2, PTL DEF WorkSpec, workVars, AdmissionProofs!Spec

LEMMA ReviewRuns == WorkSpec => ReviewProofs!Spec
  <1>1. WorkInit => ReviewProofs!Init
    BY ReviewSteps DEF WorkInit
  <1>2. [WorkNext]_workVars => [ReviewProofs!Next]_ReviewProofs!vars
    <2>1. [WorkNext]_workVars => [Review!Next]_reviewVars
      BY DEF WorkNext, workVars
    <2> QED
      BY <2>1, ReviewSteps
  <1> QED
    BY <1>1, <1>2, PTL DEF WorkSpec, workVars, ReviewProofs!Spec

LEMMA TrackingRuns == WorkSpec => TrackingProofs!Spec
  <1>1. WorkInit => TrackingProofs!Init
    BY TrackingSteps DEF WorkInit
  <1>2. [WorkNext]_workVars => [TrackingProofs!Next]_TrackingProofs!vars
    <2>1. [WorkNext]_workVars => [Tracking!Next]_trackingVars
      BY DEF WorkNext, workVars
    <2> QED
      BY <2>1, TrackingSteps
  <1> QED
    BY <1>1, <1>2, PTL DEF WorkSpec, workVars, TrackingProofs!Spec

(* A snapshot of terms names an answer that stands, whatever requests       *)
(* cross (respondToApplication, respondToCampaignInvite).                   *)
THEOREM AcceptancesBacked == WorkSpec => []AcceptanceBacked
  <1>1. AdmissionProofs!AdmissionAssumption
    BY AdmissionAssumption DEF Admission!AdmissionAssumption, AdmissionProofs!AdmissionAssumption
  <1>2. AdmissionProofs!Spec => []AdmissionProofs!AcceptanceBacked
    BY <1>1, AdmissionProofs!TermsBacked
  <1>3. AdmissionProofs!AcceptanceBacked => AcceptanceBacked
    BY DEF AcceptanceBacked, Admission!AcceptanceBacked, AdmissionProofs!AcceptanceBacked
  <1> QED
    BY <1>2, <1>3, AdmissionRuns, PTL

(* The file a draft names can be read, however replacements overlap and     *)
(* wherever they stop (uploadFile, reviseSubmission).                       *)
THEOREM FilesKept == WorkSpec => []FileKept
  <1>1. ReviewProofs!ReviewAssumption
    BY ReviewAssumption DEF Review!ReviewAssumption, ReviewProofs!ReviewAssumption
  <1>2. ReviewProofs!Spec => []ReviewProofs!FileKept
    BY <1>1, ReviewProofs!NamedFileKept
  <1>3. ReviewProofs!FileKept => FileKept
    BY DEF FileKept, Review!FileKept, ReviewProofs!FileKept
  <1> QED
    BY <1>2, <1>3, ReviewRuns, PTL

(* The receipts of a grant are for one shopper, however claims and checks   *)
(* overlap (claim, validate).                                               *)
THEOREM ShoppersAlone == WorkSpec => []OneShopper
  <1>1. TrackingProofs!TrackingAssumption
    BY TrackingAssumption DEF Tracking!TrackingAssumption, TrackingProofs!TrackingAssumption
  <1>2. TrackingProofs!Spec => []TrackingProofs!OneShopper
    BY <1>1, TrackingProofs!GrantForOne
  <1>3. TrackingProofs!OneShopper => OneShopper
    BY DEF OneShopper, Tracking!OneShopper, TrackingProofs!OneShopper
  <1> QED
    BY <1>2, <1>3, TrackingRuns, PTL

(* No receipt is answered once the brand has disconnected (context).        *)
THEOREM AnswersLinked == WorkSpec => []AnsweredWhileLinked
  <1>1. TrackingProofs!TrackingAssumption
    BY TrackingAssumption DEF Tracking!TrackingAssumption, TrackingProofs!TrackingAssumption
  <1>2. TrackingProofs!Spec => []TrackingProofs!AnsweredWhileLinked
    BY <1>1, TrackingProofs!NoReceiptAfterUnlinking
  <1>3. TrackingProofs!AnsweredWhileLinked => AnsweredWhileLinked
    BY DEF AnsweredWhileLinked, Tracking!AnsweredWhileLinked, TrackingProofs!AnsweredWhileLinked,
           Tracking!At, TrackingProofs!At
  <1> QED
    BY <1>2, <1>3, TrackingRuns, PTL

-----------------------------------------------------------------------------
(* Social accounts.  DisconnectedStaysOff is about rows; a request writes   *)
(* them from what it read before.  It is kept because requests come one     *)
(* after the other: the row of the directory a request holds shows nothing  *)
(* of a provider that is gone, and one that goes on to write posts or the   *)
(* connection has a token to do so.                                         *)

SocialSteps == {"idle", "context", "token", "rotate", "fetch", "posts", "stats", "connect", "record",
                "keep", "restat", "attach", "clear", "remove", "unlist", "merge"}

Listed == {"none", "self_reported", "synced"}

SocialLocals == [at : SocialSteps, op : {"sync", "oauth", "import", "attach", "refresh"},
                 provider : Providers, context : [Providers -> Listed]]

SocialShape ==
    /\ accepted \in BOOLEAN
    /\ connection \in [Providers -> [status : {"disconnected", "connected", "error"}, token : BOOLEAN]]
    /\ posts \subseteq Providers /\ content \subseteq Providers /\ cleared \subseteq Providers
    /\ directory \in [Providers -> Listed]
    /\ social \in [OneCall -> SocialLocals]

\* What a request holds, and how far a disconnection has got.
RequestHolds(x) ==
    /\ x.at # "idle" => \A p \in cleared : x.context[p] # "synced"
    /\ x.at \in {"rotate", "fetch", "posts", "stats", "connect", "keep"} => x.provider \notin cleared
    /\ x.at \in {"remove", "unlist"} =>
          ~connection[x.provider].token /\ connection[x.provider].status = "disconnected"
    /\ x.at = "unlist" => x.provider \notin posts

SocialInv ==
    /\ SocialShape
    /\ Social!DisconnectedStaysOff
    /\ \A c \in OneCall : RequestHolds(social[c])

\* No provider was ever connected.
LEMMA SocialInitially == Social!Init => SocialInv
  <1> SUFFICES ASSUME Social!Init PROVE SocialInv
    OBVIOUS
  <1>1. SocialShape
    BY SocialAssumption
       DEF Social!SocialAssumption, Social!Init, Social!Idle, Social!NoCall, SocialShape, SocialLocals,
           SocialSteps, Listed
  <1> QED
    BY <1>1 DEF Social!Init, Social!NoCall, SocialInv, RequestHolds, Social!DisconnectedStaysOff

LEMMA SocialStep == SocialInv /\ [Social!Next]_socialVars => SocialInv'
  <1> SUFFICES ASSUME SocialInv, [Social!Next]_socialVars PROVE SocialInv'
    OBVIOUS
  <1> USE DEF SocialInv, SocialShape, SocialLocals, SocialSteps, Listed, RequestHolds,
              Social!DisconnectedStaysOff,
              Social!At
  <1>0. Social!NoCall \in SocialLocals /\ Social!NoCall.at = "idle"
    BY SocialAssumption DEF Social!SocialAssumption, Social!NoCall, Social!Idle
  <1>1. ASSUME NEW c \in OneCall, Social!ReadContext(c) PROVE SocialInv'
    BY <1>0, <1>1, OneCallAssumption DEF Social!ReadContext
  <1>2. ASSUME NEW c \in OneCall, Social!ReadToken(c) PROVE SocialInv'
    BY <1>0, <1>2, OneCallAssumption DEF Social!ReadToken, Social!Goes, Social!Throws, Social!RefreshFails, Social!Ends, Social!Of
  <1>3. ASSUME NEW c \in OneCall, Social!Rotate(c) PROVE SocialInv'
    <2>1. social[c] \in SocialLocals /\ social[c].provider \in Providers
      OBVIOUS
    <2>2. social' = [social EXCEPT ![c].at = "fetch"]
      BY <1>3 DEF Social!Rotate, Social!Goes
    <2>3. SocialShape'
      <3>1. connection' \in [Providers -> [status : {"disconnected", "connected", "error"}, token : BOOLEAN]]
        BY <1>3, <2>1 DEF Social!Rotate, Social!Of
      <3>2. social' \in [OneCall -> SocialLocals]
        BY <2>1, <2>2
      <3> QED
        BY <1>3, <3>1, <3>2 DEF Social!Rotate
    <2>4. Social!DisconnectedStaysOff'
      BY <1>3, <2>1, <2>2 DEF Social!Rotate, Social!Of
    <2>5. RequestHolds(social[c])'
      BY <1>3, <2>1, <2>2 DEF Social!Rotate, Social!Of
    <2> QED
      BY <2>3, <2>4, <2>5, OneCallAssumption
  <1>4. ASSUME NEW c \in OneCall, Social!Fetch(c) PROVE SocialInv'
    BY <1>0, <1>4, OneCallAssumption DEF Social!Fetch, Social!Goes
  <1>5. ASSUME NEW c \in OneCall, Social!SyncPosts(c) PROVE SocialInv'
    <2>1. social[c] \in SocialLocals /\ social[c].provider \in Providers
      OBVIOUS
    <2>2. social' = [social EXCEPT ![c].at = "stats"]
      BY <1>5 DEF Social!SyncPosts, Social!Goes
    <2>3. SocialShape'
      BY <1>5, <2>1, <2>2 DEF Social!SyncPosts, Social!Of
    <2>4. Social!DisconnectedStaysOff'
      BY <1>5, <2>1, <2>2 DEF Social!SyncPosts, Social!Of
    <2>5. RequestHolds(social[c])'
      BY <1>5, <2>1, <2>2 DEF Social!SyncPosts, Social!Of
    <2> QED
      BY <2>3, <2>4, <2>5, OneCallAssumption
  <1>6. ASSUME NEW c \in OneCall, Social!SyncStats(c) PROVE SocialInv'
    <2>1. social[c] \in SocialLocals /\ social[c].provider \in Providers
      OBVIOUS
    <2>2. social' = [social EXCEPT ![c].at = "connect"]
      BY <1>6 DEF Social!SyncStats, Social!Goes
    <2>3. SocialShape'
      BY <1>6, <2>1, <2>2 DEF Social!SyncStats, Social!Of
    <2>4. Social!DisconnectedStaysOff'
      BY <1>6, <2>1, <2>2 DEF Social!SyncStats, Social!Of
    <2>5. RequestHolds(social[c])'
      BY <1>6, <2>1, <2>2 DEF Social!SyncStats, Social!Of
    <2> QED
      BY <2>3, <2>4, <2>5, OneCallAssumption
  <1>7. ASSUME NEW c \in OneCall, Social!Connected(c) PROVE SocialInv'
    BY <1>0, <1>7, OneCallAssumption DEF Social!Connected, Social!Ends, Social!Of
  <1>8. ASSUME NEW c \in OneCall, Social!SyncFails(c) PROVE SocialInv'
    BY <1>0, <1>8, OneCallAssumption DEF Social!SyncFails, Social!Goes, Social!Of
  <1>9. ASSUME NEW c \in OneCall, Social!Record(c) PROVE SocialInv'
    BY <1>0, <1>9, OneCallAssumption DEF Social!Record, Social!Throws, Social!RefreshFails, Social!Goes, Social!Ends, Social!Of
  <1>10. ASSUME NEW c \in OneCall, Social!Keep(c) PROVE SocialInv'
    <2>1. social[c] \in SocialLocals /\ social[c].provider \in Providers
      OBVIOUS
    <2>2. social' = [social EXCEPT ![c].at = "context"]
      BY <1>10 DEF Social!Keep, Social!Goes
    <2>3. SocialShape'
      BY <1>10, <2>1, <2>2 DEF Social!Keep, Social!Of
    <2>4. Social!DisconnectedStaysOff'
      BY <1>10, <2>1, <2>2 DEF Social!Keep, Social!Of
    <2>5. RequestHolds(social[c])'
      BY <1>10, <2>1, <2>2 DEF Social!Keep, Social!Of
    <2> QED
      BY <2>3, <2>4, <2>5, OneCallAssumption
  <1>11. ASSUME NEW c \in OneCall, Social!Restat(c) PROVE SocialInv'
    BY <1>0, <1>11, OneCallAssumption DEF Social!Restat, Social!Ends
  <1>12. ASSUME NEW c \in OneCall, Social!SaveContent(c) PROVE SocialInv'
    BY <1>0, <1>12, OneCallAssumption DEF Social!SaveContent, Social!Ends, Social!Of
  <1>13. ASSUME NEW c \in OneCall, Social!ClearConnection(c) PROVE SocialInv'
    <2>1. social[c] \in SocialLocals /\ social[c].provider \in Providers
      OBVIOUS
    <2>2. social' = [social EXCEPT ![c].at = "remove"]
      BY <1>13 DEF Social!ClearConnection, Social!Goes
    <2>3. SocialShape'
      BY <1>13, <2>1, <2>2 DEF Social!ClearConnection, Social!Of
    <2>4. Social!DisconnectedStaysOff'
      BY <1>13, <2>1, <2>2 DEF Social!ClearConnection, Social!Of
    <2>5. RequestHolds(social[c])'
      BY <1>13, <2>1, <2>2 DEF Social!ClearConnection, Social!Of
    <2> QED
      BY <2>3, <2>4, <2>5, OneCallAssumption
  <1>14. ASSUME NEW c \in OneCall, Social!RemovePosts(c) PROVE SocialInv'
    BY <1>0, <1>14, OneCallAssumption DEF Social!RemovePosts, Social!Goes, Social!Of
  <1>15. ASSUME NEW c \in OneCall, Social!Unlist(c) PROVE SocialInv'
    BY <1>0, <1>15, OneCallAssumption DEF Social!Unlist, Social!Ends, Social!Of
  <1>16. ASSUME NEW c \in OneCall, Social!MergeStats(c) PROVE SocialInv'
    BY <1>0, <1>16, OneCallAssumption DEF Social!MergeStats, Social!Ends
  <1>17. ASSUME NEW c \in OneCall, Social!Fails(c) PROVE SocialInv'
    BY <1>0, <1>17, OneCallAssumption DEF Social!Fails, Social!Ends, Social!Throws, Social!RefreshFails, Social!Goes
  <1>18. ASSUME NEW c \in OneCall, Social!SaveProfile(c) PROVE SocialInv'
    BY <1>0, <1>18, OneCallAssumption DEF Social!SaveProfile, Social!Starts
  <1>19. ASSUME NEW c \in OneCall, NEW p \in Providers, Social!Sync(c, p) PROVE SocialInv'
    BY <1>0, <1>19, OneCallAssumption DEF Social!Sync, Social!Starts
  <1>20. ASSUME NEW c \in OneCall, NEW p \in Providers, Social!Callback(c, p) PROVE SocialInv'
    BY <1>0, <1>20, OneCallAssumption DEF Social!Callback, Social!Starts
  <1>21. ASSUME NEW c \in OneCall, NEW p \in Providers, Social!CallbackFails(c, p) PROVE SocialInv'
    BY <1>0, <1>21, OneCallAssumption DEF Social!CallbackFails, Social!Starts
  <1>22. ASSUME NEW c \in OneCall, NEW p \in Providers, Social!Import(c, p) PROVE SocialInv'
    BY <1>0, <1>22, OneCallAssumption DEF Social!Import, Social!Starts
  <1>23. ASSUME NEW c \in OneCall, NEW p \in Providers, Social!Attach(c, p) PROVE SocialInv'
    BY <1>0, <1>23, OneCallAssumption DEF Social!Attach, Social!Starts
  <1>24. ASSUME NEW c \in OneCall, NEW p \in Providers, Social!Disconnect(c, p) PROVE SocialInv'
    BY <1>0, <1>24, OneCallAssumption DEF Social!Disconnect, Social!Starts
  <1>25. ASSUME NEW p \in Providers, Social!Detach(p) PROVE SocialInv'
    BY <1>25 DEF Social!Detach
  <1>26. CASE UNCHANGED socialVars
    BY <1>26 DEF socialVars
  <1> QED
    BY <1>1, <1>2, <1>3, <1>4, <1>5, <1>6, <1>7, <1>8, <1>9, <1>10, <1>11, <1>12, <1>13, <1>14,
       <1>15, <1>16, <1>17, <1>18, <1>19, <1>20, <1>21, <1>22, <1>23, <1>24, <1>25, <1>26
       DEF Social!Next

LEMMA SocialInvariance == WorkSpec => []SocialInv
  <1>1. WorkInit => SocialInv
    BY SocialInitially DEF WorkInit
  <1>2. SocialInv /\ [WorkNext]_workVars => SocialInv'
    <2>1. [WorkNext]_workVars => [Social!Next]_socialVars
      BY DEF WorkNext, workVars
    <2> QED
      BY <2>1, SocialStep
  <1> QED
    BY <1>1, <1>2, PTL DEF WorkSpec, workVars

(* Once a provider is disconnected, its token, its connected status, its    *)
(* synchronised posts and its synchronised row of the directory are gone    *)
(* and stay away until it is connected again, for any number of providers   *)
(* and any sequence of synchronisations, imports, failures and saves of the *)
(* profile, one request after the other (disconnect).                       *)
THEOREM OffForGood == WorkSpec => []DisconnectedStaysOff
  <1>1. SocialInv => DisconnectedStaysOff
    BY DEF SocialInv, DisconnectedStaysOff
  <1> QED
    BY <1>1, SocialInvariance, PTL

-----------------------------------------------------------------------------
(* Sums over finite sets, as MapThenSumSet of the community modules takes   *)
(* them: one element after the other, whichever CHOOSE gives.  What is said *)
(* of every subset is said by the absence of a least one without it.        *)

LEMMA LeastSubset ==
    ASSUME NEW S, IsFiniteSet(S), NEW T \in SUBSET SUBSET S, T # {}
    PROVE  \E s \in T : \A u \in T : u \subseteq s => u = s
  <1>1. T \subseteq FiniteSubsetsOf(S)
    BY FS_FiniteSubsetsOfFinite
  <1>2. IsWellFoundedOn(StrictSubsetOrdering(S), FiniteSubsetsOf(S))
    BY FS_StrictSubsetOrderingWellFounded
  <1>3. \E s \in T : \A u \in T : ~(<<u, s>> \in StrictSubsetOrdering(S))
    BY <1>1, <1>2, WFMin
  <1> QED
    BY <1>3 DEF StrictSubsetOrdering

First(s) == CHOOSE x \in s : TRUE

IsSum(g, S, f) == g = [s \in SUBSET S |-> IF s = {} THEN 0 ELSE f[First(s)] + g[s \ {First(s)}]]

Agree(f, e, S) == \A x \in S : f[x] = e[x]

LEMMA FirstIn == ASSUME NEW s, s # {} PROVE First(s) \in s
  BY DEF First

\* A sum depends on what is summed alone.
LEMMA SameSum ==
    ASSUME NEW S, NEW T, IsFiniteSet(S), NEW f, NEW e, NEW g, NEW h, IsSum(g, S, f), IsSum(h, T, e),
           Agree(f, e, S \cap T)
    PROVE  Agree(g, h, SUBSET (S \cap T))
  <1> USE DEF Agree
  <1> DEFINE B == {s \in SUBSET (S \cap T) : g[s] # h[s]}
  <1>1. SUFFICES ASSUME B # {} PROVE FALSE
    OBVIOUS
  <1>2. B \in SUBSET SUBSET S
    OBVIOUS
  <1>3. PICK s \in B : \A u \in B : u \subseteq s => u = s
    <2> HIDE DEF B
    <2> QED
      BY <1>1, <1>2, LeastSubset
  <1>4. s # {}
    BY <1>3 DEF IsSum
  <1>5. First(s) \in s
    BY <1>4, FirstIn
  <1>6. s \ {First(s)} \notin B
    BY <1>3, <1>5
  <1>7. g[s \ {First(s)}] = h[s \ {First(s)}]
    BY <1>6
  <1>8. g[s] = f[First(s)] + g[s \ {First(s)}]
    BY <1>4 DEF IsSum
  <1>9. h[s] = e[First(s)] + h[s \ {First(s)}]
    BY <1>4 DEF IsSum
  <1> QED
    BY <1>5, <1>7, <1>8, <1>9

LEMMA SumExists ==
    ASSUME NEW S, IsFiniteSet(S), NEW f
    PROVE  \E g : IsSum(g, S, f)
  <1> DEFINE B == {s \in SUBSET S : ~\E g : IsSum(g, s, f)}
             sum(v) == CHOOSE g : IsSum(g, v, f)
  <1>1. SUFFICES ASSUME B # {} PROVE FALSE
    OBVIOUS
  <1>2. PICK s \in B : \A u \in B : u \subseteq s => u = s
    <2>1. B \in SUBSET SUBSET S
      OBVIOUS
    <2> HIDE DEF B
    <2> QED
      BY <1>1, <2>1, LeastSubset
  <1> DEFINE h == [u \in SUBSET s |-> IF u = {} THEN 0 ELSE f[First(u)] + sum(u \ {First(u)})[u \ {First(u)}]]
  <1>3. ASSUME NEW v \in SUBSET s, v # s
        PROVE  IsSum(sum(v), v, f) /\ IsFiniteSet(v)
    <2>1. \E g : IsSum(g, v, f)
      BY <1>2, <1>3
    <2>2. IsFiniteSet(v)
      BY FS_Subset
    <2> QED
      BY <2>1, <2>2
  <1> HIDE DEF sum
  <1>4. ASSUME NEW v \in SUBSET s, v # s
        PROVE  h[v] = sum(v)[v]
    <2>1. IsSum(sum(v), v, f)
      BY <1>3, <1>4
    <2>2. CASE v = {}
      BY <2>1, <2>2 DEF IsSum
    <2>3. CASE v # {}
      <3> DEFINE w == v \ {First(v)}
      <3>1. First(v) \in v
        BY <2>3, FirstIn
      <3>2. w \in SUBSET s /\ w # s /\ w \in SUBSET v
        BY <3>1
      <3>3. IsSum(sum(w), w, f) /\ IsFiniteSet(w)
        BY <1>3, <3>2
      <3>4. sum(w)[w] = sum(v)[w]
        BY <2>1, <3>2, <3>3, SameSum DEF Agree
      <3>5. sum(v)[v] = f[First(v)] + sum(v)[w]
        BY <2>1, <2>3 DEF IsSum
      <3>6. h[v] = f[First(v)] + sum(w)[w]
        BY <2>3
      <3> QED
        BY <3>4, <3>5, <3>6
    <2> QED
      BY <2>2, <2>3
  <1>5. ASSUME NEW u \in SUBSET s, u # {}
        PROVE  h[u] = f[First(u)] + h[u \ {First(u)}]
    <2>1. First(u) \in u
      BY <1>5, FirstIn
    <2>2. u \ {First(u)} \in SUBSET s /\ u \ {First(u)} # s
      BY <2>1
    <2>3. h[u \ {First(u)}] = sum(u \ {First(u)})[u \ {First(u)}]
      BY <1>4, <2>2
    <2> QED
      BY <1>5, <2>3
  <1>6. h[{}] = 0
    OBVIOUS
  <1>7. h = [u \in SUBSET s |-> h[u]]
    OBVIOUS
  <1> HIDE DEF h
  <1>8. IsSum(h, s, f)
    BY <1>5, <1>6, <1>7 DEF IsSum
  <1> QED
    BY <1>2, <1>8

LEMMA SumIsInt ==
    ASSUME NEW S, IsFiniteSet(S), NEW f \in [S -> Int], NEW g, IsSum(g, S, f)
    PROVE  \A s \in SUBSET S : g[s] \in Int
  <1> DEFINE B == {s \in SUBSET S : g[s] \notin Int}
  <1>1. SUFFICES ASSUME B # {} PROVE FALSE
    OBVIOUS
  <1>2. PICK s \in B : \A u \in B : u \subseteq s => u = s
    <2>1. B \in SUBSET SUBSET S
      OBVIOUS
    <2> HIDE DEF B
    <2> QED
      BY <1>1, <2>1, LeastSubset
  <1>3. s # {}
    BY <1>2 DEF IsSum
  <1>4. First(s) \in s
    BY <1>3, FirstIn
  <1>5. g[s \ {First(s)}] \in Int
    BY <1>2, <1>4
  <1>6. g[s] = f[First(s)] + g[s \ {First(s)}]
    BY <1>3 DEF IsSum
  <1> QED
    BY <1>4, <1>5, <1>6

\* Any element may be added last.
LEMMA SumAdds ==
    ASSUME NEW S, IsFiniteSet(S), NEW f \in [S -> Int], NEW g, IsSum(g, S, f)
    PROVE  \A s \in SUBSET S : \A y \in s : g[s] = f[y] + g[s \ {y}]
  <1> DEFINE B == {s \in SUBSET S : \E y \in s : g[s] # f[y] + g[s \ {y}]}
  <1>1. SUFFICES ASSUME B # {} PROVE FALSE
    OBVIOUS
  <1>2. PICK s \in B : \A u \in B : u \subseteq s => u = s
    <2>1. B \in SUBSET SUBSET S
      OBVIOUS
    <2> HIDE DEF B
    <2> QED
      BY <1>1, <2>1, LeastSubset
  <1>3. PICK y \in s : g[s] # f[y] + g[s \ {y}]
    BY <1>2
  <1> DEFINE x == First(s)
  <1>4. x \in s
    BY FirstIn
  <1>5. g[s] = f[x] + g[s \ {x}]
    BY <1>4 DEF IsSum
  <1>6. x # y
    BY <1>3, <1>5
  <1>7. g[s \ {x}] = f[y] + g[(s \ {x}) \ {y}]
    <2>1. s \ {x} \in SUBSET S /\ s \ {x} \notin B
      BY <1>2, <1>4
    <2> QED
      BY <2>1, <1>4, <1>6
  <1>8. g[s \ {y}] = f[x] + g[(s \ {y}) \ {x}]
    <2>1. s \ {y} \in SUBSET S /\ s \ {y} \notin B
      BY <1>2, <1>4
    <2> QED
      BY <2>1, <1>4, <1>6
  <1>9. (s \ {x}) \ {y} = (s \ {y}) \ {x}
    OBVIOUS
  <1>10. g[(s \ {x}) \ {y}] \in Int /\ f[x] \in Int /\ f[y] \in Int
    <2>1. (s \ {x}) \ {y} \in SUBSET S
      OBVIOUS
    <2> QED
      BY <2>1, <1>4, SumIsInt
  <1> DEFINE rest == g[(s \ {x}) \ {y}]
  <1>11. rest = g[(s \ {y}) \ {x}]
    BY <1>9, Zenon
  <1>12. g[s] = f[x] + (f[y] + rest) /\ g[s \ {y}] = f[x] + rest
    BY <1>5, <1>7, <1>8, <1>11
  <1>13. rest \in Int /\ f[x] \in Int /\ f[y] \in Int
    BY <1>10
  <1> HIDE DEF rest, x, B
  <1> QED
    BY <1>3, <1>12, <1>13

-----------------------------------------------------------------------------
(* Commission earnings.  AdjustmentsAddUp is a sum over the ledger, which   *)
(* an insertion extends by the difference to what was accrued when the call *)
(* read it; that is still the latest row, since only the holder of the      *)
(* lock inserts.  What a call read of the revision before its own holds of  *)
(* the ledger until it inserts.                                             *)

Entry == [posted : Earnings!Posted, revision : 1 .. MaxRevision, accrued : Nat, adjustment : Int,
          state : {"under_review", "held", "reversed"}]

Adjustments(rows_, n) == Earnings!MapThenSumSet(LAMBDA q : rows_[q].adjustment, 1 .. n)

LEMMA AdjustmentsAreASum ==
    ASSUME NEW L, NEW n \in Nat
    PROVE  \E g : IsSum(g, 1 .. n, [q \in 1 .. n |-> L[q].adjustment]) /\ Adjustments(L, n) = g[1 .. n]
  <1> DEFINE S == 1 .. n
             f == [q \in S |-> L[q].adjustment]
             R(g) == g = [s \in SUBSET S |-> IF s = {} THEN 0
                                             ELSE L[CHOOSE x \in s : TRUE].adjustment + g[s \ {CHOOSE x \in s : TRUE}]]
  <1>1. Adjustments(L, n) = (CHOOSE g : R(g))[S]
    BY Zenon DEF Adjustments, Earnings!MapThenSumSet, Earnings!MapThenFoldSet
  <1>2. ASSUME NEW g PROVE R(g) <=> IsSum(g, S, f)
    <2>1. \A s \in SUBSET S : s # {} => f[First(s)] = L[CHOOSE x \in s : TRUE].adjustment
      BY FirstIn DEF First
    <2> QED
      BY <2>1 DEF IsSum, First
  <1>3. IsFiniteSet(S)
    BY FS_Interval
  <1>4. \E g : IsSum(g, S, f)
    BY <1>3, SumExists
  <1> HIDE DEF R, S, f
  <1>5. IsSum(CHOOSE g : R(g), S, f)
    BY <1>2, <1>4
  <1>6. \E g : IsSum(g, S, f) /\ Adjustments(L, n) = g[S]
    BY <1>1, <1>5
  <1> QED
    BY <1>6 DEF S, f

LEMMA NoAdjustments == ASSUME NEW L PROVE Adjustments(L, 0) = 0
  <1>1. PICK g : IsSum(g, 1 .. 0, [q \in 1 .. 0 |-> L[q].adjustment]) /\ Adjustments(L, 0) = g[1 .. 0]
    BY AdjustmentsAreASum
  <1>2. 1 .. 0 = {}
    OBVIOUS
  <1> QED
    BY <1>1, <1>2 DEF IsSum

LEMMA SameAdjustments ==
    ASSUME NEW L, NEW M, NEW n \in Nat, \A q \in 1 .. n : L[q].adjustment = M[q].adjustment
    PROVE  Adjustments(L, n) = Adjustments(M, n)
  <1> DEFINE e == [q \in 1 .. n |-> L[q].adjustment]
             f == [q \in 1 .. n |-> M[q].adjustment]
  <1>1. e = f
    OBVIOUS
  <1>2. PICK g : IsSum(g, 1 .. n, e) /\ Adjustments(L, n) = g[1 .. n]
    BY AdjustmentsAreASum
  <1>3. PICK h : IsSum(h, 1 .. n, f) /\ Adjustments(M, n) = h[1 .. n]
    BY AdjustmentsAreASum
  <1>4. IsFiniteSet(1 .. n)
    BY FS_Interval
  <1>5. IsSum(h, 1 .. n, e)
    BY <1>1, <1>3
  <1>6. \A s \in SUBSET ((1 .. n) \cap (1 .. n)) : g[s] = h[s]
    <2> DEFINE S == 1 .. n
    <2>1. Agree(e, e, S \cap S)
      BY DEF Agree
    <2>2. IsSum(g, S, e) /\ IsSum(h, S, e) /\ IsFiniteSet(S)
      BY <1>2, <1>4, <1>5
    <2> HIDE DEF e, S
    <2>3. Agree(g, h, SUBSET (S \cap S))
      BY <2>1, <2>2, SameSum
    <2> QED
      BY <2>3 DEF S, Agree
  <1> QED
    BY <1>2, <1>3, <1>6

LEMMA SumOfPart ==
    ASSUME NEW S, NEW T, IsFiniteSet(S), S \subseteq T, NEW e, NEW f, NEW g, NEW h,
           IsSum(g, S, e), IsSum(h, T, f), \A x \in S : e[x] = f[x]
    PROVE  g[S] = h[S]
  <1>1. Agree(e, f, S \cap T)
    BY DEF Agree
  <1>2. Agree(g, h, SUBSET (S \cap T))
    BY <1>1, SameSum
  <1> QED
    BY <1>2 DEF Agree

LEMMA OneMoreAdjustment ==
    ASSUME NEW L, NEW n \in Nat, \A q \in 1 .. n + 1 : L[q].adjustment \in Int
    PROVE  Adjustments(L, n + 1) = L[n + 1].adjustment + Adjustments(L, n)
  <1> DEFINE S == 1 .. n
             T == 1 .. n + 1
             e == [q \in S |-> L[q].adjustment]
             f == [q \in T |-> L[q].adjustment]
  <1>1. PICK g : IsSum(g, S, e) /\ Adjustments(L, n) = g[S]
    BY AdjustmentsAreASum
  <1>2. PICK h : IsSum(h, T, f) /\ Adjustments(L, n + 1) = h[T]
    <2>1. n + 1 \in Nat
      OBVIOUS
    <2> QED
      BY <2>1, AdjustmentsAreASum
  <1>3. IsFiniteSet(S) /\ IsFiniteSet(T)
    BY FS_Interval
  <1>4. f \in [T -> Int] /\ f[n + 1] = L[n + 1].adjustment /\ n + 1 \in T
    OBVIOUS
  <1>5. T \ {n + 1} = S /\ S \in SUBSET (S \cap T) /\ T \in SUBSET T
    OBVIOUS
  <1>6. \A x \in S \cap T : e[x] = f[x]
    OBVIOUS
  <1> HIDE DEF S, T, e, f
  <1>7. h[T] = f[n + 1] + h[T \ {n + 1}]
    BY <1>2, <1>3, <1>4, <1>5, SumAdds
  <1>8. g[S] = h[S]
    <2>1. IsSum(g, S, e) /\ IsSum(h, T, f) /\ IsFiniteSet(S)
      BY <1>1, <1>2, <1>3
    <2>2. S \subseteq T /\ \A x \in S : e[x] = f[x]
      BY <1>5, <1>6
    <2> QED
      BY <2>1, <2>2, SumOfPart
  <1> QED
    BY <1>1, <1>2, <1>4, <1>5, <1>7, <1>8

LEMMA TermsAreNumbers == ASSUME NEW t \in Earnings!TermsType PROVE t.points \in Nat /\ t.fixed \in Nat
  <1> DEFINE Points == 1 .. 10000
  <1>1. t.points \in Points
    BY DEF Earnings!TermsType
  <1>2. t.fixed \in Nat
    BY DEF Earnings!TermsType
  <1>3. \A n \in Points : n \in Nat
    OBVIOUS
  <1> HIDE DEF Points
  <1>4. t.points \in Nat
    BY <1>1, <1>3, Zenon
  <1> QED
    BY <1>2, <1>4, Zenon

\* The arithmetic of commissionResult.
LEMMA Arithmetic ==
    ASSUME NEW t \in Terms, NEW f \in Facts, Earnings!Valid(f)
    PROVE  /\ Earnings!Accrued(t, f) \in Nat
           /\ Earnings!State(t, f) \in {"under_review", "held", "reversed"}
           /\ t.type = "percentage_of_sale" =>
                 Earnings!Accrued(t, f) * 10000 <= (Net - f.refundedNet) * t.points
           /\ Earnings!Reversed(t, f) => Earnings!Accrued(t, f) = 0
           /\ Earnings!State(t, f) = "reversed" <=> Earnings!Reversed(t, f)
  <1>1. /\ t \in Earnings!TermsType /\ f \in Earnings!FactsType /\ Net \in Nat
    BY EarningsAssumption DEF Earnings!EarningsAssumption
  <1>2. /\ t.points \in Nat /\ t.fixed \in Nat /\ f.refundedNet \in Nat
        /\ f.fee \in {-1} \cup Nat /\ f.refundedFee \in {-1} \cup Nat
    <2>1. t.points \in Nat /\ t.fixed \in Nat
      BY <1>1, TermsAreNumbers
    <2>2. f.refundedNet \in Nat
      BY <1>1 DEF Earnings!FactsType
    <2>3. f.fee \in Earnings!Cents /\ f.refundedFee \in Earnings!Cents
      BY <1>1 DEF Earnings!FactsType
    <2> QED
      BY <2>1, <2>2, <2>3 DEF Earnings!Cents, Earnings!Unknown
  <1>3. Net - f.refundedNet \in Nat
    BY <1>1, <1>2 DEF Earnings!Valid
  <1>4. Earnings!Basis(t, f) \in Nat
    BY <1>1, <1>2, <1>3 DEF Earnings!Valid, Earnings!Basis, Earnings!Known, Earnings!Unknown
  <1>5. ASSUME NEW b \in Nat
        PROVE  (b * t.points) \div 10000 \in Nat /\ ((b * t.points) \div 10000) * 10000 <= b * t.points
    <2>1. b * t.points \in Nat
      BY <1>2
    <2>2. ASSUME NEW k \in Nat PROVE k \div 10000 \in Nat /\ (k \div 10000) * 10000 <= k
      OBVIOUS
    <2> QED
      BY <2>1, <2>2
  <1>6. Earnings!Accrued(t, f) \in Nat
    BY <1>2, <1>4, <1>5 DEF Earnings!Accrued
  <1>7. ASSUME t.type = "percentage_of_sale"
        PROVE  Earnings!Accrued(t, f) * 10000 <= (Net - f.refundedNet) * t.points
    <2>1. Earnings!Basis(t, f) = Net - f.refundedNet
      BY <1>7 DEF Earnings!Basis
    <2>2. CASE Earnings!Reversed(t, f)
      <3>1. (Net - f.refundedNet) * t.points \in Nat
        BY <1>2, <1>3
      <3>2. Earnings!Accrued(t, f) = 0
        BY <2>2 DEF Earnings!Accrued
      <3> QED
        BY <3>1, <3>2
    <2>3. CASE ~Earnings!Reversed(t, f)
      BY <1>3, <1>5, <1>7, <2>1, <2>3 DEF Earnings!Accrued
    <2> QED
      BY <2>2, <2>3
  <1> QED
    BY <1>6, <1>7 DEF Earnings!State, Earnings!Accrued

\* A refund that is not taken back leaves reversed what it reversed.
LEMMA ReversedLater ==
    ASSUME NEW t \in Terms, NEW f \in Facts, NEW g \in Facts, Earnings!Valid(g), Earnings!Reversed(t, f),
           f.refundedNet <= g.refundedNet, f.full => g.full
    PROVE  Earnings!Reversed(t, g)
  <1>1. f.refundedNet \in Nat /\ g.refundedNet \in Nat /\ Net \in Nat
    BY EarningsAssumption DEF Earnings!EarningsAssumption, Earnings!FactsType
  <1> QED
    BY <1>1 DEF Earnings!Valid, Earnings!Reversed

IngestLocals ==
    {[at |-> "idle"]} \cup [at : {"read", "answer"}, posted : Earnings!Posted]
                      \cup [at : {"insert"}, posted : Earnings!Posted, before : Nat]

EarningsShape ==
    /\ terms \in Terms /\ claimed \in BOOLEAN
    /\ ledger \in Seq(Entry)
    /\ acknowledged \subseteq Earnings!Posted
    /\ holder \subseteq Calls
    /\ ingest \in [Calls -> IngestLocals]

\* A row is what the code makes of the revision it records.
Recorded(r) ==
    LET p == ledger[r].posted IN
    /\ ledger[r].revision = r
    /\ Earnings!Valid(p.facts)
    /\ ledger[r].accrued = Earnings!Accrued(terms, p.facts)
    /\ ledger[r].state = Earnings!State(terms, p.facts)
    /\ Adjustments(ledger, r) = ledger[r].accrued

\* No row takes back what an earlier one says was refunded.
RefundsGrow ==
    \A q, r \in 1 .. Len(ledger) : q < r =>
        /\ ledger[q].posted.facts.refundedNet <= ledger[r].posted.facts.refundedNet
        /\ ledger[q].posted.facts.full => ledger[r].posted.facts.full

InLedger(p) == \E r \in 1 .. Len(ledger) : ledger[r].posted = p

\* What an ingest has found, which the lock keeps true.
Found(c) ==
    /\ ingest[c].at \in {"read", "insert"} => holder = {c}
    /\ ingest[c].at = "insert" =>
          /\ Earnings!Follows(ingest[c].posted) /\ Earnings!Valid(ingest[c].posted.facts)
          /\ ingest[c].before = Earnings!Latest.accrued
    /\ ingest[c].at = "answer" => InLedger(ingest[c].posted)

AllInLedger(delivered) == \A p \in delivered : InLedger(p)

AllFound == \A c \in Calls : Found(c)

EarningsInv ==
    /\ EarningsShape
    /\ \A r \in 1 .. Len(ledger) : Recorded(r)
    /\ RefundsGrow
    /\ AllInLedger(acknowledged)
    /\ AllFound

\* The line has no history, and nobody has delivered one.
LEMMA EarningsInitially == Earnings!Init => EarningsInv
  <1> SUFFICES ASSUME Earnings!Init PROVE EarningsInv
    OBVIOUS
  <1>1. EarningsShape /\ Len(ledger) = 0
    BY DEF Earnings!Init, Earnings!NoCall, EarningsShape, IngestLocals
  <1> QED
    BY <1>1 DEF Earnings!Init, Earnings!NoCall, EarningsInv, RefundsGrow, AllInLedger, AllFound, Found

\* A step that leaves the ledger alone.
LEMMA EarningsLedgerKept ==
    ASSUME EarningsInv, EarningsShape', ledger' = ledger /\ terms' = terms, AllInLedger(acknowledged'), AllFound'
    PROVE  EarningsInv'
  <1>1. ledger' = ledger /\ terms' = terms
    OBVIOUS
  <1>2. \A r \in 1 .. Len(ledger') : Recorded(r)'
    BY <1>1 DEF EarningsInv, Recorded
  <1>3. RefundsGrow'
    BY <1>1 DEF EarningsInv, RefundsGrow
  <1>4. AllInLedger(acknowledged)'
    BY <1>1 DEF AllInLedger, InLedger
  <1> QED
    BY <1>2, <1>3, <1>4 DEF EarningsInv

LEMMA LedgerLength == EarningsShape => Len(ledger) \in Nat /\ DOMAIN ledger = 1 .. Len(ledger)
  BY LenProperties DEF EarningsShape

LEMMA EntryOfLedger ==
    ASSUME EarningsShape, NEW r \in 1 .. Len(ledger)
    PROVE  /\ ledger[r] \in Entry /\ ledger[r].posted \in Earnings!Posted
           /\ ledger[r].accrued \in Nat /\ ledger[r].adjustment \in Int
  <1>1. ledger[r] \in Entry
    BY ElementOfSeq DEF EarningsShape
  <1> QED
    BY <1>1 DEF Entry

LEMMA FactsOfPosted ==
    ASSUME NEW p \in Earnings!Posted
    PROVE  /\ p.facts \in Facts /\ p.revision \in 1 .. MaxRevision
           /\ p.facts.refundedNet \in Nat /\ p.facts.full \in BOOLEAN
  <1>1. p.facts \in Facts /\ p.revision \in 1 .. MaxRevision
    BY DEF Earnings!Posted
  <1>2. p.facts \in Earnings!FactsType
    BY <1>1, EarningsAssumption DEF Earnings!EarningsAssumption
  <1> QED
    BY <1>1, <1>2 DEF Earnings!FactsType

LEMMA IngestTyped ==
    ASSUME EarningsShape, NEW c \in Calls
    PROVE  /\ ingest[c] \in IngestLocals
           /\ ingest[c].at \in {"read", "insert", "answer"} => ingest[c].posted \in Earnings!Posted
           /\ ingest[c].at = "insert" => ingest[c].before \in Nat
           /\ ingest[c] # Earnings!NoCall => ingest[c].at \in {"read", "insert", "answer"}
  <1>1. ingest[c] \in IngestLocals
    BY DEF EarningsShape
  <1> QED
    BY <1>1 DEF IngestLocals, Earnings!NoCall

NoneLost == \A p : InLedger(p) => InLedger(p)'

\* What another call has found still holds: it does not hold the lock, or nothing is inserted.
LEMMA StillFound ==
    ASSUME EarningsInv, NEW d \in Calls, ingest'[d] = ingest[d],
           holder = {d} => holder' = {d} /\ ledger' = ledger,
           NoneLost
    PROVE  Found(d)'
  <1>1. Found(d)
    BY DEF EarningsInv, AllFound
  <1>2. CASE holder = {d}
    <2>1. ingest'[d] = ingest[d] /\ holder' = {d} /\ ledger' = ledger
      BY <1>2
    <2>2. Earnings!Latest' = Earnings!Latest
      BY <2>1 DEF Earnings!Latest
    <2>3. Earnings!Follows(ingest[d].posted)' <=> Earnings!Follows(ingest[d].posted)
      BY <2>1, <2>2 DEF Earnings!Follows
    <2>4. Earnings!Valid(ingest[d].posted.facts)' <=> Earnings!Valid(ingest[d].posted.facts)
      BY <2>1 DEF Earnings!Valid
    <2>5. InLedger(ingest[d].posted)' <=> InLedger(ingest[d].posted)
      BY <2>1 DEF InLedger
    <2> QED
      BY <1>1, <1>2, <2>1, <2>2, <2>3, <2>4, <2>5 DEF Found
  <1>3. CASE holder # {d}
    BY <1>1, <1>3 DEF Found, NoneLost
  <1> QED
    BY <1>2, <1>3

LEMMA NothingInserted == ASSUME ledger' = ledger PROVE NoneLost
  BY DEF NoneLost, InLedger

\* A call that ends, whatever it did.
LEMMA IngestEnds ==
    ASSUME EarningsInv, NEW c \in Calls, Earnings!Ends(c), UNCHANGED <<terms, ledger, claimed>>,
           acknowledged' \subseteq Earnings!Posted, AllInLedger(acknowledged')
    PROVE  EarningsInv'
  <1>1. /\ ingest' = [ingest EXCEPT ![c] = [at |-> "idle"]]
        /\ holder' = holder \ {c}
        /\ ledger' = ledger /\ terms' = terms /\ claimed' = claimed
    BY DEF Earnings!Ends, Earnings!NoCall
  <1>2. EarningsShape'
    <2>1. ingest \in [Calls -> IngestLocals] /\ [at |-> "idle"] \in IngestLocals
      BY DEF EarningsInv, EarningsShape, IngestLocals
    <2>2. ingest' \in [Calls -> IngestLocals]
      BY <1>1, <2>1
    <2> QED
      BY <1>1, <2>2 DEF EarningsInv, EarningsShape
  <1>3. ASSUME NEW d \in Calls PROVE Found(d)'
    <2>1. CASE d = c
      <3>1. ingest'[d] = [at |-> "idle"]
        BY <1>1, <2>1 DEF EarningsInv, EarningsShape
      <3>2. ingest'[d].at = "idle"
        BY <3>1
      <3> QED
        BY <3>2 DEF Found
    <2>2. CASE d # c
      <3>1. ingest'[d] = ingest[d]
        BY <1>1, <2>2 DEF EarningsInv, EarningsShape
      <3>2. holder = {d} => holder' = {d} /\ ledger' = ledger
        BY <1>1, <2>2
      <3>3. NoneLost
        BY <1>1, NothingInserted
      <3> QED
        BY <3>1, <3>2, <3>3, StillFound
    <2> QED
      BY <2>1, <2>2
  <1>4. UNCHANGED <<terms, ledger>> /\ AllFound'
    BY <1>1, <1>3 DEF AllFound
  <1> QED
    BY <1>1, <1>2, <1>4, EarningsLedgerKept

\* A call that goes on, in the lock.
LEMMA IngestGoesOn ==
    ASSUME EarningsInv, NEW c \in Calls, NEW locals \in IngestLocals,
           ingest' = [ingest EXCEPT ![c] = locals], UNCHANGED <<terms, claimed, ledger, acknowledged>>,
           holder' = {c}, holder \subseteq {c}, Found(c)'
    PROVE  EarningsInv'
  <1>1. EarningsShape'
    BY DEF EarningsInv, EarningsShape
  <1>2. ASSUME NEW d \in Calls PROVE Found(d)'
    <2>1. CASE d # c
      <3>1. ingest'[d] = ingest[d]
        BY <2>1 DEF EarningsInv, EarningsShape
      <3>2. holder # {d}
        BY <2>1
      <3>3. NoneLost
        BY NothingInserted
      <3> QED
        BY <3>1, <3>2, <3>3, StillFound
    <2> QED
      BY <2>1
  <1>3. AllInLedger(acknowledged')
    BY DEF EarningsInv
  <1>4. AllFound'
    BY <1>2 DEF AllFound
  <1> QED
    BY <1>1, <1>3, <1>4, EarningsLedgerKept

\* What Insert adds is the difference to the latest row, so the sum is the new one's.
LEMMA InsertStep ==
    ASSUME EarningsInv, NEW c \in Calls, Earnings!Insert(c)
    PROVE  EarningsInv'
  <1> DEFINE p == ingest[c].posted
             n == Len(ledger)
             accrued == Earnings!Accrued(terms, p.facts)
             entry == [posted |-> p, revision |-> p.revision, accrued |-> accrued,
                     adjustment |-> accrued - ingest[c].before, state |-> Earnings!State(terms, p.facts)]
  <1>1. /\ ingest[c].at = "insert" /\ ledger' = Append(ledger, entry)
        /\ ingest' = [ingest EXCEPT ![c] = [at |-> "answer", posted |-> p]]
        /\ holder' = holder \ {c} /\ UNCHANGED <<terms, claimed, acknowledged>>
    BY DEF Earnings!Insert
  <1>2. EarningsShape
    BY DEF EarningsInv
  <1>3. p \in Earnings!Posted /\ ingest[c].before \in Nat /\ p.facts \in Facts /\ p.revision \in 1 .. MaxRevision
    BY <1>1, <1>2, IngestTyped, FactsOfPosted
  <1>4. Found(c) /\ holder = {c}
    BY <1>1 DEF EarningsInv, AllFound, Found
  <1>5. /\ Earnings!Follows(p) /\ Earnings!Valid(p.facts)
        /\ ingest[c].before = Earnings!Latest.accrued
    BY <1>1, <1>4 DEF Found
  <1>6. terms \in Terms
    BY <1>2 DEF EarningsShape
  <1>7. accrued \in Nat /\ Earnings!State(terms, p.facts) \in {"under_review", "held", "reversed"}
    BY <1>3, <1>5, <1>6, Arithmetic
  <1>8. entry \in Entry
    <2> HIDE DEF accrued, p
    <2>1. accrued - ingest[c].before \in Int
      BY <1>3, <1>7
    <2> QED
      BY <1>3, <1>7, <2>1 DEF Entry
  <1>9. n \in Nat /\ ledger \in Seq(Entry)
    BY <1>2, LedgerLength DEF EarningsShape
  <1> HIDE DEF entry
  <1>10. /\ ledger' \in Seq(Entry) /\ Len(ledger') = n + 1
         /\ ledger'[n + 1] = entry /\ \A q \in 1 .. n : ledger'[q] = ledger[q]
    BY <1>1, <1>8, <1>9, AppendProperties
  <1>11. entry.posted = p /\ entry.revision = p.revision /\ entry.accrued = accrued
         /\ entry.adjustment = accrued - ingest[c].before /\ entry.state = Earnings!State(terms, p.facts)
    BY DEF entry
  <1> HIDE DEF p, n, accrued
  <1>12. EarningsShape'
    <2>1. [at |-> "answer", posted |-> p] \in IngestLocals
      BY <1>3 DEF IngestLocals
    <2>2. ingest' \in [Calls -> IngestLocals]
      BY <1>1, <1>2, <2>1 DEF EarningsShape
    <2> QED
      BY <1>1, <1>2, <1>10, <2>2 DEF EarningsShape
  <1>13. /\ p.revision = n + 1
         /\ n = 0 => ingest[c].before = 0
         /\ n # 0 => n \in 1 .. n /\ ingest[c].before = ledger[n].accrued /\ Recorded(n)
    <2>1. CASE n = 0
      <3>1. ledger = <<>>
        BY <1>9, <2>1, EmptySeq DEF n
      <3>2. Earnings!Latest.revision = 0 /\ Earnings!Latest.accrued = 0
        BY <3>1 DEF Earnings!Latest
      <3> QED
        BY <1>5, <2>1, <3>2 DEF Earnings!Follows
    <2>2. CASE n # 0
      <3>1. n \in 1 .. n
        BY <1>9, <2>2
      <3>2. Earnings!Latest = ledger[n] /\ ledger # <<>>
        BY <1>9, <2>2, EmptySeq DEF Earnings!Latest, n
      <3>3. Recorded(n)
        BY <3>1 DEF EarningsInv, n
      <3>4. Earnings!Latest.revision = n
        BY <3>2, <3>3 DEF Recorded
      <3> QED
        BY <1>5, <2>2, <3>1, <3>2, <3>3, <3>4 DEF Earnings!Follows
    <2> QED
      BY <2>1, <2>2
  <1>14. ASSUME NEW r \in 1 .. n PROVE Recorded(r)'
    <2>1. Recorded(r)
      BY DEF EarningsInv, n
    <2>2. Adjustments(ledger', r) = Adjustments(ledger, r)
      <3>1. \A q \in 1 .. r : ledger'[q].adjustment = ledger[q].adjustment
        BY <1>9, <1>10
      <3>2. r \in Nat
        BY <1>9
      <3> QED
        BY <3>1, <3>2, SameAdjustments
    <2> QED
      BY <1>1, <1>10, <2>1, <2>2 DEF Recorded, Earnings!Valid
  <1>15. Adjustments(ledger', n + 1) = accrued
    <2>1. \A q \in 1 .. n + 1 : ledger'[q].adjustment \in Int
      <3>1. \A q \in 1 .. n + 1 : ledger'[q] \in Entry
        BY <1>9, <1>10, ElementOfSeq
      <3> QED
        BY <3>1 DEF Entry
    <2>2. Adjustments(ledger', n + 1) = entry.adjustment + Adjustments(ledger', n)
      BY <1>9, <1>10, <2>1, OneMoreAdjustment
    <2>3. Adjustments(ledger', n) = ingest[c].before
      <3>1. CASE n = 0
        BY <1>13, <3>1, NoAdjustments
      <3>2. CASE n # 0
        <4>1. Adjustments(ledger', n) = Adjustments(ledger, n)
          BY <1>9, <1>10, SameAdjustments
        <4> QED
          BY <1>13, <3>2, <4>1 DEF Recorded
      <3> QED
        BY <3>1, <3>2
    <2> QED
      BY <1>3, <1>7, <1>11, <2>2, <2>3
  <1>16. ASSUME NEW r, r = n + 1 PROVE Recorded(r)'
    <2>1. ledger'[r] = entry /\ r = p.revision /\ Adjustments(ledger', r) = accrued /\ terms' = terms
      BY <1>1, <1>10, <1>13, <1>15, <1>16
    <2>2. Earnings!Valid(entry.posted.facts)
      BY <1>5, <1>11
    <2> QED
      BY <1>11, <2>1, <2>2 DEF Recorded, Earnings!Valid, accrued
  <1>17. \A r \in 1 .. Len(ledger') : Recorded(r)'
    BY <1>9, <1>10, <1>14, <1>16
  <1>18. RefundsGrow'
    <2>1. ASSUME NEW q \in 1 .. n
          PROVE  /\ ledger[q].posted.facts.refundedNet <= p.facts.refundedNet
                 /\ ledger[q].posted.facts.full => p.facts.full
      <3>1. n # 0 /\ n \in 1 .. n /\ q \in 1 .. n
        BY <1>9
      <3>2. ledger # <<>> /\ Earnings!Latest = ledger[n]
        BY <1>9, <3>1, EmptySeq DEF Earnings!Latest, n
      <3>3. /\ ledger[n].posted.facts.refundedNet <= p.facts.refundedNet
            /\ ledger[n].posted.facts.full => p.facts.full
        BY <1>5, <3>2 DEF Earnings!Follows
      <3>4. CASE q = n
        BY <3>3, <3>4
      <3>5. CASE q # n
        <4>1. q < n
          BY <1>9, <3>5
        <4>2. /\ ledger[q].posted.facts.refundedNet <= ledger[n].posted.facts.refundedNet
              /\ ledger[q].posted.facts.full => ledger[n].posted.facts.full
          BY <3>1, <4>1 DEF EarningsInv, RefundsGrow, n
        <4>3. /\ ledger[q].posted.facts.refundedNet \in Nat /\ ledger[n].posted.facts.refundedNet \in Nat
              /\ p.facts.refundedNet \in Nat
          BY <1>2, <1>3, <3>1, EntryOfLedger, FactsOfPosted DEF n
        <4> QED
          BY <3>3, <4>2, <4>3
      <3> QED
        BY <3>4, <3>5
    <2>2. ASSUME NEW q \in 1 .. n, NEW r \in 1 .. n, q < r
          PROVE  /\ ledger[q].posted.facts.refundedNet <= ledger[r].posted.facts.refundedNet
                 /\ ledger[q].posted.facts.full => ledger[r].posted.facts.full
      BY <2>2 DEF EarningsInv, RefundsGrow, n
    <2>3. ASSUME NEW q \in 1 .. Len(ledger'), NEW r \in 1 .. Len(ledger'), q < r
          PROVE  /\ ledger'[q].posted.facts.refundedNet <= ledger'[r].posted.facts.refundedNet
                 /\ ledger'[q].posted.facts.full => ledger'[r].posted.facts.full
      <3>1. q \in 1 .. n /\ (r \in 1 .. n \/ r = n + 1)
        BY <1>9, <1>10, <2>3
      <3>2. ledger'[q] = ledger[q]
        BY <1>10, <3>1
      <3>3. CASE r = n + 1
        <4>1. ledger'[r].posted = p
          BY <1>10, <1>11, <3>3
        <4> QED
          BY <2>1, <3>1, <3>2, <4>1
      <3>4. CASE r \in 1 .. n
        <4>1. ledger'[r] = ledger[r]
          BY <1>10, <3>4
        <4> QED
          BY <2>2, <2>3, <3>1, <3>2, <3>4, <4>1
      <3> QED
        BY <3>1, <3>3, <3>4
    <2> QED
      BY <2>3 DEF RefundsGrow
  <1>19. NoneLost
    <2>1. ASSUME NEW q, InLedger(q) PROVE InLedger(q)'
      <3>1. PICK r \in 1 .. n : ledger[r].posted = q
        BY <2>1 DEF InLedger, n
      <3>2. r \in 1 .. Len(ledger') /\ ledger'[r].posted = q
        BY <1>9, <1>10, <3>1
      <3> QED
        BY <3>2 DEF InLedger
    <2> QED
      BY <2>1 DEF NoneLost
  <1>20. AllInLedger(acknowledged)'
    <2>1. AllInLedger(acknowledged) /\ acknowledged' = acknowledged
      BY <1>1 DEF EarningsInv
    <2> QED
      BY <1>19, <2>1 DEF AllInLedger, NoneLost
  <1>21. ASSUME NEW d \in Calls PROVE Found(d)'
    <2>1. CASE d = c
      <3>1. ingest'[d].at = "answer" /\ ingest'[d].posted = p
        BY <1>1, <1>2, <2>1 DEF EarningsShape
      <3>2. n + 1 \in 1 .. Len(ledger') /\ ledger'[n + 1].posted = p
        BY <1>9, <1>10, <1>11
      <3>3. \E r \in 1 .. Len(ledger') : ledger'[r].posted = ingest'[d].posted
        BY <3>1, <3>2
      <3> QED
        BY <3>1, <3>3 DEF Found, InLedger
    <2>2. CASE d # c
      <3>1. ingest'[d] = ingest[d]
        BY <1>1, <1>2, <2>2 DEF EarningsShape
      <3>2. holder # {d}
        BY <1>4, <2>2
      <3> QED
        BY <1>19, <3>1, <3>2, StillFound
    <2> QED
      BY <2>1, <2>2
  <1>22. AllFound'
    BY <1>21 DEF AllFound
  <1> QED
    BY <1>12, <1>17, <1>18, <1>20, <1>22 DEF EarningsInv

LEMMA LockStep ==
    ASSUME EarningsInv, NEW c \in Calls, NEW posted \in Earnings!Posted, Earnings!Lock(c, posted)
    PROVE  EarningsInv'
  <1>1. /\ ingest' = [ingest EXCEPT ![c] = [at |-> "read", posted |-> posted]]
        /\ holder = {} /\ holder' = {c} /\ UNCHANGED <<terms, claimed, ledger, acknowledged>>
    BY DEF Earnings!Lock
  <1>2. [at |-> "read", posted |-> posted] \in IngestLocals
    BY DEF IngestLocals
  <1>3. Found(c)'
    <2>1. ingest'[c] = [at |-> "read", posted |-> posted]
      BY <1>1 DEF EarningsInv, EarningsShape
    <2>2. ingest'[c].at = "read"
      BY <2>1
    <2> QED
      BY <1>1, <2>2 DEF Found
  <1> QED
    BY <1>1, <1>2, <1>3, IngestGoesOn

\* The receipt of a repetition: only an event that is there is acknowledged.
LEMMA RepeatedStep ==
    ASSUME EarningsInv, NEW c \in Calls, Earnings!Repeated(c)
    PROVE  EarningsInv'
  <1> DEFINE p == ingest[c].posted
  <1>1. /\ ingest[c].at = "read" /\ Earnings!Duplicates(p) # {} /\ Earnings!Ends(c)
        /\ UNCHANGED <<terms, claimed, ledger>>
        /\ \/ acknowledged' = acknowledged
           \/ acknowledged' = acknowledged \cup {p} /\ \A r \in Earnings!Duplicates(p) : Earnings!Same(r, p)
    BY DEF Earnings!Repeated, Earnings!Acknowledge
  <1>2. EarningsShape /\ AllInLedger(acknowledged) /\ acknowledged \subseteq Earnings!Posted
    BY DEF EarningsInv, EarningsShape
  <1>3. p \in Earnings!Posted
    BY <1>1, <1>2, IngestTyped
  <1>4. acknowledged' = acknowledged \/ (acknowledged' = acknowledged \cup {p} /\ InLedger(p))
    <2>1. CASE \A r \in Earnings!Duplicates(p) : Earnings!Same(r, p)
      <3>1. PICK r \in Earnings!Duplicates(p) : Earnings!Same(r, p)
        BY <1>1, <2>1
      <3>2. r \in 1 .. Len(ledger) /\ ledger[r].posted = p
        BY <1>2, <3>1, LedgerLength DEF Earnings!Duplicates, Earnings!Same
      <3> QED
        BY <1>1, <3>2 DEF InLedger
    <2> QED
      BY <1>1, <2>1
  <1> HIDE DEF p
  <1>5. acknowledged' \subseteq Earnings!Posted /\ AllInLedger(acknowledged')
    BY <1>2, <1>3, <1>4 DEF AllInLedger
  <1> QED
    BY <1>1, <1>5, IngestEnds

LEMMA AcceptStep ==
    ASSUME EarningsInv, NEW c \in Calls, Earnings!Accept(c)
    PROVE  EarningsInv'
  <1> DEFINE p == ingest[c].posted
             locals == [at |-> "insert", posted |-> p, before |-> Earnings!Latest.accrued]
  <1>1. /\ ingest[c].at = "read" /\ UNCHANGED <<terms, claimed, ledger, acknowledged>>
        /\ \/ /\ Earnings!Follows(p) /\ Earnings!Valid(p.facts)
              /\ ingest' = [ingest EXCEPT ![c] = locals] /\ holder' = holder
           \/ Earnings!Ends(c)
    BY DEF Earnings!Accept
  <1>2. EarningsShape /\ AllInLedger(acknowledged) /\ acknowledged \subseteq Earnings!Posted
    BY DEF EarningsInv, EarningsShape
  <1>3. CASE Earnings!Ends(c)
    <2>1. acknowledged' \subseteq Earnings!Posted /\ AllInLedger(acknowledged')
      BY <1>1, <1>2
    <2> QED
      BY <1>1, <1>3, <2>1, IngestEnds
  <1>4. CASE /\ Earnings!Follows(p) /\ Earnings!Valid(p.facts)
             /\ ingest' = [ingest EXCEPT ![c] = locals] /\ holder' = holder
    <2>1. p \in Earnings!Posted
      BY <1>1, <1>2, IngestTyped
    <2>2. holder = {c}
      BY <1>1 DEF EarningsInv, AllFound, Found
    <2>3. Earnings!Latest.accrued \in Nat
      <3>1. CASE ledger = <<>>
        BY <3>1 DEF Earnings!Latest
      <3>2. CASE ledger # <<>>
        <4>1. Len(ledger) \in 1 .. Len(ledger)
          BY <1>2, <3>2, LenProperties, EmptySeq DEF EarningsShape
        <4> QED
          BY <1>2, <3>2, <4>1, EntryOfLedger DEF Earnings!Latest
      <3> QED
        BY <3>1, <3>2
    <2>4. locals \in IngestLocals
      BY <2>1, <2>3 DEF IngestLocals
    <2>5. ingest'[c] = locals
      BY <1>2, <1>4 DEF EarningsShape
    <2>6. Found(c)'
      <3>1. /\ ingest'[c].at = "insert" /\ ingest'[c].posted = p
            /\ ingest'[c].before = Earnings!Latest.accrued /\ ledger' = ledger
        BY <1>1, <2>5
      <3>2. Earnings!Latest' = Earnings!Latest
        BY <3>1 DEF Earnings!Latest
      <3>3. Earnings!Follows(ingest[c].posted)'
        <4>1. ingest'[c].posted = p /\ ledger' = ledger
          BY <3>1
        <4> HIDE DEF p
        <4> QED
          BY <1>4, <3>2, <4>1 DEF Earnings!Follows
      <3>4. Earnings!Valid(ingest[c].posted.facts)'
        BY <1>4, <3>1 DEF Earnings!Valid
      <3>5. holder' = {c}
        BY <1>4, <2>2
      <3> QED
        BY <3>1, <3>2, <3>3, <3>4, <3>5 DEF Found
    <2> HIDE DEF locals, p
    <2>7. holder' = {c} /\ holder \subseteq {c}
      BY <1>4, <2>2
    <2> QED
      BY <1>1, <1>4, <2>4, <2>6, <2>7, IngestGoesOn
  <1> QED
    BY <1>1, <1>3, <1>4

LEMMA AnswerStep ==
    ASSUME EarningsInv, NEW c \in Calls, Earnings!Answer(c)
    PROVE  EarningsInv'
  <1> DEFINE p == ingest[c].posted
  <1>1. /\ ingest[c].at = "answer" /\ Earnings!Ends(c) /\ UNCHANGED <<terms, claimed, ledger>>
        /\ acknowledged' = acknowledged \cup {p}
    BY DEF Earnings!Answer, Earnings!Acknowledge
  <1>2. EarningsShape /\ AllInLedger(acknowledged) /\ acknowledged \subseteq Earnings!Posted
    BY DEF EarningsInv, EarningsShape
  <1>3. p \in Earnings!Posted
    BY <1>1, <1>2, IngestTyped
  <1>4. InLedger(p)
    BY <1>1 DEF EarningsInv, AllFound, Found
  <1> HIDE DEF p
  <1>5. acknowledged' \subseteq Earnings!Posted /\ AllInLedger(acknowledged')
    BY <1>1, <1>2, <1>3, <1>4 DEF AllInLedger
  <1> QED
    BY <1>1, <1>5, IngestEnds

\* Every action of an ingest, and the claim beside it, keeps the invariant.
LEMMA EarningsStep == EarningsInv /\ [Earnings!Next]_earningsVars => EarningsInv'
  <1> SUFFICES ASSUME EarningsInv, [Earnings!Next]_earningsVars PROVE EarningsInv'
    OBVIOUS
  <1>1. EarningsShape /\ AllInLedger(acknowledged) /\ AllFound
    BY DEF EarningsInv
  <1>2. CASE UNCHANGED earningsVars
    <2>1. EarningsShape' /\ ledger' = ledger /\ terms' = terms /\ AllInLedger(acknowledged')
      BY <1>1, <1>2 DEF earningsVars, EarningsShape
    <2>2. ASSUME NEW d \in Calls PROVE Found(d)'
      <3>1. ingest'[d] = ingest[d] /\ holder' = holder /\ ledger' = ledger
        BY <1>2 DEF earningsVars
      <3>2. NoneLost
        BY <3>1, NothingInserted
      <3> QED
        BY <3>1, <3>2, StillFound
    <2>3. AllFound'
      BY <2>2 DEF AllFound
    <2> QED
      BY <2>1, <2>3, EarningsLedgerKept
  <1>3. CASE Earnings!ReceiptClaimed
    <2>1. ingest' = ingest /\ holder' = holder /\ ledger' = ledger /\ terms' = terms
          /\ acknowledged' = acknowledged /\ claimed' = TRUE
      BY <1>3 DEF Earnings!ReceiptClaimed
    <2>2. EarningsShape' /\ AllInLedger(acknowledged')
      BY <1>1, <2>1 DEF EarningsShape
    <2>3. ASSUME NEW d \in Calls PROVE Found(d)'
      <3>1. ingest'[d] = ingest[d]
        BY <2>1
      <3>2. NoneLost
        BY <2>1, NothingInserted
      <3> QED
        BY <2>1, <3>1, <3>2, StillFound
    <2>4. AllFound'
      BY <2>3 DEF AllFound
    <2> QED
      BY <2>1, <2>2, <2>4, EarningsLedgerKept
  <1>4. ASSUME NEW c \in Calls, NEW posted \in Earnings!Posted, Earnings!Lock(c, posted) PROVE EarningsInv'
    BY <1>4, LockStep
  <1>5. ASSUME NEW c \in Calls, Earnings!Repeated(c) PROVE EarningsInv'
    BY <1>5, RepeatedStep
  <1>6. ASSUME NEW c \in Calls, Earnings!Accept(c) PROVE EarningsInv'
    BY <1>6, AcceptStep
  <1>7. ASSUME NEW c \in Calls, Earnings!Insert(c) PROVE EarningsInv'
    BY <1>7, InsertStep
  <1>8. ASSUME NEW c \in Calls, Earnings!Answer(c) PROVE EarningsInv'
    BY <1>8, AnswerStep
  <1>9. ASSUME NEW c \in Calls, Earnings!CallStops(c) PROVE EarningsInv'
    <2>1. Earnings!Ends(c) /\ UNCHANGED <<terms, ledger, claimed>> /\ acknowledged' = acknowledged
      BY <1>9 DEF Earnings!CallStops
    <2>2. acknowledged' \subseteq Earnings!Posted /\ AllInLedger(acknowledged')
      BY <1>1, <2>1 DEF EarningsShape
    <2> QED
      BY <2>1, <2>2, IngestEnds
  <1> QED
    BY <1>2, <1>3, <1>4, <1>5, <1>6, <1>7, <1>8, <1>9 DEF Earnings!Next


(* The rows are what the code makes of the revisions they record, and what *)
(* a call has found stays so while it holds the lock.                       *)
THEOREM EarningsInvariance == WorkSpec => []EarningsInv
  <1>1. WorkInit => EarningsInv
    BY EarningsInitially DEF WorkInit
  <1>2. EarningsInv /\ [WorkNext]_workVars => EarningsInv'
    <2>1. [WorkNext]_workVars => [Earnings!Next]_earningsVars
      BY DEF WorkNext, workVars
    <2> QED
      BY <2>1, EarningsStep
  <1> QED
    BY <1>1, <1>2, PTL DEF WorkSpec, workVars

(* The revisions of a line are 1, 2, ... and what the creator is shown adds *)
(* up to what the latest accrues, however deliveries repeat and overtake    *)
(* each other; what Commerce believes delivered is there (ingest).          *)
THEOREM LedgerAlwaysExact == WorkSpec => []LedgerExact
  <1>1. EarningsInv => LedgerExact
    <2> SUFFICES ASSUME EarningsInv PROVE LedgerExact
      OBVIOUS
    <2>1. DOMAIN ledger = 1 .. Len(ledger) /\ EarningsShape /\ terms \in Terms
      BY LedgerLength DEF EarningsInv, EarningsShape
    <2>2. ASSUME NEW r \in DOMAIN ledger
          PROVE  /\ ledger[r].revision = r
                 /\ Earnings!MapThenSumSet(LAMBDA q : ledger[q].adjustment, 1 .. r) = ledger[r].accrued
                 /\ terms.type = "percentage_of_sale" =>
                       ledger[r].accrued * 10000 <= (Net - ledger[r].posted.facts.refundedNet) * terms.points
      <3>1. Recorded(r) /\ r \in 1 .. Len(ledger)
        BY <2>1 DEF EarningsInv
      <3>2. ledger[r].posted.facts \in Facts
        BY <2>1, <3>1, EntryOfLedger, FactsOfPosted
      <3>3. terms.type = "percentage_of_sale" =>
              Earnings!Accrued(terms, ledger[r].posted.facts) * 10000
                  <= (Net - ledger[r].posted.facts.refundedNet) * terms.points
        BY <2>1, <3>1, <3>2, Arithmetic DEF Recorded
      <3>4. Earnings!MapThenSumSet(LAMBDA q : ledger[q].adjustment, 1 .. r) = ledger[r].accrued
        BY <3>1 DEF Recorded, Adjustments
      <3> QED
        BY <3>1, <3>3, <3>4 DEF Recorded
    <2>3. ASSUME NEW p \in acknowledged PROVE \E r \in DOMAIN ledger : ledger[r].posted = p
      BY <2>1 DEF EarningsInv, AllInLedger, InLedger
    <2>4. Earnings!AdjustmentsAddUp
      BY <2>2, Zenon DEF Earnings!AdjustmentsAddUp
    <2> QED
      BY <2>3, <2>4 DEF LedgerExact, Earnings!LedgerExact, Earnings!AcknowledgedIsRecorded
  <1> QED
    BY <1>1, EarningsInvariance, PTL

(* No later revision, overtaking or contradicting, gives back what a refund *)
(* reversed (Follows, commissionResult).                                    *)
THEOREM ReversalsStay == WorkSpec => []ReversedStays
  <1>1. EarningsInv => ReversedStays
    <2> SUFFICES ASSUME EarningsInv, NEW q \in DOMAIN ledger, NEW r \in DOMAIN ledger,
                        q < r, ledger[q].state = "reversed"
                 PROVE  ledger[r].state = "reversed" /\ ledger[r].accrued = 0
      BY DEF ReversedStays, Earnings!ReversedStays
    <2> DEFINE f == ledger[q].posted.facts
               g == ledger[r].posted.facts
    <2>1. EarningsShape /\ terms \in Terms /\ q \in 1 .. Len(ledger) /\ r \in 1 .. Len(ledger)
      BY LedgerLength DEF EarningsInv, EarningsShape
    <2>2. Recorded(q) /\ Recorded(r) /\ RefundsGrow
      BY <2>1 DEF EarningsInv
    <2>3. f \in Facts /\ g \in Facts
      BY <2>1, EntryOfLedger, FactsOfPosted
    <2>4. Earnings!Valid(f) /\ Earnings!Valid(g)
      BY <2>2 DEF Recorded
    <2>5. f.refundedNet <= g.refundedNet /\ (f.full => g.full)
      BY <2>1, <2>2 DEF RefundsGrow
    <2>6. Earnings!State(terms, f) = "reversed"
      BY <2>2 DEF Recorded
    <2>7. /\ ledger[r].accrued = Earnings!Accrued(terms, g)
          /\ ledger[r].state = Earnings!State(terms, g)
      BY <2>2 DEF Recorded
    <2> HIDE DEF f, g
    <2>8. Earnings!Reversed(terms, f)
      BY <2>1, <2>3, <2>4, <2>6, Arithmetic
    <2>9. Earnings!Reversed(terms, g)
      BY <2>1, <2>3, <2>4, <2>5, <2>8, ReversedLater
    <2>10. Earnings!State(terms, g) = "reversed" /\ Earnings!Accrued(terms, g) = 0
      BY <2>1, <2>3, <2>4, <2>9, Arithmetic
    <2> QED
      BY <2>7, <2>10
  <1> QED
    BY <1>1, EarningsInvariance, PTL

-----------------------------------------------------------------------------
(* The pipeline of a creator.  What PipelineConsistent says of the rows is  *)
(* kept because requests come one after the other: what a request read - no *)
(* job of the deal, no deal of the listing, the number of invoices, the     *)
(* invoice it updates - still holds of the rows when it writes.  An invoice *)
(* has the number of its row, and a job is marked by invoices of its own.   *)

DealRow == [stage : Pipeline!Stages, listing : Listings \cup {Unlisted}]
JobRow == [deal : Nat, won : BOOLEAN, payment : Pipeline!Statuses, by : Nat]
InvoiceRow == [job : Nat, number : Nat, status : Pipeline!Statuses]

CrmLocals(steps) ==
    [at : steps, deal : Nat, stage : Pipeline!Stages, listing : Listings \cup {Unlisted}, job : Nat,
     invoice : Nat, number : Nat, status : Pipeline!Statuses, write : BOOLEAN, person : People \cup {NoPerson}]

PipelineSteps == {"idle", "move", "won", "make", "list", "number", "job", "invoice", "mark", "update"}

\* Of deals D, jobs J and invoices I: what refers to what, and what is there once.
JobRefers(D, J, I) ==
    \A j \in 1 .. Len(J) :
        /\ J[j].deal \in 1 .. Len(D) /\ J[j].by \in 0 .. Len(I)
        /\ J[j].by # 0 => I[J[j].by].job = j /\ I[J[j].by].status = J[j].payment
InvoiceRefers(J, I) == \A i \in 1 .. Len(I) : I[i].job \in 1 .. Len(J) /\ I[i].number = i
OneWin(J) == \A j, k \in 1 .. Len(J) : J[j].won /\ J[k].won /\ J[j].deal = J[k].deal => j = k
OneListing(D) ==
    \A d, e \in 1 .. Len(D) : D[d].listing = D[e].listing /\ D[d].listing \in Listings => d = e

PipelineRows(D, J, I) ==
    /\ D \in Seq(DealRow) /\ J \in Seq(JobRow) /\ I \in Seq(InvoiceRow) /\ Len(I) <= MaxEntries
    /\ JobRefers(D, J, I) /\ InvoiceRefers(J, I) /\ OneWin(J) /\ OneListing(D)

\* What a request has read is so.
HasRead(x, D, J, I) ==
    /\ x.at \in {"move", "won", "make", "job"} => x.deal \in 1 .. Len(D)
    /\ x.at = "make" => \A j \in 1 .. Len(J) : J[j].deal # x.deal
    /\ x.at = "list" => x.listing \in Listings /\ \A d \in 1 .. Len(D) : D[d].listing # x.listing
    /\ x.at \in {"number", "invoice", "mark", "update"} => x.job \in 1 .. Len(J)
    /\ x.at = "invoice" => x.number = Len(I) + 1
    /\ x.at \in {"update", "mark"} => x.invoice \in 1 .. Len(I) /\ I[x.invoice].job = x.job
    /\ x.at = "update" => x.write \/ x.status = I[x.invoice].status
    /\ x.at = "mark" => x.status = I[x.invoice].status

PipelineInv ==
    /\ PipelineRows(deals, jobs, invoices)
    /\ people = [p \in {} |-> "none"]
    /\ crm \in [OneCall -> CrmLocals(PipelineSteps)]
    /\ \A c \in OneCall : HasRead(crm[c], deals, jobs, invoices)

\* Without rows a request can only be about the contacts.
ContactSteps == {"idle", "list", "clear", "person"}

ContactsInv ==
    /\ deals = <<>> /\ jobs = <<>> /\ invoices = <<>>
    /\ people \in [People -> {"none", "other", "primary"}]
    /\ crm \in [OneCall -> CrmLocals(ContactSteps)]
    /\ \A p, q \in People : people[p] = "primary" /\ people[q] = "primary" => p = q
    /\ \A c \in OneCall : /\ crm[c].at \in {"clear", "person"} => crm[c].person \in People
                          /\ crm[c].at = "person" => \A p \in People : people[p] = "primary" => p = crm[c].person

CrmInv == IF component = "contacts" THEN ContactsInv ELSE PipelineInv

\* A deal at the end: nothing refers to it, and its listing is new.
LEMMA DealAdded ==
    ASSUME NEW D, NEW J, NEW I, PipelineRows(D, J, I), NEW stage \in Pipeline!Stages,
           NEW l \in Listings \cup {Unlisted}, l \in Listings => \A d \in 1 .. Len(D) : D[d].listing # l
    PROVE  /\ PipelineRows(Append(D, [stage |-> stage, listing |-> l]), J, I)
           /\ \A x : x.at # "list" /\ HasRead(x, D, J, I) =>
                 HasRead(x, Append(D, [stage |-> stage, listing |-> l]), J, I)
  <1> DEFINE row_ == [stage |-> stage, listing |-> l]
             E == Append(D, row_)
  <1>1. D \in Seq(DealRow) /\ row_ \in DealRow
    BY DEF PipelineRows, DealRow
  <1>2. row_.listing = l
    OBVIOUS
  <1> HIDE DEF row_
  <1>3. /\ E \in Seq(DealRow) /\ Len(D) \in Nat /\ Len(E) = Len(D) + 1
        /\ E[Len(D) + 1] = row_ /\ \A d \in 1 .. Len(D) : E[d] = D[d]
    BY <1>1, AppendProperties, LenProperties
  <1> HIDE DEF E
  <1>4. \A d \in 1 .. Len(D) : d \in 1 .. Len(E)
    BY <1>3
  <1>5. JobRefers(E, J, I)
    BY <1>4 DEF PipelineRows, JobRefers
  <1>6. OneListing(E)
    <2> SUFFICES ASSUME NEW d \in 1 .. Len(E), NEW e \in 1 .. Len(E),
                        E[d].listing = E[e].listing, E[d].listing \in Listings
                 PROVE  d = e
      BY DEF OneListing
    <2>1. (d \in 1 .. Len(D) \/ d = Len(D) + 1) /\ (e \in 1 .. Len(D) \/ e = Len(D) + 1)
      BY <1>3
    <2> QED
      BY <1>2, <1>3, <2>1 DEF PipelineRows, OneListing
  <1>7. PipelineRows(E, J, I)
    BY <1>3, <1>5, <1>6 DEF PipelineRows
  <1>8. ASSUME NEW x, x.at # "list", HasRead(x, D, J, I) PROVE HasRead(x, E, J, I)
    BY <1>4, <1>8 DEF HasRead
  <1> QED
    BY <1>7, <1>8 DEF E, row_

Restaged(D, m, stage) == [D EXCEPT ![m].stage = stage]

\* The stage of a deal is nothing that anything refers to.
LEMMA DealMoved ==
    ASSUME NEW D, NEW J, NEW I, PipelineRows(D, J, I), NEW m \in 1 .. Len(D), NEW stage \in Pipeline!Stages
    PROVE  PipelineRows(Restaged(D, m, stage), J, I) /\ Len(Restaged(D, m, stage)) = Len(D)
  <1> DEFINE E == [D EXCEPT ![m].stage = stage]
  <1>1. D \in Seq(DealRow)
    BY DEF PipelineRows
  <1>2. \A d \in 1 .. Len(D) : D[d] \in DealRow
    BY <1>1, ElementOfSeq
  <1>3. [D[m] EXCEPT !.stage = stage] \in DealRow /\ [D[m] EXCEPT !.stage = stage].listing = D[m].listing
    BY <1>2 DEF DealRow
  <1>4. E = [D EXCEPT ![m] = [D[m] EXCEPT !.stage = stage]]
    OBVIOUS
  <1>5. /\ E \in Seq(DealRow) /\ Len(E) = Len(D)
        /\ \A d \in 1 .. Len(D) : E[d] = IF d = m THEN [D[m] EXCEPT !.stage = stage] ELSE D[d]
    BY <1>1, <1>3, <1>4, ExceptSeq
  <1>6. \A d \in 1 .. Len(D) : E[d].listing = D[d].listing
    BY <1>3, <1>5
  <1> HIDE DEF E
  <1>7. JobRefers(E, J, I)
    BY <1>5 DEF PipelineRows, JobRefers
  <1>8. OneListing(E)
    BY <1>5, <1>6 DEF PipelineRows, OneListing
  <1> QED
    BY <1>5, <1>7, <1>8 DEF PipelineRows, E, Restaged

\* A job at the end, of a deal that had none or not one that was won.
LEMMA JobAdded ==
    ASSUME NEW D, NEW J, NEW I, PipelineRows(D, J, I), NEW m \in 1 .. Len(D), NEW won \in BOOLEAN,
           won => \A j \in 1 .. Len(J) : J[j].deal # m
    PROVE  LET K == Append(J, [deal |-> m, won |-> won, payment |-> "unpaid", by |-> 0])
           IN  PipelineRows(D, K, I) /\ Len(K) = Len(J) + 1 /\ Len(J) \in Nat
  <1> DEFINE row_ == [deal |-> m, won |-> won, payment |-> "unpaid", by |-> 0]
             K == Append(J, row_)
  <1>1. D \in Seq(DealRow) /\ J \in Seq(JobRow) /\ I \in Seq(InvoiceRow)
    BY DEF PipelineRows
  <1>2. m \in Nat /\ Len(I) \in Nat
    BY <1>1, LenProperties
  <1>3. row_ \in JobRow
    BY <1>2 DEF JobRow, Pipeline!Statuses
  <1>4. row_.deal = m /\ row_.won = won /\ row_.by = 0
    OBVIOUS
  <1> HIDE DEF row_
  <1>5. /\ K \in Seq(JobRow) /\ Len(J) \in Nat /\ Len(K) = Len(J) + 1
        /\ K[Len(J) + 1] = row_ /\ \A j \in 1 .. Len(J) : K[j] = J[j]
    BY <1>1, <1>3, AppendProperties, LenProperties
  <1> HIDE DEF K
  <1>6. \A j \in 1 .. Len(K) : j \in 1 .. Len(J) \/ j = Len(J) + 1
    BY <1>5
  <1>7. JobRefers(D, K, I)
    BY <1>2, <1>4, <1>5, <1>6 DEF PipelineRows, JobRefers
  <1>8. InvoiceRefers(K, I)
    BY <1>5 DEF PipelineRows, InvoiceRefers
  <1>9. OneWin(K)
    <2>1. ASSUME NEW j \in 1 .. Len(J), NEW k, k = Len(J) + 1, K[j].deal = K[k].deal, K[k].won PROVE FALSE
      <3>1. J[j].deal = m
        BY <1>4, <1>5, <2>1
      <3>2. won
        BY <1>4, <1>5, <2>1, Zenon
      <3> QED
        BY <3>1, <3>2
    <2>2. ASSUME NEW j \in 1 .. Len(J), NEW k \in 1 .. Len(J), K[j].won, K[k].won, K[j].deal = K[k].deal
          PROVE  j = k
      <3>1. K[j] = J[j] /\ K[k] = J[k]
        BY <1>5
      <3> QED
        BY <2>2, <3>1 DEF PipelineRows, OneWin
    <2> SUFFICES ASSUME NEW j \in 1 .. Len(K), NEW k \in 1 .. Len(K), K[j].won, K[k].won, K[j].deal = K[k].deal
                 PROVE  j = k
      BY DEF OneWin
    <2> QED
      BY <1>6, <2>1, <2>2, Zenon
  <1>10. PipelineRows(D, K, I) /\ Len(K) = Len(J) + 1 /\ Len(J) \in Nat
    BY <1>1, <1>5, <1>7, <1>8, <1>9 DEF PipelineRows
  <1> QED
    BY <1>10 DEF K, row_

Marked(J, m, payment, by) == [J EXCEPT ![m] = [J[m] EXCEPT !.payment = payment, !.by = by]]

Unmarked(J, m) == [J EXCEPT ![m].by = 0]
Invoiced(I, m) == Append(I, [job |-> m, number |-> Len(I) + 1, status |-> "unpaid"])
Written(I, n, status) == [I EXCEPT ![n].status = status]

\* A job that is marked keeps its deal and how it was made.
LEMMA JobMarked ==
    ASSUME NEW D, NEW J, NEW I, PipelineRows(D, J, I), NEW m \in 1 .. Len(J),
           NEW payment \in Pipeline!Statuses, NEW by \in Nat
    PROVE  LET K == Marked(J, m, payment, by) IN
           /\ K \in Seq(JobRow) /\ Len(K) = Len(J) /\ OneWin(K)
           /\ K[m].payment = payment /\ K[m].by = by /\ K[m].deal = J[m].deal
           /\ \A j \in 1 .. Len(J) : j # m => K[j] = J[j]
  <1> DEFINE marked == [J[m] EXCEPT !.payment = payment, !.by = by]
             K == [J EXCEPT ![m] = marked]
  <1>1. J \in Seq(JobRow)
    BY DEF PipelineRows
  <1>2. J[m] \in JobRow
    BY <1>1, ElementOfSeq
  <1>3. /\ marked \in JobRow /\ marked.payment = payment /\ marked.by = by
        /\ marked.deal = J[m].deal /\ marked.won = J[m].won
    BY <1>2 DEF JobRow
  <1> HIDE DEF marked
  <1>4. /\ K \in Seq(JobRow) /\ Len(K) = Len(J)
        /\ \A j \in 1 .. Len(J) : K[j] = IF j = m THEN marked ELSE J[j]
    BY <1>1, <1>3, ExceptSeq
  <1>5. \A j \in 1 .. Len(J) : K[j].deal = J[j].deal /\ K[j].won = J[j].won
    BY <1>3, <1>4
  <1> HIDE DEF K
  <1>6. OneWin(K)
    <2> SUFFICES ASSUME NEW j \in 1 .. Len(K), NEW k \in 1 .. Len(K), K[j].won, K[k].won, K[j].deal = K[k].deal
                 PROVE  j = k
      BY DEF OneWin
    <2>1. j \in 1 .. Len(J) /\ k \in 1 .. Len(J)
      BY <1>4
    <2>2. /\ K[j].won = J[j].won /\ K[k].won = J[k].won
          /\ K[j].deal = J[j].deal /\ K[k].deal = J[k].deal
      BY <1>5, <2>1
    <2>3. J[j].won /\ J[k].won
      BY <2>2, Zenon
    <2> QED
      BY <2>1, <2>2, <2>3 DEF PipelineRows, OneWin
  <1>7. K[m].payment = payment /\ K[m].by = by /\ K[m].deal = J[m].deal
    BY <1>3, <1>4
  <1>8. \A j \in 1 .. Len(J) : j # m => K[j] = J[j]
    BY <1>4
  <1> QED
    BY <1>4, <1>6, <1>7, <1>8 DEF K, marked, Marked

\* An invoice at the end has the next number, and its job is not marked yet.
LEMMA InvoiceAdded ==
    ASSUME NEW D, NEW J, NEW I, PipelineRows(D, J, I), NEW m \in 1 .. Len(J), Len(I) < MaxEntries
    PROVE  LET H == Invoiced(I, m)
               K == Unmarked(J, m)
           IN  /\ PipelineRows(D, K, H) /\ Len(K) = Len(J) /\ Len(H) = Len(I) + 1 /\ Len(H) \in 1 .. Len(H)
               /\ H[Len(H)].job = m /\ H[Len(H)].status = "unpaid"
  <1> DEFINE new == [job |-> m, number |-> Len(I) + 1, status |-> "unpaid"]
             H == Append(I, new)
             K == Marked(J, m, J[m].payment, 0)
  <1>1. D \in Seq(DealRow) /\ J \in Seq(JobRow) /\ I \in Seq(InvoiceRow) /\ Len(I) \in Nat /\ Len(J) \in Nat
    BY LenProperties DEF PipelineRows
  <1>2. J[m] \in JobRow /\ J[m].payment \in Pipeline!Statuses
    <2>1. J[m] \in JobRow
      BY <1>1, ElementOfSeq
    <2> QED
      BY <2>1 DEF JobRow
  <1>3. K = Unmarked(J, m)
    <2>1. [J[m] EXCEPT !.payment = J[m].payment, !.by = 0] = [J[m] EXCEPT !.by = 0]
      BY <1>2 DEF JobRow
    <2> QED
      BY <2>1 DEF Marked, Unmarked
  <1>4. /\ K \in Seq(JobRow) /\ Len(K) = Len(J) /\ OneWin(K)
        /\ K[m].by = 0 /\ K[m].deal = J[m].deal
        /\ \A j \in 1 .. Len(J) : j # m => K[j] = J[j]
    <2>1. 0 \in Nat
      OBVIOUS
    <2> QED
      BY <1>2, <2>1, JobMarked
  <1>5. new \in InvoiceRow /\ new.job = m /\ new.number = Len(I) + 1 /\ new.status = "unpaid"
    BY <1>1 DEF InvoiceRow, Pipeline!Statuses
  <1> HIDE DEF new, K
  <1>6. /\ H \in Seq(InvoiceRow) /\ Len(H) = Len(I) + 1
        /\ H[Len(I) + 1] = new /\ \A i \in 1 .. Len(I) : H[i] = I[i]
    BY <1>1, <1>5, AppendProperties
  <1> HIDE DEF H
  <1>7. JobRefers(D, K, H)
    <2> SUFFICES ASSUME NEW j \in 1 .. Len(J)
                 PROVE  /\ K[j].deal \in 1 .. Len(D) /\ K[j].by \in 0 .. Len(H)
                        /\ K[j].by # 0 => H[K[j].by].job = j /\ H[K[j].by].status = K[j].payment
      BY <1>4 DEF JobRefers
    <2>1. /\ J[j].deal \in 1 .. Len(D) /\ J[j].by \in 0 .. Len(I)
          /\ J[j].by # 0 => I[J[j].by].job = j /\ I[J[j].by].status = J[j].payment
      BY DEF PipelineRows, JobRefers
    <2>2. CASE j = m
      BY <1>1, <1>4, <1>6, <2>1, <2>2
    <2>3. CASE j # m
      <3>1. K[j] = J[j] /\ (J[j].by # 0 => J[j].by \in 1 .. Len(I))
        BY <1>1, <1>4, <2>1, <2>3
      <3>2. J[j].by # 0 => H[J[j].by] = I[J[j].by]
        BY <1>6, <3>1
      <3> QED
        BY <1>1, <1>6, <2>1, <3>1, <3>2
    <2> QED
      BY <2>2, <2>3
  <1>8. InvoiceRefers(K, H)
    <2> SUFFICES ASSUME NEW i \in 1 .. Len(H) PROVE H[i].job \in 1 .. Len(K) /\ H[i].number = i
      BY DEF InvoiceRefers
    <2>1. i \in 1 .. Len(I) \/ i = Len(I) + 1
      BY <1>1, <1>6
    <2> QED
      BY <1>4, <1>5, <1>6, <2>1 DEF PipelineRows, InvoiceRefers
  <1>9. PipelineRows(D, K, H)
    <2>1. MaxEntries \in Nat
      BY CrmAssumption DEF Pipeline!CrmAssumption
    <2>2. Len(H) <= MaxEntries
      BY <1>1, <1>6, <2>1
    <2> QED
      BY <1>1, <1>4, <1>6, <1>7, <1>8, <2>2 DEF PipelineRows
  <1>10. Len(H) \in 1 .. Len(H) /\ H[Len(H)].job = m /\ H[Len(H)].status = "unpaid"
    BY <1>1, <1>5, <1>6
  <1> QED
    BY <1>3, <1>4, <1>6, <1>9, <1>10 DEF H, new, Invoiced

\* An invoice that is written unmarks its job, and no other job is marked by it.
LEMMA InvoiceWritten ==
    ASSUME NEW D, NEW J, NEW I, PipelineRows(D, J, I), NEW n \in 1 .. Len(I), NEW status \in Pipeline!Statuses
    PROVE  LET H == Written(I, n, status)
               K == Unmarked(J, I[n].job)
           IN  /\ PipelineRows(D, K, H) /\ Len(K) = Len(J) /\ Len(H) = Len(I)
               /\ H[n].job = I[n].job /\ H[n].status = status
  <1> DEFINE m == I[n].job
             new == [I[n] EXCEPT !.status = status]
             H == [I EXCEPT ![n] = new]
             K == Marked(J, m, J[m].payment, 0)
  <1>1. D \in Seq(DealRow) /\ J \in Seq(JobRow) /\ I \in Seq(InvoiceRow) /\ Len(I) \in Nat /\ Len(J) \in Nat
    BY LenProperties DEF PipelineRows
  <1>2. m \in 1 .. Len(J)
    BY DEF PipelineRows, InvoiceRefers
  <1>3. J[m] \in JobRow /\ J[m].payment \in Pipeline!Statuses
    <2>1. J[m] \in JobRow
      BY <1>1, <1>2, ElementOfSeq
    <2> QED
      BY <2>1 DEF JobRow
  <1>4. K = Unmarked(J, m)
    <2>1. [J[m] EXCEPT !.payment = J[m].payment, !.by = 0] = [J[m] EXCEPT !.by = 0]
      BY <1>3 DEF JobRow
    <2> QED
      BY <2>1 DEF Marked, Unmarked
  <1>5. I[n] \in InvoiceRow
    BY <1>1, ElementOfSeq
  <1>6. /\ new \in InvoiceRow /\ new.job = m /\ new.status = status /\ new.number = I[n].number
    BY <1>5 DEF InvoiceRow
  <1> HIDE DEF m
  <1>7. /\ K \in Seq(JobRow) /\ Len(K) = Len(J) /\ OneWin(K)
        /\ K[m].by = 0 /\ K[m].deal = J[m].deal
        /\ \A j \in 1 .. Len(J) : j # m => K[j] = J[j]
    <2>1. 0 \in Nat
      OBVIOUS
    <2> QED
      BY <1>2, <1>3, <2>1, JobMarked
  <1> HIDE DEF new, K
  <1>8. /\ H \in Seq(InvoiceRow) /\ Len(H) = Len(I)
        /\ \A i \in 1 .. Len(I) : H[i] = IF i = n THEN new ELSE I[i]
    BY <1>1, <1>6, ExceptSeq
  <1> HIDE DEF H
  <1>9. JobRefers(D, K, H)
    <2> SUFFICES ASSUME NEW j \in 1 .. Len(J)
                 PROVE  /\ K[j].deal \in 1 .. Len(D) /\ K[j].by \in 0 .. Len(H)
                        /\ K[j].by # 0 => H[K[j].by].job = j /\ H[K[j].by].status = K[j].payment
      BY <1>7 DEF JobRefers
    <2>1. /\ J[j].deal \in 1 .. Len(D) /\ J[j].by \in 0 .. Len(I)
          /\ J[j].by # 0 => I[J[j].by].job = j /\ I[J[j].by].status = J[j].payment
      BY DEF PipelineRows, JobRefers
    <2>2. CASE j = m
      BY <1>1, <1>7, <1>8, <2>1, <2>2
    <2>3. CASE j # m
      <3>1. K[j] = J[j] /\ (J[j].by # 0 => J[j].by \in 1 .. Len(I) /\ J[j].by # n)
        BY <1>1, <1>7, <2>1, <2>3 DEF m
      <3>2. J[j].by # 0 => H[J[j].by] = I[J[j].by]
        BY <1>8, <3>1
      <3> QED
        BY <1>1, <1>8, <2>1, <3>1, <3>2
    <2> QED
      BY <2>2, <2>3
  <1>10. InvoiceRefers(K, H)
    <2> SUFFICES ASSUME NEW i \in 1 .. Len(I) PROVE H[i].job \in 1 .. Len(K) /\ H[i].number = i
      BY <1>8 DEF InvoiceRefers
    <2>1. I[i].job \in 1 .. Len(J) /\ I[i].number = i
      BY DEF PipelineRows, InvoiceRefers
    <2>2. H[i].job = I[i].job /\ H[i].number = I[i].number
      BY <1>6, <1>8 DEF m
    <2> QED
      BY <1>7, <2>1, <2>2
  <1>11. PipelineRows(D, K, H)
    BY <1>1, <1>7, <1>8, <1>9, <1>10 DEF PipelineRows
  <1>12. H[n].job = m /\ H[n].status = status
    BY <1>6, <1>8
  <1> QED
    BY <1>4, <1>7, <1>8, <1>11, <1>12 DEF H, new, m, Written

\* The mark is of an invoice of the job, as that invoice says.
LEMMA MarkedAlike ==
    ASSUME NEW D, NEW J, NEW I, PipelineRows(D, J, I), NEW n \in 1 .. Len(I)
    PROVE  LET m == I[n].job
           IN  PipelineRows(D, Marked(J, m, I[n].status, n), I)
  <1> DEFINE m == I[n].job
             K == Marked(J, m, I[n].status, n)
  <1>1. D \in Seq(DealRow) /\ J \in Seq(JobRow) /\ I \in Seq(InvoiceRow) /\ Len(I) \in Nat
    BY LenProperties DEF PipelineRows
  <1>2. m \in 1 .. Len(J)
    BY DEF PipelineRows, InvoiceRefers
  <1>3. I[n] \in InvoiceRow /\ I[n].status \in Pipeline!Statuses /\ n \in Nat
    <2>1. I[n] \in InvoiceRow /\ n \in Nat
      BY <1>1, ElementOfSeq
    <2> QED
      BY <2>1 DEF InvoiceRow
  <1> HIDE DEF m
  <1>4. /\ K \in Seq(JobRow) /\ Len(K) = Len(J) /\ OneWin(K)
        /\ K[m].payment = I[n].status /\ K[m].by = n /\ K[m].deal = J[m].deal
        /\ \A j \in 1 .. Len(J) : j # m => K[j] = J[j]
    BY <1>2, <1>3, JobMarked
  <1> HIDE DEF K
  <1>5. JobRefers(D, K, I)
    <2> SUFFICES ASSUME NEW j \in 1 .. Len(J)
                 PROVE  /\ K[j].deal \in 1 .. Len(D) /\ K[j].by \in 0 .. Len(I)
                        /\ K[j].by # 0 => I[K[j].by].job = j /\ I[K[j].by].status = K[j].payment
      BY <1>4 DEF JobRefers
    <2>1. /\ J[j].deal \in 1 .. Len(D) /\ J[j].by \in 0 .. Len(I)
          /\ J[j].by # 0 => I[J[j].by].job = j /\ I[J[j].by].status = J[j].payment
      BY DEF PipelineRows, JobRefers
    <2>2. CASE j = m
      BY <1>1, <1>4, <2>1, <2>2 DEF m
    <2>3. CASE j # m
      BY <1>4, <2>1, <2>3
    <2> QED
      BY <2>2, <2>3
  <1>6. InvoiceRefers(K, I)
    BY <1>4 DEF PipelineRows, InvoiceRefers
  <1>7. PipelineRows(D, K, I)
    BY <1>1, <1>4, <1>5, <1>6 DEF PipelineRows
  <1> QED
    BY <1>7 DEF K, m

LEMMA CrmTyped ==
    ASSUME NEW steps, NEW x \in CrmLocals(steps)
    PROVE  /\ x.at \in steps /\ x.deal \in Nat /\ x.job \in Nat /\ x.invoice \in Nat /\ x.number \in Nat
           /\ x.stage \in Pipeline!Stages /\ x.status \in Pipeline!Statuses /\ x.write \in BOOLEAN
           /\ x.listing \in Listings \cup {Unlisted}
  BY DEF CrmLocals

\* What a request has read, and what a step makes of it.
LEMMA PipelineRequest ==
    ASSUME PipelineInv, NEW c \in OneCall
    PROVE  /\ crm[c] \in CrmLocals(PipelineSteps) /\ HasRead(crm[c], deals, jobs, invoices)
           /\ PipelineRows(deals, jobs, invoices) /\ people = [p \in {} |-> "none"]
           /\ Len(deals) \in Nat /\ Len(jobs) \in Nat /\ Len(invoices) \in Nat
  BY LenProperties DEF PipelineInv, PipelineRows

LEMMA PipelineCall ==
    ASSUME PipelineInv, NEW c \in OneCall, NEW x \in CrmLocals(PipelineSteps),
           crm' = [crm EXCEPT ![c] = x], people' = people,
           PipelineRows(deals', jobs', invoices'), HasRead(x, deals', jobs', invoices')
    PROVE  PipelineInv'
  <1>1. crm' \in [OneCall -> CrmLocals(PipelineSteps)] /\ crm'[c] = x
    BY DEF PipelineInv
  <1>2. ASSUME NEW d \in OneCall PROVE HasRead(crm'[d], deals', jobs', invoices')
    <2>1. d = c
      BY OneCallAssumption
    <2> QED
      BY <1>1, <2>1
  <1> QED
    BY <1>1, <1>2 DEF PipelineInv

LEMMA NoRequest ==
    /\ Pipeline!NoCall \in CrmLocals(PipelineSteps) /\ Pipeline!NoCall.at = "idle"
    /\ Contacts!NoCall \in CrmLocals(ContactSteps) /\ Contacts!NoCall.at = "idle"
  BY DEF Pipeline!NoCall, Contacts!NoCall, CrmLocals, PipelineSteps, ContactSteps, Pipeline!Stages, Pipeline!Statuses

LEMMA PipelineEnds ==
    ASSUME PipelineInv, NEW c \in OneCall, Pipeline!Ends(c), people' = people,
           PipelineRows(deals', jobs', invoices')
    PROVE  PipelineInv'
  <1>1. crm' = [crm EXCEPT ![c] = Pipeline!NoCall]
    BY DEF Pipeline!Ends
  <1>2. HasRead(Pipeline!NoCall, deals', jobs', invoices')
    BY NoRequest DEF HasRead
  <1> QED
    BY <1>1, <1>2, NoRequest, PipelineCall

LEMMA PipelineStep == PipelineInv /\ [Pipeline!Next]_crmVars => PipelineInv'
  <1> SUFFICES ASSUME PipelineInv, [Pipeline!Next]_crmVars PROVE PipelineInv'
    OBVIOUS
  <1>0. PipelineRows(deals, jobs, invoices)
    BY DEF PipelineInv
  <1>1. ASSUME NEW c \in OneCall, NEW d \in 1 .. Len(deals), NEW stage \in Pipeline!Stages,
               Pipeline!Move(c, d, stage)
        PROVE  PipelineInv'
    <2> DEFINE x == [Pipeline!NoCall EXCEPT !.at = "move", !.deal = d, !.stage = stage]
    <2>1. crm' = [crm EXCEPT ![c] = x] /\ UNCHANGED <<deals, jobs, invoices, people>>
      BY <1>1 DEF Pipeline!Move
    <2>2. d \in Nat
      BY PipelineRequest
    <2>3. x \in CrmLocals(PipelineSteps) /\ x.at = "move" /\ x.deal = d
      BY <2>2, NoRequest DEF CrmLocals, PipelineSteps, Pipeline!NoCall
    <2> HIDE DEF x
    <2>4. HasRead(x, deals, jobs, invoices)
      BY <2>3 DEF HasRead
    <2> QED
      BY <1>0, <2>1, <2>3, <2>4, PipelineCall
  <1>2. ASSUME NEW c \in OneCall, Pipeline!WriteStage(c) PROVE PipelineInv'
    <2> DEFINE m == crm[c].deal
               x == [crm[c] EXCEPT !.at = "won"]
    <2>1. /\ crm[c].at = "move" /\ deals' = Restaged(deals, m, crm[c].stage)
          /\ crm' = [crm EXCEPT ![c] = x] \/ Pipeline!Ends(c)
          /\ UNCHANGED <<jobs, invoices, people>>
      BY <1>2 DEF Pipeline!WriteStage, Pipeline!At, Restaged
    <2>2. crm[c] \in CrmLocals(PipelineSteps)
      BY PipelineRequest
    <2>3. x \in CrmLocals(PipelineSteps) /\ x.at = "won" /\ x.deal = m /\ crm[c].stage \in Pipeline!Stages
      BY <2>2 DEF CrmLocals, PipelineSteps
    <2>4. m \in 1 .. Len(deals)
      BY <2>1, PipelineRequest DEF HasRead
    <2> HIDE DEF x, m
    <2>5. PipelineRows(deals', jobs', invoices') /\ Len(deals') = Len(deals)
      BY <1>0, <2>1, <2>3, <2>4, DealMoved
    <2>6. HasRead(x, deals', jobs', invoices')
      BY <2>3, <2>4, <2>5 DEF HasRead
    <2>7. CASE crm' = [crm EXCEPT ![c] = x]
      BY <2>1, <2>3, <2>5, <2>6, <2>7, PipelineCall
    <2>8. CASE Pipeline!Ends(c)
      BY <2>1, <2>5, <2>8, PipelineEnds
    <2> QED
      BY <2>1, <2>7, <2>8
  <1>3. ASSUME NEW c \in OneCall, Pipeline!FindJob(c) PROVE PipelineInv'
    <2> DEFINE x == [crm[c] EXCEPT !.at = "make"]
    <2>1. /\ crm[c].at = "won" /\ UNCHANGED <<deals, jobs, invoices, people>>
          /\ \/ Pipeline!Ends(c)
             \/ crm' = [crm EXCEPT ![c] = x] /\ \A j \in 1 .. Len(jobs) : jobs[j].deal # crm[c].deal
      BY <1>3 DEF Pipeline!FindJob, Pipeline!At, Pipeline!HasJob
    <2>2. crm[c] \in CrmLocals(PipelineSteps) /\ HasRead(crm[c], deals, jobs, invoices)
      BY PipelineRequest
    <2>3. x \in CrmLocals(PipelineSteps) /\ x.at = "make" /\ x.deal = crm[c].deal
      BY <2>2 DEF CrmLocals, PipelineSteps
    <2> HIDE DEF x
    <2>4. CASE Pipeline!Ends(c)
      BY <1>0, <2>1, <2>4, PipelineEnds
    <2>5. CASE crm' = [crm EXCEPT ![c] = x] /\ \A j \in 1 .. Len(jobs) : jobs[j].deal # crm[c].deal
      <3>1. HasRead(x, deals, jobs, invoices)
        BY <2>1, <2>2, <2>3, <2>5 DEF HasRead
      <3> QED
        BY <1>0, <2>1, <2>3, <2>5, <3>1, PipelineCall
    <2> QED
      BY <2>1, <2>4, <2>5
  <1>4. ASSUME NEW c \in OneCall, Pipeline!MakeJob(c) PROVE PipelineInv'
    <2> DEFINE m == crm[c].deal
    <2>1. /\ crm[c].at = "make" /\ Pipeline!Ends(c) /\ UNCHANGED <<deals, invoices, people>>
          /\ jobs' = Append(jobs, [deal |-> m, won |-> TRUE, payment |-> "unpaid", by |-> 0])
      BY <1>4 DEF Pipeline!MakeJob, Pipeline!At, Pipeline!NewJob
    <2>2. m \in 1 .. Len(deals) /\ \A j \in 1 .. Len(jobs) : jobs[j].deal # m
      BY <2>1, PipelineRequest DEF HasRead
    <2> HIDE DEF m
    <2>3. PipelineRows(deals, jobs', invoices)
      BY <1>0, <2>1, <2>2, JobAdded
    <2> QED
      BY <2>1, <2>3, PipelineEnds
  <1>5. ASSUME NEW c \in OneCall, NEW l \in Listings, Pipeline!AddListing(c, l) PROVE PipelineInv'
    <2> DEFINE x == [crm[c] EXCEPT !.at = "list", !.listing = l]
    <2>1. /\ \A d \in 1 .. Len(deals) : deals[d].listing # l
          /\ crm' = [crm EXCEPT ![c] = x] /\ UNCHANGED <<deals, jobs, invoices, people>>
      BY <1>5 DEF Pipeline!AddListing
    <2>2. crm[c] \in CrmLocals(PipelineSteps)
      BY PipelineRequest
    <2>3. x \in CrmLocals(PipelineSteps) /\ x.at = "list" /\ x.listing = l
      BY <2>2 DEF CrmLocals, PipelineSteps
    <2> HIDE DEF x
    <2>4. HasRead(x, deals, jobs, invoices)
      BY <2>1, <2>3 DEF HasRead
    <2> QED
      BY <1>0, <2>1, <2>3, <2>4, PipelineCall
  <1>6. ASSUME NEW c \in OneCall, Pipeline!ListDeal(c) PROVE PipelineInv'
    <2> DEFINE l == crm[c].listing
    <2>1. /\ crm[c].at = "list" /\ Pipeline!Ends(c) /\ UNCHANGED <<jobs, invoices, people>>
          /\ deals' = Append(deals, [stage |-> "lead", listing |-> l])
      BY <1>6 DEF Pipeline!ListDeal, Pipeline!At, Pipeline!NewDeal
    <2>2. l \in Listings /\ \A d \in 1 .. Len(deals) : deals[d].listing # l
      BY <2>1, PipelineRequest DEF HasRead
    <2>3. "lead" \in Pipeline!Stages
      BY DEF Pipeline!Stages
    <2> HIDE DEF l
    <2>4. PipelineRows(deals', jobs, invoices)
      BY <1>0, <2>1, <2>2, <2>3, DealAdded
    <2> QED
      BY <2>1, <2>4, PipelineEnds
  <1>7. ASSUME NEW c \in OneCall, NEW j \in 1 .. Len(jobs), Pipeline!InvoiceJob(c, j) PROVE PipelineInv'
    <2> DEFINE x == [Pipeline!NoCall EXCEPT !.at = "number", !.job = j]
    <2>1. crm' = [crm EXCEPT ![c] = x] /\ UNCHANGED <<deals, jobs, invoices, people>>
      BY <1>7 DEF Pipeline!InvoiceJob
    <2>2. j \in Nat
      BY PipelineRequest
    <2>3. x \in CrmLocals(PipelineSteps) /\ x.at = "number" /\ x.job = j
      BY <2>2, NoRequest DEF CrmLocals, PipelineSteps, Pipeline!NoCall
    <2> HIDE DEF x
    <2>4. HasRead(x, deals, jobs, invoices)
      BY <2>3 DEF HasRead
    <2> QED
      BY <1>0, <2>1, <2>3, <2>4, PipelineCall
  <1>8. ASSUME NEW c \in OneCall, Pipeline!InvoiceBrand(c) PROVE PipelineInv'
    <2>1. PICK d \in 1 .. Len(deals') : crm' = [crm EXCEPT ![c] = [Pipeline!NoCall EXCEPT !.at = "job", !.deal = d]]
      BY <1>8 DEF Pipeline!InvoiceBrand
    <2> DEFINE x == [Pipeline!NoCall EXCEPT !.at = "job", !.deal = d]
    <2>2. /\ UNCHANGED <<jobs, invoices, people>>
          /\ deals' = deals \/ (deals = <<>> /\ deals' = <<[stage |-> "won", listing |-> Unlisted]>>)
      BY <1>8 DEF Pipeline!InvoiceBrand, Pipeline!NewDeal
    <2>3. PipelineRows(deals', jobs', invoices')
      <3>1. CASE deals' = deals
        BY <1>0, <2>2, <3>1
      <3>2. CASE deals = <<>> /\ deals' = <<[stage |-> "won", listing |-> Unlisted]>>
        <4>1. "won" \in Pipeline!Stages /\ Unlisted \in Listings \cup {Unlisted} /\ Unlisted \notin Listings
          BY CrmAssumption DEF Pipeline!CrmAssumption, Pipeline!Stages
        <4>2. PipelineRows(Append(deals, [stage |-> "won", listing |-> Unlisted]), jobs, invoices)
          BY <1>0, <4>1, DealAdded
        <4>3. Append(<<>>, [stage |-> "won", listing |-> Unlisted]) = <<[stage |-> "won", listing |-> Unlisted]>>
          OBVIOUS
        <4> QED
          BY <2>2, <3>2, <4>2, <4>3
      <3> QED
        BY <2>2, <3>1, <3>2
    <2>4. d \in Nat
      BY <2>3, LenProperties DEF PipelineRows
    <2>5. x \in CrmLocals(PipelineSteps) /\ x.at = "job" /\ x.deal = d
      BY <2>4, NoRequest DEF CrmLocals, PipelineSteps, Pipeline!NoCall
    <2>6. crm' = [crm EXCEPT ![c] = x]
      BY <2>1
    <2> HIDE DEF x
    <2>7. HasRead(x, deals', jobs', invoices')
      BY <2>5 DEF HasRead
    <2> QED
      BY <2>2, <2>3, <2>5, <2>6, <2>7, PipelineCall
  <1>9. ASSUME NEW c \in OneCall, Pipeline!InvoicedJob(c) PROVE PipelineInv'
    <2> DEFINE m == crm[c].deal
               x == [crm[c] EXCEPT !.at = "number", !.job = Len(jobs')]
    <2>1. /\ crm[c].at = "job" /\ crm' = [crm EXCEPT ![c] = x] /\ UNCHANGED <<deals, invoices, people>>
          /\ jobs' = Append(jobs, [deal |-> m, won |-> FALSE, payment |-> "unpaid", by |-> 0])
      BY <1>9 DEF Pipeline!InvoicedJob, Pipeline!At, Pipeline!NewJob
    <2>2. m \in 1 .. Len(deals) /\ crm[c] \in CrmLocals(PipelineSteps)
      BY <2>1, PipelineRequest DEF HasRead
    <2> HIDE DEF m
    <2>3. PipelineRows(deals, jobs', invoices) /\ Len(jobs') = Len(jobs) + 1 /\ Len(jobs) \in Nat
      BY <1>0, <2>1, <2>2, JobAdded
    <2>4. Len(jobs') \in Nat /\ Len(jobs') \in 1 .. Len(jobs')
      BY <2>3
    <2>5. x \in CrmLocals(PipelineSteps) /\ x.at = "number" /\ x.job = Len(jobs')
      BY <2>2, <2>4 DEF CrmLocals, PipelineSteps
    <2> HIDE DEF x
    <2>6. HasRead(x, deals, jobs', invoices)
      BY <2>4, <2>5 DEF HasRead
    <2> QED
      BY <2>1, <2>3, <2>5, <2>6, PipelineCall
  <1>10. ASSUME NEW c \in OneCall, Pipeline!NextNumber(c) PROVE PipelineInv'
    <2> DEFINE x == [crm[c] EXCEPT !.at = "invoice", !.number = Len(invoices) + 1]
    <2>1. crm[c].at = "number" /\ crm' = [crm EXCEPT ![c] = x] /\ UNCHANGED <<deals, jobs, invoices, people>>
      BY <1>10 DEF Pipeline!NextNumber, Pipeline!At
    <2>2. crm[c] \in CrmLocals(PipelineSteps) /\ Len(invoices) + 1 \in Nat
      BY PipelineRequest
    <2>3. x \in CrmLocals(PipelineSteps) /\ x.at = "invoice" /\ x.job = crm[c].job /\ x.number = Len(invoices) + 1
      BY <2>2 DEF CrmLocals, PipelineSteps
    <2> HIDE DEF x
    <2>4. HasRead(x, deals, jobs, invoices)
      BY <2>1, <2>3, PipelineRequest DEF HasRead
    <2> QED
      BY <1>0, <2>1, <2>3, <2>4, PipelineCall
  <1>11. ASSUME NEW c \in OneCall, Pipeline!MakeInvoice(c) PROVE PipelineInv'
    <2> DEFINE m == crm[c].job
               x == [crm[c] EXCEPT !.at = "mark", !.invoice = Len(invoices'), !.status = "unpaid"]
    <2>1. /\ crm[c].at = "invoice" /\ Len(invoices) < MaxEntries /\ crm' = [crm EXCEPT ![c] = x]
          /\ invoices' = Append(invoices, [job |-> m, number |-> crm[c].number, status |-> "unpaid"])
          /\ jobs' = Unmarked(jobs, m)
          /\ UNCHANGED <<deals, people>>
      BY <1>11 DEF Pipeline!MakeInvoice, Pipeline!At, Unmarked
    <2>2. crm[c] \in CrmLocals(PipelineSteps) /\ m \in 1 .. Len(jobs) /\ crm[c].number = Len(invoices) + 1
      BY <2>1, PipelineRequest DEF HasRead
    <2> HIDE DEF m
    <2>3. /\ PipelineRows(deals, jobs', invoices') /\ Len(jobs') = Len(jobs) /\ Len(invoices') \in 1 .. Len(invoices')
          /\ Len(invoices') = Len(invoices) + 1
          /\ invoices'[Len(invoices')].job = m /\ invoices'[Len(invoices')].status = "unpaid"
      <3> DEFINE H == Invoiced(invoices, m)
                 K == Unmarked(jobs, m)
      <3>1. jobs' = K /\ invoices' = H /\ deals' = deals
        BY <2>1, <2>2 DEF Invoiced
      <3>2. Len(invoices) < MaxEntries /\ m \in 1 .. Len(jobs)
        BY <2>1, <2>2
      <3>3. /\ PipelineRows(deals, K, H) /\ Len(K) = Len(jobs) /\ Len(H) \in 1 .. Len(H)
            /\ Len(H) = Len(invoices) + 1 /\ H[Len(H)].job = m /\ H[Len(H)].status = "unpaid"
        BY <1>0, <3>2, InvoiceAdded
      <3> HIDE DEF H, K
      <3> QED
        BY <3>1, <3>3
    <2>4. x \in CrmLocals(PipelineSteps) /\ x.at = "mark" /\ x.job = m /\ x.invoice = Len(invoices') /\ x.status = "unpaid"
      <3>1. Len(invoices') \in Nat
        BY <2>3, PipelineRequest
      <3> QED
        BY <2>2, <3>1 DEF CrmLocals, PipelineSteps, Pipeline!Statuses, m
    <2> HIDE DEF x
    <2>5. HasRead(x, deals, jobs', invoices')
      BY <2>2, <2>3, <2>4 DEF HasRead
    <2> QED
      BY <2>1, <2>3, <2>4, <2>5, PipelineCall
  <1>12. ASSUME NEW c \in OneCall, NEW i \in 1 .. Len(invoices),
                NEW status \in Pipeline!Statuses \cup {Pipeline!NoStatus}, Pipeline!Update(c, i, status)
         PROVE  PipelineInv'
    <2> DEFINE x == [Pipeline!NoCall EXCEPT
                          !.at = "update", !.invoice = i, !.job = invoices[i].job, !.write = status # Pipeline!NoStatus,
                          !.status = IF status = Pipeline!NoStatus THEN invoices[i].status ELSE status]
    <2>1. crm' = [crm EXCEPT ![c] = x] /\ UNCHANGED <<deals, jobs, invoices, people>>
      BY <1>12 DEF Pipeline!Update
    <2>2. invoices[i] \in InvoiceRow /\ i \in Nat
      BY <1>0, ElementOfSeq, LenProperties DEF PipelineRows
    <2>3. invoices[i].job \in Nat /\ invoices[i].status \in Pipeline!Statuses
      BY <2>2 DEF InvoiceRow
    <2>4. /\ x \in CrmLocals(PipelineSteps) /\ x.at = "update" /\ x.invoice = i /\ x.job = invoices[i].job
          /\ x.write \/ x.status = invoices[i].status
      BY <2>2, <2>3, NoRequest DEF CrmLocals, PipelineSteps, Pipeline!NoCall
    <2> HIDE DEF x
    <2>5. invoices[i].job \in 1 .. Len(jobs)
      BY <1>0 DEF PipelineRows, InvoiceRefers
    <2>6. HasRead(x, deals, jobs, invoices)
      BY <2>4, <2>5 DEF HasRead
    <2> QED
      BY <1>0, <2>1, <2>4, <2>6, PipelineCall
  <1>13. ASSUME NEW c \in OneCall, Pipeline!WriteInvoice(c) PROVE PipelineInv'
    <2> DEFINE i == crm[c].invoice
               status == IF crm[c].write THEN crm[c].status ELSE invoices[i].status
               x == [crm[c] EXCEPT !.at = "mark"]
    <2>1. crm[c] \in CrmLocals(PipelineSteps) /\ HasRead(crm[c], deals, jobs, invoices)
      BY PipelineRequest
    <2>2. /\ crm[c].at = "update" /\ crm' = [crm EXCEPT ![c] = x] /\ UNCHANGED <<deals, people>>
          /\ invoices' = Written(invoices, i, status)
          /\ jobs' = Unmarked(jobs, crm[c].job)
      BY <1>13 DEF Pipeline!WriteInvoice, Pipeline!At, Unmarked, Written
    <2>3. /\ i \in 1 .. Len(invoices) /\ invoices[i].job = crm[c].job /\ crm[c].job \in 1 .. Len(jobs)
          /\ crm[c].write \/ crm[c].status = invoices[i].status
      BY <2>1, <2>2 DEF HasRead
    <2>4. status \in Pipeline!Statuses /\ crm[c].status = status
      BY <2>1, <2>3, CrmTyped
    <2>5. x \in CrmLocals(PipelineSteps) /\ x.at = "mark" /\ x.invoice = i /\ x.job = crm[c].job /\ x.status = crm[c].status
      BY <2>1 DEF CrmLocals, PipelineSteps
    <2> HIDE DEF i, status, x
    <2>6. /\ PipelineRows(deals, jobs', invoices') /\ Len(jobs') = Len(jobs) /\ Len(invoices') = Len(invoices)
          /\ invoices'[i].job = invoices[i].job /\ invoices'[i].status = status
      BY <1>0, <2>2, <2>3, <2>4, InvoiceWritten
    <2>7. HasRead(x, deals, jobs', invoices')
      BY <2>3, <2>4, <2>5, <2>6 DEF HasRead
    <2> QED
      BY <2>2, <2>5, <2>6, <2>7, PipelineCall
  <1>14. ASSUME NEW c \in OneCall, Pipeline!Mark(c) PROVE PipelineInv'
    <2> DEFINE i == crm[c].invoice
               m == crm[c].job
    <2>1. /\ crm[c].at = "mark" /\ Pipeline!Ends(c) /\ UNCHANGED <<deals, invoices, people>>
          /\ jobs' = [jobs EXCEPT ![m].payment = crm[c].status, ![m].by = i]
      BY <1>14 DEF Pipeline!Mark, Pipeline!At
    <2>2. i \in 1 .. Len(invoices) /\ invoices[i].job = m /\ crm[c].status = invoices[i].status /\ m \in 1 .. Len(jobs)
      BY <2>1, PipelineRequest DEF HasRead
    <2>3. jobs' = Marked(jobs, m, crm[c].status, i)
      <3>1. m \in DOMAIN jobs
        BY <1>0, <2>2, LenProperties DEF PipelineRows
      <3> QED
        BY <2>1, <3>1 DEF Marked
    <2> HIDE DEF i, m
    <2>4. PipelineRows(deals, jobs', invoices)
      BY <1>0, <2>2, <2>3, MarkedAlike
    <2> QED
      BY <2>1, <2>4, PipelineEnds
  <1>15. ASSUME NEW c \in OneCall, Pipeline!Fails(c) PROVE PipelineInv'
    <2>1. Pipeline!Ends(c) /\ UNCHANGED <<deals, jobs, invoices, people>>
      BY <1>15 DEF Pipeline!Fails
    <2> QED
      BY <1>0, <2>1, PipelineEnds
  <1>16. ASSUME NEW stage \in Pipeline!Stages, Pipeline!CreateDeal(stage) PROVE PipelineInv'
    <2>1. /\ UNCHANGED <<jobs, invoices, people, crm>>
          /\ deals' = Append(deals, [stage |-> stage, listing |-> Unlisted])
      BY <1>16 DEF Pipeline!CreateDeal, Pipeline!NewDeal
    <2>2. Unlisted \in Listings \cup {Unlisted} /\ Unlisted \notin Listings
      BY CrmAssumption DEF Pipeline!CrmAssumption
    <2>3. PipelineRows(deals', jobs, invoices)
      BY <1>0, <2>1, <2>2, DealAdded
    <2>4. ASSUME NEW c \in OneCall PROVE HasRead(crm[c], deals', jobs, invoices)
      <3>1. HasRead(crm[c], deals, jobs, invoices)
        BY PipelineRequest
      <3>2. CASE crm[c].at # "list"
        BY <1>0, <2>1, <2>2, <3>1, <3>2, DealAdded
      <3>3. CASE crm[c].at = "list"
        <4>1. crm[c].listing \in Listings /\ \A d \in 1 .. Len(deals) : deals[d].listing # crm[c].listing
          BY <3>1, <3>3 DEF HasRead
        <4>2. deals \in Seq(DealRow) /\ [stage |-> stage, listing |-> Unlisted] \in DealRow
          BY <1>0 DEF PipelineRows, DealRow
        <4>3. /\ Len(deals) \in Nat /\ Len(deals') = Len(deals) + 1
              /\ deals'[Len(deals) + 1] = [stage |-> stage, listing |-> Unlisted]
              /\ \A d \in 1 .. Len(deals) : deals'[d] = deals[d]
          BY <2>1, <4>2, AppendProperties, LenProperties
        <4>4. \A d \in 1 .. Len(deals') : deals'[d].listing # crm[c].listing
          <5>1. deals'[Len(deals) + 1].listing = Unlisted
            BY <4>3
          <5> QED
            BY <2>2, <4>1, <4>3, <5>1
        <4> QED
          BY <3>3, <4>1, <4>4 DEF HasRead
      <3> QED
        BY <3>2, <3>3
    <2> QED
      BY <2>1, <2>3, <2>4 DEF PipelineInv
  <1>17. ASSUME NEW c \in OneCall, Pipeline!ClearPrimary(c) \/ Pipeline!SavePrimary(c) PROVE FALSE
    <2>1. crm[c].at \in {"clear", "person"}
      BY <1>17 DEF Pipeline!ClearPrimary, Pipeline!SavePrimary, Pipeline!At
    <2>2. crm[c].at \in PipelineSteps
      BY PipelineRequest, CrmTyped
    <2> QED
      BY <2>1, <2>2 DEF PipelineSteps
  <1>18. CASE UNCHANGED crmVars
    BY <1>18 DEF crmVars, PipelineInv
  <1> QED
    BY <1>1, <1>2, <1>3, <1>4, <1>5, <1>6, <1>7, <1>8, <1>9, <1>10, <1>11, <1>12, <1>13, <1>14,
       <1>15, <1>16, <1>17, <1>18
       DEF Pipeline!Next

\* The contacts: a request to make one primary clears the others first, and nothing makes
\* another one primary before it writes.
LEMMA ContactsStep == ContactsInv /\ [Contacts!Next]_crmVars => ContactsInv'
  <1> SUFFICES ASSUME ContactsInv, [Contacts!Next]_crmVars PROVE ContactsInv'
    OBVIOUS
  <1>0. Len(deals) = 0 /\ Len(jobs) = 0 /\ Len(invoices) = 0
    BY DEF ContactsInv
  <1>1. ASSUME NEW c \in OneCall, NEW x \in CrmLocals(ContactSteps), crm' = [crm EXCEPT ![c] = x],
               UNCHANGED <<deals, jobs, invoices>>, people' \in [People -> {"none", "other", "primary"}],
               x.at \in {"clear", "person"} => x.person \in People,
               x.at = "person" => \A p \in People : people'[p] = "primary" => p = x.person,
               \A p, q \in People : people'[p] = "primary" /\ people'[q] = "primary" => p = q
        PROVE  ContactsInv'
    <2>1. crm' \in [OneCall -> CrmLocals(ContactSteps)] /\ crm'[c] = x
      BY <1>1 DEF ContactsInv
    <2>2. \A d \in OneCall : crm'[d] = x
      BY <2>1, OneCallAssumption
    <2> QED
      BY <1>1, <2>1, <2>2 DEF ContactsInv
  <1>2. ASSUME NEW c \in OneCall, Contacts!Ends(c), UNCHANGED <<deals, jobs, invoices>>,
               people' \in [People -> {"none", "other", "primary"}],
               \A p, q \in People : people'[p] = "primary" /\ people'[q] = "primary" => p = q
        PROVE  ContactsInv'
    BY <1>1, <1>2, NoRequest DEF Contacts!Ends
  <1>3. ASSUME NEW c \in OneCall PROVE crm[c] \in CrmLocals(ContactSteps) /\ crm[c].at \in ContactSteps
    BY CrmTyped DEF ContactsInv
  <1>4. ASSUME NEW c \in OneCall, NEW l \in Listings, Contacts!AddListing(c, l) PROVE ContactsInv'
    <2> DEFINE x == [crm[c] EXCEPT !.at = "list", !.listing = l]
    <2>1. crm' = [crm EXCEPT ![c] = x] /\ UNCHANGED <<deals, jobs, invoices, people>>
      BY <1>4 DEF Contacts!AddListing
    <2>2. x \in CrmLocals(ContactSteps) /\ x.at = "list"
      BY <1>3 DEF CrmLocals, ContactSteps
    <2> HIDE DEF x
    <2> QED
      BY <1>1, <2>1, <2>2 DEF ContactsInv
  <1>5. ASSUME NEW c \in OneCall, NEW p \in People, Contacts!MakePrimary(c, p) PROVE ContactsInv'
    <2> DEFINE x == [Contacts!NoCall EXCEPT !.at = "clear", !.person = p, !.write = people[p] # "none"]
    <2>1. crm' = [crm EXCEPT ![c] = x] /\ UNCHANGED <<deals, jobs, invoices, people>>
      BY <1>5 DEF Contacts!MakePrimary
    <2>2. x \in CrmLocals(ContactSteps) /\ x.at = "clear" /\ x.person = p
      BY NoRequest DEF CrmLocals, ContactSteps, Contacts!NoCall
    <2> HIDE DEF x
    <2> QED
      BY <1>1, <2>1, <2>2 DEF ContactsInv
  <1>6. ASSUME NEW c \in OneCall, Contacts!ClearPrimary(c) PROVE ContactsInv'
    <2> DEFINE x == [crm[c] EXCEPT !.at = "person"]
    <2>1. /\ crm[c].at = "clear" /\ crm' = [crm EXCEPT ![c] = x] /\ UNCHANGED <<deals, jobs, invoices>>
          /\ people' = [p \in People |-> IF people[p] = "primary" /\ p # crm[c].person THEN "other" ELSE people[p]]
      BY <1>6 DEF Contacts!ClearPrimary, Contacts!At
    <2>2. crm[c] \in CrmLocals(ContactSteps)
      BY <1>3
    <2>3. x \in CrmLocals(ContactSteps) /\ x.at = "person" /\ x.person = crm[c].person
      BY <2>2 DEF CrmLocals, ContactSteps
    <2> HIDE DEF x
    <2>4. crm[c].person \in People
      BY <2>1 DEF ContactsInv
    <2>5. /\ people' \in [People -> {"none", "other", "primary"}]
          /\ \A p \in People : people'[p] = "primary" => p = crm[c].person
      BY <2>1 DEF ContactsInv
    <2>6. \A p, q \in People : people'[p] = "primary" /\ people'[q] = "primary" => p = q
      BY <2>5
    <2> QED
      BY <1>1, <2>1, <2>3, <2>4, <2>5, <2>6
  <1>7. ASSUME NEW c \in OneCall, Contacts!SavePrimary(c) PROVE ContactsInv'
    <2>1. /\ crm[c].at = "person" /\ Contacts!Ends(c) /\ UNCHANGED <<deals, jobs, invoices>>
          /\ people' = people \/ people' = [people EXCEPT ![crm[c].person] = "primary"]
      BY <1>7 DEF Contacts!SavePrimary, Contacts!At
    <2>2. crm[c].person \in People /\ \A p \in People : people[p] = "primary" => p = crm[c].person
      BY <2>1 DEF ContactsInv
    <2>3. people' \in [People -> {"none", "other", "primary"}]
      BY <2>1 DEF ContactsInv
    <2>4. \A p \in People : people'[p] = "primary" => p = crm[c].person
      BY <2>1, <2>2 DEF ContactsInv
    <2>5. \A p, q \in People : people'[p] = "primary" /\ people'[q] = "primary" => p = q
      BY <2>4
    <2> QED
      BY <1>2, <2>1, <2>3, <2>5
  <1>8. ASSUME NEW p \in People, NEW as \in {"none", "other"}, Contacts!SavePerson(p, as) PROVE ContactsInv'
    <2>1. people' = [people EXCEPT ![p] = as] /\ UNCHANGED <<deals, jobs, invoices, crm>>
      BY <1>8 DEF Contacts!SavePerson
    <2>2. /\ people' \in [People -> {"none", "other", "primary"}]
          /\ \A q \in People : people'[q] = "primary" => people[q] = "primary"
      BY <2>1 DEF ContactsInv
    <2> QED
      BY <2>1, <2>2 DEF ContactsInv
  <1>9. ASSUME NEW c \in OneCall, Contacts!Fails(c) PROVE ContactsInv'
    BY <1>2, <1>9 DEF ContactsInv, Contacts!Fails
  <1>10. ASSUME NEW c \in OneCall,
                \/ Contacts!WriteStage(c) \/ Contacts!FindJob(c) \/ Contacts!MakeJob(c) \/ Contacts!InvoicedJob(c)
                \/ Contacts!NextNumber(c) \/ Contacts!MakeInvoice(c) \/ Contacts!WriteInvoice(c) \/ Contacts!Mark(c)
         PROVE  FALSE
    BY <1>3, <1>10 DEF ContactSteps, Contacts!At, Contacts!WriteStage, Contacts!FindJob, Contacts!MakeJob,
                       Contacts!InvoicedJob, Contacts!NextNumber, Contacts!MakeInvoice, Contacts!WriteInvoice,
                       Contacts!Mark
  <1>11. ASSUME NEW c \in OneCall, Contacts!ListDeal(c) \/ Contacts!InvoiceBrand(c) PROVE FALSE
    BY <1>0, <1>11 DEF Contacts!ListDeal, Contacts!InvoiceBrand
  <1>12. ASSUME NEW stage \in Contacts!Stages, Contacts!CreateDeal(stage) PROVE FALSE
    BY <1>0, <1>12 DEF Contacts!CreateDeal
  <1>13. 1 .. Len(deals) = {} /\ 1 .. Len(jobs) = {} /\ 1 .. Len(invoices) = {}
    BY <1>0
  <1>14. CASE UNCHANGED crmVars
    BY <1>14 DEF crmVars, ContactsInv
  <1> QED
    BY <1>4, <1>5, <1>6, <1>7, <1>8, <1>9, <1>10, <1>11, <1>12, <1>13, <1>14 DEF Contacts!Next

\* Nothing is there, and nobody has asked for anything.
LEMMA CrmInitially == WorkInit => CrmInv
  <1>1. ASSUME Pipeline!Init PROVE PipelineInv
    <2>1. deals = <<>> /\ jobs = <<>> /\ invoices = <<>>
      BY <1>1 DEF Pipeline!Init
    <2>2. PipelineRows(deals, jobs, invoices)
      BY <2>1, CrmAssumption DEF Pipeline!CrmAssumption, PipelineRows, JobRefers, InvoiceRefers, OneWin, OneListing
    <2> QED
      BY <1>1, <2>2, NoRequest DEF Pipeline!Init, PipelineInv, HasRead
  <1>2. ASSUME Contacts!Init PROVE ContactsInv
    BY <1>2, NoRequest DEF Contacts!Init, ContactsInv
  <1> QED
    BY <1>1, <1>2 DEF WorkInit, CrmInv

LEMMA CrmInvariance == WorkSpec => []CrmInv
  <1>1. CrmInv /\ [WorkNext]_workVars => CrmInv'
    <2> SUFFICES ASSUME CrmInv, [WorkNext]_workVars PROVE CrmInv'
      OBVIOUS
    <2>1. component' = component
      BY DEF WorkNext, workVars
    <2>2. CASE component = "contacts"
      <3>1. [Contacts!Next]_crmVars
        BY <2>2 DEF WorkNext, workVars
      <3>2. ContactsInv'
        BY <2>2, <3>1, ContactsStep DEF CrmInv
      <3> QED
        BY <2>1, <2>2, <3>2 DEF CrmInv
    <2>3. CASE component # "contacts"
      <3>1. [Pipeline!Next]_crmVars
        BY <2>3 DEF WorkNext, workVars
      <3>2. PipelineInv'
        BY <2>3, <3>1, PipelineStep DEF CrmInv
      <3> QED
        BY <2>1, <2>3, <3>2 DEF CrmInv
    <2> QED
      BY <2>2, <2>3
  <1> QED
    BY <1>1, CrmInitially, PTL DEF WorkSpec, workVars

(* Requests one after the other, however they fail, leave one job for a won *)
(* deal, one deal for a listing, one invoice for a number, one primary      *)
(* contact, and jobs that say what their invoices say (moveDealStage,       *)
(* addListingToPipeline, createPayment, updatePayment, updateBrandPerson).  *)
THEOREM PipelineStaysConsistent == WorkSpec => []PipelineConsistent
  <1>1. ASSUME PipelineInv PROVE Pipeline!PipelineConsistent
    <2>1. /\ JobRefers(deals, jobs, invoices) /\ InvoiceRefers(jobs, invoices) /\ OneWin(jobs) /\ OneListing(deals)
      BY <1>1 DEF PipelineInv, PipelineRows
    <2>2. \A i, k \in 1 .. Len(invoices) : invoices[i].number = invoices[k].number => i = k
      BY <2>1 DEF InvoiceRefers
    <2>3. \A j \in 1 .. Len(jobs) : jobs[j].by # 0 => jobs[j].payment = invoices[jobs[j].by].status
      BY <2>1 DEF JobRefers
    <2>4. \A j, k \in 1 .. Len(jobs) : jobs[j].won /\ jobs[k].won /\ jobs[j].deal = jobs[k].deal => j = k
      BY <2>1 DEF OneWin
    <2>5. \A d, e \in 1 .. Len(deals) :
              deals[d].listing = deals[e].listing /\ deals[d].listing \in Listings => d = e
      BY <2>1 DEF OneListing
    <2> QED
      BY <2>2, <2>3, <2>4, <2>5, Zenon DEF Pipeline!PipelineConsistent
  <1>2. ASSUME ContactsInv PROVE Contacts!PipelineConsistent
    <2>1. 1 .. Len(deals) = {} /\ 1 .. Len(jobs) = {} /\ 1 .. Len(invoices) = {}
      BY <1>2 DEF ContactsInv
    <2>2. \A p, q \in People : people[p] = "primary" /\ people[q] = "primary" => p = q
      BY <1>2 DEF ContactsInv
    <2> QED
      BY <2>1, <2>2 DEF Contacts!PipelineConsistent
  <1>3. CrmInv => PipelineConsistent
    BY <1>1, <1>2 DEF CrmInv, PipelineConsistent
  <1> QED
    BY <1>3, CrmInvariance, PTL

-----------------------------------------------------------------------------
(* Publishing, proved beside its module as well: of requests that overlap   *)
(* in most behaviours, of one at a time in those of "versions".             *)

PublishingProofs == INSTANCE CampaignPublishing_proofs WITH
    call <- publishing, Editions <- {"terms"}, Files <- {}, MaxRevisions <- 1

VersionsProofs == INSTANCE CampaignPublishing_proofs WITH
    call <- publishing, Calls <- OneCall, Products <- {"product"}, Editions <- {"terms", "other terms"},
    Files <- {"brief"}, MaxRevisions <- 2

LEMMA PublishingSteps ==
    /\ Publishing!Init <=> PublishingProofs!Init
    /\ [Publishing!Next]_publishingVars <=> [PublishingProofs!Next]_PublishingProofs!vars
  <1>1. Publishing!NoSave = PublishingProofs!NoSave /\ Publishing!Save = PublishingProofs!Save
    BY Zenon
       DEF Publishing!NoSave, PublishingProofs!NoSave, Publishing!Save, PublishingProofs!Save,
           Publishing!Statuses, PublishingProofs!Statuses, Publishing!Selection,
           PublishingProofs!Selection
  <1>2. Publishing!NoCall = PublishingProofs!NoCall /\ Publishing!NoListing = PublishingProofs!NoListing
    BY <1>1 DEF Publishing!NoCall, PublishingProofs!NoCall, Publishing!NoListing, PublishingProofs!NoListing
  <1>3. Publishing!Init <=> PublishingProofs!Init
    BY <1>1, <1>2 DEF Publishing!Init, PublishingProofs!Init
  <1>4. \A status : Publishing!Published(status) <=> PublishingProofs!Published(status)
    BY DEF Publishing!Published, PublishingProofs!Published
  <1>5. \A S : Publishing!Max(S) = PublishingProofs!Max(S)
    BY DEF Publishing!Max, PublishingProofs!Max
  <1>6. Publishing!Next <=> PublishingProofs!Next
    <2>1. \A c, input : Publishing!Create(c, input) <=> PublishingProofs!Create(c, input)
      BY <1>2, <1>4, <1>5 DEF Publishing!Create, PublishingProofs!Create, Publishing!rows,
          PublishingProofs!rows, Publishing!At, PublishingProofs!At
    <2>2. \A c, input : Publishing!UpdateDraft(c, input) <=> PublishingProofs!UpdateDraft(c, input)
      BY <1>2, <1>4, <1>5 DEF Publishing!UpdateDraft, PublishingProofs!UpdateDraft, Publishing!rows,
          PublishingProofs!rows, Publishing!At, PublishingProofs!At
    <2>3. \A c, input : Publishing!Update(c, input) <=> PublishingProofs!Update(c, input)
      BY <1>2, <1>4, <1>5 DEF Publishing!Update, PublishingProofs!Update, Publishing!rows,
          PublishingProofs!rows, Publishing!At, PublishingProofs!At
    <2>4. \A c, r : Publishing!RestoreRevision(c, r) <=> PublishingProofs!RestoreRevision(c, r)
      BY <1>2, <1>4, <1>5 DEF Publishing!RestoreRevision, PublishingProofs!RestoreRevision,
          Publishing!rows, PublishingProofs!rows, Publishing!At, PublishingProofs!At
    <2>5. \A c, f : Publishing!ReadStatus(c, f) <=> PublishingProofs!ReadStatus(c, f)
      BY <1>2, <1>4, <1>5 DEF Publishing!ReadStatus, PublishingProofs!ReadStatus, Publishing!rows,
          PublishingProofs!rows, Publishing!At, PublishingProofs!At
    <2>6. \A c : Publishing!ReadCampaign(c) <=> PublishingProofs!ReadCampaign(c)
      BY <1>2, <1>4, <1>5 DEF Publishing!ReadCampaign, PublishingProofs!ReadCampaign,
          Publishing!rows, PublishingProofs!rows, Publishing!At, PublishingProofs!At,
          Publishing!Ends, PublishingProofs!Ends
    <2>7. \A c : Publishing!SaveCampaign(c) <=> PublishingProofs!SaveCampaign(c)
      BY <1>2, <1>4, <1>5 DEF Publishing!SaveCampaign, PublishingProofs!SaveCampaign, Publishing!At,
          PublishingProofs!At, Publishing!Ends, PublishingProofs!Ends, Publishing!Refused,
          PublishingProofs!Refused
    <2>8. \A c : Publishing!ChangeFiles(c) <=> PublishingProofs!ChangeFiles(c)
      BY <1>2, <1>4, <1>5 DEF Publishing!ChangeFiles, PublishingProofs!ChangeFiles, Publishing!At,
          PublishingProofs!At, Publishing!Goes, PublishingProofs!Goes
    <2>9. \A c : Publishing!ReadBack(c) <=> PublishingProofs!ReadBack(c)
      BY <1>2, <1>4, <1>5 DEF Publishing!ReadBack, PublishingProofs!ReadBack, Publishing!rows,
          PublishingProofs!rows, Publishing!At, PublishingProofs!At
    <2>10. \A c : Publishing!ReadLatest(c) <=> PublishingProofs!ReadLatest(c)
      BY <1>2, <1>4, <1>5 DEF Publishing!ReadLatest, PublishingProofs!ReadLatest, Publishing!rows,
          PublishingProofs!rows, Publishing!At, PublishingProofs!At, Publishing!Goes,
          PublishingProofs!Goes, Publishing!TermsFromCampaign, PublishingProofs!TermsFromCampaign, Publishing!Latest,
          PublishingProofs!Latest
    <2>11. \A c : Publishing!ReadNumber(c) <=> PublishingProofs!ReadNumber(c)
      BY <1>2, <1>4, <1>5 DEF Publishing!ReadNumber, PublishingProofs!ReadNumber, Publishing!rows,
          PublishingProofs!rows, Publishing!At, PublishingProofs!At
    <2>12. \A c : Publishing!InsertRevision(c) <=> PublishingProofs!InsertRevision(c)
      BY <1>2, <1>4, <1>5 DEF Publishing!InsertRevision, PublishingProofs!InsertRevision,
          Publishing!At, PublishingProofs!At, Publishing!Goes, PublishingProofs!Goes,
          Publishing!TermsFromCampaign, PublishingProofs!TermsFromCampaign
    <2>13. \A c : Publishing!SyncListing(c) <=> PublishingProofs!SyncListing(c)
      BY <1>2, <1>4, <1>5 DEF Publishing!SyncListing, PublishingProofs!SyncListing, Publishing!At,
          PublishingProofs!At, Publishing!Ends, PublishingProofs!Ends
    <2>14. \A c : Publishing!CallStops(c) <=> PublishingProofs!CallStops(c)
      BY <1>2, <1>4, <1>5 DEF Publishing!CallStops, PublishingProofs!CallStops, Publishing!rows,
          PublishingProofs!rows, Publishing!At, PublishingProofs!At, Publishing!Ends,
          PublishingProofs!Ends
    <2>15. Publishing!Disconnect <=> PublishingProofs!Disconnect
      BY <1>2, <1>4, <1>5 DEF Publishing!Disconnect, PublishingProofs!Disconnect
    <2> QED
      BY <1>1, <2>1, <2>2, <2>3, <2>4, <2>5, <2>6, <2>7, <2>8, <2>9, <2>10, <2>11,
         <2>12, <2>13, <2>14, <2>15, Zenon
         DEF Publishing!Next, PublishingProofs!Next
  <1> QED
    BY <1>3, <1>6 DEF publishingVars, PublishingProofs!vars

LEMMA VersionsSteps ==
    /\ Versions!Init <=> VersionsProofs!Init
    /\ [Versions!Next]_publishingVars <=> [VersionsProofs!Next]_VersionsProofs!vars
  <1>1. Versions!NoSave = VersionsProofs!NoSave /\ Versions!Save = VersionsProofs!Save
    BY Zenon
       DEF Versions!NoSave, VersionsProofs!NoSave, Versions!Save, VersionsProofs!Save,
           Versions!Statuses, VersionsProofs!Statuses, Versions!Selection, VersionsProofs!Selection
  <1>2. Versions!NoCall = VersionsProofs!NoCall /\ Versions!NoListing = VersionsProofs!NoListing
    BY <1>1 DEF Versions!NoCall, VersionsProofs!NoCall, Versions!NoListing, VersionsProofs!NoListing
  <1>3. Versions!Init <=> VersionsProofs!Init
    BY <1>1, <1>2 DEF Versions!Init, VersionsProofs!Init
  <1>4. \A status : Versions!Published(status) <=> VersionsProofs!Published(status)
    BY DEF Versions!Published, VersionsProofs!Published
  <1>5. \A S : Versions!Max(S) = VersionsProofs!Max(S)
    BY DEF Versions!Max, VersionsProofs!Max
  <1>6. Versions!Next <=> VersionsProofs!Next
    <2>1. \A c, input : Versions!Create(c, input) <=> VersionsProofs!Create(c, input)
      BY <1>2, <1>4, <1>5 DEF Versions!Create, VersionsProofs!Create, Versions!rows,
          VersionsProofs!rows, Versions!At, VersionsProofs!At
    <2>2. \A c, input : Versions!UpdateDraft(c, input) <=> VersionsProofs!UpdateDraft(c, input)
      BY <1>2, <1>4, <1>5 DEF Versions!UpdateDraft, VersionsProofs!UpdateDraft, Versions!rows,
          VersionsProofs!rows, Versions!At, VersionsProofs!At
    <2>3. \A c, input : Versions!Update(c, input) <=> VersionsProofs!Update(c, input)
      BY <1>2, <1>4, <1>5 DEF Versions!Update, VersionsProofs!Update, Versions!rows,
          VersionsProofs!rows, Versions!At, VersionsProofs!At
    <2>4. \A c, r : Versions!RestoreRevision(c, r) <=> VersionsProofs!RestoreRevision(c, r)
      BY <1>2, <1>4, <1>5 DEF Versions!RestoreRevision, VersionsProofs!RestoreRevision,
          Versions!rows, VersionsProofs!rows, Versions!At, VersionsProofs!At
    <2>5. \A c, f : Versions!ReadStatus(c, f) <=> VersionsProofs!ReadStatus(c, f)
      BY <1>2, <1>4, <1>5 DEF Versions!ReadStatus, VersionsProofs!ReadStatus, Versions!rows,
          VersionsProofs!rows, Versions!At, VersionsProofs!At
    <2>6. \A c : Versions!ReadCampaign(c) <=> VersionsProofs!ReadCampaign(c)
      BY <1>2, <1>4, <1>5 DEF Versions!ReadCampaign, VersionsProofs!ReadCampaign, Versions!rows,
          VersionsProofs!rows, Versions!At, VersionsProofs!At, Versions!Ends, VersionsProofs!Ends
    <2>7. \A c : Versions!SaveCampaign(c) <=> VersionsProofs!SaveCampaign(c)
      BY <1>2, <1>4, <1>5 DEF Versions!SaveCampaign, VersionsProofs!SaveCampaign, Versions!At,
          VersionsProofs!At, Versions!Ends, VersionsProofs!Ends, Versions!Refused,
          VersionsProofs!Refused
    <2>8. \A c : Versions!ChangeFiles(c) <=> VersionsProofs!ChangeFiles(c)
      BY <1>2, <1>4, <1>5 DEF Versions!ChangeFiles, VersionsProofs!ChangeFiles, Versions!At,
          VersionsProofs!At, Versions!Goes, VersionsProofs!Goes
    <2>9. \A c : Versions!ReadBack(c) <=> VersionsProofs!ReadBack(c)
      BY <1>2, <1>4, <1>5 DEF Versions!ReadBack, VersionsProofs!ReadBack, Versions!rows,
          VersionsProofs!rows, Versions!At, VersionsProofs!At
    <2>10. \A c : Versions!ReadLatest(c) <=> VersionsProofs!ReadLatest(c)
      BY <1>2, <1>4, <1>5 DEF Versions!ReadLatest, VersionsProofs!ReadLatest, Versions!rows,
          VersionsProofs!rows, Versions!At, VersionsProofs!At, Versions!Goes, VersionsProofs!Goes,
          Versions!TermsFromCampaign, VersionsProofs!TermsFromCampaign, Versions!Latest, VersionsProofs!Latest
    <2>11. \A c : Versions!ReadNumber(c) <=> VersionsProofs!ReadNumber(c)
      BY <1>2, <1>4, <1>5 DEF Versions!ReadNumber, VersionsProofs!ReadNumber, Versions!rows,
          VersionsProofs!rows, Versions!At, VersionsProofs!At
    <2>12. \A c : Versions!InsertRevision(c) <=> VersionsProofs!InsertRevision(c)
      BY <1>2, <1>4, <1>5 DEF Versions!InsertRevision, VersionsProofs!InsertRevision, Versions!At,
          VersionsProofs!At, Versions!Goes, VersionsProofs!Goes, Versions!TermsFromCampaign,
          VersionsProofs!TermsFromCampaign
    <2>13. \A c : Versions!SyncListing(c) <=> VersionsProofs!SyncListing(c)
      BY <1>2, <1>4, <1>5 DEF Versions!SyncListing, VersionsProofs!SyncListing, Versions!At,
          VersionsProofs!At, Versions!Ends, VersionsProofs!Ends
    <2>14. \A c : Versions!CallStops(c) <=> VersionsProofs!CallStops(c)
      BY <1>2, <1>4, <1>5 DEF Versions!CallStops, VersionsProofs!CallStops, Versions!rows,
          VersionsProofs!rows, Versions!At, VersionsProofs!At, Versions!Ends, VersionsProofs!Ends
    <2>15. Versions!Disconnect <=> VersionsProofs!Disconnect
      BY <1>2, <1>4, <1>5 DEF Versions!Disconnect, VersionsProofs!Disconnect
    <2> QED
      BY <1>1, <2>1, <2>2, <2>3, <2>4, <2>5, <2>6, <2>7, <2>8, <2>9, <2>10, <2>11,
         <2>12, <2>13, <2>14, <2>15, Zenon
         DEF Versions!Next, VersionsProofs!Next
  <1> QED
    BY <1>3, <1>6 DEF publishingVars, VersionsProofs!vars

PublishingInv == IF component = "versions" THEN VersionsProofs!SInv ELSE PublishingProofs!IInv

LEMMA PublishingAssumed ==
    PublishingProofs!PublishingAssumption /\ VersionsProofs!PublishingAssumption /\ VersionsProofs!Alone
  BY PublishingAssumption, OneCallAssumption
     DEF Publishing!PublishingAssumption, Versions!PublishingAssumption, PublishingProofs!PublishingAssumption,
         VersionsProofs!PublishingAssumption, VersionsProofs!Alone

\* The one that moves is the one the invariant is of.
LEMMA PublishingMoves ==
    ASSUME [WorkNext]_workVars
    PROVE  /\ component' = component
           /\ component = "versions" => [VersionsProofs!Next]_VersionsProofs!vars
           /\ component # "versions" => [PublishingProofs!Next]_PublishingProofs!vars
  <1>1. component' = component
    BY DEF WorkNext, workVars
  <1>2. ASSUME component = "versions" PROVE [Versions!Next]_publishingVars
    BY <1>2 DEF WorkNext, workVars
  <1>3. ASSUME component # "versions" PROVE [Publishing!Next]_publishingVars
    BY <1>3 DEF WorkNext, workVars
  <1> QED
    BY <1>1, <1>2, <1>3, PublishingSteps, VersionsSteps

LEMMA PublishingInvariance == WorkSpec => []PublishingInv
  <1>1. WorkInit => PublishingInv
    <2> SUFFICES ASSUME WorkInit PROVE PublishingInv
      OBVIOUS
    <2>1. CASE component = "versions"
      <3>1. VersionsProofs!Init
        BY <2>1, VersionsSteps DEF WorkInit
      <3> QED
        BY <2>1, <3>1, PublishingAssumed, VersionsProofs!HoldsInitially DEF PublishingInv
    <2>2. CASE component # "versions"
      <3>1. PublishingProofs!Init
        BY <2>2, PublishingSteps DEF WorkInit
      <3> QED
        BY <2>2, <3>1, PublishingAssumed, PublishingProofs!Initially DEF PublishingInv
    <2> QED
      BY <2>1, <2>2
  <1>2. PublishingInv /\ [WorkNext]_workVars => PublishingInv'
    <2> SUFFICES ASSUME PublishingInv, [WorkNext]_workVars PROVE PublishingInv'
      OBVIOUS
    <2>1. CASE component = "versions"
      <3>1. VersionsProofs!SInv'
        BY <2>1, PublishingAssumed, PublishingMoves, VersionsProofs!StepHolds DEF PublishingInv
      <3> QED
        BY <2>1, <3>1, PublishingMoves DEF PublishingInv
    <2>2. CASE component # "versions"
      <3>1. PublishingProofs!IInv'
        BY <2>2, PublishingAssumed, PublishingMoves, PublishingProofs!StepTypes DEF PublishingInv
      <3> QED
        BY <2>2, <3>1, PublishingMoves DEF PublishingInv
    <2> QED
      BY <2>1, <2>2
  <1> QED
    BY <1>1, <1>2, PTL DEF WorkSpec, workVars

(* Publication freezes the product selection, however saves overlap         *)
(* (saveWithProductLink).                                                   *)
THEOREM SelectionStays == WorkSpec => ProductLocked
  <1>1. PublishingInv /\ [WorkNext]_workVars
        => [component = "publishing" => Publishing!ProductKept]_publishingVars
    <2> SUFFICES ASSUME PublishingInv, [WorkNext]_workVars, component = "publishing",
                        publishingVars' # publishingVars
                 PROVE  Publishing!ProductKept
      OBVIOUS
    <2>1. PublishingProofs!IInv /\ [PublishingProofs!Next]_PublishingProofs!vars
      BY PublishingMoves DEF PublishingInv
    <2>2. [PublishingProofs!ProductKept]_PublishingProofs!vars
      BY <2>1, PublishingProofs!StepKeepsProduct
    <2>3. PublishingProofs!ProductKept
      BY <2>2 DEF publishingVars, PublishingProofs!vars
    <2> QED
      BY <2>3 DEF Publishing!ProductKept, PublishingProofs!ProductKept, Publishing!Published,
                  PublishingProofs!Published
  <1> QED
    BY <1>1, PublishingInvariance, PTL DEF WorkSpec, workVars, ProductLocked

(* A save that completes leaves the version and the listing as the campaign *)
(* is, whatever earlier ones left half-done (update, syncFromCampaign).     *)
THEOREM SavesRepair == WorkSpec => SavedIsPublished
  <1>1. PublishingInv /\ [WorkNext]_workVars
        => [component = "versions" => Versions!SaveAgrees]_publishingVars
    <2> SUFFICES ASSUME PublishingInv, [WorkNext]_workVars, component = "versions",
                        publishingVars' # publishingVars
                 PROVE  Versions!SaveAgrees
      OBVIOUS
    <2>1. VersionsProofs!SInv /\ [VersionsProofs!Next]_VersionsProofs!vars
      BY PublishingMoves DEF PublishingInv
    <2>2. [VersionsProofs!SaveAgrees]_VersionsProofs!vars
      BY <2>1, VersionsProofs!StepAgrees
    <2>3. VersionsProofs!SaveAgrees
      BY <2>2 DEF publishingVars, VersionsProofs!vars
    <2>4. \A c : Versions!SyncListing(c) <=> VersionsProofs!SyncListing(c)
      BY
         DEF Versions!SyncListing, VersionsProofs!SyncListing, Versions!At, VersionsProofs!At,
             Versions!Ends,
             VersionsProofs!Ends, Versions!NoCall, VersionsProofs!NoCall, Versions!NoSave, VersionsProofs!NoSave,
             Versions!NoListing, VersionsProofs!NoListing, Versions!Published, VersionsProofs!Published
    <2>5. Versions!Agrees' <=> VersionsProofs!Agrees'
      BY DEF Versions!Agrees, VersionsProofs!Agrees
    <2> QED
      BY <2>3, <2>4, <2>5 DEF Versions!SaveAgrees, VersionsProofs!SaveAgrees, Versions!Published,
                  VersionsProofs!Published
  <1> QED
    BY <1>1, PublishingInvariance, PTL DEF WorkSpec, workVars, SavedIsPublished

-----------------------------------------------------------------------------
(* The types of every component: each part follows from that part's own     *)
(* invariant.                                                               *)

LEMMA PayoutRuns == WorkSpec => Spec
  <1>1. WorkInit => Init
    BY DEF WorkInit
  <1>2. [WorkNext]_workVars => [Next]_vars
    BY DEF WorkNext, workVars
  <1> QED
    BY <1>1, <1>2, PTL DEF WorkSpec, workVars, Spec

LEMMA PublishingTyped ==
    PublishingInv => IF component = "versions" THEN Versions!TypeOK ELSE Publishing!TypeOK
  <1>1. VersionsProofs!TypeOK => Versions!TypeOK
    BY DEF VersionsProofs!TypeOK, Versions!TypeOK, VersionsProofs!Statuses, Versions!Statuses,
           VersionsProofs!Selection, Versions!Selection, VersionsProofs!Save, Versions!Save
  <1>2. PublishingProofs!TypeOK => Publishing!TypeOK
    BY DEF PublishingProofs!TypeOK, Publishing!TypeOK, PublishingProofs!Statuses, Publishing!Statuses,
           PublishingProofs!Selection, Publishing!Selection, PublishingProofs!Save, Publishing!Save
  <1>3. VersionsProofs!SInv => VersionsProofs!TypeOK
    BY VersionsProofs!Typed DEF VersionsProofs!SInv
  <1> QED
    BY <1>1, <1>2, <1>3, PublishingProofs!Typed DEF PublishingInv

LEMMA CrmRowsTyped == CrmInv => IF component = "contacts" THEN Contacts!TypeOK ELSE Pipeline!TypeOK
  <1>1. ASSUME ContactsInv PROVE Contacts!TypeOK
    <2>1. 1 .. Len(deals) = {} /\ 1 .. Len(jobs) = {} /\ 1 .. Len(invoices) = {}
      BY <1>1 DEF ContactsInv
    <2>2. \A c \in OneCall : DOMAIN crm[c] = DOMAIN Contacts!NoCall
      BY <1>1 DEF ContactsInv, CrmLocals, Contacts!NoCall
    <2> QED
      BY <1>1, <2>1, <2>2 DEF ContactsInv, Contacts!TypeOK
  <1>2. ASSUME PipelineInv PROVE Pipeline!TypeOK
    <2>1. PipelineRows(deals, jobs, invoices) /\ people = [p \in {} |-> "none"]
      BY <1>2 DEF PipelineInv
    <2>2. \A c \in OneCall : DOMAIN crm[c] = DOMAIN Pipeline!NoCall
      BY <1>2 DEF PipelineInv, CrmLocals, Pipeline!NoCall
    <2>3. \A d \in 1 .. Len(deals) : deals[d] \in DealRow
      BY <2>1, ElementOfSeq DEF PipelineRows
    <2>4. \A j \in 1 .. Len(jobs) : jobs[j] \in JobRow
      BY <2>1, ElementOfSeq DEF PipelineRows
    <2>5. \A i \in 1 .. Len(invoices) : invoices[i] \in InvoiceRow /\ i \in 1 .. MaxEntries
      <3> SUFFICES ASSUME NEW i \in 1 .. Len(invoices) PROVE invoices[i] \in InvoiceRow /\ i \in 1 .. MaxEntries
        OBVIOUS
      <3>1. invoices \in Seq(InvoiceRow) /\ Len(invoices) <= MaxEntries /\ Len(invoices) \in Nat
        BY <2>1, LenProperties DEF PipelineRows
      <3>2. MaxEntries \in Nat
        BY CrmAssumption DEF Pipeline!CrmAssumption
      <3> QED
        BY <3>1, <3>2, ElementOfSeq
    <2>6. people \in [{} -> {"none", "other", "primary"}]
      BY <2>1
    <2>7. \A d \in 1 .. Len(deals) : deals[d].stage \in Pipeline!Stages /\ deals[d].listing \in Listings \cup {Unlisted}
      BY <2>3 DEF DealRow
    <2>8. \A j \in 1 .. Len(jobs) :
              /\ jobs[j].deal \in 1 .. Len(deals) /\ jobs[j].won \in BOOLEAN
              /\ jobs[j].payment \in Pipeline!Statuses /\ jobs[j].by \in 0 .. Len(invoices)
      BY <2>1, <2>4 DEF PipelineRows, JobRefers, JobRow
    <2>9. \A i \in 1 .. Len(invoices) :
              /\ invoices[i].job \in 1 .. Len(jobs) /\ invoices[i].status \in Pipeline!Statuses
              /\ invoices[i].number \in 1 .. MaxEntries
      BY <2>1, <2>5 DEF PipelineRows, InvoiceRefers, InvoiceRow
    <2> QED
      BY <2>2, <2>6, <2>7, <2>8, <2>9 DEF Pipeline!TypeOK
  <1> QED
    BY <1>1, <1>2 DEF CrmInv

(* The variables of every component have their types, whatever overlaps,    *)
(* fails or repeats in it.                                                  *)
THEOREM WorkTyped == WorkSpec => []WorkTypeOK
  <1>1. WorkSpec => []TypeOK
    BY PayoutRuns, TypeCorrect, PTL
  <1>2. WorkSpec => []Admission!TypeOK
    <2>1. AdmissionProofs!AdmissionAssumption
      BY AdmissionAssumption DEF Admission!AdmissionAssumption, AdmissionProofs!AdmissionAssumption
    <2>2. AdmissionProofs!Spec => []AdmissionProofs!TypeOK
      BY <2>1, AdmissionProofs!TypeCorrect
    <2>3. AdmissionProofs!TypeOK => Admission!TypeOK
      BY DEF Admission!TypeOK, AdmissionProofs!TypeOK, Admission!Steps, AdmissionProofs!Steps
    <2> QED
      BY <2>2, <2>3, AdmissionRuns, PTL
  <1>3. WorkSpec => []Review!TypeOK
    <2>1. ReviewProofs!ReviewAssumption
      BY ReviewAssumption DEF Review!ReviewAssumption, ReviewProofs!ReviewAssumption
    <2>2. ReviewProofs!Spec => []ReviewProofs!TypeOK
      BY <2>1, ReviewProofs!TypeCorrect
    <2>3. ReviewProofs!TypeOK => Review!TypeOK
      BY DEF Review!TypeOK, ReviewProofs!TypeOK, Review!Status, ReviewProofs!Status, Review!Decisions,
             ReviewProofs!Decisions, Review!Open, ReviewProofs!Open, Review!Locked, ReviewProofs!Locked
    <2> QED
      BY <2>2, <2>3, ReviewRuns, PTL
  <1>4. WorkSpec => []Tracking!TypeOK
    <2>1. TrackingProofs!TrackingAssumption
      BY TrackingAssumption DEF Tracking!TrackingAssumption, TrackingProofs!TrackingAssumption
    <2>2. TrackingProofs!Spec => []TrackingProofs!TypeOK
      BY <2>1, TrackingProofs!TypeCorrect
    <2>3. TrackingProofs!TypeOK => Tracking!TypeOK
      BY DEF Tracking!TypeOK, TrackingProofs!TypeOK
    <2> QED
      BY <2>2, <2>3, TrackingRuns, PTL
  <1>5. EarningsInv => Earnings!TypeOK
    <2> SUFFICES ASSUME EarningsInv PROVE Earnings!TypeOK
      OBVIOUS
    <2>1. Entry = [posted : Earnings!Posted, revision : 1 .. MaxRevision, accrued : Nat, adjustment : Int,
                   state : {"under_review", "held", "reversed"}]
      BY DEF Entry
    <2> QED
      BY <2>1 DEF EarningsInv, EarningsShape, Earnings!TypeOK
  <1>6. SocialInv => Social!TypeOK
    BY DEF SocialInv, SocialShape, SocialLocals, SocialSteps, Listed, Social!TypeOK
  <1> QED
    BY <1>1, <1>2, <1>3, <1>4, <1>5, <1>6, PublishingTyped, PublishingInvariance, EarningsInvariance,
       SocialInvariance, CrmRowsTyped, CrmInvariance, PTL DEF WorkTypeOK
=============================================================================
