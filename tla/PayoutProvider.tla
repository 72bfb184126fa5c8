--------------------------- MODULE PayoutProvider ---------------------------
(***************************************************************************)
(* Stripe as the payment of one creator uses it (shared/stripe,            *)
(* stripe.service.ts, and the events stripe-webhooks.service.ts handles).  *)
(* It is another service, so this module states only what that code relies *)
(* on: a request repeated under its idempotency key gives the answer of    *)
(* the first, an intent may settle later, and whatever happens to a charge *)
(* or a transfer is told by an event, in any order and more than once.     *)
(***************************************************************************)
EXTENDS Integers, FiniteSets

CONSTANTS
    MaxObjects      \* bound: intents, and transfers, ever made for the creator

ASSUME ProviderAssumption == MaxObjects \in Nat

VARIABLES
    intent,         \* the payment intents and what became of their charges
    transfer,       \* the transfers to the creator
    charged,        \* the intent kept under the charge's idempotency key, or 0
    moved,          \* the transfer kept under the transfer's idempotency key, or 0
    sent            \* the events sent so far

provider == <<intent, transfer, charged, moved, sent>>

Object == 1 .. MaxObjects

IntentEvent == {"payment_intent.succeeded", "payment_intent.payment_failed",
                "charge.refunded", "charge.dispute.created"}
TransferEvent == {"transfer.created", "transfer.reversed"}
Event == [type : IntentEvent \cup TransferEvent, object : Object]

IntentStatus == {"none", "declined", "processing", "succeeded", "failed", "refunded", "disputed"}
TransferStatus == {"none", "made", "reversed"}

ProviderType ==
    /\ intent \in [Object -> IntentStatus]
    /\ transfer \in [Object -> TransferStatus]
    /\ charged \in 0 .. MaxObjects
    /\ moved \in 0 .. MaxObjects
    /\ sent \subseteq Event

ProviderInit ==
    /\ intent = [i \in Object |-> "none"]
    /\ transfer = [i \in Object |-> "none"]
    /\ charged = 0
    /\ moved = 0
    /\ sent = {}

Taken(i) == intent[i] \in {"processing", "succeeded", "refunded", "disputed"}
Made(i) == transfer[i] # "none"

IntentEvents(i, status) ==
    CASE status = "succeeded" -> {[type |-> "payment_intent.succeeded", object |-> i]}
      [] status \in {"declined", "failed"} ->
            {[type |-> "payment_intent.payment_failed", object |-> i]}
      [] status = "refunded" -> {[type |-> "charge.refunded", object |-> i]}
      [] status = "disputed" -> {[type |-> "charge.dispute.created", object |-> i]}
      [] OTHER -> {}

\* A new intent, confirmed at once: taken, still processing, or declined.
CreateIntent(i, status) ==
    /\ intent[i] = "none"
    /\ status \in {"declined", "processing", "succeeded"}
    /\ intent' = [intent EXCEPT ![i] = status]
    /\ charged' = i
    /\ sent' = sent \cup IntentEvents(i, status)
    /\ UNCHANGED <<transfer, moved>>

CreateTransfer(i) ==
    /\ transfer[i] = "none"
    /\ transfer' = [transfer EXCEPT ![i] = "made"]
    /\ moved' = i
    /\ sent' = sent \cup {[type |-> "transfer.created", object |-> i]}
    /\ UNCHANGED <<intent, charged>>

\* A processing intent ends; a charge is refunded from the dashboard or disputed by the bank.
IntentSettles(i, status) ==
    /\ \/ intent[i] = "processing" /\ status \in {"succeeded", "failed"}
       \/ intent[i] = "succeeded" /\ status \in {"refunded", "disputed"}
    /\ intent' = [intent EXCEPT ![i] = status]
    /\ sent' = sent \cup IntentEvents(i, status)
    /\ UNCHANGED <<transfer, charged, moved>>

TransferReversed(i) ==
    /\ transfer[i] = "made"
    /\ transfer' = [transfer EXCEPT ![i] = "reversed"]
    /\ sent' = sent \cup {[type |-> "transfer.reversed", object |-> i]}
    /\ UNCHANGED <<intent, charged, moved>>
=============================================================================
