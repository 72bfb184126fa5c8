--------------------------- MODULE FundingProvider ---------------------------
(***************************************************************************)
(* The payment provider (Stripe) as thesi-api/src/api/campaign-funding     *)
(* uses it: one campaign's deposit charge, the transfers made from it and  *)
(* the refunds made to it.  The provider is not part of the repository, so *)
(* this module states only what funding.gateway.ts relies on:              *)
(*   - a create call carries an idempotency key; while the provider        *)
(*     remembers the key, a second call with it creates nothing and        *)
(*     returns the answer the first call got;                              *)
(*   - a payment intent or a refund may stay pending and settle later; a   *)
(*     refund may also end up failed;                                      *)
(*   - the charge can be disputed, or refunded by somebody else.           *)
(* Money is counted in creator slots: one unit is the campaign's base      *)
(* payment, so the deposit of a campaign with n slots is n.                *)
(***************************************************************************)
EXTENDS Naturals, Sequences, FiniteSets

CONSTANTS
    Creators,       \* the creators who may be admitted to the campaign
    NoCreator,      \* the obligation_id of an operation that has none
    MaxObjects      \* bound: provider objects created for one operation

ASSUME CreatorsAssumption == IsFiniteSet(Creators) /\ NoCreator \notin Creators
ASSUME MaxObjectsAssumption == MaxObjects \in Nat

VARIABLES
    objects,    \* per operation, the payment intents, transfers or refunds created for it
    keys,       \* per operation, the idempotency keys the provider still remembers
    hold        \* what somebody else did to the charge

provider == <<objects, keys, hold>>

(* campaign_fund_operation rows are unique per kind and obligation, so the  *)
(* pair names the row; the provider sees it as metadata.fundingOperationId. *)
Deposit == <<"deposit", NoCreator>>
Unused == <<"refund_unused", NoCreator>>
Release(c) == <<"release", c>>
Cancel(c) == <<"refund_cancelled", c>>

Releases == {"release"} \X Creators
Refunds == {Unused} \cup ({"refund_cancelled"} \X Creators)
Op == {Deposit} \cup Releases \cup Refunds

ObjectStatus == {"pending", "succeeded", "failed"}
Object == [key : Nat, born : ObjectStatus, status : ObjectStatus]

(* The first answers the gateway handles: a deposit that needs the payer or *)
(* is captured at once, a transfer that is made, a refund in any state.     *)
BornStatus(o) ==
    CASE o = Deposit -> {"pending", "succeeded"}
      [] o \in Releases -> {"succeeded"}
      [] o \in Refunds -> ObjectStatus

\* An object holds or moves money unless it ended in failure.
Live(object) == object.status # "failed"
LiveObjects(o) == {i \in DOMAIN objects[o] : Live(objects[o][i])}
MadeWith(o, k) == {i \in DOMAIN objects[o] : objects[o][i].key = k}
LatestMadeWith(o, k) == {i \in MadeWith(o, k) : \A j \in MadeWith(o, k) : j <= i}

ProviderInit ==
    /\ objects = [o \in Op |-> << >>]
    /\ keys = [o \in Op |-> {}]
    /\ hold = "none"

\* A create call under a key the provider does not remember.
CreateObject(o, k, s) ==
    /\ k \notin keys[o]
    /\ Len(objects[o]) < MaxObjects
    /\ objects' = [objects EXCEPT ![o] = Append(@, [key |-> k, born |-> s, status |-> s])]
    /\ keys' = [keys EXCEPT ![o] = @ \cup {k}]
    /\ UNCHANGED hold

(* What a create call under a remembered key is answered: the stored first  *)
(* answer.  For a deposit that answer may be an error carrying the payment  *)
(* intent, which the gateway then retrieves, so both statuses are possible. *)
ReplayedStatus(o, i) ==
    {objects[o][i].born} \cup (IF o = Deposit THEN {objects[o][i].status} ELSE {})

\* A pending payment intent is captured; a pending refund succeeds or fails.
Settle(o, i, s) ==
    /\ i \in DOMAIN objects[o]
    /\ objects[o][i].status = "pending"
    /\ s \in BornStatus(o) \ {"pending"}
    /\ objects' = [objects EXCEPT ![o] = [@ EXCEPT ![i] = [objects[o][i] EXCEPT !.status = s]]]
    /\ UNCHANGED <<keys, hold>>

ForgetKey(o, k) ==
    /\ k \in keys[o]
    /\ keys' = [keys EXCEPT ![o] = @ \ {k}]
    /\ UNCHANGED <<objects, hold>>

\* The payer disputes the captured charge, or it is refunded outside this flow.
HoldCharge(h) ==
    /\ \E i \in DOMAIN objects[Deposit] : objects[Deposit][i].status = "succeeded"
    /\ hold = "none"
    /\ hold' = h
    /\ UNCHANGED <<objects, keys>>
=============================================================================
