--------------------------- MODULE CreatorTracking ---------------------------
(***************************************************************************)
(* The links of the creators of one commission campaign, the grants made   *)
(* when a shopper follows one, and the installs credited to them           *)
(* (creator-tracking.service.ts).  Claiming and checking a grant keep row  *)
(* locks while Merchant is asked for the product, and meanwhile another    *)
(* shopper may claim and the brand may disconnect.                         *)
(***************************************************************************)
EXTENDS Naturals, Sequences, FiniteSets

CONSTANTS
    Calls,          \* concurrent requests
    Creators,       \* who accepted the campaign
    Shoppers, NoShopper,
    Legacy,         \* creators whose terms pay the install itself, not what follows it
    Conversions,    \* events that may follow an install
    MaxGrants       \* bound: grants ever made

TrackingAssumption ==
    NoShopper \notin Shoppers /\ Legacy \subseteq Creators /\ MaxGrants \in Nat /\ Creators # {}

VARIABLES
    installs,       \* whether the campaign pays for installs, not for sales of a product
    active,         \* whether the campaign is active and within its dates
    linked,         \* whether the Merchant link of its product is live
    links,          \* the creators who have a creator_tracking_link
    grants,         \* creator_click_grant, in the order of insertion
    receipts,       \* the receipts that were answered: a grant and who may use it
    touch,          \* creator_install_touchpoint of each shopper
    credits,        \* commission_install_event: shopper, event and creator
    call            \* the local variables and row locks of each request

vars == <<installs, active, linked, links, grants, receipts, touch, credits, call>>
tables == <<installs, active, linked, links, grants, receipts, touch, credits>>

NoTouch == [creator |-> CHOOSE k \in Creators : TRUE, bound |-> FALSE, expired |-> FALSE]
NoCall == [at |-> "idle", creator |-> NoTouch.creator, grant |-> 0, shopper |-> NoShopper,
           share |-> FALSE, update |-> FALSE]

Init ==
    /\ installs \in BOOLEAN /\ active = TRUE /\ linked = TRUE
    /\ links = {} /\ grants = <<>> /\ receipts = {}
    /\ touch = [s \in Shoppers |-> NoTouch]
    /\ credits = {}
    /\ call = [c \in Calls |-> NoCall]

At(c, step) == call[c].at = step
Ends(c) == call' = [call EXCEPT ![c] = NoCall]

\* context, for a new click and for one that was made.
Usable(k) == ~installs /\ k \in links /\ linked
Current(k) == Usable(k) /\ active

-----------------------------------------------------------------------------
(* Links and clicks.                                                        *)

\* issue, on request or upon acceptance; a repetition finds the same link.
Issue(k) ==
    /\ installs \/ (linked /\ active)
    /\ links' = links \cup {k}
    /\ UNCHANGED <<installs, active, linked, grants, receipts, touch, credits, call>>

\* click reads the link and asks Merchant before its transaction.
ReadLink(c, k) ==
    /\ At(c, "idle") /\ Current(k)
    /\ call' = [call EXCEPT ![c].at = "click", ![c].creator = k]
    /\ UNCHANGED tables

Unclaimed == NoShopper
NewGrant(k, s) == [creator |-> k, buyer |-> s, redeemable |-> TRUE, live |-> TRUE]

Click(c) ==
    LET k == call[c].creator IN
    /\ At(c, "click") /\ Len(grants) < MaxGrants
    /\ grants' = IF Current(k) THEN Append(grants, NewGrant(k, Unclaimed)) ELSE grants
    /\ Ends(c)
    /\ UNCHANGED <<installs, active, linked, links, receipts, touch, credits>>

\* openProduct does both for a shopper, with the link locked while Merchant is asked.
ShareLink(c, k, s) ==
    /\ At(c, "idle") /\ Current(k)
    /\ call' = [call EXCEPT ![c] = [NoCall EXCEPT !.at = "open", !.creator = k, !.shopper = s, !.share = TRUE]]
    /\ UNCHANGED tables

OpenProduct(c) ==
    /\ At(c, "open") /\ Len(grants) < MaxGrants
    /\ grants' = Append(grants, NewGrant(call[c].creator, call[c].shopper))
    /\ receipts' = receipts \cup {[grant |-> Len(grants'), buyer |-> call[c].shopper]}
    /\ Ends(c)
    /\ UNCHANGED <<installs, active, linked, links, touch, credits>>

-----------------------------------------------------------------------------
(* Claiming a grant, and checking a receipt at checkout.                    *)

MayClaim(g, s) ==
    /\ grants[g].live
    /\ IF grants[g].buyer = Unclaimed THEN grants[g].redeemable ELSE grants[g].buyer = s

Taken(c, g, s) ==
    /\ At(c, "idle") /\ MayClaim(g, s)
    /\ call' = [call EXCEPT ![c] = [NoCall EXCEPT !.at = "context", !.creator = grants[g].creator, !.grant = g,
                                                  !.shopper = s, !.update = TRUE]]
    /\ UNCHANGED tables

\* Faulty: the grant is read without a lock.
LockGrant_Unlocked(c, g, s) == Taken(c, g, s)

\* claim locks the grant, and waits for whoever locks or shares it.
LockGrant(c, g, s) ==
    /\ \A d \in Calls : call[d].grant # g
    /\ Taken(c, g, s)

\* Faulty: what context reads may change before the transaction ends.
ShareContext_Unlocked(c) ==
    /\ At(c, "context")
    /\ IF Usable(call[c].creator) THEN call' = [call EXCEPT ![c].at = "answer"] ELSE Ends(c)
    /\ UNCHANGED tables

\* context FOR SHARE, then Merchant is asked.
ShareContext(c) ==
    /\ At(c, "context")
    /\ IF Usable(call[c].creator) THEN call' = [call EXCEPT ![c].at = "answer", ![c].share = TRUE] ELSE Ends(c)
    /\ UNCHANGED tables

\* A grant that has a buyer is answered as it is: claim repeated, or validate.
Claim(c) ==
    LET g == call[c].grant IN
    /\ At(c, "answer")
    /\ grants' = [grants EXCEPT ![g].buyer = IF call[c].update THEN call[c].shopper ELSE @]
    /\ receipts' = receipts \cup {[grant |-> g, buyer |-> call[c].shopper]}
    /\ Ends(c)
    /\ UNCHANGED <<installs, active, linked, links, touch, credits>>

\* validate shares the buyer's own grant, also when it can no longer be redeemed.
Validate(c, g) ==
    /\ At(c, "idle") /\ grants[g].live /\ grants[g].buyer # Unclaimed
    /\ \A d \in Calls : ~(call[d].update /\ call[d].grant = g)
    /\ call' = [call EXCEPT ![c] = [NoCall EXCEPT !.at = "context", !.creator = grants[g].creator, !.grant = g,
                                                  !.shopper = grants[g].buyer]]
    /\ UNCHANGED tables

-----------------------------------------------------------------------------
(* Installs.  Each request is one transaction on unique keys.               *)

\* The credit of a shopper for an event is the first one written.
Credit(s, event, k) ==
    credits' = IF \E x \in credits : x.shopper = s /\ x.event = event THEN credits
               ELSE credits \cup {[shopper |-> s, event |-> event, creator |-> k]}

\* claimInstall: the first touchpoint of a shopper stays, also when it has expired.
ClaimInstall(k, s) ==
    /\ installs /\ k \in links /\ active
    /\ touch' = IF touch[s].bound THEN touch
                ELSE [touch EXCEPT ![s] = [creator |-> k, bound |-> TRUE, expired |-> FALSE]]
    /\ IF k \in Legacy THEN Credit(s, "install", k) ELSE UNCHANGED credits
    /\ UNCHANGED <<installs, active, linked, links, grants, receipts, call>>

\* recordConversion, for the creator of the touchpoint.
RecordConversion(s, event) ==
    /\ touch[s].bound /\ ~touch[s].expired
    /\ touch[s].creator \notin Legacy
    /\ Credit(s, event, touch[s].creator)
    /\ UNCHANGED <<installs, active, linked, links, grants, receipts, touch, call>>

-----------------------------------------------------------------------------

\* The brand disconnects: it waits for whoever shares the link.
Disconnect ==
    /\ linked /\ \A c \in Calls : ~call[c].share
    /\ linked' = FALSE
    /\ UNCHANGED <<installs, active, links, grants, receipts, touch, credits, call>>

\* The campaign ends by its date.
CampaignEnds ==
    /\ active /\ active' = FALSE
    /\ UNCHANGED <<installs, linked, links, grants, receipts, touch, credits, call>>

\* Fifteen minutes, and the window of the terms.
Expires(g) ==
    /\ \/ grants[g].redeemable /\ grants' = [grants EXCEPT ![g].redeemable = FALSE]
       \/ grants[g].live /\ ~grants[g].redeemable /\ grants' = [grants EXCEPT ![g].live = FALSE]
    /\ UNCHANGED <<installs, active, linked, links, receipts, touch, credits, call>>

TouchExpires(s) ==
    /\ touch[s].bound /\ ~touch[s].expired
    /\ touch' = [touch EXCEPT ![s].expired = TRUE]
    /\ UNCHANGED <<installs, active, linked, links, grants, receipts, credits, call>>

\* Merchant does not know the product, a statement throws, or the process dies.
CallStops(c) == ~At(c, "idle") /\ Ends(c) /\ UNCHANGED tables

Next ==
    \/ \E k \in Creators : Issue(k) \/ \E s \in Shoppers : ClaimInstall(k, s)
    \/ \E s \in Shoppers : TouchExpires(s) \/ \E event \in Conversions : RecordConversion(s, event)
    \/ \E c \in Calls :
        \/ \E k \in Creators : ReadLink(c, k) \/ \E s \in Shoppers : ShareLink(c, k, s)
        \/ Click(c) \/ OpenProduct(c)
        \/ \E g \in DOMAIN grants : Validate(c, g) \/ \E s \in Shoppers : LockGrant(c, g, s)
        \/ ShareContext(c) \/ Claim(c)
        \/ CallStops(c)
    \/ \E g \in DOMAIN grants : Expires(g)
    \/ Disconnect \/ CampaignEnds

Spec == Init /\ [][Next]_vars

-----------------------------------------------------------------------------

TypeOK ==
    /\ installs \in BOOLEAN /\ active \in BOOLEAN /\ linked \in BOOLEAN /\ links \subseteq Creators
    /\ grants \in Seq([creator : Creators, buyer : Shoppers \cup {NoShopper}, redeemable : BOOLEAN, live : BOOLEAN])
    /\ Len(grants) <= MaxGrants
    /\ receipts \subseteq [grant : 1 .. MaxGrants, buyer : Shoppers]
    /\ touch \in [Shoppers -> [creator : Creators, bound : BOOLEAN, expired : BOOLEAN]]
    /\ credits \subseteq [shopper : Shoppers, event : Conversions \cup {"install"}, creator : Creators]
    /\ call \in [Calls -> [at : {"idle", "click", "open", "context", "answer"}, creator : Creators,
                           grant : 0 .. MaxGrants, shopper : Shoppers \cup {NoShopper},
                           share : BOOLEAN, update : BOOLEAN]]

(* docs/CREATOR-ATTRIBUTION.md: a second shopper cannot redeem the same     *)
(* grant.  However claims of it overlap, all receipts of a grant are for    *)
(* one shopper, the one the grant names at checkout.                        *)
OneShopper ==
    \A x \in receipts : x.buyer = grants[x.grant].buyer

(* docs/CREATOR-ATTRIBUTION.md: unlinking the Merchant prevents further     *)
(* validation.  A receipt that is answered, while a brand disconnects, is   *)
(* answered on a link that is still there.                                  *)
AnsweredWhileLinked ==
    \A c \in Calls : At(c, "answer") \/ At(c, "open") => linked
=============================================================================
