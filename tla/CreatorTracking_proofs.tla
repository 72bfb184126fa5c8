----------------------- MODULE CreatorTracking_proofs -----------------------
(***************************************************************************)
(* Theorems about CreatorTracking for every number of concurrent requests, *)
(* of creators, of shoppers and of grants.                                 *)
(***************************************************************************)
EXTENDS CreatorTracking, SequenceTheorems, TLAPS

Grant == [creator : Creators, buyer : Shoppers \cup {NoShopper}, redeemable : BOOLEAN, live : BOOLEAN]

Locals == [at : {"idle", "click", "open", "context", "answer"}, creator : Creators,
           grant : 0 .. MaxGrants, shopper : Shoppers \cup {NoShopper}, share : BOOLEAN, update : BOOLEAN]

\* The types of everything but the grants, the receipts and the calls.
Columns ==
    /\ installs \in BOOLEAN /\ active \in BOOLEAN /\ linked \in BOOLEAN /\ links \subseteq Creators
    /\ touch \in [Shoppers -> [creator : Creators, bound : BOOLEAN, expired : BOOLEAN]]
    /\ credits \subseteq [shopper : Shoppers, event : Conversions \cup {"install"}, creator : Creators]

(* OneShopper is not inductive: a request about to answer with a shopper    *)
(* other than the one its grant has got meanwhile satisfies it and breaks   *)
(* it.  What prevents that is the row lock: whoever may write the buyer of  *)
(* a grant is alone with it, and everyone else only reads who it is.        *)

\* What a request knows of the grant it has locked or shared, and of the link.
Serving(my) ==
    /\ my.grant # 0 =>
        /\ my.at \in {"context", "answer"} /\ my.grant \in DOMAIN grants /\ my.shopper \in Shoppers
        /\ \/ grants[my.grant].buyer = my.shopper
           \/ my.update /\ grants[my.grant].buyer = NoShopper
    /\ my.at \in {"context", "answer"} => my.grant # 0
    /\ my.at = "open" => my.shopper \in Shoppers
    /\ my.at \in {"open", "answer"} => my.share

Served == \A c \in Calls : Serving(call[c])

Exclusive ==
    \A c, d \in Calls : call[c].update /\ call[c].grant # 0 /\ call[d].grant = call[c].grant => c = d

Backed == \A x \in receipts : x.grant \in DOMAIN grants /\ x.buyer = grants[x.grant].buyer

IInv ==
    /\ TypeOK
    /\ Served
    /\ Exclusive
    /\ Backed
    /\ AnsweredWhileLinked

-----------------------------------------------------------------------------
(* The types, in the words of SequenceTheorems.                             *)

LEMMA NoCallTyped ==
    ASSUME TrackingAssumption
    PROVE  NoCall \in Locals /\ NoTouch \in [creator : Creators, bound : BOOLEAN, expired : BOOLEAN]
  <1>1. NoTouch.creator \in Creators
    BY DEF TrackingAssumption, NoTouch
  <1>2. NoTouch \in [creator : Creators, bound : BOOLEAN, expired : BOOLEAN]
    BY <1>1 DEF NoTouch
  <1> QED
    BY <1>1, <1>2 DEF TrackingAssumption, NoCall, Locals

LEMMA IdleServes == Serving(NoCall) /\ NoCall.at = "idle" /\ NoCall.grant = 0 /\ ~NoCall.update
  BY DEF Serving, NoCall

LEMMA GrantsTyped ==
    ASSUME TypeOK
    PROVE  /\ grants \in Seq(Grant) /\ Len(grants) \in Nat
           /\ DOMAIN grants = 1 .. Len(grants)
           /\ \A g \in DOMAIN grants : grants[g] \in Grant
           /\ call \in [Calls -> Locals]
  <1>1. grants \in Seq(Grant) /\ call \in [Calls -> Locals]
    BY DEF TypeOK, Grant, Locals
  <1>2. DOMAIN grants = 1 .. Len(grants) /\ Len(grants) \in Nat
    BY <1>1, LenProperties
  <1>3. \A g \in 1 .. Len(grants) : grants[g] \in Grant
    BY <1>1, ElementOfSeq
  <1> QED
    BY <1>1, <1>2, <1>3

\* The other direction.
LEMMA Typed ==
    ASSUME Columns, grants \in Seq(Grant), Len(grants) <= MaxGrants,
           receipts \subseteq [grant : 1 .. MaxGrants, buyer : Shoppers], call \in [Calls -> Locals]
    PROVE  TypeOK
  BY DEF TypeOK, Columns, Grant, Locals

LEMMA Initially == TrackingAssumption /\ Init => IInv
  <1> SUFFICES ASSUME TrackingAssumption, Init PROVE IInv
    OBVIOUS
  <1>1. grants \in Seq(Grant) /\ Len(grants) = 0
    BY EmptySeq DEF Init
  <1>2. \A c \in Calls : call[c] = NoCall
    BY DEF Init
  <1>3. TypeOK
    BY <1>1, NoCallTyped DEF Init, TrackingAssumption, TypeOK, Grant, Locals
  <1>4. Served /\ Exclusive /\ AnsweredWhileLinked
    BY <1>2, IdleServes DEF Served, Exclusive, AnsweredWhileLinked, At
  <1>5. Backed
    BY DEF Init, Backed
  <1> QED
    BY <1>3, <1>4, <1>5 DEF IInv

-----------------------------------------------------------------------------
(* What most steps do.                                                      *)

\* Where the grants, the receipts and the requests stay as they are.
LEMMA Elsewhere ==
    ASSUME IInv, UNCHANGED <<grants, receipts, call>>, Columns', linked' = linked
    PROVE  IInv'
  <1>1. TypeOK'
    BY DEF IInv, TypeOK, Columns
  <1>2. Served' /\ Exclusive' /\ Backed'
    BY DEF IInv, Served, Serving, Exclusive, Backed
  <1>3. AnsweredWhileLinked'
    BY DEF IInv, AnsweredWhileLinked, At
  <1> QED
    BY <1>1, <1>2, <1>3 DEF IInv

\* A request moves, and nothing else does.
LEMMA CallMoves ==
    ASSUME IInv, NEW c \in Calls, NEW locals \in Locals, UNCHANGED tables,
           call' = [call EXCEPT ![c] = locals], Serving(locals),
           locals.at \in {"open", "answer"} => linked,
           \/ locals.grant = 0
           \/ locals.grant = call[c].grant /\ locals.update = call[c].update
           \/ \A d \in Calls \ {c} : call[d].grant = locals.grant => ~locals.update /\ ~call[d].update
    PROVE  IInv'
  <1>1. /\ call'[c] = locals /\ call' \in [Calls -> Locals]
        /\ \A d \in Calls \ {c} : call'[d] = call[d]
    BY GrantsTyped DEF IInv
  <1>2. TypeOK'
    BY <1>1 DEF IInv, TypeOK, tables, Locals
  <1>3. Served'
    BY <1>1 DEF IInv, Served, Serving, tables
  <1>4. Exclusive'
    BY <1>1 DEF IInv, Exclusive
  <1>5. Backed'
    BY DEF IInv, Backed, tables
  <1>6. AnsweredWhileLinked'
    BY <1>1 DEF IInv, AnsweredWhileLinked, At, tables
  <1> QED
    BY <1>2, <1>3, <1>4, <1>5, <1>6 DEF IInv

LEMMA EndsStep ==
    ASSUME IInv, TrackingAssumption, NEW c \in Calls, Ends(c), UNCHANGED tables
    PROVE  IInv'
  BY NoCallTyped, IdleServes, CallMoves DEF Ends

\* No grant changes its buyer, and none is lost: whoever serves one still does.
LEMMA BuyersKept ==
    ASSUME IInv, DOMAIN grants \subseteq DOMAIN grants',
           \A g \in DOMAIN grants : grants'[g].buyer = grants[g].buyer
    PROVE  /\ \A c \in Calls : Serving(call[c]) /\ (call'[c] = call[c] => Serving(call[c])')
           /\ \A x \in receipts : x.grant \in DOMAIN grants' /\ x.buyer = grants'[x.grant].buyer
  BY DEF IInv, Served, Serving, Backed

\* A request ends with a grant made, and perhaps a receipt of it.
LEMMA GrantMade ==
    ASSUME IInv, TrackingAssumption, NEW c \in Calls, Ends(c), NEW grant \in Grant, Len(grants) < MaxGrants,
           grants' = Append(grants, grant), UNCHANGED <<installs, active, linked, links, touch, credits>>,
           \/ receipts' = receipts
           \/ receipts' = receipts \cup {[grant |-> Len(grants'), buyer |-> grant.buyer]} /\ grant.buyer \in Shoppers
    PROVE  IInv'
  <1>1. /\ grants' \in Seq(Grant) /\ Len(grants') = Len(grants) + 1 /\ Len(grants) \in Nat
        /\ DOMAIN grants' = 1 .. Len(grants) + 1 /\ DOMAIN grants = 1 .. Len(grants)
        /\ \A g \in DOMAIN grants : grants'[g] = grants[g]
        /\ grants'[Len(grants) + 1] = grant
    <2>1. grants \in Seq(Grant) /\ DOMAIN grants = 1 .. Len(grants) /\ Len(grants) \in Nat
      BY GrantsTyped DEF IInv
    <2>2. /\ grants' \in Seq(Grant) /\ Len(grants') = Len(grants) + 1 /\ grants'[Len(grants) + 1] = grant
          /\ \A g \in 1 .. Len(grants) : grants'[g] = grants[g]
      BY <2>1, AppendProperties
    <2> QED
      BY <2>1, <2>2, LenProperties
  <1>2. /\ call'[c] = NoCall /\ call' \in [Calls -> Locals]
        /\ \A d \in Calls \ {c} : call'[d] = call[d]
    BY GrantsTyped, NoCallTyped DEF IInv, Ends
  <1>3. /\ \A d \in Calls \ {c} : Serving(call[d])'
        /\ \A x \in receipts : x.grant \in DOMAIN grants' /\ x.buyer = grants'[x.grant].buyer
    BY <1>1, <1>2, BuyersKept
  <1>4. TypeOK'
    <2>1. Len(grants') \in 1 .. MaxGrants
      BY <1>1 DEF TrackingAssumption
    <2>2. receipts' \subseteq [grant : 1 .. MaxGrants, buyer : Shoppers]
      BY <2>1 DEF IInv, TypeOK
    <2>3. Columns'
      BY DEF IInv, TypeOK, Columns
    <2> QED
      BY <1>1, <1>2, <2>1, <2>2, <2>3 DEF TypeOK, Columns, Grant, Locals
  <1>5. Served'
    BY <1>2, <1>3, IdleServes DEF Served, Serving, NoCall
  <1>6. Exclusive'
    BY <1>2, IdleServes DEF IInv, Exclusive
  <1>7. Backed'
    BY <1>1, <1>3 DEF Backed
  <1>8. AnsweredWhileLinked'
    BY <1>2, IdleServes DEF IInv, AnsweredWhileLinked, At
  <1> QED
    BY <1>4, <1>5, <1>6, <1>7, <1>8 DEF IInv

-----------------------------------------------------------------------------
(* Links and clicks.                                                        *)

LEMMA ReadLinkStep ==
    ASSUME IInv, TrackingAssumption, NEW c \in Calls, NEW k \in Creators, ReadLink(c, k)
    PROVE  IInv'
  <1> DEFINE locals == [call[c] EXCEPT !.at = "click", !.creator = k]
  <1>1. call[c] \in Locals /\ call[c].grant = 0
    BY GrantsTyped DEF IInv, Served, Serving, ReadLink, At
  <1>2. locals \in Locals /\ locals.at = "click" /\ locals.grant = 0
    BY <1>1 DEF Locals
  <1>3. call' = [call EXCEPT ![c] = locals] /\ UNCHANGED tables
    BY DEF ReadLink
  <1> HIDE DEF locals
  <1>4. Serving(locals)
    BY <1>2 DEF Serving
  <1> QED
    BY <1>2, <1>3, <1>4, CallMoves

LEMMA ClickStep ==
    ASSUME IInv, TrackingAssumption, NEW c \in Calls, Click(c)
    PROVE  IInv'
  <1>1. CASE grants' = grants
    BY <1>1, EndsStep DEF Click, tables
  <1>2. CASE grants' = Append(grants, NewGrant(call[c].creator, Unclaimed))
    <2>1. NewGrant(call[c].creator, Unclaimed) \in Grant
      BY GrantsTyped DEF IInv, Locals, NewGrant, Unclaimed, Grant
    <2> QED
      BY <1>2, <2>1, GrantMade DEF Click
  <1> QED
    BY <1>1, <1>2 DEF Click

\* The product is opened on a link that is locked.
LEMMA ShareLinkStep ==
    ASSUME IInv, TrackingAssumption, NEW c \in Calls, NEW k \in Creators, NEW s \in Shoppers, ShareLink(c, k, s)
    PROVE  IInv'
  <1> DEFINE locals == [NoCall EXCEPT !.at = "open", !.creator = k, !.shopper = s, !.share = TRUE]
  <1>1. NoCall \in Locals /\ NoCall.grant = 0 /\ linked
    BY NoCallTyped, IdleServes DEF ShareLink, Current, Usable
  <1>2. locals \in Locals /\ locals.at = "open" /\ locals.grant = 0 /\ locals.shopper = s /\ locals.share
    BY <1>1 DEF Locals
  <1>3. call' = [call EXCEPT ![c] = locals] /\ UNCHANGED tables
    BY DEF ShareLink
  <1> HIDE DEF locals
  <1>4. Serving(locals)
    BY <1>2 DEF Serving
  <1> QED
    BY <1>1, <1>2, <1>3, <1>4, CallMoves

LEMMA OpenProductStep ==
    ASSUME IInv, TrackingAssumption, NEW c \in Calls, OpenProduct(c)
    PROVE  IInv'
  <1> DEFINE grant == NewGrant(call[c].creator, call[c].shopper)
  <1>1. call[c] \in Locals /\ call[c].shopper \in Shoppers
    BY GrantsTyped DEF IInv, Served, Serving, OpenProduct, At
  <1>2. grant \in Grant /\ grant.buyer = call[c].shopper
    BY <1>1 DEF Locals, NewGrant, Grant
  <1>3. /\ grants' = Append(grants, grant) /\ Len(grants) < MaxGrants /\ Ends(c)
        /\ receipts' = receipts \cup {[grant |-> Len(grants'), buyer |-> call[c].shopper]}
        /\ UNCHANGED <<installs, active, linked, links, touch, credits>>
    BY DEF OpenProduct
  <1> HIDE DEF grant
  <1> QED
    BY <1>1, <1>2, <1>3, GrantMade

-----------------------------------------------------------------------------
(* Claiming a grant, and checking a receipt.                                *)

\* Whoever may claim the grant is alone with it.
LEMMA LockGrantStep ==
    ASSUME IInv, TrackingAssumption, NEW c \in Calls, NEW g \in DOMAIN grants, NEW s \in Shoppers,
           LockGrant(c, g, s)
    PROVE  IInv'
  <1> DEFINE locals == [NoCall EXCEPT !.at = "context", !.creator = grants[g].creator, !.grant = g,
                                      !.shopper = s, !.update = TRUE]
  <1>1. NoCall \in Locals /\ grants[g] \in Grant /\ g \in 1 .. Len(grants) /\ Len(grants) \in 0 .. MaxGrants
    BY NoCallTyped, GrantsTyped DEF IInv, TypeOK, TrackingAssumption
  <1>2. g \in 0 .. MaxGrants /\ g # 0 /\ grants[g].creator \in Creators
    BY <1>1 DEF Grant, TrackingAssumption
  <1>3. /\ locals \in Locals /\ locals.at = "context" /\ locals.grant = g /\ locals.shopper = s /\ locals.update
    BY <1>1, <1>2 DEF Locals
  <1>4. /\ call' = [call EXCEPT ![c] = locals] /\ UNCHANGED tables /\ MayClaim(g, s)
        /\ \A d \in Calls : call[d].grant # g
    BY DEF LockGrant, Taken
  <1> HIDE DEF locals
  <1>5. grants[g].buyer = NoShopper \/ grants[g].buyer = s
    BY <1>4, Zenon DEF MayClaim, Unclaimed
  <1>6. Serving(locals)
    BY <1>2, <1>3, <1>5 DEF Serving
  <1> QED
    BY <1>3, <1>4, <1>6, CallMoves

\* Whoever may only read it does so where no one may claim it.
LEMMA ValidateStep ==
    ASSUME IInv, TrackingAssumption, NEW c \in Calls, NEW g \in DOMAIN grants, Validate(c, g)
    PROVE  IInv'
  <1> DEFINE locals == [NoCall EXCEPT !.at = "context", !.creator = grants[g].creator, !.grant = g,
                                      !.shopper = grants[g].buyer]
  <1>1. NoCall \in Locals /\ grants[g] \in Grant /\ g \in 1 .. Len(grants) /\ Len(grants) \in 0 .. MaxGrants
    BY NoCallTyped, GrantsTyped DEF IInv, TypeOK, TrackingAssumption
  <1>2. /\ g \in 0 .. MaxGrants /\ g # 0
        /\ grants[g].creator \in Creators /\ grants[g].buyer \in Shoppers \cup {NoShopper}
    BY <1>1 DEF Grant, TrackingAssumption
  <1>3. /\ locals \in Locals /\ locals.at = "context" /\ locals.grant = g
        /\ locals.shopper = grants[g].buyer /\ locals.update = NoCall.update
    BY <1>1, <1>2 DEF Locals
  <1>4. /\ call' = [call EXCEPT ![c] = locals] /\ UNCHANGED tables /\ grants[g].buyer # NoShopper
        /\ \A d \in Calls : ~(call[d].update /\ call[d].grant = g)
    BY DEF Validate, Unclaimed
  <1> HIDE DEF locals
  <1>5. Serving(locals)
    BY <1>2, <1>3, <1>4 DEF Serving
  <1> QED
    BY <1>3, <1>4, <1>5, IdleServes, CallMoves

\* The link is shared before the request answers.
LEMMA ShareContextStep ==
    ASSUME IInv, TrackingAssumption, NEW c \in Calls, ShareContext(c)
    PROVE  IInv'
  <1> DEFINE locals == [call[c] EXCEPT !.at = "answer", !.share = TRUE]
  <1>1. UNCHANGED tables /\ call[c].at = "context" /\ call[c] \in Locals /\ Serving(call[c])
    BY GrantsTyped DEF IInv, Served, ShareContext, At
  <1>2. CASE Ends(c)
    BY <1>1, <1>2, EndsStep
  <1>3. CASE Usable(call[c].creator) /\ call' = [call EXCEPT ![c].at = "answer", ![c].share = TRUE]
    <2>1. /\ locals \in Locals /\ locals.at = "answer" /\ locals.share
          /\ locals.grant = call[c].grant /\ locals.update = call[c].update /\ locals.shopper = call[c].shopper
      BY <1>1 DEF Locals
    <2>2. call' = [call EXCEPT ![c] = locals] /\ linked
      BY <1>3 DEF Usable
    <2> HIDE DEF locals
    <2>3. Serving(locals)
      BY <1>1, <2>1 DEF Serving
    <2> QED
      BY <1>1, <2>1, <2>2, <2>3, CallMoves
  <1> QED
    BY <1>2, <1>3 DEF ShareContext

\* The buyer that is written is new, or the one that was there.
LEMMA ClaimStep ==
    ASSUME IInv, TrackingAssumption, NEW c \in Calls, Claim(c)
    PROVE  IInv'
  <1> DEFINE g == call[c].grant
             s == call[c].shopper
             buyer == IF call[c].update THEN s ELSE grants[g].buyer
             grant == [grants[g] EXCEPT !.buyer = buyer]
  <1>1. /\ call[c] \in Locals /\ g \in DOMAIN grants /\ g # 0 /\ s \in Shoppers
        /\ grants[g].buyer = s \/ (call[c].update /\ grants[g].buyer = NoShopper)
    BY GrantsTyped DEF IInv, Served, Serving, Claim, At
  <1>2. /\ grants' = [grants EXCEPT ![g] = grant] /\ call' = [call EXCEPT ![c] = NoCall]
        /\ receipts' = receipts \cup {[grant |-> g, buyer |-> s]}
        /\ UNCHANGED <<installs, active, linked, links, touch, credits>>
    BY DEF Claim, Ends
  <1>3. buyer = s /\ grants[g] \in Grant
    BY <1>1, GrantsTyped DEF IInv
  <1>4. grant \in Grant /\ grant.buyer = s
    BY <1>1, <1>3 DEF Grant
  <1> HIDE DEF g, s, buyer, grant
  <1>5. /\ grants' \in Seq(Grant) /\ Len(grants') = Len(grants) /\ DOMAIN grants' = DOMAIN grants
        /\ grants'[g] = grant /\ \A h \in DOMAIN grants \ {g} : grants'[h] = grants[h]
    <2>1. grants \in Seq(Grant) /\ g \in 1 .. Len(grants)
      BY <1>1, GrantsTyped DEF IInv
    <2>2. grants' \in Seq(Grant) /\ Len(grants') = Len(grants)
      BY <1>2, <1>4, <2>1, ExceptSeq
    <2> QED
      BY <1>1, <1>2, <2>2
  <1>6. /\ call'[c] = NoCall /\ call' \in [Calls -> Locals]
        /\ \A d \in Calls \ {c} : call'[d] = call[d]
    BY <1>2, GrantsTyped, NoCallTyped DEF IInv
  <1>7. TypeOK'
    <2>1. g \in 1 .. MaxGrants /\ Len(grants) <= MaxGrants
      BY <1>1, GrantsTyped DEF IInv, TypeOK, TrackingAssumption
    <2>2. receipts' \subseteq [grant : 1 .. MaxGrants, buyer : Shoppers]
      BY <1>1, <1>2, <2>1 DEF IInv, TypeOK
    <2>3. Columns'
      BY <1>2 DEF IInv, TypeOK, Columns
    <2> QED
      BY <1>5, <1>6, <2>1, <2>2, <2>3 DEF TypeOK, Columns, Grant, Locals
  <1>8. NoShopper \notin Shoppers
    BY DEF TrackingAssumption
  <1>9. Served'
    <2>1. ASSUME NEW d \in Calls \ {c} PROVE Serving(call[d])'
      <3>1. Serving(call[d]) /\ call'[d] = call[d]
        BY <1>6 DEF IInv, Served
      <3>2. call[d].grant = g => grants[g].buyer = s
        BY <1>1 DEF IInv, Exclusive, g
      <3>3. \A h \in DOMAIN grants : grants'[h].buyer = IF h = g THEN s ELSE grants[h].buyer
        BY <1>4, <1>5
      <3>4. call[d].grant # 0 => grants'[call[d].grant].buyer = grants[call[d].grant].buyer
        BY <3>1, <3>2, <3>3 DEF Serving
      <3> QED
        BY <1>5, <3>1, <3>4 DEF Serving
    <2>2. Serving(call[c])'
      BY <1>6 DEF Serving, NoCall
    <2> QED
      BY <2>1, <2>2 DEF Served
  <1>10. Exclusive'
    BY <1>6, IdleServes DEF IInv, Exclusive
  <1>11. Backed'
    <2>1. \A x \in receipts : x.grant = g => x.buyer = s
      BY <1>1, <1>8 DEF IInv, TypeOK, Backed
    <2> QED
      BY <1>1, <1>2, <1>4, <1>5, <2>1 DEF IInv, Backed
  <1>12. AnsweredWhileLinked'
    BY <1>2, <1>6, IdleServes DEF IInv, AnsweredWhileLinked, At
  <1> QED
    BY <1>7, <1>9, <1>10, <1>11, <1>12 DEF IInv

-----------------------------------------------------------------------------
(* Installs, the brand, and time.                                           *)

LEMMA IssueStep ==
    ASSUME IInv, NEW k \in Creators, Issue(k)
    PROVE  IInv'
  BY Elsewhere DEF Issue, Columns, IInv, TypeOK

\* A credit is typed like those there are.
LEMMA Credited ==
    ASSUME IInv, NEW s \in Shoppers, NEW event \in Conversions \cup {"install"}, NEW k \in Creators,
           Credit(s, event, k)
    PROVE  credits' \subseteq [shopper : Shoppers, event : Conversions \cup {"install"}, creator : Creators]
  BY DEF IInv, TypeOK, Credit

LEMMA ClaimInstallStep ==
    ASSUME IInv, NEW k \in Creators, NEW s \in Shoppers, ClaimInstall(k, s)
    PROVE  IInv'
  <1>1. credits' \subseteq [shopper : Shoppers, event : Conversions \cup {"install"}, creator : Creators]
    BY Credited DEF ClaimInstall, IInv, TypeOK
  <1>2. touch' \in [Shoppers -> [creator : Creators, bound : BOOLEAN, expired : BOOLEAN]]
    BY DEF ClaimInstall, IInv, TypeOK
  <1> QED
    BY <1>1, <1>2, Elsewhere DEF ClaimInstall, Columns, IInv, TypeOK

LEMMA RecordConversionStep ==
    ASSUME IInv, NEW s \in Shoppers, NEW event \in Conversions, RecordConversion(s, event)
    PROVE  IInv'
  <1>1. touch[s].creator \in Creators
    BY DEF IInv, TypeOK
  <1>2. credits' \subseteq [shopper : Shoppers, event : Conversions \cup {"install"}, creator : Creators]
    BY <1>1, Credited DEF RecordConversion
  <1> QED
    BY <1>2, Elsewhere DEF RecordConversion, Columns, IInv, TypeOK

LEMMA TouchExpiresStep ==
    ASSUME IInv, NEW s \in Shoppers, TouchExpires(s)
    PROVE  IInv'
  <1>1. touch' \in [Shoppers -> [creator : Creators, bound : BOOLEAN, expired : BOOLEAN]]
    BY DEF TouchExpires, IInv, TypeOK
  <1> QED
    BY <1>1, Elsewhere DEF TouchExpires, Columns, IInv, TypeOK

LEMMA CampaignEndsStep ==
    ASSUME IInv, CampaignEnds
    PROVE  IInv'
  BY Elsewhere DEF CampaignEnds, Columns, IInv, TypeOK

\* Whoever is about to answer shares the link, and the brand waits for it.
LEMMA DisconnectStep ==
    ASSUME IInv, Disconnect
    PROVE  IInv'
  <1>1. TypeOK'
    BY DEF IInv, TypeOK, Disconnect
  <1>2. Served' /\ Exclusive' /\ Backed'
    BY DEF IInv, Served, Serving, Exclusive, Backed, Disconnect
  <1>3. AnsweredWhileLinked'
    BY DEF IInv, Served, Serving, AnsweredWhileLinked, At, Disconnect
  <1> QED
    BY <1>1, <1>2, <1>3 DEF IInv

LEMMA ExpiresStep ==
    ASSUME IInv, TrackingAssumption, NEW g \in DOMAIN grants, Expires(g)
    PROVE  IInv'
  <1>1. PICK grant \in Grant : grants' = [grants EXCEPT ![g] = grant] /\ grant.buyer = grants[g].buyer
    <2>1. grants[g] \in Grant
      BY GrantsTyped DEF IInv
    <2>2. /\ [grants[g] EXCEPT !.redeemable = FALSE] \in Grant
          /\ [grants[g] EXCEPT !.live = FALSE] \in Grant
          /\ [grants[g] EXCEPT !.redeemable = FALSE].buyer = grants[g].buyer
          /\ [grants[g] EXCEPT !.live = FALSE].buyer = grants[g].buyer
      BY <2>1 DEF Grant
    <2> QED
      BY <2>2 DEF Expires
  <1>2. UNCHANGED <<installs, active, linked, links, receipts, touch, credits, call>>
    BY DEF Expires
  <1>3. /\ grants' \in Seq(Grant) /\ Len(grants') = Len(grants) /\ DOMAIN grants' = DOMAIN grants
        /\ \A h \in DOMAIN grants : grants'[h].buyer = grants[h].buyer
    <2>1. grants \in Seq(Grant) /\ g \in 1 .. Len(grants)
      BY GrantsTyped DEF IInv
    <2>2. grants' \in Seq(Grant) /\ Len(grants') = Len(grants)
      BY <1>1, <2>1, ExceptSeq
    <2> QED
      BY <1>1, <2>2
  <1>4. TypeOK'
    BY <1>2, <1>3 DEF IInv, TypeOK, Grant
  <1>5. Served' /\ Backed'
    BY <1>2, <1>3, BuyersKept DEF Served, Backed
  <1>6. Exclusive' /\ AnsweredWhileLinked'
    BY <1>2 DEF IInv, Exclusive, AnsweredWhileLinked, At
  <1> QED
    BY <1>4, <1>5, <1>6 DEF IInv

-----------------------------------------------------------------------------
(* The theorems.                                                            *)

\* No step disturbs the invariant.
LEMMA Preserved == TrackingAssumption /\ IInv /\ [Next]_vars => IInv'
  <1> SUFFICES ASSUME TrackingAssumption, IInv, [Next]_vars PROVE IInv'
    OBVIOUS
  <1>1. CASE UNCHANGED vars
    BY <1>1, Elsewhere DEF vars, Columns, IInv, TypeOK
  <1>2. ASSUME NEW k \in Creators, Issue(k) \/ \E s \in Shoppers : ClaimInstall(k, s) PROVE IInv'
    BY <1>2, IssueStep, ClaimInstallStep
  <1>3. ASSUME NEW s \in Shoppers, TouchExpires(s) \/ \E event \in Conversions : RecordConversion(s, event)
        PROVE  IInv'
    BY <1>3, TouchExpiresStep, RecordConversionStep
  <1>4. ASSUME NEW c \in Calls,
               \E k \in Creators : ReadLink(c, k) \/ \E s \in Shoppers : ShareLink(c, k, s)
        PROVE  IInv'
    BY <1>4, ReadLinkStep, ShareLinkStep
  <1>5. ASSUME NEW c \in Calls,
               \E g \in DOMAIN grants : Validate(c, g) \/ \E s \in Shoppers : LockGrant(c, g, s)
        PROVE  IInv'
    BY <1>5, ValidateStep, LockGrantStep
  <1>6. ASSUME NEW c \in Calls, Click(c) \/ OpenProduct(c) \/ ShareContext(c) \/ Claim(c) \/ CallStops(c)
        PROVE  IInv'
    BY <1>6, ClickStep, OpenProductStep, ShareContextStep, ClaimStep, EndsStep DEF CallStops
  <1>7. ASSUME NEW g \in DOMAIN grants, Expires(g) PROVE IInv'
    BY <1>7, ExpiresStep
  <1>8. CASE Disconnect \/ CampaignEnds
    BY <1>8, DisconnectStep, CampaignEndsStep
  <1> QED
    BY <1>1, <1>2, <1>3, <1>4, <1>5, <1>6, <1>7, <1>8 DEF Next

LEMMA Invariant == TrackingAssumption => (Spec => []IInv)
  <1> SUFFICES ASSUME TrackingAssumption PROVE Spec => []IInv
    OBVIOUS
  <1>1. Init => IInv
    BY Initially
  <1>2. IInv /\ [Next]_vars => IInv'
    BY Preserved
  <1> QED
    BY <1>1, <1>2, PTL DEF Spec

\* Every reachable state of the tracking is well typed.
THEOREM TypeCorrect == TrackingAssumption => (Spec => []TypeOK)
  <1>1. IInv => TypeOK
    BY DEF IInv
  <1> QED
    BY <1>1, Invariant, PTL

(* However claims and checks of a grant overlap, all receipts of it are for *)
(* the one shopper it names (claim, validate, openProduct).                 *)
THEOREM GrantForOne == TrackingAssumption => (Spec => []OneShopper)
  <1>1. IInv => OneShopper
    BY DEF IInv, Backed, OneShopper
  <1> QED
    BY <1>1, Invariant, PTL

(* A request about to answer with a receipt holds the link, so that a brand *)
(* that disconnects waits for it (claim, validate, openProduct, disconnect).*)
THEOREM NoReceiptAfterUnlinking == TrackingAssumption => (Spec => []AnsweredWhileLinked)
  <1>1. IInv => AnsweredWhileLinked
    BY DEF IInv
  <1> QED
    BY <1>1, Invariant, PTL
=============================================================================
