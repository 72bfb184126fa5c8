--------------------- MODULE CampaignPublishing_proofs ---------------------
(***************************************************************************)
(* Theorems about CampaignPublishing for any number of requests, products, *)
(* editions and files, and any bound on the versions; that a save leaves   *)
(* the version and the listing as the campaign is, for requests made one   *)
(* after the other.                                                        *)
(***************************************************************************)
EXTENDS CampaignPublishing, FiniteSetTheorems, SequenceTheorems, WellFoundedInduction, TLAPS

Steps == {"idle", "read", "save", "files", "reread", "latest", "number", "revise", "sync"}

Version == [version : 1 .. MaxRevisions, edition : Editions,
            terms : [product : Selection, edition : Editions, files : SUBSET Files]]

Campaign == [status : Statuses, product : Selection, edition : Editions, posted : BOOLEAN,
             revision : 0 .. MaxRevisions]

Listing == [up : BOOLEAN, open : BOOLEAN, edition : Editions]

Locals == [at : Steps, save : Save, files : SUBSET Files, published : BOOLEAN, version : Nat]

Shape ==
    /\ campaign \in Campaign
    /\ files \subseteq Files /\ linked \in BOOLEAN /\ listing \in Listing
    /\ revisions \in Seq(Version) /\ Len(revisions) <= MaxRevisions
    /\ call \in [Calls -> Locals]

\* Versions that overlap may share a number, but none is above the count; and there is
\* a campaign to read back.
Numbered == \A r \in 1 .. Len(revisions) : revisions[r].version \in 1 .. r

Sound(c) ==
    /\ At(c, "revise") => call[c].version \in 1 .. Len(revisions) + 1
    /\ call[c].at \in {"files", "reread"} => campaign.status # "absent"

IInv ==
    /\ Shape
    /\ Numbered
    /\ \A c \in Calls : Sound(c)

-----------------------------------------------------------------------------
(* The highest number.                                                      *)

LEMMA LargestExists ==
    ASSUME NEW n \in Nat, NEW S \in SUBSET (0 .. n), S # {}
    PROVE  \E x \in S : \A y \in S : x >= y
  <1> DEFINE Above == {u \in 0 .. n : \A y \in S : y <= u}
             T == {1 .. u : u \in Above}
  <1>1. T \subseteq SUBSET (1 .. n) /\ n \in Above
    OBVIOUS
  <1>2. IsFiniteSet(1 .. n)
    BY FS_Interval
  <1>3. T \subseteq FiniteSubsetsOf(1 .. n)
    <2>1. FiniteSubsetsOf(1 .. n) = SUBSET (1 .. n)
      BY <1>2, FS_FiniteSubsetsOfFinite
    <2> QED
      BY <1>1, <2>1
  <1>4. IsWellFoundedOn(StrictSubsetOrdering(1 .. n), FiniteSubsetsOf(1 .. n))
    BY FS_StrictSubsetOrderingWellFounded
  <1>5. \E s \in T : \A t \in T : ~(<<t, s>> \in StrictSubsetOrdering(1 .. n))
    <2>1. T # {}
      BY <1>1
    <2> HIDE DEF T
    <2> QED
      BY <1>3, <1>4, <2>1, WFMin
  <1>6. PICK u \in Above : \A t \in T : ~(<<t, 1 .. u>> \in StrictSubsetOrdering(1 .. n))
    BY <1>5
  <1>7. u \in 0 .. n /\ \A y \in S : y \in Nat /\ y <= u
    OBVIOUS
  <1>8. u \in S
    <2> SUFFICES ASSUME u \notin S PROVE FALSE
      OBVIOUS
    <2>1. \A y \in S : y \in Nat /\ y <= u - 1
      BY <1>7
    <2>2. u - 1 \in Above
      <3>1. PICK y \in S : TRUE
        OBVIOUS
      <3>2. y \in Nat /\ y <= u - 1 /\ u \in 0 .. n
        BY <1>7, <2>1, <3>1
      <3>3. u - 1 \in 0 .. n
        BY <3>2
      <3> QED
        BY <2>1, <3>3
    <2>3. 1 .. (u - 1) \in T /\ 1 .. (u - 1) \subseteq 1 .. u /\ u \in 1 .. u /\ u \notin 1 .. (u - 1)
      BY <1>7, <2>2
    <2>4. 1 .. u \in SUBSET (1 .. n) /\ 1 .. (u - 1) \in SUBSET (1 .. n)
      BY <1>7, <2>3
    <2> HIDE DEF T
    <2> QED
      BY <1>6, <2>3, <2>4 DEF StrictSubsetOrdering
  <1> QED
    BY <1>7, <1>8

\* insertRevision's number is one more than the highest, which is not above the count.
Highest == Max({0} \cup {revisions[r].version : r \in DOMAIN revisions})

LEMMA HighestIsOne ==
    ASSUME Numbered, Len(revisions) \in Nat, DOMAIN revisions = 1 .. Len(revisions)
    PROVE  /\ Highest \in {0} \cup {revisions[r].version : r \in DOMAIN revisions}
           /\ Highest \in 0 .. Len(revisions)
           /\ \A r \in DOMAIN revisions : Highest >= revisions[r].version
  <1> DEFINE S == {0} \cup {revisions[r].version : r \in DOMAIN revisions}
  <1>1. \A r \in 1 .. Len(revisions) : revisions[r].version \in 0 .. Len(revisions)
    <2> SUFFICES ASSUME NEW r \in 1 .. Len(revisions) PROVE revisions[r].version \in 0 .. Len(revisions)
      OBVIOUS
    <2>1. revisions[r].version \in 1 .. r
      BY DEF Numbered
    <2> QED
      BY <2>1
  <1>2. S \in SUBSET (0 .. Len(revisions)) /\ S # {}
    BY <1>1
  <1>3. \A r \in DOMAIN revisions : revisions[r].version \in S
    OBVIOUS
  <1> HIDE DEF S
  <1>4. \E x \in S : \A y \in S : x >= y
    BY <1>2, LargestExists
  <1>5. Max(S) \in S /\ \A y \in S : Max(S) >= y
    BY <1>4 DEF Max
  <1> QED
    BY <1>2, <1>3, <1>5 DEF Highest, S

-----------------------------------------------------------------------------
(* Type correctness, whatever overlaps.                                     *)

LEMMA Counts == Shape => /\ Len(revisions) \in Nat /\ DOMAIN revisions = 1 .. Len(revisions)
                         /\ \A r \in 1 .. Len(revisions) : revisions[r] \in Version
  BY LenProperties, ElementOfSeq DEF Shape

LEMMA Empty == PublishingAssumption => NoSave \in Save /\ NoCall \in Locals /\ NoListing \in Listing
  BY DEF PublishingAssumption, NoSave, Save, Selection, Statuses, NoCall, Locals, Steps, NoListing, Listing

LEMMA Initially == PublishingAssumption /\ Init => IInv
  <1> SUFFICES ASSUME PublishingAssumption, Init PROVE IInv
    OBVIOUS
  <1>1. revisions = <<>> /\ call = [c \in Calls |-> NoCall] /\ NoCall.at = "idle"
    BY DEF Init, NoCall
  <1>2. campaign \in Campaign
    <2>1. NoSave.edition \in Editions
      BY Empty DEF Save
    <2> QED
      BY <2>1 DEF Init, Campaign, Statuses, Selection, PublishingAssumption
  <1>3. Shape
    BY <1>1, <1>2, Empty DEF Init, Shape, PublishingAssumption
  <1>4. Numbered /\ \A c \in Calls : Sound(c)
    BY <1>1 DEF Numbered, Sound, At
  <1> QED
    BY <1>3, <1>4 DEF IInv

\* A request's own step: the others still stand, if no version and no campaign is lost.
LEMMA CallMoves ==
    ASSUME IInv, NEW c \in Calls, NEW my \in Locals, call' = [call EXCEPT ![c] = my],
           Len(revisions) <= Len(revisions'), Len(revisions') \in Nat,
           campaign.status # "absent" => campaign'.status # "absent",
           my.at = "revise" => my.version \in 1 .. Len(revisions') + 1,
           my.at \in {"files", "reread"} => campaign'.status # "absent"
    PROVE  call' \in [Calls -> Locals] /\ \A d \in Calls : Sound(d)'
  <1>1. call \in [Calls -> Locals] /\ Len(revisions) \in Nat
    BY Counts DEF IInv, Shape
  <1>2. call' \in [Calls -> Locals] /\ call'[c] = my /\ \A d \in Calls : d # c => call'[d] = call[d]
    BY <1>1
  <1>3. ASSUME NEW d \in Calls PROVE Sound(d)'
    <2>1. CASE d = c
      BY <1>2, <2>1 DEF Sound, At
    <2>2. CASE d # c
      <3>1. Sound(d) /\ call'[d] = call[d]
        BY <1>2, <2>2 DEF IInv
      <3>2. call[d].version \in 1 .. Len(revisions) + 1 => call[d].version \in 1 .. Len(revisions') + 1
        BY <1>1
      <3> QED
        BY <3>1, <3>2 DEF Sound, At
    <2> QED
      BY <2>1, <2>2
  <1> QED
    BY <1>2, <1>3

\* A step that writes no row.
LEMMA OnlyReads ==
    ASSUME IInv, NEW c \in Calls, NEW my \in Locals, call' = [call EXCEPT ![c] = my], UNCHANGED rows,
           my.at = "revise" => my.version \in 1 .. Len(revisions) + 1,
           my.at \in {"files", "reread"} => campaign.status # "absent"
    PROVE  IInv'
  <1>1. /\ campaign' = campaign /\ files' = files /\ revisions' = revisions
        /\ listing' = listing /\ linked' = linked
    BY DEF rows
  <1>2. Len(revisions) \in Nat
    BY Counts DEF IInv
  <1>3. Len(revisions) <= Len(revisions') /\ Len(revisions') \in Nat
    BY <1>1, <1>2
  <1>4. call' \in [Calls -> Locals] /\ \A d \in Calls : Sound(d)'
    BY <1>1, <1>3, CallMoves
  <1>5. Shape'
    BY <1>1, <1>4 DEF IInv, Shape
  <1>6. Numbered'
    BY <1>1 DEF IInv, Numbered
  <1> QED
    BY <1>4, <1>5, <1>6 DEF IInv

\* A step that writes rows, but no version.
LEMMA NoVersion ==
    ASSUME IInv, NEW c \in Calls, NEW my \in Locals, call' = [call EXCEPT ![c] = my], revisions' = revisions,
           campaign' \in Campaign, files' \subseteq Files, listing' \in Listing, linked' = linked,
           campaign.status # "absent" => campaign'.status # "absent",
           my.at # "revise", my.at \in {"files", "reread"} => campaign'.status # "absent"
    PROVE  IInv'
  <1>1. Len(revisions) \in Nat
    BY Counts DEF IInv
  <1>2. Len(revisions) <= Len(revisions') /\ Len(revisions') \in Nat
    BY <1>1
  <1>3. call' \in [Calls -> Locals] /\ \A d \in Calls : Sound(d)'
    BY <1>2, CallMoves
  <1>4. Shape'
    BY <1>3 DEF IInv, Shape
  <1>5. Numbered'
    BY DEF IInv, Numbered
  <1> QED
    BY <1>3, <1>4, <1>5 DEF IInv

LEMMA Request ==
    ASSUME IInv, NEW c \in Calls
    PROVE  /\ call[c] \in Locals /\ call[c].save \in Save /\ call[c].files \subseteq Files
           /\ campaign \in Campaign /\ campaign.status \in Statuses /\ campaign.product \in Selection
           /\ campaign.edition \in Editions /\ campaign.posted \in BOOLEAN
  <1>1. call[c] \in Locals /\ campaign \in Campaign
    BY DEF IInv, Shape
  <1> QED
    BY <1>1 DEF Locals, Campaign

LEMMA EndsTypes == ASSUME PublishingAssumption, IInv, NEW c \in Calls, Ends(c), UNCHANGED rows PROVE IInv'
  <1>1. NoCall \in Locals /\ NoCall.at = "idle"
    BY Empty DEF NoCall
  <1> QED
    BY <1>1, OnlyReads DEF Ends

LEMMA GoesTypes ==
    ASSUME IInv, NEW c \in Calls, NEW step \in Steps \ {"revise", "files", "reread"}, Goes(c, step), UNCHANGED rows
    PROVE  IInv'
  <1> DEFINE my == [call[c] EXCEPT !.at = step]
  <1>1. call' = [call EXCEPT ![c] = my]
    BY DEF Goes
  <1>2. call[c] \in Locals
    BY Request
  <1>3. my \in Locals /\ my.at = step
    BY <1>2 DEF Locals
  <1> HIDE DEF my
  <1> QED
    BY <1>1, <1>3, OnlyReads

\* What a request is about to save, of what it was asked or read.
LEMMA SavesTypes ==
    ASSUME IInv, NEW c \in Calls, NEW step \in {"save", "read"}, NEW save \in Save,
           call' = [call EXCEPT ![c].at = step, ![c].save = save], UNCHANGED rows
    PROVE  IInv'
  <1> DEFINE my == [call[c] EXCEPT !.at = step, !.save = save]
  <1>1. call[c] \in Locals /\ call' = [call EXCEPT ![c] = my]
    BY Request
  <1>2. my \in Locals /\ my.at = step
    BY <1>1 DEF Locals, Steps
  <1> HIDE DEF my
  <1> QED
    BY <1>1, <1>2, OnlyReads

LEMMA ReadCampaignTypes == ASSUME PublishingAssumption, IInv, NEW c \in Calls, ReadCampaign(c) PROVE IInv'
  <1>1. CASE Ends(c)
    BY <1>1, EndsTypes DEF ReadCampaign
  <1>2. CASE ~Ends(c)
    <2>1. call[c] \in Locals /\ call[c].save \in Save /\ campaign.product \in Selection
      BY Request
    <2>2. PICK product \in Selection, was \in BOOLEAN :
              /\ call' = [call EXCEPT ![c].at = "save", ![c].published = was, ![c].save.product = product]
              /\ UNCHANGED rows
      <3> DEFINE was == Published(campaign.status)
                 product == IF was THEN campaign.product ELSE call[c].save.product
      <3>1. product \in Selection /\ was \in BOOLEAN
        BY <2>1 DEF Save, Published
      <3>2. /\ call' = [call EXCEPT ![c].at = "save", ![c].published = was, ![c].save.product = product]
            /\ UNCHANGED rows
        BY <1>2 DEF ReadCampaign
      <3> QED
        BY <3>1, <3>2
    <2> DEFINE save == [call[c].save EXCEPT !.product = product]
    <2>3. save \in Save
      BY <2>1 DEF Save
    <2>4. call' = [call EXCEPT ![c] = [call[c] EXCEPT !.at = "save", !.save = save, !.published = was]]
      <3>1. call \in [Calls -> Locals]
        BY DEF IInv, Shape
      <3> QED
        BY <2>1, <2>2, <3>1 DEF Locals
    <2> DEFINE my == [call[c] EXCEPT !.at = "save", !.save = save, !.published = was]
    <2>5. my \in Locals /\ my.at = "save"
      BY <2>1, <2>2, <2>3 DEF Locals, Steps
    <2> HIDE DEF save, my
    <2> QED
      BY <2>2, <2>4, <2>5, OnlyReads DEF my
  <1> QED
    BY <1>1, <1>2

LEMMA ReadStatusTypes ==
    ASSUME IInv, NEW c \in Calls, NEW f \in Files, ReadStatus(c, f)
    PROVE  IInv'
  <1> DEFINE my == [call[c] EXCEPT !.at = "files", !.files = {f}, !.published = Published(campaign.status)]
  <1>1. call' = [call EXCEPT ![c] = my] /\ UNCHANGED rows /\ campaign.status # "absent"
    BY DEF ReadStatus
  <1>2. call[c] \in Locals /\ Published(campaign.status) \in BOOLEAN /\ {f} \in SUBSET Files
    BY Request DEF Published
  <1>3. my \in Locals /\ my.at = "files"
    BY <1>2 DEF Locals, Steps
  <1> HIDE DEF my
  <1> QED
    BY <1>1, <1>3, OnlyReads

LEMMA SaveCampaignTypes == ASSUME PublishingAssumption, IInv, NEW c \in Calls, SaveCampaign(c) PROVE IInv'
  <1> DEFINE in == call[c].save
             new == [campaign EXCEPT !.status = in.status, !.product = in.product,
                                     !.edition = in.edition, !.posted = in.posted]
             my == [call[c] EXCEPT !.at = "latest", !.files = files]
  <1>1. /\ campaign' = campaign \/ campaign' = new
        /\ call' = [call EXCEPT ![c] = NoCall] \/ call' = [call EXCEPT ![c] = my]
        /\ UNCHANGED <<files, revisions, listing, linked>>
    BY DEF SaveCampaign, Ends
  <1>2. call[c] \in Locals /\ campaign \in Campaign /\ in \in Save
    BY Request
  <1>3. files \subseteq Files /\ listing \in Listing
    BY DEF IInv, Shape
  <1>4. new \in Campaign /\ new.status # "absent"
    BY <1>2 DEF Campaign, Save
  <1>5. /\ my \in Locals /\ my.at = "latest"
    BY <1>2, <1>3 DEF Locals, Steps
  <1>6. NoCall \in Locals /\ NoCall.at = "idle"
    BY Empty DEF NoCall
  <1> HIDE DEF new, my
  <1>7. campaign' \in Campaign /\ (campaign.status # "absent" => campaign'.status # "absent")
    BY <1>1, <1>2, <1>4
  <1>8. CASE call' = [call EXCEPT ![c] = NoCall]
    BY <1>1, <1>3, <1>6, <1>7, <1>8, NoVersion
  <1>9. CASE call' = [call EXCEPT ![c] = my]
    BY <1>1, <1>3, <1>5, <1>7, <1>9, NoVersion
  <1> QED
    BY <1>1, <1>8, <1>9

LEMMA ChangeFilesTypes == ASSUME IInv, NEW c \in Calls, ChangeFiles(c) PROVE IInv'
  <1> DEFINE my == [call[c] EXCEPT !.at = "reread"]
  <1>1. /\ call[c].at = "files" /\ files' \in {files \cup call[c].files, files \ call[c].files}
        /\ call' = [call EXCEPT ![c] = my] /\ UNCHANGED <<campaign, revisions, listing, linked>>
    BY DEF ChangeFiles, Goes, At
  <1>2. call[c] \in Locals /\ call[c].files \subseteq Files /\ campaign \in Campaign
    BY Request
  <1>3. my \in Locals /\ my.at = "reread"
    BY <1>2 DEF Locals, Steps
  <1>4. campaign.status # "absent"
    BY <1>1 DEF IInv, Sound
  <1>5. files' \subseteq Files /\ listing \in Listing
    BY <1>1, <1>2 DEF IInv, Shape
  <1> HIDE DEF my
  <1> QED
    BY <1>1, <1>2, <1>3, <1>4, <1>5, NoVersion

LEMMA ReadBackTypes == ASSUME IInv, NEW c \in Calls, ReadBack(c) PROVE IInv'
  <1> DEFINE save == [status |-> campaign.status, product |-> campaign.product,
                      edition |-> campaign.edition, posted |-> campaign.posted]
             step == IF Published(campaign.status) THEN "latest" ELSE "sync"
             my == [call[c] EXCEPT !.at = step, !.files = files, !.save = save]
  <1>1. call[c].at = "reread" /\ call' = [call EXCEPT ![c] = my] /\ UNCHANGED rows
    BY DEF ReadBack, At
  <1>2. /\ call[c] \in Locals /\ campaign.status \in Statuses /\ campaign.product \in Selection
        /\ campaign.edition \in Editions /\ campaign.posted \in BOOLEAN
    BY Request
  <1>3. campaign.status # "absent" /\ files \subseteq Files
    BY <1>1 DEF IInv, Sound, Shape
  <1>4. save \in Save
    BY <1>2, <1>3 DEF Save
  <1> HIDE DEF save
  <1>5. my \in Locals /\ my.at \in {"latest", "sync"}
    BY <1>2, <1>3, <1>4 DEF Locals, Steps
  <1> HIDE DEF my
  <1> QED
    BY <1>1, <1>5, OnlyReads

LEMMA ReadNumberTypes == ASSUME IInv, NEW c \in Calls, ReadNumber(c) PROVE IInv'
  <1> DEFINE my == [call[c] EXCEPT !.at = "revise", !.version = 1 + Highest]
  <1>1. call' = [call EXCEPT ![c] = my] /\ UNCHANGED rows
    BY DEF ReadNumber, Highest
  <1>2. call[c] \in Locals
    BY Request
  <1>3. Len(revisions) \in Nat /\ Highest \in 0 .. Len(revisions)
    BY Counts, HighestIsOne DEF IInv
  <1>4. 1 + Highest \in Nat /\ 1 + Highest \in 1 .. Len(revisions) + 1
    BY <1>3
  <1>5. my \in Locals /\ my.at = "revise" /\ my.version = 1 + Highest
    BY <1>2, <1>4 DEF Locals, Steps
  <1> HIDE DEF my
  <1> QED
    BY <1>1, <1>4, <1>5, OnlyReads

LEMMA InsertRevisionTypes == ASSUME PublishingAssumption, IInv, NEW c \in Calls, InsertRevision(c) PROVE IInv'
  <1> DEFINE n == Len(revisions)
             new == [version |-> call[c].version, edition |-> call[c].save.edition, terms |-> TermsFromCampaign(c)]
             my == [call[c] EXCEPT !.at = "sync"]
  <1>1. /\ call[c].at = "revise" /\ Len(revisions) < MaxRevisions
        /\ revisions' = Append(revisions, new)
        /\ campaign' = [campaign EXCEPT !.revision = Len(revisions')]
        /\ call' = [call EXCEPT ![c] = my] /\ UNCHANGED <<files, listing, linked>>
    BY DEF InsertRevision, Goes, At
  <1>2. call[c] \in Locals /\ call[c].save \in Save /\ call[c].files \subseteq Files /\ campaign \in Campaign
    BY Request
  <1>3. n \in Nat /\ MaxRevisions \in Nat /\ revisions \in Seq(Version) /\ call[c].version \in 1 .. n + 1
    BY <1>1, Counts DEF IInv, Shape, Sound, At, PublishingAssumption
  <1>4. n + 1 \in 0 .. MaxRevisions /\ call[c].version \in 1 .. MaxRevisions
    BY <1>1, <1>3
  <1>5. new \in Version /\ new.version = call[c].version
    <2>1. TermsFromCampaign(c) \in [product : Selection, edition : Editions, files : SUBSET Files]
      BY <1>2 DEF TermsFromCampaign, Save
    <2>2. call[c].save.edition \in Editions
      BY <1>2 DEF Save
    <2> QED
      BY <1>4, <2>1, <2>2 DEF Version
  <1>6. my \in Locals /\ my.at = "sync"
    BY <1>2 DEF Locals, Steps
  <1> HIDE DEF new, my
  <1>7. /\ revisions' \in Seq(Version) /\ Len(revisions') = n + 1
        /\ revisions'[n + 1] = new /\ \A r \in 1 .. n : revisions'[r] = revisions[r]
    BY <1>1, <1>3, <1>5, AppendProperties
  <1>8. campaign' \in Campaign /\ campaign'.status = campaign.status
    BY <1>1, <1>2, <1>4, <1>7 DEF Campaign
  <1>9. call' \in [Calls -> Locals] /\ \A d \in Calls : Sound(d)'
    <2>1. Len(revisions) <= Len(revisions') /\ Len(revisions') \in Nat
      BY <1>3, <1>7
    <2> QED
      BY <1>1, <1>6, <1>8, <2>1, CallMoves
  <1>10. Numbered'
    <2>1. ASSUME NEW r \in 1 .. n + 1 PROVE revisions'[r].version \in 1 .. r
      <3>1. CASE r = n + 1
        BY <1>3, <1>5, <1>7, <3>1
      <3>2. CASE r # n + 1
        <4>1. r \in 1 .. n
          BY <1>3, <3>2
        <4>2. revisions[r].version \in 1 .. r
          BY <4>1 DEF IInv, Numbered
        <4> QED
          BY <1>7, <4>1, <4>2
      <3> QED
        BY <3>1, <3>2
    <2> QED
      BY <1>7, <2>1 DEF Numbered
  <1>11. Shape'
    <2>1. files' \subseteq Files /\ linked' \in BOOLEAN /\ listing' \in Listing
      BY <1>1 DEF IInv, Shape
    <2>2. Len(revisions') <= MaxRevisions
      BY <1>4, <1>7
    <2> QED
      BY <1>7, <1>8, <1>9, <2>1, <2>2 DEF Shape
  <1> QED
    BY <1>9, <1>10, <1>11 DEF IInv

LEMMA SyncListingTypes == ASSUME PublishingAssumption, IInv, NEW c \in Calls, SyncListing(c) PROVE IInv'
  <1>1. /\ call' = [call EXCEPT ![c] = NoCall] /\ UNCHANGED <<campaign, files, revisions, linked>>
        /\ \/ listing' = [up |-> TRUE, open |-> call[c].save.status = "active", edition |-> call[c].save.edition]
           \/ listing' = NoListing
    BY DEF SyncListing, Ends
  <1>2. NoCall \in Locals /\ NoCall.at = "idle" /\ NoListing \in Listing
    BY Empty DEF NoCall
  <1>3. call[c].save \in Save /\ campaign \in Campaign
    BY Request
  <1>4. listing' \in Listing
    <2>1. call[c].save.edition \in Editions
      BY <1>3 DEF Save
    <2>2. PICK open \in BOOLEAN : listing' = [up |-> TRUE, open |-> open, edition |-> call[c].save.edition]
                                 \/ listing' = NoListing
      BY <1>1
    <2>3. ASSUME NEW e \in Editions, NEW b \in BOOLEAN PROVE [up |-> TRUE, open |-> b, edition |-> e] \in Listing
      <3>1. CASE b = TRUE
        BY <3>1 DEF Listing
      <3>2. CASE b = FALSE
        BY <3>2 DEF Listing
      <3> QED
        BY <3>1, <3>2
    <2> QED
      BY <1>2, <2>1, <2>2, <2>3
  <1>5. files \subseteq Files
    BY DEF IInv, Shape
  <1> QED
    BY <1>1, <1>2, <1>3, <1>4, <1>5, NoVersion

LEMMA StepTypes == PublishingAssumption /\ IInv /\ [Next]_vars => IInv'
  <1> SUFFICES ASSUME PublishingAssumption, IInv, [Next]_vars PROVE IInv'
    OBVIOUS
  <1>1. ASSUME NEW c \in Calls, NEW input \in Save, Create(c, input) \/ UpdateDraft(c, input) PROVE IInv'
    BY <1>1, SavesTypes DEF Create, UpdateDraft
  <1>2. ASSUME NEW c \in Calls, NEW input \in Save, Update(c, input) PROVE IInv'
    BY <1>2, SavesTypes DEF Update
  <1>3. ASSUME NEW c \in Calls, NEW r \in DOMAIN revisions, RestoreRevision(c, r) PROVE IInv'
    <2> DEFINE save == [status |-> campaign.status, product |-> campaign.product,
                        edition |-> revisions[r].edition, posted |-> campaign.posted]
    <2>1. revisions[r] \in Version
      BY Counts DEF IInv
    <2>2. save \in Save
      BY <1>3, <2>1, Request DEF RestoreRevision, Published, Save, Version, Statuses
    <2>3. call' = [call EXCEPT ![c].at = "read", ![c].save = save] /\ UNCHANGED rows
      BY <1>3 DEF RestoreRevision
    <2> HIDE DEF save
    <2> QED
      BY <2>2, <2>3, SavesTypes
  <1>4. ASSUME NEW c \in Calls, NEW f \in Files, ReadStatus(c, f) PROVE IInv'
    BY <1>4, ReadStatusTypes
  <1>5. ASSUME NEW c \in Calls, ReadCampaign(c) PROVE IInv'
    BY <1>5, ReadCampaignTypes
  <1>6. ASSUME NEW c \in Calls, SaveCampaign(c) PROVE IInv'
    BY <1>6, SaveCampaignTypes
  <1>7. ASSUME NEW c \in Calls, ChangeFiles(c) PROVE IInv'
    BY <1>7, ChangeFilesTypes
  <1>8. ASSUME NEW c \in Calls, ReadBack(c) PROVE IInv'
    BY <1>8, ReadBackTypes
  <1>9. ASSUME NEW c \in Calls, ReadLatest(c) PROVE IInv'
    <2>1. UNCHANGED rows /\ (Goes(c, "number") \/ Goes(c, "sync"))
      BY <1>9 DEF ReadLatest
    <2>2. {"number", "sync"} \subseteq Steps \ {"revise", "files", "reread"}
      BY DEF Steps
    <2> QED
      BY <2>1, <2>2, GoesTypes
  <1>10. ASSUME NEW c \in Calls, ReadNumber(c) PROVE IInv'
    BY <1>10, ReadNumberTypes
  <1>11. ASSUME NEW c \in Calls, InsertRevision(c) PROVE IInv'
    BY <1>11, InsertRevisionTypes
  <1>12. ASSUME NEW c \in Calls, SyncListing(c) PROVE IInv'
    BY <1>12, SyncListingTypes
  <1>13. ASSUME NEW c \in Calls, CallStops(c) PROVE IInv'
    BY <1>13, EndsTypes DEF CallStops
  <1>14. CASE Disconnect \/ UNCHANGED vars
    <2>1. UNCHANGED <<campaign, files, revisions, listing, call>> /\ linked' \in BOOLEAN
      BY <1>14 DEF Disconnect, vars, IInv, Shape
    <2> QED
      BY <2>1 DEF IInv, Shape, Numbered, Sound, At
  <1> QED
    BY <1>1, <1>2, <1>3, <1>4, <1>5, <1>6, <1>7, <1>8, <1>9, <1>10, <1>11, <1>12, <1>13, <1>14 DEF Next

LEMMA Invariance == PublishingAssumption => (Spec => []IInv)
  <1> SUFFICES ASSUME PublishingAssumption PROVE Spec => []IInv
    OBVIOUS
  <1>1. Init => IInv
    BY Initially
  <1>2. IInv /\ [Next]_vars => IInv'
    BY StepTypes
  <1> QED
    BY <1>1, <1>2, PTL DEF Spec

LEMMA Typed == IInv => TypeOK
  BY Request DEF IInv, Shape, TypeOK, Campaign, Listing, Version

(* The rows and the requests have their types, whatever overlaps: no        *)
(* version is numbered above the bound, none is read back of a campaign     *)
(* that is not there.                                                       *)
THEOREM TypeCorrect == PublishingAssumption => (Spec => []TypeOK)
  <1> SUFFICES ASSUME PublishingAssumption PROVE Spec => []TypeOK
    OBVIOUS
  <1>1. IInv => TypeOK
    BY Typed
  <1> QED
    BY <1>1, Invariance, PTL

-----------------------------------------------------------------------------
(* The lock: the row is read again where it is written.                     *)

LEMMA StepKeepsProduct == IInv /\ [Next]_vars => [ProductKept]_vars
  <1> SUFFICES ASSUME IInv, [Next]_vars PROVE campaign' = campaign \/ ProductKept
    BY DEF ProductKept, vars
  <1>1. ASSUME NEW c \in Calls, SaveCampaign(c) PROVE campaign' = campaign \/ ProductKept
    <2> DEFINE in == call[c].save
    <2> SUFFICES ASSUME campaign' # campaign, Published(campaign.status), campaign.product # NoProduct
                 PROVE  Published(campaign'.status) /\ campaign'.product = campaign.product
      BY DEF ProductKept
    <2>1. /\ ~Refused(c)
          /\ campaign' = [campaign EXCEPT !.status = in.status, !.product = in.product,
                                          !.edition = in.edition, !.posted = in.posted]
      BY <1>1 DEF SaveCampaign
    <2>2. in.product = campaign.product /\ in.status # "draft"
      BY <2>1 DEF Refused
    <2>3. in \in Save /\ campaign \in Campaign
      BY Request
    <2>4. campaign'.status = in.status /\ campaign'.product = in.product
      BY <2>1, <2>3 DEF Campaign
    <2> QED
      BY <2>2, <2>3, <2>4 DEF Save, Statuses, Published
  <1>2. ASSUME NEW c \in Calls, InsertRevision(c) PROVE ProductKept
    <2>1. campaign \in Campaign /\ campaign' = [campaign EXCEPT !.revision = Len(revisions')]
      BY <1>2, Request DEF InsertRevision
    <2>2. campaign'.status = campaign.status /\ campaign'.product = campaign.product
      BY <2>1 DEF Campaign
    <2> QED
      BY <2>2 DEF ProductKept
  <1>3. CASE ~\E c \in Calls : SaveCampaign(c) \/ InsertRevision(c)
    BY <1>3 DEF Next, vars, rows, Create, UpdateDraft, Update, RestoreRevision, ReadStatus, ReadCampaign,
                ChangeFiles, ReadBack, ReadLatest, ReadNumber, SyncListing, CallStops, Disconnect
  <1> QED
    BY <1>1, <1>2, <1>3

(* Publication freezes the product selection, however many requests are     *)
(* inside their sequences: the refusal of saveWithProductLink looks at the  *)
(* row it has locked, not at what the request read before.                  *)
THEOREM SelectionKept == PublishingAssumption => (Spec => ProductLocked)
  <1> SUFFICES ASSUME PublishingAssumption PROVE Spec => ProductLocked
    OBVIOUS
  <1>1. IInv /\ [Next]_vars => [ProductKept]_vars
    BY StepKeepsProduct
  <1> QED
    BY <1>1, Invariance, PTL DEF Spec, ProductLocked

-----------------------------------------------------------------------------
(* Requests one after the other.  What a request holds on its way to the    *)
(* listing is what the rows hold, whatever an earlier one left behind: the  *)
(* current version is the highest, and it is the latest insertion.          *)

Alone == \A c, d \in Calls : c = d

InOrder == campaign.revision = Len(revisions) /\ \A r \in 1 .. Len(revisions) : revisions[r].version = r

Held(c) ==
    /\ Published(campaign.status)
    /\ call[c].save = [status |-> campaign.status, product |-> campaign.product,
                       edition |-> campaign.edition, posted |-> campaign.posted]
    /\ call[c].files = files

Holds(c) ==
    /\ call[c].at \in {"latest", "number", "revise"} => Held(c)
    /\ At(c, "revise") => call[c].version = Len(revisions) + 1
    /\ At(c, "sync") /\ Published(campaign.status) =>
          Held(c) /\ campaign.revision # 0 /\ revisions[campaign.revision].terms = TermsFromCampaign(c)

SInv ==
    /\ IInv
    /\ InOrder
    /\ \A c \in Calls : Holds(c)

LEMMA Stepping ==
    ASSUME IInv, NEW c \in Calls
    PROVE  /\ \A my : call' = [call EXCEPT ![c] = my] => call'[c] = my
           /\ \A step : Goes(c, step) => call'[c] = [call[c] EXCEPT !.at = step] /\ call'[c].at = step
           /\ Ends(c) => call'[c].at = "idle"
  <1>1. call \in [Calls -> Locals] /\ call[c] \in Locals
    BY DEF IInv, Shape
  <1> QED
    BY <1>1 DEF Goes, Ends, NoCall, Locals

LEMMA HoldsInitially == PublishingAssumption /\ Init => SInv
  <1> SUFFICES ASSUME PublishingAssumption, Init PROVE SInv
    OBVIOUS
  <1>1. revisions = <<>> /\ campaign.revision = 0 /\ \A c \in Calls : call[c].at = "idle"
    BY DEF Init, NoCall
  <1> QED
    BY <1>1, Initially DEF SInv, InOrder, Holds, At

\* A step after which the request holds nothing yet, or no more.
LEMMA RestsAlone ==
    ASSUME Alone, SInv, IInv', NEW c \in Calls, campaign'.revision = campaign.revision, revisions' = revisions,
           call'[c].at \in {"idle", "read", "save", "files", "reread"}
    PROVE  SInv'
  <1>1. InOrder'
    BY DEF SInv, InOrder
  <1>2. ASSUME NEW d \in Calls PROVE Holds(d)'
    <2>1. d = c
      BY DEF Alone
    <2> QED
      BY <2>1 DEF Holds, At
  <1> QED
    BY <1>1, <1>2 DEF SInv

LEMMA RestingActions ==
    ASSUME SInv, NEW c \in Calls,
           \/ \E input \in Save : Create(c, input) \/ UpdateDraft(c, input) \/ Update(c, input)
           \/ \E r \in DOMAIN revisions : RestoreRevision(c, r)
           \/ \E f \in Files : ReadStatus(c, f)
           \/ ReadCampaign(c) \/ ChangeFiles(c) \/ SyncListing(c) \/ CallStops(c)
    PROVE  /\ campaign' = campaign /\ revisions' = revisions
           /\ call'[c].at \in {"idle", "read", "save", "files", "reread"}
  <1>1. campaign' = campaign /\ revisions' = revisions
    BY DEF rows, Create, UpdateDraft, Update, RestoreRevision, ReadStatus, ReadCampaign, ChangeFiles,
           SyncListing, CallStops
  <1>2. call \in [Calls -> Locals] /\ call[c] \in Locals
    BY DEF SInv, IInv, Shape
  <1>3. CASE \E input \in Save : Create(c, input) \/ UpdateDraft(c, input) \/ Update(c, input)
    <2>1. PICK input \in Save, step \in {"save", "read"} : call' = [call EXCEPT ![c].at = step, ![c].save = input]
      BY <1>3 DEF Create, UpdateDraft, Update
    <2>2. call'[c].at = step
      BY <1>2, <2>1 DEF Locals
    <2> QED
      BY <1>1, <2>2
  <1>4. CASE \E r \in DOMAIN revisions : RestoreRevision(c, r)
    BY <1>1, <1>2, <1>4 DEF RestoreRevision, Locals
  <1>5. CASE \E f \in Files : ReadStatus(c, f)
    BY <1>1, <1>2, <1>5 DEF ReadStatus, Locals
  <1>6. CASE ReadCampaign(c)
    <2>1. CASE Ends(c)
      BY <1>1, <2>1, Stepping DEF SInv
    <2>2. CASE ~Ends(c)
      <3>1. PICK product, was :
                call' = [call EXCEPT ![c].at = "save", ![c].published = was, ![c].save.product = product]
        BY <1>6, <2>2 DEF ReadCampaign
      <3> QED
        BY <1>1, <1>2, <3>1 DEF Locals
    <2> QED
      BY <2>1, <2>2
  <1>7. CASE ChangeFiles(c)
    BY <1>1, <1>7, Stepping DEF ChangeFiles, SInv
  <1>8. CASE SyncListing(c) \/ CallStops(c)
    BY <1>1, <1>8, Stepping DEF SyncListing, CallStops, SInv
  <1> QED
    BY <1>1, <1>3, <1>4, <1>5, <1>6, <1>7, <1>8

\* A step after which it does.
LEMMA MovesAlone ==
    ASSUME Alone, SInv, IInv', NEW c \in Calls, InOrder', Holds(c)'
    PROVE  SInv'
  BY DEF Alone, SInv

LEMMA SaveCampaignHolds ==
    ASSUME Alone, SInv, IInv', NEW c \in Calls, SaveCampaign(c)
    PROVE  SInv'
  <1> DEFINE in == call[c].save
  <1>1. call \in [Calls -> Locals] /\ call[c] \in Locals /\ in \in Save /\ campaign \in Campaign
    BY Request DEF SInv, IInv, Shape
  <1>2. revisions' = revisions /\ files' = files /\ campaign'.revision = campaign.revision
    BY <1>1 DEF SaveCampaign, Campaign
  <1>3. CASE Ends(c)
    BY <1>2, <1>3, RestsAlone, Stepping DEF SInv
  <1>4. CASE ~Ends(c)
    <2>1. /\ campaign' = [campaign EXCEPT !.status = in.status, !.product = in.product,
                                          !.edition = in.edition, !.posted = in.posted]
          /\ in.status # "draft"
          /\ call' = [call EXCEPT ![c].at = "latest", ![c].files = files]
      BY <1>4 DEF SaveCampaign
    <2>2. call'[c].at = "latest" /\ call'[c].save = in /\ call'[c].files = files
      BY <1>1, <2>1 DEF Locals
    <2>3. /\ campaign'.status = in.status /\ campaign'.product = in.product
          /\ campaign'.edition = in.edition /\ campaign'.posted = in.posted
      BY <1>1, <2>1 DEF Campaign
    <2>4. in = [status |-> in.status, product |-> in.product, edition |-> in.edition, posted |-> in.posted]
      BY <1>1 DEF Save
    <2>5. Published(in.status)
      BY <1>1, <2>1 DEF Save, Statuses, Published
    <2>6. Held(c)'
      BY <1>2, <2>2, <2>3, <2>4, <2>5 DEF Held
    <2>7. InOrder' /\ Holds(c)'
      BY <1>2, <2>2, <2>6 DEF SInv, InOrder, Holds, At
    <2> QED
      BY <2>7, MovesAlone
  <1> QED
    BY <1>3, <1>4

LEMMA ReadBackHolds ==
    ASSUME Alone, SInv, IInv', NEW c \in Calls, ReadBack(c)
    PROVE  SInv'
  <1> DEFINE save == [status |-> campaign.status, product |-> campaign.product,
                      edition |-> campaign.edition, posted |-> campaign.posted]
             step == IF Published(campaign.status) THEN "latest" ELSE "sync"
  <1>1. call \in [Calls -> Locals] /\ call[c] \in Locals
    BY Request DEF SInv, IInv, Shape
  <1>2. revisions' = revisions /\ files' = files /\ campaign' = campaign
    BY DEF ReadBack, rows
  <1>3. call'[c].at = step /\ call'[c].save = save /\ call'[c].files = files
    <2> HIDE DEF save, step
    <2>1. call' = [call EXCEPT ![c].at = step, ![c].files = files, ![c].save = save]
      BY DEF ReadBack, save, step
    <2> QED
      BY <1>1, <2>1 DEF Locals
  <1>4. InOrder'
    BY <1>2 DEF SInv, InOrder
  <1>5. Published(campaign.status) => Held(c)'
    BY <1>2, <1>3 DEF Held
  <1>6. Holds(c)'
    BY <1>2, <1>3, <1>5 DEF Holds, At
  <1> QED
    BY <1>4, <1>6, MovesAlone

LEMMA ReadLatestHolds ==
    ASSUME Alone, SInv, IInv', NEW c \in Calls, ReadLatest(c)
    PROVE  SInv'
  <1>1. /\ revisions' = revisions /\ files' = files /\ campaign' = campaign /\ At(c, "latest")
        /\ Held(c) /\ InOrder
    BY DEF ReadLatest, rows, SInv, Holds, At
  <1>2. InOrder'
    BY <1>1 DEF InOrder
  <1>3. Len(revisions) \in Nat /\ DOMAIN revisions = 1 .. Len(revisions)
    BY Counts DEF SInv, IInv
  <1>4. CASE Goes(c, "number")
    <2>1. call'[c].at = "number" /\ Held(c)'
      <3>1. call[c] \in Locals /\ call'[c] = [call[c] EXCEPT !.at = "number"]
        BY <1>4, Stepping, Request DEF SInv
      <3>2. call'[c].at = "number" /\ call'[c].save = call[c].save /\ call'[c].files = call[c].files
        BY <3>1 DEF Locals
      <3> QED
        BY <1>1, <3>2 DEF Held
    <2>2. Holds(c)'
      BY <2>1 DEF Holds, At
    <2> QED
      BY <1>2, <2>2, MovesAlone
  <1>5. ASSUME NEW r \in Latest, Goes(c, "sync"), revisions[r].terms = TermsFromCampaign(c) PROVE SInv'
    <2>1. call'[c].at = "sync" /\ Held(c)' /\ TermsFromCampaign(c)' = TermsFromCampaign(c)
      <3>1. call[c] \in Locals /\ call'[c] = [call[c] EXCEPT !.at = "sync"]
        BY <1>5, Stepping, Request DEF SInv
      <3>2. call'[c].at = "sync" /\ call'[c].save = call[c].save /\ call'[c].files = call[c].files
        BY <3>1 DEF Locals
      <3> QED
        BY <1>1, <3>2 DEF Held, TermsFromCampaign
    <2>2. r \in 1 .. Len(revisions) /\ \A s \in 1 .. Len(revisions) : revisions[s].version <= revisions[r].version
      BY <1>3, <1>5 DEF Latest
    <2>3. Len(revisions) \in 1 .. Len(revisions)
      BY <1>3, <2>2
    <2>4. revisions[r].version = r /\ revisions[Len(revisions)].version = Len(revisions)
      BY <1>1, <2>2, <2>3 DEF InOrder
    <2>5. revisions[Len(revisions)].version <= revisions[r].version
      BY <2>2, <2>3
    <2>6. r = Len(revisions)
      <3>1. Len(revisions) <= r
        BY <2>4, <2>5
      <3>2. r \in 1 .. Len(revisions) /\ Len(revisions) \in Nat
        BY <1>3, <2>2
      <3> QED
        BY <3>1, <3>2
    <2>7. campaign.revision = r /\ r # 0
      BY <1>1, <1>3, <2>2, <2>6 DEF InOrder
    <2>8. Holds(c)'
      BY <1>1, <1>5, <2>1, <2>7 DEF Holds, At
    <2> QED
      BY <1>2, <2>8, MovesAlone
  <1> QED
    BY <1>4, <1>5 DEF ReadLatest

LEMMA ReadNumberHolds ==
    ASSUME Alone, SInv, IInv', NEW c \in Calls, ReadNumber(c)
    PROVE  SInv'
  <1> DEFINE n == Len(revisions)
  <1>1. /\ revisions' = revisions /\ files' = files /\ campaign' = campaign /\ At(c, "number")
        /\ Held(c) /\ InOrder /\ call' = [call EXCEPT ![c].at = "revise", ![c].version = 1 + Highest]
    BY DEF ReadNumber, rows, SInv, Holds, At, Highest
  <1>2. InOrder'
    BY <1>1 DEF InOrder
  <1>3. n \in Nat /\ DOMAIN revisions = 1 .. n
    BY Counts DEF SInv, IInv
  <1>4. Highest = n
    <2>1. Highest \in 0 .. n /\ \A r \in DOMAIN revisions : Highest >= revisions[r].version
      BY <1>3, HighestIsOne DEF SInv, IInv
    <2>2. CASE n = 0
      BY <2>1, <2>2
    <2>3. CASE n # 0
      <3>1. n \in 1 .. n
        BY <1>3, <2>3
      <3>2. revisions[n].version = n
        BY <1>1, <3>1 DEF InOrder
      <3>3. Highest >= n
        BY <1>3, <2>1, <3>1, <3>2
      <3>4. Highest \in 0 .. n /\ n \in Nat
        BY <1>3, <2>1
      <3> QED
        BY <3>3, <3>4
    <2> QED
      BY <2>2, <2>3
  <1>5. 1 + Highest = n + 1
    BY <1>3, <1>4
  <1>6. /\ call'[c].at = "revise" /\ call'[c].save = call[c].save /\ call'[c].files = call[c].files
        /\ call'[c].version = n + 1
    <2>1. call \in [Calls -> Locals] /\ call[c] \in Locals
      BY DEF SInv, IInv, Shape
    <2> HIDE DEF n
    <2> QED
      BY <1>1, <1>5, <2>1 DEF Locals
  <1>7. Held(c)'
    BY <1>1, <1>6 DEF Held
  <1>8. Holds(c)'
    BY <1>1, <1>6, <1>7 DEF Holds, At
  <1> QED
    BY <1>2, <1>8, MovesAlone

LEMMA InsertRevisionHolds ==
    ASSUME Alone, SInv, IInv', NEW c \in Calls, InsertRevision(c)
    PROVE  SInv'
  <1> DEFINE n == Len(revisions)
             new == [version |-> call[c].version, edition |-> call[c].save.edition, terms |-> TermsFromCampaign(c)]
  <1>1. /\ revisions' = Append(revisions, new) /\ files' = files
        /\ campaign' = [campaign EXCEPT !.revision = Len(revisions')] /\ Goes(c, "sync") /\ At(c, "revise")
        /\ Held(c) /\ InOrder /\ call[c].version = n + 1
    BY DEF InsertRevision, SInv, Holds, At
  <1>2. n \in Nat /\ revisions \in Seq(Version) /\ DOMAIN revisions = 1 .. n /\ campaign \in Campaign
    BY Counts DEF SInv, IInv, Shape
  <1>3. /\ Len(revisions') = n + 1 /\ revisions'[n + 1] = new
        /\ \A r \in 1 .. n : revisions'[r] = revisions[r]
    BY <1>1, <1>2, AppendProperties
  <1>4. /\ campaign'.revision = n + 1 /\ campaign'.status = campaign.status /\ campaign'.product = campaign.product
        /\ campaign'.edition = campaign.edition /\ campaign'.posted = campaign.posted
    BY <1>1, <1>2, <1>3 DEF Campaign
  <1>5. new.version = n + 1 /\ new.terms = TermsFromCampaign(c)
    BY <1>1
  <1>6. InOrder'
    <2>1. ASSUME NEW r \in 1 .. n + 1 PROVE revisions'[r].version = r
      <3>1. CASE r = n + 1
        BY <1>3, <1>5, <3>1
      <3>2. CASE r # n + 1
        <4>1. r \in 1 .. n
          BY <1>2, <3>2
        <4> QED
          BY <1>1, <1>3, <4>1 DEF InOrder
      <3> QED
        BY <3>1, <3>2
    <2> QED
      BY <1>3, <1>4, <2>1 DEF InOrder
  <1>7. call'[c].at = "sync" /\ Held(c)' /\ TermsFromCampaign(c)' = TermsFromCampaign(c)
    <2>1. call[c] \in Locals /\ call'[c] = [call[c] EXCEPT !.at = "sync"]
      BY <1>1, Stepping, Request DEF SInv
    <2>2. call'[c].at = "sync" /\ call'[c].save = call[c].save /\ call'[c].files = call[c].files
      BY <2>1 DEF Locals
    <2> QED
      BY <1>1, <1>4, <2>2 DEF Held, TermsFromCampaign
  <1>8. campaign'.revision # 0 /\ revisions'[campaign'.revision].terms = TermsFromCampaign(c)
    BY <1>2, <1>3, <1>4, <1>5
  <1>9. Holds(c)'
    BY <1>7, <1>8 DEF Holds, At
  <1> QED
    BY <1>6, <1>9, MovesAlone

LEMMA StepHolds == PublishingAssumption /\ Alone /\ SInv /\ [Next]_vars => SInv'
  <1> SUFFICES ASSUME PublishingAssumption, Alone, SInv, [Next]_vars PROVE SInv'
    OBVIOUS
  <1>1. IInv'
    BY StepTypes DEF SInv
  <1>2. ASSUME NEW c \in Calls, SaveCampaign(c) \/ ReadBack(c) \/ ReadLatest(c) \/ ReadNumber(c) \/ InsertRevision(c)
        PROVE  SInv'
    BY <1>1, <1>2, SaveCampaignHolds, ReadBackHolds, ReadLatestHolds, ReadNumberHolds, InsertRevisionHolds
  <1>3. ASSUME NEW c \in Calls,
               \/ \E input \in Save : Create(c, input) \/ UpdateDraft(c, input) \/ Update(c, input)
               \/ \E r \in DOMAIN revisions : RestoreRevision(c, r)
               \/ \E f \in Files : ReadStatus(c, f)
               \/ ReadCampaign(c) \/ ChangeFiles(c) \/ SyncListing(c) \/ CallStops(c)
        PROVE  SInv'
    <2>1. /\ campaign' = campaign /\ revisions' = revisions
          /\ call'[c].at \in {"idle", "read", "save", "files", "reread"}
      BY <1>3, RestingActions
    <2> QED
      BY <1>1, <2>1, RestsAlone
  <1>4. CASE Disconnect \/ UNCHANGED vars
    <2>1. UNCHANGED <<campaign, files, revisions, call>>
      BY <1>4 DEF Disconnect, vars
    <2> QED
      BY <1>1, <2>1 DEF SInv, InOrder, Holds, Held, At, TermsFromCampaign
  <1> QED
    BY <1>2, <1>3, <1>4 DEF Next

LEMMA StepAgrees == SInv /\ [Next]_vars => [SaveAgrees]_vars
  <1> SUFFICES ASSUME SInv, NEW c \in Calls, SyncListing(c), Published(campaign.status) PROVE Agrees'
    BY DEF SaveAgrees
  <1> DEFINE in == call[c].save
  <1>1. /\ Held(c) /\ campaign.revision # 0 /\ revisions[campaign.revision].terms = TermsFromCampaign(c)
        /\ UNCHANGED <<campaign, files, revisions, linked>>
    BY DEF SInv, Holds, SyncListing
  <1>2. /\ in.status = campaign.status /\ in.product = campaign.product
        /\ in.edition = campaign.edition /\ in.posted = campaign.posted /\ Published(in.status)
        /\ call[c].files = files /\ campaign.posted \in BOOLEAN
    BY <1>1, Request DEF Held, SInv
  <1>3. TermsFromCampaign(c) = [product |-> campaign.product, edition |-> campaign.edition, files |-> files]
    BY <1>2 DEF TermsFromCampaign
  <1>4. CASE campaign.posted
    <2>1. listing' = [up |-> TRUE, open |-> in.status = "active", edition |-> in.edition]
      BY <1>2, <1>4 DEF SyncListing
    <2>2. listing'.up = TRUE /\ listing'.open = (in.status = "active") /\ listing'.edition = in.edition
      BY <2>1
    <2> QED
      BY <1>1, <1>2, <1>3, <1>4, <2>2 DEF Agrees
  <1>5. CASE ~campaign.posted
    <2>1. listing'.up = FALSE
      BY <1>2, <1>5 DEF SyncListing, NoListing
    <2> QED
      BY <1>1, <1>2, <1>3, <1>5, <2>1 DEF Agrees
  <1> QED
    BY <1>2, <1>4, <1>5

(* A save that completes leaves the current version and the listing as the  *)
(* campaign is, whatever the requests before it left half-done, as long as  *)
(* no two overlap (maybeRecordPublishedRevision, syncFromCampaign).         *)
THEOREM SaveRepairs == PublishingAssumption /\ Alone => (Spec => SavedIsPublished)
  <1> SUFFICES ASSUME PublishingAssumption, Alone PROVE Spec => SavedIsPublished
    OBVIOUS
  <1>1. Init => SInv
    BY HoldsInitially
  <1>2. SInv /\ [Next]_vars => SInv'
    BY StepHolds
  <1>3. SInv /\ [Next]_vars => [SaveAgrees]_vars
    BY StepAgrees
  <1> QED
    BY <1>1, <1>2, <1>3, PTL DEF Spec, SavedIsPublished
=============================================================================
