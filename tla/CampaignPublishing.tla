------------------------- MODULE CampaignPublishing -------------------------
(***************************************************************************)
(* The row of one campaign, its published versions and its marketplace     *)
(* listing (campaigns.service.ts, campaign-products.service.ts).  A save   *)
(* is a sequence of statements: the row, under a lock that checks only the *)
(* product; the version, numbered after the highest one; the listing.      *)
(* Several requests of the brand may be inside that sequence at once, and  *)
(* each may stop anywhere.                                                 *)
(***************************************************************************)
EXTENDS Naturals, Sequences, FiniteSetsExt

CONSTANTS
    Calls,                  \* concurrent requests
    Products, NoProduct,
    Editions,               \* what the terms other than the product and the files may say
    Files,                  \* files the brand may attach
    MaxRevisions            \* bound: versions ever published

PublishingAssumption ==
    NoProduct \notin Products /\ Editions # {} /\ MaxRevisions \in Nat

VARIABLES
    campaign,       \* the row of the campaign
    files,          \* campaign_file
    revisions,      \* campaign_revision, in the order of insertion
    listing,        \* marketplace_listing
    linked,         \* whether the Merchant link of the products is live
    call            \* the local variables of each request

vars == <<campaign, files, revisions, listing, linked, call>>
rows == <<campaign, files, revisions, listing, linked>>

Selection == Products \cup {NoProduct}
Statuses == {"absent", "draft", "active", "paused"}

\* UpsertCampaignDto: what a save asks for.
Save == [status : Statuses \ {"absent"}, product : Selection, edition : Editions, posted : BOOLEAN]
NoSave == [status |-> "draft", product |-> NoProduct, edition |-> CHOOSE e \in Editions : TRUE, posted |-> FALSE]
NoListing == [up |-> FALSE, open |-> FALSE, edition |-> NoSave.edition]
NoCall == [at |-> "idle", save |-> NoSave, files |-> {}, published |-> FALSE, version |-> 0]

Init ==
    /\ campaign = [status |-> "absent", product |-> NoProduct, edition |-> NoSave.edition, posted |-> FALSE,
                   revision |-> 0]
    /\ files = {} /\ revisions = <<>>
    /\ listing = NoListing /\ linked = TRUE
    /\ call = [c \in Calls |-> NoCall]

At(c, step) == call[c].at = step
Ends(c) == call' = [call EXCEPT ![c] = NoCall]
Goes(c, step) == call' = [call EXCEPT ![c].at = step]

\* isPublishedCampaignStatus
Published(status) == status \in {"active", "paused"}

\* termsFromCampaign, of what the request holds.
TermsFromCampaign(c) ==
    [product |-> call[c].save.product, edition |-> call[c].save.edition, files |-> call[c].files]

-----------------------------------------------------------------------------
(* What starts a save.                                                      *)

\* create prepares the products; saveDraft drops them.
Create(c, input) ==
    /\ At(c, "idle") /\ campaign.status = "absent"
    /\ \/ /\ Published(input.status) /\ (input.product # NoProduct => linked)
          /\ call' = [call EXCEPT ![c].at = "save", ![c].save = input]
       \/ /\ input.status = "draft" /\ input.product = NoProduct
          /\ call' = [call EXCEPT ![c].at = "save", ![c].save = input]
    /\ UNCHANGED rows

\* updateDraft reads the row; what it writes selects no product.
UpdateDraft(c, input) ==
    /\ At(c, "idle") /\ campaign.status = "draft"
    /\ input.status = "draft" /\ input.product = NoProduct
    /\ call' = [call EXCEPT ![c].at = "save", ![c].save = input]
    /\ UNCHANGED rows

Update(c, input) ==
    /\ At(c, "idle") /\ campaign.status # "absent" /\ Published(input.status)
    /\ call' = [call EXCEPT ![c].at = "read", ![c].save = input]
    /\ UNCHANGED rows

\* restoreRevision: the terms of a version; the status and the posting as they read now.
RestoreRevision(c, r) ==
    /\ At(c, "idle") /\ Published(campaign.status)
    /\ call' = [call EXCEPT ![c].at = "read",
            ![c].save = [status |-> campaign.status, product |-> campaign.product,
                         edition |-> revisions[r].edition, posted |-> campaign.posted]]
    /\ UNCHANGED rows

\* update reads the row.  prepare keeps the products of a published campaign; products
\* that are being chosen or activated need the Merchant link.  The capacity may be
\* below the creators accepted by then.
ReadCampaign(c) ==
    LET in == call[c].save
        was == Published(campaign.status)
        product == IF was THEN campaign.product ELSE in.product
        verifies == product # NoProduct /\ (~was \/ (in.status = "active" /\ campaign.status # "active"))
    IN /\ At(c, "read")
       /\ \/ Ends(c)
          \/ /\ verifies => linked
             /\ call' = [call EXCEPT ![c].at = "save", ![c].published = was, ![c].save.product = product]
       /\ UNCHANGED rows

\* uploadFile and deleteFile remember whether the campaign was published.
ReadStatus(c, f) ==
    /\ At(c, "idle") /\ campaign.status # "absent"
    /\ call' = [call EXCEPT ![c].at = "files", ![c].files = {f}, ![c].published = Published(campaign.status)]
    /\ UNCHANGED rows

-----------------------------------------------------------------------------
(* The sequence.                                                            *)

\* Faulty: the row is not read again under the lock.
Refused_Stale(c) == ~call[c].published /\ call[c].save.product # NoProduct /\ ~linked

\* What saveWithProductLink refuses, with the row locked.
Refused(c) ==
    LET in == call[c].save IN
    IF Published(campaign.status)
    THEN in.product # campaign.product \/ (campaign.product # NoProduct /\ in.status = "draft")
    ELSE in.product # NoProduct /\ ~linked

\* The row comes back with the files it has by then.  Only create and update go on.
SaveCampaign(c) ==
    LET in == call[c].save IN
    /\ At(c, "save")
    /\ IF Refused(c) THEN Ends(c) /\ UNCHANGED campaign
       ELSE /\ campaign' = [campaign EXCEPT !.status = in.status, !.product = in.product,
                                            !.edition = in.edition, !.posted = in.posted]
            /\ IF in.status = "draft" THEN Ends(c)
               ELSE call' = [call EXCEPT ![c].at = "latest", ![c].files = files]
    /\ UNCHANGED <<files, revisions, listing, linked>>

\* createFile and deleteFile.
ChangeFiles(c) ==
    /\ At(c, "files")
    /\ files' \in {files \cup call[c].files, files \ call[c].files}
    /\ Goes(c, "reread")
    /\ UNCHANGED <<campaign, revisions, listing, linked>>

ReadBack(c) ==
    /\ At(c, "reread")
    /\ call' = [call EXCEPT
            ![c].at = IF Published(campaign.status) THEN "latest" ELSE "sync",
            ![c].files = files,
            ![c].save = [status |-> campaign.status, product |-> campaign.product,
                         edition |-> campaign.edition, posted |-> campaign.posted]]
    /\ UNCHANGED rows

\* getLatestRevision: of the highest number.
Latest == {r \in DOMAIN revisions : \A s \in DOMAIN revisions : revisions[s].version <= revisions[r].version}

\* Faulty: only the publication itself must write a version.
ReadLatest_PublishOnly(c) ==
    /\ At(c, "latest")
    /\ IF ~call[c].published THEN Goes(c, "number")
       ELSE IF Latest = {} THEN Goes(c, "sync")
       ELSE \E r \in Latest : Goes(c, IF revisions[r].terms = TermsFromCampaign(c) THEN "sync" ELSE "number")
    /\ UNCHANGED rows

\* maybeRecordPublishedRevision: a version is written at publication, when there is
\* none, and when the terms are not those of the latest one.
ReadLatest(c) ==
    /\ At(c, "latest")
    /\ IF ~call[c].published \/ Latest = {} THEN Goes(c, "number")
       ELSE \E r \in Latest : Goes(c, IF revisions[r].terms = TermsFromCampaign(c) THEN "sync" ELSE "number")
    /\ UNCHANGED rows

\* insertRevision reads the highest number, which it does not lock,
ReadNumber(c) ==
    /\ At(c, "number")
    /\ call' = [call EXCEPT ![c].at = "revise",
                            ![c].version = 1 + Max({0} \cup {revisions[r].version : r \in DOMAIN revisions})]
    /\ UNCHANGED rows

\* and inserts the version and makes it the current one, in one transaction.
InsertRevision(c) ==
    /\ At(c, "revise") /\ Len(revisions) < MaxRevisions
    /\ revisions' = Append(revisions, [version |-> call[c].version, edition |-> call[c].save.edition,
                                       terms |-> TermsFromCampaign(c)])
    /\ campaign' = [campaign EXCEPT !.revision = Len(revisions')]
    /\ Goes(c, "sync")
    /\ UNCHANGED <<files, listing, linked>>

\* syncFromCampaign, with the row as the request holds it.
SyncListing(c) ==
    LET in == call[c].save IN
    /\ At(c, "sync")
    /\ listing' = IF in.posted /\ Published(in.status)
                  THEN [up |-> TRUE, open |-> in.status = "active", edition |-> in.edition]
                  ELSE NoListing
    /\ Ends(c)
    /\ UNCHANGED <<campaign, files, revisions, linked>>

\* A statement throws, or the process dies.
CallStops(c) == ~At(c, "idle") /\ Ends(c) /\ UNCHANGED rows

\* The brand is disconnected from Merchant Hub; connecting it again makes another link.
Disconnect == linked /\ linked' = FALSE /\ UNCHANGED <<campaign, files, revisions, listing, call>>

Next ==
    \/ \E c \in Calls :
        \/ \E input \in Save : Create(c, input) \/ UpdateDraft(c, input) \/ Update(c, input)
        \/ \E r \in DOMAIN revisions : RestoreRevision(c, r)
        \/ \E f \in Files : ReadStatus(c, f)
        \/ ReadCampaign(c) \/ SaveCampaign(c) \/ ChangeFiles(c) \/ ReadBack(c)
        \/ ReadLatest(c) \/ ReadNumber(c) \/ InsertRevision(c) \/ SyncListing(c)
        \/ CallStops(c)
    \/ Disconnect

Spec == Init /\ [][Next]_vars

-----------------------------------------------------------------------------

TypeOK ==
    /\ campaign \in [status : Statuses, product : Selection, edition : Editions, posted : BOOLEAN,
                     revision : 0 .. MaxRevisions]
    /\ files \subseteq Files /\ linked \in BOOLEAN
    /\ listing \in [up : BOOLEAN, open : BOOLEAN, edition : Editions]
    /\ Len(revisions) <= MaxRevisions
    /\ revisions \in Seq([version : 1 .. MaxRevisions, edition : Editions,
                          terms : [product : Selection, edition : Editions, files : SUBSET Files]])
    /\ \A c \in Calls : call[c].save \in Save /\ call[c].files \subseteq Files

(* Publication freezes the product selection: of two saves that both read a *)
(* draft, the later cannot replace the selection the earlier published, and *)
(* a draft save that read a draft cannot unlock it (saveWithProductLink).   *)
ProductKept ==
    Published(campaign.status) /\ campaign.product # NoProduct =>
        Published(campaign'.status) /\ campaign'.product = campaign.product

ProductLocked == [][ProductKept]_vars

\* The published version and the listing say what the campaign says.
Agrees ==
    /\ campaign.revision # 0 /\ revisions[campaign.revision].terms =
          [product |-> campaign.product, edition |-> campaign.edition, files |-> files]
    /\ listing.up = campaign.posted
    /\ listing.up => listing.edition = campaign.edition /\ listing.open = (campaign.status = "active")

(* A save that completes repairs what earlier ones left behind when they    *)
(* stopped half-way: the current version and the listing then match the     *)
(* campaign (maybeRecordPublishedRevision, syncFromCampaign).  It is asked  *)
(* of requests made one at a time: saves that overlap do break it.          *)
SaveAgrees ==
    \A c \in Calls : SyncListing(c) /\ Published(campaign.status) => Agrees'

SavedIsPublished == [][SaveAgrees]_vars
=============================================================================
