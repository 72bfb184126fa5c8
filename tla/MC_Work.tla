------------------------------- MODULE MC_Work -------------------------------
(***************************************************************************)
(* The components around one campaign on small instances, side by side: its*)
(* row and versions, admission, drafts, tracking, earnings and payment, and*)
(* what a creator keeps beside it: social accounts and a pipeline of deals.*)
(* A behaviour is one of a single component, chosen at the start, so that  *)
(* the run checks all of them at the cost of their sum; where one writes   *)
(* what another reads, the other's module says so as an action of its own. *)
(***************************************************************************)
EXTENDS CreatorPayout, Sequences, TLC

CONSTANTS
    OneCall,                    \* a single request, where they are made one at a time
    Products, NoProduct,
    Applicants, Slots, MaxAnswers,
    MaxDrafts, MaxFiles,
    Events, MaxRevision, Net, Facts, Terms,
    Creators, Shoppers, NoShopper, Legacy,
    Conversions, MaxGrants,
    Providers, Strict,
    Listings, Unlisted, MaxEntries, People, NoPerson

VARIABLES
    component,                  \* the one that moves in this behaviour
    campaign, files, revisions, listing, linked, publishing,        \* CampaignPublishing
    offer, applications, invites, snapshots, admission,             \* CampaignAdmission
    rows, stored, made, review,                                     \* ContentReview
    terms, claimed, ledger, acknowledged, holder, ingest,           \* CommissionEarnings
    installs, active, product, links, grants, receipts, touch, credits, tracking,  \* CreatorTracking
    accepted, connection, posts, directory, content, cleared, social,       \* SocialAccounts
    deals, jobs, invoices, people, crm                              \* CreatorCrm

publishingVars == <<campaign, files, revisions, listing, linked, publishing>>
admissionVars == <<offer, applications, invites, snapshots, admission>>
reviewVars == <<rows, stored, made, review>>
earningsVars == <<terms, claimed, ledger, acknowledged, holder, ingest>>
trackingVars == <<installs, active, product, links, grants, receipts, touch, credits, tracking>>
socialVars == <<accepted, connection, posts, directory, content, cleared, social>>
crmVars == <<deals, jobs, invoices, people, crm>>

-----------------------------------------------------------------------------

\* Requests that overlap, and a product that may be replaced.
Publishing == INSTANCE CampaignPublishing WITH
    call <- publishing, Editions <- {"terms"}, Files <- {}, MaxRevisions <- 1

\* Requests one after the other, and everything a version says.
Versions == INSTANCE CampaignPublishing WITH
    call <- publishing, Calls <- OneCall, Products <- {"product"}, Editions <- {"terms", "other terms"},
    Files <- {"brief"}, MaxRevisions <- 2

Admission == INSTANCE CampaignAdmission WITH
    call <- admission, listing <- offer, Creators <- Applicants, MaxRows <- MaxAnswers

Review == INSTANCE ContentReview WITH call <- review, MaxRows <- MaxDrafts

None == -1
Fact(fee, net, refundedFee, full) ==
    [sale |-> "original", fee |-> fee, refundedNet |-> net, refundedFee |-> refundedFee, full |-> full, hold |-> full]

\* A clean sale of three cents; part of it, its merchandise, or all of it refunded; no fee
\* known yet; more of the fee refunded than there was; another sale.
SomeFacts ==
    {Fact(3, 0, None, FALSE), Fact(3, 2, 1, FALSE), Fact(3, 3, None, FALSE), Fact(3, 3, 3, TRUE),
     Fact(None, 0, 0, FALSE), Fact(1, 2, 3, FALSE), [Fact(3, 3, 3, FALSE) EXCEPT !.sale = "other"]}

\* Half of the sale, half of the platform's fee, or two cents.
SomeTerms ==
    {[type |-> type, points |-> 5000, fixed |-> 2] :
        type \in {"percentage_of_sale", "percentage_of_platform_commission", "fixed_amount_per_sale"}}

Earnings == INSTANCE CommissionEarnings WITH call <- ingest

Tracking == INSTANCE CreatorTracking WITH call <- tracking, linked <- product

\* The requests of one creator, one after the other.
Social == INSTANCE SocialAccounts WITH call <- social, Calls <- OneCall

Pipeline == INSTANCE CreatorCrm WITH call <- crm, Calls <- OneCall, People <- {}, MaxRows <- MaxEntries

Contacts == INSTANCE CreatorCrm WITH call <- crm, Calls <- OneCall, MaxRows <- 0

ASSUME PublishingAssumption == Publishing!PublishingAssumption /\ Versions!PublishingAssumption
ASSUME AdmissionAssumption == Admission!AdmissionAssumption
ASSUME ReviewAssumption == Review!ReviewAssumption
ASSUME EarningsAssumption == Earnings!EarningsAssumption
ASSUME TrackingAssumption == Tracking!TrackingAssumption
ASSUME SocialAssumption == Social!SocialAssumption
ASSUME CrmAssumption == Pipeline!CrmAssumption /\ Contacts!CrmAssumption
ASSUME OneCallAssumption == \A c, d \in OneCall : c = d

-----------------------------------------------------------------------------

WorkInit ==
    /\ component \in {"payout", "publishing", "versions", "admission", "review", "earnings", "tracking",
                     "social", "pipeline", "contacts"}
    /\ Init
    /\ IF component = "versions" THEN Versions!Init ELSE Publishing!Init
    /\ Admission!Init /\ Review!Init
    /\ Earnings!Init /\ (component # "earnings" => ~claimed /\ terms.type = "percentage_of_sale")
    /\ Tracking!Init /\ (component # "tracking" => ~installs)
    /\ Social!Init /\ (component # "social" => ~accepted)
    /\ IF component = "contacts" THEN Contacts!Init ELSE Pipeline!Init

WorkNext ==
    /\ UNCHANGED component
    /\ \/ /\ component = "payout" /\ Next
          /\ UNCHANGED <<publishingVars, admissionVars, reviewVars, earningsVars, trackingVars, socialVars, crmVars>>
       \/ /\ component = "publishing" /\ Publishing!Next
          /\ UNCHANGED <<vars, admissionVars, reviewVars, earningsVars, trackingVars, socialVars, crmVars>>
       \/ /\ component = "versions" /\ Versions!Next
          /\ UNCHANGED <<vars, admissionVars, reviewVars, earningsVars, trackingVars, socialVars, crmVars>>
       \/ /\ component = "admission" /\ Admission!Next
          /\ UNCHANGED <<vars, publishingVars, reviewVars, earningsVars, trackingVars, socialVars, crmVars>>
       \/ /\ component = "review" /\ Review!Next
          /\ UNCHANGED <<vars, publishingVars, admissionVars, earningsVars, trackingVars, socialVars, crmVars>>
       \/ /\ component = "earnings" /\ Earnings!Next
          /\ UNCHANGED <<vars, publishingVars, admissionVars, reviewVars, trackingVars, socialVars, crmVars>>
       \/ /\ component = "tracking" /\ Tracking!Next
          /\ UNCHANGED <<vars, publishingVars, admissionVars, reviewVars, earningsVars, socialVars, crmVars>>
       \/ /\ component = "social" /\ Social!Next
          /\ UNCHANGED <<vars, publishingVars, admissionVars, reviewVars, earningsVars, trackingVars, crmVars>>
       \/ /\ component = "pipeline" /\ Pipeline!Next
          /\ UNCHANGED <<vars, publishingVars, admissionVars, reviewVars, earningsVars, trackingVars, socialVars>>
       \/ /\ component = "contacts" /\ Contacts!Next
          /\ UNCHANGED <<vars, publishingVars, admissionVars, reviewVars, earningsVars, trackingVars, socialVars>>

WorkSpec ==
    WorkInit /\ [][WorkNext]_<<component, vars, publishingVars, admissionVars, reviewVars, earningsVars,
                              trackingVars, socialVars, crmVars>>

\* Requests are alike, and so are products.
Symmetry == Permutations(Calls) \cup Permutations(Products)

-----------------------------------------------------------------------------

\* The variables of every component have their types.
WorkTypeOK ==
    /\ TypeOK
    /\ IF component = "versions" THEN Versions!TypeOK ELSE Publishing!TypeOK
    /\ Admission!TypeOK /\ Review!TypeOK /\ Earnings!TypeOK /\ Tracking!TypeOK /\ Social!TypeOK
    /\ IF component = "contacts" THEN Contacts!TypeOK ELSE Pipeline!TypeOK

(* Publication freezes the product selection, however saves overlap         *)
(* (saveWithProductLink).                                                   *)
ProductLocked == [][component = "publishing" => Publishing!ProductKept]_publishingVars

(* A save that completes leaves the version and the listing matching the    *)
(* campaign, whatever earlier ones left half-done (update, syncFromCampaign).*)
SavedIsPublished == [][component = "versions" => Versions!SaveAgrees]_publishingVars

\* A snapshot of accepted terms names an answer that still stands.
AcceptanceBacked == Admission!AcceptanceBacked

\* The file a draft names can be read.
FileKept == Review!FileKept

(* The ledger of a line has no gap and no double, its adjustments add up to *)
(* what its latest revision accrues, and an acknowledged event is in it,    *)
(* with its facts (ingest, commissionResult).                               *)
LedgerExact == Earnings!LedgerExact

\* What a refund reversed stays reversed (ingest).
ReversedStays == Earnings!ReversedStays

\* All receipts of a grant are for the shopper it names (claim, validate).
OneShopper == Tracking!OneShopper

\* A receipt is answered on a link that is still there (context).
AnsweredWhileLinked == Tracking!AnsweredWhileLinked

(* A provider that was disconnected cannot be asked, and nothing is shown   *)
(* as synchronised with it (disconnect, after synchronisations, imports and *)
(* failures of before, one request at a time).                              *)
DisconnectedStaysOff == Social!DisconnectedStaysOff

(* A creator's pipeline holds no double and no job at odds with its invoice *)
(* (moveDealStage, addListingToPipeline, createPayment, updatePayment,      *)
(* createBrandPerson, updateBrandPerson).                                   *)
PipelineConsistent == IF component = "contacts" THEN Contacts!PipelineConsistent ELSE Pipeline!PipelineConsistent
=============================================================================
