------------------------- MODULE CampaignAdmission -------------------------
(***************************************************************************)
(* How creators come to work on one campaign: they apply to its listing    *)
(* and the brand decides (marketplace.service.ts), or the brand invites    *)
(* them and they answer (invites.service.ts).  An acceptance ends in a     *)
(* snapshot of the terms.  No step is in a transaction with another.  The  *)
(* listing is changed by CampaignPublishing, of which this module only     *)
(* keeps that it comes, closes, changes its slots and goes.  A base that   *)
(* is prepaid adds the rules of CampaignFunding.                           *)
(***************************************************************************)
EXTENDS Naturals, Sequences, FiniteSets

CONSTANTS
    Calls,          \* concurrent requests
    Creators,
    Slots,          \* the sizes a listing may have
    MaxRows         \* bound: invites, and applications, ever made

AdmissionAssumption == Slots \subseteq Nat /\ MaxRows \in Nat /\ Creators # {}

VARIABLES
    listing,        \* marketplace_listing
    applications,   \* marketplace_application
    invites,        \* campaign_invite
    snapshots,      \* campaign_acceptance_snapshot of each creator
    call            \* the local variables of each request

vars == <<listing, applications, invites, snapshots, call>>

NoListing == [up |-> FALSE, open |-> FALSE, slots |-> 0]
NoSnapshot == [source |-> "none", row |-> 0]
NoCall == [at |-> "idle", creator |-> CHOOSE k \in Creators : TRUE, row |-> 0, invite |-> 0, decision |-> "none"]

Init ==
    /\ listing = NoListing
    /\ applications = <<>> /\ invites = <<>>
    /\ snapshots = [k \in Creators |-> NoSnapshot]
    /\ call = [c \in Calls |-> NoCall]

At(c, step) == call[c].at = step
Ends(c) == call' = [call EXCEPT ![c] = NoCall]
Goes(c, step) == call' = [call EXCEPT ![c].at = step]

Rows(seq, k) == {r \in DOMAIN seq : seq[r].creator = k}
Applied(k) == {a \in Rows(applications, k) : applications[a].status # "deleted"}

\* countAcceptedCreators: by an application or by an invite.
Accepted ==
    {k \in Creators : \/ \E a \in Rows(applications, k) : applications[a].status = "accepted"
                      \/ \E i \in Rows(invites, k) : invites[i].status = "accepted"}

\* mapListing: slotsLeft > 0
SlotsLeft == listing.slots > Cardinality(Accepted)

\* syncFromCampaign lists the campaign, or closes or changes its listing.
ListCampaign(open, n) ==
    /\ listing' = [up |-> TRUE, open |-> open, slots |-> n]
    /\ listing' # listing
    /\ UNCHANGED <<applications, invites, snapshots, call>>

\* Deleting the listing deletes the applications to it.
Unlist ==
    /\ listing.up /\ listing' = NoListing
    /\ applications' = [a \in DOMAIN applications |-> [applications[a] EXCEPT !.status = "deleted"]]
    /\ UNCHANGED <<invites, snapshots, call>>

-----------------------------------------------------------------------------
(* Applications.                                                            *)

\* apply reads the listing and whether the creator has applied.
ReadListing(c, k) ==
    /\ At(c, "idle") /\ listing.up /\ listing.open /\ SlotsLeft /\ Applied(k) = {}
    /\ call' = [call EXCEPT ![c].at = "apply", ![c].creator = k]
    /\ UNCHANGED <<listing, applications, invites, snapshots>>

Apply(c) ==
    /\ At(c, "apply") /\ listing.up /\ Len(applications) < MaxRows
    /\ applications' = Append(applications, [creator |-> call[c].creator, status |-> "pending"])
    /\ Ends(c)
    /\ UNCHANGED <<listing, invites, snapshots>>

\* respondToApplication reads the listing and the application.
ReadApplication(c, a, decision) ==
    /\ At(c, "idle") /\ applications[a].status = "pending"
    /\ decision = "accepted" => SlotsLeft
    /\ call' = [call EXCEPT ![c].at = "respond", ![c].creator = applications[a].creator, ![c].row = a,
                            ![c].decision = decision]
    /\ UNCHANGED <<listing, applications, invites, snapshots>>

\* Faulty: the application is updated whatever it reads.
Respond_Unchecked(c) ==
    LET a == call[c].row IN
    /\ At(c, "respond")
    /\ applications' = [applications EXCEPT ![a].status = call[c].decision]
    /\ IF call[c].decision = "accepted" THEN Goes(c, "findInvite") ELSE Ends(c)
    /\ UNCHANGED <<listing, invites, snapshots>>

\* updateApplicationStatus, where it is still pending; the notices follow.
Respond(c) ==
    LET a == call[c].row IN
    /\ At(c, "respond")
    /\ IF applications[a].status # "pending" THEN Ends(c) /\ UNCHANGED applications
       ELSE /\ applications' = [applications EXCEPT ![a].status = call[c].decision]
            /\ IF call[c].decision = "accepted" THEN Goes(c, "findInvite") ELSE Ends(c)
    /\ UNCHANGED <<listing, invites, snapshots>>

\* upsertAcceptedCampaignInvite finds the creator's invite, if there is one,
FindInvite(c) ==
    LET found == Rows(invites, call[c].creator) IN
    /\ At(c, "findInvite")
    /\ \/ found = {} /\ Goes(c, "addInvite")
       \/ \E i \in found : call' = [call EXCEPT ![c].at = "overwriteInvite", ![c].invite = i]
    /\ UNCHANGED <<listing, applications, invites, snapshots>>

\* and overwrites it, also one that was declined, or adds one.
AcceptInvite(c) ==
    /\ \/ /\ At(c, "overwriteInvite")
          /\ invites' = [invites EXCEPT ![call[c].invite].status = "accepted"]
       \/ /\ At(c, "addInvite") /\ Len(invites) < MaxRows
          /\ invites' = Append(invites, [creator |-> call[c].creator, status |-> "accepted"])
    /\ Goes(c, "applicationTerms")
    /\ UNCHANGED <<listing, applications, snapshots>>

-----------------------------------------------------------------------------
(* Invites.                                                                 *)

\* createCampaignInvite reads that the creator has no invite, and the campaign.
ReadNoInvite(c, k) ==
    /\ At(c, "idle") /\ Rows(invites, k) = {}
    /\ call' = [call EXCEPT ![c].at = "invite", ![c].creator = k]
    /\ UNCHANGED <<listing, applications, invites, snapshots>>

Invite(c) ==
    /\ At(c, "invite") /\ Len(invites) < MaxRows
    /\ invites' = Append(invites, [creator |-> call[c].creator, status |-> "sent"])
    /\ Ends(c)
    /\ UNCHANGED <<listing, applications, snapshots>>

\* respondToCampaignInvite finds an invite of the creator that is still open.
ReadInvite(c, i, decision) ==
    /\ At(c, "idle") /\ invites[i].status = "sent"
    /\ call' = [call EXCEPT ![c].at = "answer", ![c].creator = invites[i].creator, ![c].invite = i,
                            ![c].decision = decision]
    /\ UNCHANGED <<listing, applications, invites, snapshots>>

\* updateCampaignInviteStatus, where it is still open.
Answer(c) ==
    LET i == call[c].invite IN
    /\ At(c, "answer")
    /\ IF invites[i].status # "sent" THEN Ends(c) /\ UNCHANGED invites
       ELSE /\ invites' = [invites EXCEPT ![i].status = call[c].decision]
            /\ IF call[c].decision = "accepted" THEN Goes(c, "inviteTerms") ELSE Ends(c)
    /\ UNCHANGED <<listing, applications, snapshots>>

\* createAcceptanceSnapshot: the campaign as it reads now, unless there is one already.
Snapshot(c) ==
    LET k == call[c].creator
        source == IF At(c, "inviteTerms") THEN "invite" ELSE "application"
    IN /\ At(c, "inviteTerms") \/ At(c, "applicationTerms")
       /\ snapshots' = IF snapshots[k] # NoSnapshot THEN snapshots
                       ELSE [snapshots EXCEPT ![k] =
                                [source |-> source, row |-> IF source = "invite" THEN call[c].invite ELSE call[c].row]]
       /\ Ends(c)
       /\ UNCHANGED <<listing, applications, invites>>

\* A statement throws, or the process dies.
CallStops(c) == ~At(c, "idle") /\ Ends(c) /\ UNCHANGED <<listing, applications, invites, snapshots>>

Next ==
    \/ \E open \in BOOLEAN, n \in Slots : ListCampaign(open, n)
    \/ Unlist
    \/ \E c \in Calls :
        \/ \E k \in Creators : ReadListing(c, k) \/ ReadNoInvite(c, k)
        \/ \E a \in DOMAIN applications, decision \in {"accepted", "rejected"} : ReadApplication(c, a, decision)
        \/ \E i \in DOMAIN invites, decision \in {"accepted", "declined"} : ReadInvite(c, i, decision)
        \/ Apply(c) \/ Respond(c) \/ FindInvite(c) \/ AcceptInvite(c)
        \/ Invite(c) \/ Answer(c) \/ Snapshot(c)
        \/ CallStops(c)

Spec == Init /\ [][Next]_vars

-----------------------------------------------------------------------------

Steps == {"idle", "apply", "respond", "findInvite", "addInvite", "overwriteInvite", "applicationTerms",
          "invite", "answer", "inviteTerms"}

TypeOK ==
    /\ listing \in [up : BOOLEAN, open : BOOLEAN, slots : Slots \cup {0}]
    /\ applications \in Seq([creator : Creators, status : {"pending", "accepted", "rejected", "deleted"}])
    /\ invites \in Seq([creator : Creators, status : {"sent", "accepted", "declined"}])
    /\ snapshots \in [Creators -> [source : {"none", "invite", "application"}, row : Nat]]
    /\ call \in [Calls -> [at : Steps, creator : Creators, row : Nat, invite : Nat,
                           decision : {"none", "accepted", "rejected", "declined"}]]

(* Terms are accepted by an answer that stands: the invite or the           *)
(* application a snapshot names still reads accepted, however answers by    *)
(* the creator and decisions by the brand crossed.  (A listing that was     *)
(* taken down took its applications with it.)                               *)
AcceptanceBacked ==
    \A k \in Creators :
        LET s == snapshots[k] IN
        /\ s.source = "invite" => invites[s.row].status = "accepted" /\ invites[s.row].creator = k
        /\ s.source = "application" =>
              applications[s.row].status \in {"accepted", "deleted"} /\ applications[s.row].creator = k
=============================================================================
