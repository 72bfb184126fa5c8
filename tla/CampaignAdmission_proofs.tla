---------------------- MODULE CampaignAdmission_proofs ----------------------
(***************************************************************************)
(* Theorems about CampaignAdmission for every number of concurrent         *)
(* requests, of creators and of rows, and any sizes of the listing.        *)
(***************************************************************************)
EXTENDS CampaignAdmission, SequenceTheorems, TLAPS

Listing == [up : BOOLEAN, open : BOOLEAN, slots : Slots \cup {0}]
Application == [creator : Creators, status : {"pending", "accepted", "rejected", "deleted"}]
CampaignInvite == [creator : Creators, status : {"sent", "accepted", "declined"}]
Snapshots == [Creators -> [source : {"none", "invite", "application"}, row : Nat]]
Locals == [at : Steps, creator : Creators, row : Nat, invite : Nat,
           decision : {"none", "accepted", "rejected", "declined"}]

(* AcceptanceBacked is not inductive: a request about to write a snapshot   *)
(* for a row that was never accepted satisfies it and breaks it.  A request *)
(* that goes on to the terms has accepted a row of the creator, and an      *)
(* accepted row is only read as accepted, or deleted, ever after.           *)

AgreedApplication(a, k) ==
    a \in DOMAIN applications /\ applications[a].creator = k /\ applications[a].status \in {"accepted", "deleted"}

AgreedInvite(i, k) ==
    i \in DOMAIN invites /\ invites[i].creator = k /\ invites[i].status = "accepted"

\* What a request knows of the rows it read or wrote.
Knows(my) ==
    /\ my.at = "respond" =>
        /\ my.row \in DOMAIN applications /\ applications[my.row].creator = my.creator
        /\ my.decision \in {"accepted", "rejected"}
    /\ my.at = "answer" =>
        /\ my.invite \in DOMAIN invites /\ invites[my.invite].creator = my.creator
        /\ my.decision \in {"accepted", "declined"}
    /\ my.at \in {"findInvite", "addInvite", "overwriteInvite", "applicationTerms"} =>
        AgreedApplication(my.row, my.creator)
    /\ my.at = "overwriteInvite" => my.invite \in DOMAIN invites
    /\ my.at = "inviteTerms" => AgreedInvite(my.invite, my.creator)

Known == \A c \in Calls : Knows(call[c])

Backed(k) ==
    /\ snapshots[k].source = "invite" => AgreedInvite(snapshots[k].row, k)
    /\ snapshots[k].source = "application" => AgreedApplication(snapshots[k].row, k)

IInv ==
    /\ TypeOK
    /\ Known
    /\ \A k \in Creators : Backed(k)

\* What no step takes back.
RowsKept ==
    /\ \A a \in DOMAIN applications :
        /\ a \in DOMAIN applications' /\ applications'[a].creator = applications[a].creator
        /\ applications[a].status \in {"accepted", "deleted"} => applications'[a].status \in {"accepted", "deleted"}
    /\ \A i \in DOMAIN invites :
        /\ i \in DOMAIN invites' /\ invites'[i].creator = invites[i].creator
        /\ invites[i].status = "accepted" => invites'[i].status = "accepted"

Tables ==
    listing \in Listing /\ applications \in Seq(Application) /\ invites \in Seq(CampaignInvite)

-----------------------------------------------------------------------------
(* The types, in the words of SequenceTheorems.                             *)

LEMMA NoCallTyped ==
    ASSUME AdmissionAssumption
    PROVE  NoCall \in Locals /\ NoCall.at = "idle"
  <1>1. (CHOOSE k \in Creators : TRUE) \in Creators
    BY DEF AdmissionAssumption
  <1> QED
    BY <1>1 DEF NoCall, Locals, Steps

LEMMA Typed ==
    ASSUME TypeOK
    PROVE  /\ Tables /\ snapshots \in Snapshots /\ call \in [Calls -> Locals]
           /\ DOMAIN applications = 1 .. Len(applications) /\ Len(applications) \in Nat
           /\ DOMAIN invites = 1 .. Len(invites) /\ Len(invites) \in Nat
           /\ \A a \in DOMAIN applications : applications[a] \in Application
           /\ \A i \in DOMAIN invites : invites[i] \in CampaignInvite
  <1>1. Tables /\ snapshots \in Snapshots /\ call \in [Calls -> Locals]
    BY DEF TypeOK, Tables, Listing, Application, CampaignInvite, Snapshots, Locals
  <1>2. /\ DOMAIN applications = 1 .. Len(applications) /\ Len(applications) \in Nat
        /\ DOMAIN invites = 1 .. Len(invites) /\ Len(invites) \in Nat
    BY <1>1, LenProperties DEF Tables
  <1>3. \A a \in 1 .. Len(applications) : applications[a] \in Application
    BY <1>1, ElementOfSeq DEF Tables
  <1>4. \A i \in 1 .. Len(invites) : invites[i] \in CampaignInvite
    BY <1>1, ElementOfSeq DEF Tables
  <1> QED
    BY <1>1, <1>2, <1>3, <1>4

LEMMA Initially == AdmissionAssumption /\ Init => IInv
  <1> SUFFICES ASSUME AdmissionAssumption, Init PROVE IInv
    OBVIOUS
  <1>1. applications \in Seq(Application) /\ invites \in Seq(CampaignInvite)
    BY EmptySeq DEF Init
  <1>2. TypeOK
    BY <1>1, NoCallTyped DEF Init, TypeOK, NoListing, NoSnapshot, Application, CampaignInvite, Locals
  <1>3. Known
    BY NoCallTyped DEF Init, Known, Knows
  <1>4. \A k \in Creators : Backed(k)
    BY DEF Init, Backed, NoSnapshot
  <1> QED
    BY <1>2, <1>3, <1>4 DEF IInv

-----------------------------------------------------------------------------
(* What every step keeps.                                                   *)

\* Rows that are kept stay agreed.
LEMMA StillAgreed ==
    ASSUME RowsKept
    PROVE  /\ \A a, k : AgreedApplication(a, k) => AgreedApplication(a, k)'
           /\ \A i, k : AgreedInvite(i, k) => AgreedInvite(i, k)'
  BY DEF RowsKept, AgreedApplication, AgreedInvite

LEMMA StillBacked ==
    ASSUME IInv, RowsKept, NEW k \in Creators, snapshots'[k] = snapshots[k]
    PROVE  Backed(k)'
  BY DEF IInv, RowsKept, Backed, AgreedApplication, AgreedInvite

LEMMA StillKnown ==
    ASSUME IInv, RowsKept, NEW d \in Calls, call'[d] = call[d]
    PROVE  Knows(call[d])'
  <1>1. Knows(call[d])
    BY DEF IInv, Known
  <1> QED
    BY <1>1 DEF RowsKept, Knows, AgreedApplication, AgreedInvite

\* A step of one request that writes no snapshot.
LEMMA RequestMoves ==
    ASSUME IInv, RowsKept, Tables', snapshots' = snapshots, NEW c \in Calls, NEW locals \in Locals,
           call' = [call EXCEPT ![c] = locals], Knows(call[c])'
    PROVE  IInv'
  <1>1. call' \in [Calls -> Locals] /\ \A d \in Calls \ {c} : call'[d] = call[d]
    BY Typed DEF IInv
  <1>2. TypeOK'
    BY <1>1 DEF IInv, TypeOK, Tables, Listing, Application, CampaignInvite, Locals
  <1>3. Known'
    BY <1>1, StillKnown DEF Known
  <1>4. \A k \in Creators : Backed(k)'
    BY StillBacked
  <1> QED
    BY <1>2, <1>3, <1>4 DEF IInv

LEMMA TablesSame ==
    ASSUME IInv, UNCHANGED <<listing, applications, invites>>
    PROVE  RowsKept /\ Tables'
  BY Typed DEF IInv, RowsKept, Tables

\* A request ends where the rows are kept.
LEMMA EndsStep ==
    ASSUME IInv, AdmissionAssumption, RowsKept, Tables', snapshots' = snapshots, NEW c \in Calls, Ends(c)
    PROVE  IInv'
  <1>1. call'[c] = NoCall
    BY Typed DEF IInv, Ends
  <1>2. Knows(call[c])'
    BY <1>1, NoCallTyped DEF Knows
  <1> QED
    BY <1>2, NoCallTyped, RequestMoves DEF Ends

\* A request goes on, knowing what it knew.
LEMMA GoesStep ==
    ASSUME IInv, RowsKept, Tables', snapshots' = snapshots, NEW c \in Calls, NEW step \in Steps, Goes(c, step),
           Knows(call[c])'
    PROVE  IInv'
  <1> DEFINE locals == [call[c] EXCEPT !.at = step]
  <1>1. locals \in Locals
    BY Typed DEF IInv, Locals
  <1>2. call' = [call EXCEPT ![c] = locals]
    BY DEF Goes
  <1> HIDE DEF locals
  <1> QED
    BY <1>1, <1>2, RequestMoves

-----------------------------------------------------------------------------
(* Rows written.                                                            *)

\* An application that changes its status, but not back from an acceptance.
LEMMA ApplicationWritten ==
    ASSUME IInv, NEW a \in DOMAIN applications, NEW status \in {"pending", "accepted", "rejected", "deleted"},
           applications' = [applications EXCEPT ![a].status = status], UNCHANGED <<listing, invites>>,
           applications[a].status \in {"accepted", "deleted"} => status \in {"accepted", "deleted"}
    PROVE  /\ RowsKept /\ Tables' /\ DOMAIN applications' = DOMAIN applications
           /\ applications'[a].creator = applications[a].creator /\ applications'[a].status = status
  <1> DEFINE row == [applications[a] EXCEPT !.status = status]
  <1>1. applications \in Seq(Application) /\ a \in 1 .. Len(applications) /\ applications[a] \in Application
    BY Typed DEF IInv, Tables
  <1>2. row \in Application /\ row.creator = applications[a].creator /\ row.status = status
    BY <1>1 DEF Application
  <1>3. applications' = [applications EXCEPT ![a] = row]
    OBVIOUS
  <1> HIDE DEF row
  <1>4. applications' \in Seq(Application)
    BY <1>1, <1>2, <1>3, ExceptSeq
  <1>5. /\ DOMAIN applications' = DOMAIN applications /\ applications'[a] = row
        /\ \A b \in DOMAIN applications \ {a} : applications'[b] = applications[b]
    BY <1>3
  <1>6. RowsKept
    BY <1>2, <1>5 DEF RowsKept
  <1>7. Tables'
    BY <1>4, Typed DEF IInv, Tables
  <1> QED
    BY <1>2, <1>5, <1>6, <1>7

\* An invite that changes its status, but not back from an acceptance.
LEMMA InviteWritten ==
    ASSUME IInv, NEW i \in DOMAIN invites, NEW status \in {"sent", "accepted", "declined"},
           invites' = [invites EXCEPT ![i].status = status], UNCHANGED <<listing, applications>>,
           invites[i].status = "accepted" => status = "accepted"
    PROVE  /\ RowsKept /\ Tables' /\ DOMAIN invites' = DOMAIN invites
           /\ invites'[i].creator = invites[i].creator /\ invites'[i].status = status
  <1> DEFINE row == [invites[i] EXCEPT !.status = status]
  <1>1. invites \in Seq(CampaignInvite) /\ i \in 1 .. Len(invites) /\ invites[i] \in CampaignInvite
    BY Typed DEF IInv, Tables
  <1>2. row \in CampaignInvite /\ row.creator = invites[i].creator /\ row.status = status
    BY <1>1 DEF CampaignInvite
  <1>3. invites' = [invites EXCEPT ![i] = row]
    OBVIOUS
  <1> HIDE DEF row
  <1>4. invites' \in Seq(CampaignInvite)
    BY <1>1, <1>2, <1>3, ExceptSeq
  <1>5. /\ DOMAIN invites' = DOMAIN invites /\ invites'[i] = row
        /\ \A j \in DOMAIN invites \ {i} : invites'[j] = invites[j]
    BY <1>3
  <1>6. RowsKept
    BY <1>2, <1>5 DEF RowsKept
  <1>7. Tables'
    BY <1>4, Typed DEF IInv, Tables
  <1> QED
    BY <1>2, <1>5, <1>6, <1>7

\* Rows that are added leave the others as they are.
LEMMA ApplicationAdded ==
    ASSUME IInv, NEW row \in Application, applications' = Append(applications, row), UNCHANGED <<listing, invites>>
    PROVE  RowsKept /\ Tables'
  <1>1. applications \in Seq(Application) /\ DOMAIN applications = 1 .. Len(applications)
    BY Typed DEF IInv, Tables
  <1>2. /\ applications' \in Seq(Application) /\ Len(applications') = Len(applications) + 1
        /\ \A a \in 1 .. Len(applications) : applications'[a] = applications[a]
    BY <1>1, AppendProperties
  <1>3. DOMAIN applications' = 1 .. Len(applications) + 1 /\ Len(applications) \in Nat
    BY <1>1, <1>2, LenProperties
  <1>4. Tables'
    BY <1>2, Typed DEF IInv, Tables
  <1>5. RowsKept
    BY <1>1, <1>2, <1>3 DEF RowsKept
  <1> QED
    BY <1>4, <1>5

LEMMA InviteAdded ==
    ASSUME IInv, NEW row \in CampaignInvite, invites' = Append(invites, row), UNCHANGED <<listing, applications>>
    PROVE  RowsKept /\ Tables'
  <1>1. invites \in Seq(CampaignInvite) /\ DOMAIN invites = 1 .. Len(invites)
    BY Typed DEF IInv, Tables
  <1>2. /\ invites' \in Seq(CampaignInvite) /\ Len(invites') = Len(invites) + 1
        /\ \A i \in 1 .. Len(invites) : invites'[i] = invites[i]
    BY <1>1, AppendProperties
  <1>3. DOMAIN invites' = 1 .. Len(invites) + 1 /\ Len(invites) \in Nat
    BY <1>1, <1>2, LenProperties
  <1>4. Tables'
    BY <1>2, Typed DEF IInv, Tables
  <1>5. RowsKept
    BY <1>1, <1>2, <1>3 DEF RowsKept
  <1> QED
    BY <1>4, <1>5

-----------------------------------------------------------------------------
(* The listing and the applications.                                        *)

LEMMA ListCampaignStep ==
    ASSUME IInv, NEW open \in BOOLEAN, NEW n \in Slots, ListCampaign(open, n)
    PROVE  IInv'
  <1>1. RowsKept /\ snapshots' = snapshots /\ call' = call
    BY DEF ListCampaign, RowsKept
  <1>2. TypeOK'
    BY DEF IInv, TypeOK, ListCampaign
  <1> QED
    BY <1>1, <1>2, StillKnown, StillBacked DEF IInv, Known

\* An application that is deleted still stands behind a snapshot.
LEMMA UnlistStep ==
    ASSUME IInv, Unlist
    PROVE  IInv'
  <1>1. /\ applications' = [a \in DOMAIN applications |-> [applications[a] EXCEPT !.status = "deleted"]]
        /\ UNCHANGED <<invites, snapshots, call>> /\ listing' = NoListing
    BY DEF Unlist
  <1>2. \A a \in DOMAIN applications :
            /\ [applications[a] EXCEPT !.status = "deleted"] \in Application
            /\ applications'[a].creator = applications[a].creator /\ applications'[a].status = "deleted"
    BY <1>1, Typed DEF IInv, Application
  <1>3. applications' \in Seq(Application)
    BY <1>1, <1>2, Typed DEF IInv
  <1>4. TypeOK'
    BY <1>1, <1>3 DEF IInv, TypeOK, Application, NoListing
  <1>5. RowsKept
    BY <1>1, <1>2 DEF RowsKept
  <1> QED
    BY <1>1, <1>4, <1>5, StillKnown, StillBacked DEF IInv, Known

\* apply and createCampaignInvite read only whether they may.
LEMMA ReadStep ==
    ASSUME IInv, NEW c \in Calls, NEW k \in Creators, ReadListing(c, k) \/ ReadNoInvite(c, k)
    PROVE  IInv'
  <1>1. PICK step \in {"apply", "invite"} : call' = [call EXCEPT ![c].at = step, ![c].creator = k]
    BY DEF ReadListing, ReadNoInvite
  <1>2. UNCHANGED <<listing, applications, invites, snapshots>>
    BY DEF ReadListing, ReadNoInvite
  <1> DEFINE locals == [call[c] EXCEPT !.at = step, !.creator = k]
  <1>3. locals \in Locals /\ locals.at = step
    BY Typed DEF IInv, Locals, Steps
  <1>4. call' = [call EXCEPT ![c] = locals]
    BY <1>1
  <1> HIDE DEF locals
  <1>5. Knows(call[c])'
    BY <1>3, <1>4, Typed DEF IInv, Knows
  <1> QED
    BY <1>2, <1>3, <1>4, <1>5, TablesSame, RequestMoves

LEMMA ApplyStep ==
    ASSUME IInv, AdmissionAssumption, NEW c \in Calls, Apply(c)
    PROVE  IInv'
  <1> DEFINE row == [creator |-> call[c].creator, status |-> "pending"]
  <1>1. row \in Application
    BY Typed DEF IInv, Locals, Application
  <1>2. /\ applications' = Append(applications, row) /\ Ends(c) /\ snapshots' = snapshots
        /\ UNCHANGED <<listing, invites>>
    BY DEF Apply
  <1> HIDE DEF row
  <1> QED
    BY <1>1, <1>2, ApplicationAdded, EndsStep

LEMMA ReadApplicationStep ==
    ASSUME IInv, NEW c \in Calls, NEW a \in DOMAIN applications, NEW decision \in {"accepted", "rejected"},
           ReadApplication(c, a, decision)
    PROVE  IInv'
  <1> DEFINE locals == [call[c] EXCEPT !.at = "respond", !.creator = applications[a].creator, !.row = a,
                                       !.decision = decision]
  <1>1. a \in Nat /\ applications[a].creator \in Creators /\ call[c] \in Locals
    BY Typed DEF IInv, Application
  <1>2. /\ locals \in Locals /\ locals.at = "respond" /\ locals.row = a /\ locals.decision = decision
        /\ locals.creator = applications[a].creator
    BY <1>1 DEF Locals, Steps
  <1>3. call' = [call EXCEPT ![c] = locals] /\ UNCHANGED <<listing, applications, invites, snapshots>>
    BY DEF ReadApplication
  <1> HIDE DEF locals
  <1>4. Knows(call[c])'
    BY <1>2, <1>3, Typed DEF IInv, Knows
  <1> QED
    BY <1>2, <1>3, <1>4, TablesSame, RequestMoves

\* Only an application that is still pending is decided.
LEMMA RespondStep ==
    ASSUME IInv, AdmissionAssumption, NEW c \in Calls, Respond(c)
    PROVE  IInv'
  <1> DEFINE a == call[c].row
             decision == call[c].decision
  <1>1. /\ a \in DOMAIN applications /\ applications[a].creator = call[c].creator
        /\ decision \in {"accepted", "rejected"}
    BY DEF Respond, At, IInv, Known, Knows
  <1>2. UNCHANGED <<listing, invites, snapshots>>
    BY DEF Respond
  <1>3. CASE Ends(c) /\ UNCHANGED applications
    BY <1>2, <1>3, TablesSame, EndsStep
  <1>4. CASE /\ applications[a].status = "pending"
             /\ applications' = [applications EXCEPT ![a].status = decision]
             /\ IF decision = "accepted" THEN Goes(c, "findInvite") ELSE Ends(c)
    <2>1. /\ RowsKept /\ Tables' /\ DOMAIN applications' = DOMAIN applications
          /\ applications'[a].creator = applications[a].creator /\ applications'[a].status = decision
      BY <1>1, <1>2, <1>4, ApplicationWritten
    <2>2. CASE Ends(c)
      BY <1>2, <2>1, <2>2, EndsStep
    <2>3. CASE decision = "accepted" /\ Goes(c, "findInvite")
      <3>1. call'[c].at = "findInvite" /\ call'[c].row = a /\ call'[c].creator = call[c].creator
        BY <2>3, Typed DEF IInv, Goes, Locals
      <3> HIDE DEF a, decision
      <3>2. Knows(call[c])'
        BY <1>1, <2>1, <2>3, <3>1 DEF Knows, AgreedApplication
      <3> QED
        BY <1>2, <2>1, <2>3, <3>2, GoesStep DEF Steps
    <2> QED
      BY <1>4, <2>2, <2>3
  <1> QED
    BY <1>3, <1>4 DEF Respond

LEMMA FindInviteStep ==
    ASSUME IInv, AdmissionAssumption, NEW c \in Calls, FindInvite(c)
    PROVE  IInv'
  <1>1. UNCHANGED <<listing, applications, invites, snapshots>> /\ AgreedApplication(call[c].row, call[c].creator)
    BY DEF FindInvite, At, IInv, Known, Knows
  <1>2. CASE Goes(c, "addInvite")
    <2>1. call'[c].at = "addInvite" /\ call'[c].row = call[c].row /\ call'[c].creator = call[c].creator
      BY <1>2, Typed DEF IInv, Goes, Locals
    <2>2. Knows(call[c])'
      BY <1>1, <2>1 DEF Knows, AgreedApplication
    <2> QED
      BY <1>1, <1>2, <2>2, TablesSame, GoesStep DEF Steps
  <1>3. ASSUME NEW i \in DOMAIN invites,
               call' = [call EXCEPT ![c].at = "overwriteInvite", ![c].invite = i]
        PROVE  IInv'
    <2> DEFINE locals == [call[c] EXCEPT !.at = "overwriteInvite", !.invite = i]
    <2>1. i \in Nat /\ call[c] \in Locals
      BY Typed DEF IInv
    <2>2. /\ locals \in Locals /\ locals.at = "overwriteInvite" /\ locals.invite = i
          /\ locals.row = call[c].row /\ locals.creator = call[c].creator
      BY <2>1 DEF Locals, Steps
    <2>3. call' = [call EXCEPT ![c] = locals]
      BY <1>3
    <2> HIDE DEF locals
    <2>4. Knows(call[c])'
      BY <1>1, <2>2, <2>3, Typed DEF IInv, Knows, AgreedApplication
    <2> QED
      BY <1>1, <2>2, <2>3, <2>4, TablesSame, RequestMoves
  <1> QED
    BY <1>2, <1>3 DEF FindInvite, Rows

\* Overwriting an invite makes it accepted, whatever it said.
LEMMA AcceptInviteStep ==
    ASSUME IInv, AdmissionAssumption, NEW c \in Calls, AcceptInvite(c)
    PROVE  IInv'
  <1>1. /\ UNCHANGED <<listing, applications, snapshots>> /\ Goes(c, "applicationTerms")
        /\ AgreedApplication(call[c].row, call[c].creator)
    BY DEF AcceptInvite, At, IInv, Known, Knows
  <1>2. RowsKept /\ Tables'
    <2>1. CASE /\ At(c, "overwriteInvite")
               /\ invites' = [invites EXCEPT ![call[c].invite].status = "accepted"]
      <3>1. call[c].invite \in DOMAIN invites
        BY <2>1 DEF At, IInv, Known, Knows
      <3> QED
        BY <1>1, <2>1, <3>1, InviteWritten
    <2>2. CASE invites' = Append(invites, [creator |-> call[c].creator, status |-> "accepted"])
      <3>1. [creator |-> call[c].creator, status |-> "accepted"] \in CampaignInvite
        BY Typed DEF IInv, Locals, CampaignInvite
      <3> QED
        BY <1>1, <2>2, <3>1, InviteAdded
    <2> QED
      BY <2>1, <2>2 DEF AcceptInvite
  <1>3. call'[c].at = "applicationTerms" /\ call'[c].row = call[c].row /\ call'[c].creator = call[c].creator
    BY <1>1, Typed DEF IInv, Goes, Locals
  <1>4. Knows(call[c])'
    BY <1>1, <1>3 DEF Knows, AgreedApplication
  <1> QED
    BY <1>1, <1>2, <1>4, GoesStep DEF Steps

-----------------------------------------------------------------------------
(* Invites and the terms.                                                   *)

LEMMA InviteStep ==
    ASSUME IInv, AdmissionAssumption, NEW c \in Calls, Invite(c)
    PROVE  IInv'
  <1> DEFINE row == [creator |-> call[c].creator, status |-> "sent"]
  <1>1. row \in CampaignInvite
    BY Typed DEF IInv, Locals, CampaignInvite
  <1>2. /\ invites' = Append(invites, row) /\ Ends(c) /\ snapshots' = snapshots
        /\ UNCHANGED <<listing, applications>>
    BY DEF Invite
  <1> HIDE DEF row
  <1> QED
    BY <1>1, <1>2, InviteAdded, EndsStep

LEMMA ReadInviteStep ==
    ASSUME IInv, NEW c \in Calls, NEW i \in DOMAIN invites, NEW decision \in {"accepted", "declined"},
           ReadInvite(c, i, decision)
    PROVE  IInv'
  <1> DEFINE locals == [call[c] EXCEPT !.at = "answer", !.creator = invites[i].creator, !.invite = i,
                                       !.decision = decision]
  <1>1. i \in Nat /\ invites[i].creator \in Creators /\ call[c] \in Locals
    BY Typed DEF IInv, CampaignInvite
  <1>2. /\ locals \in Locals /\ locals.at = "answer" /\ locals.invite = i /\ locals.decision = decision
        /\ locals.creator = invites[i].creator
    BY <1>1 DEF Locals, Steps
  <1>3. call' = [call EXCEPT ![c] = locals] /\ UNCHANGED <<listing, applications, invites, snapshots>>
    BY DEF ReadInvite
  <1> HIDE DEF locals
  <1>4. Knows(call[c])'
    BY <1>2, <1>3, Typed DEF IInv, Knows
  <1> QED
    BY <1>2, <1>3, <1>4, TablesSame, RequestMoves

\* Only an invite that is still open is answered.
LEMMA AnswerStep ==
    ASSUME IInv, AdmissionAssumption, NEW c \in Calls, Answer(c)
    PROVE  IInv'
  <1> DEFINE i == call[c].invite
             decision == call[c].decision
  <1>1. /\ i \in DOMAIN invites /\ invites[i].creator = call[c].creator
        /\ decision \in {"accepted", "declined"}
    BY DEF Answer, At, IInv, Known, Knows
  <1>2. UNCHANGED <<listing, applications, snapshots>>
    BY DEF Answer
  <1>3. CASE Ends(c) /\ UNCHANGED invites
    BY <1>2, <1>3, TablesSame, EndsStep
  <1>4. CASE /\ invites[i].status = "sent"
             /\ invites' = [invites EXCEPT ![i].status = decision]
             /\ IF decision = "accepted" THEN Goes(c, "inviteTerms") ELSE Ends(c)
    <2>1. /\ RowsKept /\ Tables' /\ DOMAIN invites' = DOMAIN invites
          /\ invites'[i].creator = invites[i].creator /\ invites'[i].status = decision
      BY <1>1, <1>2, <1>4, InviteWritten
    <2>2. CASE Ends(c)
      BY <1>2, <2>1, <2>2, EndsStep
    <2>3. CASE decision = "accepted" /\ Goes(c, "inviteTerms")
      <3>1. call'[c].at = "inviteTerms" /\ call'[c].invite = i /\ call'[c].creator = call[c].creator
        BY <2>3, Typed DEF IInv, Goes, Locals
      <3> HIDE DEF i, decision
      <3>2. Knows(call[c])'
        BY <1>1, <2>1, <2>3, <3>1 DEF Knows, AgreedInvite
      <3> QED
        BY <1>2, <2>1, <2>3, <3>2, GoesStep DEF Steps
    <2> QED
      BY <1>4, <2>2, <2>3
  <1> QED
    BY <1>3, <1>4 DEF Answer

\* The snapshot of a creator is written once, for the row the request accepted.
LEMMA SnapshotStep ==
    ASSUME IInv, AdmissionAssumption, NEW c \in Calls, Snapshot(c)
    PROVE  IInv'
  <1> DEFINE k == call[c].creator
             source == IF At(c, "inviteTerms") THEN "invite" ELSE "application"
             new == [source |-> source, row |-> IF source = "invite" THEN call[c].invite ELSE call[c].row]
  <1>1. /\ UNCHANGED <<listing, applications, invites>> /\ call' = [call EXCEPT ![c] = NoCall]
        /\ snapshots' \in {snapshots, [snapshots EXCEPT ![k] = new]}
    BY DEF Snapshot, Ends
  <1>2. /\ k \in Creators /\ new \in [source : {"none", "invite", "application"}, row : Nat]
        /\ new.source = "invite" => AgreedInvite(new.row, k)
        /\ new.source = "application" => AgreedApplication(new.row, k)
    BY Typed DEF IInv, Known, Knows, Locals, Snapshot, At
  <1> HIDE DEF k, new
  <1>3. /\ call'[c] = NoCall /\ call' \in [Calls -> Locals]
        /\ \A d \in Calls \ {c} : call'[d] = call[d]
    BY <1>1, Typed, NoCallTyped DEF IInv
  <1>4. RowsKept
    BY <1>1, TablesSame
  <1>5. TypeOK'
    <2>1. snapshots' \in Snapshots
      BY <1>1, <1>2, Typed DEF IInv, Snapshots
    <2> QED
      BY <1>1, <1>3, <2>1 DEF IInv, TypeOK, Snapshots, Locals
  <1>6. Known'
    BY <1>3, <1>4, NoCallTyped, StillKnown DEF Known, Knows
  <1>7. ASSUME NEW h \in Creators PROVE Backed(h)'
    <2>1. CASE snapshots'[h] = snapshots[h]
      BY <1>4, <2>1, StillBacked
    <2>2. CASE h = k /\ snapshots'[h] = new
      BY <1>1, <1>2, <2>2 DEF Backed, AgreedInvite, AgreedApplication
    <2> QED
      BY <1>1, <2>1, <2>2, Typed DEF IInv, Snapshots
  <1> QED
    BY <1>5, <1>6, <1>7 DEF IInv

-----------------------------------------------------------------------------
(* The theorems.                                                            *)

\* No step disturbs the invariant.
LEMMA Preserved == AdmissionAssumption /\ IInv /\ [Next]_vars => IInv'
  <1> SUFFICES ASSUME AdmissionAssumption, IInv, [Next]_vars PROVE IInv'
    OBVIOUS
  <1>1. CASE UNCHANGED vars
    BY <1>1, TablesSame, StillKnown, StillBacked DEF vars, IInv, TypeOK, Known
  <1>2. ASSUME NEW open \in BOOLEAN, NEW n \in Slots, ListCampaign(open, n) PROVE IInv'
    BY <1>2, ListCampaignStep
  <1>3. CASE Unlist
    BY <1>3, UnlistStep
  <1>4. ASSUME NEW c \in Calls, NEW k \in Creators, ReadListing(c, k) \/ ReadNoInvite(c, k) PROVE IInv'
    BY <1>4, ReadStep
  <1>5. ASSUME NEW c \in Calls, NEW a \in DOMAIN applications, NEW decision \in {"accepted", "rejected"},
               ReadApplication(c, a, decision)
        PROVE  IInv'
    BY <1>5, ReadApplicationStep
  <1>6. ASSUME NEW c \in Calls, NEW i \in DOMAIN invites, NEW decision \in {"accepted", "declined"},
               ReadInvite(c, i, decision)
        PROVE  IInv'
    BY <1>6, ReadInviteStep
  <1>7. ASSUME NEW c \in Calls, Apply(c) \/ Respond(c) \/ FindInvite(c) \/ AcceptInvite(c) PROVE IInv'
    BY <1>7, ApplyStep, RespondStep, FindInviteStep, AcceptInviteStep
  <1>8. ASSUME NEW c \in Calls, Invite(c) \/ Answer(c) \/ Snapshot(c) PROVE IInv'
    BY <1>8, InviteStep, AnswerStep, SnapshotStep
  <1>9. ASSUME NEW c \in Calls, CallStops(c) PROVE IInv'
    BY <1>9, TablesSame, EndsStep DEF CallStops
  <1> QED
    BY <1>1, <1>2, <1>3, <1>4, <1>5, <1>6, <1>7, <1>8, <1>9 DEF Next

LEMMA Invariant == AdmissionAssumption => (Spec => []IInv)
  <1> SUFFICES ASSUME AdmissionAssumption PROVE Spec => []IInv
    OBVIOUS
  <1>1. Init => IInv
    BY Initially
  <1>2. IInv /\ [Next]_vars => IInv'
    BY Preserved
  <1> QED
    BY <1>1, <1>2, PTL DEF Spec

\* Every reachable state of the admission is well typed.
THEOREM TypeCorrect == AdmissionAssumption => (Spec => []TypeOK)
  <1>1. IInv => TypeOK
    BY DEF IInv
  <1> QED
    BY <1>1, Invariant, PTL

(* However answers by creators and decisions by the brand cross, and        *)
(* wherever a request stops, a snapshot names an application or an invite   *)
(* of its creator that was accepted and still is, or was deleted with its   *)
(* listing (respondToApplication, respondToCampaignInvite,                  *)
(* upsertAcceptedCampaignInvite, createAcceptanceSnapshot).                 *)
THEOREM TermsBacked == AdmissionAssumption => (Spec => []AcceptanceBacked)
  <1>1. IInv => AcceptanceBacked
    BY DEF IInv, Backed, AgreedInvite, AgreedApplication, AcceptanceBacked
  <1> QED
    BY <1>1, Invariant, PTL
=============================================================================
