------------------------------ MODULE Accounts ------------------------------
(***************************************************************************)
(* The account behind one email: the application that admits a creator     *)
(* (creator-applications.service.ts), its password, its refresh tokens and *)
(* its reset links (auth.service.ts).  Requests run side by side; only     *)
(* approve, reject and resetPassword use a transaction, which reads        *)
(* without locking and is checked by nothing when it commits.              *)
(***************************************************************************)
EXTENDS Naturals, Sequences

CONSTANTS
    Calls,          \* concurrent requests
    MaxTokens,      \* bound: refresh tokens ever issued
    MaxPasswords,   \* bound: passwords ever set
    MaxLinks        \* bound: reset links ever mailed

ASSUME BoundsAssumption == MaxTokens \in Nat /\ MaxPasswords \in Nat /\ MaxLinks \in Nat

VARIABLES
    application,    \* thesi_creator_application.status
    user,           \* the row of thesi_users; applied: it belongs to the application
    tokens,         \* thesi_refresh_token, in the order of insertion, and the token each was issued for
    links,          \* thesi_password_reset_token: whether each may still be used
    known,          \* the passwords the creator chose or was mailed
    issued,         \* how many passwords were ever set
    call            \* the local variables of each request

vars == <<application, user, tokens, links, known, issued, call>>

Pending == 0    \* PENDING_PASSWORD_HASH
NoUser == [status |-> "absent", password |-> Pending, applied |-> FALSE]
NoCall == [at |-> "idle", token |-> 0, link |-> 0, password |-> Pending]

\* An application older than pending accounts has none yet.
Init ==
    /\ application \in {"none", "applied"} /\ user = NoUser
    /\ tokens = <<>> /\ links = <<>>
    /\ known = {} /\ issued = 0
    /\ call = [c \in Calls |-> NoCall]

At(c, step) == call[c].at = step
Ends(c) == call' = [call EXCEPT ![c] = NoCall]
Goes(c, step) == call' = [call EXCEPT ![c].at = step]

\* A password nobody has used before: generated, or chosen by the creator.
Fresh == issued + 1
NewPassword == issued < MaxPasswords /\ issued' = Fresh

-----------------------------------------------------------------------------
(* Applications.                                                            *)

\* create: the application and its pending account in one transaction.
Apply ==
    /\ application = "none" /\ user.status = "absent"
    /\ application' = "applied"
    /\ user' = [status |-> "pending", password |-> Pending, applied |-> TRUE]
    /\ UNCHANGED <<tokens, links, known, issued, call>>

\* approve, reject and resendInvite read the application before anything else.
ReadApplication(c, step) ==
    /\ At(c, "idle")
    /\ \/ step \in {"activate", "disable"} /\ application = "applied"
       \/ step = "reset" /\ application = "approved"
    /\ Goes(c, step)
    /\ UNCHANGED <<application, user, tokens, links, known, issued>>

\* activateCreatorAccount looks for the application's account, and refuses it if disabled.
ReadAccount(c) ==
    /\ At(c, "activate")
    /\ CASE ~user.applied -> Goes(c, "create")
         [] user.applied /\ user.status = "disabled" -> Ends(c)
         [] OTHER -> Goes(c, "approve")
    /\ UNCHANGED <<application, user, tokens, links, known, issued>>

\* What activateCreatorAccount and resetCreatorTemporaryPassword write.
Activated == [status |-> "active", password |-> Fresh, applied |-> TRUE]

\* approve commits the account, the profile and the application together.
\* An account that is to be created must be missing: emails are unique.
Approve(c) ==
    /\ At(c, "approve") \/ (At(c, "create") /\ user.status = "absent")
    /\ application' = "approved" /\ user' = Activated
    /\ NewPassword
    /\ call' = [call EXCEPT ![c].at = "mail", ![c].password = Fresh]
    /\ UNCHANGED <<tokens, links, known>>

\* Faulty: a status the sign-in does not know.
Disabled_Inactive == [user EXCEPT !.status = "inactive", !.password = Pending]

Disabled == [user EXCEPT !.status = "disabled", !.password = Pending]

\* Faulty: no transaction, and the process dies between the two updates.
Reject_Halfway(c) ==
    /\ At(c, "disable") /\ user.applied
    /\ user' = Disabled
    /\ Ends(c)
    /\ UNCHANGED <<application, tokens, links, known, issued>>

\* reject: disableCreatorAccount locks the account's row until the application is written as well.
Reject(c) ==
    /\ At(c, "disable") /\ user.applied
    /\ application' = "rejected" /\ user' = Disabled
    /\ Ends(c)
    /\ UNCHANGED <<tokens, links, known, issued>>

\* Where there is no account the first update finds nothing and locks nothing:
\* approve may still create one before the application is written.
DisableNobody(c) ==
    /\ At(c, "disable") /\ ~user.applied
    /\ Goes(c, "reject")
    /\ UNCHANGED <<application, user, tokens, links, known, issued>>

RejectApplication(c) ==
    /\ At(c, "reject")
    /\ application' = "rejected"
    /\ Ends(c)
    /\ UNCHANGED <<user, tokens, links, known, issued>>

\* resendInvite: resetCreatorTemporaryPassword reads no status.
ResetTemporary(c) ==
    /\ At(c, "reset")
    /\ user' = Activated
    /\ NewPassword
    /\ call' = [call EXCEPT ![c].at = "mail", ![c].password = Fresh]
    /\ UNCHANGED <<application, tokens, links, known>>

\* sendAccountReadyOrThrow: the temporary password reaches the creator, or not.
Mail(c) ==
    /\ At(c, "mail")
    /\ known' \in {known, known \cup {call[c].password}}
    /\ Ends(c)
    /\ UNCHANGED <<application, user, tokens, links, issued>>

-----------------------------------------------------------------------------
(* Sessions.                                                                *)

\* createSession: a new refresh token, for the token it replaces if any.
CreateSession(c) ==
    /\ At(c, "session") /\ Len(tokens) < MaxTokens
    /\ tokens' = Append(tokens, [state |-> "live", from |-> call[c].token])
    /\ Ends(c)
    /\ UNCHANGED <<application, user, links, known, issued>>

\* signInDenial, and a password the creator knows.
MaySignIn == user.status = "active" /\ user.password # Pending /\ user.password \in known

\* signUp: a brand's account, under an email that no account has.
SignUp(c) ==
    /\ At(c, "idle") /\ user.status = "absent"
    /\ user' = [Activated EXCEPT !.applied = FALSE] /\ NewPassword /\ known' = known \cup {Fresh}
    /\ Goes(c, "session")
    /\ UNCHANGED <<application, tokens, links>>

SignIn(c) ==
    /\ At(c, "idle") /\ MaySignIn
    /\ Goes(c, "session")
    /\ UNCHANGED <<application, user, tokens, links, known, issued>>

\* refresh reads the token; the account's status is not looked at.
ReadToken(c, t) ==
    /\ At(c, "idle") /\ tokens[t].state = "live"
    /\ call' = [call EXCEPT ![c].at = "claim", ![c].token = t]
    /\ UNCHANGED <<application, user, tokens, links, known, issued>>

\* Faulty: the token read as live is revoked without looking again.
Claim_Unchecked(c) ==
    /\ At(c, "claim")
    /\ LET t == call[c].token IN
        /\ tokens' = [tokens EXCEPT ![t].state = "revoked"]
        /\ Goes(c, "session")
    /\ UNCHANGED <<application, user, links, known, issued>>

\* The token is revoked where it is still not, and the call that did it goes on.
Claim(c) ==
    /\ At(c, "claim")
    /\ LET t == call[c].token IN
        IF tokens[t].state = "revoked" THEN Ends(c) /\ tokens' = tokens
        ELSE /\ tokens' = [tokens EXCEPT ![t].state = "revoked"]
             /\ Goes(c, "session")
    /\ UNCHANGED <<application, user, links, known, issued>>

TokenExpires(t) ==
    /\ tokens[t].state = "live"
    /\ tokens' = [tokens EXCEPT ![t].state = "expired"]
    /\ UNCHANGED <<application, user, links, known, issued, call>>

-----------------------------------------------------------------------------
(* Passwords and onboarding: requests of a creator who has signed in.       *)

SignedIn == tokens # <<>>

\* changePassword reads the row and compares the password.
ReadForChange(c) ==
    /\ At(c, "idle") /\ SignedIn /\ user.password \in known
    /\ Goes(c, "change")
    /\ UNCHANGED <<application, user, tokens, links, known, issued>>

ChangePassword(c) ==
    /\ At(c, "change")
    /\ user' = [user EXCEPT !.password = Fresh]
    /\ NewPassword /\ known' = known \cup {Fresh}
    /\ Goes(c, "session")
    /\ UNCHANGED <<application, tokens, links>>

\* canRequestPasswordReset, and the links that were open are closed.
RequestReset(c) ==
    /\ At(c, "idle") /\ user.status = "active" /\ user.password # Pending
    /\ links' = [l \in DOMAIN links |-> FALSE]
    /\ Goes(c, "link")
    /\ UNCHANGED <<application, user, tokens, known, issued>>

\* The new link, in a statement of its own, mailed as far as it can be.
InsertLink(c) ==
    /\ At(c, "link") /\ Len(links) < MaxLinks
    /\ links' = Append(links, TRUE)
    /\ Ends(c)
    /\ UNCHANGED <<application, user, tokens, known, issued>>

\* resetPassword reads the link outside its transaction.
ReadLink(c, l) ==
    /\ At(c, "idle") /\ links[l]
    /\ call' = [call EXCEPT ![c].at = "password", ![c].link = l]
    /\ UNCHANGED <<application, user, tokens, links, known, issued>>

\* The password, the link and every session, together.
ResetPassword(c) ==
    /\ At(c, "password")
    /\ user' = [user EXCEPT !.password = Fresh]
    /\ NewPassword /\ known' = known \cup {Fresh}
    /\ links' = [links EXCEPT ![call[c].link] = FALSE]
    /\ tokens' = [t \in DOMAIN tokens |-> [tokens[t] EXCEPT !.state = "revoked"]]
    /\ Ends(c)
    /\ UNCHANGED application

LinkExpires(l) ==
    /\ links[l]
    /\ links' = [links EXCEPT ![l] = FALSE]
    /\ UNCHANGED <<application, user, tokens, known, issued, call>>

\* completeWelcome and submitOnboarding note how far the creator is and issue a session.
Onboarding(c) ==
    /\ At(c, "idle") /\ SignedIn
    /\ Goes(c, "session")
    /\ UNCHANGED <<application, user, tokens, links, known, issued>>

\* A statement throws, a mail is refused, or the process dies.
CallStops(c) ==
    /\ ~At(c, "idle")
    /\ Ends(c)
    /\ UNCHANGED <<application, user, tokens, links, known, issued>>

Next ==
    \/ Apply
    \/ \E c \in Calls :
        \/ \E step \in {"activate", "disable", "reset"} : ReadApplication(c, step)
        \/ ReadAccount(c) \/ Approve(c) \/ Reject(c) \/ DisableNobody(c) \/ RejectApplication(c)
        \/ ResetTemporary(c) \/ Mail(c)
        \/ SignUp(c) \/ SignIn(c) \/ CreateSession(c)
        \/ \E t \in DOMAIN tokens : ReadToken(c, t)
        \/ Claim(c)
        \/ Onboarding(c) \/ ReadForChange(c) \/ ChangePassword(c)
        \/ RequestReset(c) \/ InsertLink(c) \/ ResetPassword(c)
        \/ \E l \in DOMAIN links : ReadLink(c, l)
        \/ CallStops(c)
    \/ \E t \in DOMAIN tokens : TokenExpires(t)
    \/ \E l \in DOMAIN links : LinkExpires(l)

Spec == Init /\ [][Next]_vars

-----------------------------------------------------------------------------

Steps == {"idle", "activate", "approve", "create", "disable", "reject", "reset", "mail", "claim", "session",
          "change", "link", "password"}

TypeOK ==
    /\ application \in {"none", "applied", "approved", "rejected"}
    /\ user \in [status : {"absent", "pending", "active", "disabled"}, password : 0 .. MaxPasswords,
                applied : BOOLEAN]
    /\ tokens \in Seq([state : {"live", "revoked", "expired"}, from : 0 .. MaxTokens])
    /\ Len(tokens) <= MaxTokens
    /\ links \in Seq(BOOLEAN) /\ Len(links) <= MaxLinks
    /\ known \subseteq 1 .. MaxPasswords
    /\ issued \in 0 .. MaxPasswords
    /\ call \in [Calls -> [at : Steps, token : 0 .. MaxTokens, link : 0 .. MaxLinks,
                           password : 0 .. MaxPasswords]]

(* However many requests present one refresh token at once, it is exchanged *)
(* for a single session: of the calls that read it as live, one claims it.  *)
RotatedOnce ==
    \A s, t \in DOMAIN tokens : tokens[s].from = tokens[t].from /\ s # t => tokens[s].from = 0

(* An application that reads approved has an account of its own that may    *)
(* sign in, also when approve, reject and resendInvite ran side by side,    *)
(* approve had read the application before reject wrote it, or somebody     *)
(* signed up under the same email in between.                               *)
ApprovedIsActive ==
    application = "approved" => user.applied /\ user.status = "active" /\ user.password # Pending
=============================================================================
