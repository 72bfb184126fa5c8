--------------------------- MODULE MerchantAccess ---------------------------
(***************************************************************************)
(* Connecting a Merchant brand to a Thesi workspace, and signing in        *)
(* through it: merchant-links.service.ts, merchant-login.service.ts and    *)
(* the sessions of merchant-access.service.ts.  Every operation is one     *)
(* transaction; its row locks are modelled, since disconnecting takes      *)
(* them in another order than approving, opening and signing in do, and so *)
(* is the clock it reads: PostgreSQL's now() is the time at which the      *)
(* transaction began, whatever was committed since.                        *)
(***************************************************************************)
EXTENDS Naturals, Sequences, FiniteSets

CONSTANTS
    Calls,          \* concurrent requests
    Brands,         \* Merchant brands of one vendor
    Workspaces,     \* Thesi workspaces of one owner
    Intents,        \* link intents that may be started
    Logins,         \* sign-in requests that may begin
    NoBrand, NoWorkspace, NoRow,
    MaxLinks,       \* bound: links ever made
    MaxSessions     \* bound: sessions ever made

RowsAssumption ==
    /\ NoBrand \notin Brands /\ NoWorkspace \notin Workspaces
    /\ NoRow \notin Intents \cup Logins /\ Intents \cap Logins = {}
    /\ MaxLinks \in Nat /\ MaxSessions \in Nat

VARIABLES
    intent,         \* merchant_link_intent
    login,          \* merchant_login_request
    link,           \* merchant_brand_link, in the order of insertion
    merchant,       \* merchant_session, in the order of insertion
    audit,          \* merchant_link_event and merchant_login_audit, and when a sign-in was authorized
    txn,            \* the local variables and the row locks of each request
    clock           \* what now() is in its transaction

vars == <<intent, login, link, merchant, audit, txn, clock>>
tables == <<intent, login, link, merchant, audit>>

NoIntent == [at |-> "none", expired |-> FALSE, open |-> FALSE, brand |-> NoBrand,
             workspace |-> NoWorkspace, link |-> 0]
NoLogin == [at |-> "none", expired |-> FALSE, brand |-> NoBrand, staff |-> FALSE]
NoTxn == [at |-> "idle", row |-> NoRow, workspace |-> NoWorkspace, link |-> 0, seen |-> 0, held |-> {}]

(* fresh: the row a transaction is about expires after the transaction's    *)
(* now().  older: the transactions that were open when it began.            *)
(* overtaken (history): one that began later has since set expiry times.    *)
NoClock == [fresh |-> FALSE, older |-> {}, overtaken |-> FALSE]

Init ==
    /\ intent = [i \in Intents |-> NoIntent]
    /\ login = [r \in Logins |-> NoLogin]
    /\ link = <<>> /\ merchant = <<>> /\ audit = <<>>
    /\ txn = [c \in Calls |-> NoTxn] /\ clock = [c \in Calls |-> NoClock]

LinkRow(l) == <<"link", l>>
Row(x) == <<"row", x>>
Free(row, c) == \A d \in Calls \ {c} : row \notin txn[d].held

At(c, step) == txn[c].at = step
Goes(c, step) == txn' = [txn EXCEPT ![c].at = step] /\ UNCHANGED clock
Locks(c, row, step) == txn' = [txn EXCEPT ![c].at = step, ![c].held = @ \cup {row}] /\ UNCHANGED clock

\* BEGIN, of a transaction that will look at a row which has expired or not.
Begins(c, x, expired) ==
    /\ txn' = [txn EXCEPT ![c] = x]
    /\ clock' = [clock EXCEPT ![c] = [NoClock EXCEPT !.fresh = ~expired]]

\* BEGIN, of one that will let rows expire.
BeginsExpiring(c, x) ==
    /\ txn' = [txn EXCEPT ![c] = x]
    /\ clock' = [clock EXCEPT ![c].older = {d \in Calls \ {c} : txn[d].at \notin {"idle", "asking"}}]

Ends(c) ==
    /\ txn' = [txn EXCEPT ![c] = NoTxn]
    /\ clock' = [d \in Calls |-> IF d = c THEN NoClock ELSE [clock[d] EXCEPT !.older = @ \ {c}]]

\* It commits expires_at=now() on rows: no expiry yet by the clock of an older transaction.
EndsExpiring(c, rows) ==
    /\ txn' = [txn EXCEPT ![c] = NoTxn]
    /\ clock' = [d \in Calls |->
            CASE d = c -> NoClock
              [] d # c /\ d \in clock[c].older ->
                    [fresh |-> clock[d].fresh \/ txn[d].row \in rows, older |-> clock[d].older \ {c}, overtaken |-> TRUE]
              [] OTHER -> [clock[d] EXCEPT !.fresh = @ /\ txn[d].row \notin rows, !.older = @ \ {c}]]

ActiveFor(b) == {l \in DOMAIN link : link[l].live /\ link[l].brand = b}
ActiveIn(w) == {l \in DOMAIN link : link[l].live /\ link[l].workspace = w}
Logged(kind, x, l, overtaken) ==
    audit' = Append(audit, [kind |-> kind, row |-> x, link |-> l, overtaken |-> overtaken])

-----------------------------------------------------------------------------
(* Linking: start at Merchant Hub, approve in Thesi, complete at the Hub.   *)

Start(i, b, open) ==
    /\ intent[i] = NoIntent
    /\ open <=> ActiveFor(b) # {}
    /\ \A l \in ActiveFor(b), c \in Calls : LinkRow(l) \notin txn[c].held
    /\ intent' = [intent EXCEPT ![i] =
            [NoIntent EXCEPT !.at = "started", !.open = open, !.brand = b,
                             !.link = IF open THEN CHOOSE l \in ActiveFor(b) : TRUE ELSE 0]]
    /\ UNCHANGED <<login, link, merchant, audit, txn, clock>>

BeginApprove(c, i, w) ==
    /\ At(c, "idle") /\ intent[i].at = "started"
    /\ Begins(c, [NoTxn EXCEPT !.at = "find_intent", !.row = i, !.workspace = w], intent[i].expired)
    /\ UNCHANGED tables

\* findIntent locks the row and compares its expiry with now().
FindIntent(c) ==
    LET i == txn[c].row IN
    /\ At(c, "find_intent") /\ Free(Row(i), c)
    /\ IF intent[i].at = "started" /\ clock[c].fresh
       THEN /\ txn' = [txn EXCEPT ![c].at = IF intent[i].open THEN "open" ELSE "approve",
                                  ![c].link = intent[i].link, ![c].held = {Row(i)}]
            /\ UNCHANGED clock
       ELSE Ends(c)
    /\ UNCHANGED tables

\* approve, to open: the link is locked and must be the one the launch began with.
LockOpened(c) ==
    LET l == txn[c].link IN
    /\ At(c, "open") /\ Free(LinkRow(l), c)
    /\ IF link[l].live THEN Locks(c, LinkRow(l), "opened") ELSE Ends(c)
    /\ UNCHANGED tables

Open(c) ==
    LET i == txn[c].row IN
    /\ At(c, "opened")
    /\ intent' = [intent EXCEPT ![i].at = "consumed", ![i].workspace = link[txn[c].link].workspace]
    /\ Logged("opened", i, txn[c].link, clock[c].overtaken)
    /\ Ends(c)
    /\ UNCHANGED <<login, link, merchant>>

\* approve, to link: neither brand may be connected, as read without a lock.
CheckConflict(c) ==
    LET i == txn[c].row IN
    /\ At(c, "approve")
    /\ IF ActiveIn(txn[c].workspace) \cup ActiveFor(intent[i].brand) = {}
       THEN Goes(c, "approved") ELSE Ends(c)
    /\ UNCHANGED tables

Approve(c) ==
    LET i == txn[c].row IN
    /\ At(c, "approved")
    /\ intent' = [intent EXCEPT ![i].at = "approved", ![i].workspace = txn[c].workspace]
    /\ Logged("approved", i, 0, clock[c].overtaken)
    /\ Ends(c)
    /\ UNCHANGED <<login, link, merchant>>

BeginComplete(c, i) ==
    /\ At(c, "idle") /\ ~intent[i].open /\ intent[i].at \in {"approved", "consumed"}
    /\ Begins(c, [NoTxn EXCEPT !.at = "find_grant", !.row = i], intent[i].expired)
    /\ UNCHANGED tables

\* verifiedGrant, for complete: findIntent again, by the grant.
FindGrant(c) ==
    LET i == txn[c].row IN
    /\ At(c, "find_grant") /\ Free(Row(i), c)
    /\ IF clock[c].fresh THEN Locks(c, Row(i), IF intent[i].at = "consumed" THEN "repeat" ELSE "complete")
       ELSE Ends(c)
    /\ UNCHANGED tables

\* The unique indexes: one live link for a brand, one for a workspace.
InsertLink(b, w) ==
    /\ Len(link) < MaxLinks /\ ActiveFor(b) \cup ActiveIn(w) = {}
    /\ link' = Append(link, [brand |-> b, workspace |-> w, live |-> TRUE])

Complete(c) ==
    LET i == txn[c].row IN
    /\ At(c, "complete")
    /\ InsertLink(intent[i].brand, intent[i].workspace)
    /\ intent' = [intent EXCEPT ![i].at = "consumed", ![i].link = Len(link')]
    /\ Logged("linked", i, Len(link'), clock[c].overtaken)
    /\ Ends(c)
    /\ UNCHANGED <<login, merchant>>

\* A repeated completion answers with the link it made, if that is still there.
Repeat(c) == At(c, "repeat") /\ Ends(c) /\ UNCHANGED tables

-----------------------------------------------------------------------------
(* Disconnecting, from either side.                                         *)

BeginRevoke(c, l) ==
    /\ At(c, "idle") /\ link[l].live
    /\ BeginsExpiring(c, [NoTxn EXCEPT !.at = "find_link", !.link = l])
    /\ UNCHANGED tables

\* A link that somebody else disconnected while this waited is left as it is.
LockRevoked(c) ==
    LET l == txn[c].link IN
    /\ At(c, "find_link") /\ Free(LinkRow(l), c)
    /\ IF link[l].live THEN Locks(c, LinkRow(l), "revoke") ELSE Ends(c)
    /\ UNCHANGED tables

\* Faulty: only launches of this link are invalidated, not approvals.
Outstanding_Launches(l) == {i \in Intents : intent[i].at = "started" /\ intent[i].link = l}

\* The unconsumed intents of the brand or of the workspace, and its sign-in requests.
Outstanding(l) ==
    {i \in Intents : intent[i].at \in {"started", "approved"} /\
                     (intent[i].brand = link[l].brand \/ intent[i].workspace = link[l].workspace)}
OutstandingLogins(l) == {r \in Logins : login[r].at = "authorized" /\ login[r].brand = link[l].brand}

\* Faulty: the sessions of the link are left alone.
Revoke_KeepSessions(c) ==
    LET l == txn[c].link IN
    /\ At(c, "revoke")
    /\ link' = [link EXCEPT ![l].live = FALSE]
    /\ intent' = [i \in Intents |-> IF i \in Outstanding(l) THEN [intent[i] EXCEPT !.expired = TRUE] ELSE intent[i]]
    /\ Logged("revoked", NoRow, l, clock[c].overtaken)
    /\ EndsExpiring(c, Outstanding(l))
    /\ UNCHANGED <<login, merchant>>

Revoke(c) ==
    LET l == txn[c].link
        rows == Outstanding(l) \cup OutstandingLogins(l)
    IN /\ At(c, "revoke")
       /\ \A x \in rows : Free(Row(x), c)
       /\ link' = [link EXCEPT ![l].live = FALSE]
       /\ intent' = [i \in Intents |-> IF i \in rows THEN [intent[i] EXCEPT !.expired = TRUE] ELSE intent[i]]
       /\ merchant' = [s \in DOMAIN merchant |->
               IF merchant[s].link = l THEN [merchant[s] EXCEPT !.live = FALSE] ELSE merchant[s]]
       /\ login' = [r \in Logins |-> IF r \in rows THEN [login[r] EXCEPT !.expired = TRUE] ELSE login[r]]
       /\ Logged("revoked", NoRow, l, clock[c].overtaken)
       /\ EndsExpiring(c, rows)

-----------------------------------------------------------------------------
(* Signing in through Merchant Hub: begin, authorize, finish.               *)

Begin(r) ==
    /\ login[r] = NoLogin
    /\ login' = [login EXCEPT ![r].at = "begun"]
    /\ UNCHANGED <<intent, link, merchant, audit, txn, clock>>

\* One conditional UPDATE, after Merchant Hub has vouched for the actor.
Authorize(r, b, staff) ==
    /\ login[r].at = "begun" /\ ~login[r].expired
    /\ login' = [login EXCEPT ![r].at = "authorized", ![r].brand = b, ![r].staff = staff]
    /\ Logged("authorized", r, 0, FALSE)
    /\ UNCHANGED <<intent, link, merchant, txn, clock>>

\* finish reads the request and asks Merchant Hub again before its transaction.
ReadLogin(c, r, w) ==
    /\ At(c, "idle") /\ login[r].at = "authorized" /\ ~login[r].expired
    /\ txn' = [txn EXCEPT ![c] = [NoTxn EXCEPT !.at = "asking", !.row = r, !.workspace = w]]
    /\ UNCHANGED <<tables, clock>>

BeginFinish(c) ==
    /\ At(c, "asking")
    /\ Begins(c, [txn[c] EXCEPT !.at = "finish"], login[txn[c].row].expired)
    /\ UNCHANGED tables

\* Faulty: what was read before asking Merchant Hub is not looked at again.
LockLogin_Trusting(c) ==
    /\ At(c, "finish") /\ Free(Row(txn[c].row), c)
    /\ Locks(c, Row(txn[c].row), "link")
    /\ UNCHANGED tables

\* The identity's advisory lock and the request's row: it must still be good.
LockLogin(c) ==
    LET r == txn[c].row IN
    /\ At(c, "finish") /\ Free(Row(r), c)
    /\ IF login[r].at = "authorized" /\ clock[c].fresh THEN Locks(c, Row(r), "link") ELSE Ends(c)
    /\ UNCHANGED tables

\* The brand's live link is locked; an owner may connect a brand that has none.
LockLink(c) ==
    LET b == login[txn[c].row].brand IN
    /\ At(c, "link")
    /\ \/ \E l \in ActiveFor(b) :
            /\ Free(LinkRow(l), c)
            /\ txn' = [txn EXCEPT ![c].at = "sign_in", ![c].link = l, ![c].held = @ \cup {LinkRow(l)}]
            /\ UNCHANGED clock
       \/ /\ ActiveFor(b) = {}
          /\ IF login[txn[c].row].staff THEN Ends(c) ELSE Goes(c, "connect")
    /\ UNCHANGED tables

\* Signing in by request r through link l.
SignedIn(c, l) ==
    LET r == txn[c].row IN
    /\ Len(merchant) < MaxSessions
    /\ merchant' = Append(merchant, [link |-> l, login |-> r, staff |-> login[r].staff, live |-> TRUE])
    /\ login' = [login EXCEPT ![r].at = "consumed"]
    /\ Logged("signed_in", r, l, clock[c].overtaken)
    /\ Ends(c)

SignIn(c) ==
    /\ At(c, "sign_in") /\ SignedIn(c, txn[c].link)
    /\ UNCHANGED <<intent, link>>

Connect(c) ==
    LET r == txn[c].row IN
    /\ At(c, "connect")
    /\ InsertLink(login[r].brand, txn[c].workspace)
    /\ SignedIn(c, Len(link'))
    /\ UNCHANGED intent

\* revokeActor, at the Hub's logout: the first statement finds the sessions there are.
LogoutSessions(c, staff) ==
    /\ At(c, "idle") /\ merchant # <<>>
    /\ BeginsExpiring(c, [NoTxn EXCEPT !.at = IF staff THEN "logout_staff" ELSE "logout_owner",
                                       !.seen = Len(merchant)])
    /\ UNCHANGED tables

\* And the second the sign-in requests that are authorized and not consumed.
Logout(c) ==
    LET staff == At(c, "logout_staff")
        open == {r \in Logins : login[r].at = "authorized" /\ login[r].staff = staff}
    IN /\ At(c, "logout_staff") \/ At(c, "logout_owner")
       /\ \A r \in open : Free(Row(r), c)
       /\ login' = [r \in Logins |-> IF r \in open THEN [login[r] EXCEPT !.expired = TRUE] ELSE login[r]]
       /\ merchant' = [s \in DOMAIN merchant |-> IF s <= txn[c].seen /\ merchant[s].staff = staff
                                                 THEN [merchant[s] EXCEPT !.live = FALSE] ELSE merchant[s]]
       /\ EndsExpiring(c, open)
       /\ UNCHANGED <<intent, link, audit>>

\* Thesi's own logout, or the eight hours of a session.
SessionEnds(s) ==
    /\ merchant[s].live
    /\ merchant' = [merchant EXCEPT ![s].live = FALSE]
    /\ UNCHANGED <<intent, login, link, audit, txn, clock>>

-----------------------------------------------------------------------------

\* Ten minutes pass.
IntentExpires(i) ==
    /\ intent[i].at \in {"started", "approved"} /\ ~intent[i].expired
    /\ intent' = [intent EXCEPT ![i].expired = TRUE]
    /\ UNCHANGED <<login, link, merchant, audit, txn, clock>>

LoginExpires(r) ==
    /\ login[r].at \in {"begun", "authorized"} /\ ~login[r].expired
    /\ login' = [login EXCEPT ![r].expired = TRUE]
    /\ UNCHANGED <<intent, link, merchant, audit, txn, clock>>

\* A check refuses, a unique index or a deadlock aborts the transaction, or the process dies.
Aborts(c) == ~At(c, "idle") /\ Ends(c) /\ UNCHANGED tables

Next ==
    \/ \E i \in Intents :
        \/ \E b \in Brands, open \in BOOLEAN : Start(i, b, open)
        \/ \E c \in Calls : BeginComplete(c, i) \/ \E w \in Workspaces : BeginApprove(c, i, w)
        \/ IntentExpires(i)
    \/ \E r \in Logins :
        \/ Begin(r) \/ LoginExpires(r)
        \/ \E b \in Brands, staff \in BOOLEAN : Authorize(r, b, staff)
        \/ \E c \in Calls, w \in Workspaces : ReadLogin(c, r, w)
    \/ \E c \in Calls :
        \/ FindIntent(c) \/ LockOpened(c) \/ Open(c) \/ CheckConflict(c) \/ Approve(c)
        \/ FindGrant(c) \/ Complete(c) \/ Repeat(c)
        \/ \E l \in DOMAIN link : BeginRevoke(c, l)
        \/ LockRevoked(c) \/ Revoke(c)
        \/ BeginFinish(c) \/ LockLogin(c) \/ LockLink(c) \/ SignIn(c) \/ Connect(c)
        \/ \E staff \in BOOLEAN : LogoutSessions(c, staff)
        \/ Logout(c) \/ Aborts(c)
    \/ \E s \in DOMAIN merchant : SessionEnds(s)

Spec == Init /\ [][Next]_vars

-----------------------------------------------------------------------------

Links == 0 .. MaxLinks

TypeOK ==
    /\ intent \in [Intents -> [at : {"none", "started", "approved", "consumed"}, expired : BOOLEAN,
                               open : BOOLEAN, brand : Brands \cup {NoBrand},
                               workspace : Workspaces \cup {NoWorkspace}, link : Links]]
    /\ login \in [Logins -> [at : {"none", "begun", "authorized", "consumed"}, expired : BOOLEAN,
                             brand : Brands \cup {NoBrand}, staff : BOOLEAN]]
    /\ link \in Seq([brand : Brands, workspace : Workspaces, live : BOOLEAN])
    /\ merchant \in Seq([link : Links, login : Logins, staff : BOOLEAN, live : BOOLEAN])
    /\ \A c \in Calls : txn[c].row \in Intents \cup Logins \cup {NoRow} /\ txn[c].link \in Links
    /\ clock \in [Calls -> [fresh : BOOLEAN, older : SUBSET Calls, overtaken : BOOLEAN]]

\* A grant: an approval in Thesi, or the authority Merchant Hub gave a sign-in.
Granted(x, n) == audit[n].kind \in {"approved", "authorized"} /\ audit[n].row = x

\* At q a launch opens the link that p disconnected, or the brand or the workspace of that
\* link is linked, or the brand signed in to, by what nobody granted since.
Resurrects(p, q) ==
    LET old == link[audit[p].link] new == link[audit[q].link] IN
    /\ p < q /\ audit[p].kind = "revoked"
    /\ \/ audit[q].kind = "opened" /\ audit[q].link = audit[p].link
       \/ /\ audit[q].kind \in {"linked", "signed_in"}
          /\ old.brand = new.brand \/ (audit[q].kind = "linked" /\ old.workspace = new.workspace)
          /\ \A n \in p .. q : ~Granted(audit[q].row, n)

(* merchant-links.service.ts:174-175, docs/MERCHANT-HUB-LINKING.md: no      *)
(* grant from before a disconnection reconnects either side afterwards.     *)
(* The code does not keep this: now() is when a transaction began, so one   *)
(* that began before the disconnection did still finds its row unexpired.   *)
NotResurrected == \A p, q \in DOMAIN audit : ~Resurrects(p, q)

(* What the code does keep: the completion or the sign-in that resurrects   *)
(* was under way, and was overtaken by a disconnection or a logout that     *)
(* began after it.  One that began later, waits for the row or comes any    *)
(* time afterwards is refused, and no launch ever opens a revoked link.     *)
StaysDisconnected ==
    \A p, q \in DOMAIN audit : Resurrects(p, q) => audit[q].kind # "opened" /\ audit[q].overtaken

(* A session stands on a link that is still there: signing in locks the     *)
(* link that disconnecting locks first, whichever of the two comes first.   *)
SessionHasLink == \A s \in DOMAIN merchant : merchant[s].live => link[merchant[s].link].live

(* A sign-in request is good for one session, however many calls present    *)
(* its code while Merchant Hub is being asked.                              *)
ProofUsedOnce == \A s, t \in DOMAIN merchant : merchant[s].login = merchant[t].login => s = t
=============================================================================
