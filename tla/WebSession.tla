----------------------------- MODULE WebSession -----------------------------
(***************************************************************************)
(* The browser's side of a session: AuthProvider.tsx in each tab, which    *)
(* keeps the session in React state and in the local storage all tabs      *)
(* share, and exchanges the refresh token when a request is answered 401.  *)
(* The server is what Accounts shows of it: a token is exchanged once.     *)
(***************************************************************************)
EXTENDS Naturals

CONSTANTS
    Tabs,           \* tabs of one browser
    Requests,       \* requests in flight
    MaxSessions,    \* bound: sessions ever issued, each with an access and a refresh token
    Failures        \* whether the refresh call may fail for want of a connection

VARIABLES
    stored,         \* the session in local storage, or None
    session,        \* the session in each tab's state
    flight,         \* each tab's refreshPromiseRef: idle, or the token it sent and the answer
    request,        \* each request: its tab, and the session its closure captured
    live,           \* refresh tokens the server still exchanges
    fresh,          \* access tokens that have not expired
    sessions        \* how many sessions were ever issued

vars == <<stored, session, flight, request, live, fresh, sessions>>
server == <<live, fresh, sessions>>

None == 0
Denied == 0         \* the answer to a refresh that failed
NoFlight == [at |-> "idle", token |-> None, answer |-> None]
NoRequest(t) == [at |-> "idle", tab |-> t, session |-> None]

\* One session was signed in before; the tabs that are open show it.
Init ==
    /\ stored = 1
    /\ session = [t \in Tabs |-> 1]
    /\ flight = [t \in Tabs |-> NoFlight]
    /\ request \in [Requests -> {NoRequest(t) : t \in Tabs}]
    /\ live = {1} /\ fresh = {1} /\ sessions = 1

\* persist: the tab's state and the storage together.
Persist(t, s) == session' = [session EXCEPT ![t] = s] /\ stored' = s

Issue ==
    /\ sessions < MaxSessions
    /\ sessions' = sessions + 1 /\ fresh' = fresh \cup {sessions'}

\* The effect that runs when a tab is loaded.
Load(t) ==
    /\ session' = [session EXCEPT ![t] = stored]
    /\ flight' = [flight EXCEPT ![t] = NoFlight]
    /\ request' = [r \in Requests |-> IF request[r].tab = t THEN NoRequest(t) ELSE request[r]]
    /\ UNCHANGED <<stored, server>>

SignIn(t) ==
    /\ session[t] = None
    /\ Issue /\ live' = live \cup {sessions'} /\ Persist(t, sessions')
    /\ UNCHANGED <<flight, request>>

\* The server is not told, except of a Merchant session.
SignOut(t) ==
    /\ session[t] # None
    /\ Persist(t, None)
    /\ UNCHANGED <<flight, request, server>>

\* authenticatedRequest keeps using the session it was called with.
Send(r) ==
    /\ request[r].at = "idle" /\ session[request[r].tab] # None
    /\ request' = [request EXCEPT ![r].at = "sent", ![r].session = session[request[r].tab]]
    /\ UNCHANGED <<stored, session, flight, server>>

Answered(r) ==
    /\ request[r].at \in {"sent", "again"} /\ request[r].session \in fresh
    /\ request' = [request EXCEPT ![r] = NoRequest(request[r].tab)]
    /\ UNCHANGED <<stored, session, flight, server>>

\* A 401 joins the refresh in flight, or starts one with the captured token.
Unauthorized(r) ==
    LET t == request[r].tab IN
    /\ request[r].at = "sent" /\ request[r].session \notin fresh
    /\ request' = [request EXCEPT ![r].at = "waiting"]
    /\ flight' = IF flight[t].at # "idle" THEN flight
                 ELSE [flight EXCEPT ![t] = [at |-> "sent", token |-> request[r].session, answer |-> None]]
    /\ UNCHANGED <<stored, session, server>>

\* A second 401 drops the session.
UnauthorizedAgain(r) ==
    /\ request[r].at = "again" /\ request[r].session \notin fresh
    /\ Persist(request[r].tab, None)
    /\ request' = [request EXCEPT ![r] = NoRequest(request[r].tab)]
    /\ UNCHANGED <<flight, server>>

\* POST /auth/refresh at the server: the token is claimed and replaced, or denied.
Refresh(t) ==
    /\ flight[t].at = "sent"
    /\ IF flight[t].token \in live
       THEN /\ Issue /\ live' = (live \ {flight[t].token}) \cup {sessions'}
            /\ flight' = [flight EXCEPT ![t].at = "answered", ![t].answer = sessions']
       ELSE /\ flight' = [flight EXCEPT ![t].at = "answered", ![t].answer = Denied]
            /\ UNCHANGED server
    /\ UNCHANGED <<stored, session, request>>

ConnectionFails(t) ==
    /\ Failures /\ flight[t].at = "sent"
    /\ flight' = [flight EXCEPT ![t].at = "answered", ![t].answer = Denied]
    /\ UNCHANGED <<stored, session, request, server>>

(* The promise settles: every request that awaits it persists what came and *)
(* goes on, or drops the session and gives up.                              *)
Settle(t) ==
    LET s == flight[t].answer
        waiting == {r \in Requests : request[r].tab = t /\ request[r].at = "waiting"}
    IN /\ flight[t].at = "answered"
       /\ Persist(t, s)
       /\ flight' = [flight EXCEPT ![t] = NoFlight]
       /\ request' = [r \in Requests |->
            CASE r \in waiting /\ s # Denied -> [request[r] EXCEPT !.at = "again", !.session = s]
              [] r \in waiting /\ s = Denied -> NoRequest(t)
              [] OTHER -> request[r]]
       /\ UNCHANGED server

AccessExpires(s) ==
    /\ s \in fresh
    /\ fresh' = fresh \ {s}
    /\ UNCHANGED <<stored, session, flight, request, live, sessions>>

Next ==
    \/ \E t \in Tabs : Load(t) \/ SignIn(t) \/ SignOut(t) \/ Refresh(t) \/ ConnectionFails(t) \/ Settle(t)
    \/ \E r \in Requests : Send(r) \/ Answered(r) \/ Unauthorized(r) \/ UnauthorizedAgain(r)
    \/ \E s \in fresh : AccessExpires(s)

Spec == Init /\ [][Next]_vars

-----------------------------------------------------------------------------

Session == 0 .. MaxSessions

TypeOK ==
    /\ stored \in Session /\ session \in [Tabs -> Session]
    /\ flight \in [Tabs -> [at : {"idle", "sent", "answered"}, token : Session, answer : Session]]
    /\ request \in [Requests -> [at : {"idle", "sent", "waiting", "again"}, tab : Tabs, session : Session]]
    /\ live \subseteq 1 .. sessions /\ fresh \subseteq 1 .. sessions
    /\ sessions \in 1 .. MaxSessions

\* The storage holds a session that the server would still renew.
Renewable == stored \in live

(* docs/AUTH-HARDENING.md: an expired access token refreshes without losing *)
(* the session.  A refresh that settles does not drop a session that the    *)
(* server would still renew.                                                *)
SessionKept == [][\A t \in Tabs : Settle(t) /\ Renewable => stored' # None]_vars
=============================================================================
