-------------------------- MODULE MC_Access_proofs --------------------------
(***************************************************************************)
(* Theorems about Accounts and MerchantAccess, and the types of WebSession,*)
(* for every number of requests, tokens, passwords, brands, workspaces and *)
(* links: what the run access checks of them on a small instance.          *)
(***************************************************************************)
EXTENDS MC_Access, SequenceTheorems, TLAPS

-----------------------------------------------------------------------------
(* Accounts.                                                                *)

Token == [state : {"live", "revoked", "expired"}, from : 0 .. MaxTokens]

CallLocals == [at : Steps, token : 0 .. MaxTokens, link : 0 .. MaxLinks, password : 0 .. MaxPasswords]

UserType == [status : {"absent", "pending", "active", "disabled"}, password : 0 .. MaxPasswords, applied : BOOLEAN]

\* The types of everything but the tokens and the calls.
Columns ==
    /\ application \in {"none", "applied", "approved", "rejected"}
    /\ user \in UserType
    /\ links \in Seq(BOOLEAN) /\ Len(links) <= MaxLinks
    /\ known \subseteq 1 .. MaxPasswords
    /\ issued \in 0 .. MaxPasswords

(* RotatedOnce is not inductive: a call about to open a session for a token *)
(* that already has one satisfies it and breaks it.  Two things prevent     *)
(* that: a token someone was given a session for is revoked, for good, and  *)
(* of the calls that hold a token only one got past its claim.              *)

Claimed(c) == call[c].at = "session" /\ call[c].token # 0

Replaced(t) == \E s \in DOMAIN tokens : tokens[s].from = t

Rotation ==
    /\ \A s \in DOMAIN tokens :
        tokens[s].from # 0 => /\ tokens[s].from \in DOMAIN tokens
                              /\ tokens[tokens[s].from].state = "revoked"
    /\ \A c \in Calls :
        /\ call[c].token # 0 => call[c].at \in {"claim", "session"} /\ call[c].token \in DOMAIN tokens
        /\ call[c].at = "claim" => call[c].token # 0
    /\ \A c \in Calls :
        Claimed(c) => tokens[call[c].token].state = "revoked" /\ ~Replaced(call[c].token)
    /\ \A c, d \in Calls :
        Claimed(c) /\ Claimed(d) /\ call[c].token = call[d].token => c = d

\* approve and resendInvite mail the password they set.
Mails == \A c \in Calls : call[c].at = "mail" => call[c].password # Pending

IInv ==
    /\ TypeOK
    /\ Mails
    /\ Rotation
    /\ RotatedOnce
    /\ ApprovedIsActive

\* No token was issued and nobody has signed in.
LEMMA Initially == Init => IInv
  <1> SUFFICES ASSUME Init PROVE IInv
    OBVIOUS
  <1>1. TypeOK
    BY BoundsAssumption DEF Init, TypeOK, NoUser, NoCall, Pending, Steps
  <1>2. Rotation /\ RotatedOnce /\ ApprovedIsActive /\ Mails
    BY DEF Init, Mails, Rotation, RotatedOnce, ApprovedIsActive, Claimed, NoCall, NoUser
  <1> QED
    BY <1>1, <1>2 DEF IInv

-----------------------------------------------------------------------------
(* What most steps do: one call moves, and no token changes.                *)

\* The tokens as SequenceTheorems speak of them.
LEMMA TokensTyped ==
    ASSUME TypeOK
    PROVE  /\ tokens \in Seq(Token) /\ Len(tokens) \in 0 .. MaxTokens
           /\ DOMAIN tokens = 1 .. Len(tokens)
           /\ \A t \in DOMAIN tokens : tokens[t] \in Token
  <1>1. tokens \in Seq(Token) /\ Len(tokens) <= MaxTokens
    BY DEF TypeOK, Token
  <1>2. DOMAIN tokens = 1 .. Len(tokens) /\ Len(tokens) \in Nat
    BY <1>1, LenProperties
  <1>3. \A t \in 1 .. Len(tokens) : tokens[t] \in Token
    BY <1>1, ElementOfSeq
  <1> QED
    BY <1>1, <1>2, <1>3, BoundsAssumption

\* A call that holds no token, or one it has yet to claim, disturbs nobody.
LEMMA CallMoves ==
    ASSUME IInv, NEW c \in Calls, NEW locals \in CallLocals,
           tokens' = tokens, call' = [call EXCEPT ![c] = locals],
           locals.at = "claim" <=> locals.token # 0,
           locals.token \in {0} \cup DOMAIN tokens
    PROVE  Rotation' /\ RotatedOnce'
  <1>1. /\ call'[c] = locals
        /\ \A d \in Calls \ {c} : call'[d] = call[d]
    BY DEF IInv, TypeOK, CallLocals
  <1>2. RotatedOnce'
    BY DEF IInv, RotatedOnce
  <1>3. Rotation'
    BY <1>1 DEF IInv, Rotation, Claimed, Replaced
  <1> QED
    BY <1>2, <1>3

\* A call that is neither claiming nor opening a session holds no token.
LEMMA NoToken ==
    ASSUME IInv, NEW c \in Calls, call[c].at \notin {"claim", "session"}
    PROVE  call[c].token = 0
  BY DEF IInv, Rotation

\* Nothing that concerns the tokens moves.
LEMMA TokensKept ==
    ASSUME IInv, tokens' = tokens, call' = call
    PROVE  Rotation' /\ RotatedOnce'
  BY DEF IInv, Rotation, RotatedOnce, Claimed, Replaced

-----------------------------------------------------------------------------
(* Applications.                                                            *)

LEMMA ApplyStep == IInv /\ Apply => IInv'
  <1> SUFFICES ASSUME IInv, Apply PROVE IInv'
    OBVIOUS
  <1>1. TypeOK'
    BY BoundsAssumption DEF IInv, TypeOK, Apply, NoUser, Pending
  <1>2. ApprovedIsActive' /\ Mails'
    BY DEF Apply, ApprovedIsActive, IInv, Mails
  <1> QED
    BY <1>1, <1>2, TokensKept DEF Apply, IInv

\* A call that takes a step of its own and issues, claims or revokes no token.
LEMMA QuietStep ==
    ASSUME IInv, NEW c \in Calls, NEW locals \in CallLocals,
           tokens' = tokens, call' = [call EXCEPT ![c] = locals], locals.token = 0,
           locals.at # "claim", locals.at = "mail" => locals.password # Pending,
           Columns', ApprovedIsActive'
    PROVE  IInv'
  <1>1. TypeOK'
    BY DEF IInv, TypeOK, CallLocals, Columns, UserType
  <1>2. Rotation' /\ RotatedOnce'
    BY CallMoves
  <1>3. Mails'
    BY DEF IInv, TypeOK, Mails
  <1> QED
    BY <1>1, <1>2, <1>3 DEF IInv

\* A call goes on from a position that holds no token, or ends.
LEMMA GoesStep ==
    ASSUME IInv, NEW c \in Calls, call[c].at \notin {"claim", "session"},
           NEW step \in Steps \ {"mail", "claim"}, Goes(c, step),
           tokens' = tokens, Columns', ApprovedIsActive'
    PROVE  IInv'
  <1> DEFINE locals == [call[c] EXCEPT !.at = step]
  <1>1. locals \in CallLocals /\ locals.token = 0 /\ locals.at \notin {"mail", "claim"}
    BY NoToken DEF IInv, TypeOK, CallLocals
  <1>2. call' = [call EXCEPT ![c] = locals]
    BY DEF Goes
  <1> HIDE DEF locals
  <1> QED
    BY <1>1, <1>2, QuietStep

LEMMA EndsStep ==
    ASSUME IInv, NEW c \in Calls, Ends(c), tokens' = tokens, Columns', ApprovedIsActive'
    PROVE  IInv'
  <1>1. NoCall \in CallLocals /\ NoCall.token = 0 /\ NoCall.at \notin {"mail", "claim"}
    BY BoundsAssumption DEF NoCall, CallLocals, Steps, Pending
  <1> QED
    BY <1>1, QuietStep DEF Ends

\* Where the account itself does not change.
LEMMA AccountKept ==
    ASSUME IInv, UNCHANGED <<application, user, links, known, issued>>
    PROVE  Columns' /\ ApprovedIsActive'
  BY DEF IInv, TypeOK, Columns, ApprovedIsActive, UserType

\* A password that is set is a new one, and one more.
LEMMA PasswordSet ==
    ASSUME IInv, NewPassword
    PROVE  /\ Fresh \in 1 .. MaxPasswords /\ Fresh # Pending /\ issued' \in 0 .. MaxPasswords
           /\ Activated \in [status : {"active"}, password : 1 .. MaxPasswords, applied : {TRUE}]
  BY BoundsAssumption DEF IInv, TypeOK, NewPassword, Fresh, Pending, Activated

\* approve and resendInvite go on to mail the password they set.
LEMMA MailNext ==
    ASSUME IInv, NEW c \in Calls, call[c].at \notin {"claim", "session"}, NewPassword,
           call' = [call EXCEPT ![c].at = "mail", ![c].password = Fresh],
           tokens' = tokens, Columns', ApprovedIsActive'
    PROVE  IInv'
  <1> DEFINE locals == [call[c] EXCEPT !.at = "mail", !.password = Fresh]
  <1>1. call[c] \in CallLocals /\ call[c].token = 0
    BY NoToken DEF IInv, TypeOK, CallLocals
  <1>2. Fresh \in 0 .. MaxPasswords /\ Fresh # Pending /\ "mail" \in Steps
    BY PasswordSet, BoundsAssumption DEF Steps
  <1>3. locals \in CallLocals /\ locals.token = 0 /\ locals.password # Pending /\ locals.at = "mail"
    BY <1>1, <1>2 DEF CallLocals
  <1>4. call' = [call EXCEPT ![c] = locals]
    OBVIOUS
  <1> HIDE DEF locals
  <1> QED
    BY <1>3, <1>4, QuietStep

\* A new password makes the account one that may sign in, or leaves its status alone.
LEMMA NewAccount ==
    ASSUME IInv, NewPassword,
           application' \in {"none", "applied", "approved", "rejected"},
           UNCHANGED links, known' \in {known, known \cup {Fresh}},
           \/ user' = Activated
           \/ user' = [Activated EXCEPT !.applied = FALSE] /\ application' # "approved"
           \/ user' = [user EXCEPT !.password = Fresh] /\ application' = application
    PROVE  Columns' /\ ApprovedIsActive'
  <1>1. /\ Fresh \in 1 .. MaxPasswords /\ Fresh \in 0 .. MaxPasswords /\ Fresh # Pending
        /\ issued' \in 0 .. MaxPasswords
    BY PasswordSet, BoundsAssumption
  <1>2. CASE user' = Activated
    BY <1>1, <1>2 DEF Activated, UserType, ApprovedIsActive, IInv, TypeOK, Columns
  <1>3. CASE user' = [Activated EXCEPT !.applied = FALSE] /\ application' # "approved"
    BY <1>1, <1>3 DEF Activated, UserType, ApprovedIsActive, IInv, TypeOK, Columns
  <1>4. CASE user' = [user EXCEPT !.password = Fresh] /\ application' = application
    <2>1. user \in UserType
      BY DEF IInv, TypeOK, UserType
    <2>2. user' \in UserType /\ user'.status = user.status /\ user'.applied = user.applied /\ user'.password # Pending
      BY <1>1, <1>4, <2>1 DEF UserType
    <2> QED
      BY <1>1, <1>4, <2>2 DEF ApprovedIsActive, IInv, TypeOK, Columns, UserType
  <1> QED
    BY <1>2, <1>3, <1>4

LEMMA ReadApplicationStep ==
    ASSUME IInv, NEW c \in Calls, NEW step \in {"activate", "disable", "reset"}, ReadApplication(c, step)
    PROVE  IInv'
  BY AccountKept, GoesStep DEF ReadApplication, At, Steps

LEMMA ReadAccountStep ==
    ASSUME IInv, NEW c \in Calls, ReadAccount(c)
    PROVE  IInv'
  <1>1. Columns' /\ ApprovedIsActive' /\ tokens' = tokens
    BY AccountKept DEF ReadAccount
  <1>2. Ends(c) \/ Goes(c, "create") \/ Goes(c, "approve")
    BY DEF ReadAccount
  <1>3. call[c].at \notin {"claim", "session"} /\ {"create", "approve"} \subseteq Steps
    BY DEF ReadAccount, At, Steps
  <1> QED
    BY <1>1, <1>2, <1>3, EndsStep, GoesStep

LEMMA ApproveStep ==
    ASSUME IInv, NEW c \in Calls, Approve(c)
    PROVE  IInv'
  BY NewAccount, MailNext DEF Approve, At

LEMMA RejectStep ==
    ASSUME IInv, NEW c \in Calls, Reject(c)
    PROVE  IInv'
  <1>1. ApprovedIsActive'
    BY DEF Reject, ApprovedIsActive
  <1>2. user \in UserType /\ user' = [user EXCEPT !.status = "disabled", !.password = Pending]
    BY DEF Reject, Disabled, IInv, TypeOK, UserType
  <1>3. user' \in UserType
    <2>1. 0 \in 0 .. MaxPasswords
      BY BoundsAssumption
    <2> QED
      BY <1>2, <2>1 DEF UserType, Pending
  <1>4. Columns'
    BY <1>3 DEF Reject, IInv, TypeOK, Columns
  <1> QED
    BY <1>1, <1>4, EndsStep DEF Reject

LEMMA DisableNobodyStep ==
    ASSUME IInv, NEW c \in Calls, DisableNobody(c)
    PROVE  IInv'
  BY AccountKept, GoesStep DEF DisableNobody, At, Steps

LEMMA RejectApplicationStep ==
    ASSUME IInv, NEW c \in Calls, RejectApplication(c)
    PROVE  IInv'
  <1>1. ApprovedIsActive'
    BY DEF RejectApplication, ApprovedIsActive
  <1>2. Columns'
    BY DEF RejectApplication, IInv, TypeOK, Columns, UserType
  <1> QED
    BY <1>1, <1>2, EndsStep DEF RejectApplication

LEMMA ResetTemporaryStep ==
    ASSUME IInv, NEW c \in Calls, ResetTemporary(c)
    PROVE  IInv'
  <1>1. application' \in {"none", "applied", "approved", "rejected"}
    BY DEF IInv, TypeOK, ResetTemporary
  <1> QED
    BY <1>1, NewAccount, MailNext DEF ResetTemporary, At

\* The password mailed is one that approve or resendInvite made.
LEMMA MailStep ==
    ASSUME IInv, NEW c \in Calls, Mail(c)
    PROVE  IInv'
  <1>1. ApprovedIsActive'
    BY DEF IInv, Mail, ApprovedIsActive
  <1>2. Columns'
    BY BoundsAssumption DEF IInv, TypeOK, Mails, Mail, At, Pending, Columns, UserType
  <1> QED
    BY <1>1, <1>2, EndsStep DEF Mail

-----------------------------------------------------------------------------
(* Sessions.                                                                *)

LEMMA SignUpStep ==
    ASSUME IInv, NEW c \in Calls, SignUp(c)
    PROVE  IInv'
  <1>1. application' \in {"none", "applied", "approved", "rejected"} /\ application' # "approved"
    BY DEF IInv, TypeOK, SignUp, ApprovedIsActive
  <1> QED
    BY <1>1, NewAccount, GoesStep DEF SignUp, At, Steps

\* Sign-in and the forms of onboarding go straight to a session of their own.
LEMMA SignInStep ==
    ASSUME IInv, NEW c \in Calls, SignIn(c) \/ Onboarding(c)
    PROVE  IInv'
  BY AccountKept, GoesStep DEF SignIn, Onboarding, At, Steps

\* A refresh that reads its token as live has yet to claim it.
LEMMA ReadTokenStep ==
    ASSUME IInv, NEW c \in Calls, NEW t \in DOMAIN tokens, ReadToken(c, t)
    PROVE  IInv'
  <1> DEFINE locals == [call[c] EXCEPT !.at = "claim", !.token = t]
  <1>1. t \in 0 .. MaxTokens /\ t # 0
    BY TokensTyped, BoundsAssumption DEF IInv
  <1>2. locals \in CallLocals /\ locals.at = "claim" /\ locals.token = t
    BY <1>1 DEF IInv, TypeOK, CallLocals, Steps
  <1>3. call' = [call EXCEPT ![c] = locals]
    BY DEF ReadToken
  <1>4. TypeOK' /\ Mails'
    BY <1>2, <1>3 DEF IInv, TypeOK, ReadToken, CallLocals, Mails
  <1>5. ApprovedIsActive' /\ tokens' = tokens
    BY AccountKept DEF ReadToken
  <1> HIDE DEF locals
  <1>6. Rotation' /\ RotatedOnce'
    BY <1>1, <1>2, <1>3, <1>5, CallMoves
  <1> QED
    BY <1>4, <1>5, <1>6 DEF IInv

\* Tokens whose state changes, and never back from revoked.
LEMMA StatesMove ==
    ASSUME IInv, NEW f \in [DOMAIN tokens -> {"live", "revoked", "expired"}],
           tokens' = [t \in DOMAIN tokens |-> [tokens[t] EXCEPT !.state = f[t]]],
           \A t \in DOMAIN tokens : tokens[t].state = "revoked" => f[t] = "revoked"
    PROVE  /\ tokens' \in Seq(Token) /\ Len(tokens') = Len(tokens)
           /\ DOMAIN tokens' = DOMAIN tokens
           /\ \A t \in DOMAIN tokens :
                /\ tokens'[t].from = tokens[t].from /\ tokens'[t].state = f[t]
                /\ tokens[t].state = "revoked" => tokens'[t].state = "revoked"
  <1>1. /\ DOMAIN tokens = 1 .. Len(tokens) /\ Len(tokens) \in Nat
        /\ \A t \in DOMAIN tokens : tokens[t] \in Token
    BY TokensTyped DEF IInv
  <1> DEFINE moved(t) == [tokens[t] EXCEPT !.state = f[t]]
  <1>2. \A t \in DOMAIN tokens : moved(t) \in Token /\ moved(t).from = tokens[t].from /\ moved(t).state = f[t]
    BY <1>1 DEF Token
  <1>3. tokens' = [t \in 1 .. Len(tokens) |-> moved(t)]
    BY <1>1
  <1> HIDE DEF moved
  <1>4. tokens' \in Seq(Token)
    BY <1>1, <1>2, <1>3, IsASeq
  <1>5. DOMAIN tokens' = 1 .. Len(tokens) /\ DOMAIN tokens' = 1 .. Len(tokens') /\ Len(tokens') \in Nat
    BY <1>3, <1>4, LenProperties
  <1>6. Len(tokens') = Len(tokens)
    BY <1>1, <1>5
  <1> QED
    BY <1>1, <1>2, <1>3, <1>4, <1>5, <1>6

LEMMA TokensMove ==
    ASSUME IInv, DOMAIN tokens' = DOMAIN tokens, call' = call,
           \A t \in DOMAIN tokens :
               /\ tokens'[t].from = tokens[t].from
               /\ tokens[t].state = "revoked" => tokens'[t].state = "revoked"
    PROVE  Rotation' /\ RotatedOnce'
  <1>1. RotatedOnce'
    BY DEF IInv, RotatedOnce
  <1>2. Rotation'
    BY DEF IInv, Rotation, Claimed, Replaced
  <1> QED
    BY <1>1, <1>2

LEMMA TokenExpiresStep ==
    ASSUME IInv, NEW t \in DOMAIN tokens, TokenExpires(t)
    PROVE  IInv'
  <1> DEFINE f == [s \in DOMAIN tokens |-> IF s = t THEN "expired" ELSE tokens[s].state]
  <1>1. \A s \in DOMAIN tokens : tokens[s] \in Token
    BY TokensTyped DEF IInv
  <1>2. f \in [DOMAIN tokens -> {"live", "revoked", "expired"}]
    BY <1>1 DEF Token
  <1>3. tokens' = [s \in DOMAIN tokens |-> [tokens[s] EXCEPT !.state = f[s]]]
    BY <1>1 DEF TokenExpires, Token
  <1>4. \A s \in DOMAIN tokens : tokens[s].state = "revoked" => f[s] = "revoked"
    BY DEF TokenExpires
  <1> HIDE DEF f
  <1>5. Rotation' /\ RotatedOnce' /\ tokens' \in Seq(Token) /\ Len(tokens') = Len(tokens)
    BY <1>2, <1>3, <1>4, StatesMove, TokensMove DEF TokenExpires
  <1> QED
    BY <1>5 DEF IInv, TypeOK, Token, TokenExpires, ApprovedIsActive, Mails

\* The claim revokes its token, and from then on the call is the only one past it.
LEMMA ClaimStep ==
    ASSUME IInv, NEW c \in Calls, Claim(c)
    PROVE  IInv'
  <1> DEFINE t == call[c].token
  <1>1. CASE Ends(c) /\ tokens' = tokens
    BY <1>1, AccountKept, EndsStep DEF Claim
  <1>2. CASE /\ tokens' = [tokens EXCEPT ![t].state = "revoked"]
             /\ Goes(c, "session") /\ tokens[t].state # "revoked"
    <2>1. t # 0 /\ t \in DOMAIN tokens /\ tokens \in Seq(Token) /\ DOMAIN tokens = 1 .. Len(tokens)
      BY TokensTyped DEF Claim, At, IInv, Rotation
    <2>2. /\ tokens' \in Seq(Token) /\ Len(tokens') = Len(tokens) /\ DOMAIN tokens' = DOMAIN tokens
          /\ \A s \in DOMAIN tokens :
                tokens'[s].from = tokens[s].from
                /\ tokens'[s].state = IF s = t THEN "revoked" ELSE tokens[s].state
      <3> DEFINE f == [s \in DOMAIN tokens |-> IF s = t THEN "revoked" ELSE tokens[s].state]
      <3>1. \A s \in DOMAIN tokens : tokens[s] \in Token
        BY TokensTyped DEF IInv
      <3>2. f \in [DOMAIN tokens -> {"live", "revoked", "expired"}]
        BY <3>1 DEF Token
      <3>3. tokens' = [s \in DOMAIN tokens |-> [tokens[s] EXCEPT !.state = f[s]]]
        BY <1>2, <3>1 DEF Token
      <3>4. \A s \in DOMAIN tokens : tokens[s].state = "revoked" => f[s] = "revoked"
        OBVIOUS
      <3>5. \A s \in DOMAIN tokens : f[s] = IF s = t THEN "revoked" ELSE tokens[s].state
        OBVIOUS
      <3> HIDE DEF f, t
      <3> QED
        BY <3>2, <3>3, <3>4, <3>5, StatesMove
    <2>3. /\ call'[c].at = "session" /\ call'[c].token = t
          /\ \A d \in Calls \ {c} : call'[d] = call[d]
          /\ call' \in [Calls -> CallLocals]
      BY <1>2 DEF Goes, IInv, TypeOK, CallLocals, Steps
    <2> HIDE DEF t
    <2>4. ~Replaced(t)
      BY <1>2, <2>1 DEF IInv, Rotation, Replaced
    <2>5. \A d \in Calls : Claimed(d) => call[d].token # t
      BY <1>2 DEF IInv, Rotation
    <2>6. RotatedOnce'
      BY <2>2 DEF IInv, RotatedOnce
    <2>7. Rotation'
      <3> USE DEF IInv, Rotation
      <3>1. \A s \in DOMAIN tokens' :
                tokens'[s].from # 0 => /\ tokens'[s].from \in DOMAIN tokens'
                                       /\ tokens'[tokens'[s].from].state = "revoked"
        BY <2>2
      <3>2. \A d \in Calls :
                /\ call'[d].token # 0 => call'[d].at \in {"claim", "session"} /\ call'[d].token \in DOMAIN tokens'
                /\ call'[d].at = "claim" => call'[d].token # 0
        BY <2>1, <2>2, <2>3
      <3>3. \A d \in Calls : Claimed(d)' => d = c \/ Claimed(d)
        BY <2>3 DEF Claimed
      <3>4. \A d \in Calls :
                Claimed(d)' => tokens'[call'[d].token].state = "revoked" /\ ~Replaced(call[d].token)'
        BY <2>1, <2>2, <2>3, <2>4, <3>3 DEF Replaced, Claimed
      <3>5. \A d \in Calls : call'[d].token = call[d].token
        BY <2>3 DEF t
      <3>6. \A d, e \in Calls : Claimed(d)' /\ Claimed(e)' /\ call'[d].token = call'[e].token => d = e
        BY <2>3, <2>5, <3>3, <3>5
      <3> QED
        BY <3>1, <3>2, <3>4, <3>6
    <2>8. TypeOK' /\ ApprovedIsActive' /\ Mails'
      BY <2>2, <2>3 DEF IInv, TypeOK, Token, CallLocals, Claim, ApprovedIsActive, Mails
    <2> QED
      BY <2>6, <2>7, <2>8 DEF IInv
  <1> QED
    BY <1>1, <1>2 DEF Claim

\* The session of a claimed token is the first for it; any other is for none.
LEMMA CreateSessionStep ==
    ASSUME IInv, NEW c \in Calls, CreateSession(c)
    PROVE  IInv'
  <1> DEFINE new == [state |-> "live", from |-> call[c].token]
  <1>1. tokens \in Seq(Token) /\ DOMAIN tokens = 1 .. Len(tokens) /\ Len(tokens) \in Nat
    BY TokensTyped, BoundsAssumption DEF IInv
  <1>2. new \in Token
    BY DEF IInv, TypeOK, Token
  <1>3. /\ tokens' \in Seq(Token) /\ Len(tokens') = Len(tokens) + 1
        /\ DOMAIN tokens' = 1 .. Len(tokens) + 1
        /\ \A s \in DOMAIN tokens : tokens'[s] = tokens[s]
        /\ tokens'[Len(tokens) + 1] = new
    BY <1>1, <1>2 DEF CreateSession
  <1>4. /\ call'[c].at = "idle" /\ call'[c].token = 0
        /\ \A d \in Calls \ {c} : call'[d] = call[d]
        /\ call' \in [Calls -> CallLocals]
    BY BoundsAssumption DEF CreateSession, Ends, NoCall, Pending, IInv, TypeOK, CallLocals, Steps
  <1>5. new.from # 0 => Claimed(c) /\ new.from = call[c].token
    BY DEF CreateSession, At, Claimed
  <1> HIDE DEF new
  <1>6. RotatedOnce'
    BY <1>1, <1>3, <1>5 DEF IInv, RotatedOnce, Rotation, Replaced
  <1>7. Rotation'
    BY <1>1, <1>3, <1>4, <1>5 DEF IInv, Rotation, Replaced, Claimed
  <1>8. Len(tokens') <= MaxTokens
    BY <1>1, <1>3, BoundsAssumption DEF CreateSession
  <1>9. TypeOK'
    BY <1>3, <1>4, <1>8 DEF IInv, TypeOK, Token, CallLocals, CreateSession
  <1>10. ApprovedIsActive' /\ Mails'
    BY <1>4 DEF IInv, CreateSession, ApprovedIsActive, Mails
  <1> QED
    BY <1>6, <1>7, <1>9, <1>10 DEF IInv

-----------------------------------------------------------------------------
(* Passwords.                                                               *)

LEMMA ReadForChangeStep ==
    ASSUME IInv, NEW c \in Calls, ReadForChange(c)
    PROVE  IInv'
  BY AccountKept, GoesStep DEF ReadForChange, At, Steps

LEMMA ChangePasswordStep ==
    ASSUME IInv, NEW c \in Calls, ChangePassword(c)
    PROVE  IInv'
  <1>1. application' \in {"none", "applied", "approved", "rejected"}
    BY DEF IInv, TypeOK, ChangePassword
  <1> QED
    BY <1>1, NewAccount, GoesStep DEF ChangePassword, At, Steps

\* Closing every link, or one of them.
LEMMA LinksMove ==
    ASSUME IInv, NEW l,
           links' = [k \in DOMAIN links |-> FALSE] \/ links' = [links EXCEPT ![l] = FALSE]
    PROVE  links' \in Seq(BOOLEAN) /\ Len(links') <= MaxLinks
  <1>1. links \in Seq(BOOLEAN) /\ DOMAIN links = 1 .. Len(links) /\ Len(links) \in Nat /\ Len(links) <= MaxLinks
    BY LenProperties DEF IInv, TypeOK
  <1>2. DOMAIN links' = 1 .. Len(links)
    BY <1>1
  <1>3. \A k \in 1 .. Len(links) : links'[k] \in BOOLEAN
    BY <1>1, ElementOfSeq
  <1>4. links' = [k \in 1 .. Len(links) |-> links'[k]]
    BY <1>2
  <1>5. links' \in Seq(BOOLEAN)
    BY <1>1, <1>3, <1>4, IsASeq
  <1>6. DOMAIN links' = 1 .. Len(links') /\ Len(links') \in Nat
    BY <1>5, LenProperties
  <1> QED
    BY <1>1, <1>2, <1>5, <1>6

LEMMA RequestResetStep ==
    ASSUME IInv, NEW c \in Calls, RequestReset(c)
    PROVE  IInv'
  <1>1. links' \in Seq(BOOLEAN) /\ Len(links') <= MaxLinks
    BY LinksMove DEF RequestReset
  <1>2. Columns' /\ ApprovedIsActive'
    BY <1>1 DEF IInv, TypeOK, Columns, ApprovedIsActive, RequestReset, UserType
  <1> QED
    BY <1>2, GoesStep DEF RequestReset, At, Steps

LEMMA InsertLinkStep ==
    ASSUME IInv, NEW c \in Calls, InsertLink(c)
    PROVE  IInv'
  <1>1. links \in Seq(BOOLEAN) /\ Len(links) \in Nat
    BY LenProperties DEF IInv, TypeOK
  <1>2. links' \in Seq(BOOLEAN) /\ Len(links') = Len(links) + 1
    BY <1>1 DEF InsertLink
  <1>3. Columns' /\ ApprovedIsActive'
    BY <1>1, <1>2, BoundsAssumption DEF IInv, TypeOK, Columns, ApprovedIsActive, InsertLink, UserType
  <1> QED
    BY <1>3, EndsStep DEF InsertLink

LEMMA ReadLinkStep ==
    ASSUME IInv, NEW c \in Calls, NEW l \in DOMAIN links, ReadLink(c, l)
    PROVE  IInv'
  <1> DEFINE locals == [call[c] EXCEPT !.at = "password", !.link = l]
  <1>1. l \in 0 .. MaxLinks
    BY LenProperties, BoundsAssumption DEF IInv, TypeOK
  <1>2. call[c] \in CallLocals /\ call[c].token = 0
    BY NoToken DEF IInv, TypeOK, CallLocals, ReadLink, At
  <1>3. locals \in CallLocals /\ locals.token = 0 /\ locals.at = "password"
    BY <1>1, <1>2 DEF CallLocals, Steps
  <1>4. call' = [call EXCEPT ![c] = locals]
    BY DEF ReadLink
  <1> HIDE DEF locals
  <1> QED
    BY <1>3, <1>4, AccountKept, QuietStep DEF ReadLink

\* Every session ends with the old password, whichever calls were renewing one.
LEMMA ResetPasswordStep ==
    ASSUME IInv, NEW c \in Calls, ResetPassword(c)
    PROVE  IInv'
  <1> DEFINE f == [t \in DOMAIN tokens |-> "revoked"]
  <1>1. tokens' = [t \in DOMAIN tokens |-> [tokens[t] EXCEPT !.state = f[t]]]
    BY DEF ResetPassword
  <1>2. f \in [DOMAIN tokens -> {"live", "revoked", "expired"}]
    OBVIOUS
  <1>3. /\ tokens' \in Seq(Token) /\ Len(tokens') = Len(tokens) /\ DOMAIN tokens' = DOMAIN tokens
        /\ \A t \in DOMAIN tokens : tokens'[t].from = tokens[t].from /\ tokens'[t].state = "revoked"
    <2>1. \A t \in DOMAIN tokens : f[t] = "revoked"
      OBVIOUS
    <2>2. \A t \in DOMAIN tokens : tokens[t].state = "revoked" => f[t] = "revoked"
      OBVIOUS
    <2> HIDE DEF f
    <2>3. /\ tokens' \in Seq(Token) /\ Len(tokens') = Len(tokens) /\ DOMAIN tokens' = DOMAIN tokens
          /\ \A t \in DOMAIN tokens : tokens'[t].from = tokens[t].from /\ tokens'[t].state = f[t]
      BY <1>1, <1>2, <2>2, StatesMove
    <2> QED
      BY <2>1, <2>3
  <1>4. links' \in Seq(BOOLEAN) /\ Len(links') <= MaxLinks
    BY LinksMove DEF ResetPassword
  <1>5. known' \subseteq 1 .. MaxPasswords /\ Columns' /\ ApprovedIsActive'
    <2>1. Fresh \in 1 .. MaxPasswords /\ Fresh # Pending /\ Fresh \in 0 .. MaxPasswords /\ issued' \in 0 .. MaxPasswords
      BY PasswordSet, BoundsAssumption DEF ResetPassword
    <2> QED
      BY <2>1, <1>4 DEF IInv, TypeOK, Columns, ApprovedIsActive, ResetPassword, UserType
  <1>6. /\ call'[c].at = "idle" /\ call'[c].token = 0
        /\ \A d \in Calls \ {c} : call'[d] = call[d]
        /\ call' \in [Calls -> CallLocals]
    BY BoundsAssumption DEF ResetPassword, Ends, NoCall, Pending, IInv, TypeOK, CallLocals, Steps
  <1>7. RotatedOnce'
    BY <1>3 DEF IInv, RotatedOnce
  <1>8. Rotation'
    <2>1. \A d \in Calls : call'[d].token # 0 => call'[d] = call[d]
      BY <1>6
    <2>2. \A d \in Calls : Claimed(d)' => Claimed(d) /\ call'[d] = call[d]
      BY <1>6 DEF Claimed
    <2>3. \A d \in Calls : call'[d].at = "claim" => call'[d].token # 0
      BY <1>6 DEF IInv, Rotation
    <2>4. \A d \in Calls : Claimed(d)' => tokens'[call'[d].token].state = "revoked" /\ ~Replaced(call[d].token)'
      BY <1>3, <2>2 DEF IInv, Rotation, Replaced, Claimed
    <2> QED
      BY <1>3, <2>1, <2>2, <2>3, <2>4 DEF IInv, Rotation, Replaced, Claimed
  <1>9. TypeOK' /\ Mails'
    BY <1>3, <1>5, <1>6 DEF IInv, TypeOK, Token, CallLocals, Columns, Mails, UserType
  <1> QED
    BY <1>5, <1>7, <1>8, <1>9 DEF IInv

LEMMA LinkExpiresStep ==
    ASSUME IInv, NEW l \in DOMAIN links, LinkExpires(l)
    PROVE  IInv'
  <1>1. links' \in Seq(BOOLEAN) /\ Len(links') <= MaxLinks
    BY LinksMove DEF LinkExpires
  <1>2. TypeOK' /\ ApprovedIsActive' /\ Mails'
    BY <1>1 DEF IInv, TypeOK, ApprovedIsActive, Mails, LinkExpires
  <1> QED
    BY <1>2, TokensKept DEF LinkExpires, IInv

LEMMA CallStopsStep ==
    ASSUME IInv, NEW c \in Calls, CallStops(c)
    PROVE  IInv'
  BY AccountKept, EndsStep DEF CallStops

-----------------------------------------------------------------------------

LEMMA Inductive == IInv /\ [Next]_vars => IInv'
  <1> SUFFICES ASSUME IInv, [Next]_vars PROVE IInv'
    OBVIOUS
  <1>1. CASE Apply
    BY <1>1, ApplyStep
  <1>2. ASSUME NEW c \in Calls, NEW step \in {"activate", "disable", "reset"}, ReadApplication(c, step)
        PROVE  IInv'
    BY <1>2, ReadApplicationStep
  <1>3. ASSUME NEW c \in Calls,
               \/ ReadAccount(c) \/ Approve(c) \/ Reject(c) \/ DisableNobody(c) \/ RejectApplication(c)
               \/ ResetTemporary(c) \/ Mail(c) \/ SignUp(c) \/ SignIn(c) \/ Onboarding(c) \/ CreateSession(c) \/ Claim(c)
        PROVE  IInv'
    BY <1>3, ReadAccountStep, ApproveStep, RejectStep, DisableNobodyStep, RejectApplicationStep, ResetTemporaryStep, MailStep,
       SignUpStep, SignInStep, CreateSessionStep, ClaimStep
  <1>4. ASSUME NEW c \in Calls,
               \/ ReadForChange(c) \/ ChangePassword(c) \/ RequestReset(c) \/ InsertLink(c)
               \/ ResetPassword(c) \/ CallStops(c)
        PROVE  IInv'
    BY <1>4, ReadForChangeStep, ChangePasswordStep, RequestResetStep, InsertLinkStep,
       ResetPasswordStep, CallStopsStep
  <1>5. ASSUME NEW c \in Calls, \E t \in DOMAIN tokens : ReadToken(c, t)
        PROVE  IInv'
    BY <1>5, ReadTokenStep
  <1>6. ASSUME NEW c \in Calls, \E l \in DOMAIN links : ReadLink(c, l)
        PROVE  IInv'
    BY <1>6, ReadLinkStep
  <1>7. CASE \/ \E t \in DOMAIN tokens : TokenExpires(t)
             \/ \E l \in DOMAIN links : LinkExpires(l)
    BY <1>7, TokenExpiresStep, LinkExpiresStep
  <1>8. CASE UNCHANGED vars
    <2>1. TypeOK' /\ ApprovedIsActive' /\ Mails'
      BY <1>8 DEF IInv, TypeOK, ApprovedIsActive, Mails, vars
    <2> QED
      BY <1>8, <2>1, TokensKept DEF IInv, vars
  <1> QED
    BY <1>1, <1>2, <1>3, <1>4, <1>5, <1>6, <1>7, <1>8 DEF Next

LEMMA Invariance == Spec => []IInv
  BY Initially, Inductive, PTL DEF Spec

(* The state of an account is well typed whatever requests meet.            *)
THEOREM TypeCorrect == Spec => []TypeOK
  <1>1. IInv => TypeOK
    BY DEF IInv
  <1> QED
    BY <1>1, Invariance, PTL

(* However many requests present one refresh token, and however refreshes,  *)
(* resets of the password and failures interleave, it is exchanged for one  *)
(* session at most.                                                         *)
THEOREM TokenRotatedOnce == Spec => []RotatedOnce
  <1>1. IInv => RotatedOnce
    BY DEF IInv
  <1> QED
    BY <1>1, Invariance, PTL

(* An application reads approved only with an account that may sign in,     *)
(* however many approvals, rejections and repeated invitations race.        *)
THEOREM ApprovalActivates == Spec => []ApprovedIsActive
  <1>1. IInv => ApprovedIsActive
    BY DEF IInv
  <1> QED
    BY <1>1, Invariance, PTL

-----------------------------------------------------------------------------
(* WebSession: the types of a browser's tabs and requests.                  *)

FlightType == [at : {"idle", "sent", "answered"}, token : Web!Session, answer : Web!Session]
RequestType == [at : {"idle", "sent", "waiting", "again"}, tab : Tabs, session : Web!Session]

\* What every step of a tab or of a request keeps: the server issues what the browser holds.
Issued == live \subseteq 1 .. sessions /\ fresh \subseteq 1 .. sessions /\ sessions \in 1 .. 3

LEMMA WebTyped == Web!TypeOK <=> /\ stored \in Web!Session /\ session \in [Tabs -> Web!Session]
                             /\ flight \in [Tabs -> FlightType] /\ request \in [Requests -> RequestType]
                             /\ Issued
  BY DEF Web!TypeOK, FlightType, RequestType, Issued

LEMMA SessionRange ==
    /\ Web!Session = 0 .. 3 /\ Web!None \in Web!Session /\ Web!Denied \in Web!Session
    /\ sessions \in 1 .. 3 => sessions \in Web!Session
  BY DEF Web!Session, Web!None, Web!Denied

LEMMA IdleTyped ==
    /\ Web!NoFlight \in FlightType
    /\ \A t \in Tabs : Web!NoRequest(t) \in RequestType
  BY SessionRange DEF Web!NoFlight, Web!NoRequest, FlightType, RequestType

\* A new session is one more; its refresh token may be added to those alive.
LEMMA IssueTyped ==
    ASSUME Issued, Web!Issue, live' \subseteq live \cup {sessions'}
    PROVE  Issued' /\ sessions' \in Web!Session
  <1>1. /\ live \subseteq 1 .. sessions /\ fresh \subseteq 1 .. sessions /\ sessions \in 1 .. 3
        /\ sessions < 3 /\ sessions' = sessions + 1 /\ fresh' = fresh \cup {sessions'}
    BY DEF Issued, Web!Issue
  <1>2. sessions' \in 1 .. 3 /\ 1 .. sessions \subseteq 1 .. sessions' /\ sessions' \in 1 .. sessions'
    BY <1>1
  <1>3. live' \subseteq 1 .. sessions' /\ fresh' \subseteq 1 .. sessions'
    BY <1>1, <1>2
  <1> QED
    BY <1>2, <1>3 DEF Issued, Web!Session

LEMMA WebTypeStep == Web!TypeOK /\ [Web!Next]_webVars => Web!TypeOK'
  <1> SUFFICES ASSUME Web!TypeOK, [Web!Next]_webVars PROVE Web!TypeOK'
    OBVIOUS
  <1>1. /\ stored \in Web!Session /\ session \in [Tabs -> Web!Session]
        /\ flight \in [Tabs -> FlightType] /\ request \in [Requests -> RequestType] /\ Issued
    BY WebTyped
  <1>2. SUFFICES /\ stored' \in Web!Session /\ session' \in [Tabs -> Web!Session]
                 /\ flight' \in [Tabs -> FlightType] /\ request' \in [Requests -> RequestType] /\ Issued'
    BY DEF Web!TypeOK, FlightType, RequestType, Issued, Web!Session
  <1>3. ASSUME UNCHANGED Web!server PROVE Issued'
    BY <1>1, <1>3 DEF Web!server, Issued
  <1>4. ASSUME NEW t \in Tabs, NEW s \in Web!Session, Web!Persist(t, s)
        PROVE  stored' \in Web!Session /\ session' \in [Tabs -> Web!Session]
    BY <1>1, <1>4 DEF Web!Persist
  <1>5. CASE UNCHANGED webVars
    BY <1>1, <1>5 DEF webVars, Issued
  <1>6. ASSUME NEW t \in Tabs, Web!Load(t)
        PROVE  /\ stored' \in Web!Session /\ session' \in [Tabs -> Web!Session]
               /\ flight' \in [Tabs -> FlightType] /\ request' \in [Requests -> RequestType] /\ Issued'
    <2>1. stored' = stored /\ session' = [session EXCEPT ![t] = stored] /\ Issued'
      BY <1>3, <1>6 DEF Web!Load
    <2>2. flight' = [flight EXCEPT ![t] = Web!NoFlight]
          /\ request' = [r \in Requests |-> IF request[r].tab = t THEN Web!NoRequest(t) ELSE request[r]]
      BY <1>6 DEF Web!Load
    <2>3. flight' \in [Tabs -> FlightType] /\ request' \in [Requests -> RequestType]
      BY <1>1, <2>2, IdleTyped
    <2> QED
      BY <1>1, <2>1, <2>3
  <1>7. ASSUME NEW t \in Tabs, Web!SignIn(t)
        PROVE  /\ stored' \in Web!Session /\ session' \in [Tabs -> Web!Session]
               /\ flight' \in [Tabs -> FlightType] /\ request' \in [Requests -> RequestType] /\ Issued'
    <2>1. Issued' /\ sessions' \in Web!Session
      BY <1>1, <1>7, IssueTyped DEF Web!SignIn
    <2>2. stored' \in Web!Session /\ session' \in [Tabs -> Web!Session]
      BY <1>4, <1>7, <2>1 DEF Web!SignIn
    <2> QED
      BY <1>1, <1>7, <2>1, <2>2 DEF Web!SignIn
  <1>8. ASSUME NEW t \in Tabs, Web!SignOut(t)
        PROVE  /\ stored' \in Web!Session /\ session' \in [Tabs -> Web!Session]
               /\ flight' \in [Tabs -> FlightType] /\ request' \in [Requests -> RequestType] /\ Issued'
    BY <1>1, <1>3, <1>4, <1>8, SessionRange DEF Web!SignOut
  <1>9. ASSUME NEW t \in Tabs, Web!Refresh(t)
        PROVE  /\ stored' \in Web!Session /\ session' \in [Tabs -> Web!Session]
               /\ flight' \in [Tabs -> FlightType] /\ request' \in [Requests -> RequestType] /\ Issued'
    <2>1. stored' = stored /\ session' = session /\ request' = request
      BY <1>9 DEF Web!Refresh
    <2>2. CASE flight[t].token \in live
      <3>1. Issued' /\ sessions' \in Web!Session
        BY <1>1, <1>9, <2>2, IssueTyped DEF Web!Refresh
      <3>2. flight' = [flight EXCEPT ![t].at = "answered", ![t].answer = sessions']
        BY <1>9, <2>2 DEF Web!Refresh
      <3>3. flight' \in [Tabs -> FlightType]
        BY <1>1, <3>1, <3>2 DEF FlightType
      <3> QED
        BY <1>1, <2>1, <3>1, <3>3
    <2>3. CASE flight[t].token \notin live
      <3>1. flight' = [flight EXCEPT ![t].at = "answered", ![t].answer = Web!Denied] /\ Issued'
        BY <1>3, <1>9, <2>3 DEF Web!Refresh
      <3>2. flight' \in [Tabs -> FlightType]
        BY <1>1, <3>1, SessionRange DEF FlightType
      <3> QED
        BY <1>1, <2>1, <3>1, <3>2
    <2> QED
      BY <2>2, <2>3
  <1>10. ASSUME NEW t \in Tabs, Web!ConnectionFails(t)
         PROVE  /\ stored' \in Web!Session /\ session' \in [Tabs -> Web!Session]
                /\ flight' \in [Tabs -> FlightType] /\ request' \in [Requests -> RequestType] /\ Issued'
    <2>1. /\ stored' = stored /\ session' = session /\ request' = request /\ Issued'
          /\ flight' = [flight EXCEPT ![t].at = "answered", ![t].answer = Web!Denied]
      BY <1>3, <1>10 DEF Web!ConnectionFails
    <2>2. flight' \in [Tabs -> FlightType]
      BY <1>1, <2>1, SessionRange DEF FlightType
    <2> QED
      BY <1>1, <2>1, <2>2
  <1>11. ASSUME NEW t \in Tabs, Web!Settle(t)
         PROVE  /\ stored' \in Web!Session /\ session' \in [Tabs -> Web!Session]
                /\ flight' \in [Tabs -> FlightType] /\ request' \in [Requests -> RequestType] /\ Issued'
    <2> DEFINE s == flight[t].answer
               waiting == {r \in Requests : request[r].tab = t /\ request[r].at = "waiting"}
    <2>1. s \in Web!Session
      BY <1>1 DEF FlightType
    <2>2. /\ Web!Persist(t, s) /\ flight' = [flight EXCEPT ![t] = Web!NoFlight] /\ Issued'
          /\ request' = [r \in Requests |->
               CASE r \in waiting /\ s # Web!Denied -> [request[r] EXCEPT !.at = "again", !.session = s]
                 [] r \in waiting /\ s = Web!Denied -> Web!NoRequest(t)
                 [] OTHER -> request[r]]
      BY <1>3, <1>11 DEF Web!Settle
    <2> HIDE DEF s, waiting
    <2>3. flight' \in [Tabs -> FlightType]
      BY <1>1, <2>2, IdleTyped
    <2>4. /\ Web!NoRequest(t) \in RequestType
          /\ \A r \in Requests : /\ request[r] \in RequestType
                                 /\ [request[r] EXCEPT !.at = "again", !.session = s] \in RequestType
      <3>1. \A q \in RequestType : [q EXCEPT !.at = "again", !.session = s] \in RequestType
        BY <2>1 DEF RequestType
      <3> QED
        BY <1>1, <3>1, IdleTyped
    <2>5. \A r \in Requests : request'[r] \in RequestType
      <3> TAKE r \in Requests
      <3>1. CASE r \in waiting /\ s # Web!Denied
        <4>1. request'[r] = [request[r] EXCEPT !.at = "again", !.session = s]
          BY <2>2, <3>1
        <4> QED
          BY <2>4, <4>1
      <3>2. CASE r \in waiting /\ s = Web!Denied
        <4>1. request'[r] = Web!NoRequest(t)
          BY <2>2, <3>2
        <4> QED
          BY <2>4, <4>1
      <3>3. CASE r \notin waiting
        <4>1. request'[r] = request[r]
          BY <2>2, <3>3
        <4> QED
          BY <2>4, <4>1
      <3> QED
        BY <3>1, <3>2, <3>3
    <2>6. request' \in [Requests -> RequestType]
      BY <2>2, <2>5
    <2>7. stored' \in Web!Session /\ session' \in [Tabs -> Web!Session]
      BY <1>4, <2>1, <2>2
    <2> QED
      BY <2>2, <2>3, <2>6, <2>7
  <1>12. ASSUME NEW r \in Requests, Web!Send(r)
         PROVE  /\ stored' \in Web!Session /\ session' \in [Tabs -> Web!Session]
                /\ flight' \in [Tabs -> FlightType] /\ request' \in [Requests -> RequestType] /\ Issued'
    <2>1. /\ stored' = stored /\ session' = session /\ flight' = flight /\ Issued'
          /\ request' = [request EXCEPT ![r].at = "sent", ![r].session = session[request[r].tab]]
      BY <1>3, <1>12 DEF Web!Send
    <2>2. request' \in [Requests -> RequestType]
      BY <1>1, <2>1 DEF RequestType
    <2> QED
      BY <1>1, <2>1, <2>2
  <1>13. ASSUME NEW r \in Requests, Web!Answered(r)
         PROVE  /\ stored' \in Web!Session /\ session' \in [Tabs -> Web!Session]
                /\ flight' \in [Tabs -> FlightType] /\ request' \in [Requests -> RequestType] /\ Issued'
    <2>1. /\ stored' = stored /\ session' = session /\ flight' = flight /\ Issued'
          /\ request' = [request EXCEPT ![r] = Web!NoRequest(request[r].tab)]
      BY <1>3, <1>13 DEF Web!Answered
    <2>2. Web!NoRequest(request[r].tab) \in RequestType
      BY <1>1, IdleTyped DEF RequestType
    <2> QED
      BY <1>1, <2>1, <2>2
  <1>14. ASSUME NEW r \in Requests, Web!Unauthorized(r)
         PROVE  /\ stored' \in Web!Session /\ session' \in [Tabs -> Web!Session]
                /\ flight' \in [Tabs -> FlightType] /\ request' \in [Requests -> RequestType] /\ Issued'
    <2> DEFINE t == request[r].tab
               f == [at |-> "sent", token |-> request[r].session, answer |-> Web!None]
    <2>1. /\ stored' = stored /\ session' = session /\ Issued'
          /\ request' = [request EXCEPT ![r].at = "waiting"]
          /\ flight' = flight \/ flight' = [flight EXCEPT ![t] = f]
      BY <1>3, <1>14 DEF Web!Unauthorized
    <2>2. f \in FlightType /\ request' \in [Requests -> RequestType]
      BY <1>1, <2>1, SessionRange DEF RequestType, FlightType
    <2> HIDE DEF f, t
    <2> QED
      BY <1>1, <2>1, <2>2
  <1>15. ASSUME NEW r \in Requests, Web!UnauthorizedAgain(r)
         PROVE  /\ stored' \in Web!Session /\ session' \in [Tabs -> Web!Session]
                /\ flight' \in [Tabs -> FlightType] /\ request' \in [Requests -> RequestType] /\ Issued'
    <2>1. /\ Web!Persist(request[r].tab, Web!None) /\ flight' = flight /\ Issued'
          /\ request' = [request EXCEPT ![r] = Web!NoRequest(request[r].tab)]
      BY <1>3, <1>15 DEF Web!UnauthorizedAgain
    <2>2. request[r].tab \in Tabs
      BY <1>1 DEF RequestType
    <2>3. Web!NoRequest(request[r].tab) \in RequestType
      BY <2>2, IdleTyped
    <2>4. stored' \in Web!Session /\ session' \in [Tabs -> Web!Session]
      BY <1>4, <2>1, <2>2, SessionRange
    <2> QED
      BY <1>1, <2>1, <2>3, <2>4
  <1>16. ASSUME NEW s \in fresh, Web!AccessExpires(s)
         PROVE  /\ stored' \in Web!Session /\ session' \in [Tabs -> Web!Session]
                /\ flight' \in [Tabs -> FlightType] /\ request' \in [Requests -> RequestType] /\ Issued'
    BY <1>1, <1>16 DEF Web!AccessExpires, Issued
  <1> QED
    BY <1>5, <1>6, <1>7, <1>8, <1>9, <1>10, <1>11, <1>12, <1>13, <1>14, <1>15, <1>16 DEF Web!Next

LEMMA WebInitially == Web!Init => Web!TypeOK
  <1> SUFFICES ASSUME Web!Init PROVE Web!TypeOK
    OBVIOUS
  <1>1. 1 \in Web!Session
    BY SessionRange
  <1>2. request \in [Requests -> RequestType] /\ flight \in [Tabs -> FlightType]
    BY IdleTyped DEF Web!Init
  <1>3. Issued
    BY DEF Web!Init, Issued
  <1> QED
    BY <1>1, <1>2, <1>3, WebTyped DEF Web!Init

-----------------------------------------------------------------------------
(* MerchantAccess.  What it promises is about the past (what was granted    *)
(* before a link was revoked) and about rows that several requests decide   *)
(* on.  The invariant MInv says of the present what keeps it: a grant that  *)
(* can still be used was given after every revocation it is about           *)
(* (Approvals), also for the transactions that are about to use one and     *)
(* were not overtaken (Users), and what a request read under its locks is   *)
(* still so (CallsFit), because locks exclude each other (Apart).           *)

IntentType == [at : {"none", "started", "approved", "consumed"}, expired : BOOLEAN,
               open : BOOLEAN, brand : Brands \cup {NoBrand},
               workspace : Workspaces \cup {NoWorkspace}, link : Merchant!Links]
LoginType == [at : {"none", "begun", "authorized", "consumed"}, expired : BOOLEAN,
              brand : Brands \cup {NoBrand}, staff : BOOLEAN]
LinkType == [brand : Brands, workspace : Workspaces, live : BOOLEAN]
SessionType == [link : Merchant!Links, login : Logins, staff : BOOLEAN, live : BOOLEAN]
EventType == [kind : {"approved", "authorized", "linked", "signed_in", "opened", "revoked"},
              row : Intents \cup Logins \cup {NoRow}, link : Merchant!Links, overtaken : BOOLEAN]
ClockType == [fresh : BOOLEAN, older : SUBSET Calls, overtaken : BOOLEAN]

Using == {"complete", "link", "sign_in", "connect"}
TxnSteps == {"idle", "find_intent", "open", "opened", "approve", "approved", "find_grant", "repeat", "find_link",
             "revoke", "asking", "finish", "logout_staff", "logout_owner"} \cup Using
TxnType == [at : TxnSteps, row : Intents \cup Logins \cup {NoRow}, workspace : Workspaces \cup {NoWorkspace},
            link : Merchant!Links, seen : Nat,
            held : SUBSET ({Merchant!LinkRow(l) : l \in Merchant!Links} \cup
                           {Merchant!Row(x) : x \in Intents \cup Logins})]

MShape ==
    /\ intent \in [Intents -> IntentType] /\ login \in [Logins -> LoginType]
    /\ link \in Seq(LinkType) /\ Len(link) <= MaxBrandLinks
    /\ merchant \in Seq(SessionType)
    /\ audit \in Seq(EventType)
    /\ txn \in [Calls -> TxnType] /\ clock \in [Calls -> ClockType]

\* Of intents I, sign-in requests L and links K: what a row that may still be used says.
RowsSound(I, L, K) ==
    /\ \A i \in Intents : /\ I[i].at \in {"started", "approved"} => I[i].brand \in Brands
                          /\ I[i].at = "approved" => I[i].workspace \in Workspaces
                          /\ I[i].at = "started" /\ I[i].open => I[i].link \in 1 .. Len(K)
    /\ \A r \in Logins : L[r].at = "authorized" => L[r].brand \in Brands

\* What transaction x knows of its row, and what the locks it holds keep for it.
Fits(x, I, L, K) ==
    /\ x.at \in {"find_intent", "find_grant"} => x.row \in Intents
    /\ x.at = "find_intent" => x.workspace \in Workspaces
    /\ x.at = "find_grant" => I[x.row].at \in {"approved", "consumed"}
    /\ x.at \in {"open", "opened", "approve", "approved", "complete", "repeat"} =>
          x.row \in Intents /\ Merchant!Row(x.row) \in x.held
    /\ x.at \in {"open", "opened", "approve", "approved"} => I[x.row].at = "started" /\ x.workspace \in Workspaces
    /\ x.at = "complete" => I[x.row].at = "approved"
    /\ x.at \in {"open", "opened", "find_link", "revoke", "sign_in"} => x.link \in 1 .. Len(K)
    /\ x.at \in {"opened", "revoke", "sign_in"} => Merchant!LinkRow(x.link) \in x.held /\ K[x.link].live
    /\ x.at \in {"asking", "finish", "link", "sign_in", "connect"} => x.row \in Logins /\ x.workspace \in Workspaces
    /\ x.at \in {"link", "sign_in", "connect"} => Merchant!Row(x.row) \in x.held /\ L[x.row].at = "authorized"
    /\ x.at = "sign_in" => K[x.link].brand = L[x.row].brand

\* A row that grants something, whether it has expired, and what it is about.
Grant(I, L, x) == IF x \in Intents THEN I[x].at = "approved" ELSE L[x].at = "authorized"
Expired(I, L, x) == IF x \in Intents THEN I[x].expired ELSE L[x].expired
Concern(I, L, x) == IF x \in Intents THEN [brand |-> I[x].brand, workspace |-> I[x].workspace]
                    ELSE [brand |-> L[x].brand, workspace |-> NoWorkspace]

\* Since the link of brand or workspace s was last revoked, x was granted.
Same(a, b) == a.brand = b.brand \/ a.workspace = b.workspace
Clear(A, K, s, x) ==
    \A p \in 1 .. Len(A) : A[p].kind = "revoked" /\ Same(K[A[p].link], s) =>
        \E n \in p .. Len(A) : A[n].kind \in {"approved", "authorized"} /\ A[n].row = x

History(A, K) ==
    /\ \A p \in 1 .. Len(A) : A[p].kind \in {"revoked", "linked", "signed_in"} => A[p].link \in 1 .. Len(K)
    /\ \A p \in 1 .. Len(A) : A[p].kind = "revoked" => ~K[A[p].link].live

About(e, a, b) == a.brand = b.brand \/ (e.kind = "linked" /\ a.workspace = b.workspace)
NoReturn(A, K) ==
    \A p, q \in 1 .. Len(A) : p < q /\ A[p].kind = "revoked" =>
        /\ A[q].kind = "opened" => A[q].link # A[p].link
        /\ A[q].kind \in {"linked", "signed_in"} /\ ~A[q].overtaken /\ About(A[q], K[A[p].link], K[A[q].link]) =>
              \E n \in p .. q : A[n].kind \in {"approved", "authorized"} /\ A[n].row = A[q].row

SessionsStand(M, L, K) ==
    /\ \A s \in 1 .. Len(M) : /\ M[s].link \in 1 .. Len(K) /\ L[M[s].login].at = "consumed"
                              /\ M[s].live => K[M[s].link].live
    /\ \A s, t \in 1 .. Len(M) : M[s].login = M[t].login => s = t

CallsFit == \A c \in Calls : Fits(txn[c], intent, login, link)

\* Row locks exclude each other.
Apart == \A c, d \in Calls : c # d => txn[c].held \cap txn[d].held = {}

\* What may still be completed or signed in with, and by whom it is being used.
Approvals == \A x \in Intents \cup Logins :
    Grant(intent, login, x) /\ ~Expired(intent, login, x) => Clear(audit, link, Concern(intent, login, x), x)
InUse(x, k) == ~k.overtaken /\ (x.at \in Using \/ (x.at \in {"find_grant", "finish"} /\ k.fresh))
Users == \A c \in Calls : InUse(txn[c], clock[c]) /\ Grant(intent, login, txn[c].row) =>
    Clear(audit, link, Concern(intent, login, txn[c].row), txn[c].row)

MInv ==
    /\ MShape
    /\ RowsSound(intent, login, link)
    /\ CallsFit /\ Apart
    /\ Approvals /\ Users
    /\ History(audit, link) /\ NoReturn(audit, link)
    /\ SessionsStand(merchant, login, link)

-----------------------------------------------------------------------------
(* What a step of one request leaves to the others.                         *)

\* Links are never removed, never about another brand, and never live again.
LinksKept(K, K2) ==
    /\ Len(K) <= Len(K2)
    /\ \A l \in 1 .. Len(K) : /\ K2[l].brand = K[l].brand /\ K2[l].workspace = K[l].workspace
                              /\ K2[l].live => K[l].live

\* A request that holds the locks h finds its rows as they were; an approval is only ever consumed.
Spares(h, I, L, K, I2, L2, K2) ==
    /\ \A l \in 1 .. Len(K) : Merchant!LinkRow(l) \in h /\ K[l].live => K2[l].live
    /\ \A i \in Intents : /\ Merchant!Row(i) \in h /\ I[i].at \in {"started", "approved"} => I2[i].at = I[i].at
                          /\ I[i].at \in {"approved", "consumed"} => I2[i].at \in {"approved", "consumed"}
    /\ \A r \in Logins : Merchant!Row(r) \in h /\ L[r].at = "authorized" =>
                            L2[r].at = "authorized" /\ L2[r].brand = L[r].brand

LEMMA FitsKept ==
    ASSUME NEW x, NEW I, NEW L, NEW K, NEW I2, NEW L2, NEW K2,
           Fits(x, I, L, K), Spares(x.held, I, L, K, I2, L2, K2), Len(K) \in Nat, Len(K2) \in Nat, LinksKept(K, K2)
    PROVE  Fits(x, I2, L2, K2)
  <1>1. \A l : l \in 1 .. Len(K) => l \in 1 .. Len(K2)
    BY DEF LinksKept
  <1>2. /\ x.at \in {"find_intent", "find_grant"} => x.row \in Intents
        /\ x.at = "find_intent" => x.workspace \in Workspaces
        /\ x.at \in {"open", "opened", "approve", "approved", "complete", "repeat"} =>
              x.row \in Intents /\ Merchant!Row(x.row) \in x.held
        /\ x.at \in {"open", "opened", "find_link", "revoke", "sign_in"} => x.link \in 1 .. Len(K2)
        /\ x.at \in {"asking", "finish", "link", "sign_in", "connect"} => x.row \in Logins /\ x.workspace \in Workspaces
    BY <1>1 DEF Fits
  <1>3. x.at \in {"open", "opened", "approve", "approved"} => I2[x.row].at = "started" /\ x.workspace \in Workspaces
    BY DEF Fits, Spares
  <1>4. /\ x.at = "complete" => I2[x.row].at = "approved"
        /\ x.at = "find_grant" => I2[x.row].at \in {"approved", "consumed"}
    BY DEF Fits, Spares
  <1>5. x.at \in {"opened", "revoke", "sign_in"} => Merchant!LinkRow(x.link) \in x.held /\ K2[x.link].live
    BY DEF Fits, Spares
  <1>6. x.at \in {"link", "sign_in", "connect"} => Merchant!Row(x.row) \in x.held /\ L2[x.row].at = "authorized"
    BY DEF Fits, Spares
  <1>7. x.at = "sign_in" => K2[x.link].brand = L2[x.row].brand
    <2> SUFFICES ASSUME x.at = "sign_in" PROVE K2[x.link].brand = L2[x.row].brand
      OBVIOUS
    <2>1. /\ x.link \in 1 .. Len(K) /\ x.row \in Logins /\ Merchant!Row(x.row) \in x.held
          /\ L[x.row].at = "authorized" /\ K[x.link].brand = L[x.row].brand
      BY DEF Fits
    <2> QED
      BY <2>1 DEF Spares, LinksKept
  <1> QED
    BY <1>2, <1>3, <1>4, <1>5, <1>6, <1>7 DEF Fits

\* The audit trail grows; what is appended is no revocation of what s is about.
LEMMA ClearKept ==
    ASSUME NEW A, NEW A2, NEW K, NEW K2, NEW s, NEW x,
           History(A, K), Clear(A, K, s, x), LinksKept(K, K2), Len(A) \in Nat, Len(A2) \in Nat, Len(A) <= Len(A2),
           \A p \in 1 .. Len(A) : A2[p] = A[p],
           \A p \in 1 .. Len(A2) : p > Len(A) /\ A2[p].kind = "revoked" => ~Same(K2[A2[p].link], s)
    PROVE  Clear(A2, K2, s, x)
  <1> SUFFICES ASSUME NEW p \in 1 .. Len(A2), A2[p].kind = "revoked", Same(K2[A2[p].link], s)
               PROVE  \E n \in p .. Len(A2) : A2[n].kind \in {"approved", "authorized"} /\ A2[n].row = x
    BY DEF Clear
  <1>1. p \in 1 .. Len(A) /\ A2[p] = A[p]
    OBVIOUS
  <1>2. A[p].kind = "revoked" /\ A[p].link \in 1 .. Len(K)
    BY <1>1 DEF History
  <1>3. Same(K[A[p].link], s)
    BY <1>1, <1>2 DEF Same, LinksKept
  <1>4. PICK n \in p .. Len(A) : A[n].kind \in {"approved", "authorized"} /\ A[n].row = x
    BY <1>1, <1>2, <1>3 DEF Clear
  <1>5. n \in p .. Len(A2) /\ n \in 1 .. Len(A)
    BY <1>1, <1>4
  <1> QED
    BY <1>4, <1>5

LEMMA HistorySame ==
    ASSUME NEW A, NEW K, NEW K2, History(A, K), NoReturn(A, K), LinksKept(K, K2), Len(K) \in Nat, Len(K2) \in Nat
    PROVE  History(A, K2) /\ NoReturn(A, K2)
  <1>1. \A p \in 1 .. Len(A) : A[p].kind \in {"revoked", "linked", "signed_in"} => A[p].link \in 1 .. Len(K)
    BY DEF History
  <1>2. \A l : l \in 1 .. Len(K) => l \in 1 .. Len(K2)
    BY DEF LinksKept
  <1>3. History(A, K2)
    <2>1. \A p \in 1 .. Len(A) : A[p].kind \in {"revoked", "linked", "signed_in"} => A[p].link \in 1 .. Len(K2)
      BY <1>1, <1>2
    <2>2. \A p \in 1 .. Len(A) : A[p].kind = "revoked" => ~K2[A[p].link].live
      BY <1>1 DEF History, LinksKept
    <2> QED
      BY <2>1, <2>2 DEF History
  <1>4. NoReturn(A, K2)
    <2> SUFFICES ASSUME NEW p \in 1 .. Len(A), NEW q \in 1 .. Len(A), p < q, A[p].kind = "revoked"
                 PROVE  /\ A[q].kind = "opened" => A[q].link # A[p].link
                        /\ /\ A[q].kind \in {"linked", "signed_in"} /\ ~A[q].overtaken
                           /\ About(A[q], K2[A[p].link], K2[A[q].link])
                           => \E n \in p .. q : A[n].kind \in {"approved", "authorized"} /\ A[n].row = A[q].row
      BY DEF NoReturn
    <2>1. A[q].kind = "opened" => A[q].link # A[p].link
      BY DEF NoReturn
    <2>2. ASSUME A[q].kind \in {"linked", "signed_in"}, ~A[q].overtaken, About(A[q], K2[A[p].link], K2[A[q].link])
          PROVE  \E n \in p .. q : A[n].kind \in {"approved", "authorized"} /\ A[n].row = A[q].row
      <3>1. A[p].link \in 1 .. Len(K) /\ A[q].link \in 1 .. Len(K)
        BY <1>1, <2>2
      <3>2. About(A[q], K[A[p].link], K[A[q].link])
        BY <2>2, <3>1 DEF About, LinksKept
      <3> QED
        BY <2>2, <3>2 DEF NoReturn
    <2> QED
      BY <2>1, <2>2
  <1> QED
    BY <1>3, <1>4

LEMMA HistoryGrows ==
    ASSUME NEW A, A \in Seq(EventType), NEW e \in EventType, NEW K, History(A, K), NoReturn(A, K),
           e.kind \in {"revoked", "linked", "signed_in"} => e.link \in 1 .. Len(K),
           e.kind = "revoked" => ~K[e.link].live,
           e.kind = "opened" => K[e.link].live,
           e.kind \in {"linked", "signed_in"} /\ ~e.overtaken =>
               \A p \in 1 .. Len(A) : A[p].kind = "revoked" /\ About(e, K[A[p].link], K[e.link]) =>
                   \E n \in p .. Len(A) : A[n].kind \in {"approved", "authorized"} /\ A[n].row = e.row
    PROVE  History(Append(A, e), K) /\ NoReturn(Append(A, e), K)
  <1> DEFINE B == Append(A, e)
             k == Len(A)
  <1>1. /\ k \in Nat /\ Len(B) = k + 1 /\ B[k + 1] = e
        /\ \A p \in 1 .. k : B[p] = A[p]
    BY AppendProperties, LenProperties
  <1> HIDE DEF B
  <1>2. \A p \in 1 .. k + 1 : p \in 1 .. k \/ p = k + 1
    BY <1>1
  <1>3. History(B, K)
    BY <1>1, <1>2 DEF History
  <1>4. NoReturn(B, K)
    <2> SUFFICES ASSUME NEW p \in 1 .. k + 1, NEW q \in 1 .. k + 1, p < q, B[p].kind = "revoked"
                 PROVE  /\ B[q].kind = "opened" => B[q].link # B[p].link
                        /\ /\ B[q].kind \in {"linked", "signed_in"} /\ ~B[q].overtaken
                           /\ About(B[q], K[B[p].link], K[B[q].link])
                           => \E n \in p .. q : B[n].kind \in {"approved", "authorized"} /\ B[n].row = B[q].row
      BY <1>1 DEF NoReturn
    <2>1. p \in 1 .. k /\ B[p] = A[p]
      BY <1>1
    <2>2. CASE q \in 1 .. k
      <3>1. B[q] = A[q] /\ \A n \in p .. q : B[n] = A[n]
        BY <1>1, <2>1, <2>2
      <3> QED
        BY <2>1, <2>2, <3>1 DEF NoReturn
    <2>3. CASE q = k + 1
      <3>1. B[q] = e
        BY <1>1, <2>3
      <3>2. ~K[A[p].link].live
        BY <2>1 DEF History
      <3>3. ASSUME e.kind \in {"linked", "signed_in"}, ~e.overtaken, About(e, K[A[p].link], K[e.link])
            PROVE  \E n \in p .. q : B[n].kind \in {"approved", "authorized"} /\ B[n].row = e.row
        <4>1. PICK n \in p .. k : A[n].kind \in {"approved", "authorized"} /\ A[n].row = e.row
          BY <2>1, <3>3
        <4>2. n \in p .. q /\ B[n] = A[n]
          BY <1>1, <2>1, <2>3, <4>1
        <4> QED
          BY <4>1, <4>2
      <3> QED
        BY <2>1, <3>1, <3>2, <3>3
    <2> QED
      BY <1>2, <2>2, <2>3
  <1> QED
    BY <1>3, <1>4 DEF B

LEMMA SessionsKept ==
    ASSUME NEW M, NEW L, NEW L2, NEW K, NEW K2, SessionsStand(M, L, K), Len(K) \in Nat, Len(K2) \in Nat,
           LinksKept(K, K2), \A l \in 1 .. Len(K) : K[l].live => K2[l].live,
           \A r \in Logins : L[r].at = "consumed" => L2[r].at = "consumed",
           \A s \in 1 .. Len(M) : M[s].login \in Logins
    PROVE  SessionsStand(M, L2, K2)
  <1>1. \A s \in 1 .. Len(M) : M[s].link \in 1 .. Len(K2)
    BY DEF SessionsStand, LinksKept
  <1> QED
    BY <1>1 DEF SessionsStand

\* A session that goes on is one that was there, on a link that is.
LEMMA SessionsGoOn ==
    ASSUME NEW M, NEW M2, NEW L, NEW L2, NEW K, NEW K2, SessionsStand(M, L, K), Len(K) \in Nat, Len(K2) \in Nat,
           Len(K) <= Len(K2), Len(M2) = Len(M), \A s \in 1 .. Len(M) : M[s].login \in Logins,
           \A r \in Logins : L[r].at = "consumed" => L2[r].at = "consumed",
           \A s \in 1 .. Len(M) : /\ M2[s].link = M[s].link /\ M2[s].login = M[s].login
                                  /\ M2[s].live => K2[M[s].link].live
    PROVE  SessionsStand(M2, L2, K2)
  <1>1. \A l : l \in 1 .. Len(K) => l \in 1 .. Len(K2)
    OBVIOUS
  <1>2. \A s \in 1 .. Len(M) : /\ M[s].link \in 1 .. Len(K) /\ L[M[s].login].at = "consumed"
    BY DEF SessionsStand
  <1>3. \A s \in 1 .. Len(M2) : M2[s].link \in 1 .. Len(K2) /\ L2[M2[s].login].at = "consumed"
    BY <1>1, <1>2
  <1>4. \A s, t \in 1 .. Len(M) : M[s].login = M[t].login => s = t
    BY DEF SessionsStand
  <1> QED
    BY <1>3, <1>4 DEF SessionsStand

\* The session that a sign-in adds stands on the link it locked, and spends its request.
LEMMA SessionsGrow ==
    ASSUME NEW M \in Seq(SessionType), NEW e \in SessionType, NEW L, NEW L2, NEW K, NEW K2, SessionsStand(M, L, K),
           Len(K) \in Nat, Len(K2) \in Nat, Len(K) <= Len(K2),
           \A l \in 1 .. Len(K) : K[l].live => K2[l].live,
           \A r \in Logins : L[r].at = "consumed" => L2[r].at = "consumed",
           e.link \in 1 .. Len(K2), K2[e.link].live, L[e.login].at # "consumed", L2[e.login].at = "consumed"
    PROVE  SessionsStand(Append(M, e), L2, K2)
  <1> DEFINE B == Append(M, e)
             k == Len(M)
  <1>1. /\ k \in Nat /\ Len(B) = k + 1 /\ B[k + 1] = e
        /\ \A p \in 1 .. k : B[p] = M[p]
    BY AppendProperties, LenProperties
  <1>0. \A s \in 1 .. k : M[s].login \in Logins
    <2>1. \A s \in 1 .. k : M[s] \in SessionType
      BY ElementOfSeq
    <2> QED
      BY <2>1 DEF SessionType
  <1> HIDE DEF B
  <1>2. \A p \in 1 .. k + 1 : p \in 1 .. k \/ p = k + 1
    BY <1>1
  <1>3. \A l : l \in 1 .. Len(K) => l \in 1 .. Len(K2)
    OBVIOUS
  <1>4. \A s \in 1 .. k : /\ M[s].link \in 1 .. Len(K) /\ L[M[s].login].at = "consumed"
                          /\ M[s].live => K[M[s].link].live
    BY DEF SessionsStand
  <1>5. \A s \in 1 .. k + 1 : /\ B[s].link \in 1 .. Len(K2) /\ L2[B[s].login].at = "consumed"
                              /\ B[s].live => K2[B[s].link].live
    <2> TAKE s \in 1 .. k + 1
    <2>1. CASE s \in 1 .. k
      BY <1>0, <1>1, <1>3, <1>4, <2>1
    <2>2. CASE s = k + 1
      BY <1>1, <2>2
    <2> QED
      BY <1>2, <2>1, <2>2
  <1>6. \A s, t \in 1 .. k : M[s].login = M[t].login => s = t
    BY DEF SessionsStand
  <1>7. \A s \in 1 .. k : M[s].login # e.login
    BY <1>4
  <1>8. \A s, t \in 1 .. k + 1 : B[s].login = B[t].login => s = t
    BY <1>1, <1>2, <1>6, <1>7
  <1> QED
    BY <1>1, <1>5, <1>8 DEF SessionsStand, B

LEMMA MerchantRowsTyped ==
    ASSUME MInv
    PROVE  /\ Len(link) \in Nat /\ DOMAIN link = 1 .. Len(link) /\ \A l \in 1 .. Len(link) : link[l] \in LinkType
           /\ Len(merchant) \in Nat /\ DOMAIN merchant = 1 .. Len(merchant)
           /\ \A s \in 1 .. Len(merchant) : merchant[s] \in SessionType
           /\ Len(audit) \in Nat /\ DOMAIN audit = 1 .. Len(audit)
           /\ \A p \in 1 .. Len(audit) : audit[p] \in EventType
           /\ 1 .. Len(link) \subseteq Merchant!Links
  <1>1. /\ link \in Seq(LinkType) /\ Len(link) <= MaxBrandLinks
        /\ merchant \in Seq(SessionType) /\ audit \in Seq(EventType)
    BY DEF MInv, MShape
  <1>2. /\ Len(link) \in Nat /\ DOMAIN link = 1 .. Len(link) /\ \A l \in 1 .. Len(link) : link[l] \in LinkType
    BY <1>1, LenProperties, ElementOfSeq
  <1>3. /\ Len(merchant) \in Nat /\ DOMAIN merchant = 1 .. Len(merchant)
        /\ \A s \in 1 .. Len(merchant) : merchant[s] \in SessionType
    BY <1>1, LenProperties, ElementOfSeq
  <1>4. /\ Len(audit) \in Nat /\ DOMAIN audit = 1 .. Len(audit) /\ \A p \in 1 .. Len(audit) : audit[p] \in EventType
    BY <1>1, LenProperties, ElementOfSeq
  <1>5. 1 .. Len(link) \subseteq Merchant!Links
    BY <1>1, <1>2, MerchantRows DEF Merchant!Links, Merchant!RowsAssumption
  <1> QED
    BY <1>2, <1>3, <1>4, <1>5

LEMMA NothingHeld == Merchant!NoTxn.held = {} /\ Merchant!NoTxn.at = "idle"
  BY DEF Merchant!NoTxn

LEMMA NoTxnFits ==
    ASSUME NEW I, NEW L, NEW K
    PROVE  /\ Merchant!NoTxn \in TxnType /\ Fits(Merchant!NoTxn, I, L, K)
           /\ Merchant!NoTxn.held = {} /\ Merchant!NoTxn.at = "idle"
  BY MerchantRows DEF Merchant!NoTxn, TxnType, TxnSteps, Merchant!Links, Fits, Merchant!RowsAssumption

\* BEGIN, COMMIT and all between leave the clocks of the others, but for what they lock out.
ClockStays(c) ==
    /\ clock' \in [Calls -> ClockType]
    /\ \A d \in Calls \ {c} : clock'[d].fresh = clock[d].fresh /\ clock'[d].overtaken = clock[d].overtaken

LEMMA ClockMoves ==
    ASSUME MInv, NEW c \in Calls
    PROVE  /\ UNCHANGED clock => ClockStays(c)
           /\ Merchant!Ends(c) => ClockStays(c) /\ clock'[c] = Merchant!NoClock
           /\ \A x : \A expired \in BOOLEAN : Merchant!Begins(c, x, expired) =>
                 ClockStays(c) /\ clock'[c].fresh = ~expired /\ clock'[c].overtaken = FALSE
           /\ \A x : Merchant!BeginsExpiring(c, x) => ClockStays(c)
  <1>1. clock \in [Calls -> ClockType]
    BY DEF MInv, MShape
  <1>2. Merchant!NoClock \in ClockType
    BY DEF Merchant!NoClock, ClockType
  <1>3. UNCHANGED clock => ClockStays(c)
    BY <1>1 DEF ClockStays
  <1>4. ASSUME Merchant!Ends(c) PROVE ClockStays(c) /\ clock'[c] = Merchant!NoClock
    <2>1. clock' = [d \in Calls |-> IF d = c THEN Merchant!NoClock ELSE [clock[d] EXCEPT !.older = @ \ {c}]]
      BY <1>4 DEF Merchant!Ends
    <2>2. \A d \in Calls : LET k == [clock[d] EXCEPT !.older = @ \ {c}]
                           IN  k \in ClockType /\ k.fresh = clock[d].fresh /\ k.overtaken = clock[d].overtaken
      BY <1>1 DEF ClockType
    <2> QED
      BY <1>2, <2>1, <2>2 DEF ClockStays
  <1>5. ASSUME NEW x, NEW expired \in BOOLEAN, Merchant!Begins(c, x, expired)
        PROVE  ClockStays(c) /\ clock'[c].fresh = ~expired /\ clock'[c].overtaken = FALSE
    <2> DEFINE k == [Merchant!NoClock EXCEPT !.fresh = ~expired]
    <2>1. clock' = [clock EXCEPT ![c] = k]
      BY <1>5 DEF Merchant!Begins
    <2>2. k \in ClockType /\ k.fresh = ~expired /\ k.overtaken = FALSE
      BY DEF Merchant!NoClock, ClockType
    <2> HIDE DEF k
    <2> QED
      BY <1>1, <2>1, <2>2 DEF ClockStays
  <1>6. ASSUME NEW x, Merchant!BeginsExpiring(c, x) PROVE ClockStays(c)
    <2> DEFINE o == {d \in Calls \ {c} : txn[d].at \notin {"idle", "asking"}}
               k == [clock[c] EXCEPT !.older = o]
    <2>1. clock' = [clock EXCEPT ![c] = k]
      BY <1>1, <1>6 DEF Merchant!BeginsExpiring
    <2>2. k \in ClockType
      BY <1>1 DEF ClockType
    <2> HIDE DEF k
    <2> QED
      BY <1>1, <2>1, <2>2 DEF ClockStays
  <1> QED
    BY <1>3, <1>4, <1>5, <1>6

\* A request that only reads, and locks.
LEMMA TxnReadStep ==
    ASSUME MInv, NEW c \in Calls, NEW x \in TxnType, txn' = [txn EXCEPT ![c] = x], UNCHANGED Merchant!tables,
           Fits(x, intent, login, link), \A d \in Calls \ {c} : x.held \cap txn[d].held = {}, ClockStays(c),
           InUse(x, clock'[c]) /\ Grant(intent, login, x.row) =>
               Clear(audit, link, Concern(intent, login, x.row), x.row)
    PROVE  MInv'
  <1>1. txn \in [Calls -> TxnType]
    BY DEF MInv, MShape
  <1>2. txn'[c] = x /\ \A d \in Calls \ {c} : txn'[d] = txn[d]
    BY <1>1
  <1>3. intent' = intent /\ login' = login /\ link' = link /\ merchant' = merchant /\ audit' = audit
    BY DEF Merchant!tables
  <1>4. MShape'
    BY <1>1, <1>3 DEF MInv, MShape, ClockStays
  <1>5. CallsFit'
    BY <1>2, <1>3 DEF MInv, CallsFit
  <1>6. Apart'
    <2> SUFFICES ASSUME NEW d \in Calls, NEW e \in Calls, d # e
                 PROVE  txn'[d].held \cap txn'[e].held = {}
      BY DEF Apart
    <2>1. CASE d = c
      BY <1>2, <2>1
    <2>2. CASE e = c
      <3>1. x.held \cap txn[d].held = {}
        BY <2>2
      <3>2. txn[d].held \cap x.held = {}
        BY <3>1
      <3> QED
        BY <1>2, <2>2, <3>2
    <2>3. CASE d # c /\ e # c
      BY <1>2, <2>3 DEF MInv, Apart
    <2> QED
      BY <2>1, <2>2, <2>3
  <1>7. Users'
    <2> SUFFICES ASSUME NEW d \in Calls, InUse(txn'[d], clock'[d]), Grant(intent, login, txn'[d].row)
                 PROVE  Clear(audit, link, Concern(intent, login, txn'[d].row), txn'[d].row)
      BY <1>3 DEF Users
    <2>1. CASE d = c
      BY <1>2, <2>1
    <2>2. CASE d # c
      <3>1. txn'[d] = txn[d] /\ InUse(txn[d], clock[d])
        BY <1>2, <2>2 DEF ClockStays, InUse
      <3> QED
        BY <3>1 DEF MInv, Users
    <2> QED
      BY <2>1, <2>2
  <1>8. Approvals'
    BY <1>3 DEF MInv, Approvals
  <1> QED
    BY <1>3, <1>4, <1>5, <1>6, <1>7, <1>8 DEF MInv

(* A step that writes: the requests it does not end find what they locked   *)
(* as it was; what was granted is still about the same, and what is revoked *)
(* is about none of it but the rows it lets expire for whoever uses them.   *)
LEMMA TxnWriteStep ==
    ASSUME MInv, MShape', RowsSound(intent, login, link)', LinksKept(link, link'), NEW rows,
           \A d \in Calls : \/ txn'[d] = Merchant!NoTxn
                            \/ /\ txn'[d] = txn[d]
                               /\ Spares(txn[d].held, intent, login, link, intent', login', link')
                               /\ InUse(txn[d], clock'[d]) /\ Grant(intent', login', txn[d].row) =>
                                     InUse(txn[d], clock[d]) /\ txn[d].row \notin rows,
           Len(audit) <= Len(audit'), \A p \in 1 .. Len(audit) : audit'[p] = audit[p],
           \A x \in Intents \cup Logins : Grant(intent', login', x) =>
               \/ Clear(audit', link', Concern(intent', login', x), x)
               \/ /\ Grant(intent, login, x) /\ Concern(intent', login', x) = Concern(intent, login, x)
                  /\ Expired(intent, login, x) => Expired(intent', login', x)
                  /\ x \in rows => Expired(intent', login', x)
                  /\ x \notin rows => \A p \in 1 .. Len(audit') : p > Len(audit) /\ audit'[p].kind = "revoked" =>
                                          ~Same(link'[audit'[p].link], Concern(intent, login, x)),
           History(audit', link'), NoReturn(audit', link'), SessionsStand(merchant', login', link')
    PROVE  MInv'
  <1>1. Len(link) \in Nat /\ Len(audit) \in Nat
    BY MerchantRowsTyped
  <1>2. Len(link') \in Nat /\ Len(audit') \in Nat
    BY LenProperties DEF MShape
  <1>4. CallsFit'
    <2> SUFFICES ASSUME NEW d \in Calls PROVE Fits(txn'[d], intent', login', link')
      BY DEF CallsFit
    <2>1. CASE txn'[d] = Merchant!NoTxn
      BY <2>1, NoTxnFits
    <2>2. CASE txn'[d] = txn[d] /\ Spares(txn[d].held, intent, login, link, intent', login', link')
      <3>1. Fits(txn[d], intent, login, link)
        BY DEF MInv, CallsFit
      <3> QED
        BY <1>1, <1>2, <2>2, <3>1, FitsKept
    <2> QED
      BY <2>1, <2>2
  <1>5. Apart'
    BY NothingHeld DEF MInv, Apart
  <1>6. ASSUME NEW x \in Intents \cup Logins, Grant(intent', login', x), x \notin rows,
               Grant(intent, login, x) => Clear(audit, link, Concern(intent, login, x), x)
        PROVE  Clear(audit', link', Concern(intent', login', x), x)
    <2>1. CASE Clear(audit', link', Concern(intent', login', x), x)
      BY <2>1
    <2>2. CASE ~Clear(audit', link', Concern(intent', login', x), x)
      <3>1. /\ Grant(intent, login, x) /\ Concern(intent', login', x) = Concern(intent, login, x)
            /\ \A p \in 1 .. Len(audit') : p > Len(audit) /\ audit'[p].kind = "revoked" =>
                    ~Same(link'[audit'[p].link], Concern(intent, login, x))
        BY <1>6, <2>2
      <3>2. Clear(audit, link, Concern(intent, login, x), x) /\ History(audit, link)
        BY <1>6, <3>1 DEF MInv
      <3>3. Clear(audit', link', Concern(intent, login, x), x)
        BY <1>1, <1>2, <3>1, <3>2, ClearKept
      <3> QED
        BY <3>1, <3>3
    <2> QED
      BY <2>1, <2>2
  <1>7. Approvals'
    <2> SUFFICES ASSUME NEW x \in Intents \cup Logins, Grant(intent', login', x), ~Expired(intent', login', x)
                 PROVE  Clear(audit', link', Concern(intent', login', x), x)
      BY DEF Approvals
    <2>1. CASE Clear(audit', link', Concern(intent', login', x), x)
      BY <2>1
    <2>2. CASE ~Clear(audit', link', Concern(intent', login', x), x)
      <3>1. x \notin rows /\ Grant(intent, login, x) /\ ~Expired(intent, login, x)
        BY <2>2
      <3>2. Clear(audit, link, Concern(intent, login, x), x)
        BY <3>1 DEF MInv, Approvals
      <3> QED
        BY <1>6, <3>1, <3>2
    <2> QED
      BY <2>1, <2>2
  <1>8. Users'
    <2> SUFFICES ASSUME NEW d \in Calls, InUse(txn'[d], clock'[d]), Grant(intent', login', txn'[d].row)
                 PROVE  Clear(audit', link', Concern(intent', login', txn'[d].row), txn'[d].row)
      BY DEF Users
    <2>1. txn'[d] = txn[d] /\ InUse(txn[d], clock[d]) /\ txn[d].row \notin rows
      <3>1. ~InUse(Merchant!NoTxn, clock'[d])
        BY NothingHeld DEF InUse, Using
      <3> QED
        BY <3>1
    <2>2. txn[d].row \in Intents \cup Logins
      BY <2>1 DEF MInv, CallsFit, Fits, InUse, Using
    <2>3. Grant(intent, login, txn[d].row) => Clear(audit, link, Concern(intent, login, txn[d].row), txn[d].row)
      BY <2>1 DEF MInv, Users
    <2> QED
      BY <1>6, <2>1, <2>2, <2>3
  <1> QED
    BY <1>4, <1>5, <1>7, <1>8 DEF MInv

-----------------------------------------------------------------------------
(* The steps that read and lock.                                            *)

LEMMA TxnEndStep ==
    ASSUME MInv, NEW c \in Calls, Merchant!Ends(c), UNCHANGED Merchant!tables
    PROVE  MInv'
  <1>1. /\ Merchant!NoTxn \in TxnType /\ Fits(Merchant!NoTxn, intent, login, link)
        /\ Merchant!NoTxn.held = {} /\ Merchant!NoTxn.at = "idle"
    BY NoTxnFits
  <1>2. txn' = [txn EXCEPT ![c] = Merchant!NoTxn]
    BY DEF Merchant!Ends
  <1>3. ClockStays(c)
    BY ClockMoves
  <1>4. ~InUse(Merchant!NoTxn, clock'[c])
    BY <1>1 DEF InUse, Using
  <1> QED
    BY <1>1, <1>2, <1>3, <1>4, TxnReadStep

\* A request that begins its transaction, or begins to prepare one.
LEMMA TxnBeginStep ==
    ASSUME MInv, NEW c \in Calls, NEW x \in TxnType, x.held = {}, txn' = [txn EXCEPT ![c] = x],
           UNCHANGED Merchant!tables, Fits(x, intent, login, link), ClockStays(c),
           InUse(x, clock'[c]) /\ Grant(intent, login, x.row) =>
               Clear(audit, link, Concern(intent, login, x.row), x.row)
    PROVE  MInv'
  <1>1. \A d \in Calls \ {c} : x.held \cap txn[d].held = {}
    OBVIOUS
  <1> QED
    BY <1>1, TxnReadStep

\* A request that goes on with its row, with or without one more lock.
LEMMA TxnGoesOnStep ==
    ASSUME MInv, NEW c \in Calls, NEW x \in TxnType, txn' = [txn EXCEPT ![c] = x], UNCHANGED clock,
           UNCHANGED Merchant!tables, Fits(x, intent, login, link), x.row = txn[c].row,
           \A row \in x.held : row \in txn[c].held \/ Merchant!Free(row, c),
           InUse(x, clock[c]) => InUse(txn[c], clock[c])
    PROVE  MInv'
  <1>1. \A d \in Calls \ {c} : x.held \cap txn[d].held = {}
    <2> TAKE d \in Calls \ {c}
    <2>1. txn[c].held \cap txn[d].held = {}
      BY DEF MInv, Apart
    <2>2. \A row \in x.held : row \notin txn[d].held
      BY <2>1 DEF Merchant!Free
    <2> QED
      BY <2>2
  <1>2. ClockStays(c) /\ clock'[c] = clock[c]
    BY ClockMoves
  <1>3. InUse(x, clock'[c]) /\ Grant(intent, login, x.row) =>
            Clear(audit, link, Concern(intent, login, x.row), x.row)
    BY <1>2 DEF MInv, Users
  <1> QED
    BY <1>1, <1>2, <1>3, TxnReadStep

LEMMA TxnTyped ==
    ASSUME MInv, NEW c \in Calls
    PROVE  txn[c] \in TxnType /\ txn \in [Calls -> TxnType] /\ Fits(txn[c], intent, login, link)
  BY DEF MInv, MShape, CallsFit

LEMMA BeginApproveStep ==
    ASSUME MInv, NEW c \in Calls, NEW i \in Intents, NEW w \in Workspaces, Merchant!BeginApprove(c, i, w)
    PROVE  MInv'
  <1> DEFINE x == [Merchant!NoTxn EXCEPT !.at = "find_intent", !.row = i, !.workspace = w]
  <1>0. Merchant!NoTxn \in TxnType /\ Merchant!NoTxn.held = {}
    BY NoTxnFits
  <1>1. x \in TxnType /\ x.held = {} /\ x.at = "find_intent" /\ x.row = i /\ x.workspace = w
    BY <1>0 DEF TxnType, TxnSteps
  <1>2. intent[i].expired \in BOOLEAN
    BY DEF MInv, MShape, IntentType
  <1>3. Merchant!Begins(c, x, intent[i].expired) /\ UNCHANGED Merchant!tables
    BY DEF Merchant!BeginApprove
  <1> HIDE DEF x
  <1>4. txn' = [txn EXCEPT ![c] = x]
    BY <1>3 DEF Merchant!Begins
  <1>5. ClockStays(c)
    BY <1>2, <1>3, ClockMoves
  <1>6. Fits(x, intent, login, link) /\ ~InUse(x, clock'[c])
    BY <1>1 DEF Fits, InUse, Using
  <1> QED
    BY <1>1, <1>3, <1>4, <1>5, <1>6, TxnBeginStep

LEMMA FindIntentStep ==
    ASSUME MInv, NEW c \in Calls, Merchant!FindIntent(c)
    PROVE  MInv'
  <1> DEFINE i == txn[c].row
             x(step) == [txn[c] EXCEPT !.at = step, !.link = intent[i].link, !.held = {Merchant!Row(i)}]
  <1>1. txn[c] \in TxnType /\ txn \in [Calls -> TxnType] /\ Fits(txn[c], intent, login, link)
    BY TxnTyped
  <1>2. i \in Intents /\ txn[c].workspace \in Workspaces
    BY <1>1 DEF Fits, Merchant!FindIntent, Merchant!At
  <1>3. intent[i] \in IntentType
    BY <1>2 DEF MInv, MShape
  <1>4. Merchant!Free(Merchant!Row(i), c) /\ UNCHANGED Merchant!tables
    BY DEF Merchant!FindIntent
  <1>5. ASSUME intent[i].at = "started", clock[c].fresh, NEW step \in {"open", "approve"},
               step = "open" => intent[i].open, txn' = [txn EXCEPT ![c] = x(step)], UNCHANGED clock
        PROVE  MInv'
    <2>1. intent[i].open => intent[i].link \in 1 .. Len(link)
      BY <1>2, <1>5 DEF MInv, RowsSound
    <2>2. /\ x(step) \in TxnType /\ x(step).at = step /\ x(step).row = i /\ x(step).link = intent[i].link
          /\ x(step).workspace = txn[c].workspace /\ x(step).held = {Merchant!Row(i)}
      BY <1>1, <1>2, <1>3, <1>5 DEF TxnType, IntentType, TxnSteps
    <2> DEFINE y == x(step)
    <2>3. txn' = [txn EXCEPT ![c] = y]
      BY <1>5
    <2> HIDE DEF y, x
    <2>4. /\ y \in TxnType /\ y.at = step /\ y.row = i /\ y.link = intent[i].link
          /\ y.workspace = txn[c].workspace /\ y.held = {Merchant!Row(i)}
      BY <2>2 DEF y
    <2>5. Fits(y, intent, login, link)
      BY <1>2, <1>5, <2>1, <2>4 DEF Fits
    <2>6. ~InUse(y, clock[c])
      BY <1>5, <2>4 DEF InUse, Using
    <2> QED
      BY <1>4, <1>5, <2>3, <2>4, <2>5, <2>6, TxnGoesOnStep
  <1>6. CASE intent[i].at = "started" /\ clock[c].fresh
    <2>1. txn' = [txn EXCEPT ![c].at = IF intent[i].open THEN "open" ELSE "approve",
                             ![c].link = intent[i].link, ![c].held = {Merchant!Row(i)}] /\ UNCHANGED clock
      BY <1>6 DEF Merchant!FindIntent
    <2>2. CASE intent[i].open
      BY <1>1, <1>5, <1>6, <2>1, <2>2 DEF TxnType
    <2>3. CASE ~intent[i].open
      BY <1>1, <1>5, <1>6, <2>1, <2>3 DEF TxnType
    <2> QED
      BY <2>2, <2>3
  <1>7. CASE ~(intent[i].at = "started" /\ clock[c].fresh)
    BY <1>7, TxnEndStep DEF Merchant!FindIntent
  <1> QED
    BY <1>6, <1>7

LEMMA LockOpenedStep ==
    ASSUME MInv, NEW c \in Calls, Merchant!LockOpened(c)
    PROVE  MInv'
  <1> DEFINE l == txn[c].link
             x == [txn[c] EXCEPT !.at = "opened", !.held = @ \cup {Merchant!LinkRow(l)}]
  <1>1. txn[c] \in TxnType /\ txn \in [Calls -> TxnType] /\ Fits(txn[c], intent, login, link)
    BY TxnTyped
  <1>2. CASE link[l].live
    <2>1. txn' = [txn EXCEPT ![c] = x] /\ UNCHANGED clock
      BY <1>1, <1>2 DEF Merchant!LockOpened, Merchant!Locks, TxnType
    <2>2. /\ x \in TxnType /\ x.at = "opened" /\ x.row = txn[c].row /\ x.workspace = txn[c].workspace
          /\ x.link = l /\ x.held = txn[c].held \cup {Merchant!LinkRow(l)}
      BY <1>1 DEF TxnType, TxnSteps
    <2>3. Merchant!Free(Merchant!LinkRow(l), c) /\ UNCHANGED Merchant!tables
      BY DEF Merchant!LockOpened
    <2> HIDE DEF x
    <2>4. Fits(x, intent, login, link)
      BY <1>1, <1>2, <2>2 DEF Fits, Merchant!LockOpened, Merchant!At
    <2>5. ~InUse(x, clock[c])
      BY <2>2 DEF InUse, Using
    <2> QED
      BY <2>1, <2>2, <2>3, <2>4, <2>5, TxnGoesOnStep
  <1>3. CASE ~link[l].live
    BY <1>3, TxnEndStep DEF Merchant!LockOpened
  <1> QED
    BY <1>2, <1>3

LEMMA CheckConflictStep ==
    ASSUME MInv, NEW c \in Calls, Merchant!CheckConflict(c)
    PROVE  MInv'
  <1> DEFINE x == [txn[c] EXCEPT !.at = "approved"]
  <1>1. txn[c] \in TxnType /\ txn \in [Calls -> TxnType] /\ Fits(txn[c], intent, login, link)
    BY TxnTyped
  <1>2. UNCHANGED Merchant!tables /\ (Merchant!Ends(c) \/ Merchant!Goes(c, "approved"))
    BY DEF Merchant!CheckConflict
  <1>3. ASSUME Merchant!Goes(c, "approved") PROVE MInv'
    <2>1. txn' = [txn EXCEPT ![c] = x] /\ UNCHANGED clock
      BY <1>1, <1>3 DEF Merchant!Goes, TxnType
    <2>2. /\ x \in TxnType /\ x.at = "approved" /\ x.row = txn[c].row /\ x.workspace = txn[c].workspace
          /\ x.held = txn[c].held
      BY <1>1 DEF TxnType, TxnSteps
    <2> HIDE DEF x
    <2>3. Fits(x, intent, login, link) /\ ~InUse(x, clock[c])
      BY <1>1, <2>2 DEF Fits, InUse, Using, Merchant!CheckConflict, Merchant!At
    <2> QED
      BY <1>2, <2>1, <2>2, <2>3, TxnGoesOnStep
  <1> QED
    BY <1>2, <1>3, TxnEndStep

\* What complete finds to be still good when it begins was granted since it was last revoked.
LEMMA BeginCompleteStep ==
    ASSUME MInv, NEW c \in Calls, NEW i \in Intents, Merchant!BeginComplete(c, i)
    PROVE  MInv'
  <1> DEFINE x == [Merchant!NoTxn EXCEPT !.at = "find_grant", !.row = i]
  <1>0. Merchant!NoTxn \in TxnType /\ Merchant!NoTxn.held = {}
    BY NoTxnFits
  <1>1. x \in TxnType /\ x.held = {} /\ x.at = "find_grant" /\ x.row = i
    BY <1>0 DEF TxnType, TxnSteps
  <1>2. intent[i].expired \in BOOLEAN
    BY DEF MInv, MShape, IntentType
  <1>3. Merchant!Begins(c, x, intent[i].expired) /\ UNCHANGED Merchant!tables /\ intent[i].at \in {"approved", "consumed"}
    BY DEF Merchant!BeginComplete
  <1> HIDE DEF x
  <1>4. ClockStays(c) /\ clock'[c].fresh = ~intent[i].expired
    BY <1>2, <1>3, ClockMoves
  <1>8. txn' = [txn EXCEPT ![c] = x]
    BY <1>3 DEF Merchant!Begins
  <1>5. Fits(x, intent, login, link)
    BY <1>1, <1>3 DEF Fits
  <1>6. InUse(x, clock'[c]) => ~Expired(intent, login, i)
    BY <1>1, <1>4 DEF InUse, Using, Expired
  <1>7. InUse(x, clock'[c]) /\ Grant(intent, login, x.row) =>
            Clear(audit, link, Concern(intent, login, x.row), x.row)
    BY <1>1, <1>6 DEF MInv, Approvals
  <1> QED
    BY <1>1, <1>3, <1>4, <1>5, <1>7, <1>8, TxnBeginStep

LEMMA FindGrantStep ==
    ASSUME MInv, NEW c \in Calls, Merchant!FindGrant(c)
    PROVE  MInv'
  <1> DEFINE i == txn[c].row
             x(step) == [txn[c] EXCEPT !.at = step, !.held = @ \cup {Merchant!Row(i)}]
  <1>1. txn[c] \in TxnType /\ txn \in [Calls -> TxnType] /\ Fits(txn[c], intent, login, link)
    BY TxnTyped
  <1>2. i \in Intents /\ intent[i].at \in {"approved", "consumed"} /\ txn[c].at = "find_grant"
    BY <1>1 DEF Fits, Merchant!FindGrant, Merchant!At
  <1>3. Merchant!Free(Merchant!Row(i), c) /\ UNCHANGED Merchant!tables
    BY DEF Merchant!FindGrant
  <1>4. ASSUME clock[c].fresh, NEW step \in {"repeat", "complete"}, step = "complete" => intent[i].at = "approved",
               Merchant!Locks(c, Merchant!Row(i), step)
        PROVE  MInv'
    <2> DEFINE y == x(step)
    <2>1. txn' = [txn EXCEPT ![c] = y] /\ UNCHANGED clock
      BY <1>1, <1>4 DEF Merchant!Locks, TxnType
    <2>2. /\ y \in TxnType /\ y.at = step /\ y.row = i /\ y.held = txn[c].held \cup {Merchant!Row(i)}
      BY <1>1, <1>2, <1>4 DEF TxnType, TxnSteps, Using
    <2> HIDE DEF y
    <2>3. Fits(y, intent, login, link)
      BY <1>2, <1>4, <2>2 DEF Fits
    <2>4. InUse(y, clock[c]) => InUse(txn[c], clock[c])
      BY <1>2, <1>4, <2>2 DEF InUse
    <2> QED
      BY <1>3, <2>1, <2>2, <2>3, <2>4, TxnGoesOnStep
  <1>5. CASE clock[c].fresh
    <2>1. Merchant!Locks(c, Merchant!Row(i), IF intent[i].at = "consumed" THEN "repeat" ELSE "complete")
      BY <1>5 DEF Merchant!FindGrant
    <2>2. CASE intent[i].at = "consumed"
      BY <1>4, <1>5, <2>1, <2>2
    <2>3. CASE intent[i].at = "approved"
      BY <1>4, <1>5, <2>1, <2>3
    <2> QED
      BY <1>2, <2>2, <2>3
  <1>6. CASE ~clock[c].fresh
    BY <1>6, TxnEndStep DEF Merchant!FindGrant
  <1> QED
    BY <1>5, <1>6

LEMMA BeginRevokeStep ==
    ASSUME MInv, NEW c \in Calls, NEW l \in DOMAIN link, Merchant!BeginRevoke(c, l)
    PROVE  MInv'
  <1> DEFINE x == [Merchant!NoTxn EXCEPT !.at = "find_link", !.link = l]
  <1>1. l \in 1 .. Len(link) /\ l \in Merchant!Links /\ Merchant!NoTxn \in TxnType /\ Merchant!NoTxn.held = {}
    BY MerchantRowsTyped, NoTxnFits
  <1>2. x \in TxnType /\ x.at = "find_link" /\ x.link = l /\ x.held = {}
    BY <1>1 DEF TxnType, TxnSteps
  <1>3. Merchant!BeginsExpiring(c, x) /\ UNCHANGED Merchant!tables
    BY DEF Merchant!BeginRevoke
  <1> HIDE DEF x
  <1>4. txn' = [txn EXCEPT ![c] = x] /\ ClockStays(c)
    BY <1>3, ClockMoves DEF Merchant!BeginsExpiring
  <1>5. Fits(x, intent, login, link) /\ ~InUse(x, clock'[c])
    BY <1>1, <1>2 DEF Fits, InUse, Using
  <1> QED
    BY <1>2, <1>3, <1>4, <1>5, TxnBeginStep

LEMMA LockRevokedStep ==
    ASSUME MInv, NEW c \in Calls, Merchant!LockRevoked(c)
    PROVE  MInv'
  <1> DEFINE l == txn[c].link
             x == [txn[c] EXCEPT !.at = "revoke", !.held = @ \cup {Merchant!LinkRow(l)}]
  <1>1. txn[c] \in TxnType /\ txn \in [Calls -> TxnType] /\ Fits(txn[c], intent, login, link)
    BY TxnTyped
  <1>2. CASE link[l].live
    <2>1. txn' = [txn EXCEPT ![c] = x] /\ UNCHANGED clock
      BY <1>1, <1>2 DEF Merchant!LockRevoked, Merchant!Locks, TxnType
    <2>2. /\ x \in TxnType /\ x.at = "revoke" /\ x.row = txn[c].row
          /\ x.link = l /\ x.held = txn[c].held \cup {Merchant!LinkRow(l)}
      BY <1>1 DEF TxnType, TxnSteps
    <2>3. Merchant!Free(Merchant!LinkRow(l), c) /\ UNCHANGED Merchant!tables
      BY DEF Merchant!LockRevoked
    <2> HIDE DEF x
    <2>4. Fits(x, intent, login, link)
      BY <1>1, <1>2, <2>2 DEF Fits, Merchant!LockRevoked, Merchant!At
    <2>5. ~InUse(x, clock[c])
      BY <2>2 DEF InUse, Using
    <2> QED
      BY <2>1, <2>2, <2>3, <2>4, <2>5, TxnGoesOnStep
  <1>3. CASE ~link[l].live
    BY <1>3, TxnEndStep DEF Merchant!LockRevoked
  <1> QED
    BY <1>2, <1>3

LEMMA ReadLoginStep ==
    ASSUME MInv, NEW c \in Calls, NEW r \in Logins, NEW w \in Workspaces, Merchant!ReadLogin(c, r, w)
    PROVE  MInv'
  <1> DEFINE x == [Merchant!NoTxn EXCEPT !.at = "asking", !.row = r, !.workspace = w]
  <1>0. Merchant!NoTxn \in TxnType /\ Merchant!NoTxn.held = {}
    BY NoTxnFits
  <1>1. x \in TxnType /\ x.held = {} /\ x.at = "asking" /\ x.row = r /\ x.workspace = w
    BY <1>0 DEF TxnType, TxnSteps
  <1>2. txn' = [txn EXCEPT ![c] = x] /\ UNCHANGED <<Merchant!tables, clock>>
    BY DEF Merchant!ReadLogin
  <1> HIDE DEF x
  <1>3. Fits(x, intent, login, link) /\ ~InUse(x, clock'[c])
    BY <1>1 DEF Fits, InUse, Using
  <1>4. ClockStays(c)
    BY <1>2, ClockMoves
  <1> QED
    BY <1>1, <1>2, <1>3, <1>4, TxnBeginStep

LEMMA BeginFinishStep ==
    ASSUME MInv, NEW c \in Calls, Merchant!BeginFinish(c)
    PROVE  MInv'
  <1> DEFINE r == txn[c].row
             x == [txn[c] EXCEPT !.at = "finish"]
  <1>1. txn[c] \in TxnType /\ txn \in [Calls -> TxnType] /\ Fits(txn[c], intent, login, link)
    BY TxnTyped
  <1>2. /\ x \in TxnType /\ x.held = txn[c].held /\ x.at = "finish" /\ x.row = r
        /\ x.workspace = txn[c].workspace
    BY <1>1 DEF TxnType, TxnSteps
  <1>3. r \in Logins /\ r \notin Intents /\ txn[c].workspace \in Workspaces
    BY <1>1, MerchantRows DEF Fits, Merchant!BeginFinish, Merchant!At, Merchant!RowsAssumption
  <1>4. login[r].expired \in BOOLEAN
    BY <1>3 DEF MInv, MShape, LoginType
  <1>5. Merchant!Begins(c, x, login[r].expired) /\ UNCHANGED Merchant!tables
    BY DEF Merchant!BeginFinish
  <1> HIDE DEF x
  <1>6. ClockStays(c) /\ clock'[c].fresh = ~login[r].expired
    BY <1>4, <1>5, ClockMoves
  <1>11. txn' = [txn EXCEPT ![c] = x]
    BY <1>5 DEF Merchant!Begins
  <1>7. Fits(x, intent, login, link)
    BY <1>2, <1>3 DEF Fits
  <1>8. InUse(x, clock'[c]) => ~Expired(intent, login, r)
    BY <1>2, <1>3, <1>6 DEF InUse, Using, Expired
  <1>9. InUse(x, clock'[c]) /\ Grant(intent, login, x.row) =>
            Clear(audit, link, Concern(intent, login, x.row), x.row)
    BY <1>2, <1>3, <1>8 DEF MInv, Approvals
  <1>10. \A d \in Calls \ {c} : x.held \cap txn[d].held = {}
    BY <1>2 DEF MInv, Apart
  <1> QED
    BY <1>2, <1>5, <1>6, <1>7, <1>9, <1>10, <1>11, TxnReadStep

LEMMA LockLoginStep ==
    ASSUME MInv, NEW c \in Calls, Merchant!LockLogin(c)
    PROVE  MInv'
  <1> DEFINE r == txn[c].row
             x == [txn[c] EXCEPT !.at = "link", !.held = @ \cup {Merchant!Row(r)}]
  <1>1. txn[c] \in TxnType /\ txn \in [Calls -> TxnType] /\ Fits(txn[c], intent, login, link)
    BY TxnTyped
  <1>2. CASE login[r].at = "authorized" /\ clock[c].fresh
    <2>1. txn' = [txn EXCEPT ![c] = x] /\ UNCHANGED clock
      BY <1>1, <1>2 DEF Merchant!LockLogin, Merchant!Locks, TxnType
    <2>2. r \in Logins /\ txn[c].at = "finish"
      BY <1>1 DEF Fits, Merchant!LockLogin, Merchant!At
    <2>3. /\ x \in TxnType /\ x.at = "link" /\ x.row = r /\ x.workspace = txn[c].workspace
          /\ x.held = txn[c].held \cup {Merchant!Row(r)}
      BY <1>1, <2>2 DEF TxnType, TxnSteps, Using
    <2>4. Merchant!Free(Merchant!Row(r), c) /\ UNCHANGED Merchant!tables
      BY DEF Merchant!LockLogin
    <2> HIDE DEF x
    <2>5. Fits(x, intent, login, link)
      BY <1>1, <1>2, <2>2, <2>3 DEF Fits
    <2>6. InUse(x, clock[c]) => InUse(txn[c], clock[c])
      BY <1>2, <2>2 DEF InUse
    <2> QED
      BY <2>1, <2>3, <2>4, <2>5, <2>6, TxnGoesOnStep
  <1>3. CASE ~(login[r].at = "authorized" /\ clock[c].fresh)
    BY <1>3, TxnEndStep DEF Merchant!LockLogin
  <1> QED
    BY <1>2, <1>3

LEMMA LockLinkStep ==
    ASSUME MInv, NEW c \in Calls, Merchant!LockLink(c)
    PROVE  MInv'
  <1> DEFINE b == login[txn[c].row].brand
  <1>1. txn[c] \in TxnType /\ txn \in [Calls -> TxnType] /\ Fits(txn[c], intent, login, link) /\ txn[c].at = "link"
    BY TxnTyped DEF Merchant!LockLink, Merchant!At
  <1>2. ASSUME NEW l \in Merchant!ActiveFor(b), Merchant!Free(Merchant!LinkRow(l), c), UNCHANGED clock,
               txn' = [txn EXCEPT ![c].at = "sign_in", ![c].link = l, ![c].held = @ \cup {Merchant!LinkRow(l)}]
        PROVE  MInv'
    <2> DEFINE x == [txn[c] EXCEPT !.at = "sign_in", !.link = l, !.held = @ \cup {Merchant!LinkRow(l)}]
    <2>1. l \in 1 .. Len(link) /\ l \in Merchant!Links /\ link[l].live /\ link[l].brand = b
      BY MerchantRowsTyped DEF Merchant!ActiveFor
    <2>2. txn' = [txn EXCEPT ![c] = x]
      BY <1>1, <1>2 DEF TxnType
    <2>3. /\ x \in TxnType /\ x.at = "sign_in" /\ x.row = txn[c].row /\ x.workspace = txn[c].workspace
          /\ x.link = l /\ x.held = txn[c].held \cup {Merchant!LinkRow(l)}
      BY <1>1, <2>1 DEF TxnType, TxnSteps, Using
    <2> HIDE DEF x
    <2>4. Fits(x, intent, login, link)
      BY <1>1, <2>1, <2>3 DEF Fits
    <2>5. UNCHANGED Merchant!tables
      BY DEF Merchant!LockLink
    <2>6. InUse(x, clock[c]) => InUse(txn[c], clock[c])
      BY <1>1 DEF InUse, Using
    <2> QED
      BY <1>2, <2>2, <2>3, <2>4, <2>5, <2>6, TxnGoesOnStep
  <1>3. ASSUME Merchant!Goes(c, "connect")
        PROVE  MInv'
    <2> DEFINE x == [txn[c] EXCEPT !.at = "connect"]
    <2>1. txn' = [txn EXCEPT ![c] = x] /\ UNCHANGED clock
      BY <1>1, <1>3 DEF Merchant!Goes, TxnType
    <2>2. /\ x \in TxnType /\ x.at = "connect" /\ x.row = txn[c].row /\ x.workspace = txn[c].workspace
          /\ x.held = txn[c].held
      BY <1>1 DEF TxnType, TxnSteps, Using
    <2> HIDE DEF x
    <2>3. Fits(x, intent, login, link)
      BY <1>1, <2>2 DEF Fits
    <2>4. UNCHANGED Merchant!tables
      BY DEF Merchant!LockLink
    <2>5. InUse(x, clock[c]) => InUse(txn[c], clock[c])
      BY <1>1 DEF InUse, Using
    <2> QED
      BY <2>1, <2>2, <2>3, <2>4, <2>5, TxnGoesOnStep
  <1>4. \/ \E l \in Merchant!ActiveFor(b) :
              /\ Merchant!Free(Merchant!LinkRow(l), c) /\ UNCHANGED clock
              /\ txn' = [txn EXCEPT ![c].at = "sign_in", ![c].link = l, ![c].held = @ \cup {Merchant!LinkRow(l)}]
        \/ Merchant!Goes(c, "connect")
        \/ Merchant!Ends(c)
    BY DEF Merchant!LockLink
  <1>5. UNCHANGED Merchant!tables
    BY DEF Merchant!LockLink
  <1> QED
    BY <1>2, <1>3, <1>4, <1>5, TxnEndStep

LEMMA LogoutSessionsStep ==
    ASSUME MInv, NEW c \in Calls, NEW staff \in BOOLEAN, Merchant!LogoutSessions(c, staff)
    PROVE  MInv'
  <1> DEFINE step == IF staff THEN "logout_staff" ELSE "logout_owner"
             x == [Merchant!NoTxn EXCEPT !.at = step, !.seen = Len(merchant)]
  <1>1. Merchant!NoTxn \in TxnType /\ Merchant!NoTxn.held = {} /\ Len(merchant) \in Nat
    BY NoTxnFits, MerchantRowsTyped
  <1>2. Merchant!BeginsExpiring(c, x) /\ UNCHANGED Merchant!tables
    BY DEF Merchant!LogoutSessions
  <1>3. step \in {"logout_staff", "logout_owner"}
    OBVIOUS
  <1> HIDE DEF step
  <1>4. x \in TxnType /\ x.at = step /\ x.held = {}
    BY <1>1, <1>3 DEF TxnType, TxnSteps
  <1> HIDE DEF x
  <1>5. txn' = [txn EXCEPT ![c] = x] /\ ClockStays(c)
    BY <1>2, ClockMoves DEF Merchant!BeginsExpiring
  <1>6. Fits(x, intent, login, link) /\ ~InUse(x, clock'[c])
    BY <1>3, <1>4 DEF Fits, InUse, Using
  <1> QED
    BY <1>2, <1>4, <1>5, <1>6, TxnBeginStep

-----------------------------------------------------------------------------
(* The steps that write.                                                    *)

LEMMA RowsDiffer ==
    /\ \A x, y : Merchant!Row(x) = Merchant!Row(y) => x = y
    /\ \A k, l : Merchant!LinkRow(k) = Merchant!LinkRow(l) => k = l
    /\ \A x, l : Merchant!Row(x) # Merchant!LinkRow(l)
  BY DEF Merchant!Row, Merchant!LinkRow

LEMMA LinksStay == MInv => LinksKept(link, link)
  BY MerchantRowsTyped DEF LinksKept

\* A row that has not changed grants what it did.
LEMMA GrantSame ==
    ASSUME NEW I, NEW L, NEW I2, NEW L2, NEW x, x \in Intents => I2[x] = I[x], x \notin Intents => L2[x] = L[x]
    PROVE  /\ Grant(I2, L2, x) = Grant(I, L, x) /\ Concern(I2, L2, x) = Concern(I, L, x)
           /\ Expired(I2, L2, x) = Expired(I, L, x)
  BY DEF Grant, Concern, Expired

\* A step that writes, and lets no row expire for those who use it.
LEMMA TxnQuietStep ==
    ASSUME MInv, MShape', RowsSound(intent, login, link)', LinksKept(link, link'),
           \A d \in Calls : \/ txn'[d] = Merchant!NoTxn
                            \/ /\ txn'[d] = txn[d]
                               /\ Spares(txn[d].held, intent, login, link, intent', login', link')
                               /\ InUse(txn[d], clock'[d]) => InUse(txn[d], clock[d]),
           Len(audit) <= Len(audit'), \A p \in 1 .. Len(audit) : audit'[p] = audit[p],
           \A p \in 1 .. Len(audit') : p > Len(audit) => audit'[p].kind # "revoked",
           \A x \in Intents \cup Logins : Grant(intent', login', x) =>
               \/ Clear(audit', link', Concern(intent', login', x), x)
               \/ /\ Grant(intent, login, x) /\ Concern(intent', login', x) = Concern(intent, login, x)
                  /\ Expired(intent, login, x) => Expired(intent', login', x),
           History(audit', link'), NoReturn(audit', link'), SessionsStand(merchant', login', link')
    PROVE  MInv'
  <1> DEFINE rows == {}
  <1>1. \A d \in Calls : \/ txn'[d] = Merchant!NoTxn
                         \/ /\ txn'[d] = txn[d]
                            /\ Spares(txn[d].held, intent, login, link, intent', login', link')
                            /\ InUse(txn[d], clock'[d]) /\ Grant(intent', login', txn[d].row) =>
                                  InUse(txn[d], clock[d]) /\ txn[d].row \notin rows
    OBVIOUS
  <1>2. \A x \in Intents \cup Logins : Grant(intent', login', x) =>
            \/ Clear(audit', link', Concern(intent', login', x), x)
            \/ /\ Grant(intent, login, x) /\ Concern(intent', login', x) = Concern(intent, login, x)
               /\ Expired(intent, login, x) => Expired(intent', login', x)
               /\ x \in rows => Expired(intent', login', x)
               /\ x \notin rows => \A p \in 1 .. Len(audit') : p > Len(audit) /\ audit'[p].kind = "revoked" =>
                                       ~Same(link'[audit'[p].link], Concern(intent, login, x))
    OBVIOUS
  <1> HIDE DEF rows
  <1> QED
    BY <1>1, <1>2, TxnWriteStep

\* A request that ends lets go of its locks, which nobody else held.
LEMMA Ended ==
    ASSUME MInv, NEW c \in Calls, Merchant!Ends(c)
    PROVE  /\ txn' \in [Calls -> TxnType] /\ txn'[c] = Merchant!NoTxn /\ clock' \in [Calls -> ClockType]
           /\ \A d \in Calls \ {c} : /\ txn'[d] = txn[d] /\ \A row \in txn[c].held : row \notin txn[d].held
                                     /\ InUse(txn[d], clock'[d]) => InUse(txn[d], clock[d])
  <1>1. txn \in [Calls -> TxnType] /\ Merchant!NoTxn \in TxnType
    BY NoTxnFits DEF MInv, MShape
  <1>2. \A d \in Calls \ {c} : txn[c].held \cap txn[d].held = {}
    BY DEF MInv, Apart
  <1>3. ClockStays(c)
    BY ClockMoves
  <1>4. \A d \in Calls \ {c} : InUse(txn[d], clock'[d]) => InUse(txn[d], clock[d])
    BY <1>3 DEF ClockStays, InUse
  <1>5. txn' = [txn EXCEPT ![c] = Merchant!NoTxn]
    BY DEF Merchant!Ends
  <1> QED
    BY <1>1, <1>2, <1>3, <1>4, <1>5 DEF ClockStays

(* One that lets rows expire which nobody else has locked: whoever was      *)
(* already open is overtaken, and whoever was not will find them expired.   *)
LEMMA EndedExpiring ==
    ASSUME MInv, NEW c \in Calls, NEW rows, Merchant!EndsExpiring(c, rows),
           \A x \in rows : Merchant!Free(Merchant!Row(x), c)
    PROVE  /\ txn' \in [Calls -> TxnType] /\ txn'[c] = Merchant!NoTxn /\ clock' \in [Calls -> ClockType]
           /\ \A d \in Calls \ {c} : /\ txn'[d] = txn[d] /\ \A row \in txn[c].held : row \notin txn[d].held
                                     /\ InUse(txn[d], clock'[d]) => InUse(txn[d], clock[d]) /\ txn[d].row \notin rows
  <1> DEFINE k(d) == CASE d = c -> Merchant!NoClock
                       [] d # c /\ d \in clock[c].older ->
                             [fresh |-> clock[d].fresh \/ txn[d].row \in rows, older |-> clock[d].older \ {c},
                              overtaken |-> TRUE]
                       [] OTHER -> [clock[d] EXCEPT !.fresh = @ /\ txn[d].row \notin rows, !.older = @ \ {c}]
  <1>1. txn \in [Calls -> TxnType] /\ Merchant!NoTxn \in TxnType /\ clock \in [Calls -> ClockType]
    BY NoTxnFits DEF MInv, MShape
  <1>2. \A d \in Calls \ {c} : txn[c].held \cap txn[d].held = {}
    BY DEF MInv, Apart
  <1>3. txn' = [txn EXCEPT ![c] = Merchant!NoTxn]
    BY DEF Merchant!EndsExpiring
  <1>4. clock' = [d \in Calls |-> k(d)]
    BY DEF Merchant!EndsExpiring
  <1>5. \A d \in Calls : k(d) \in ClockType
    <2> TAKE d \in Calls
    <2>1. CASE d = c
      BY <2>1 DEF Merchant!NoClock, ClockType
    <2>2. CASE d # c /\ d \in clock[c].older
      <3>1. clock[d].older \subseteq Calls /\ (clock[d].fresh \/ txn[d].row \in rows) \in BOOLEAN
        BY <1>1 DEF ClockType
      <3> QED
        BY <2>2, <3>1 DEF ClockType
    <2>3. CASE d # c /\ d \notin clock[c].older
      <3>1. clock[d] \in ClockType
        BY <1>1
      <3>2. k(d) = [clock[d] EXCEPT !.fresh = @ /\ txn[d].row \notin rows, !.older = @ \ {c}]
        BY <2>3
      <3> QED
        BY <3>1, <3>2 DEF ClockType
    <2> QED
      BY <2>1, <2>2, <2>3
  <1>6. ASSUME NEW d \in Calls \ {c}, InUse(txn[d], k(d))
        PROVE  InUse(txn[d], clock[d]) /\ txn[d].row \notin rows
    <2>1. d \notin clock[c].older
      <3>1. d # c /\ d \in clock[c].older => k(d).overtaken
        OBVIOUS
      <3> QED
        BY <1>6, <3>1 DEF InUse
    <2>2. /\ k(d).overtaken = clock[d].overtaken
          /\ k(d).fresh => clock[d].fresh /\ txn[d].row \notin rows
      <3> DEFINE f == clock[d].fresh /\ txn[d].row \notin rows
      <3>1. k(d) = [clock[d] EXCEPT !.fresh = f, !.older = @ \ {c}]
        BY <2>1
      <3>2. f \in BOOLEAN
        OBVIOUS
      <3>3. f => clock[d].fresh /\ txn[d].row \notin rows
        OBVIOUS
      <3> HIDE DEF f, k
      <3>4. k(d).overtaken = clock[d].overtaken /\ k(d).fresh = f
        BY <1>1, <3>1 DEF ClockType
      <3> QED
        BY <3>3, <3>4
    <2> HIDE DEF k
    <2>3. InUse(txn[d], clock[d])
      BY <1>6, <2>2 DEF InUse
    <2>4. CASE txn[d].at \in Using
      <3>1. Merchant!Row(txn[d].row) \in txn[d].held
        BY <2>4 DEF MInv, CallsFit, Fits, Using
      <3> QED
        BY <2>3, <3>1 DEF Merchant!Free
    <2>5. CASE txn[d].at \notin Using
      BY <1>6, <2>2, <2>3, <2>5 DEF InUse
    <2> QED
      BY <2>4, <2>5
  <1> HIDE DEF k
  <1>7. clock' \in [Calls -> ClockType]
    BY <1>4, <1>5
  <1>8. \A d \in Calls \ {c} : InUse(txn[d], clock'[d]) => InUse(txn[d], clock[d]) /\ txn[d].row \notin rows
    BY <1>4, <1>6
  <1> QED
    BY <1>1, <1>2, <1>3, <1>7, <1>8

LEMMA Trail ==
    ASSUME MInv, NEW e \in EventType, audit' = Append(audit, e)
    PROVE  /\ audit' \in Seq(EventType) /\ Len(audit') = Len(audit) + 1 /\ Len(audit) <= Len(audit')
           /\ audit'[Len(audit')] = e /\ \A p \in 1 .. Len(audit) : audit'[p] = audit[p]
           /\ \A p \in 1 .. Len(audit') : p > Len(audit) => audit'[p] = e
  <1>1. audit \in Seq(EventType) /\ Len(audit) \in Nat
    BY LenProperties DEF MInv, MShape
  <1>2. /\ audit' \in Seq(EventType) /\ Len(audit') = Len(audit) + 1 /\ audit'[Len(audit) + 1] = e
        /\ \A p \in 1 .. Len(audit) : audit'[p] = audit[p]
    BY <1>1, AppendProperties
  <1>3. \A p \in 1 .. Len(audit') : p > Len(audit) => p = Len(audit) + 1
    BY <1>1, <1>2
  <1> QED
    BY <1>1, <1>2, <1>3

\* Whatever s is, it has been granted to row x after all that was revoked.
LEMMA JustGranted ==
    ASSUME MInv, NEW e \in EventType, audit' = Append(audit, e), e.kind \in {"approved", "authorized"}, NEW s
    PROVE  Clear(audit', link', s, e.row)
  <1>1. audit' \in Seq(EventType) /\ audit'[Len(audit')] = e
    BY Trail
  <1>2. Len(audit') \in Nat
    BY <1>1, LenProperties
  <1>3. \A p \in 1 .. Len(audit') : Len(audit') \in p .. Len(audit')
    BY <1>2
  <1> QED
    BY <1>1, <1>3 DEF Clear

LEMMA LinkAdded ==
    ASSUME MInv, NEW b \in Brands, NEW w \in Workspaces, Merchant!InsertLink(b, w)
    PROVE  /\ link' \in Seq(LinkType) /\ Len(link') = Len(link) + 1 /\ Len(link') <= MaxBrandLinks
           /\ Len(link') \in Merchant!Links /\ Len(link') \in 1 .. Len(link') /\ LinksKept(link, link')
           /\ \A l \in 1 .. Len(link) : link'[l] = link[l]
           /\ link'[Len(link')].brand = b /\ link'[Len(link')].workspace = w /\ link'[Len(link')].live
  <1> DEFINE e == [brand |-> b, workspace |-> w, live |-> TRUE]
  <1>1. link \in Seq(LinkType) /\ Len(link) \in Nat
    BY LenProperties DEF MInv, MShape
  <1>2. e \in LinkType /\ e.brand = b /\ e.workspace = w /\ e.live
    BY DEF LinkType
  <1>3. link' = Append(link, e) /\ Len(link) < MaxBrandLinks
    BY DEF Merchant!InsertLink
  <1> HIDE DEF e
  <1>4. /\ link' \in Seq(LinkType) /\ Len(link') = Len(link) + 1 /\ link'[Len(link) + 1] = e
        /\ \A l \in 1 .. Len(link) : link'[l] = link[l]
    BY <1>1, <1>2, <1>3, AppendProperties
  <1>5. MaxBrandLinks \in Nat
    BY MerchantRows DEF Merchant!RowsAssumption
  <1>6. /\ Len(link') <= MaxBrandLinks /\ Len(link') \in Merchant!Links
        /\ Len(link') \in 1 .. Len(link') /\ Len(link) <= Len(link')
    BY <1>1, <1>3, <1>4, <1>5 DEF Merchant!Links
  <1>7. LinksKept(link, link')
    BY <1>4, <1>6 DEF LinksKept
  <1> QED
    BY <1>2, <1>4, <1>6, <1>7

LEMMA Still ==
    ASSUME MInv, audit' = audit
    PROVE  /\ Len(audit) <= Len(audit') /\ \A p \in 1 .. Len(audit) : audit'[p] = audit[p]
           /\ \A p \in 1 .. Len(audit') : ~(p > Len(audit))
  BY MerchantRowsTyped

LEMMA StartStep ==
    ASSUME MInv, NEW i \in Intents, NEW b \in Brands, NEW open \in BOOLEAN, Merchant!Start(i, b, open)
    PROVE  MInv'
  <1> DEFINE l == IF open THEN CHOOSE k \in Merchant!ActiveFor(b) : TRUE ELSE 0
             n == [Merchant!NoIntent EXCEPT !.at = "started", !.open = open, !.brand = b, !.link = l]
  <1>1. l \in Merchant!Links /\ (open => l \in 1 .. Len(link))
    <2>1. CASE open
      <3>1. Merchant!ActiveFor(b) # {}
        BY <2>1 DEF Merchant!Start
      <3>2. l \in Merchant!ActiveFor(b)
        BY <2>1, <3>1
      <3> QED
        BY <3>2, MerchantRowsTyped DEF Merchant!ActiveFor
    <2>2. CASE ~open
      BY <2>2, MerchantRows DEF Merchant!Links, Merchant!RowsAssumption
    <2> QED
      BY <2>1, <2>2
  <1>2. intent' = [intent EXCEPT ![i] = n] /\ intent[i].at = "none"
    BY DEF Merchant!Start, Merchant!NoIntent
  <1>3. /\ login' = login /\ link' = link /\ merchant' = merchant /\ audit' = audit /\ txn' = txn
        /\ clock' = clock
    BY DEF Merchant!Start
  <1> HIDE DEF l
  <1>4. Merchant!NoIntent \in IntentType
    BY MerchantRows DEF Merchant!NoIntent, IntentType, Merchant!Links, Merchant!RowsAssumption
  <1>5. n \in IntentType /\ n.at = "started" /\ n.open = open /\ n.brand = b /\ n.link = l
    BY <1>1, <1>4 DEF IntentType
  <1> HIDE DEF n
  <1>6. intent \in [Intents -> IntentType]
    BY DEF MInv, MShape
  <1>7. intent'[i] = n /\ \A j \in Intents \ {i} : intent'[j] = intent[j]
    BY <1>2, <1>6
  <1>8. MShape'
    BY <1>2, <1>3, <1>5 DEF MInv, MShape
  <1>9. RowsSound(intent, login, link)'
    BY <1>1, <1>3, <1>5, <1>7 DEF MInv, RowsSound
  <1>10. \A d \in Calls : Spares(txn[d].held, intent, login, link, intent', login', link')
    BY <1>2, <1>3, <1>7 DEF Spares
  <1>11. /\ Len(audit) <= Len(audit') /\ \A p \in 1 .. Len(audit) : audit'[p] = audit[p]
         /\ \A p \in 1 .. Len(audit') : ~(p > Len(audit))
    BY <1>3, Still
  <1>12. History(audit', link') /\ NoReturn(audit', link') /\ SessionsStand(merchant', login', link')
    BY <1>3 DEF MInv
  <1>13. LinksKept(link, link')
    BY <1>3, LinksStay
  <1>14. \A x \in Intents \cup Logins : Grant(intent', login', x) =>
            /\ Grant(intent, login, x) /\ Concern(intent', login', x) = Concern(intent, login, x)
            /\ Expired(intent, login, x) => Expired(intent', login', x)
    <2> TAKE x \in Intents \cup Logins
    <2>1. CASE x = i
      BY <1>5, <1>7, <2>1 DEF Grant
    <2>2. CASE x # i
      BY <1>3, <1>7, <2>2, GrantSame
    <2> QED
      BY <2>1, <2>2
  <1> QED
    BY <1>3, <1>8, <1>9, <1>10, <1>11, <1>12, <1>13, <1>14, TxnQuietStep

LEMMA OpenStep ==
    ASSUME MInv, NEW c \in Calls, Merchant!Open(c)
    PROVE  MInv'
  <1> DEFINE i == txn[c].row
             l == txn[c].link
             w == link[l].workspace
             e == [kind |-> "opened", row |-> i, link |-> l, overtaken |-> clock[c].overtaken]
  <1>1. /\ i \in Intents /\ Merchant!Row(i) \in txn[c].held /\ intent[i].at = "started" /\ l \in 1 .. Len(link)
        /\ link[l].live
    BY DEF MInv, CallsFit, Fits, Merchant!Open, Merchant!At
  <1>2. l \in Merchant!Links /\ w \in Workspaces
    BY <1>1, MerchantRowsTyped DEF LinkType
  <1>3. e \in EventType /\ e.kind = "opened" /\ e.link = l
    BY <1>1, <1>2 DEF EventType, MInv, MShape, ClockType
  <1>4. /\ intent' = [intent EXCEPT ![i].at = "consumed", ![i].workspace = w]
        /\ audit' = Append(audit, e) /\ Merchant!Ends(c) /\ login' = login /\ link' = link /\ merchant' = merchant
    BY DEF Merchant!Open, Merchant!Logged
  <1> HIDE DEF e, i, l, w
  <1>5. intent \in [Intents -> IntentType]
    BY DEF MInv, MShape
  <1>6. /\ intent' \in [Intents -> IntentType] /\ intent'[i].at = "consumed"
        /\ \A j \in Intents \ {i} : intent'[j] = intent[j]
    BY <1>1, <1>2, <1>4, <1>5 DEF IntentType
  <1>7. audit' \in Seq(EventType) /\ Len(audit) <= Len(audit') /\ \A p \in 1 .. Len(audit) : audit'[p] = audit[p]
    BY <1>3, <1>4, Trail
  <1>8. \A p \in 1 .. Len(audit') : p > Len(audit) => audit'[p].kind # "revoked"
    BY <1>3, <1>4, Trail
  <1>9. History(audit', link') /\ NoReturn(audit', link')
    <2>1. audit \in Seq(EventType) /\ History(audit, link) /\ NoReturn(audit, link)
      BY DEF MInv, MShape
    <2> QED
      BY <1>1, <1>3, <1>4, <2>1, HistoryGrows
  <1>10. /\ txn' \in [Calls -> TxnType] /\ txn'[c] = Merchant!NoTxn /\ clock' \in [Calls -> ClockType]
         /\ \A d \in Calls \ {c} : /\ txn'[d] = txn[d] /\ Merchant!Row(i) \notin txn[d].held
                                   /\ InUse(txn[d], clock'[d]) => InUse(txn[d], clock[d])
    BY <1>1, <1>4, Ended
  <1>11. MShape'
    BY <1>4, <1>6, <1>7, <1>10 DEF MInv, MShape
  <1>12. RowsSound(intent, login, link)'
    BY <1>4, <1>6 DEF MInv, RowsSound
  <1>13. \A d \in Calls \ {c} : Spares(txn[d].held, intent, login, link, intent', login', link')
    BY <1>1, <1>4, <1>6, <1>10 DEF Spares
  <1>14. SessionsStand(merchant', login', link') /\ LinksKept(link, link')
    BY <1>4, LinksStay DEF MInv
  <1>15. \A x \in Intents \cup Logins : Grant(intent', login', x) =>
            /\ Grant(intent, login, x) /\ Concern(intent', login', x) = Concern(intent, login, x)
            /\ Expired(intent, login, x) => Expired(intent', login', x)
    <2> TAKE x \in Intents \cup Logins
    <2>1. CASE x = i
      BY <1>1, <1>6, <2>1 DEF Grant
    <2>2. CASE x # i
      <3>1. (x \in Intents => intent'[x] = intent[x]) /\ (x \notin Intents => login'[x] = login[x])
        BY <1>4, <1>6, <2>2
      <3> QED
        BY <3>1, GrantSame
    <2> QED
      BY <2>1, <2>2
  <1> QED
    BY <1>7, <1>8, <1>9, <1>10, <1>11, <1>12, <1>13, <1>14, <1>15, TxnQuietStep

LEMMA ApproveLinkStep ==
    ASSUME MInv, NEW c \in Calls, Merchant!Approve(c)
    PROVE  MInv'
  <1> DEFINE i == txn[c].row
             w == txn[c].workspace
             e == [kind |-> "approved", row |-> i, link |-> 0, overtaken |-> clock[c].overtaken]
  <1>1. i \in Intents /\ Merchant!Row(i) \in txn[c].held /\ intent[i].at = "started" /\ w \in Workspaces
    BY DEF MInv, CallsFit, Fits, Merchant!Approve, Merchant!At
  <1>3. e \in EventType /\ e.kind = "approved" /\ e.row = i
    BY <1>1, MerchantRows DEF EventType, Merchant!Links, Merchant!RowsAssumption, MInv, MShape, ClockType
  <1>4. /\ intent' = [intent EXCEPT ![i].at = "approved", ![i].workspace = w]
        /\ audit' = Append(audit, e) /\ Merchant!Ends(c) /\ login' = login /\ link' = link /\ merchant' = merchant
    BY DEF Merchant!Approve, Merchant!Logged
  <1> HIDE DEF e, i, w
  <1>5. intent \in [Intents -> IntentType]
    BY DEF MInv, MShape
  <1>6. /\ intent' \in [Intents -> IntentType] /\ intent'[i].at = "approved"
        /\ intent'[i].workspace = w /\ intent'[i].brand = intent[i].brand
        /\ \A j \in Intents \ {i} : intent'[j] = intent[j]
    BY <1>1, <1>4, <1>5 DEF IntentType
  <1>7. audit' \in Seq(EventType) /\ Len(audit) <= Len(audit') /\ \A p \in 1 .. Len(audit) : audit'[p] = audit[p]
    BY <1>3, <1>4, Trail
  <1>8. \A p \in 1 .. Len(audit') : p > Len(audit) => audit'[p].kind # "revoked"
    BY <1>3, <1>4, Trail
  <1>9. History(audit', link') /\ NoReturn(audit', link')
    <2>1. audit \in Seq(EventType) /\ History(audit, link) /\ NoReturn(audit, link)
      BY DEF MInv, MShape
    <2> QED
      BY <1>3, <1>4, <2>1, HistoryGrows
  <1>10. /\ txn' \in [Calls -> TxnType] /\ txn'[c] = Merchant!NoTxn /\ clock' \in [Calls -> ClockType]
         /\ \A d \in Calls \ {c} : /\ txn'[d] = txn[d] /\ Merchant!Row(i) \notin txn[d].held
                                   /\ InUse(txn[d], clock'[d]) => InUse(txn[d], clock[d])
    BY <1>1, <1>4, Ended
  <1>11. MShape'
    BY <1>4, <1>6, <1>7, <1>10 DEF MInv, MShape
  <1>12. RowsSound(intent, login, link)'
    <2>1. intent[i].brand \in Brands
      BY <1>1 DEF MInv, RowsSound
    <2> QED
      BY <1>1, <1>4, <1>6, <2>1 DEF MInv, RowsSound
  <1>13. \A d \in Calls \ {c} : Spares(txn[d].held, intent, login, link, intent', login', link')
    BY <1>1, <1>4, <1>6, <1>10 DEF Spares
  <1>14. SessionsStand(merchant', login', link') /\ LinksKept(link, link')
    BY <1>4, LinksStay DEF MInv
  <1>15. \A x \in Intents \cup Logins : Grant(intent', login', x) =>
            \/ Clear(audit', link', Concern(intent', login', x), x)
            \/ /\ Grant(intent, login, x) /\ Concern(intent', login', x) = Concern(intent, login, x)
               /\ Expired(intent, login, x) => Expired(intent', login', x)
    <2> TAKE x \in Intents \cup Logins
    <2>1. CASE x = i
      BY <1>3, <1>4, <2>1, JustGranted
    <2>2. CASE x # i
      <3>1. (x \in Intents => intent'[x] = intent[x]) /\ (x \notin Intents => login'[x] = login[x])
        BY <1>4, <1>6, <2>2
      <3> QED
        BY <3>1, GrantSame
    <2> QED
      BY <2>1, <2>2
  <1> QED
    BY <1>7, <1>8, <1>9, <1>10, <1>11, <1>12, <1>13, <1>14, <1>15, TxnQuietStep

LEMMA CompleteStep ==
    ASSUME MInv, NEW c \in Calls, Merchant!Complete(c)
    PROVE  MInv'
  <1> DEFINE i == txn[c].row
             l == Len(link')
             e == [kind |-> "linked", row |-> i, link |-> l, overtaken |-> clock[c].overtaken]
  <1>1. i \in Intents /\ Merchant!Row(i) \in txn[c].held /\ intent[i].at = "approved" /\ txn[c].at = "complete"
    BY DEF MInv, CallsFit, Fits, Merchant!Complete, Merchant!At
  <1>2. intent[i].brand \in Brands /\ intent[i].workspace \in Workspaces
    BY <1>1 DEF MInv, RowsSound
  <1>3. Merchant!InsertLink(intent[i].brand, intent[i].workspace)
    BY DEF Merchant!Complete
  <1>4. /\ intent' = [intent EXCEPT ![i].at = "consumed", ![i].link = l]
        /\ audit' = Append(audit, e) /\ Merchant!Ends(c) /\ login' = login /\ merchant' = merchant
    BY DEF Merchant!Complete, Merchant!Logged
  <1>0. ~e.overtaken => Clear(audit, link, Concern(intent, login, i), i)
    <2>1. Grant(intent, login, i)
      BY <1>1 DEF Grant
    <2>2. ~e.overtaken => InUse(txn[c], clock[c])
      BY <1>1 DEF InUse, Using
    <2> QED
      BY <2>1, <2>2 DEF MInv, Users
  <1>5. /\ link' \in Seq(LinkType) /\ Len(link') = Len(link) + 1 /\ Len(link') <= MaxBrandLinks
        /\ l \in Merchant!Links /\ l \in 1 .. Len(link') /\ LinksKept(link, link')
        /\ \A k \in 1 .. Len(link) : link'[k] = link[k]
        /\ link'[l].brand = intent[i].brand /\ link'[l].workspace = intent[i].workspace /\ link'[l].live
    <2> HIDE DEF i
    <2> QED
      BY <1>1, <1>2, <1>3, LinkAdded
  <1>6. e \in EventType /\ e.kind = "linked" /\ e.link = l /\ e.row = i
    BY <1>1, <1>5 DEF EventType, MInv, MShape, ClockType
  <1> HIDE DEF e, l, i
  <1>7. intent \in [Intents -> IntentType]
    BY DEF MInv, MShape
  <1>8. /\ intent' \in [Intents -> IntentType] /\ intent'[i].at = "consumed"
        /\ \A j \in Intents \ {i} : intent'[j] = intent[j]
    BY <1>1, <1>4, <1>5, <1>7 DEF IntentType
  <1>9. /\ audit' \in Seq(EventType) /\ Len(audit) <= Len(audit') /\ \A p \in 1 .. Len(audit) : audit'[p] = audit[p]
        /\ \A p \in 1 .. Len(audit') : p > Len(audit) => audit'[p].kind # "revoked"
    BY <1>4, <1>6, Trail
  <1>10. Len(link) \in Nat /\ Len(link') \in Nat
    BY <1>5, LenProperties, MerchantRowsTyped
  <1>11. audit \in Seq(EventType) /\ History(audit, link) /\ NoReturn(audit, link)
    BY DEF MInv, MShape
  <1>12. History(audit, link') /\ NoReturn(audit, link')
    BY <1>5, <1>10, <1>11, HistorySame
  <1>13. ~e.overtaken =>
            \A p \in 1 .. Len(audit) : audit[p].kind = "revoked" /\ About(e, link'[audit[p].link], link'[e.link]) =>
                \E n \in p .. Len(audit) : audit[n].kind \in {"approved", "authorized"} /\ audit[n].row = e.row
    <2> SUFFICES ASSUME ~e.overtaken, NEW p \in 1 .. Len(audit), audit[p].kind = "revoked",
                        About(e, link'[audit[p].link], link'[e.link])
                 PROVE  \E n \in p .. Len(audit) : audit[n].kind \in {"approved", "authorized"} /\ audit[n].row = e.row
      OBVIOUS
    <2>1. audit[p].link \in 1 .. Len(link)
      BY <1>11 DEF History
    <2>2. Same(link[audit[p].link], Concern(intent, login, i))
      BY <1>1, <1>5, <1>6, <2>1 DEF Same, About, Concern
    <2> QED
      BY <1>0, <1>6, <2>2 DEF Clear
  <1>14. History(audit', link') /\ NoReturn(audit', link')
    BY <1>4, <1>5, <1>6, <1>11, <1>12, <1>13, HistoryGrows
  <1>15. /\ txn' \in [Calls -> TxnType] /\ txn'[c] = Merchant!NoTxn /\ clock' \in [Calls -> ClockType]
         /\ \A d \in Calls \ {c} : /\ txn'[d] = txn[d] /\ Merchant!Row(i) \notin txn[d].held
                                   /\ InUse(txn[d], clock'[d]) => InUse(txn[d], clock[d])
    BY <1>1, <1>4, Ended
  <1>16. MShape'
    BY <1>4, <1>5, <1>8, <1>9, <1>15 DEF MInv, MShape
  <1>17. RowsSound(intent, login, link)'
    <2>1. \A k : k \in 1 .. Len(link) => k \in 1 .. Len(link')
      BY <1>5, <1>10
    <2> QED
      BY <1>4, <1>8, <2>1 DEF MInv, RowsSound
  <1>18. \A d \in Calls \ {c} : Spares(txn[d].held, intent, login, link, intent', login', link')
    BY <1>4, <1>5, <1>8, <1>15 DEF Spares
  <1>19. SessionsStand(merchant', login', link')
    <2>1. \A s \in 1 .. Len(merchant) : merchant[s].login \in Logins
      BY MerchantRowsTyped DEF SessionType
    <2>2. SessionsStand(merchant, login, link)
      BY DEF MInv
    <2>3. Len(link) <= Len(link')
      BY <1>5, <1>10
    <2>4. \A s \in 1 .. Len(merchant) : merchant[s].live => link'[merchant[s].link].live
      BY <1>5, <2>2 DEF SessionsStand
    <2> QED
      BY <1>4, <1>10, <2>1, <2>2, <2>3, <2>4, SessionsGoOn
  <1>20. \A x \in Intents \cup Logins : Grant(intent', login', x) =>
            /\ Grant(intent, login, x) /\ Concern(intent', login', x) = Concern(intent, login, x)
            /\ Expired(intent, login, x) => Expired(intent', login', x)
    <2> TAKE x \in Intents \cup Logins
    <2>1. CASE x = i
      BY <1>1, <1>8, <2>1 DEF Grant
    <2>2. CASE x # i
      <3>1. (x \in Intents => intent'[x] = intent[x]) /\ (x \notin Intents => login'[x] = login[x])
        BY <1>4, <1>8, <2>2
      <3> QED
        BY <3>1, GrantSame
    <2> QED
      BY <2>1, <2>2
  <1> QED
    BY <1>5, <1>9, <1>14, <1>15, <1>16, <1>17, <1>18, <1>19, <1>20, TxnQuietStep

\* Sessions, some of which are ended.
LEMMA SessionsEnded ==
    ASSUME MInv, NEW gone, merchant' = [s \in DOMAIN merchant |->
                               IF s \in gone THEN [merchant[s] EXCEPT !.live = FALSE] ELSE merchant[s]]
    PROVE  /\ merchant' \in Seq(SessionType) /\ Len(merchant') = Len(merchant)
           /\ \A s \in 1 .. Len(merchant) : /\ merchant'[s].link = merchant[s].link
                                            /\ merchant'[s].login = merchant[s].login
                                            /\ merchant'[s].live => merchant[s].live /\ s \notin gone
  <1> DEFINE m(s) == IF s \in gone THEN [merchant[s] EXCEPT !.live = FALSE] ELSE merchant[s]
  <1>1. /\ Len(merchant) \in Nat /\ DOMAIN merchant = 1 .. Len(merchant)
        /\ \A s \in 1 .. Len(merchant) : merchant[s] \in SessionType
    BY MerchantRowsTyped
  <1>2. \A s \in 1 .. Len(merchant) : /\ m(s) \in SessionType /\ m(s).link = merchant[s].link
                                      /\ m(s).login = merchant[s].login
                                      /\ m(s).live => merchant[s].live /\ s \notin gone
    BY <1>1 DEF SessionType
  <1>3. merchant' = [s \in 1 .. Len(merchant) |-> m(s)]
    BY <1>1
  <1> HIDE DEF m
  <1>4. merchant' \in Seq(SessionType)
    <2>1. Len(merchant) \in Nat /\ \A s \in 1 .. Len(merchant) : m(s) \in SessionType
      BY <1>1, <1>2
    <2>2. [s \in 1 .. Len(merchant) |-> m(s)] \in Seq(SessionType)
      BY <2>1, IsASeq
    <2> QED
      BY <1>3, <2>2
  <1>5. DOMAIN merchant' = 1 .. Len(merchant) /\ DOMAIN merchant' = 1 .. Len(merchant') /\ Len(merchant') \in Nat
    BY <1>3, <1>4, LenProperties
  <1>6. Len(merchant') = Len(merchant)
    BY <1>1, <1>5
  <1> QED
    BY <1>2, <1>3, <1>4, <1>6

LEMMA RevokeStep ==
    ASSUME MInv, NEW c \in Calls, Merchant!Revoke(c)
    PROVE  MInv'
  <1> DEFINE l == txn[c].link
             rows == Merchant!Outstanding(l) \cup Merchant!OutstandingLogins(l)
             e == [kind |-> "revoked", row |-> NoRow, link |-> l, overtaken |-> clock[c].overtaken]
             gone == {s \in DOMAIN merchant : merchant[s].link = l}
  <1>1. l \in 1 .. Len(link) /\ Merchant!LinkRow(l) \in txn[c].held /\ link[l].live
    BY DEF MInv, CallsFit, Fits, Merchant!Revoke, Merchant!At
  <1>2. l \in Merchant!Links /\ link[l] \in LinkType /\ link \in Seq(LinkType)
    BY <1>1, MerchantRowsTyped DEF MInv, MShape
  <1>3. e \in EventType /\ e.kind = "revoked" /\ e.link = l
    BY <1>2 DEF EventType, MInv, MShape, ClockType
  <1>4. /\ link' = [link EXCEPT ![l].live = FALSE] /\ audit' = Append(audit, e) /\ Merchant!EndsExpiring(c, rows)
        /\ intent' = [i \in Intents |-> IF i \in rows THEN [intent[i] EXCEPT !.expired = TRUE] ELSE intent[i]]
        /\ login' = [r \in Logins |-> IF r \in rows THEN [login[r] EXCEPT !.expired = TRUE] ELSE login[r]]
        /\ merchant' = [s \in DOMAIN merchant |->
                            IF s \in gone THEN [merchant[s] EXCEPT !.live = FALSE] ELSE merchant[s]]
        /\ \A x \in rows : Merchant!Free(Merchant!Row(x), c)
    BY DEF Merchant!Revoke, Merchant!Logged
  <1>0. \A x \in Intents \cup Logins : Grant(intent, login, x) /\ Same(link[l], Concern(intent, login, x)) => x \in rows
    <2> SUFFICES ASSUME NEW x \in Intents \cup Logins, Grant(intent, login, x), Same(link[l], Concern(intent, login, x))
                 PROVE  x \in rows
      OBVIOUS
    <2>1. CASE x \in Intents
      BY <2>1 DEF Grant, Concern, Same, Merchant!Outstanding
    <2>2. CASE x \notin Intents
      <3>1. link[l].workspace # NoWorkspace
        BY <1>2, MerchantRows DEF LinkType, Merchant!RowsAssumption
      <3> QED
        BY <2>2, <3>1 DEF Grant, Concern, Same, Merchant!OutstandingLogins
    <2> QED
      BY <2>1, <2>2
  <1> HIDE DEF e, l, rows
  <1>5. /\ link' \in Seq(LinkType) /\ Len(link') = Len(link) /\ ~link'[l].live
        /\ \A k \in 1 .. Len(link) : /\ link'[k].brand = link[k].brand /\ link'[k].workspace = link[k].workspace
                                     /\ k # l => link'[k] = link[k]
    <2> DEFINE gl == [link[l] EXCEPT !.live = FALSE]
    <2>1. gl \in LinkType /\ gl.brand = link[l].brand /\ gl.workspace = link[l].workspace /\ ~gl.live
      BY <1>2 DEF LinkType
    <2>2. link' = [link EXCEPT ![l] = gl]
      BY <1>4
    <2> HIDE DEF gl
    <2> QED
      BY <1>1, <1>2, <2>1, <2>2, ExceptSeq
  <1>6. Len(link) \in Nat
    BY MerchantRowsTyped
  <1>7. LinksKept(link, link')
    <2>1. \A k \in 1 .. Len(link) : link'[k].live => link[k].live
      BY <1>1, <1>5
    <2> QED
      BY <1>5, <1>6, <2>1 DEF LinksKept
  <1>8. intent \in [Intents -> IntentType] /\ login \in [Logins -> LoginType]
    BY DEF MInv, MShape
  <1>9. /\ intent' \in [Intents -> IntentType]
        /\ \A i \in Intents : /\ intent'[i].at = intent[i].at /\ intent'[i].brand = intent[i].brand
                              /\ intent'[i].workspace = intent[i].workspace /\ intent'[i].link = intent[i].link
                              /\ intent'[i].open = intent[i].open
                              /\ intent[i].expired \/ i \in rows => intent'[i].expired
    <2>1. \A i \in Intents : /\ [intent[i] EXCEPT !.expired = TRUE] \in IntentType
                             /\ [intent[i] EXCEPT !.expired = TRUE].expired = TRUE
      BY <1>8 DEF IntentType
    <2>2. intent' \in [Intents -> IntentType]
      BY <1>4, <1>8, <2>1
    <2>3. \A i \in Intents : /\ intent'[i].at = intent[i].at /\ intent'[i].brand = intent[i].brand
                             /\ intent'[i].workspace = intent[i].workspace /\ intent'[i].link = intent[i].link
                             /\ intent'[i].open = intent[i].open
      BY <1>4, <1>8 DEF IntentType
    <2>4. \A i \in Intents : intent[i].expired \/ i \in rows => intent'[i].expired
      BY <1>4, <2>1
    <2> QED
      BY <2>2, <2>3, <2>4
  <1>10. /\ login' \in [Logins -> LoginType]
         /\ \A r \in Logins : /\ login'[r].at = login[r].at /\ login'[r].brand = login[r].brand
                              /\ login[r].expired \/ r \in rows => login'[r].expired
    <2>1. \A r \in Logins : /\ [login[r] EXCEPT !.expired = TRUE] \in LoginType
                            /\ [login[r] EXCEPT !.expired = TRUE].expired = TRUE
      BY <1>8 DEF LoginType
    <2>2. login' \in [Logins -> LoginType]
      BY <1>4, <1>8, <2>1
    <2>3. \A r \in Logins : login'[r].at = login[r].at /\ login'[r].brand = login[r].brand
      BY <1>4, <1>8 DEF LoginType
    <2>4. \A r \in Logins : login[r].expired \/ r \in rows => login'[r].expired
      BY <1>4, <2>1
    <2> QED
      BY <2>2, <2>3, <2>4
  <1>11. /\ merchant' \in Seq(SessionType) /\ Len(merchant') = Len(merchant)
         /\ \A s \in 1 .. Len(merchant) : /\ merchant'[s].link = merchant[s].link
                                          /\ merchant'[s].login = merchant[s].login
                                          /\ merchant'[s].live => merchant[s].live /\ s \notin gone
    BY <1>4, SessionsEnded
  <1>12. \A s \in 1 .. Len(merchant) : merchant'[s].live => merchant[s].live /\ merchant[s].link # l
    BY <1>11, MerchantRowsTyped
  <1> HIDE DEF gone
  <1>13. /\ audit' \in Seq(EventType) /\ Len(audit) <= Len(audit') /\ \A p \in 1 .. Len(audit) : audit'[p] = audit[p]
         /\ \A p \in 1 .. Len(audit') : p > Len(audit) => audit'[p] = e
    BY <1>3, <1>4, Trail
  <1>14. History(audit', link') /\ NoReturn(audit', link')
    <2>1. audit \in Seq(EventType) /\ History(audit, link) /\ NoReturn(audit, link)
      BY DEF MInv, MShape
    <2>2. History(audit, link') /\ NoReturn(audit, link')
      BY <1>5, <1>6, <1>7, <2>1, HistorySame
    <2> QED
      BY <1>1, <1>3, <1>4, <1>5, <2>1, <2>2, HistoryGrows
  <1>15. /\ txn' \in [Calls -> TxnType] /\ txn'[c] = Merchant!NoTxn /\ clock' \in [Calls -> ClockType]
         /\ \A d \in Calls \ {c} : /\ txn'[d] = txn[d] /\ Merchant!LinkRow(l) \notin txn[d].held
                                   /\ InUse(txn[d], clock'[d]) => InUse(txn[d], clock[d]) /\ txn[d].row \notin rows
    BY <1>1, <1>4, EndedExpiring
  <1>16. MShape'
    BY <1>5, <1>9, <1>10, <1>11, <1>13, <1>15 DEF MInv, MShape
  <1>17. RowsSound(intent, login, link)'
    BY <1>5, <1>9, <1>10 DEF MInv, RowsSound
  <1>18. \A d \in Calls \ {c} : Spares(txn[d].held, intent, login, link, intent', login', link')
    BY <1>5, <1>9, <1>10, <1>15 DEF Spares
  <1>19. SessionsStand(merchant', login', link')
    <2>1. \A s \in 1 .. Len(merchant) : merchant[s].login \in Logins
      BY MerchantRowsTyped DEF SessionType
    <2>2. SessionsStand(merchant, login, link)
      BY DEF MInv
    <2>3. \A s \in 1 .. Len(merchant) : merchant'[s].live => link'[merchant[s].link].live
      BY <1>5, <1>12, <2>2 DEF SessionsStand
    <2>4. \A r \in Logins : login[r].at = "consumed" => login'[r].at = "consumed"
      BY <1>10
    <2> QED
      BY <1>5, <1>6, <1>11, <2>1, <2>2, <2>3, <2>4, SessionsGoOn
  <1>20. \A x \in Intents \cup Logins : Grant(intent', login', x) =>
            /\ Grant(intent, login, x) /\ Concern(intent', login', x) = Concern(intent, login, x)
            /\ Expired(intent, login, x) => Expired(intent', login', x)
            /\ x \in rows => Expired(intent', login', x)
    BY <1>9, <1>10 DEF Grant, Concern, Expired
  <1>21. \A x \in Intents \cup Logins : Grant(intent, login, x) /\ x \notin rows =>
            \A p \in 1 .. Len(audit') : p > Len(audit) /\ audit'[p].kind = "revoked" =>
                ~Same(link'[audit'[p].link], Concern(intent, login, x))
    BY <1>0, <1>1, <1>3, <1>5, <1>13 DEF Same
  <1> QED
    BY <1>7, <1>13, <1>14, <1>15, <1>16, <1>17, <1>18, <1>19, <1>20, <1>21, TxnWriteStep

\* A sign-in request that becomes another, without being used or granted anything.
LEMMA LoginStep ==
    ASSUME MInv, NEW r \in Logins, NEW n \in LoginType, login' = [login EXCEPT ![r] = n],
           UNCHANGED <<intent, link, merchant, audit, txn, clock>>,
           n.at = "authorized" => /\ login[r].at = "authorized" /\ n.brand = login[r].brand
                                  /\ login[r].expired => n.expired,
           login[r].at \in {"authorized", "consumed"} => n.at = login[r].at
    PROVE  MInv'
  <1>1. /\ intent' = intent /\ link' = link /\ merchant' = merchant /\ audit' = audit /\ txn' = txn
        /\ clock' = clock
    OBVIOUS
  <1>2. login \in [Logins -> LoginType]
    BY DEF MInv, MShape
  <1>3. login'[r] = n /\ \A q \in Logins \ {r} : login'[q] = login[q]
    BY <1>2
  <1>4. MShape'
    BY <1>1, <1>2 DEF MInv, MShape
  <1>5. RowsSound(intent, login, link)'
    BY <1>1, <1>3 DEF MInv, RowsSound
  <1>6. \A d \in Calls : Spares(txn[d].held, intent, login, link, intent', login', link')
    BY <1>1, <1>3 DEF Spares
  <1>7. History(audit', link') /\ NoReturn(audit', link')
    BY <1>1 DEF MInv
  <1>8. SessionsStand(merchant', login', link')
    <2>1. \A s \in 1 .. Len(merchant) : merchant[s].login \in Logins
      BY MerchantRowsTyped DEF SessionType
    <2>2. \A q \in Logins : login[q].at = "consumed" => login'[q].at = "consumed"
      BY <1>3
    <2>3. SessionsStand(merchant, login, link) /\ Len(link) \in Nat /\ LinksKept(link, link)
      BY MerchantRowsTyped, LinksStay DEF MInv
    <2> QED
      BY <1>1, <2>1, <2>2, <2>3, SessionsKept
  <1>9. LinksKept(link, link')
    BY <1>1, LinksStay
  <1>10. /\ Len(audit) <= Len(audit') /\ \A p \in 1 .. Len(audit) : audit'[p] = audit[p]
         /\ \A p \in 1 .. Len(audit') : ~(p > Len(audit))
    BY <1>1, Still
  <1>11. \A x \in Intents \cup Logins : Grant(intent', login', x) =>
            /\ Grant(intent, login, x) /\ Concern(intent', login', x) = Concern(intent, login, x)
            /\ Expired(intent, login, x) => Expired(intent', login', x)
    <2> TAKE x \in Intents \cup Logins
    <2>1. CASE x = r
      <3>1. r \notin Intents
        BY MerchantRows DEF Merchant!RowsAssumption
      <3> QED
        BY <1>3, <2>1, <3>1 DEF Grant, Concern, Expired
    <2>2. CASE x # r
      <3>1. (x \in Intents => intent'[x] = intent[x]) /\ (x \notin Intents => login'[x] = login[x])
        BY <1>1, <1>3, <2>2
      <3> QED
        BY <3>1 DEF Grant, Concern, Expired
    <2> QED
      BY <2>1, <2>2
  <1> QED
    BY <1>1, <1>4, <1>5, <1>6, <1>7, <1>8, <1>9, <1>10, <1>11, TxnQuietStep

LEMMA BeginLoginStep ==
    ASSUME MInv, NEW r \in Logins, Merchant!Begin(r)
    PROVE  MInv'
  <1> DEFINE n == [login[r] EXCEPT !.at = "begun"]
  <1>1. login \in [Logins -> LoginType] /\ login[r].at = "none"
    BY DEF MInv, MShape, Merchant!Begin, Merchant!NoLogin
  <1>2. n \in LoginType /\ n.at = "begun"
    BY <1>1 DEF LoginType
  <1>3. login' = [login EXCEPT ![r] = n]
    BY <1>1 DEF Merchant!Begin
  <1> HIDE DEF n
  <1> QED
    BY <1>1, <1>2, <1>3, LoginStep DEF Merchant!Begin

\* The authority Merchant Hub gives is from after whatever was disconnected before.
LEMMA AuthorizeStep ==
    ASSUME MInv, NEW r \in Logins, NEW b \in Brands, NEW staff \in BOOLEAN, Merchant!Authorize(r, b, staff)
    PROVE  MInv'
  <1> DEFINE e == [kind |-> "authorized", row |-> r, link |-> 0, overtaken |-> FALSE]
  <1>1. login \in [Logins -> LoginType] /\ login[r].at = "begun"
    BY DEF MInv, MShape, Merchant!Authorize
  <1>2. /\ login' = [login EXCEPT ![r].at = "authorized", ![r].brand = b, ![r].staff = staff]
        /\ audit' = Append(audit, e)
        /\ intent' = intent /\ link' = link /\ merchant' = merchant /\ txn' = txn /\ clock' = clock
    BY DEF Merchant!Authorize, Merchant!Logged
  <1>3. e \in EventType /\ e.kind = "authorized" /\ e.row = r
    BY MerchantRows DEF EventType, Merchant!Links, Merchant!RowsAssumption
  <1> HIDE DEF e
  <1>4. /\ login' \in [Logins -> LoginType] /\ login'[r].at = "authorized" /\ login'[r].brand = b
        /\ \A q \in Logins \ {r} : login'[q] = login[q]
    BY <1>1, <1>2 DEF LoginType
  <1>5. audit' \in Seq(EventType) /\ Len(audit) <= Len(audit') /\ \A p \in 1 .. Len(audit) : audit'[p] = audit[p]
    BY <1>2, <1>3, Trail
  <1>6. \A p \in 1 .. Len(audit') : p > Len(audit) => audit'[p].kind # "revoked"
    BY <1>2, <1>3, Trail
  <1>7. History(audit', link') /\ NoReturn(audit', link')
    <2>1. audit \in Seq(EventType) /\ History(audit, link) /\ NoReturn(audit, link)
      BY DEF MInv, MShape
    <2> QED
      BY <1>2, <1>3, <2>1, HistoryGrows
  <1>8. MShape'
    BY <1>2, <1>4, <1>5 DEF MInv, MShape
  <1>9. RowsSound(intent, login, link)'
    BY <1>2, <1>4 DEF MInv, RowsSound
  <1>10. \A d \in Calls : Spares(txn[d].held, intent, login, link, intent', login', link')
    BY <1>1, <1>2, <1>4 DEF Spares
  <1>11. SessionsStand(merchant', login', link')
    <2>1. \A s \in 1 .. Len(merchant) : merchant[s].login \in Logins
      BY MerchantRowsTyped DEF SessionType
    <2>2. \A q \in Logins : login[q].at = "consumed" => login'[q].at = "consumed"
      BY <1>1, <1>4
    <2>3. SessionsStand(merchant, login, link) /\ Len(link) \in Nat /\ LinksKept(link, link)
      BY MerchantRowsTyped, LinksStay DEF MInv
    <2> QED
      BY <1>2, <2>1, <2>2, <2>3, SessionsKept
  <1>12. LinksKept(link, link')
    BY <1>2, LinksStay
  <1>13. \A x \in Intents \cup Logins : Grant(intent', login', x) =>
            \/ Clear(audit', link', Concern(intent', login', x), x)
            \/ /\ Grant(intent, login, x) /\ Concern(intent', login', x) = Concern(intent, login, x)
               /\ Expired(intent, login, x) => Expired(intent', login', x)
    <2> TAKE x \in Intents \cup Logins
    <2>1. CASE x = r
      BY <1>2, <1>3, <2>1, JustGranted
    <2>2. CASE x # r
      <3>1. (x \in Intents => intent'[x] = intent[x]) /\ (x \notin Intents => login'[x] = login[x])
        BY <1>2, <1>4, <2>2
      <3> QED
        BY <3>1, GrantSame
    <2> QED
      BY <2>1, <2>2
  <1> QED
    BY <1>2, <1>5, <1>6, <1>7, <1>8, <1>9, <1>10, <1>11, <1>12, <1>13, TxnQuietStep

LEMMA LoginExpiresStep ==
    ASSUME MInv, NEW r \in Logins, Merchant!LoginExpires(r)
    PROVE  MInv'
  <1> DEFINE n == [login[r] EXCEPT !.expired = TRUE]
  <1>1. login \in [Logins -> LoginType]
    BY DEF MInv, MShape
  <1>2. n \in LoginType /\ n.at = login[r].at /\ n.brand = login[r].brand /\ n.expired = TRUE
    BY <1>1 DEF LoginType
  <1>3. login' = [login EXCEPT ![r] = n]
    BY <1>1 DEF Merchant!LoginExpires
  <1> HIDE DEF n
  <1> QED
    BY <1>1, <1>2, <1>3, LoginStep DEF Merchant!LoginExpires

LEMMA IntentExpiresStep ==
    ASSUME MInv, NEW i \in Intents, Merchant!IntentExpires(i)
    PROVE  MInv'
  <1>1. /\ intent' = [intent EXCEPT ![i].expired = TRUE]
        /\ link' = link /\ merchant' = merchant /\ audit' = audit /\ txn' = txn /\ login' = login /\ clock' = clock
    BY DEF Merchant!IntentExpires
  <1>2. intent \in [Intents -> IntentType]
    BY DEF MInv, MShape
  <1>3. /\ intent' \in [Intents -> IntentType]
        /\ \A j \in Intents : /\ intent'[j].at = intent[j].at /\ intent'[j].brand = intent[j].brand
                              /\ intent'[j].workspace = intent[j].workspace /\ intent'[j].link = intent[j].link
                              /\ intent'[j].open = intent[j].open
                              /\ intent[j].expired => intent'[j].expired
    BY <1>1, <1>2 DEF IntentType
  <1>4. MShape'
    BY <1>1, <1>3 DEF MInv, MShape
  <1>5. RowsSound(intent, login, link)'
    BY <1>1, <1>3 DEF MInv, RowsSound
  <1>6. \A d \in Calls : Spares(txn[d].held, intent, login, link, intent', login', link')
    BY <1>1, <1>3 DEF Spares
  <1>7. History(audit', link') /\ NoReturn(audit', link') /\ SessionsStand(merchant', login', link')
    BY <1>1 DEF MInv
  <1>8. LinksKept(link, link')
    BY <1>1, LinksStay
  <1>9. /\ Len(audit) <= Len(audit') /\ \A p \in 1 .. Len(audit) : audit'[p] = audit[p]
        /\ \A p \in 1 .. Len(audit') : ~(p > Len(audit))
    BY <1>1, Still
  <1>10. \A x \in Intents \cup Logins : Grant(intent', login', x) =>
            /\ Grant(intent, login, x) /\ Concern(intent', login', x) = Concern(intent, login, x)
            /\ Expired(intent, login, x) => Expired(intent', login', x)
    BY <1>1, <1>3 DEF Grant, Concern, Expired
  <1> QED
    BY <1>1, <1>4, <1>5, <1>6, <1>7, <1>8, <1>9, <1>10, TxnQuietStep

LEMMA SessionEndsStep ==
    ASSUME MInv, NEW s \in DOMAIN merchant, Merchant!SessionEnds(s)
    PROVE  MInv'
  <1>1. intent' = intent /\ link' = link /\ login' = login /\ audit' = audit /\ txn' = txn /\ clock' = clock
    BY DEF Merchant!SessionEnds
  <1>2. merchant' = [t \in DOMAIN merchant |-> IF t \in {s} THEN [merchant[t] EXCEPT !.live = FALSE] ELSE merchant[t]]
    BY DEF Merchant!SessionEnds
  <1>3. /\ merchant' \in Seq(SessionType) /\ Len(merchant') = Len(merchant)
        /\ \A t \in 1 .. Len(merchant) : /\ merchant'[t].link = merchant[t].link
                                         /\ merchant'[t].login = merchant[t].login
                                         /\ merchant'[t].live => merchant[t].live
    BY <1>2, SessionsEnded
  <1>4. MShape'
    BY <1>1, <1>3 DEF MInv, MShape
  <1>5. RowsSound(intent, login, link)'
    BY <1>1 DEF MInv
  <1>6. \A d \in Calls : Spares(txn[d].held, intent, login, link, intent', login', link')
    BY <1>1 DEF Spares
  <1>7. History(audit', link') /\ NoReturn(audit', link')
    BY <1>1 DEF MInv
  <1>8. SessionsStand(merchant', login', link')
    <2>1. \A t \in 1 .. Len(merchant) : merchant[t].login \in Logins
      BY MerchantRowsTyped DEF SessionType
    <2>2. SessionsStand(merchant, login, link) /\ Len(link) \in Nat
      BY MerchantRowsTyped DEF MInv
    <2>3. \A t \in 1 .. Len(merchant) : merchant'[t].live => link[merchant[t].link].live
      BY <1>3, <2>2 DEF SessionsStand
    <2> QED
      BY <1>1, <1>3, <2>1, <2>2, <2>3, SessionsGoOn
  <1>9. LinksKept(link, link')
    BY <1>1, LinksStay
  <1>10. /\ Len(audit) <= Len(audit') /\ \A p \in 1 .. Len(audit) : audit'[p] = audit[p]
         /\ \A p \in 1 .. Len(audit') : ~(p > Len(audit))
    BY <1>1, Still
  <1>11. \A x \in Intents \cup Logins : Grant(intent', login', x) =>
            /\ Grant(intent, login, x) /\ Concern(intent', login', x) = Concern(intent, login, x)
            /\ Expired(intent, login, x) => Expired(intent', login', x)
    BY <1>1
  <1> QED
    BY <1>1, <1>4, <1>5, <1>6, <1>7, <1>8, <1>9, <1>10, <1>11, TxnQuietStep

LEMMA LogoutStep ==
    ASSUME MInv, NEW c \in Calls, Merchant!Logout(c)
    PROVE  MInv'
  <1>1. PICK staff \in BOOLEAN : staff = Merchant!At(c, "logout_staff")
    BY DEF Merchant!At
  <1> DEFINE open == {r \in Logins : login[r].at = "authorized" /\ login[r].staff = staff}
             gone == {s \in DOMAIN merchant : s <= txn[c].seen /\ merchant[s].staff = staff}
  <1>2. /\ login' = [r \in Logins |-> IF r \in open THEN [login[r] EXCEPT !.expired = TRUE] ELSE login[r]]
        /\ merchant' = [s \in DOMAIN merchant |->
                            IF s \in gone THEN [merchant[s] EXCEPT !.live = FALSE] ELSE merchant[s]]
        /\ Merchant!EndsExpiring(c, open) /\ \A r \in open : Merchant!Free(Merchant!Row(r), c)
        /\ intent' = intent /\ link' = link /\ audit' = audit
    BY <1>1 DEF Merchant!Logout
  <1> HIDE DEF open, gone
  <1>3. login \in [Logins -> LoginType]
    BY DEF MInv, MShape
  <1>4. /\ login' \in [Logins -> LoginType]
        /\ \A r \in Logins : /\ login'[r].at = login[r].at /\ login'[r].brand = login[r].brand
                             /\ login[r].expired => login'[r].expired
    BY <1>2, <1>3 DEF LoginType
  <1>5. /\ merchant' \in Seq(SessionType) /\ Len(merchant') = Len(merchant)
        /\ \A t \in 1 .. Len(merchant) : /\ merchant'[t].link = merchant[t].link
                                         /\ merchant'[t].login = merchant[t].login
                                         /\ merchant'[t].live => merchant[t].live
    BY <1>2, SessionsEnded
  <1>6. /\ txn' \in [Calls -> TxnType] /\ txn'[c] = Merchant!NoTxn /\ clock' \in [Calls -> ClockType]
        /\ \A d \in Calls \ {c} : txn'[d] = txn[d] /\ (InUse(txn[d], clock'[d]) => InUse(txn[d], clock[d]))
    BY <1>2, EndedExpiring
  <1>7. MShape'
    BY <1>2, <1>4, <1>5, <1>6 DEF MInv, MShape
  <1>8. RowsSound(intent, login, link)'
    BY <1>2, <1>4 DEF MInv, RowsSound
  <1>9. \A d \in Calls : Spares(txn[d].held, intent, login, link, intent', login', link')
    BY <1>2, <1>4 DEF Spares
  <1>10. History(audit', link') /\ NoReturn(audit', link')
    BY <1>2 DEF MInv
  <1>11. SessionsStand(merchant', login', link')
    <2>1. \A t \in 1 .. Len(merchant) : merchant[t].login \in Logins
      BY MerchantRowsTyped DEF SessionType
    <2>2. SessionsStand(merchant, login, link) /\ Len(link) \in Nat
      BY MerchantRowsTyped DEF MInv
    <2>3. \A t \in 1 .. Len(merchant) : merchant'[t].live => link[merchant[t].link].live
      BY <1>5, <2>2 DEF SessionsStand
    <2>4. \A r \in Logins : login[r].at = "consumed" => login'[r].at = "consumed"
      BY <1>4
    <2>5. SessionsStand(merchant', login', link)
      BY <1>5, <2>1, <2>2, <2>3, <2>4, SessionsGoOn
    <2> QED
      BY <1>2, <2>5
  <1>12. LinksKept(link, link')
    BY <1>2, LinksStay
  <1>13. /\ Len(audit) <= Len(audit') /\ \A p \in 1 .. Len(audit) : audit'[p] = audit[p]
         /\ \A p \in 1 .. Len(audit') : ~(p > Len(audit))
    BY <1>2, Still
  <1>14. \A x \in Intents \cup Logins : Grant(intent', login', x) =>
            /\ Grant(intent, login, x) /\ Concern(intent', login', x) = Concern(intent, login, x)
            /\ Expired(intent, login, x) => Expired(intent', login', x)
    BY <1>2, <1>4 DEF Grant, Concern, Expired
  <1> QED
    BY <1>6, <1>7, <1>8, <1>9, <1>10, <1>11, <1>12, <1>13, <1>14, TxnQuietStep

(* Signing in, by request r through a link that is there already or has     *)
(* just been added: the request was authorized, and nobody else has it.     *)
LEMMA SignedInStep ==
    ASSUME MInv, NEW c \in Calls, NEW l \in 1 .. Len(link'), Merchant!SignedIn(c, l), txn[c].row \in Logins,
           Merchant!Row(txn[c].row) \in txn[c].held, login[txn[c].row].at = "authorized", txn[c].at \in Using,
           l \in Merchant!Links, link' \in Seq(LinkType), Len(link') <= MaxBrandLinks, LinksKept(link, link'),
           \A k \in 1 .. Len(link) : link'[k] = link[k], link'[l].live, link'[l].brand = login[txn[c].row].brand,
           intent' = intent
    PROVE  MInv'
  <1> DEFINE r == txn[c].row
             n == [link |-> l, login |-> r, staff |-> login[r].staff, live |-> TRUE]
             e == [kind |-> "signed_in", row |-> r, link |-> l, overtaken |-> clock[c].overtaken]
  <1>1. login \in [Logins -> LoginType] /\ merchant \in Seq(SessionType)
    BY DEF MInv, MShape
  <1>0. r \notin Intents
    BY MerchantRows DEF Merchant!RowsAssumption
  <1>2. n \in SessionType /\ n.link = l /\ n.login = r
    BY <1>1 DEF SessionType, LoginType
  <1>3. /\ merchant' = Append(merchant, n) /\ login' = [login EXCEPT ![r].at = "consumed"]
        /\ audit' = Append(audit, e) /\ Merchant!Ends(c)
    BY DEF Merchant!SignedIn, Merchant!Logged
  <1>14. e \in EventType /\ e.kind = "signed_in" /\ e.link = l /\ e.row = r
    BY DEF EventType, MInv, MShape, ClockType
  <1>15. ~e.overtaken => Clear(audit, link, Concern(intent, login, r), r)
    <2>1. Grant(intent, login, r)
      BY <1>0 DEF Grant
    <2>2. ~e.overtaken => InUse(txn[c], clock[c])
      BY DEF InUse
    <2> QED
      BY <2>1, <2>2 DEF MInv, Users
  <1> HIDE DEF n, e
  <1>4. /\ login' \in [Logins -> LoginType] /\ login'[r].at = "consumed"
        /\ \A q \in Logins \ {r} : login'[q] = login[q]
    BY <1>1, <1>3 DEF LoginType
  <1>5. merchant' \in Seq(SessionType)
    BY <1>1, <1>2, <1>3, AppendProperties
  <1>6. /\ txn' \in [Calls -> TxnType] /\ txn'[c] = Merchant!NoTxn /\ clock' \in [Calls -> ClockType]
        /\ \A d \in Calls \ {c} : /\ txn'[d] = txn[d] /\ Merchant!Row(r) \notin txn[d].held
                                  /\ InUse(txn[d], clock'[d]) => InUse(txn[d], clock[d])
    BY <1>3, Ended
  <1>13. /\ audit' \in Seq(EventType) /\ Len(audit) <= Len(audit') /\ \A p \in 1 .. Len(audit) : audit'[p] = audit[p]
         /\ \A p \in 1 .. Len(audit') : p > Len(audit) => audit'[p].kind # "revoked"
    BY <1>3, <1>14, Trail
  <1>7. MShape'
    BY <1>4, <1>5, <1>6, <1>13 DEF MInv, MShape
  <1>8. Len(link) \in Nat /\ Len(link') \in Nat /\ Len(link) <= Len(link')
    BY MerchantRowsTyped, LenProperties DEF LinksKept
  <1>9. RowsSound(intent, login, link)'
    <2>1. \A k : k \in 1 .. Len(link) => k \in 1 .. Len(link')
      BY <1>8
    <2> QED
      BY <1>4, <2>1 DEF MInv, RowsSound
  <1>16. r \in Logins /\ login[r].at = "authorized" /\ link'[l].brand = login[r].brand
    OBVIOUS
  <1> HIDE DEF r
  <1>10. \A d \in Calls \ {c} : Spares(txn[d].held, intent, login, link, intent', login', link')
    BY <1>4, <1>6 DEF Spares
  <1>11. History(audit', link') /\ NoReturn(audit', link')
    <2>1. audit \in Seq(EventType) /\ History(audit, link) /\ NoReturn(audit, link)
      BY DEF MInv, MShape
    <2>2. History(audit, link') /\ NoReturn(audit, link')
      BY <1>8, <2>1, HistorySame
    <2>3. ~e.overtaken =>
              \A p \in 1 .. Len(audit) : audit[p].kind = "revoked" /\ About(e, link'[audit[p].link], link'[e.link]) =>
                  \E m \in p .. Len(audit) : audit[m].kind \in {"approved", "authorized"} /\ audit[m].row = e.row
      <3> SUFFICES ASSUME ~e.overtaken, NEW p \in 1 .. Len(audit), audit[p].kind = "revoked",
                          About(e, link'[audit[p].link], link'[e.link])
                   PROVE  \E m \in p .. Len(audit) : audit[m].kind \in {"approved", "authorized"} /\ audit[m].row = e.row
        OBVIOUS
      <3>1. audit[p].link \in 1 .. Len(link)
        BY <2>1 DEF History
      <3>2. Same(link[audit[p].link], Concern(intent, login, r))
        BY <1>0, <1>14, <1>16, <3>1 DEF Same, About, Concern
      <3> QED
        BY <1>14, <1>15, <3>2 DEF Clear
    <2> QED
      BY <1>3, <1>14, <2>1, <2>2, <2>3, HistoryGrows
  <1>12. SessionsStand(merchant', login', link')
    <2>1. \A q \in Logins : login[q].at = "consumed" => login'[q].at = "consumed"
      BY <1>4
    <2>2. \A k \in 1 .. Len(link) : link[k].live => link'[k].live
      OBVIOUS
    <2>3. SessionsStand(merchant, login, link)
      BY DEF MInv
    <2>4. /\ login[n.login].at # "consumed" /\ login'[n.login].at = "consumed"
          /\ n.link \in 1 .. Len(link') /\ link'[n.link].live
      BY <1>2, <1>4, <1>16
    <2>5. SessionsStand(Append(merchant, n), login', link')
      BY <1>1, <1>2, <1>8, <2>1, <2>2, <2>3, <2>4, SessionsGrow
    <2> QED
      BY <1>3, <2>5
  <1>17. \A x \in Intents \cup Logins : Grant(intent', login', x) =>
            /\ Grant(intent, login, x) /\ Concern(intent', login', x) = Concern(intent, login, x)
            /\ Expired(intent, login, x) => Expired(intent', login', x)
    <2> TAKE x \in Intents \cup Logins
    <2>1. CASE x = r
      BY <1>0, <1>4, <2>1 DEF Grant
    <2>2. CASE x # r
      <3>1. (x \in Intents => intent'[x] = intent[x]) /\ (x \notin Intents => login'[x] = login[x])
        BY <1>4, <2>2
      <3> QED
        BY <3>1 DEF Grant, Concern, Expired
    <2> QED
      BY <2>1, <2>2
  <1> QED
    BY <1>6, <1>7, <1>9, <1>10, <1>11, <1>12, <1>13, <1>17, TxnQuietStep

LEMMA LinkSignInStep ==
    ASSUME MInv, NEW c \in Calls, Merchant!SignIn(c)
    PROVE  MInv'
  <1> DEFINE l == txn[c].link
  <1>1. /\ txn[c].row \in Logins /\ Merchant!Row(txn[c].row) \in txn[c].held /\ login[txn[c].row].at = "authorized"
        /\ l \in 1 .. Len(link) /\ link[l].live /\ link[l].brand = login[txn[c].row].brand /\ txn[c].at \in Using
    BY DEF MInv, CallsFit, Fits, Merchant!SignIn, Merchant!At, Using
  <1>2. Merchant!SignedIn(c, l) /\ intent' = intent /\ link' = link
    BY DEF Merchant!SignIn
  <1>3. l \in Merchant!Links /\ link \in Seq(LinkType) /\ Len(link) <= MaxBrandLinks /\ LinksKept(link, link)
    BY <1>1, MerchantRowsTyped, LinksStay DEF MInv, MShape
  <1> HIDE DEF l
  <1> QED
    BY <1>1, <1>2, <1>3, SignedInStep

LEMMA ConnectStep ==
    ASSUME MInv, NEW c \in Calls, Merchant!Connect(c)
    PROVE  MInv'
  <1> DEFINE r == txn[c].row
  <1>1. /\ r \in Logins /\ Merchant!Row(r) \in txn[c].held /\ login[r].at = "authorized"
        /\ txn[c].workspace \in Workspaces /\ txn[c].at \in Using
    BY DEF MInv, CallsFit, Fits, Merchant!Connect, Merchant!At, Using
  <1>2. login[r].brand \in Brands
    BY <1>1 DEF MInv, RowsSound
  <1>3. /\ Merchant!InsertLink(login[r].brand, txn[c].workspace) /\ Merchant!SignedIn(c, Len(link'))
        /\ intent' = intent
    BY DEF Merchant!Connect
  <1>4. /\ link' \in Seq(LinkType) /\ Len(link') <= MaxBrandLinks /\ Len(link') \in Merchant!Links
        /\ Len(link') \in 1 .. Len(link') /\ LinksKept(link, link')
        /\ \A k \in 1 .. Len(link) : link'[k] = link[k]
        /\ link'[Len(link')].live /\ link'[Len(link')].brand = login[r].brand
    BY <1>1, <1>2, <1>3, LinkAdded
  <1> QED
    BY <1>1, <1>3, <1>4, SignedInStep

-----------------------------------------------------------------------------

LEMMA MerchantInitially == Merchant!Init => MInv
  <1> SUFFICES ASSUME Merchant!Init PROVE MInv
    OBVIOUS
  <1>1. /\ link = <<>> /\ merchant = <<>> /\ audit = <<>> /\ intent = [i \in Intents |-> Merchant!NoIntent]
        /\ login = [r \in Logins |-> Merchant!NoLogin] /\ txn = [c \in Calls |-> Merchant!NoTxn]
        /\ clock = [c \in Calls |-> Merchant!NoClock]
    BY DEF Merchant!Init
  <1>2. Merchant!NoIntent \in IntentType /\ Merchant!NoIntent.at = "none"
    BY MerchantRows DEF Merchant!NoIntent, IntentType, Merchant!Links, Merchant!RowsAssumption
  <1>3. Merchant!NoLogin \in LoginType /\ Merchant!NoLogin.at = "none"
    BY DEF Merchant!NoLogin, LoginType
  <1>4. /\ Len(link) = 0 /\ Len(merchant) = 0 /\ Len(audit) = 0
        /\ link \in Seq(LinkType) /\ merchant \in Seq(SessionType) /\ audit \in Seq(EventType)
    BY <1>1, EmptySeq
  <1>5. MaxBrandLinks \in Nat /\ Merchant!NoClock \in ClockType
    BY MerchantRows DEF Merchant!RowsAssumption, Merchant!NoClock, ClockType
  <1>6. Merchant!NoTxn \in TxnType /\ Merchant!NoTxn.held = {} /\ Merchant!NoTxn.at = "idle"
    BY NoTxnFits
  <1>7. MShape
    BY <1>1, <1>2, <1>3, <1>4, <1>5, <1>6 DEF MShape
  <1>8. RowsSound(intent, login, link)
    BY <1>1, <1>2, <1>3 DEF RowsSound
  <1>9. CallsFit
    BY <1>1, NoTxnFits DEF CallsFit
  <1>10. Apart /\ Users
    BY <1>1, <1>6 DEF Apart, Users, InUse, Using
  <1>11. Approvals
    BY <1>1, <1>2, <1>3 DEF Approvals, Grant
  <1>12. History(audit, link) /\ NoReturn(audit, link)
    BY <1>4 DEF History, NoReturn
  <1>13. SessionsStand(merchant, login, link)
    BY <1>4 DEF SessionsStand
  <1> QED
    BY <1>7, <1>8, <1>9, <1>10, <1>11, <1>12, <1>13 DEF MInv

LEMMA Unmoved == MInv /\ UNCHANGED merchantVars => MInv'
  <1> SUFFICES ASSUME MInv, UNCHANGED merchantVars PROVE MInv'
    OBVIOUS
  <1>1. /\ intent' = intent /\ login' = login /\ link' = link /\ merchant' = merchant /\ audit' = audit
        /\ txn' = txn /\ clock' = clock
    BY DEF merchantVars
  <1> QED
    BY <1>1 DEF MInv, MShape, CallsFit, Apart, Approvals, Users

LEMMA MerchantInductive == MInv /\ [Merchant!Next]_merchantVars => MInv'
  <1> SUFFICES ASSUME MInv, [Merchant!Next]_merchantVars PROVE MInv'
    OBVIOUS
  <1>1. ASSUME NEW i \in Intents,
               \/ \E b \in Brands, open \in BOOLEAN : Merchant!Start(i, b, open)
               \/ \E c \in Calls : \/ Merchant!BeginComplete(c, i)
                                   \/ \E w \in Workspaces : Merchant!BeginApprove(c, i, w)
               \/ Merchant!IntentExpires(i)
        PROVE  MInv'
    BY <1>1, StartStep, BeginCompleteStep, BeginApproveStep, IntentExpiresStep
  <1>2. ASSUME NEW r \in Logins,
               \/ Merchant!Begin(r) \/ Merchant!LoginExpires(r)
               \/ \E b \in Brands, staff \in BOOLEAN : Merchant!Authorize(r, b, staff)
               \/ \E c \in Calls, w \in Workspaces : Merchant!ReadLogin(c, r, w)
        PROVE  MInv'
    BY <1>2, BeginLoginStep, LoginExpiresStep, AuthorizeStep, ReadLoginStep
  <1>3. ASSUME NEW c \in Calls,
               \/ Merchant!FindIntent(c) \/ Merchant!LockOpened(c) \/ Merchant!Open(c)
               \/ Merchant!CheckConflict(c) \/ Merchant!Approve(c)
               \/ Merchant!FindGrant(c) \/ Merchant!Complete(c)
        PROVE  MInv'
    BY <1>3, FindIntentStep, LockOpenedStep, OpenStep, CheckConflictStep, ApproveLinkStep, FindGrantStep, CompleteStep
  <1>4. ASSUME NEW c \in Calls, Merchant!Repeat(c) \/ Merchant!Aborts(c)
        PROVE  MInv'
    BY <1>4, TxnEndStep DEF Merchant!Repeat, Merchant!Aborts
  <1>5. ASSUME NEW c \in Calls,
               \/ \E l \in DOMAIN link : Merchant!BeginRevoke(c, l)
               \/ Merchant!LockRevoked(c) \/ Merchant!Revoke(c)
        PROVE  MInv'
    BY <1>5, BeginRevokeStep, LockRevokedStep, RevokeStep
  <1>6. ASSUME NEW c \in Calls,
               \/ Merchant!BeginFinish(c) \/ Merchant!LockLogin(c) \/ Merchant!LockLink(c)
               \/ Merchant!SignIn(c) \/ Merchant!Connect(c)
               \/ \E staff \in BOOLEAN : Merchant!LogoutSessions(c, staff)
               \/ Merchant!Logout(c)
        PROVE  MInv'
    BY <1>6, BeginFinishStep, LockLoginStep, LockLinkStep, LinkSignInStep, ConnectStep, LogoutSessionsStep, LogoutStep
  <1>7. ASSUME NEW s \in DOMAIN merchant, Merchant!SessionEnds(s)
        PROVE  MInv'
    BY <1>7, SessionEndsStep
  <1> QED
    BY <1>1, <1>2, <1>3, <1>4, <1>5, <1>6, <1>7, Unmoved DEF Merchant!Next

LEMMA MTyped == MInv => Merchant!TypeOK
  <1> SUFFICES ASSUME MInv PROVE Merchant!TypeOK
    OBVIOUS
  <1>1. /\ intent \in [Intents -> IntentType] /\ login \in [Logins -> LoginType]
        /\ link \in Seq(LinkType) /\ merchant \in Seq(SessionType) /\ txn \in [Calls -> TxnType]
        /\ clock \in [Calls -> ClockType]
    BY DEF MInv, MShape
  <1>2. \A c \in Calls : txn[c].row \in Intents \cup Logins \cup {NoRow} /\ txn[c].link \in Merchant!Links
    BY <1>1 DEF TxnType
  <1> QED
    BY <1>1, <1>2 DEF Merchant!TypeOK, IntentType, LoginType, LinkType, SessionType, ClockType

LEMMA MGone == MInv => Merchant!StaysDisconnected
  <1> SUFFICES ASSUME MInv, NEW p \in DOMAIN audit, NEW q \in DOMAIN audit, Merchant!Resurrects(p, q)
               PROVE  audit[q].kind # "opened" /\ audit[q].overtaken
    BY DEF Merchant!StaysDisconnected
  <1>1. DOMAIN audit = 1 .. Len(audit) /\ NoReturn(audit, link)
    BY MerchantRowsTyped DEF MInv
  <1>2. p < q /\ audit[p].kind = "revoked"
    BY DEF Merchant!Resurrects
  <1>3. audit[q].kind # "opened"
    BY <1>1, <1>2 DEF NoReturn, Merchant!Resurrects
  <1>4. /\ audit[q].kind \in {"linked", "signed_in"} /\ About(audit[q], link[audit[p].link], link[audit[q].link])
        /\ \A n \in p .. q : ~(audit[n].kind \in {"approved", "authorized"} /\ audit[n].row = audit[q].row)
    BY <1>3 DEF Merchant!Resurrects, Merchant!Granted, About
  <1>5. audit[q].overtaken
    BY <1>1, <1>2, <1>4 DEF NoReturn
  <1> QED
    BY <1>3, <1>5

LEMMA MStands == MInv => Merchant!SessionHasLink /\ Merchant!ProofUsedOnce
  BY MerchantRowsTyped DEF MInv, SessionsStand, Merchant!SessionHasLink, Merchant!ProofUsedOnce

-----------------------------------------------------------------------------
(* The components side by side: what AccessSpec allows each of them.        *)

LEMMA MerchantInvariance == AccessSpec => []MInv
  <1>1. AccessInit => MInv
    BY MerchantInitially DEF AccessInit
  <1>2. MInv /\ [AccessNext]_<<component, vars, webVars, merchantVars>> => MInv'
    <2>1. [AccessNext]_<<component, vars, webVars, merchantVars>> => [Merchant!Next]_merchantVars
      BY DEF AccessNext
    <2> QED
      BY <2>1, MerchantInductive
  <1> QED
    BY <1>1, <1>2, PTL DEF AccessSpec

(* No launch opens a link that was disconnected.  Nothing approved or       *)
(* authorized before a disconnection links its brand or its workspace, or   *)
(* signs in to its brand, afterwards, unless the transaction that does was  *)
(* open already when one that lets requests expire began.                   *)
THEOREM DisconnectedForGood == AccessSpec => []StaysDisconnected
  <1>1. MInv => StaysDisconnected
    BY MGone DEF StaysDisconnected
  <1> QED
    BY <1>1, MerchantInvariance, PTL

(* A live session through Merchant Hub stands on a live link: finish locks  *)
(* the link that revoke locks first.                                        *)
THEOREM SessionsStandOnLinks == AccessSpec => []SessionHasLink
  <1>1. MInv => SessionHasLink
    BY MStands DEF SessionHasLink
  <1> QED
    BY <1>1, MerchantInvariance, PTL

(* However many calls present the code of a sign-in request, one of them    *)
(* opens a session (finish of merchant-login.service.ts).                   *)
THEOREM SignInsSpentOnce == AccessSpec => []ProofUsedOnce
  <1>1. MInv => ProofUsedOnce
    BY MStands DEF ProofUsedOnce
  <1> QED
    BY <1>1, MerchantInvariance, PTL

(* The variables of the three components keep their types.                  *)
THEOREM AccessTyped == AccessSpec => []AccessTypeOK
  <1>1. AccessSpec => Spec
    <2>1. AccessInit => Init
      BY DEF AccessInit
    <2>2. [AccessNext]_<<component, vars, webVars, merchantVars>> => [Next]_vars
      BY DEF AccessNext
    <2> QED
      BY <2>1, <2>2, PTL DEF AccessSpec, Spec
  <1>2. AccessSpec => []Web!TypeOK
    <2>1. AccessInit => Web!TypeOK
      BY WebInitially DEF AccessInit
    <2>2. [AccessNext]_<<component, vars, webVars, merchantVars>> => [Web!Next]_webVars
      BY DEF AccessNext
    <2>3. Web!TypeOK /\ [AccessNext]_<<component, vars, webVars, merchantVars>> => Web!TypeOK'
      BY <2>2, WebTypeStep
    <2> QED
      BY <2>1, <2>3, PTL DEF AccessSpec
  <1>3. MInv => Merchant!TypeOK
    BY MTyped
  <1>4. TypeOK /\ Web!TypeOK /\ Merchant!TypeOK => AccessTypeOK
    BY DEF AccessTypeOK
  <1> QED
    BY <1>1, <1>2, <1>3, <1>4, MerchantInvariance, TypeCorrect, PTL
=============================================================================
