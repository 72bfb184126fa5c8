--------------------------- MODULE SocialAccounts ---------------------------
(***************************************************************************)
(* The social accounts of one creator: connecting them, synchronising what *)
(* they say, importing posts, and disconnecting (social.service.ts).  A    *)
(* request writes the connection, the posts and the row of the creators'   *)
(* directory one after the other, and the directory row from what it read  *)
(* at its start; any of these writes, and what the provider is asked, may  *)
(* fail.  Left out are the handle, account id and scopes of a connection,  *)
(* which disconnecting keeps, and the averages of the directory row, which *)
(* persistDirectoryStats carries over when no synchronised row gives any.  *)
(***************************************************************************)

CONSTANTS
    Calls,          \* concurrent requests
    Providers,      \* the social networks
    Strict          \* those whose posts are read only while connected ("youtube")

SocialAssumption == Strict \subseteq Providers /\ Providers # {}

VARIABLES
    accepted,       \* whether the creator accepted the campaign posts are attached to
    connection,     \* creator_social_connection: its status, and whether it has a token
    posts,          \* the providers of the creator_ugc_post rows that were synchronised
    directory,      \* creator_directory_stats.platforms, by provider
    content,        \* the providers of the campaign_content_metric rows
    cleared,        \* the providers disconnected since they were last connected
    call            \* the local variables of each request

vars == <<accepted, connection, posts, directory, content, cleared, call>>

Idle == [p \in Providers |-> "none"]
NoCall == [at |-> "idle", op |-> "sync", provider |-> CHOOSE p \in Providers : TRUE, context |-> Idle]

TypeOK ==
    /\ accepted \in BOOLEAN
    /\ connection \in [Providers -> [status : {"disconnected", "connected", "error"}, token : BOOLEAN]]
    /\ posts \subseteq Providers /\ content \subseteq Providers /\ cleared \subseteq Providers
    /\ directory \in [Providers -> {"none", "self_reported", "synced"}]
    /\ call \in [Calls ->
            [at : {"idle", "context", "token", "rotate", "fetch", "posts", "stats", "connect", "record",
                   "keep", "restat", "attach", "clear", "remove", "unlist", "merge"},
             op : {"sync", "oauth", "import", "attach", "refresh"},
             provider : Providers, context : [Providers -> {"none", "self_reported", "synced"}]]]

Init ==
    /\ accepted \in BOOLEAN
    /\ connection = [p \in Providers |-> [status |-> "disconnected", token |-> FALSE]]
    /\ posts = {} /\ directory = Idle /\ content = {} /\ cleared = {}
    /\ call = [c \in Calls |-> NoCall]

At(c, step) == call[c].at = step
Of(c) == call[c].provider
Goes(c, step) == call' = [call EXCEPT ![c].at = step]
Ends(c) == call' = [call EXCEPT ![c] = NoCall]
Starts(c, step, op, p) ==
    At(c, "idle") /\ call' = [call EXCEPT ![c] = [at |-> step, op |-> op, provider |-> p, context |-> directory]]

\* refreshCampaignContent keeps the row with the message of the exception.
RefreshFails(c) == Goes(c, "attach")

\* An exception: the OAuth callback catches it and records it.
Throws(c) ==
    CASE call[c].op = "oauth" -> call' = [call EXCEPT ![c].at = "record", ![c].op = "sync"]
      [] call[c].op = "refresh" -> RefreshFails(c)
      [] OTHER -> Ends(c)

-----------------------------------------------------------------------------
(* Connecting and synchronising.                                            *)

\* syncProvider, by the creator or by the administrator's schedule.
Sync(c, p) ==
    /\ Starts(c, "token", "sync", p)
    /\ UNCHANGED <<accepted, connection, posts, directory, content, cleared>>

\* handleOauthCallback: the code is exchanged and the connection stored, then synchronised.
Callback(c, p) ==
    /\ Starts(c, "context", "oauth", p)
    /\ connection' = [connection EXCEPT ![p] = [status |-> "connected", token |-> TRUE]]
    /\ cleared' = cleared \ {p}
    /\ UNCHANGED <<accepted, posts, directory, content>>

CallbackFails(c, p) ==
    /\ Starts(c, "record", "sync", p)
    /\ UNCHANGED <<accepted, connection, posts, directory, content, cleared>>

\* requireCreator reads the directory row with the account.
ReadContext(c) ==
    /\ At(c, "context")
    /\ call' = [call EXCEPT ![c].context = directory, ![c].at = IF call[c].op = "import" THEN "restat" ELSE "token"]
    /\ UNCHANGED <<accepted, connection, posts, directory, content, cleared>>

\* youtubeAccessToken and its siblings, up to the refresh of a token that expires;
\* fetchOwnedContent wants a YouTube account connected, too.
ReadToken(c) ==
    LET p == Of(c)
        usable == /\ connection[p].token
                  /\ call[c].op \in {"sync", "oauth"} \/ p \notin Strict \/ connection[p].status = "connected"
    IN
    /\ At(c, "token")
    /\ IF usable THEN Goes(c, "fetch") \/ Goes(c, "rotate") ELSE Throws(c)
    /\ UNCHANGED <<accepted, connection, posts, directory, content, cleared>>

Rotate(c) ==
    /\ At(c, "rotate") /\ Goes(c, "fetch")
    /\ connection' = [connection EXCEPT ![Of(c)].token = TRUE]
    /\ UNCHANGED <<accepted, posts, directory, content, cleared>>

Fetch(c) ==
    /\ At(c, "fetch")
    /\ Goes(c, CASE call[c].op = "import" -> "keep"
                 [] call[c].op \in {"attach", "refresh"} -> "attach"
                 [] OTHER -> "posts")
    /\ UNCHANGED <<accepted, connection, posts, directory, content, cleared>>

\* replaceSyncedPosts adds what it is given; the list is best-effort and may be empty.
SyncPosts(c) ==
    /\ At(c, "posts") /\ Goes(c, "stats")
    /\ posts' \in {posts, posts \cup {Of(c)}}
    /\ UNCHANGED <<accepted, connection, directory, content, cleared>>

SyncStats(c) ==
    /\ At(c, "stats") /\ Goes(c, "connect")
    /\ directory' = [call[c].context EXCEPT ![Of(c)] = "synced"]
    /\ UNCHANGED <<accepted, connection, posts, content, cleared>>

Connected(c) ==
    /\ At(c, "connect") /\ Ends(c)
    /\ connection' = [connection EXCEPT ![Of(c)].status = "connected"]
    /\ UNCHANGED <<accepted, posts, directory, content, cleared>>

\* What fails once the token is known is recorded, by the callback once more.
SyncFails(c) ==
    /\ call[c].op \in {"sync", "oauth"} /\ call[c].at \in {"fetch", "posts", "stats", "connect"}
    /\ posts' \in IF At(c, "posts") THEN {posts, posts \cup {Of(c)}} ELSE {posts}
    /\ Goes(c, "record")
    /\ UNCHANGED <<accepted, connection, directory, content, cleared>>

Record(c) ==
    /\ At(c, "record") /\ Throws(c)
    /\ connection' = [connection EXCEPT ![Of(c)].status = "error"]
    /\ UNCHANGED <<accepted, posts, directory, content, cleared>>

-----------------------------------------------------------------------------
(* Posts, imported or attached to a campaign.                               *)

\* importContent, and refreshImportedContent of a post that is still there.
Import(c, p) ==
    /\ Starts(c, "token", "import", p)
    /\ UNCHANGED <<accepted, connection, posts, directory, content, cleared>>

Keep(c) ==
    /\ At(c, "keep") /\ Goes(c, "context")
    /\ posts' = posts \cup {Of(c)}
    /\ UNCHANGED <<accepted, connection, directory, content, cleared>>

Restat(c) ==
    /\ At(c, "restat") /\ Ends(c)
    /\ directory' = call[c].context
    /\ UNCHANGED <<accepted, connection, posts, content, cleared>>

\* attachCampaignContent, and refreshCampaignContent of a row that was read.
Attach(c, p) ==
    /\ accepted
    /\ Starts(c, "token", "attach", p) \/ (p \in content /\ Starts(c, "token", "refresh", p))
    /\ UNCHANGED <<accepted, connection, posts, directory, content, cleared>>

SaveContent(c) ==
    /\ At(c, "attach") /\ Ends(c)
    /\ content' = content \cup {Of(c)}
    /\ UNCHANGED <<accepted, connection, posts, directory, cleared>>

Detach(p) ==
    /\ p \in content
    /\ content' = content \ {p}
    /\ UNCHANGED <<accepted, connection, posts, directory, cleared, call>>

-----------------------------------------------------------------------------
(* Disconnecting, and the profile form.                                     *)

Disconnect(c, p) ==
    /\ Starts(c, "clear", "sync", p)
    /\ UNCHANGED <<accepted, connection, posts, directory, content, cleared>>

ClearConnection(c) ==
    /\ At(c, "clear") /\ Goes(c, "remove")
    /\ connection' = [connection EXCEPT ![Of(c)] = [status |-> "disconnected", token |-> FALSE]]
    /\ UNCHANGED <<accepted, posts, directory, content, cleared>>

RemovePosts(c) ==
    /\ At(c, "remove") /\ Goes(c, "unlist")
    /\ posts' = posts \ {Of(c)}
    /\ UNCHANGED <<accepted, connection, directory, content, cleared>>

\* Faulty: every row is kept.
Unlist_All(c) ==
    /\ At(c, "unlist") /\ Ends(c)
    /\ directory' = call[c].context
    /\ cleared' = cleared \cup {Of(c)}
    /\ UNCHANGED <<accepted, connection, posts, content>>

Unlist(c) ==
    /\ At(c, "unlist") /\ Ends(c)
    /\ directory' = [call[c].context EXCEPT ![Of(c)] = IF @ = "synced" THEN "none" ELSE @]
    /\ cleared' = cleared \cup {Of(c)}
    /\ UNCHANGED <<accepted, connection, posts, content>>

\* upsertCreatorProfile reads the row, and writes what was synchronised before what the form says.
SaveProfile(c) ==
    /\ Starts(c, "merge", "sync", NoCall.provider)
    /\ UNCHANGED <<accepted, connection, posts, directory, content, cleared>>

MergeStats(c) ==
    /\ At(c, "merge") /\ Ends(c)
    /\ \E named \in SUBSET Providers :
        directory' = [p \in Providers |-> IF call[c].context[p] = "synced" THEN "synced"
                                          ELSE IF p \in named THEN "self_reported"
                                          ELSE "none"]
    /\ UNCHANGED <<accepted, connection, posts, content, cleared>>

\* A statement fails outside of the code that records failures, or the process stops.
Fails(c) ==
    /\ ~At(c, "idle")
    /\ Ends(c) \/ (call[c].op \in {"oauth", "refresh"} /\ ~At(c, "attach") /\ Throws(c))
    /\ UNCHANGED <<accepted, connection, posts, directory, content, cleared>>

Next ==
    \/ \E c \in Calls :
        \/ ReadContext(c) \/ ReadToken(c) \/ Rotate(c) \/ Fetch(c)
        \/ SyncPosts(c) \/ SyncStats(c) \/ Connected(c) \/ SyncFails(c) \/ Record(c)
        \/ Keep(c) \/ Restat(c) \/ SaveContent(c)
        \/ ClearConnection(c) \/ RemovePosts(c) \/ Unlist(c)
        \/ SaveProfile(c) \/ MergeStats(c) \/ Fails(c)
        \/ \E p \in Providers :
            \/ Sync(c, p) \/ Callback(c, p) \/ CallbackFails(c, p)
            \/ Import(c, p) \/ Attach(c, p) \/ Disconnect(c, p)
    \/ \E p \in Providers : Detach(p)

Spec == Init /\ [][Next]_vars

-----------------------------------------------------------------------------

(* Thesi can no longer ask anything of a provider that was disconnected,    *)
(* and passes nothing it keeps off as synchronised with it: no token, no    *)
(* connected status, no synchronised post, no synchronised row of the       *)
(* directory, until it is connected again - wherever requests of before and *)
(* since failed, if they come one after the other (disconnect, against the  *)
(* synchronisation, the imports, their failures and the profile form).  It  *)
(* does not say that nothing is left: the connection keeps its handle,      *)
(* account id and scopes, the directory the averages it had when no other   *)
(* row gives any, and the campaign the content attached to it.              *)
DisconnectedStaysOff ==
    \A p \in cleared :
        /\ ~connection[p].token /\ connection[p].status # "connected"
        /\ p \notin posts
        /\ directory[p] # "synced"
=============================================================================
