------------------------------ MODULE MC_Access ------------------------------
(***************************************************************************)
(* Accounts, WebSession and MerchantAccess on small instances, side by     *)
(* side.  They share no state: a behaviour is one of a single component,   *)
(* chosen at the start, so that the run checks all at the cost of their    *)
(* sum.                                                                    *)
(***************************************************************************)
EXTENDS Accounts, FiniteSets, TLC

CONSTANTS
    Brands, Workspaces, Intents, Logins, NoBrand, NoWorkspace, NoRow,
    MaxBrandLinks, MaxSessions,
    Tabs, Requests

VARIABLES
    component,      \* the one that moves in this behaviour
    stored, session, flight, request, live, fresh, sessions,    \* WebSession
    intent, login, link, merchant, audit, txn, clock            \* MerchantAccess

webVars == <<stored, session, flight, request, live, fresh, sessions>>
merchantVars == <<intent, login, link, merchant, audit, txn, clock>>

Web == INSTANCE WebSession WITH MaxSessions <- 3, Failures <- TRUE

Merchant == INSTANCE MerchantAccess WITH MaxLinks <- MaxBrandLinks

ASSUME MerchantRows == Merchant!RowsAssumption

AccessInit ==
    /\ component \in {"accounts", "web", "linking", "signing"}
    /\ Init /\ (component # "accounts" => application = "none")
    /\ Web!Init
    /\ Merchant!Init

\* Links by several intents, or sign-ins next to one intent.
OneAtATime ==
    IF component = "linking" THEN login' = login
    ELSE Cardinality({i \in Intents : intent'[i] # Merchant!NoIntent}) <= 1

AccessNext ==
    /\ UNCHANGED component
    /\ \/ component = "accounts" /\ Next /\ UNCHANGED <<webVars, merchantVars>>
       \/ component = "web" /\ Web!Next /\ UNCHANGED <<vars, merchantVars>>
       \/ component \in {"linking", "signing"} /\ Merchant!Next /\ OneAtATime /\ UNCHANGED <<vars, webVars>>

AccessSpec == AccessInit /\ [][AccessNext]_<<component, vars, webVars, merchantVars>>

\* Requests are alike, and so are brands and link intents.
Symmetry == Permutations(Calls) \cup Permutations(Brands) \cup Permutations(Intents)

-----------------------------------------------------------------------------

\* The variables of every component have their types.
AccessTypeOK == TypeOK /\ Web!TypeOK /\ Merchant!TypeOK

(* What was approved or authorized before a brand or a workspace was        *)
(* disconnected links, opens and signs in nothing afterwards, but for a     *)
(* request that was under way when the disconnection began                  *)
(* (merchant-links.service.ts, revoke against complete; finish).            *)
StaysDisconnected == Merchant!StaysDisconnected

(* A live session through Merchant Hub stands on a live link                *)
(* (merchant-login.service.ts, finish, against revoke).                     *)
SessionHasLink == Merchant!SessionHasLink

(* A sign-in request is good for one session (finish).                      *)
ProofUsedOnce == Merchant!ProofUsedOnce
=============================================================================
