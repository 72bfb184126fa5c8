--------------------------- MODULE SettlementBooks ---------------------------
(***************************************************************************)
(* What the books of the settlement promise, with none of the calls that   *)
(* keep them: a request id gets one command and keeps it, Commerce decides *)
(* what is on the books and nothing else, a request is confirmed once it   *)
(* is decided.  An item of a statement gets a request id that nothing else *)
(* has, and is settled only once a request about its own line is confirmed *)
(* under it: an id that was used for another line settles no item.         *)
(* Nothing is ever taken back.                                             *)
(* docs/COMMISSION-SETTLEMENT.md is the prose of it; the tables of         *)
(* CommissionSettlement implement it.                                      *)
(***************************************************************************)

CONSTANTS Lines, Requests, Batches, NoRequest, NoCommand

VARIABLES
    stored,     \* the command on the books under each request id
    decided,    \* the command Commerce decided under it
    confirmed,  \* the request ids whose answer is on the books
    opened,     \* the statements
    entry,      \* the request id of each line of a statement
    settled     \* the <<statement, line>> that read confirmed

vars == <<stored, decided, confirmed, opened, entry, settled>>

Init ==
    /\ stored = [r \in Requests |-> NoCommand]
    /\ decided = [r \in Requests |-> NoCommand]
    /\ confirmed = {}
    /\ opened = {}
    /\ entry = [b \in Batches |-> [l \in Lines |-> NoRequest]]
    /\ settled = {}

Store(r, c) ==
    /\ stored[r] = NoCommand
    /\ c.line \in Lines
    /\ stored' = [stored EXCEPT ![r] = c]
    /\ UNCHANGED <<decided, confirmed, opened, entry, settled>>

Decide(r) ==
    /\ stored[r] # NoCommand
    /\ decided[r] = NoCommand
    /\ decided' = [decided EXCEPT ![r] = stored[r]]
    /\ UNCHANGED <<stored, confirmed, opened, entry, settled>>

Confirm(r) ==
    /\ decided[r] # NoCommand
    /\ confirmed' = confirmed \cup {r}
    /\ UNCHANGED <<stored, decided, opened, entry, settled>>

Open(b) ==
    /\ opened' = opened \cup {b}
    /\ UNCHANGED <<stored, decided, confirmed, entry, settled>>

Enter(b, l, r) ==
    /\ b \in opened
    /\ entry[b][l] = NoRequest
    /\ stored[r] = NoCommand
    /\ \A d \in Batches, k \in Lines : entry[d][k] # r
    /\ entry' = [entry EXCEPT ![b][l] = r]
    /\ UNCHANGED <<stored, decided, confirmed, opened, settled>>

Settle(b, l) ==
    /\ entry[b][l] \in confirmed
    /\ stored[entry[b][l]].line = l
    /\ settled' = settled \cup {<<b, l>>}
    /\ UNCHANGED <<stored, decided, confirmed, opened, entry>>

\* The command of Store is any, so it is the one that is stored.
Next ==
    \/ \E r \in Requests : Store(r, stored'[r]) \/ Decide(r) \/ Confirm(r)
    \/ \E b \in Batches : Open(b)
    \/ \E b \in Batches, l \in Lines :
            \/ Settle(b, l)
            \/ \E r \in Requests : Enter(b, l, r)

Spec == Init /\ [][Next]_vars
=============================================================================
