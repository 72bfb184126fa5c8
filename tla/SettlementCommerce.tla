-------------------------- MODULE SettlementCommerce --------------------------
(***************************************************************************)
(* Commerce (the "Customer API") as thesi-api's commission settlement uses *)
(* it.  It is another service, so this module states only what the calls   *)
(* in commission-settlement.service.ts and docs/COMMISSION-SETTLEMENT.md   *)
(* rely on:                                                                *)
(*   - each sale line has a source revision, the commission earned on it,  *)
(*     and reasons to hold it; a refund, a review or a dispute makes a new *)
(*     revision;                                                           *)
(*   - a decision is kept under its request id: the same command again     *)
(*     gives the same decision and drives its transfer on, a changed       *)
(*     command is refused;                                                 *)
(*   - a new decision must name the current revision, and one line has one *)
(*     open transfer at a time.                                            *)
(***************************************************************************)
EXTENDS Integers, FiniteSets, FiniteSetsExt

CONSTANTS
    Lines,          \* the sale lines of one workspace, of one creator in one currency
    Requests,       \* request ids
    Accounts,       \* the creator's payout accounts, one at a time
    NoLine,         \* no sale line
    NoAccount,      \* the creator has no account ready, or a command carries none
    MaxRevision,    \* bound: source revisions of a line
    Cents,          \* the amounts of commission a line may earn
    Minimum         \* the accepted minimum payout of each line

ASSUME CommerceAssumption ==
    /\ IsFiniteSet(Lines) /\ NoLine \notin Lines
    /\ NoAccount \notin Accounts
    /\ MaxRevision \in Nat /\ Cents \subseteq Nat
    /\ Minimum \in [Lines -> Nat]

VARIABLES
    revision,       \* the source revision of each line; 0 before its first event
    earned,         \* the commission earned at that revision
    paid,           \* what the creator has been paid for it, less what was recovered
    held,           \* some hold, disqualification or open review period blocks it
    decision        \* what was decided under each request id, and its transfer

commerce == <<revision, earned, paid, held, decision>>

Action == {"qualify", "disqualify", "reconcile"}

\* combinedPayout: the lines it covers and their total; no lines when there is none.
Proof == [lines : SUBSET Lines, total : Nat]
NoProof == [lines |-> {}, total |-> 0]

Command == [line : Lines \cup {NoLine}, revision : Nat, action : Action, proof : Proof,
            destination : Accounts \cup {NoAccount}]
NoCommand == [line |-> NoLine, revision |-> 0, action |-> "qualify", proof |-> NoProof,
              destination |-> NoAccount]

Undecided == [state |-> "undecided", command |-> NoCommand, amount |-> 0]

CommerceType ==
    /\ revision \in [Lines -> 0 .. MaxRevision]
    /\ earned \in [Lines -> Nat]
    /\ paid \in [Lines -> Nat]
    /\ held \in [Lines -> BOOLEAN]
    /\ decision \in [Requests -> [state : {"undecided", "pending", "succeeded"},
                                  command : Command, amount : Nat]]

CommerceInit ==
    /\ revision = [l \in Lines |-> 0]
    /\ earned = [l \in Lines |-> 0]
    /\ paid = [l \in Lines |-> 0]
    /\ held = [l \in Lines |-> FALSE]
    /\ decision = [r \in Requests |-> Undecided]

Decided(r) == decision[r].state # "undecided"

Remaining(l) == IF earned[l] > paid[l] THEN earned[l] - paid[l] ELSE 0

OpenTransfer(l) == \E r \in Requests : decision[r].state = "pending" /\ decision[r].command.line = l

\* What preview reports of a line before the creator's account is looked at.
Clear(l) == ~held[l] /\ Remaining(l) > 0 /\ ~OpenTransfer(l)

ReachesMinimum(c) ==
    \/ Remaining(c.line) >= Minimum[c.line]
    \/ c.line \in c.proof.lines /\ c.proof.total >= Minimum[c.line]

Accepts(r, c) ==
    IF Decided(r)
    THEN decision[r].command = c
    ELSE /\ c.revision = revision[c.line]
         /\ ~OpenTransfer(c.line)
         /\ c.action = "qualify" => Clear(c.line) /\ ReachesMinimum(c)

\* What accepting c under r does; a repetition changes nothing here.
Decide(r, c) ==
    IF Decided(r)
    THEN UNCHANGED commerce
    ELSE /\ decision' = [decision EXCEPT ![r] =
                [state |-> IF c.action = "qualify" THEN "pending" ELSE "succeeded",
                 command |-> c,
                 amount |-> IF c.action = "qualify" THEN Remaining(c.line) ELSE 0]]
         /\ held' = [held EXCEPT ![c.line] = @ \/ c.action = "disqualify"]
         /\ paid' = IF c.action = "reconcile"
                    THEN [paid EXCEPT ![c.line] = IF @ > earned[c.line] THEN earned[c.line] ELSE @]
                    ELSE paid
         /\ UNCHANGED <<revision, earned>>

\* The transfer is confirmed: at once, on a repeated decision, by retry or by recover.
TransferSucceeds(r) ==
    /\ decision[r].state = "pending"
    /\ decision' = [decision EXCEPT ![r].state = "succeeded"]
    /\ paid' = [paid EXCEPT ![decision[r].command.line] = @ + decision[r].amount]
    /\ UNCHANGED <<revision, earned, held>>

\* A purchase, a refund, a review of risk: a new revision of the line.
NewRevision(l, cents, hold) ==
    /\ revision[l] < MaxRevision
    /\ revision' = [revision EXCEPT ![l] = @ + 1]
    /\ earned' = [earned EXCEPT ![l] = cents]
    /\ held' = [held EXCEPT ![l] = hold]
    /\ UNCHANGED <<paid, decision>>
=============================================================================
