------------------------ MODULE CommissionSettlement ------------------------
(***************************************************************************)
(* Paying commission: thesi-api/src/api/commission-earnings,               *)
(* commission-settlement.service.ts.  A decision about one sale line is a  *)
(* request row with a frozen command, sent to Commerce and confirmed when  *)
(* the answer arrives.  A batch is a statement over the workspace's lines: *)
(* every run of it lists and previews lines, gives each selected line an   *)
(* item with a request id of its own, and takes the same decision.  Calls  *)
(* run concurrently, repeat, throw and die between any two statements.     *)
(***************************************************************************)
EXTENDS SettlementCommerce, SequencesExt

CONSTANTS
    Batches,        \* batch ids
    Calls,          \* concurrent calls of runBatch, decide and replay
    NoBatch,        \* the batch of a decision taken from the panel of one line
    NoRequest,      \* the request id of an item that was never inserted
    Limit,          \* how many lines batchCandidates lists (50 in the code)
    Combined,       \* COMMISSION_SETTLEMENT_COMBINED_BALANCE_ENABLED
    Selections,     \* the line lists callers name; the empty one stands for all ready lines
    PanelActions,   \* what is decided from the panel of a line
    Failures        \* whether calls may throw or die

ASSUME CallsAssumption == NoBatch \notin Batches /\ NoRequest \notin Requests
ASSUME SettingsAssumption ==
    /\ Limit \in Nat /\ Combined \in BOOLEAN /\ Failures \in BOOLEAN
    /\ PanelActions \subseteq Action /\ Selections \subseteq SUBSET Lines

VARIABLES
    review,         \* lines whose latest commission_earning_event is under_review, by received_at
    account,        \* the creator's ready payout account, from Connect
    request,        \* commission_settlement_request
    batch,          \* commission_settlement_batch
    item,           \* commission_settlement_batch_item
    ctx             \* the local variables of each call

vars == <<review, account, request, batch, item, ctx, commerce>>

NoRow == [state |-> "absent", command |-> NoCommand]
NoItem == [state |-> "absent", request |-> NoRequest]
NewBatch(lines) == [state |-> "open", lines |-> lines]

(* command is the input being built and then the stored command; unseen and *)
(* seen are the listed lines before and after their preview; todo are the   *)
(* selected candidates.                                                     *)
Idle == [pc |-> "idle", batch |-> NoBatch, lines |-> {}, unseen |-> {}, seen |-> {},
         todo |-> {}, request |-> NoRequest, command |-> NoCommand]

Init ==
    /\ CommerceInit
    /\ review = <<>>
    /\ account \in Accounts \cup {NoAccount}
    /\ request = [r \in Requests |-> NoRow]
    /\ batch = [b \in Batches |-> [state |-> "absent", lines |-> {}]]
    /\ item = [b \in Batches |-> [l \in Lines |-> NoItem]]
    /\ ctx = [w \in Calls |-> Idle]

Goes(w, pc) == ctx' = [ctx EXCEPT ![w].pc = pc]
Ends(w) == ctx' = [ctx EXCEPT ![w] = Idle]

\* On to the outcome: of the command only the line is used from here on.
Outcome(w, pc) ==
    ctx' = [ctx EXCEPT ![w].pc = pc,
                       ![w].command = [NoCommand EXCEPT !.line = ctx[w].command.line]]

\* The next candidate of the batch, or the end of a single decision.
Continues(w) ==
    IF ctx[w].batch = NoBatch
    THEN Ends(w)
    ELSE ctx' = [ctx EXCEPT ![w] = [Idle EXCEPT !.pc = "items", !.batch = ctx[w].batch,
                                                !.todo = ctx[w].todo]]

-----------------------------------------------------------------------------
(* batchCandidates and its policy.                                          *)

\* ORDER BY received_at LIMIT: the oldest come first.
Listed == {l \in Lines : \E i \in 1 .. Len(review) : i <= Limit /\ review[i] = l}

Total(candidates) == MapThenSumSet(LAMBDA c : c.remaining, candidates)

\* Faulty: the line's own balance is counted on top of its group's.
Reaches_Twice(c, group) == Total(group) + c.remaining >= Minimum[c.line]

\* The balance of the lines that are ready to be paid reaches the line's minimum.
Reaches(c, group) == Total(group) >= Minimum[c.line]

Passes(c, group) ==
    \/ Minimum[c.line] = 0
    \/ ~Combined /\ c.remaining >= Minimum[c.line]
    \/ Combined /\ Reaches(c, group)

ProofFor(c, group) ==
    IF c.ready /\ Combined /\ Minimum[c.line] > 0 /\ Reaches(c, group)
    THEN [lines |-> {d.line : d \in group}, total |-> Total(group)]
    ELSE NoProof

\* applyCombinedBalancePolicy: the groups are formed from the lines ready before it.
WithPolicy(seen) ==
    LET group == {c \in seen : c.ready}
    IN {[line |-> c.line, ready |-> c.ready /\ Passes(c, group), proof |-> ProofFor(c, group)]
            : c \in seen}

\* The lines the caller named, ready or not, or all the ready ones.
Chosen(candidates, lines) ==
    IF lines # {}
    THEN {c \in candidates : c.line \in lines}
    ELSE {c \in candidates : c.ready}

-----------------------------------------------------------------------------
(* runBatch.                                                                *)

\* An existing row must carry the same input; a caller with another one gets a conflict.
SelectBatch(w, b, lines) ==
    /\ ctx[w].pc = "idle"
    /\ batch[b].state # "absent" => batch[b].lines = lines
    /\ ctx' = [ctx EXCEPT ![w] = [Idle EXCEPT !.batch = b, !.lines = lines,
                    !.pc = IF batch[b].state = "absent" THEN "insert" ELSE "list"]]
    /\ UNCHANGED <<review, account, request, batch, item, commerce>>

\* The insert has no ON CONFLICT: the second of two concurrent first runs fails.
InsertBatch(w) ==
    /\ ctx[w].pc = "insert"
    /\ IF batch[ctx[w].batch].state = "absent"
       THEN /\ batch' = [batch EXCEPT ![ctx[w].batch] = NewBatch(ctx[w].lines)]
            /\ Goes(w, "list")
       ELSE /\ Ends(w)
            /\ UNCHANGED batch
    /\ UNCHANGED <<review, account, request, item, commerce>>

ListLines(w) ==
    /\ ctx[w].pc = "list"
    /\ ctx' = [ctx EXCEPT ![w].pc = "preview", ![w].unseen = Listed]
    /\ UNCHANGED <<review, account, request, batch, item, commerce>>

\* One line after another; a preview that throws makes a candidate that is not ready.
PreviewLine(w, l, answers) ==
    /\ ctx[w].pc = "preview"
    /\ l \in ctx[w].unseen
    /\ answers \/ Failures
    /\ ctx' = [ctx EXCEPT
            ![w].unseen = @ \ {l},
            ![w].seen = @ \cup {[line |-> l, ready |-> answers /\ Clear(l) /\ account # NoAccount,
                                 remaining |-> Remaining(l)]}]
    /\ UNCHANGED <<review, account, request, batch, item, commerce>>

SelectLines(w) ==
    /\ ctx[w].pc = "preview"
    /\ ctx[w].unseen = {}
    /\ ctx' = [ctx EXCEPT ![w].pc = "items", ![w].seen = {}, ![w].lines = {},
                          ![w].todo = Chosen(WithPolicy(ctx[w].seen), ctx[w].lines)]
    /\ UNCHANGED <<review, account, request, batch, item, commerce>>

\* Faulty: an id is looked for among the stored requests only.
FreshRequest_Unstored(r) == request[r].state = "absent"

\* randomUUID(): an id nobody has.
FreshRequest(r) ==
    /\ request[r].state = "absent"
    /\ \A b \in Batches, l \in Lines : item[b][l].request # r
    /\ \A w \in Calls : ctx[w].request # r

\* ON CONFLICT keeps the item there is.
Upserted(old, r) == IF old.state = "absent" THEN [state |-> "pending", request |-> r] ELSE old

\* The line gets its item, or keeps the one it has; a confirmed item is left alone.
UpsertItem(w, c, r) ==
    /\ ctx[w].pc = "items" /\ c \in ctx[w].todo
    /\ LET b == ctx[w].batch
           old == item[b][c.line]
           new == Upserted(old, r)
           rest == [ctx[w] EXCEPT !.todo = ctx[w].todo \ {c}]
           begun == [rest EXCEPT !.pc = IF c.ready THEN "quote" ELSE "skip", !.request = r,
                        !.command = [NoCommand EXCEPT !.line = c.line, !.proof = c.proof]]
       IN /\ IF old.state = "absent" THEN FreshRequest(r) ELSE r = old.request
          /\ item' = [item EXCEPT ![b][c.line] = new]
          /\ ctx' = [ctx EXCEPT ![w] = IF new.state = "confirmed" THEN rest ELSE begun]
    /\ UNCHANGED <<review, account, request, batch, commerce>>

\* UPDATE ... WHERE state <> 'confirmed'.
ItemBecomes(b, l, state) ==
    item' = [item EXCEPT ![b][l].state = IF @ = "confirmed" THEN @ ELSE state]

SkipItem(w) ==
    /\ ctx[w].pc = "skip"
    /\ ItemBecomes(ctx[w].batch, ctx[w].command.line, "skipped")
    /\ Continues(w)
    /\ UNCHANGED <<review, account, request, batch, commerce>>

\* The second preview: its revision goes into the input.
Quote(w) ==
    /\ ctx[w].pc = "quote"
    /\ ctx' = [ctx EXCEPT ![w].pc = "select",
                          ![w].command.revision = revision[ctx[w].command.line]]
    /\ UNCHANGED <<review, account, request, batch, item, commerce>>

FinishBatch(w) ==
    /\ ctx[w].pc = "items" /\ ctx[w].todo = {}
    /\ batch' = [batch EXCEPT ![ctx[w].batch].state = "completed"]
    /\ Ends(w)
    /\ UNCHANGED <<review, account, request, item, commerce>>

-----------------------------------------------------------------------------
(* decide, replay and the confirmation.                                     *)

\* decide for one line: the browser may repeat an id with another input, an item's id too.
Approve(w, l, r, action, expected) ==
    /\ ctx[w].pc = "idle"
    /\ revision[l] > 0 /\ expected \in 1 .. revision[l]
    /\ ctx' = [ctx EXCEPT ![w] = [Idle EXCEPT !.pc = "select", !.request = r,
                !.command = [NoCommand EXCEPT !.line = l, !.action = action, !.revision = expected]]]
    /\ UNCHANGED <<review, account, request, batch, item, commerce>>

\* replay of a request by its actor, from the panel of the line.
ReplayRequest(w, r) ==
    /\ ctx[w].pc = "idle"
    /\ request[r].state # "absent"
    /\ ctx' = [ctx EXCEPT ![w] = [Idle EXCEPT !.pc = "read", !.request = r]]
    /\ UNCHANGED <<review, account, request, batch, item, commerce>>

\* order_line_id and browser_input: all of the command but what the server added.
SameInput(c, d) == [c EXCEPT !.destination = NoAccount] = [d EXCEPT !.destination = NoAccount]

\* Faulty: a state the rest of the call does not know.
Compared_Conflict(c, d) == IF SameInput(c, d) THEN "read" ELSE "conflict"

Compared(c, d) == IF SameInput(c, d) THEN "read" ELSE "failed"

\* Faulty: a known id is taken for a settled one.
SelectRequest_Settled(w) ==
    /\ ctx[w].pc = "select"
    /\ IF request[ctx[w].request].state = "absent" THEN Goes(w, "terms") ELSE Outcome(w, "confirm")
    /\ UNCHANGED <<review, account, request, batch, item, commerce>>

\* A known id is replayed if its input is the same and refused otherwise.
SelectRequest(w) ==
    /\ ctx[w].pc = "select"
    /\ LET row == request[ctx[w].request]
       IN \/ row.state = "absent" /\ Goes(w, "terms")
          \/ row.state # "absent" /\ Outcome(w, Compared(row.command, ctx[w].command))
    /\ UNCHANGED <<review, account, request, batch, item, commerce>>

\* The platform check and, to qualify, the creator's account.
ResolveDestination(w) ==
    /\ ctx[w].pc = "terms"
    /\ IF ctx[w].command.action = "qualify"
       THEN IF account = NoAccount
            THEN Outcome(w, "failed")
            ELSE ctx' = [ctx EXCEPT ![w].pc = "save", ![w].command.destination = account]
       ELSE Goes(w, "save")
    /\ UNCHANGED <<review, account, request, batch, item, commerce>>

\* INSERT ... ON CONFLICT DO NOTHING.
Saved(row, c) == IF row.state = "absent" THEN [state |-> "pending", command |-> c] ELSE row

\* Faulty: the row is not read back, the command just built is sent.
SaveRequest_Unread(w) ==
    /\ ctx[w].pc = "save"
    /\ request' = [request EXCEPT ![ctx[w].request] = Saved(@, ctx[w].command)]
    /\ Goes(w, "send")
    /\ UNCHANGED <<review, account, batch, item, commerce>>

\* The row is read back: another call may have inserted it first.
SaveRequest(w) ==
    /\ ctx[w].pc = "save"
    /\ LET row == Saved(request[ctx[w].request], ctx[w].command)
       IN /\ request' = [request EXCEPT ![ctx[w].request] = row]
          /\ Outcome(w, Compared(row.command, ctx[w].command))
    /\ UNCHANGED <<review, account, batch, item, commerce>>

\* A confirmed request is not sent again; any other is sent as stored.
ReadRequest(w) ==
    /\ ctx[w].pc = "read"
    /\ LET row == request[ctx[w].request]
       IN IF row.state = "confirmed"
          THEN Outcome(w, "report")
          ELSE ctx' = [ctx EXCEPT ![w].pc = "send", ![w].command = row.command]
    /\ UNCHANGED <<review, account, request, batch, item, commerce>>

\* Commerce's decide call; its answer may never arrive (CallFails at "confirm").
SendCommand(w) ==
    /\ ctx[w].pc = "send"
    /\ IF Accepts(ctx[w].request, ctx[w].command)
       THEN Decide(ctx[w].request, ctx[w].command) /\ Outcome(w, "confirm")
       ELSE UNCHANGED commerce /\ Outcome(w, "failed")
    /\ UNCHANGED <<review, account, request, batch, item>>

ConfirmRequest(w) ==
    /\ ctx[w].pc = "confirm"
    /\ request' = [request EXCEPT ![ctx[w].request].state = "confirmed"]
    /\ Goes(w, "report")
    /\ UNCHANGED <<review, account, batch, item, commerce>>

\* The last preview and, in a batch, the item's success; this update has no guard.
ReportSuccess(w) ==
    /\ ctx[w].pc = "report"
    /\ item' = IF ctx[w].batch = NoBatch THEN item
               ELSE [item EXCEPT ![ctx[w].batch][ctx[w].command.line].state = "confirmed"]
    /\ Continues(w)
    /\ UNCHANGED <<review, account, request, batch, commerce>>

\* An exception inside the try of an item, or anywhere in a single decision.
CallFails(w) ==
    /\ Failures
    /\ ctx[w].pc \in {"quote", "select", "terms", "save", "read", "send", "confirm", "report"}
    /\ Outcome(w, "failed")
    /\ UNCHANGED <<review, account, request, batch, item, commerce>>

\* Faulty: the catch clause does not look at the item's state.
RecordFailure_Unguarded(w) ==
    /\ ctx[w].pc = "failed"
    /\ item' = IF ctx[w].batch = NoBatch THEN item
               ELSE [item EXCEPT ![ctx[w].batch][ctx[w].command.line].state = "failed"]
    /\ Continues(w)
    /\ UNCHANGED <<review, account, request, batch, commerce>>

RecordFailure(w) ==
    /\ ctx[w].pc = "failed"
    /\ IF ctx[w].batch = NoBatch THEN UNCHANGED item
       ELSE ItemBecomes(ctx[w].batch, ctx[w].command.line, "failed")
    /\ Continues(w)
    /\ UNCHANGED <<review, account, request, batch, commerce>>

\* The process dies, or a statement outside the try of an item throws.
CallEnds(w) ==
    /\ Failures
    /\ ctx[w].pc # "idle"
    /\ Ends(w)
    /\ UNCHANGED <<review, account, request, batch, item, commerce>>

-----------------------------------------------------------------------------
(* The surroundings.                                                        *)

\* Commerce emits the revision and Thesi ingests it: under review, held or reversed.
ObserveLine(l, cents, hold) ==
    /\ NewRevision(l, cents, hold)
    /\ review' = IF hold \/ cents = 0 THEN RemoveFirst(review, l) ELSE Append(RemoveFirst(review, l), l)
    /\ UNCHANGED <<account, request, batch, item, ctx>>

\* Immediately, or by retry, recover or a repeated decide.
TransferConfirmed(r) ==
    /\ TransferSucceeds(r)
    /\ UNCHANGED <<review, account, request, batch, item, ctx>>

\* The creator connects another account, or loses the one there is.
AccountChanges(a) ==
    /\ a # account
    /\ account' = a
    /\ UNCHANGED <<review, request, batch, item, ctx, commerce>>

-----------------------------------------------------------------------------

RunBatch(w) ==
    \/ InsertBatch(w)
    \/ ListLines(w)
    \/ \E l \in Lines : PreviewLine(w, l, TRUE)
    \/ SelectLines(w)
    \/ \E c \in ctx[w].todo, r \in Requests : UpsertItem(w, c, r)
    \/ SkipItem(w)
    \/ Quote(w)
    \/ FinishBatch(w)

DecideRequest(w) ==
    \/ SelectRequest(w)
    \/ ResolveDestination(w)
    \/ SaveRequest(w)
    \/ ReadRequest(w)
    \/ SendCommand(w)
    \/ ConfirmRequest(w)
    \/ ReportSuccess(w)
    \/ RecordFailure(w)

\* Steps that an outage may make; some of them the code may make of itself.
Failing(w) == CallFails(w) \/ CallEnds(w) \/ \E l \in Lines : PreviewLine(w, l, FALSE)

Begin(w) ==
    \/ \E b \in Batches, lines \in Selections : SelectBatch(w, b, lines)
    \/ \E l \in Lines, r \in Requests, action \in PanelActions, n \in 1 .. MaxRevision :
            Approve(w, l, r, action, n)
    \/ \E r \in Requests : ReplayRequest(w, r)

Surroundings ==
    \/ \E l \in Lines, cents \in Cents, hold \in BOOLEAN : ObserveLine(l, cents, hold)
    \/ \E r \in Requests : TransferConfirmed(r)
    \/ \E a \in Accounts \cup {NoAccount} : AccountChanges(a)

Next ==
    \/ \E w \in Calls : Begin(w) \/ RunBatch(w) \/ DecideRequest(w) \/ Failing(w)
    \/ Surroundings

Spec == Init /\ [][Next]_vars

(* More than runScheduledSettlements gives: it makes a batch of a new id    *)
(* every time, visits twenty-five workspaces by id, and does nothing while  *)
(* its flag or the advisory lock is held.  Here every batch is run again    *)
(* and again for ever, every call goes on to its end, outages and deaths    *)
(* come to an end, and Commerce's transfers are confirmed.  It serves to    *)
(* refute: what fails under it fails under the real runner too.             *)
Fairness ==
    /\ \A b \in Batches :
        SF_vars(\E w \in Calls, lines \in Selections : SelectBatch(w, b, lines))
    /\ \A w \in Calls : WF_vars(RunBatch(w) \/ DecideRequest(w))
    /\ \A r \in Requests : WF_vars(TransferConfirmed(r))
    /\ <>[][\A w \in Calls : Failing(w) => RunBatch(w) \/ DecideRequest(w)]_vars

FairSpec == Spec /\ Fairness

-----------------------------------------------------------------------------

TypeOK ==
    /\ CommerceType
    /\ review \in Seq(Lines)
    /\ account \in Accounts \cup {NoAccount}
    /\ request \in [Requests -> [state : {"absent", "pending", "confirmed"}, command : Command]]
    /\ batch \in [Batches -> [state : {"absent", "open", "completed"}, lines : SUBSET Lines]]
    /\ item \in [Batches -> [Lines ->
            [state : {"absent", "pending", "skipped", "failed", "confirmed"},
             request : Requests \cup {NoRequest}]]]
    /\ ctx \in [Calls -> [
            pc : {"idle", "insert", "list", "preview", "items", "skip", "quote", "select",
                  "terms", "save", "read", "send", "confirm", "report", "failed"},
            batch : Batches \cup {NoBatch},
            lines : SUBSET Lines,
            unseen : SUBSET Lines,
            seen : SUBSET [line : Lines, ready : BOOLEAN, remaining : Nat],
            todo : SUBSET [line : Lines, ready : BOOLEAN, proof : Proof],
            request : Requests \cup {NoRequest},
            command : Command]]

(* Whatever Commerce decided is on Thesi's books under the same id with the *)
(* very same command, so that a lost answer can always be asked for again   *)
(* and never comes back as "reused": the command is saved before it is sent *)
(* and frozen, whatever is repeated, re-quoted or re-connected meanwhile.   *)
DecidedIsRecorded ==
    \A r \in Requests : Decided(r) =>
        request[r].state # "absent" /\ request[r].command = decision[r].command

(* A statement never claims a settlement that was not made: a confirmed     *)
(* item's request is confirmed and about the item's line, and a confirmed   *)
(* request was decided by Commerce.                                         *)
ConfirmedWasDecided ==
    /\ \A r \in Requests : request[r].state = "confirmed" => Decided(r)
    /\ \A b \in Batches, l \in Lines : item[b][l].state = "confirmed" =>
            /\ item[b][l].request # NoRequest
            /\ request[item[b][l].request].state = "confirmed"
            /\ request[item[b][l].request].command.line = l

(* No request id stands in two places of the statements: runs that race for *)
(* the same item agree on one id, and two items never settle as one.        *)
RequestsNotShared ==
    \A b1, b2 \in Batches, l1, l2 \in Lines :
        item[b1][l1].request # NoRequest /\ item[b1][l1].request = item[b2][l2].request
            => b1 = b2 /\ l1 = l2

(* A payment below the accepted minimum rides on a balance that reaches it: *)
(* whatever happens between listing and sending, the proof frozen into a    *)
(* command covers the command's line and reaches that line's minimum.       *)
ProofCoversItsLine ==
    \A r \in Requests : LET c == request[r].command IN c.proof.lines # {} =>
        /\ c.line \in c.proof.lines
        /\ c.proof.total >= Minimum[c.line]

\* A line that batchPreview would show as ready, but for the minimum.
Payable(l) == l \in ToSet(review) /\ Clear(l) /\ account # NoAccount

(* docs/COMMISSION-SETTLEMENT.md: the preview, from which every scheduled   *)
(* batch is made, returns the recent lines under review.  So the newest of  *)
(* them, when payable, is paid or stops being the newest payable line.      *)
NewestLineSettled ==
    \A l \in Lines : (Payable(l) /\ l = Last(review)) ~> ~(Payable(l) /\ l = Last(review))
=============================================================================
