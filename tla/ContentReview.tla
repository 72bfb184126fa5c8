--------------------------- MODULE ContentReview ---------------------------
(***************************************************************************)
(* The drafts one creator hands in for one deliverable of a campaign       *)
(* (campaign-content-review.service.ts).  Each handler reads the row,      *)
(* works on the file store and then writes the row by its id, whatever it  *)
(* says by then; nothing is in a transaction.  The timeline of events and  *)
(* the notices, which no step reads, are left out.                         *)
(***************************************************************************)
EXTENDS Naturals, Sequences

CONSTANTS
    Calls,      \* concurrent requests
    MaxRows,    \* bound: rows of campaign_content_submission
    MaxFiles    \* bound: files ever stored

ReviewAssumption == MaxRows \in Nat /\ MaxFiles \in Nat

VARIABLES
    rows,       \* campaign_content_submission, in the order of insertion
    stored,     \* the files in the store
    made,       \* how many files were ever stored: their keys are random
    call        \* the local variables of each request

vars == <<rows, stored, made, call>>

NoCall == [at |-> "idle", row |-> 0, file |-> 0, previous |-> 0, version |-> 0, status |-> "none"]

\* The creator is accepted: assertCreatorAccepted reads a snapshot that is never deleted.
Init ==
    /\ rows = <<>> /\ stored = {} /\ made = 0
    /\ call = [c \in Calls |-> NoCall]

At(c, step) == call[c].at = step
Ends(c) == call' = [call EXCEPT ![c] = NoCall]
Goes(c, step) == call' = [call EXCEPT ![c].at = step]

Open == {"draft", "changes_requested"}
Locked == {"in_review", "approved"}
Decisions == {"approved", "changes_requested", "rejected"}

-----------------------------------------------------------------------------
(* The creator's handlers.                                                  *)

\* storeFile
Stores(c, next) ==
    /\ made < MaxFiles
    /\ made' = made + 1 /\ stored' = stored \cup {made'}
    /\ call' = [call EXCEPT ![c] = [next EXCEPT !.file = made']]
    /\ UNCHANGED rows

\* upload stores the file before it looks for the deliverable.
Upload(c) == At(c, "idle") /\ Stores(c, [NoCall EXCEPT !.at = "find"])

\* findSlot: any row of the label.
FindSlot(c) ==
    /\ At(c, "find")
    /\ \/ rows = <<>> /\ Goes(c, "insert")
       \/ \E r \in DOMAIN rows :
            IF rows[r].status \in Locked THEN Goes(c, "discard")
            ELSE call' = [call EXCEPT ![c].at = "replace", ![c].row = r, ![c].previous = rows[r].file,
                                      ![c].version = rows[r].version + 1]
    /\ UNCHANGED <<rows, stored, made>>

\* The deliverable waits for the brand or is approved: the new file goes.
Discard(c) ==
    /\ At(c, "discard")
    /\ stored' = stored \ {call[c].file}
    /\ Ends(c)
    /\ UNCHANGED <<rows, made>>

InsertSubmission(c) ==
    /\ At(c, "insert") /\ Len(rows) < MaxRows
    /\ rows' = Append(rows, [status |-> "draft", version |-> 1, file |-> call[c].file])
    /\ Ends(c)
    /\ UNCHANGED <<stored, made>>

\* revise reads an open draft and stores the file.
Revise(c, r) ==
    /\ At(c, "idle") /\ rows[r].status \in Open
    /\ Stores(c, [NoCall EXCEPT !.at = "replace", !.row = r, !.previous = rows[r].file,
                                !.version = rows[r].version + 1])

\* Faulty: a row that could not be written is taken for written.
UpdateSubmissionFile_Unwritten(c) ==
    LET my == call[c] IN
    /\ At(c, "replace")
    /\ rows' \in {rows, [rows EXCEPT ![my.row] = [status |-> "draft", version |-> my.version, file |-> my.file]]}
    /\ Goes(c, "cleanup")
    /\ UNCHANGED <<stored, made>>

UpdateSubmissionFile(c) ==
    LET my == call[c] IN
    /\ At(c, "replace")
    /\ rows' = [rows EXCEPT ![my.row] = [status |-> "draft", version |-> my.version, file |-> my.file]]
    /\ Goes(c, "cleanup")
    /\ UNCHANGED <<stored, made>>

\* The file the handler read is deleted, or its deletion fails, which is ignored.
DeletePrevious(c) ==
    /\ At(c, "cleanup")
    /\ stored' \in {stored, stored \ {call[c].previous}}
    /\ Ends(c)
    /\ UNCHANGED <<rows, made>>

-----------------------------------------------------------------------------
(* Submitting and deciding.                                                 *)

\* submit reads an open draft; approve, requestChanges and reject a draft in review.
ReadForStatus(c, r, status) ==
    /\ At(c, "idle")
    /\ IF status = "in_review" THEN rows[r].status \in Open ELSE rows[r].status = "in_review"
    /\ call' = [call EXCEPT ![c].at = "status", ![c].row = r, ![c].status = status]
    /\ UNCHANGED <<rows, stored, made>>

\* updateStatus writes it whatever the row says by now.
UpdateStatus(c) ==
    /\ At(c, "status")
    /\ rows' = [rows EXCEPT ![call[c].row].status = call[c].status]
    /\ Ends(c)
    /\ UNCHANGED <<stored, made>>

\* A statement throws, or the process dies.
CallStops(c) == ~At(c, "idle") /\ Ends(c) /\ UNCHANGED <<rows, stored, made>>

Next ==
    \E c \in Calls :
        \/ Upload(c) \/ FindSlot(c) \/ Discard(c) \/ InsertSubmission(c)
        \/ UpdateSubmissionFile(c) \/ DeletePrevious(c) \/ UpdateStatus(c)
        \/ \E r \in DOMAIN rows :
            \/ Revise(c, r)
            \/ \E status \in Decisions \cup {"in_review"} : ReadForStatus(c, r, status)
        \/ CallStops(c)

Spec == Init /\ [][Next]_vars

-----------------------------------------------------------------------------

Status == Open \cup Locked \cup {"rejected"}

TypeOK ==
    /\ rows \in Seq([status : Status, version : Nat \ {0}, file : 1 .. MaxFiles])
    /\ Len(rows) <= MaxRows /\ made \in 0 .. MaxFiles /\ stored \subseteq 1 .. made
    /\ call \in [Calls -> [at : {"idle", "find", "discard", "insert", "replace", "cleanup", "status"},
                           row : Nat, file : 0 .. MaxFiles, previous : 0 .. MaxFiles, version : Nat,
                           status : Decisions \cup {"in_review", "none"}]]

(* Whatever replacements of a draft overlap, fail or stop half-way, the     *)
(* file a row names can still be read: a replaced file is deleted only      *)
(* after the row stopped naming it, and no row comes to name it again.      *)
FileKept == \A r \in DOMAIN rows : rows[r].file \in stored
=============================================================================
