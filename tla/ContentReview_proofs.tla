------------------------ MODULE ContentReview_proofs ------------------------
(***************************************************************************)
(* Theorems about ContentReview for every number of concurrent requests    *)
(* and any bounds on the rows and the files.                               *)
(***************************************************************************)
EXTENDS ContentReview, SequenceTheorems, TLAPS

Row == [status : Status, version : Nat \ {0}, file : 1 .. MaxFiles]

Steps == {"idle", "find", "discard", "insert", "replace", "cleanup", "status"}

Locals == [at : Steps, row : Nat, file : 0 .. MaxFiles, previous : 0 .. MaxFiles, version : Nat,
           status : Decisions \cup {"in_review", "none"}]

(* FileKept is not inductive: a request may hold a file that is about to be *)
(* deleted, or be about to delete a file that is about to be named.  What   *)
(* excludes both is that every file has one owner - the row that names it   *)
(* or the request that stored it - and that a request deletes only a file   *)
(* that had a row for its owner and has none any more.                      *)

\* The requests that stored a file no row names yet.
Holds(c) == call[c].at \in {"find", "discard", "insert", "replace"}

Named(f) == \E r \in DOMAIN rows : rows[r].file = f

\* No file is named twice, held and named, held twice, or held by one and read by another.
Distinct == \A r, q \in DOMAIN rows : rows[r].file = rows[q].file => r = q
Unnamed == \A c \in Calls : Holds(c) => call[c].file \in stored /\ ~Named(call[c].file)
Apart ==
    \A c, d \in Calls : Holds(c) =>
        /\ Holds(d) /\ call[d].file = call[c].file => d = c
        /\ call[d].previous # call[c].file

OneOwner == Distinct /\ Unnamed /\ Apart

\* A request about to write a row it read, whose file no other row names; or its status.
Replacing(my) ==
    /\ my.row \in DOMAIN rows /\ my.version # 0
    /\ \A q \in DOMAIN rows : rows[q].file = my.previous => q = my.row

Deciding(my) == my.row \in DOMAIN rows /\ my.status # "none"

\* A file read before a replacement is named by the replaced row or by none.
Prepared(my) ==
    /\ my.previous \in 0 .. made
    /\ my.at = "replace" => Replacing(my)
    /\ my.at = "cleanup" => ~Named(my.previous)
    /\ my.at = "status" => Deciding(my)

Superseded == \A c \in Calls : Prepared(call[c])

IInv ==
    /\ TypeOK
    /\ FileKept
    /\ OneOwner
    /\ Superseded

\* Nothing was stored and nobody has called.
LEMMA Initially == ReviewAssumption /\ Init => IInv
  <1> SUFFICES ASSUME ReviewAssumption, Init PROVE IInv
    OBVIOUS
  <1>1. rows \in Seq(Row) /\ Len(rows) = 0 /\ DOMAIN rows = {}
    BY EmptySeq DEF Init
  <1>2. TypeOK
    BY <1>1 DEF Init, ReviewAssumption, TypeOK, NoCall, Row
  <1>3. FileKept /\ OneOwner /\ Superseded
    BY <1>1 DEF Init, ReviewAssumption, FileKept, OneOwner, Distinct, Unnamed, Apart, Superseded, Prepared, Holds, NoCall
  <1> QED
    BY <1>2, <1>3 DEF IInv

-----------------------------------------------------------------------------
(* The rows as SequenceTheorems speak of them.                              *)

LEMMA RowsTyped ==
    ASSUME TypeOK
    PROVE  /\ rows \in Seq(Row) /\ Len(rows) \in Nat
           /\ DOMAIN rows = 1 .. Len(rows)
           /\ \A r \in DOMAIN rows : rows[r] \in Row
  <1>1. rows \in Seq(Row)
    BY DEF TypeOK, Row
  <1>2. DOMAIN rows = 1 .. Len(rows) /\ Len(rows) \in Nat
    BY <1>1, LenProperties
  <1>3. \A r \in 1 .. Len(rows) : rows[r] \in Row
    BY <1>1, ElementOfSeq
  <1> QED
    BY <1>1, <1>2, <1>3

\* Updating a row leaves the others alone.
LEMMA RowWritten ==
    ASSUME TypeOK, NEW r \in DOMAIN rows, NEW row \in Row, rows' = [rows EXCEPT ![r] = row]
    PROVE  /\ rows' \in Seq(Row) /\ Len(rows') = Len(rows)
           /\ DOMAIN rows' = DOMAIN rows
           /\ rows'[r] = row
           /\ \A q \in DOMAIN rows \ {r} : rows'[q] = rows[q]
  <1>1. r \in 1 .. Len(rows) /\ rows \in Seq(Row)
    BY RowsTyped
  <1>2. rows' \in Seq(Row) /\ Len(rows') = Len(rows)
    BY <1>1, ExceptSeq
  <1> QED
    BY <1>1, <1>2

\* What the invariant says of the files and of the requests.
LEMMA FilesTyped ==
    ASSUME IInv, ReviewAssumption
    PROVE  /\ made \in 0 .. MaxFiles /\ made \in Nat /\ stored \subseteq 1 .. made
           /\ \A f : Named(f) => f \in 1 .. made
           /\ call \in [Calls -> Locals]
           /\ \A c \in Calls : call[c].previous \in 0 .. made /\ (Holds(c) => call[c].file \in 1 .. made)
  <1>1. made \in 0 .. MaxFiles /\ stored \subseteq 1 .. made
    BY DEF IInv, TypeOK
  <1>2. call \in [Calls -> Locals]
    BY DEF IInv, TypeOK, Locals, Steps
  <1>3. \A f : Named(f) => f \in 1 .. made
    BY <1>1 DEF IInv, FileKept, Named
  <1>4. \A c \in Calls : call[c].previous \in 0 .. made /\ (Holds(c) => call[c].file \in 1 .. made)
    BY <1>1 DEF IInv, OneOwner, Unnamed, Superseded, Prepared
  <1> QED
    BY <1>1, <1>2, <1>3, <1>4 DEF ReviewAssumption

\* The types, with the requests' in one word.
LEMMA Typed ==
    ASSUME rows \in Seq(Row), Len(rows) <= MaxRows, made \in 0 .. MaxFiles, stored \subseteq 1 .. made,
           call \in [Calls -> Locals]
    PROVE  TypeOK
  BY DEF TypeOK, Row, Locals, Steps

\* A request moves, and nothing else does.
LEMMA CallMoves ==
    ASSUME IInv, ReviewAssumption, NEW c \in Calls, NEW locals \in Locals,
           UNCHANGED <<rows, stored, made>>, call' = [call EXCEPT ![c] = locals],
           locals.at \in {"find", "discard", "insert", "replace"} => Holds(c) /\ locals.file = call[c].file,
           locals.previous = 0 \/ locals.previous = call[c].previous \/ Named(locals.previous),
           locals.at = "replace" => Replacing(locals),
           locals.at # "cleanup",
           locals.at = "status" => Deciding(locals)
    PROVE  IInv'
  <1>1. /\ call'[c] = locals
        /\ \A d \in Calls \ {c} : call'[d] = call[d]
        /\ call' \in [Calls -> Locals]
    BY FilesTyped
  <1>2. /\ \A f : Named(f) => f \in 1 .. made
        /\ \A d \in Calls : call[d].previous \in 0 .. made /\ (Holds(d) => call[d].file \in 1 .. made)
        /\ made \in Nat
    BY FilesTyped
  <1>3. TypeOK'
    BY <1>1 DEF IInv, TypeOK, Locals, Steps
  <1>4. FileKept'
    BY DEF IInv, FileKept
  <1>5. locals.previous \in 0 .. made
    BY <1>2
  <1>6. \A d \in Calls : Holds(d) => call[d].file # locals.previous
    BY <1>2 DEF IInv, OneOwner, Unnamed, Apart
  <1>7. OneOwner'
    <2>1. \A d \in Calls : /\ Holds(d)' => Holds(d) /\ call'[d].file = call[d].file
                           /\ call'[d].previous \in {call[d].previous, locals.previous}
      BY <1>1 DEF Holds
    <2>2. Distinct'
      BY DEF IInv, OneOwner, Distinct
    <2>3. Unnamed'
      BY <2>1 DEF IInv, OneOwner, Unnamed, Named
    <2>4. Apart'
      BY <1>6, <2>1 DEF IInv, OneOwner, Apart
    <2> QED
      BY <2>2, <2>3, <2>4 DEF OneOwner
  <1>8. Superseded'
    <2>1. Prepared(locals)'
      BY <1>5 DEF Prepared, Replacing, Deciding
    <2>2. ASSUME NEW d \in Calls \ {c} PROVE Prepared(call[d])'
      BY <1>1 DEF IInv, Superseded, Prepared, Replacing, Deciding, Named
    <2> QED
      BY <1>1, <2>1, <2>2 DEF Superseded
  <1> QED
    BY <1>3, <1>4, <1>7, <1>8 DEF IInv

-----------------------------------------------------------------------------
(* Storing a file.                                                          *)

\* A new file has no owner but the request that stored it.
LEMMA StoresStep ==
    ASSUME IInv, ReviewAssumption, NEW c \in Calls, NEW next \in Locals, Stores(c, next),
           \/ next.at = "find" /\ next.previous = 0
           \/ next.at = "replace" /\ Named(next.previous) /\ Replacing(next)
    PROVE  IInv'
  <1>1. /\ made \in Nat /\ made' = made + 1 /\ made' \in 0 .. MaxFiles
        /\ stored \subseteq 1 .. made /\ stored' = stored \cup {made'}
        /\ \A f : Named(f) => f \in 1 .. made
        /\ \A d \in Calls : call[d].previous \in 0 .. made /\ (Holds(d) => call[d].file \in 1 .. made)
    BY FilesTyped DEF Stores, ReviewAssumption
  <1>2. PICK locals \in Locals :
          /\ call' = [call EXCEPT ![c] = locals] /\ locals.file = made'
          /\ locals.at = next.at /\ locals.row = next.row
          /\ locals.previous = next.previous /\ locals.version = next.version
    <2> DEFINE own == [next EXCEPT !.file = made']
    <2>1. /\ own \in Locals /\ own.file = made'
          /\ own.at = next.at /\ own.row = next.row
          /\ own.previous = next.previous /\ own.version = next.version
      BY <1>1 DEF Locals
    <2>2. call' = [call EXCEPT ![c] = own]
      BY DEF Stores
    <2> HIDE DEF own
    <2> QED
      BY <2>1, <2>2
  <1>3. rows' = rows
    BY DEF Stores
  <1>4. /\ call'[c] = locals
        /\ \A d \in Calls \ {c} : call'[d] = call[d]
        /\ call' \in [Calls -> Locals]
    BY <1>2, <1>3, FilesTyped
  <1>5. TypeOK'
    BY <1>1, <1>3, <1>4 DEF IInv, TypeOK, Locals, Steps
  <1>6. FileKept'
    BY <1>1, <1>3 DEF IInv, FileKept
  <1>7. locals.previous \in 0 .. made
    BY <1>1, <1>2
  <1>8. OneOwner'
    <2>1. Distinct'
      BY <1>3 DEF IInv, OneOwner, Distinct
    <2>2. ~Named(made')
      BY <1>1
    <2>3. Unnamed'
      BY <1>1, <1>2, <1>3, <1>4, <2>2 DEF IInv, OneOwner, Unnamed, Named, Holds
    <2>4. Apart'
      <3> SUFFICES ASSUME NEW d \in Calls, NEW e \in Calls, Holds(d)'
                   PROVE  /\ Holds(e)' /\ call'[e].file = call'[d].file => e = d
                          /\ call'[e].previous # call'[d].file
        BY DEF Apart
      <3>1. CASE d = c
        BY <3>1, <1>1, <1>2, <1>4, <1>7 DEF Holds
      <3>2. CASE d # c /\ e = c
        BY <3>2, <1>1, <1>2, <1>4, <2>2 DEF IInv, OneOwner, Unnamed, Holds
      <3>3. CASE d # c /\ e # c
        BY <3>3, <1>4 DEF IInv, OneOwner, Apart, Holds
      <3> QED
        BY <3>1, <3>2, <3>3
    <2> QED
      BY <2>1, <2>3, <2>4 DEF OneOwner
  <1>9. Superseded'
    <2>1. Prepared(locals)'
      <3>1. locals.at \in {"find", "replace"} /\ (locals.at = "replace" => Replacing(next))
        BY <1>2
      <3>2. Replacing(next) => Replacing(locals)'
        BY <1>2, <1>3 DEF Replacing
      <3>3. locals.previous \in 0 .. made'
        BY <1>1, <1>7
      <3> QED
        BY <3>1, <3>2, <3>3 DEF Prepared
    <2>2. ASSUME NEW d \in Calls \ {c} PROVE Prepared(call[d])'
      BY <1>1, <1>3, <1>4 DEF IInv, Superseded, Prepared, Replacing, Deciding, Named
    <2> QED
      BY <1>4, <2>1, <2>2 DEF Superseded
  <1> QED
    BY <1>5, <1>6, <1>8, <1>9 DEF IInv

\* A request that begins.
LEMMA NoCallTyped ==
    ASSUME ReviewAssumption
    PROVE  NoCall \in Locals /\ NoCall.at = "idle" /\ NoCall.previous = 0
  BY DEF ReviewAssumption, NoCall, Locals, Steps, Decisions

LEMMA UploadStep ==
    ASSUME IInv, ReviewAssumption, NEW c \in Calls, Upload(c)
    PROVE  IInv'
  <1> DEFINE next == [NoCall EXCEPT !.at = "find"]
  <1>1. next \in Locals /\ next.at = "find" /\ next.previous = 0
    BY NoCallTyped DEF Locals, Steps
  <1>2. Stores(c, next)
    BY DEF Upload
  <1> HIDE DEF next
  <1> QED
    BY <1>1, <1>2, StoresStep

LEMMA ReviseStep ==
    ASSUME IInv, ReviewAssumption, NEW c \in Calls, NEW r \in DOMAIN rows, Revise(c, r)
    PROVE  IInv'
  <1> DEFINE next == [NoCall EXCEPT !.at = "replace", !.row = r, !.previous = rows[r].file,
                                    !.version = rows[r].version + 1]
  <1>1. r \in Nat /\ rows[r].file \in 0 .. MaxFiles /\ rows[r].version \in Nat
    BY RowsTyped DEF IInv, Row, ReviewAssumption
  <1>2. rows[r].version + 1 \in Nat /\ rows[r].version + 1 # 0
    BY <1>1
  <1>3. /\ next \in Locals /\ next.at = "replace" /\ next.row = r
        /\ next.version = rows[r].version + 1 /\ next.previous = rows[r].file
    <2>1. NoCall \in Locals
      BY NoCallTyped
    <2> QED
      BY <1>1, <1>2, <2>1 DEF Locals, Steps
  <1>4. Named(rows[r].file) /\ \A q \in DOMAIN rows : rows[q].file = rows[r].file => q = r
    BY DEF IInv, OneOwner, Distinct, Named
  <1>5. Stores(c, next)
    BY DEF Revise
  <1> HIDE DEF next
  <1>6. Named(next.previous) /\ Replacing(next)
    BY <1>2, <1>3, <1>4 DEF Replacing
  <1> QED
    BY <1>3, <1>5, <1>6, StoresStep

-----------------------------------------------------------------------------
(* Reading.                                                                 *)

\* A request ends, or fails, without a word to anyone.
LEMMA EndsStep ==
    ASSUME IInv, ReviewAssumption, NEW c \in Calls, Ends(c), UNCHANGED <<rows, stored, made>>
    PROVE  IInv'
  BY NoCallTyped, CallMoves DEF Ends

\* A row that may be replaced is read with the file it names.
LEMMA FindSlotStep ==
    ASSUME IInv, ReviewAssumption, NEW c \in Calls, FindSlot(c)
    PROVE  IInv'
  <1>1. call[c] \in Locals /\ Holds(c) /\ UNCHANGED <<rows, stored, made>>
    BY FilesTyped DEF FindSlot, At, Holds
  <1>2. ASSUME NEW step \in {"insert", "discard"}, Goes(c, step) PROVE IInv'
    <2> DEFINE locals == [call[c] EXCEPT !.at = step]
    <2>1. locals \in Locals /\ locals.at = step /\ locals.file = call[c].file /\ locals.previous = call[c].previous
      BY <1>1 DEF Locals, Steps
    <2>2. call' = [call EXCEPT ![c] = locals]
      BY <1>2 DEF Goes
    <2> HIDE DEF locals
    <2> QED
      BY <1>1, <2>1, <2>2, CallMoves
  <1>3. ASSUME NEW r \in DOMAIN rows,
               call' = [call EXCEPT ![c].at = "replace", ![c].row = r, ![c].previous = rows[r].file,
                                    ![c].version = rows[r].version + 1]
        PROVE  IInv'
    <2> DEFINE locals == [call[c] EXCEPT !.at = "replace", !.row = r, !.previous = rows[r].file,
                                         !.version = rows[r].version + 1]
    <2>1. r \in Nat /\ rows[r].file \in 0 .. MaxFiles /\ rows[r].version \in Nat
      BY RowsTyped DEF IInv, Row, ReviewAssumption
    <2>2. rows[r].version + 1 \in Nat /\ rows[r].version + 1 # 0
      BY <2>1
    <2>3. /\ locals \in Locals /\ locals.at = "replace" /\ locals.file = call[c].file
          /\ locals.previous = rows[r].file /\ locals.row = r /\ locals.version = rows[r].version + 1
      BY <1>1, <2>1, <2>2 DEF Locals, Steps
    <2>4. call' = [call EXCEPT ![c] = locals]
      BY <1>3
    <2> HIDE DEF locals
    <2>5. Named(locals.previous) /\ Replacing(locals)
      BY <2>2, <2>3 DEF IInv, OneOwner, Distinct, Named, Replacing
    <2> QED
      BY <1>1, <2>3, <2>4, <2>5, CallMoves
  <1> QED
    BY <1>2, <1>3 DEF FindSlot

LEMMA ReadForStatusStep ==
    ASSUME IInv, ReviewAssumption, NEW c \in Calls, NEW r \in DOMAIN rows,
           NEW status \in Decisions \cup {"in_review"}, ReadForStatus(c, r, status)
    PROVE  IInv'
  <1> DEFINE locals == [call[c] EXCEPT !.at = "status", !.row = r, !.status = status]
  <1>1. call[c] \in Locals /\ r \in Nat /\ status # "none"
    BY FilesTyped, RowsTyped DEF IInv, Decisions
  <1>2. /\ locals \in Locals /\ locals.at = "status" /\ locals.row = r /\ locals.status = status
        /\ locals.previous = call[c].previous
    BY <1>1 DEF Locals, Steps
  <1>3. call' = [call EXCEPT ![c] = locals] /\ UNCHANGED <<rows, stored, made>>
    BY DEF ReadForStatus
  <1> HIDE DEF locals
  <1>4. Deciding(locals)
    BY <1>1, <1>2 DEF Deciding
  <1> QED
    BY <1>2, <1>3, <1>4, CallMoves

-----------------------------------------------------------------------------
(* Writing.                                                                 *)

\* The request's own file goes, which nobody else knows.
LEMMA DiscardStep ==
    ASSUME IInv, ReviewAssumption, NEW c \in Calls, Discard(c)
    PROVE  IInv'
  <1>1. /\ Holds(c) /\ stored' = stored \ {call[c].file} /\ rows' = rows /\ made' = made
        /\ call' = [call EXCEPT ![c] = NoCall]
    BY DEF Discard, At, Holds, Ends
  <1>2. /\ call'[c] = NoCall /\ call' \in [Calls -> Locals]
        /\ \A d \in Calls \ {c} : call'[d] = call[d]
    BY <1>1, FilesTyped, NoCallTyped
  <1>3. TypeOK'
    BY <1>1, <1>2 DEF IInv, TypeOK, Locals, Steps
  <1>4. FileKept'
    BY <1>1 DEF IInv, FileKept, OneOwner, Unnamed, Named
  <1>5. \A d \in Calls : /\ Holds(d)' => Holds(d) /\ d # c /\ call'[d] = call[d]
                         /\ call'[d].previous \in {call[d].previous, 0}
    BY <1>2, NoCallTyped DEF Holds
  <1>6. OneOwner'
    <2>1. \A d \in Calls : Holds(d) => call[d].file # 0
      BY FilesTyped
    <2>2. Distinct'
      BY <1>1 DEF IInv, OneOwner, Distinct
    <2>3. Unnamed'
      BY <1>1, <1>5 DEF IInv, OneOwner, Unnamed, Apart, Named
    <2>4. Apart'
      BY <1>5, <2>1 DEF IInv, OneOwner, Apart
    <2> QED
      BY <2>2, <2>3, <2>4 DEF OneOwner
  <1>7. Superseded'
    <2>1. Prepared(NoCall)'
      BY <1>1, NoCallTyped, FilesTyped DEF Prepared
    <2>2. ASSUME NEW d \in Calls \ {c} PROVE Prepared(call[d])'
      BY <1>1, <1>2 DEF IInv, Superseded, Prepared, Replacing, Deciding, Named
    <2> QED
      BY <1>2, <2>1, <2>2 DEF Superseded
  <1> QED
    BY <1>3, <1>4, <1>6, <1>7 DEF IInv

\* Two requests hold two files: the row that is added has a file of its own.
LEMMA InsertSubmissionStep ==
    ASSUME IInv, ReviewAssumption, NEW c \in Calls, InsertSubmission(c)
    PROVE  IInv'
  <1> DEFINE row == [status |-> "draft", version |-> 1, file |-> call[c].file]
  <1>1. /\ Holds(c) /\ rows' = Append(rows, row) /\ Len(rows) < MaxRows
        /\ UNCHANGED <<stored, made>> /\ call' = [call EXCEPT ![c] = NoCall]
    BY DEF InsertSubmission, At, Holds, Ends
  <1>2. row \in Row /\ row.file = call[c].file
    BY <1>1, FilesTyped DEF Row, Status, Open, ReviewAssumption
  <1> HIDE DEF row
  <1>3. /\ rows' \in Seq(Row) /\ Len(rows') = Len(rows) + 1 /\ DOMAIN rows' = 1 .. Len(rows) + 1
        /\ DOMAIN rows = 1 .. Len(rows) /\ Len(rows) \in Nat
        /\ \A r \in DOMAIN rows : rows'[r] = rows[r]
        /\ rows'[Len(rows) + 1] = row
    <2>1. rows \in Seq(Row) /\ DOMAIN rows = 1 .. Len(rows) /\ Len(rows) \in Nat
      BY RowsTyped DEF IInv
    <2>2. /\ rows' \in Seq(Row) /\ Len(rows') = Len(rows) + 1 /\ rows'[Len(rows) + 1] = row
          /\ \A r \in 1 .. Len(rows) : rows'[r] = rows[r]
      BY <1>1, <1>2, <2>1, AppendProperties
    <2> QED
      BY <2>1, <2>2, LenProperties
  <1>4. /\ call'[c] = NoCall /\ call' \in [Calls -> Locals]
        /\ \A d \in Calls \ {c} : call'[d] = call[d]
    BY <1>1, FilesTyped, NoCallTyped
  <1>5. TypeOK'
    BY <1>1, <1>3, <1>4, FilesTyped DEF TypeOK, Locals, Steps, Row, ReviewAssumption
  <1>6. call[c].file \in stored /\ ~Named(call[c].file)
    BY <1>1 DEF IInv, OneOwner, Unnamed
  <1>7. /\ DOMAIN rows \subseteq DOMAIN rows'
        /\ \A r \in DOMAIN rows' : \/ r \in DOMAIN rows /\ rows'[r] = rows[r]
                                   \/ r = Len(rows) + 1 /\ r \notin DOMAIN rows /\ rows'[r] = row
    BY <1>3
  <1>8. FileKept'
    BY <1>1, <1>2, <1>6, <1>7 DEF IInv, FileKept
  <1>9. \A f : Named(f)' => Named(f) \/ f = call[c].file
    BY <1>2, <1>7 DEF Named
  <1>10. \A d \in Calls : /\ Holds(d)' => Holds(d) /\ d # c /\ call'[d] = call[d]
                          /\ call'[d].previous \in {call[d].previous, 0}
    BY <1>4, NoCallTyped DEF Holds
  <1>11. OneOwner'
    <2>1. Distinct'
      BY <1>2, <1>6, <1>7 DEF IInv, OneOwner, Distinct, Named
    <2>2. Unnamed'
      <3> SUFFICES ASSUME NEW d \in Calls, Holds(d)' PROVE (call[d].file \in stored /\ ~Named(call[d].file))'
        BY DEF Unnamed
      <3>1. Holds(d) /\ d # c /\ call'[d].file = call[d].file /\ call[d].file # call[c].file
        BY <1>1, <1>10 DEF IInv, OneOwner, Apart
      <3>2. call[d].file \in stored /\ ~Named(call[d].file)
        BY <3>1 DEF IInv, OneOwner, Unnamed
      <3> QED
        BY <1>1, <1>2, <1>7, <3>1, <3>2 DEF Named
    <2>3. \A d \in Calls : Holds(d) => call[d].file # 0
      BY FilesTyped
    <2>4. Apart'
      BY <1>10, <2>3 DEF IInv, OneOwner, Apart
    <2> QED
      BY <2>1, <2>2, <2>4 DEF OneOwner
  <1>12. Superseded'
    <2>1. Prepared(NoCall)'
      BY <1>1, NoCallTyped, FilesTyped DEF Prepared
    <2>2. ASSUME NEW d \in Calls \ {c} PROVE Prepared(call[d])'
      <3>1. Prepared(call[d]) /\ call'[d] = call[d] /\ call[d].previous # call[c].file
        BY <1>1, <1>4 DEF IInv, OneOwner, Apart, Superseded
      <3>2. Replacing(call[d]) => Replacing(call[d])'
        BY <1>2, <1>7, <3>1 DEF Replacing
      <3>3. ~Named(call[d].previous) => ~Named(call[d].previous)'
        BY <1>2, <1>7, <3>1 DEF Named
      <3>4. Deciding(call[d]) => Deciding(call[d])'
        BY <1>7, <3>1 DEF Deciding
      <3> QED
        BY <1>1, <3>1, <3>2, <3>3, <3>4 DEF Prepared
    <2> QED
      BY <1>4, <2>1, <2>2 DEF Superseded
  <1> QED
    BY <1>5, <1>8, <1>11, <1>12 DEF IInv

\* The row leaves the file it named for the request's own.
LEMMA UpdateSubmissionFileStep ==
    ASSUME IInv, ReviewAssumption, NEW c \in Calls, UpdateSubmissionFile(c)
    PROVE  IInv'
  <1> DEFINE row == [status |-> "draft", version |-> call[c].version, file |-> call[c].file]
             locals == [call[c] EXCEPT !.at = "cleanup"]
             w == call[c].row
  <1>1. /\ Holds(c) /\ UNCHANGED <<stored, made>>
        /\ rows' = [rows EXCEPT ![w] = row] /\ call' = [call EXCEPT ![c] = locals]
    BY DEF UpdateSubmissionFile, At, Holds, Goes
  <1>2. Replacing(call[c]) /\ call[c] \in Locals /\ call[c].previous \in 0 .. made /\ call[c].file \in 1 .. made
    BY <1>1, FilesTyped DEF IInv, Superseded, Prepared, UpdateSubmissionFile, At
  <1>3. row \in Row /\ row.file = call[c].file /\ w \in DOMAIN rows
    BY <1>2, FilesTyped DEF Row, Status, Open, ReviewAssumption, Replacing, Locals
  <1>4. locals \in Locals /\ locals.at = "cleanup" /\ locals.previous = call[c].previous
    BY <1>2 DEF Locals, Steps
  <1> HIDE DEF row, locals, w
  <1>5. /\ rows' \in Seq(Row) /\ Len(rows') = Len(rows) /\ DOMAIN rows' = DOMAIN rows
        /\ rows'[w] = row /\ \A q \in DOMAIN rows \ {w} : rows'[q] = rows[q]
    BY <1>1, <1>3, RowWritten DEF IInv
  <1>6. /\ call'[c] = locals /\ call' \in [Calls -> Locals]
        /\ \A d \in Calls \ {c} : call'[d] = call[d]
    BY <1>1, <1>4, FilesTyped
  <1>7. TypeOK'
    BY <1>1, <1>5, <1>6 DEF IInv, TypeOK, Locals, Steps, Row
  <1>8. call[c].file \in stored /\ ~Named(call[c].file)
    BY <1>1 DEF IInv, OneOwner, Unnamed
  <1>9. FileKept'
    BY <1>1, <1>3, <1>5, <1>8 DEF IInv, FileKept
  <1>10. \A f : Named(f)' => Named(f) \/ f = call[c].file
    BY <1>3, <1>5 DEF Named
  <1>11. \A d \in Calls : /\ Holds(d)' => Holds(d) /\ d # c /\ call'[d] = call[d]
                          /\ call'[d].previous = call[d].previous
    BY <1>4, <1>6 DEF Holds
  <1>12. OneOwner'
    <2>1. Distinct'
      BY <1>3, <1>5, <1>8 DEF IInv, OneOwner, Distinct, Named
    <2>2. Unnamed'
      <3> SUFFICES ASSUME NEW d \in Calls, Holds(d)' PROVE (call[d].file \in stored /\ ~Named(call[d].file))'
        BY DEF Unnamed
      <3>1. Holds(d) /\ d # c /\ call'[d].file = call[d].file /\ call[d].file # call[c].file
        BY <1>1, <1>11 DEF IInv, OneOwner, Apart
      <3>2. call[d].file \in stored /\ ~Named(call[d].file)
        BY <3>1 DEF IInv, OneOwner, Unnamed
      <3> QED
        BY <1>1, <1>3, <1>5, <3>1, <3>2 DEF Named
    <2>3. Apart'
      BY <1>11 DEF IInv, OneOwner, Apart
    <2> QED
      BY <2>1, <2>2, <2>3 DEF OneOwner
  <1>13. Superseded'
    <2>1. Prepared(call[c])'
      <3>1. call[c].previous # call[c].file
        BY <1>1 DEF IInv, OneOwner, Apart
      <3>2. \A q \in DOMAIN rows \ {w} : rows[q].file # call[c].previous
        BY <1>2 DEF Replacing, w
      <3>3. ~Named(call[c].previous)'
        BY <1>3, <1>4, <1>5, <1>6, <3>1, <3>2 DEF Named
      <3> QED
        BY <1>1, <1>2, <1>4, <1>6, <3>3 DEF Prepared
    <2>2. ASSUME NEW d \in Calls \ {c} PROVE Prepared(call[d])'
      <3>1. Prepared(call[d]) /\ call'[d] = call[d] /\ call[d].previous # call[c].file
        BY <1>1, <1>6 DEF IInv, OneOwner, Apart, Superseded
      <3>2. Replacing(call[d]) => Replacing(call[d])'
        BY <1>3, <1>5, <3>1 DEF Replacing
      <3>3. ~Named(call[d].previous) => ~Named(call[d].previous)'
        BY <1>3, <1>5, <3>1 DEF Named
      <3>4. Deciding(call[d]) => Deciding(call[d])'
        BY <1>5, <3>1 DEF Deciding
      <3> QED
        BY <1>1, <3>1, <3>2, <3>3, <3>4 DEF Prepared
    <2> QED
      BY <2>1, <2>2 DEF Superseded
  <1> QED
    BY <1>7, <1>9, <1>12, <1>13 DEF IInv

\* What is deleted has no owner any more.
LEMMA DeletePreviousStep ==
    ASSUME IInv, ReviewAssumption, NEW c \in Calls, DeletePrevious(c)
    PROVE  IInv'
  <1>1. /\ stored' \in {stored, stored \ {call[c].previous}} /\ rows' = rows /\ made' = made
        /\ call' = [call EXCEPT ![c] = NoCall] /\ ~Named(call[c].previous)
    BY DEF DeletePrevious, At, Ends, IInv, Superseded, Prepared
  <1>2. /\ call'[c] = NoCall /\ call' \in [Calls -> Locals]
        /\ \A d \in Calls \ {c} : call'[d] = call[d]
    BY <1>1, FilesTyped, NoCallTyped
  <1>3. TypeOK'
    BY <1>1, <1>2 DEF IInv, TypeOK, Locals, Steps
  <1>4. FileKept'
    BY <1>1 DEF IInv, FileKept, Named
  <1>5. \A d \in Calls : /\ Holds(d)' => Holds(d) /\ d # c /\ call'[d] = call[d]
                         /\ call'[d].previous \in {call[d].previous, 0}
    BY <1>2, NoCallTyped DEF Holds
  <1>6. OneOwner'
    <2>1. \A d \in Calls : Holds(d) => call[d].file # 0 /\ call[d].file # call[c].previous
      BY FilesTyped DEF IInv, OneOwner, Apart
    <2>2. Distinct'
      BY <1>1 DEF IInv, OneOwner, Distinct
    <2>3. Unnamed'
      BY <1>1, <1>5, <2>1 DEF IInv, OneOwner, Unnamed, Named
    <2>4. Apart'
      BY <1>5, <2>1 DEF IInv, OneOwner, Apart
    <2> QED
      BY <2>2, <2>3, <2>4 DEF OneOwner
  <1>7. Superseded'
    <2>1. Prepared(NoCall)'
      BY <1>1, NoCallTyped, FilesTyped DEF Prepared
    <2>2. ASSUME NEW d \in Calls \ {c} PROVE Prepared(call[d])'
      BY <1>1, <1>2 DEF IInv, Superseded, Prepared, Replacing, Deciding, Named
    <2> QED
      BY <1>2, <2>1, <2>2 DEF Superseded
  <1> QED
    BY <1>3, <1>4, <1>6, <1>7 DEF IInv

\* A status is written over whatever the row says, and its file stays.
LEMMA UpdateStatusStep ==
    ASSUME IInv, ReviewAssumption, NEW c \in Calls, UpdateStatus(c)
    PROVE  IInv'
  <1> DEFINE w == call[c].row
             row == [rows[w] EXCEPT !.status = call[c].status]
  <1>1. /\ UNCHANGED <<stored, made>> /\ call' = [call EXCEPT ![c] = NoCall]
        /\ rows' = [rows EXCEPT ![w] = row]
    BY DEF UpdateStatus, Ends
  <1>2. w \in DOMAIN rows /\ call[c].status \in Status
    BY FilesTyped DEF IInv, Superseded, Prepared, Deciding, UpdateStatus, At, Locals, Status, Open, Locked, Decisions
  <1>3. row \in Row /\ row.file = rows[w].file
    BY <1>2, RowsTyped DEF IInv, Row
  <1> HIDE DEF row, w
  <1>4. /\ rows' \in Seq(Row) /\ Len(rows') = Len(rows) /\ DOMAIN rows' = DOMAIN rows
        /\ rows'[w] = row /\ \A q \in DOMAIN rows \ {w} : rows'[q] = rows[q]
    BY <1>1, <1>2, <1>3, RowWritten DEF IInv
  <1>5. \A q \in DOMAIN rows : rows'[q].file = rows[q].file
    BY <1>3, <1>4
  <1>6. /\ call'[c] = NoCall /\ call' \in [Calls -> Locals]
        /\ \A d \in Calls \ {c} : call'[d] = call[d]
    BY <1>1, FilesTyped, NoCallTyped
  <1>7. TypeOK'
    BY <1>1, <1>4, <1>6 DEF IInv, TypeOK, Locals, Steps, Row
  <1>8. FileKept'
    BY <1>1, <1>4, <1>5 DEF IInv, FileKept
  <1>9. \A d \in Calls : /\ Holds(d)' => Holds(d) /\ d # c /\ call'[d] = call[d]
                         /\ call'[d].previous \in {call[d].previous, 0}
    BY <1>6, NoCallTyped DEF Holds
  <1>10. OneOwner'
    <2>1. \A d \in Calls : Holds(d) => call[d].file # 0
      BY FilesTyped
    <2>2. Distinct'
      BY <1>4, <1>5 DEF IInv, OneOwner, Distinct
    <2>3. Unnamed'
      BY <1>1, <1>4, <1>5, <1>9 DEF IInv, OneOwner, Unnamed, Named
    <2>4. Apart'
      BY <1>9, <2>1 DEF IInv, OneOwner, Apart
    <2> QED
      BY <2>2, <2>3, <2>4 DEF OneOwner
  <1>11. Superseded'
    <2>1. Prepared(NoCall)'
      BY <1>1, NoCallTyped, FilesTyped DEF Prepared
    <2>2. ASSUME NEW d \in Calls \ {c} PROVE Prepared(call[d])'
      BY <1>1, <1>4, <1>5, <1>6 DEF IInv, Superseded, Prepared, Replacing, Deciding, Named
    <2> QED
      BY <1>6, <2>1, <2>2 DEF Superseded
  <1> QED
    BY <1>7, <1>8, <1>10, <1>11 DEF IInv

-----------------------------------------------------------------------------
(* The theorems.                                                            *)

\* No step disturbs the invariant.
LEMMA Preserved == ReviewAssumption /\ IInv /\ [Next]_vars => IInv'
  <1> SUFFICES ASSUME ReviewAssumption, IInv, [Next]_vars PROVE IInv'
    OBVIOUS
  <1>1. CASE UNCHANGED vars
    BY <1>1 DEF vars, IInv, TypeOK, FileKept, OneOwner, Distinct, Unnamed, Apart, Superseded, Prepared,
                Holds, Named, Replacing, Deciding
  <1>2. ASSUME NEW c \in Calls,
               \/ Upload(c) \/ FindSlot(c) \/ Discard(c) \/ InsertSubmission(c)
               \/ UpdateSubmissionFile(c) \/ DeletePrevious(c) \/ UpdateStatus(c) \/ CallStops(c)
        PROVE  IInv'
    BY <1>2, UploadStep, FindSlotStep, DiscardStep, InsertSubmissionStep, UpdateSubmissionFileStep,
       DeletePreviousStep, UpdateStatusStep, EndsStep DEF CallStops
  <1>3. ASSUME NEW c \in Calls, NEW r \in DOMAIN rows,
               Revise(c, r) \/ \E status \in Decisions \cup {"in_review"} : ReadForStatus(c, r, status)
        PROVE  IInv'
    BY <1>3, ReviseStep, ReadForStatusStep
  <1> QED
    BY <1>1, <1>2, <1>3 DEF Next

LEMMA Invariant == ReviewAssumption => (Spec => []IInv)
  <1> SUFFICES ASSUME ReviewAssumption PROVE Spec => []IInv
    OBVIOUS
  <1>1. Init => IInv
    BY Initially
  <1>2. IInv /\ [Next]_vars => IInv'
    BY Preserved
  <1> QED
    BY <1>1, <1>2, PTL DEF Spec

\* Every reachable state of the review is well typed, for any bounds on rows and files.
THEOREM TypeCorrect == ReviewAssumption => (Spec => []TypeOK)
  <1>1. IInv => TypeOK
    BY DEF IInv
  <1> QED
    BY <1>1, Invariant, PTL

(* However many requests replace drafts at once, and wherever each of them  *)
(* stops, the file a row names can be read (upload, revise, storeFile,      *)
(* updateSubmissionFile, deleteFile).                                       *)
THEOREM NamedFileKept == ReviewAssumption => (Spec => []FileKept)
  <1>1. IInv => FileKept
    BY DEF IInv
  <1> QED
    BY <1>1, Invariant, PTL
=============================================================================
