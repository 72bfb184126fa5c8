-------------------- MODULE CommissionSettlement_proofs --------------------
(***************************************************************************)
(* Theorems about CommissionSettlement for every set of lines, batches,     *)
(* request ids and accounts and every number of concurrent calls.           *)
(***************************************************************************)
EXTENDS CommissionSettlementBooks, FiniteSetTheorems, SequenceTheorems, WellFoundedInduction, TLAPS

(* The shape of the tables and of the calls.  It is what TypeOK says, and   *)
(* that a call has previewed finitely many lines: only then is the total of *)
(* what it previewed a number (TotalsAreNumbers, below).                    *)

Candidate == [line : Lines, ready : BOOLEAN, remaining : Nat]
Candidates == {S \in SUBSET Candidate : IsFiniteSet(S)}
Totals == {0} \cup {Total(S) : S \in Candidates}
PolicyProof == [lines : SUBSET Lines, total : Totals]
Selected == [line : Lines, ready : BOOLEAN, proof : PolicyProof]
Stored == [line : Lines \cup {NoLine}, revision : Nat, action : Action, proof : PolicyProof,
           destination : Accounts \cup {NoAccount}]

RequestRow == [state : {"absent", "pending", "confirmed"}, command : Stored]
ItemRow == [state : {"absent", "pending", "skipped", "failed", "confirmed"},
            request : Requests \cup {NoRequest}]
DecisionRow == [state : {"undecided", "pending", "succeeded"}, command : Stored, amount : Nat]

Locals == [pc : {"idle", "insert", "list", "preview", "items", "skip", "quote", "select",
                 "terms", "save", "read", "send", "confirm", "report", "failed"},
           batch : Batches \cup {NoBatch},
           lines : SUBSET Lines,
           unseen : SUBSET Lines,
           seen : Candidates,
           todo : SUBSET Selected,
           request : Requests \cup {NoRequest},
           command : Stored]

Shape ==
    /\ revision \in [Lines -> Nat]
    /\ earned \in [Lines -> Nat]
    /\ paid \in [Lines -> Nat]
    /\ held \in [Lines -> BOOLEAN]
    /\ decision \in [Requests -> DecisionRow]
    /\ account \in Accounts \cup {NoAccount}
    /\ request \in [Requests -> RequestRow]
    /\ item \in [Batches -> [Lines -> ItemRow]]
    /\ ctx \in [Calls -> Locals]

-----------------------------------------------------------------------------
(* The inductive invariant: what the properties say of the tables, and for  *)
(* every call what its position says of the rows it is about.               *)

\* A proof covers the line it comes with and reaches that line's minimum.
Covers(c) == c.proof.lines # {} => c.line \in c.proof.lines /\ c.proof.total >= Minimum[c.line]

OnRequest == {"select", "terms", "save", "read", "send", "confirm", "report"}
OnItem == OnRequest \cup {"skip", "quote", "failed"}
InBatch == {"insert", "list", "preview", "items", "skip", "quote"}

\* The request a call is at, by how far the call has got.
AtRequest(x) ==
    /\ x.pc \in OnRequest \cup {"quote"} => x.request \in Requests
    /\ x.pc \in {"read", "send"} => request[x.request].state # "absent"
    /\ x.pc = "send" => x.command = request[x.request].command
    /\ x.pc = "confirm" => Decided(x.request)
    /\ x.pc = "report" => request[x.request].state = "confirmed"
    /\ x.pc \in {"select", "terms", "save"} => x.command.line \in Lines

\* The item a call of a batch is at: it carries the call's request, and the request its line.
AtItem(x) ==
    /\ x.pc \in InBatch => x.batch # NoBatch
    /\ x.batch # NoBatch /\ x.pc \in OnItem =>
        /\ x.command.line \in Lines
        /\ item[x.batch][x.command.line].state # "absent"
        /\ item[x.batch][x.command.line].request = x.request
    /\ x.batch # NoBatch /\ x.pc \in {"read", "send", "confirm", "report"} =>
        request[x.request].command.line = x.command.line

Carries(x) == Covers(x.command) /\ \A c \in x.todo : Covers(c)

Flight(x) == Carries(x) /\ AtRequest(x) /\ AtItem(x)

InFlight == \A w \in Calls : Flight(ctx[w])

\* Commerce is never sent a command about no line.
StoredNamesALine ==
    \A r \in Requests : request[r].state # "absent" => request[r].command.line \in Lines

IInv ==
    /\ Shape
    /\ InFlight
    /\ StoredNamesALine
    /\ DecidedIsRecorded
    /\ ConfirmedWasDecided
    /\ RequestsNotShared
    /\ ProofCoversItsLine

LEMMA EmptyCommand ==
    /\ NoCommand \in Stored /\ Covers(NoCommand)
    /\ \A l \in Lines : [NoCommand EXCEPT !.line = l] \in Stored
    /\ \A l \in Lines \cup {NoLine} :
        LET c == [NoCommand EXCEPT !.line = l] IN c \in Stored /\ c.line = l /\ Covers(c)
  BY DEF NoCommand, NoProof, Stored, PolicyProof, Totals, Covers, Action

LEMMA NothingSeen == {} \in Candidates
  BY FS_EmptySet DEF Candidates

LEMMA IdleCall ==
    /\ Idle \in Locals /\ Idle.pc = "idle" /\ Idle.todo = {} /\ Idle.command = NoCommand
    /\ Idle.batch = NoBatch
    /\ Flight(Idle)
  BY EmptyCommand, NothingSeen
     DEF Idle, Locals, Flight, Carries, AtRequest, AtItem, OnRequest, OnItem, InBatch

\* The tables are empty and nobody calls.
LEMMA Initially == Init => IInv
  <1> SUFFICES ASSUME Init PROVE IInv
    OBVIOUS
  <1> USE DEF Init, CommerceInit
  <1>1. Shape
    BY IdleCall, EmptyCommand
       DEF Shape, Undecided, DecisionRow, NoRow, RequestRow, NoItem, ItemRow
  <1>2. \A r \in Requests : decision[r].state = "undecided" /\ request[r].state = "absent"
    BY DEF Undecided, NoRow
  <1>3. \A b \in Batches, l \in Lines :
            item[b][l].state = "absent" /\ item[b][l].request = NoRequest
    BY DEF NoItem
  <1>4. InFlight
    <2>1. \A w \in Calls : ctx[w] = Idle
      OBVIOUS
    <2> QED
      BY <2>1, IdleCall DEF InFlight
  <1>5. DecidedIsRecorded /\ ConfirmedWasDecided /\ RequestsNotShared
    BY <1>2, <1>3 DEF DecidedIsRecorded, ConfirmedWasDecided, RequestsNotShared, Decided
  <1>6. ProofCoversItsLine
    BY DEF ProofCoversItsLine, NoRow, NoCommand, NoProof
  <1>7. StoredNamesALine
    BY <1>2 DEF StoredNamesALine
  <1> QED
    BY <1>1, <1>4, <1>5, <1>6, <1>7 DEF IInv
-----------------------------------------------------------------------------
(* The tables only grow, and so a step of one call leaves what is known of  *)
(* every other call.                                                        *)

RequestsGrow ==
    \A r \in Requests : request[r].state # "absent" =>
        /\ request'[r].state # "absent"
        /\ request'[r].command = request[r].command
        /\ request[r].state = "confirmed" => request'[r].state = "confirmed"

ItemsGrow ==
    \A b \in Batches, l \in Lines : item[b][l].state # "absent" =>
        /\ item'[b][l].state # "absent"
        /\ item'[b][l].request = item[b][l].request
        /\ item[b][l].state = "confirmed" => item'[b][l].state = "confirmed"

DecisionsGrow == \A r \in Requests : Decided(r) => Decided(r)'

Grows == RequestsGrow /\ ItemsGrow /\ DecisionsGrow

\* What every step does.
Kept == IInv' /\ Grows

LEMMA FlightKept ==
    ASSUME IInv, Grows, NEW x \in Locals, Flight(x)
    PROVE  Flight(x)'
  <1>1. Carries(x)'
    BY DEF Flight, Carries, Covers
  <1>2. AtRequest(x)'
    BY DEF Flight, AtRequest, Grows, RequestsGrow, DecisionsGrow, OnRequest
  <1>3. AtItem(x)'
    <2>1. x.batch # NoBatch => x.batch \in Batches
      BY DEF Locals
    <2>2. x.pc \in {"read", "send", "confirm", "report"} => request[x.request].state # "absent"
      BY DEF Flight, AtRequest, IInv, DecidedIsRecorded, OnRequest
    <2> QED
      BY <2>1, <2>2
         DEF Flight, AtItem, AtRequest, Grows, RequestsGrow, ItemsGrow, OnRequest, OnItem, InBatch
  <1> QED
    BY <1>1, <1>2, <1>3 DEF Flight

LEMMA CallSet ==
    ASSUME IInv, Grows, NEW w \in Calls, NEW c \in Locals, ctx' = [ctx EXCEPT ![w] = c],
           Flight(c)'
    PROVE  ctx' \in [Calls -> Locals] /\ InFlight'
  <1>1. ctx' \in [Calls -> Locals]
    BY DEF IInv, Shape
  <1>2. InFlight'
    <2> SUFFICES ASSUME NEW v \in Calls, NEW x \in Locals, x = ctx'[v] PROVE Flight(x)'
      BY <1>1 DEF InFlight, Flight, Carries, Covers, AtRequest, AtItem
    <2>1. CASE v = w
      BY <2>1 DEF IInv, Shape
    <2>2. CASE v # w
      <3>1. x = ctx[v]
        BY <2>2 DEF IInv, Shape
      <3>2. Flight(x)
        BY <3>1 DEF IInv, InFlight
      <3> QED
        BY <3>2, FlightKept
    <2> QED
      BY <2>1, <2>2
  <1> QED
    BY <1>1, <1>2

\* A step that writes only its own call's variables, and perhaps the batch's row.
LEMMA CtxOnly ==
    ASSUME IInv, UNCHANGED <<request, item, commerce>>, account' \in Accounts \cup {NoAccount},
           NEW w \in Calls, NEW c \in Locals, ctx' = [ctx EXCEPT ![w] = c], Flight(c)
    PROVE  Kept
  <1> USE DEF commerce
  <1>1. Grows
    BY DEF Grows, RequestsGrow, ItemsGrow, DecisionsGrow, Decided
  <1>2. Flight(c)'
    BY <1>1, FlightKept
  <1>3. ctx' \in [Calls -> Locals] /\ InFlight'
    BY <1>1, <1>2, CallSet
  <1>4. Shape'
    BY <1>3 DEF IInv, Shape
  <1>5. (DecidedIsRecorded /\ ConfirmedWasDecided /\ RequestsNotShared /\ ProofCoversItsLine
            /\ StoredNamesALine)'
    BY DEF IInv, DecidedIsRecorded, ConfirmedWasDecided, RequestsNotShared, ProofCoversItsLine,
           Decided, StoredNamesALine
  <1> QED
    BY <1>1, <1>3, <1>4, <1>5 DEF IInv, Kept

LEMMA CallOf ==
    ASSUME IInv, NEW w \in Calls
    PROVE  ctx[w] \in Locals /\ Flight(ctx[w])
  BY DEF IInv, Shape, InFlight

\* The combined balance: a candidate's proof covers its line and reaches its minimum.
LEMMA PolicyCovers ==
    ASSUME NEW seen \in Candidates, NEW lines, NEW c \in Chosen(WithPolicy(seen), lines)
    PROVE  c \in Selected /\ Covers(c)
  <1>1. c \in WithPolicy(seen)
    BY DEF Chosen
  <1> DEFINE group == {d \in seen : d.ready}
             covered == {e.line : e \in group}
             total == Total(group)
  <1>2. PICK d \in seen : c = [line |-> d.line, ready |-> d.ready /\ Passes(d, group),
                              proof |-> ProofFor(d, group)]
    BY <1>1 DEF WithPolicy
  <1>3. d.line \in Lines /\ d.ready \in BOOLEAN /\ total \in Totals /\ covered \subseteq Lines
    <2>1. group \in Candidates
      BY FS_Subset DEF Candidates
    <2>2. seen \subseteq Candidate
      BY DEF Candidates
    <2> QED
      BY <2>1, <2>2 DEF Candidate, Totals
  <1>4. d.ready => d.line \in covered
    OBVIOUS
  <1>5. \/ ProofFor(d, group) = NoProof
        \/ d.ready /\ Reaches(d, group) /\ ProofFor(d, group) = [lines |-> covered, total |-> total]
    BY DEF ProofFor
  <1>6. Reaches(d, group) => total >= Minimum[d.line]
    BY Zenon DEF Reaches
  <1>7. (d.ready /\ Passes(d, group)) \in BOOLEAN
    OBVIOUS
  <1> HIDE DEF group, covered, total
  <1>8. ProofFor(d, group) \in PolicyProof
    BY <1>3, <1>5 DEF PolicyProof, NoProof, Totals
  <1>9. c \in Selected
    BY <1>2, <1>3, <1>7, <1>8 DEF Selected
  <1>10. Covers(c)
    BY <1>2, <1>4, <1>5, <1>6 DEF Covers, NoProof
  <1> QED
    BY <1>9, <1>10
-----------------------------------------------------------------------------
(* The steps that change nothing but their call.                            *)

LEMMA BeginStep ==
    ASSUME IInv, NEW w \in Calls, Begin(w)
    PROVE  Kept
  <1> USE CallsAssumption, SettingsAssumption, EmptyCommand, IdleCall
  <1>0. account \in Accounts \cup {NoAccount}
    BY DEF IInv, Shape
  <1>1. ASSUME NEW b \in Batches, NEW lines \in Selections, SelectBatch(w, b, lines)
        PROVE  Kept
    <2> DEFINE c == [Idle EXCEPT !.batch = b, !.lines = lines,
                        !.pc = IF batch[b].state = "absent" THEN "insert" ELSE "list"]
    <2>1. c \in Locals /\ Flight(c)
      BY DEF Idle, Locals, Flight, Carries, AtRequest, AtItem, OnRequest, OnItem, InBatch
    <2> QED
      BY <1>0, <1>1, <2>1, CtxOnly DEF SelectBatch
  <1>2. ASSUME NEW l \in Lines, NEW r \in Requests, NEW action \in PanelActions,
               NEW n \in 1 .. MaxRevision, Approve(w, l, r, action, n)
        PROVE  Kept
    <2> DEFINE d == [NoCommand EXCEPT !.line = l, !.action = action, !.revision = n]
               c == [Idle EXCEPT !.pc = "select", !.request = r, !.command = d]
    <2>1. d \in Stored /\ Covers(d) /\ d.line \in Lines
      <3>1. n \in Nat
        BY CommerceAssumption
      <3> QED
        BY <3>1 DEF NoCommand, NoProof, Stored, PolicyProof, Totals, Covers
    <2>2. c \in Locals /\ Flight(c)
      BY <2>1 DEF Idle, Locals, Flight, Carries, AtRequest, AtItem, OnRequest, OnItem, InBatch
    <2> QED
      BY <1>0, <1>2, <2>2, CtxOnly DEF Approve
  <1>3. ASSUME NEW r \in Requests, ReplayRequest(w, r)
        PROVE  Kept
    <2> DEFINE c == [Idle EXCEPT !.pc = "read", !.request = r]
    <2>1. c \in Locals /\ Flight(c)
      BY <1>3 DEF ReplayRequest, Idle, Locals, Flight, Carries, AtRequest, AtItem, OnRequest,
                  OnItem, InBatch
    <2> QED
      BY <1>0, <1>3, <2>1, CtxOnly DEF ReplayRequest
  <1> QED
    BY <1>1, <1>2, <1>3 DEF Begin

\* A call that ends, goes on, or goes to its outcome keeps what is known of it.
LEMMA Endings ==
    ASSUME IInv, NEW w \in Calls, UNCHANGED <<request, item, commerce>>,
           account' \in Accounts \cup {NoAccount}, Ends(w)
    PROVE  Kept
  BY IdleCall, CtxOnly DEF Ends

LEMMA OutcomeCall ==
    ASSUME IInv, NEW w \in Calls, NEW pc \in {"read", "confirm", "report", "failed"},
           ctx[w].pc \in OnRequest \cup {"quote"}, Outcome(w, pc)
    PROVE  \E c \in Locals :
            /\ ctx' = [ctx EXCEPT ![w] = c] /\ Carries(c) /\ c.pc = pc
            /\ c.request = ctx[w].request /\ c.batch = ctx[w].batch
            /\ c.command.line = ctx[w].command.line
  <1>1. ctx[w] \in Locals /\ Carries(ctx[w]) /\ ctx \in [Calls -> Locals]
    BY CallOf DEF Flight, IInv, Shape
  <1> DEFINE d == [NoCommand EXCEPT !.line = ctx[w].command.line]
             c == [ctx[w] EXCEPT !.pc = pc, !.command = d]
  <1>2. d \in Stored /\ Covers(d) /\ d.line = ctx[w].command.line
    BY <1>1, EmptyCommand DEF Locals, Stored
  <1>3. /\ c \in Locals /\ c.pc = pc /\ c.command = d /\ c.todo = ctx[w].todo
        /\ c.request = ctx[w].request /\ c.batch = ctx[w].batch
    BY <1>1, <1>2 DEF Locals
  <1>4. ctx' = [ctx EXCEPT ![w] = c]
    BY <1>1 DEF Outcome
  <1> HIDE DEF c, d
  <1>5. Carries(c)
    BY <1>1, <1>2, <1>3 DEF Carries
  <1> QED
    BY <1>2, <1>3, <1>4, <1>5

LEMMA ListingStep ==
    ASSUME IInv, NEW w \in Calls,
           \/ InsertBatch(w) \/ ListLines(w) \/ SelectLines(w) \/ FinishBatch(w)
           \/ \E l \in Lines, answers \in BOOLEAN : PreviewLine(w, l, answers)
    PROVE  Kept
  <1>0. /\ account \in Accounts \cup {NoAccount}
        /\ ctx \in [Calls -> Locals] /\ ctx[w] \in Locals /\ Flight(ctx[w])
    BY CallOf DEF IInv, Shape
  <1> USE DEF Flight, Carries, AtRequest, AtItem, OnRequest, OnItem, InBatch
  <1>1. CASE InsertBatch(w)
    <2>1. CASE Ends(w)
      BY <1>0, <1>1, <2>1, Endings DEF InsertBatch
    <2>2. CASE Goes(w, "list")
      <3> DEFINE c == [ctx[w] EXCEPT !.pc = "list"]
      <3>1. c \in Locals /\ Flight(c) /\ ctx' = [ctx EXCEPT ![w] = c]
        BY <1>0, <1>1, <2>2 DEF Locals, Goes, InsertBatch
      <3> QED
        BY <1>0, <1>1, <3>1, CtxOnly DEF InsertBatch
    <2> QED
      BY <1>1, <2>1, <2>2 DEF InsertBatch
  <1>2. CASE ListLines(w)
    <2> DEFINE c == [ctx[w] EXCEPT !.pc = "preview", !.unseen = Listed]
    <2>1. c \in Locals /\ Flight(c) /\ ctx' = [ctx EXCEPT ![w] = c]
      BY <1>0, <1>2 DEF Locals, Listed, ListLines
    <2> QED
      BY <1>0, <1>2, <2>1, CtxOnly DEF ListLines
  <1>3. ASSUME NEW l \in Lines, NEW answers \in BOOLEAN, PreviewLine(w, l, answers)
        PROVE  Kept
    <2> DEFINE d == [line |-> l, ready |-> answers /\ Clear(l) /\ account # NoAccount,
                     remaining |-> Remaining(l)]
               c == [ctx[w] EXCEPT !.unseen = ctx[w].unseen \ {l}, !.seen = ctx[w].seen \cup {d}]
    <2>1. d \in Candidate
      BY DEF Candidate, Remaining, IInv, Shape
    <2>2. ctx[w].seen \cup {d} \in Candidates
      BY <1>0, <2>1, FS_AddElement DEF Locals, Candidates
    <2>3. c \in Locals /\ Flight(c) /\ ctx' = [ctx EXCEPT ![w] = c]
      BY <1>0, <1>3, <2>2 DEF Locals, PreviewLine
    <2> QED
      BY <1>0, <1>3, <2>3, CtxOnly DEF PreviewLine
  <1>4. CASE SelectLines(w)
    <2> DEFINE todo == Chosen(WithPolicy(ctx[w].seen), ctx[w].lines)
               c == [ctx[w] EXCEPT !.pc = "items", !.seen = {}, !.lines = {}, !.todo = todo]
    <2>1. \A d \in todo : d \in Selected /\ Covers(d)
      BY <1>0, PolicyCovers DEF Locals
    <2>2. c \in Locals /\ Flight(c) /\ ctx' = [ctx EXCEPT ![w] = c]
      BY <1>0, <1>4, <2>1, NothingSeen DEF Locals, SelectLines
    <2> QED
      BY <1>0, <1>4, <2>2, CtxOnly DEF SelectLines
  <1>5. CASE FinishBatch(w)
    BY <1>0, <1>5, Endings DEF FinishBatch
  <1> QED
    BY <1>1, <1>2, <1>3, <1>4, <1>5

\* Inputs that are the same are about the same line.
LEMMA ComparedLines ==
    ASSUME NEW c \in Stored, NEW d \in Stored
    PROVE  /\ Compared(c, d) \in {"read", "failed"}
           /\ Compared(c, d) = "read" => c.line = d.line
  <1>1. SameInput(c, d) => c.line = d.line
    <2>1. [c EXCEPT !.destination = NoAccount].line = c.line
      BY DEF Stored
    <2>2. [d EXCEPT !.destination = NoAccount].line = d.line
      BY DEF Stored
    <2> QED
      BY <2>1, <2>2 DEF SameInput
  <1> QED
    BY <1>1 DEF Compared

LEMMA AskingStep ==
    ASSUME IInv, NEW w \in Calls,
           \/ Quote(w) \/ SelectRequest(w) \/ ResolveDestination(w) \/ ReadRequest(w)
           \/ CallFails(w) \/ CallEnds(w)
    PROVE  Kept
  <1>0. /\ account \in Accounts \cup {NoAccount} /\ revision \in [Lines -> Nat]
        /\ ctx \in [Calls -> Locals] /\ ctx[w] \in Locals /\ Flight(ctx[w])
        /\ request \in [Requests -> RequestRow]
        /\ ctx[w].batch # NoBatch => ctx[w].batch \in Batches
    BY CallOf DEF IInv, Shape, Locals
  <1> USE DEF Flight, Carries, AtRequest, AtItem, OnRequest, OnItem, InBatch
  <1>1. CASE Quote(w)
    <2> DEFINE d == [ctx[w].command EXCEPT !.revision = revision[ctx[w].command.line]]
               c == [ctx[w] EXCEPT !.pc = "select", !.command = d]
    <2>1. /\ ctx[w].command.line \in Lines
          /\ item[ctx[w].batch][ctx[w].command.line].state # "absent"
          /\ item[ctx[w].batch][ctx[w].command.line].request = ctx[w].request
      BY <1>0, <1>1 DEF Quote
    <2>2. ctx[w].request \in Requests
      BY <1>0, <1>1 DEF Quote
    <2>3. d \in Stored /\ Covers(d) /\ d.line = ctx[w].command.line
      BY <1>0, <2>1 DEF Locals, Stored, Covers
    <2>4. c \in Locals /\ Flight(c) /\ ctx' = [ctx EXCEPT ![w] = c]
      BY <1>0, <1>1, <2>1, <2>2, <2>3 DEF Locals, Quote
    <2> QED
      BY <1>0, <1>1, <2>4, CtxOnly DEF Quote
  <1>2. CASE SelectRequest(w)
    <2>0. ctx[w].request \in Requests
      BY <1>0, <1>2 DEF SelectRequest
    <2> DEFINE row == request[ctx[w].request]
    <2>1. CASE row.state = "absent" /\ Goes(w, "terms")
      <3> DEFINE c == [ctx[w] EXCEPT !.pc = "terms"]
      <3>1. c \in Locals /\ Flight(c) /\ ctx' = [ctx EXCEPT ![w] = c]
        BY <1>0, <1>2, <2>1 DEF Locals, SelectRequest, Goes
      <3> QED
        BY <1>0, <1>2, <3>1, CtxOnly DEF SelectRequest
    <2>2. CASE row.state # "absent" /\ Outcome(w, Compared(row.command, ctx[w].command))
      <3>1. PICK pc \in {"read", "failed"} :
                /\ pc = Compared(row.command, ctx[w].command)
                /\ pc = "read" => row.command.line = ctx[w].command.line
        BY <1>0, <2>0, ComparedLines DEF RequestRow, Locals
      <3>2. PICK c \in Locals :
                /\ ctx' = [ctx EXCEPT ![w] = c] /\ Carries(c) /\ c.pc = pc
                /\ c.request = ctx[w].request /\ c.batch = ctx[w].batch
                /\ c.command.line = ctx[w].command.line
        <4>1. Outcome(w, pc) /\ ctx[w].pc \in OnRequest \cup {"quote"}
          BY <1>2, <2>2, <3>1 DEF SelectRequest
        <4> QED
          BY <4>1, OutcomeCall
      <3>3. AtRequest(c)
        BY <2>0, <2>2, <3>1, <3>2
      <3>4. AtItem(c)
        BY <1>0, <1>2, <3>1, <3>2 DEF SelectRequest
      <3>5. Flight(c)
        BY <3>2, <3>3, <3>4
      <3> QED
        BY <1>0, <1>2, <3>2, <3>5, CtxOnly DEF SelectRequest
    <2> QED
      BY <1>2, <2>1, <2>2 DEF SelectRequest
  <1>3. CASE ResolveDestination(w)
    <2>1. CASE Outcome(w, "failed")
      <3>1. PICK c \in Locals :
                /\ ctx' = [ctx EXCEPT ![w] = c] /\ Carries(c) /\ c.pc = "failed"
                /\ c.request = ctx[w].request /\ c.batch = ctx[w].batch
                /\ c.command.line = ctx[w].command.line
        BY <1>3, <2>1, OutcomeCall DEF ResolveDestination
      <3>2. Flight(c)
        BY <1>0, <1>3, <3>1 DEF ResolveDestination
      <3> QED
        BY <1>0, <1>3, <3>1, <3>2, CtxOnly DEF ResolveDestination
    <2>2. CASE Goes(w, "save")
      <3> DEFINE c == [ctx[w] EXCEPT !.pc = "save"]
      <3>1. c \in Locals /\ Flight(c) /\ ctx' = [ctx EXCEPT ![w] = c]
        BY <1>0, <1>3, <2>2 DEF Locals, ResolveDestination, Goes
      <3> QED
        BY <1>0, <1>3, <3>1, CtxOnly DEF ResolveDestination
    <2>3. CASE ctx' = [ctx EXCEPT ![w].pc = "save", ![w].command.destination = account]
      <3> DEFINE d == [ctx[w].command EXCEPT !.destination = account]
                 c == [ctx[w] EXCEPT !.pc = "save", !.command = d]
      <3>1. d \in Stored /\ Covers(d) /\ d.line = ctx[w].command.line
        BY <1>0 DEF Locals, Stored, Covers
      <3>2. c \in Locals /\ Flight(c) /\ ctx' = [ctx EXCEPT ![w] = c]
        BY <1>0, <1>3, <2>3, <3>1 DEF Locals, ResolveDestination
      <3> QED
        BY <1>0, <1>3, <3>2, CtxOnly DEF ResolveDestination
    <2> QED
      BY <1>3, <2>1, <2>2, <2>3 DEF ResolveDestination
  <1>4. CASE ReadRequest(w)
    <2>0. /\ ctx[w].pc = "read" /\ ctx[w].request \in Requests
          /\ request[ctx[w].request].state # "absent"
      BY <1>0, <1>4 DEF ReadRequest
    <2> DEFINE row == request[ctx[w].request]
    <2>1. CASE row.state = "confirmed" /\ Outcome(w, "report")
      <3>1. PICK c \in Locals :
                /\ ctx' = [ctx EXCEPT ![w] = c] /\ Carries(c) /\ c.pc = "report"
                /\ c.request = ctx[w].request /\ c.batch = ctx[w].batch
                /\ c.command.line = ctx[w].command.line
        BY <2>0, <2>1, OutcomeCall
      <3>2. Flight(c)
        BY <1>0, <2>0, <2>1, <3>1
      <3> QED
        BY <1>0, <1>4, <3>1, <3>2, CtxOnly DEF ReadRequest
    <2>2. CASE ctx' = [ctx EXCEPT ![w].pc = "send", ![w].command = row.command]
      <3> DEFINE c == [ctx[w] EXCEPT !.pc = "send", !.command = row.command]
      <3>1. row.command \in Stored /\ Covers(row.command)
        BY <1>0, <2>0 DEF RequestRow, IInv, ProofCoversItsLine, Covers
      <3>2. c \in Locals /\ Flight(c) /\ ctx' = [ctx EXCEPT ![w] = c]
        BY <1>0, <2>0, <2>2, <3>1 DEF Locals
      <3> QED
        BY <1>0, <1>4, <3>2, CtxOnly DEF ReadRequest
    <2> QED
      BY <1>4, <2>1, <2>2 DEF ReadRequest
  <1>5. CASE CallFails(w)
    <2>1. ctx[w].pc \in OnRequest \cup {"quote"}
      BY <1>5 DEF CallFails
    <2>2. PICK c \in Locals :
              /\ ctx' = [ctx EXCEPT ![w] = c] /\ Carries(c) /\ c.pc = "failed"
              /\ c.request = ctx[w].request /\ c.batch = ctx[w].batch
              /\ c.command.line = ctx[w].command.line
      BY <1>5, <2>1, OutcomeCall DEF CallFails
    <2>3. Flight(c)
      BY <1>0, <2>1, <2>2
    <2> QED
      BY <1>0, <1>5, <2>2, <2>3, CtxOnly DEF CallFails
  <1>6. CASE CallEnds(w)
    BY <1>0, <1>6, Endings DEF CallEnds
  <1> QED
    BY <1>1, <1>2, <1>3, <1>4, <1>5, <1>6
-----------------------------------------------------------------------------
(* The steps that write an item.                                            *)

\* What an item may become: its request stays, and confirmed means confirmed for its line.
MayBecome(b, l, row) ==
    /\ row.state # "absent"
    /\ item[b][l].state # "absent" => row.request = item[b][l].request
    /\ item[b][l].state = "confirmed" => row.state = "confirmed"
    /\ row.state = "confirmed" =>
        /\ row.request \in Requests
        /\ request[row.request].state = "confirmed"
        /\ request[row.request].command.line = l
    /\ row.request # NoRequest =>
        \A d \in Batches, k \in Lines : item[d][k].request = row.request => d = b /\ k = l

LEMMA ItemSet ==
    ASSUME IInv, UNCHANGED <<account, request, commerce>>,
           NEW b \in Batches, NEW l \in Lines, NEW row \in ItemRow, MayBecome(b, l, row),
           item' = [item EXCEPT ![b][l] = row],
           NEW w \in Calls, NEW c \in Locals, ctx' = [ctx EXCEPT ![w] = c], Flight(c)'
    PROVE  Kept
  <1> USE DEF commerce
  <1>1. item \in [Batches -> [Lines -> ItemRow]]
    BY DEF IInv, Shape
  <1>2. /\ item' \in [Batches -> [Lines -> ItemRow]]
        /\ item'[b][l] = row
        /\ \A d \in Batches, k \in Lines : d # b \/ k # l => item'[d][k] = item[d][k]
    BY <1>1
  <1> HIDE DEF commerce
  <1>3. Grows
    <2>1. ItemsGrow
      BY <1>2 DEF ItemsGrow, MayBecome
    <2>2. RequestsGrow /\ DecisionsGrow
      BY DEF RequestsGrow, DecisionsGrow, Decided, commerce
    <2> QED
      BY <2>1, <2>2 DEF Grows
  <1>4. ctx' \in [Calls -> Locals] /\ InFlight'
    BY <1>3, CallSet
  <1>5. Shape'
    BY <1>2, <1>4 DEF IInv, Shape, commerce
  <1>6. (DecidedIsRecorded /\ ProofCoversItsLine /\ StoredNamesALine)'
    BY DEF IInv, DecidedIsRecorded, ProofCoversItsLine, Decided, StoredNamesALine, commerce
  <1>7. ConfirmedWasDecided'
    <2>1. \A r \in Requests : request'[r].state = "confirmed" => Decided(r)'
      BY DEF IInv, ConfirmedWasDecided, Decided, commerce
    <2>2. ASSUME NEW d \in Batches, NEW k \in Lines, item'[d][k].state = "confirmed"
          PROVE  /\ item'[d][k].request # NoRequest
                 /\ request'[item'[d][k].request].state = "confirmed"
                 /\ request'[item'[d][k].request].command.line = k
      <3>1. CASE d = b /\ k = l
        BY <1>2, <2>2, <3>1, CallsAssumption DEF MayBecome
      <3>2. CASE d # b \/ k # l
        BY <1>2, <2>2, <3>2 DEF IInv, ConfirmedWasDecided
      <3> QED
        BY <3>1, <3>2
    <2> QED
      BY <2>1, <2>2 DEF ConfirmedWasDecided
  <1>8. RequestsNotShared'
    BY <1>2 DEF IInv, RequestsNotShared, MayBecome
  <1> QED
    BY <1>3, <1>4, <1>5, <1>6, <1>7, <1>8 DEF IInv, Kept

\* The call after a candidate: the next one, or the end of a single decision.
LEMMA NextCall ==
    ASSUME IInv, NEW w \in Calls, Continues(w)
    PROVE  \E c \in Locals : ctx' = [ctx EXCEPT ![w] = c] /\ Flight(c)'
  <1>1. ctx[w] \in Locals /\ Carries(ctx[w])
    BY CallOf DEF Flight
  <1>2. CASE ctx[w].batch = NoBatch
    <2>1. Flight(Idle)'
      BY IdleCall DEF Flight, Carries, Covers, AtRequest, AtItem, OnRequest, OnItem, InBatch
    <2> QED
      BY <1>2, <2>1, IdleCall DEF Continues, Ends
  <1>3. CASE ctx[w].batch # NoBatch
    <2> DEFINE c == [Idle EXCEPT !.pc = "items", !.batch = ctx[w].batch, !.todo = ctx[w].todo]
    <2>1. /\ c \in Locals /\ c.pc = "items" /\ c.batch # NoBatch
          /\ c.todo = ctx[w].todo /\ c.command = NoCommand
      BY <1>1, <1>3, IdleCall DEF Locals
    <2>2. ctx' = [ctx EXCEPT ![w] = c]
      BY <1>3 DEF Continues
    <2> HIDE DEF c
    <2>3. \A d \in c.todo : Covers(d)
      BY <1>1, <2>1 DEF Carries
    <2>4. PICK x \in Locals : x = c
      BY <2>1
    <2>5. Flight(x)'
      BY <2>1, <2>3, <2>4, EmptyCommand
         DEF Flight, Carries, Covers, AtRequest, AtItem, OnRequest, OnItem, InBatch
    <2> QED
      BY <2>2, <2>4, <2>5
  <1> QED
    BY <1>2, <1>3

\* An item's request is nobody else's, if it was not there before or is the item's own.
LEMMA UpsertStep ==
    ASSUME IInv, NEW w \in Calls, NEW d \in ctx[w].todo, NEW r \in Requests, UpsertItem(w, d, r)
    PROVE  Kept
  <1> DEFINE b == ctx[w].batch
             l == d.line
             old == item[b][l]
             new == Upserted(old, r)
             rest == [ctx[w] EXCEPT !.todo = ctx[w].todo \ {d}]
             command == [NoCommand EXCEPT !.line = l, !.proof = d.proof]
             begun == [rest EXCEPT !.pc = IF d.ready THEN "quote" ELSE "skip", !.request = r,
                            !.command = command]
             next == IF new.state = "confirmed" THEN rest ELSE begun
  <1>1. /\ ctx[w] \in Locals /\ Carries(ctx[w]) /\ AtItem(ctx[w]) /\ ctx[w].pc = "items"
        /\ ctx \in [Calls -> Locals]
    BY CallOf DEF Flight, UpsertItem, IInv, Shape
  <1>2. b \in Batches /\ l \in Lines /\ d \in Selected /\ d.proof \in PolicyProof /\ Covers(d)
    BY <1>1 DEF Locals, Selected, AtItem, InBatch, Carries
  <1>3. item \in [Batches -> [Lines -> ItemRow]] /\ old \in ItemRow
    BY <1>2 DEF IInv, Shape
  <1>4. /\ new \in ItemRow /\ new.state # "absent" /\ new.request = r
        /\ old.state # "absent" => new = old
        /\ old.state = "absent" => new.state = "pending" /\ FreshRequest(r)
    BY <1>3 DEF UpsertItem, Upserted, ItemRow
  <1>5. command \in Stored /\ Covers(command) /\ command.line = l
    BY <1>2, EmptyCommand DEF NoCommand, Stored, Covers, Action, NoProof
  <1>6. rest \in Locals /\ begun \in Locals
    BY <1>1, <1>5 DEF Locals
  <1>7. MayBecome(b, l, new)
    <2>1. CASE old.state = "absent"
      BY <1>4, <2>1 DEF MayBecome, FreshRequest
    <2>2. CASE old.state # "absent"
      BY <1>2, <1>4, <2>2 DEF MayBecome, IInv, ConfirmedWasDecided, RequestsNotShared
    <2> QED
      BY <2>1, <2>2
  <1>8. item' = [item EXCEPT ![b][l] = new] /\ ctx' = [ctx EXCEPT ![w] = next]
    BY DEF UpsertItem
  <1>9. item'[b][l].state # "absent" /\ item'[b][l].request = r
    BY <1>2, <1>3, <1>4, <1>8
  <1>10. PICK c \in Locals : c = next
    BY <1>6
  <1>11. Flight(c)'
    <2>1. CASE new.state = "confirmed"
      <3>1. /\ c.pc = "items" /\ c.batch = b /\ c.command = ctx[w].command
            /\ c.todo \subseteq ctx[w].todo
        BY <1>1, <1>10, <2>1 DEF Locals
      <3> QED
        BY <1>1, <1>2, <3>1, CallsAssumption
           DEF Flight, Carries, Covers, AtRequest, AtItem, OnRequest, OnItem, InBatch
    <2>2. CASE new.state # "confirmed"
      <3>1. /\ c.pc \in {"quote", "skip"} /\ c.batch = b /\ c.command = command
            /\ c.todo \subseteq ctx[w].todo /\ c.request = r
        BY <1>1, <1>10, <2>2 DEF Locals
      <3>2. Carries(c)'
        BY <1>1, <1>5, <3>1 DEF Carries, Covers
      <3>3. AtRequest(c)'
        BY <3>1 DEF AtRequest, OnRequest
      <3>4. AtItem(c)'
        BY <1>2, <1>5, <1>9, <3>1, CallsAssumption DEF AtItem, OnRequest, OnItem, InBatch
      <3> QED
        BY <3>2, <3>3, <3>4 DEF Flight
    <2> QED
      BY <2>1, <2>2
  <1>12. ctx' = [ctx EXCEPT ![w] = c]
    BY <1>8, <1>10
  <1> HIDE DEF new, b, l, next
  <1>13. UNCHANGED <<account, request, commerce>>
    BY DEF UpsertItem
  <1> QED
    BY <1>2, <1>4, <1>7, <1>8, <1>11, <1>12, <1>13, ItemSet

\* The updates of an item's state.
LEMMA StateSet ==
    ASSUME IInv, UNCHANGED <<account, request, commerce>>, NEW w \in Calls, Continues(w),
           ctx[w].batch # NoBatch, ctx[w].pc \in OnItem,
           NEW state \in {"skipped", "failed", "confirmed"},
           item' = [item EXCEPT ![ctx[w].batch][ctx[w].command.line].state =
                        IF @ = "confirmed" THEN @ ELSE state],
           state = "confirmed" => ctx[w].pc = "report"
    PROVE  Kept
  <1> DEFINE b == ctx[w].batch
             l == ctx[w].command.line
             old == item[b][l]
             row == [old EXCEPT !.state = IF old.state = "confirmed" THEN old.state ELSE state]
  <1>1. ctx[w] \in Locals /\ AtItem(ctx[w]) /\ AtRequest(ctx[w])
    BY CallOf DEF Flight
  <1>2. /\ b \in Batches /\ l \in Lines
        /\ old.state # "absent" /\ old.request = ctx[w].request
    BY <1>1 DEF Locals, AtItem
  <1>3. item \in [Batches -> [Lines -> ItemRow]] /\ old \in ItemRow
    BY <1>2 DEF IInv, Shape
  <1>4. /\ row \in ItemRow /\ row.request = old.request /\ row.state # "absent"
        /\ old.state = "confirmed" => row.state = "confirmed"
        /\ row.state = "confirmed" => old.state = "confirmed" \/ state = "confirmed"
    BY <1>2, <1>3 DEF ItemRow
  <1>5. item' = [item EXCEPT ![b][l] = row]
    BY <1>2, <1>3
  <1> HIDE DEF row
  <1>6. ASSUME row.state = "confirmed"
        PROVE  /\ row.request \in Requests
               /\ request[row.request].state = "confirmed"
               /\ request[row.request].command.line = l
    <2>1. CASE old.state = "confirmed"
      BY <1>2, <1>3, <1>4, <2>1 DEF ItemRow, IInv, ConfirmedWasDecided
    <2>2. CASE ctx[w].pc = "report"
      BY <1>1, <1>2, <1>4, <2>2 DEF AtRequest, AtItem, OnRequest
    <2> QED
      BY <1>4, <1>6, <2>1, <2>2
  <1>7. MayBecome(b, l, row)
    BY <1>2, <1>4, <1>6 DEF MayBecome, IInv, RequestsNotShared
  <1>8. PICK c \in Locals : ctx' = [ctx EXCEPT ![w] = c] /\ Flight(c)'
    BY NextCall
  <1> HIDE DEF b, l
  <1> QED
    BY <1>2, <1>4, <1>5, <1>7, <1>8, ItemSet

LEMMA StateStep ==
    ASSUME IInv, NEW w \in Calls, SkipItem(w) \/ ReportSuccess(w) \/ RecordFailure(w)
    PROVE  Kept
  <1>0. /\ account' \in Accounts \cup {NoAccount} /\ UNCHANGED <<account, request, commerce>>
        /\ Continues(w) /\ ctx[w].pc \in {"skip", "report", "failed"}
    BY DEF IInv, Shape, SkipItem, ReportSuccess, RecordFailure
  <1>1. ctx[w].pc \in OnItem
    BY <1>0 DEF OnItem, OnRequest
  <1>2. CASE ctx[w].batch = NoBatch
    <2>1. ctx[w].pc # "skip"
      BY <1>2, CallOf DEF Flight, AtItem, InBatch
    <2>2. UNCHANGED <<request, item, commerce>>
      BY <1>0, <1>2, <2>1 DEF SkipItem, ReportSuccess, RecordFailure
    <2>3. Ends(w)
      BY <1>0, <1>2 DEF Continues
    <2> QED
      BY <1>0, <2>2, <2>3, Endings
  <1>3. CASE ctx[w].batch # NoBatch
    <2>1. CASE SkipItem(w)
      <3>1. item' = [item EXCEPT ![ctx[w].batch][ctx[w].command.line].state =
                        IF @ = "confirmed" THEN @ ELSE "skipped"]
        BY <2>1 DEF SkipItem, ItemBecomes
      <3> QED
        BY <1>0, <1>1, <1>3, <3>1, StateSet
    <2>2. CASE RecordFailure(w)
      <3>1. item' = [item EXCEPT ![ctx[w].batch][ctx[w].command.line].state =
                        IF @ = "confirmed" THEN @ ELSE "failed"]
        BY <1>3, <2>2 DEF RecordFailure, ItemBecomes
      <3> QED
        BY <1>0, <1>1, <1>3, <3>1, StateSet
    <2>3. CASE ReportSuccess(w)
      <3>1. item' = [item EXCEPT ![ctx[w].batch][ctx[w].command.line].state = "confirmed"]
        BY <1>3, <2>3 DEF ReportSuccess
      <3>2. item' = [item EXCEPT ![ctx[w].batch][ctx[w].command.line].state =
                        IF @ = "confirmed" THEN @ ELSE "confirmed"]
        BY <3>1
      <3>3. ctx[w].pc = "report"
        BY <2>3 DEF ReportSuccess
      <3> QED
        BY <1>0, <1>1, <1>3, <3>2, <3>3, StateSet
    <2> QED
      BY <2>1, <2>2, <2>3
  <1> QED
    BY <1>2, <1>3
-----------------------------------------------------------------------------
(* The steps that write a request, and the sending.                         *)

\* What a request may become: its command stays, and only a decided one is confirmed.
RequestMayBecome(r, row) ==
    /\ row.state # "absent"
    /\ request[r].state # "absent" => row.command = request[r].command
    /\ request[r].state = "confirmed" => row.state = "confirmed"
    /\ row.state = "confirmed" => Decided(r)
    /\ row.command.line \in Lines /\ Covers(row.command)

LEMMA RequestSet ==
    ASSUME IInv, UNCHANGED <<account, item, commerce>>,
           NEW r \in Requests, NEW row \in RequestRow, RequestMayBecome(r, row),
           request' = [request EXCEPT ![r] = row],
           NEW w \in Calls, NEW c \in Locals, ctx' = [ctx EXCEPT ![w] = c], Flight(c)'
    PROVE  Kept
  <1>1. request \in [Requests -> RequestRow] /\ item \in [Batches -> [Lines -> ItemRow]]
    BY DEF IInv, Shape
  <1>2. /\ request' \in [Requests -> RequestRow]
        /\ request'[r] = row
        /\ \A q \in Requests : q # r => request'[q] = request[q]
    BY <1>1
  <1>3. \A q \in Requests : Decided(q)' <=> Decided(q)
    BY DEF Decided, commerce
  <1>4. Grows
    <2>1. RequestsGrow
      BY <1>2 DEF RequestsGrow, RequestMayBecome
    <2>2. ItemsGrow /\ DecisionsGrow
      BY <1>3 DEF ItemsGrow, DecisionsGrow
    <2> QED
      BY <2>1, <2>2 DEF Grows
  <1>5. ctx' \in [Calls -> Locals] /\ InFlight'
    BY <1>4, CallSet
  <1>6. Shape'
    BY <1>2, <1>5 DEF IInv, Shape, commerce
  <1>7. DecidedIsRecorded'
    BY <1>2, <1>3 DEF IInv, DecidedIsRecorded, RequestMayBecome, Decided, commerce
  <1>8. (ProofCoversItsLine /\ StoredNamesALine)'
    BY <1>2 DEF IInv, ProofCoversItsLine, StoredNamesALine, RequestMayBecome, Covers
  <1>9. ConfirmedWasDecided'
    <2>1. \A q \in Requests : request'[q].state = "confirmed" => Decided(q)'
      BY <1>2, <1>3 DEF IInv, ConfirmedWasDecided, RequestMayBecome
    <2>2. ASSUME NEW d \in Batches, NEW k \in Lines, item'[d][k].state = "confirmed"
          PROVE  /\ item'[d][k].request # NoRequest
                 /\ request'[item'[d][k].request].state = "confirmed"
                 /\ request'[item'[d][k].request].command.line = k
      <3>1. /\ item'[d][k].request = item[d][k].request /\ item[d][k].request # NoRequest
            /\ request[item[d][k].request].state = "confirmed"
            /\ request[item[d][k].request].command.line = k
        BY <2>2 DEF IInv, ConfirmedWasDecided
      <3>2. item[d][k].request \in Requests
        BY <1>1, <3>1 DEF ItemRow
      <3> QED
        BY <1>4, <3>1, <3>2 DEF Grows, RequestsGrow
    <2> QED
      BY <2>1, <2>2 DEF ConfirmedWasDecided
  <1>10. RequestsNotShared'
    BY DEF IInv, RequestsNotShared
  <1> QED
    BY <1>4, <1>5, <1>6, <1>7, <1>8, <1>9, <1>10 DEF IInv, Kept

LEMMA SaveStep ==
    ASSUME IInv, NEW w \in Calls, SaveRequest(w)
    PROVE  Kept
  <1> DEFINE r == ctx[w].request
             row == Saved(request[r], ctx[w].command)
  <1>1. /\ ctx[w] \in Locals /\ ctx[w].pc = "save" /\ r \in Requests
        /\ ctx[w].command.line \in Lines /\ Covers(ctx[w].command) /\ AtItem(ctx[w])
    BY CallOf DEF SaveRequest, Flight, AtRequest, Carries, OnRequest
  <1>2. request[r] \in RequestRow /\ ctx[w].command \in Stored
    BY <1>1 DEF IInv, Shape, Locals
  <1>3. /\ row \in RequestRow /\ row.state # "absent"
        /\ request[r].state # "absent" => row = request[r]
        /\ request[r].state = "absent" => row.state = "pending" /\ row.command = ctx[w].command
    BY <1>2 DEF Saved, RequestRow
  <1>4. request' = [request EXCEPT ![r] = row] /\ UNCHANGED <<account, item, commerce>>
    BY DEF SaveRequest
  <1>5. request'[r] = row
    BY <1>1, <1>4 DEF IInv, Shape
  <1>6. PICK pc \in {"read", "failed"} :
            /\ pc = Compared(row.command, ctx[w].command)
            /\ pc = "read" => row.command.line = ctx[w].command.line
    BY <1>2, <1>3, ComparedLines DEF RequestRow
  <1>7. PICK c \in Locals :
            /\ ctx' = [ctx EXCEPT ![w] = c] /\ Carries(c) /\ c.pc = pc
            /\ c.request = ctx[w].request /\ c.batch = ctx[w].batch
            /\ c.command.line = ctx[w].command.line
    <2>1. Outcome(w, pc) /\ ctx[w].pc \in OnRequest \cup {"quote"}
      BY <1>1, <1>6 DEF SaveRequest, OnRequest
    <2> QED
      BY <1>6, <2>1, OutcomeCall
  <1>8. Flight(c)'
    <2>1. Carries(c)'
      BY <1>7 DEF Carries, Covers
    <2>2. AtRequest(c)'
      BY <1>1, <1>3, <1>5, <1>6, <1>7 DEF AtRequest, OnRequest
    <2>3. AtItem(c)'
      BY <1>1, <1>4, <1>5, <1>6, <1>7 DEF AtItem, OnRequest, OnItem, InBatch
    <2> QED
      BY <2>1, <2>2, <2>3 DEF Flight
  <1>9. RequestMayBecome(r, row)
    BY <1>1, <1>3 DEF RequestMayBecome, IInv, ConfirmedWasDecided, ProofCoversItsLine,
                      StoredNamesALine, Covers
  <1> HIDE DEF r, row
  <1> QED
    BY <1>1, <1>3, <1>4, <1>7, <1>8, <1>9, RequestSet

LEMMA ConfirmStep ==
    ASSUME IInv, NEW w \in Calls, ConfirmRequest(w)
    PROVE  Kept
  <1> DEFINE r == ctx[w].request
             row == [request[r] EXCEPT !.state = "confirmed"]
             next == [ctx[w] EXCEPT !.pc = "report"]
  <1>1. /\ ctx[w] \in Locals /\ ctx[w].pc = "confirm" /\ r \in Requests /\ Decided(r)
        /\ Carries(ctx[w]) /\ AtItem(ctx[w])
    BY CallOf DEF ConfirmRequest, Flight, AtRequest, OnRequest
  <1>2. request \in [Requests -> RequestRow] /\ request[r] \in RequestRow
    BY <1>1 DEF IInv, Shape
  <1>3. request[r].state # "absent"
    BY <1>1 DEF IInv, DecidedIsRecorded
  <1>4. row \in RequestRow /\ row.state = "confirmed" /\ row.command = request[r].command
    BY <1>2 DEF RequestRow
  <1>5. request' = [request EXCEPT ![r] = row] /\ UNCHANGED <<account, item, commerce>>
    BY <1>2 DEF ConfirmRequest
  <1> HIDE DEF row
  <1>6. request'[r] = row
    BY <1>1, <1>2, <1>5
  <1>7. PICK c \in Locals :
            /\ c = next /\ c.pc = "report" /\ c.request = r /\ c.batch = ctx[w].batch
            /\ c.command = ctx[w].command /\ c.todo = ctx[w].todo
    <2>1. /\ next \in Locals /\ next.pc = "report" /\ next.request = r
          /\ next.batch = ctx[w].batch /\ next.command = ctx[w].command
          /\ next.todo = ctx[w].todo
      BY <1>1 DEF Locals
    <2> HIDE DEF next
    <2> QED
      BY <2>1
  <1>8. ctx' = [ctx EXCEPT ![w] = c]
    BY <1>7 DEF ConfirmRequest, Goes, IInv, Shape
  <1>9. Flight(c)'
    <2>1. Carries(c)'
      BY <1>1, <1>7 DEF Carries, Covers
    <2>2. AtRequest(c)'
      BY <1>1, <1>4, <1>6, <1>7 DEF AtRequest, OnRequest
    <2>3. AtItem(c)'
      BY <1>1, <1>4, <1>5, <1>6, <1>7 DEF AtItem, OnRequest, OnItem, InBatch
    <2> QED
      BY <2>1, <2>2, <2>3 DEF Flight
  <1>10. RequestMayBecome(r, row)
    BY <1>1, <1>3, <1>4 DEF RequestMayBecome, IInv, ProofCoversItsLine, StoredNamesALine, Covers
  <1> HIDE DEF r
  <1> QED
    BY <1>1, <1>4, <1>5, <1>8, <1>9, <1>10, RequestSet

\* A step that leaves Thesi's own tables alone and decides only what is on them.
LEMMA CommerceSet ==
    ASSUME IInv, UNCHANGED <<request, item>>, account' \in Accounts \cup {NoAccount},
           revision' \in [Lines -> Nat], earned' \in [Lines -> Nat], paid' \in [Lines -> Nat],
           held' \in [Lines -> BOOLEAN], decision' \in [Requests -> DecisionRow],
           DecisionsGrow,
           \A r \in Requests : Decided(r)' =>
               /\ request[r].state # "absent"
               /\ decision'[r].command = request[r].command
    PROVE  /\ Grows
           /\ ctx' \in [Calls -> Locals] /\ InFlight' => Kept
  <1>1. Grows
    BY DEF Grows, RequestsGrow, ItemsGrow
  <1>2. DecidedIsRecorded'
    BY DEF DecidedIsRecorded
  <1>3. (RequestsNotShared /\ ProofCoversItsLine /\ StoredNamesALine)'
    BY DEF IInv, RequestsNotShared, ProofCoversItsLine, StoredNamesALine
  <1>4. ConfirmedWasDecided'
    BY DEF IInv, ConfirmedWasDecided, DecisionsGrow
  <1>5. ASSUME ctx' \in [Calls -> Locals] PROVE Shape'
    BY <1>5 DEF IInv, Shape
  <1> QED
    BY <1>1, <1>2, <1>3, <1>4, <1>5 DEF IInv, Kept

\* What Commerce is sent is the stored command, so what it decides is recorded.
LEMMA SendStep ==
    ASSUME IInv, NEW w \in Calls, SendCommand(w)
    PROVE  Kept
  <1> DEFINE r == ctx[w].request
             d == ctx[w].command
  <1>1. /\ ctx[w] \in Locals /\ ctx[w].pc = "send" /\ r \in Requests
        /\ request[r].state # "absent" /\ d = request[r].command
        /\ AtItem(ctx[w]) /\ Carries(ctx[w])
    BY CallOf DEF SendCommand, Flight, AtRequest, OnRequest
  <1>2. d \in Stored /\ d.line \in Lines
    BY <1>1 DEF Locals, IInv, StoredNamesALine
  <1>3. UNCHANGED <<account, request, item>> /\ account' \in Accounts \cup {NoAccount}
    BY DEF SendCommand, IInv, Shape
  <1>4. \/ UNCHANGED commerce /\ Outcome(w, "failed")
        \/ UNCHANGED commerce /\ Decided(r) /\ Outcome(w, "confirm")
        \/ ~Decided(r) /\ Decide(r, d) /\ Outcome(w, "confirm")
    BY DEF SendCommand, Decide
  <1>5. PICK pc \in {"confirm", "failed"} :
            /\ Outcome(w, pc)
            /\ \/ UNCHANGED commerce /\ (pc = "confirm" => Decided(r))
               \/ ~Decided(r) /\ Decide(r, d)
    BY <1>4
  <1>6. PICK c \in Locals :
            /\ ctx' = [ctx EXCEPT ![w] = c] /\ Carries(c) /\ c.pc = pc
            /\ c.request = r /\ c.batch = ctx[w].batch /\ c.command.line = d.line
    <2>1. pc \in {"read", "confirm", "report", "failed"} /\ ctx[w].pc \in OnRequest \cup {"quote"}
      BY <1>1, <1>5 DEF OnRequest
    <2> QED
      BY <1>5, <2>1, OutcomeCall
  <1>7. Carries(c)' /\ AtItem(c)'
    BY <1>1, <1>3, <1>5, <1>6 DEF Carries, Covers, AtItem, OnRequest, OnItem, InBatch
  <1>8. CASE UNCHANGED commerce /\ (pc = "confirm" => Decided(r))
    <2>1. Flight(c)
      BY <1>1, <1>5, <1>6, <1>8 DEF Flight, AtRequest, AtItem, OnRequest, OnItem, InBatch
    <2> HIDE DEF r
    <2> QED
      BY <1>3, <1>6, <1>8, <2>1, CtxOnly
  <1>9. CASE ~Decided(r) /\ Decide(r, d)
    <2>1. /\ revision \in [Lines -> Nat] /\ earned \in [Lines -> Nat] /\ paid \in [Lines -> Nat]
          /\ held \in [Lines -> BOOLEAN] /\ decision \in [Requests -> DecisionRow]
      BY DEF IInv, Shape
    <2>2. PICK row \in DecisionRow : /\ decision' = [decision EXCEPT ![r] = row]
                                     /\ row.state # "undecided" /\ row.command = d
      <3> DEFINE new == [state |-> IF d.action = "qualify" THEN "pending" ELSE "succeeded",
                         command |-> d,
                         amount |-> IF d.action = "qualify" THEN Remaining(d.line) ELSE 0]
      <3>1. Remaining(d.line) \in Nat
        BY <1>2, <2>1 DEF Remaining
      <3>2. new \in DecisionRow /\ new.state # "undecided" /\ new.command = d
        BY <1>2, <3>1 DEF DecisionRow
      <3>3. decision' = [decision EXCEPT ![r] = new]
        BY <1>9 DEF Decide
      <3> HIDE DEF new
      <3> QED
        BY <3>2, <3>3
    <2>3. /\ decision' \in [Requests -> DecisionRow] /\ decision'[r] = row
          /\ \A q \in Requests : q # r => decision'[q] = decision[q]
      BY <1>1, <2>1, <2>2
    <2>4. revision' = revision /\ earned' = earned
      BY <1>9 DEF Decide
    <2>5. paid' \in [Lines -> Nat]
      BY <1>2, <1>9, <2>1 DEF Decide
    <2>6. held' \in [Lines -> BOOLEAN]
      <3>1. PICK h \in BOOLEAN : h = (held[d.line] \/ d.action = "disqualify")
        BY <1>2, <2>1
      <3>2. held' = [held EXCEPT ![d.line] = h]
        BY <1>9, <3>1 DEF Decide
      <3> QED
        BY <2>1, <3>2
    <2>7. DecisionsGrow
      BY <2>2, <2>3 DEF DecisionsGrow, Decided
    <2>8. \A q \in Requests : Decided(q)' => /\ request[q].state # "absent"
                                             /\ decision'[q].command = request[q].command
      BY <1>1, <2>2, <2>3 DEF Decided, IInv, DecidedIsRecorded
    <2>9. Grows /\ (ctx' \in [Calls -> Locals] /\ InFlight' => Kept)
      BY <1>3, <2>1, <2>3, <2>4, <2>5, <2>6, <2>7, <2>8, CommerceSet
    <2>10. Decided(c.request)'
      BY <1>6, <2>2, <2>3 DEF Decided
    <2>11. Flight(c)'
      BY <1>1, <1>5, <1>6, <1>7, <2>10 DEF Flight, AtRequest, OnRequest
    <2>12. ctx' \in [Calls -> Locals] /\ InFlight'
      BY <1>6, <2>9, <2>11, CallSet
    <2> QED
      BY <2>9, <2>12
  <1> QED
    BY <1>5, <1>8, <1>9
-----------------------------------------------------------------------------
(* The surroundings, and every step.                                        *)

LEMMA SurroundingsStep ==
    ASSUME IInv, Surroundings
    PROVE  Kept
  <1>1. /\ revision \in [Lines -> Nat] /\ earned \in [Lines -> Nat] /\ paid \in [Lines -> Nat]
        /\ held \in [Lines -> BOOLEAN] /\ decision \in [Requests -> DecisionRow]
        /\ account \in Accounts \cup {NoAccount} /\ ctx \in [Calls -> Locals]
    BY DEF IInv, Shape
  <1>2. UNCHANGED <<request, item, ctx>> /\ account' \in Accounts \cup {NoAccount}
    BY <1>1 DEF Surroundings, ObserveLine, TransferConfirmed, AccountChanges
  <1>3. /\ revision' \in [Lines -> Nat] /\ earned' \in [Lines -> Nat] /\ paid' \in [Lines -> Nat]
        /\ held' \in [Lines -> BOOLEAN] /\ decision' \in [Requests -> DecisionRow]
        /\ \A r \in Requests : /\ decision'[r].command = decision[r].command
                               /\ Decided(r)' <=> Decided(r)
    <2>1. CASE \E l \in Lines, cents \in Cents, hold \in BOOLEAN : ObserveLine(l, cents, hold)
      <3>1. PICK l \in Lines, cents \in Cents, hold \in BOOLEAN : NewRevision(l, cents, hold)
        BY <2>1 DEF ObserveLine
      <3>2. cents \in Nat
        BY CommerceAssumption
      <3> QED
        BY <1>1, <3>1, <3>2 DEF NewRevision, Decided
    <2>2. CASE \E r \in Requests : TransferConfirmed(r)
      <3>1. PICK r \in Requests : TransferSucceeds(r)
        BY <2>2 DEF TransferConfirmed
      <3>2. UNCHANGED <<revision, earned, held>>
        BY <3>1 DEF TransferSucceeds
      <3> DEFINE row == [decision[r] EXCEPT !.state = "succeeded"]
      <3>3. /\ row \in DecisionRow /\ row.command = decision[r].command
            /\ row.state = "succeeded" /\ decision[r].state = "pending"
            /\ decision' = [decision EXCEPT ![r] = row]
        BY <1>1, <3>1 DEF TransferSucceeds, DecisionRow
      <3>4. paid' \in [Lines -> Nat]
        <4>1. PICK n \in Nat : n = decision[r].amount
          BY <1>1 DEF DecisionRow
        <4>2. PICK k : paid' = [paid EXCEPT ![k] = @ + n]
          BY <3>1, <4>1 DEF TransferSucceeds
        <4>3. \A l \in Lines : paid[l] \in Nat /\ paid[l] + n \in Nat
          BY <1>1
        <4>4. \A l \in Lines : paid'[l] = IF l = k THEN paid[l] + n ELSE paid[l]
          BY <1>1, <4>2
        <4> QED
          BY <1>1, <4>2, <4>3, <4>4
      <3> HIDE DEF row
      <3> QED
        BY <1>1, <3>2, <3>3, <3>4 DEF Decided
    <2>3. CASE \E a \in Accounts \cup {NoAccount} : AccountChanges(a)
      BY <1>1, <2>3 DEF AccountChanges, commerce, Decided
    <2> QED
      BY <2>1, <2>2, <2>3 DEF Surroundings
  <1>4. DecisionsGrow
    BY <1>3 DEF DecisionsGrow
  <1>5. \A r \in Requests : Decided(r)' => /\ request[r].state # "absent"
                                           /\ decision'[r].command = request[r].command
    BY <1>3 DEF IInv, DecidedIsRecorded
  <1>6. Grows /\ (ctx' \in [Calls -> Locals] /\ InFlight' => Kept)
    BY <1>2, <1>3, <1>4, <1>5, CommerceSet
  <1>7. InFlight'
    <2> SUFFICES ASSUME NEW w \in Calls, NEW x \in Locals, x = ctx'[w] PROVE Flight(x)'
      BY <1>1, <1>2 DEF InFlight, Flight, Carries, Covers, AtRequest, AtItem
    <2>1. Flight(x)
      BY <1>2, CallOf
    <2> QED
      BY <1>6, <2>1, FlightKept
  <1> QED
    BY <1>1, <1>2, <1>6, <1>7

LEMMA Stuttering ==
    ASSUME IInv, UNCHANGED vars
    PROVE  Kept
  <1> USE DEF vars, commerce
  <1>1. Grows
    BY DEF Grows, RequestsGrow, ItemsGrow, DecisionsGrow, Decided
  <1>2. (Shape /\ InFlight)'
    BY DEF IInv, Shape, InFlight, Flight, Carries, Covers, AtRequest, AtItem, Decided
  <1>3. (StoredNamesALine /\ DecidedIsRecorded /\ ConfirmedWasDecided /\ RequestsNotShared
            /\ ProofCoversItsLine)'
    BY DEF IInv, StoredNamesALine, DecidedIsRecorded, ConfirmedWasDecided, RequestsNotShared,
           ProofCoversItsLine, Decided
  <1> QED
    BY <1>1, <1>2, <1>3 DEF IInv, Kept

\* Every step keeps the invariant and what the tables already say.
LEMMA Inductive ==
    ASSUME IInv, [Next]_vars
    PROVE  Kept
  <1>1. ASSUME NEW w \in Calls, Begin(w)
        PROVE  Kept
    BY <1>1, BeginStep
  <1>2. ASSUME NEW w \in Calls, RunBatch(w)
        PROVE  Kept
    <2>1. ASSUME NEW d \in ctx[w].todo, NEW r \in Requests, UpsertItem(w, d, r)
          PROVE  Kept
      BY <2>1, UpsertStep
    <2>2. ASSUME \/ InsertBatch(w) \/ ListLines(w) \/ SelectLines(w) \/ FinishBatch(w)
                 \/ \E l \in Lines : PreviewLine(w, l, TRUE)
          PROVE  Kept
      BY <2>2, ListingStep
    <2>3. CASE SkipItem(w)
      BY <2>3, StateStep
    <2>4. CASE Quote(w)
      BY <2>4, AskingStep
    <2> QED
      BY <1>2, <2>1, <2>2, <2>3, <2>4 DEF RunBatch
  <1>3. ASSUME NEW w \in Calls, DecideRequest(w)
        PROVE  Kept
    <2>1. CASE SelectRequest(w) \/ ResolveDestination(w) \/ ReadRequest(w)
      BY <2>1, AskingStep
    <2>2. CASE SaveRequest(w)
      BY <2>2, SaveStep
    <2>3. CASE SendCommand(w)
      BY <2>3, SendStep
    <2>4. CASE ConfirmRequest(w)
      BY <2>4, ConfirmStep
    <2>5. CASE ReportSuccess(w) \/ RecordFailure(w)
      BY <2>5, StateStep
    <2> QED
      BY <1>3, <2>1, <2>2, <2>3, <2>4, <2>5 DEF DecideRequest
  <1>4. ASSUME NEW w \in Calls, Failing(w)
        PROVE  Kept
    <2>1. CASE CallFails(w) \/ CallEnds(w)
      BY <2>1, AskingStep
    <2>2. CASE \E l \in Lines : PreviewLine(w, l, FALSE)
      BY <2>2, ListingStep
    <2> QED
      BY <1>4, <2>1, <2>2 DEF Failing
  <1>5. CASE Surroundings
    BY <1>5, SurroundingsStep
  <1>6. CASE UNCHANGED vars
    BY <1>6, Stuttering
  <1> QED
    BY <1>1, <1>2, <1>3, <1>4, <1>5, <1>6 DEF Next

LEMMA Invariance == Spec => []IInv
  <1>1. Init => IInv
    BY Initially
  <1>2. IInv /\ [Next]_vars => IInv'
    BY Inductive DEF Kept
  <1> QED
    BY <1>1, <1>2, PTL DEF Spec
-----------------------------------------------------------------------------
(* That the total of finitely many candidates is a number.  MapThenSumSet   *)
(* adds one element after the other, whichever CHOOSE gives; what is said of *)
(* every subset is said by the absence of a least one without it.           *)

LEMMA LeastSubset ==
    ASSUME NEW S, IsFiniteSet(S), NEW T \in SUBSET SUBSET S, T # {}
    PROVE  \E s \in T : \A u \in T : u \subseteq s => u = s
  <1>1. T \subseteq FiniteSubsetsOf(S)
    BY FS_FiniteSubsetsOfFinite
  <1>2. IsWellFoundedOn(StrictSubsetOrdering(S), FiniteSubsetsOf(S))
    BY FS_StrictSubsetOrderingWellFounded
  <1>3. \E s \in T : \A u \in T : ~(<<u, s>> \in StrictSubsetOrdering(S))
    BY <1>1, <1>2, WFMin
  <1> QED
    BY <1>3 DEF StrictSubsetOrdering

First(s) == CHOOSE c \in s : TRUE

\* g[s] is the balance of the candidates of s, for every part s of S.
IsBalance(g, S) ==
    g = [s \in SUBSET S |-> IF s = {} THEN 0 ELSE First(s).remaining + g[s \ {First(s)}]]

LEMMA FirstIn == ASSUME NEW s, s # {} PROVE First(s) \in s
  BY DEF First

\* There is one balance of what two sets share.
LEMMA SameBalance ==
    ASSUME NEW S, NEW T \in SUBSET S, IsFiniteSet(S), NEW g, NEW h, IsBalance(g, S), IsBalance(h, T)
    PROVE  g[T] = h[T]
  <1> DEFINE B == {s \in SUBSET T : g[s] # h[s]}
  <1>1. SUFFICES ASSUME B # {} PROVE FALSE
    BY T \in SUBSET T
  <1>2. PICK s \in B : \A u \in B : u \subseteq s => u = s
    <2>1. B \in SUBSET SUBSET S
      OBVIOUS
    <2> HIDE DEF B
    <2> QED
      BY <1>1, <2>1, LeastSubset
  <1>3. s # {}
    BY <1>2 DEF IsBalance
  <1>4. First(s) \in s
    BY <1>3, FirstIn
  <1>5. g[s \ {First(s)}] = h[s \ {First(s)}]
    BY <1>2, <1>4
  <1>6. g[s] = First(s).remaining + g[s \ {First(s)}]
    BY <1>3 DEF IsBalance
  <1>7. h[s] = First(s).remaining + h[s \ {First(s)}]
    BY <1>3 DEF IsBalance
  <1> QED
    BY <1>5, <1>6, <1>7

\* A finite set has a balance: the recursion of MapThenSumSet is well-founded.
LEMMA BalanceExists ==
    ASSUME NEW S, IsFiniteSet(S)
    PROVE  \E g : IsBalance(g, S)
  <1> DEFINE B == {s \in SUBSET S : ~\E g : IsBalance(g, s)}
             of(v) == CHOOSE g : IsBalance(g, v)
  <1>1. SUFFICES ASSUME B # {} PROVE FALSE
    OBVIOUS
  <1>2. PICK s \in B : \A u \in B : u \subseteq s => u = s
    <2>1. B \in SUBSET SUBSET S
      OBVIOUS
    <2> HIDE DEF B
    <2> QED
      BY <1>1, <2>1, LeastSubset
  <1> DEFINE rest(u) == u \ {First(u)}
             h == [u \in SUBSET s |-> IF u = {} THEN 0 ELSE First(u).remaining + of(rest(u))[rest(u)]]
  <1>3. ASSUME NEW v \in SUBSET s, v # s
        PROVE  IsBalance(of(v), v) /\ IsFiniteSet(v)
    <2>1. \E g : IsBalance(g, v)
      BY <1>2, <1>3
    <2>2. IsFiniteSet(v)
      BY FS_Subset
    <2> QED
      BY <2>1, <2>2
  <1> HIDE DEF of
  <1>4. ASSUME NEW v \in SUBSET s, v # s
        PROVE  h[v] = of(v)[v]
    <2>1. IsBalance(of(v), v) /\ IsFiniteSet(v)
      BY <1>3, <1>4
    <2>2. CASE v = {}
      BY <2>1, <2>2 DEF IsBalance
    <2>3. CASE v # {}
      <3>1. First(v) \in v
        BY <2>3, FirstIn
      <3>2. rest(v) \in SUBSET s /\ rest(v) # s /\ rest(v) \in SUBSET v
        BY <3>1
      <3>3. IsBalance(of(rest(v)), rest(v))
        BY <1>3, <3>2
      <3>4. of(v)[rest(v)] = of(rest(v))[rest(v)]
        BY <2>1, <3>2, <3>3, SameBalance
      <3>5. of(v)[v] = First(v).remaining + of(v)[rest(v)]
        BY <2>1, <2>3 DEF IsBalance
      <3> QED
        BY <2>3, <3>4, <3>5
    <2> QED
      BY <2>2, <2>3
  <1>5. ASSUME NEW u \in SUBSET s, u # {}
        PROVE  h[u] = First(u).remaining + h[rest(u)]
    <2>1. First(u) \in u
      BY <1>5, FirstIn
    <2>2. rest(u) \in SUBSET s /\ rest(u) # s
      BY <2>1
    <2>3. h[rest(u)] = of(rest(u))[rest(u)]
      BY <1>4, <2>2
    <2> QED
      BY <1>5, <2>3
  <1>6. h[{}] = 0
    OBVIOUS
  <1>7. h = [u \in SUBSET s |-> h[u]]
    OBVIOUS
  <1> HIDE DEF h
  <1>8. IsBalance(h, s)
    BY <1>5, <1>6, <1>7 DEF IsBalance
  <1> QED
    BY <1>2, <1>8

LEMMA BalanceIsNumber ==
    ASSUME NEW S \in Candidates, NEW g, IsBalance(g, S)
    PROVE  g[S] \in Nat
  <1> DEFINE B == {s \in SUBSET S : g[s] \notin Nat}
  <1>1. SUFFICES ASSUME B # {} PROVE FALSE
    BY S \in SUBSET S
  <1>2. PICK s \in B : \A u \in B : u \subseteq s => u = s
    <2>1. B \in SUBSET SUBSET S /\ IsFiniteSet(S)
      BY DEF Candidates
    <2> HIDE DEF B
    <2> QED
      BY <1>1, <2>1, LeastSubset
  <1>3. s # {}
    BY <1>2 DEF IsBalance
  <1>4. First(s) \in s /\ First(s) \in Candidate
    BY <1>3, FirstIn DEF Candidates
  <1>5. g[s \ {First(s)}] \in Nat /\ First(s).remaining \in Nat
    BY <1>2, <1>4 DEF Candidate
  <1>6. g[s] = First(s).remaining + g[s \ {First(s)}]
    BY <1>3 DEF IsBalance
  <1> QED
    BY <1>2, <1>5, <1>6

LEMMA TotalsAreNumbers == Totals \subseteq Nat
  <1> SUFFICES ASSUME NEW S \in Candidates PROVE Total(S) \in Nat
    BY DEF Totals
  <1> DEFINE R(g) == g = [s \in SUBSET S |-> IF s = {} THEN 0
                              ELSE (CHOOSE c \in s : TRUE).remaining + g[s \ {CHOOSE c \in s : TRUE}]]
  <1>1. Total(S) = (CHOOSE g : R(g))[S]
    BY Zenon DEF Total, MapThenSumSet, MapThenFoldSet
  <1>2. ASSUME NEW g PROVE R(g) <=> IsBalance(g, S)
    BY DEF IsBalance, First
  <1>3. \E g : IsBalance(g, S)
    BY BalanceExists DEF Candidates
  <1> HIDE DEF R
  <1>4. IsBalance(CHOOSE g : R(g), S)
    BY <1>2, <1>3
  <1> QED
    BY <1>1, <1>4, BalanceIsNumber

-----------------------------------------------------------------------------
(* What Shape leaves of the types: the listing, the statements and the      *)
(* bound of the revisions.                                                  *)

Tables ==
    /\ revision \in [Lines -> 0 .. MaxRevision]
    /\ review \in Seq(Lines)
    /\ batch \in [Batches -> [state : {"absent", "open", "completed"}, lines : SUBSET Lines]]

LEMMA LeastNumber ==
    ASSUME NEW I \in SUBSET Nat, I # {}
    PROVE  Min(I) \in I
  <1>1. IsWellFoundedOn(OpToRel(<, Nat), Nat)
    BY NatLessThanWellFounded
  <1>2. PICK i \in I : \A j \in I : ~(<<j, i>> \in OpToRel(<, Nat))
    BY <1>1, WFMin
  <1>3. \A j \in I : i <= j
    <2> TAKE j \in I
    <2>1. ~(<<j, i>> \in {p \in Nat \X Nat : p[1] < p[2]})
      BY <1>2, Zenon DEF OpToRel
    <2> QED
      BY <2>1
  <1> QED
    BY <1>3 DEF Min

LEMMA RemovedFromListing ==
    ASSUME NEW S, NEW s \in Seq(S), NEW e
    PROVE  RemoveFirst(s, e) \in Seq(S)
  <1> DEFINE I == {i \in 1 .. Len(s) : s[i] = e}
             k == SelectInSeq(s, LAMBDA v : v = e)
  <1>1. CASE I = {}
    BY <1>1 DEF RemoveFirst
  <1>2. CASE I # {}
    <2>1. Min(I) \in I
      <3>1. I \in SUBSET Nat
        OBVIOUS
      <3> HIDE DEF I
      <3> QED
        BY <1>2, <3>1, LeastNumber
    <2>2. k = Min(I)
      BY <1>2, Zenon DEF SelectInSeq
    <2>3. k \in 1 .. Len(s)
      BY <2>1, <2>2
    <2>4. RemoveFirst(s, e) = RemoveAt(s, k)
      BY <1>2, Zenon DEF RemoveFirst
    <2> HIDE DEF k
    <2>5. SubSeq(s, 1, k - 1) \in Seq(S) /\ SubSeq(s, k + 1, Len(s)) \in Seq(S)
      BY <2>3, SubSeqProperties
    <2> QED
      BY <2>4, <2>5 DEF RemoveAt
  <1> QED
    BY <1>1, <1>2

LEMMA TablesInitially == Init => Tables
  BY CommerceAssumption DEF Init, CommerceInit, Tables

LEMMA TablesStep ==
    ASSUME IInv, Tables, [Next]_vars
    PROVE  Tables'
  <1> USE DEF Tables
  <1>1. ASSUME NEW l \in Lines, NEW cents \in Cents, NEW hold \in BOOLEAN, ObserveLine(l, cents, hold)
        PROVE  Tables'
    <2>1. revision' \in [Lines -> 0 .. MaxRevision]
      <3>1. revision[l] + 1 \in 0 .. MaxRevision
        BY <1>1, CommerceAssumption DEF ObserveLine, NewRevision
      <3> QED
        BY <1>1, <3>1 DEF ObserveLine, NewRevision
    <2>2. RemoveFirst(review, l) \in Seq(Lines)
      BY RemovedFromListing
    <2>3. review' \in Seq(Lines)
      BY <1>1, <2>2 DEF ObserveLine
    <2> QED
      BY <1>1, <2>1, <2>3 DEF ObserveLine
  <1>2. CASE \/ \E r \in Requests : TransferConfirmed(r)
             \/ \E a \in Accounts \cup {NoAccount} : AccountChanges(a)
    BY <1>2 DEF TransferConfirmed, TransferSucceeds, AccountChanges, commerce
  <1>3. ASSUME NEW w \in Calls, RunBatch(w) \/ Failing(w) \/ Begin(w)
        PROVE  Tables'
    <2>1. UNCHANGED <<revision, review>>
      BY <1>3 DEF RunBatch, Failing, Begin, InsertBatch, ListLines, PreviewLine, SelectLines,
                  UpsertItem, SkipItem, Quote, FinishBatch, CallFails, CallEnds, SelectBatch,
                  Approve, ReplayRequest, commerce
    <2>2. CASE InsertBatch(w) /\ batch' # batch
      <3>1. ctx[w].lines \in SUBSET Lines
        BY CallOf DEF Locals
      <3> QED
        BY <2>1, <2>2, <3>1 DEF InsertBatch, NewBatch
    <2>3. CASE FinishBatch(w)
      BY <2>1, <2>3 DEF FinishBatch
    <2>4. CASE UNCHANGED batch
      BY <2>1, <2>4
    <2> QED
      BY <1>3, <2>2, <2>3, <2>4
         DEF RunBatch, Failing, Begin, InsertBatch, ListLines, PreviewLine, SelectLines,
             UpsertItem, SkipItem, Quote, CallFails, CallEnds, SelectBatch, Approve, ReplayRequest
  <1>4. ASSUME NEW w \in Calls, DecideRequest(w)
        PROVE  Tables'
    BY <1>4 DEF DecideRequest, SelectRequest, ResolveDestination, SaveRequest, ReadRequest,
                SendCommand, Decide, ConfirmRequest, ReportSuccess, RecordFailure, commerce
  <1>5. CASE UNCHANGED vars
    BY <1>5 DEF vars, commerce
  <1> QED
    BY <1>1, <1>2, <1>3, <1>4, <1>5 DEF Next, Surroundings

-----------------------------------------------------------------------------
(* The refinement of SettlementBooks.  IInv does not say that a statement   *)
(* was saved before its items, which is what Enter asks.                    *)

Entered == \A b \in Batches, l \in Lines :
    item[b][l].state = "absent" <=> item[b][l].request = NoRequest

Opened(x) == x.batch # NoBatch /\ x.pc \notin {"idle", "insert"} =>
    batch[x.batch].state # "absent"

BInv == Entered /\ \A w \in Calls : Opened(ctx[w])

LEMMA BooksInitially == Init => BInv /\ Books!Init
  <1> SUFFICES ASSUME Init PROVE BInv /\ Books!Init
    OBVIOUS
  <1> USE DEF Init, CommerceInit
  <1>1. \A b \in Batches, l \in Lines : item[b][l].state = "absent" /\ item[b][l].request = NoRequest
    BY DEF NoItem
  <1>2. \A r \in Requests : request[r].state = "absent" /\ ~Decided(r)
    BY DEF NoRow, Decided, Undecided
  <1>3. \A b \in Batches : batch[b].state = "absent"
    OBVIOUS
  <1>4. \A w \in Calls : Opened(ctx[w])
    BY DEF Opened, Idle
  <1>5. BInv
    BY <1>1, <1>4 DEF BInv, Entered
  <1>6. OnBooks = [r \in Requests |-> NoCommand] /\ DecidedAs = [r \in Requests |-> NoCommand]
    BY <1>2 DEF OnBooks, DecidedAs
  <1>7. ConfirmedRequests = {} /\ Statements = {} /\ SettledItems = {}
    BY <1>1, <1>2, <1>3 DEF ConfirmedRequests, Statements, SettledItems
  <1>8. ItemRequests = [b \in Batches |-> [l \in Lines |-> NoRequest]]
    BY <1>1 DEF ItemRequests
  <1> QED
    BY <1>5, <1>6, <1>7, <1>8 DEF Books!Init

StatementsKept == \A b \in Batches : batch[b].state # "absent" => batch'[b].state # "absent"

\* A step of one call leaves the others where they are.
LEMMA PlacesKept ==
    ASSUME IInv, BInv, StatementsKept, NEW w \in Calls, NEW c,
           ctx' = [ctx EXCEPT ![w] = c], Opened(c)'
    PROVE  \A v \in Calls : Opened(ctx[v])'
  <1> SUFFICES ASSUME NEW v \in Calls PROVE Opened(ctx[v])'
    OBVIOUS
  <1>1. ctx'[v] = IF v = w THEN c ELSE ctx[v]
    BY DEF IInv, Shape
  <1>2. CASE v = w
    BY <1>1, <1>2 DEF Opened
  <1>3. CASE v # w
    <2>1. Opened(ctx[v]) /\ ctx[v] \in Locals
      BY CallOf DEF BInv
    <2> QED
      BY <1>1, <1>3, <2>1 DEF Opened, StatementsKept, Locals
  <1> QED
    BY <1>2, <1>3

\* A call that goes on stays in its batch.
LEMMA PlaceMoves ==
    ASSUME IInv, BInv, StatementsKept, NEW w \in Calls, NEW c,
           ctx' = [ctx EXCEPT ![w] = c], ctx[w].pc # "idle",
           c.batch = ctx[w].batch,
           ctx[w].pc = "insert" => batch'[ctx[w].batch].state # "absent"
    PROVE  \A v \in Calls : Opened(ctx[v])'
  <1>1. Opened(ctx[w]) /\ ctx[w] \in Locals
    BY CallOf DEF BInv
  <1>2. Opened(c)'
    BY <1>1 DEF Opened, StatementsKept, Locals
  <1> QED
    BY <1>2, PlacesKept

LEMMA PlaceEnds ==
    ASSUME IInv, BInv, StatementsKept, NEW w \in Calls, Ends(w)
    PROVE  \A v \in Calls : Opened(ctx[v])'
  <1>1. Opened(Idle)'
    BY DEF Opened, Idle
  <1> QED
    BY <1>1, PlacesKept DEF Ends

\* A call that comes to the end of a candidate, of a decision or of a step of either.
LEMMA PlaceGoes ==
    ASSUME IInv, BInv, StatementsKept, NEW w \in Calls, ctx[w].pc \notin {"idle", "insert"},
           \/ Continues(w)
           \/ \E pc : Outcome(w, pc) \/ Goes(w, pc)
    PROVE  \A v \in Calls : Opened(ctx[v])'
  <1>0. ctx[w] \in Locals /\ ctx \in [Calls -> Locals]
    BY CallOf DEF IInv, Shape
  <1>1. CASE Continues(w)
    <2> DEFINE c == [Idle EXCEPT !.pc = "items", !.batch = ctx[w].batch, !.todo = ctx[w].todo]
    <2>1. CASE ctx[w].batch = NoBatch
      BY <1>1, <2>1, PlaceEnds DEF Continues
    <2>2. CASE ctx[w].batch # NoBatch
      <3>1. ctx' = [ctx EXCEPT ![w] = c]
        BY <1>1, <2>2 DEF Continues
      <3>2. c.batch = ctx[w].batch /\ c.pc = "items"
        BY DEF Idle
      <3> HIDE DEF c
      <3> QED
        BY <3>1, <3>2, PlaceMoves
    <2> QED
      BY <2>1, <2>2
  <1>2. ASSUME NEW pc, Outcome(w, pc)
        PROVE  \A v \in Calls : Opened(ctx[v])'
    <2> DEFINE d == [NoCommand EXCEPT !.line = ctx[w].command.line]
               c == [ctx[w] EXCEPT !.pc = pc, !.command = d]
    <2>1. ctx' = [ctx EXCEPT ![w] = c]
      BY <1>0, <1>2 DEF Outcome
    <2>2. c.batch = ctx[w].batch /\ c.pc = pc
      BY <1>0 DEF Locals
    <2> HIDE DEF c
    <2> QED
      BY <1>2, <2>1, <2>2, PlaceMoves
  <1>3. ASSUME NEW pc, Goes(w, pc)
        PROVE  \A v \in Calls : Opened(ctx[v])'
    <2> DEFINE c == [ctx[w] EXCEPT !.pc = pc]
    <2>1. ctx' = [ctx EXCEPT ![w] = c]
      BY <1>0, <1>3 DEF Goes
    <2>2. c.batch = ctx[w].batch /\ c.pc = pc /\ c.request = ctx[w].request
      BY <1>0 DEF Locals
    <2> HIDE DEF c
    <2> QED
      BY <1>3, <2>1, <2>2, PlaceMoves
  <1> QED
    BY <1>1, <1>2, <1>3

-----------------------------------------------------------------------------
(* The steps that leave the books as they are.                              *)

\* Every step: the invariant, and a step of the books or a stutter.
Booked == BInv' /\ [Books!Next]_Books!vars

SameRows == UNCHANGED <<request, item, batch, decision>>

LEMMA SameBooks ==
    ASSUME IInv, BInv, SameRows, \A v \in Calls : Opened(ctx[v])'
    PROVE  Booked
  <1>1. UNCHANGED <<OnBooks, DecidedAs, ConfirmedRequests, Statements, ItemRequests, SettledItems>>
    BY DEF SameRows, OnBooks, DecidedAs, Decided, ConfirmedRequests, Statements, ItemRequests, SettledItems
  <1>2. Entered'
    BY DEF SameRows, BInv, Entered
  <1> QED
    BY <1>1, <1>2 DEF Booked, BInv, Books!vars

LEMMA SameStatements == SameRows => StatementsKept
  BY DEF SameRows, StatementsKept

LEMMA BeginBooks ==
    ASSUME IInv, BInv, NEW w \in Calls, Begin(w)
    PROVE  Booked
  <1>0. SameRows
    BY DEF Begin, SelectBatch, Approve, ReplayRequest, SameRows, commerce
  <1>1. ASSUME NEW b \in Batches, NEW lines \in Selections, SelectBatch(w, b, lines)
        PROVE  \A v \in Calls : Opened(ctx[v])'
    <2>1. PICK c : /\ ctx' = [ctx EXCEPT ![w] = c]
                   /\ c.batch = b /\ c.pc \in {"insert", "list"}
                   /\ c.pc = "list" => batch[b].state # "absent"
      <3> DEFINE d == [Idle EXCEPT !.batch = b, !.lines = lines,
                        !.pc = IF batch[b].state = "absent" THEN "insert" ELSE "list"]
      <3>1. ctx' = [ctx EXCEPT ![w] = d]
        BY <1>1 DEF SelectBatch
      <3>2. /\ d.batch = b /\ d.pc \in {"insert", "list"}
            /\ d.pc = "list" => batch[b].state # "absent"
        BY DEF Idle
      <3> QED
        BY <3>1, <3>2
    <2>3. Opened(c)'
      BY <1>0, <2>1, CallsAssumption DEF Opened, SameRows
    <2> QED
      BY <1>0, <2>1, <2>3, SameStatements, PlacesKept
  <1>2. ASSUME NEW l \in Lines, NEW r \in Requests, NEW action \in PanelActions,
               NEW n \in 1 .. MaxRevision, Approve(w, l, r, action, n)
        PROVE  \A v \in Calls : Opened(ctx[v])'
    <2> DEFINE d == [NoCommand EXCEPT !.line = l, !.action = action, !.revision = n]
               c == [Idle EXCEPT !.pc = "select", !.request = r, !.command = d]
    <2>1. ctx' = [ctx EXCEPT ![w] = c]
      BY <1>2 DEF Approve
    <2>2. c.batch = NoBatch /\ c.request = r
      BY DEF Idle
    <2> HIDE DEF c
    <2>3. Opened(c)'
      BY <1>0, <1>2, <2>2 DEF Opened, SameRows, Approve
    <2> QED
      BY <1>0, <2>1, <2>3, SameStatements, PlacesKept
  <1>3. ASSUME NEW r \in Requests, ReplayRequest(w, r)
        PROVE  \A v \in Calls : Opened(ctx[v])'
    <2> DEFINE c == [Idle EXCEPT !.pc = "read", !.request = r]
    <2>1. ctx' = [ctx EXCEPT ![w] = c]
      BY <1>3 DEF ReplayRequest
    <2>2. c.batch = NoBatch /\ c.pc = "read"
      BY DEF Idle
    <2> HIDE DEF c
    <2>3. Opened(c)'
      BY <2>2 DEF Opened
    <2> QED
      BY <1>0, <2>1, <2>3, SameStatements, PlacesKept
  <1> QED
    BY <1>0, <1>1, <1>2, <1>3, SameBooks DEF Begin

LEMMA QuietBooks ==
    ASSUME IInv, BInv, NEW w \in Calls,
           \/ ListLines(w) \/ SelectLines(w) \/ Quote(w)
           \/ \E l \in Lines, answers \in BOOLEAN : PreviewLine(w, l, answers)
           \/ SelectRequest(w) \/ ResolveDestination(w) \/ ReadRequest(w)
           \/ CallFails(w) \/ CallEnds(w)
    PROVE  Booked
  <1>0. SameRows /\ StatementsKept
    <2>1. SameRows
      BY DEF ListLines, SelectLines, Quote, PreviewLine, SelectRequest, ResolveDestination,
             ReadRequest, CallFails, CallEnds, SameRows, commerce
    <2> QED
      BY <2>1, SameStatements
  <1>1. ctx[w] \in Locals /\ ctx \in [Calls -> Locals] /\ AtItem(ctx[w])
    BY CallOf DEF IInv, Shape, Flight
  <1>2. CASE ListLines(w)
    <2> DEFINE c == [ctx[w] EXCEPT !.pc = "preview", !.unseen = Listed]
    <2>1. ctx' = [ctx EXCEPT ![w] = c] /\ c.batch = ctx[w].batch /\ c.pc = "preview"
      BY <1>1, <1>2 DEF ListLines, Locals
    <2> HIDE DEF c
    <2> QED
      BY <1>0, <1>2, <2>1, PlaceMoves, SameBooks DEF ListLines
  <1>3. ASSUME NEW l \in Lines, NEW answers \in BOOLEAN, PreviewLine(w, l, answers)
        PROVE  Booked
    <2> DEFINE d == [line |-> l, ready |-> answers /\ Clear(l) /\ account # NoAccount,
                     remaining |-> Remaining(l)]
               c == [ctx[w] EXCEPT !.unseen = ctx[w].unseen \ {l}, !.seen = ctx[w].seen \cup {d}]
    <2>1. ctx' = [ctx EXCEPT ![w] = c] /\ c.batch = ctx[w].batch /\ c.pc = "preview"
      BY <1>1, <1>3 DEF PreviewLine, Locals
    <2> HIDE DEF c
    <2> QED
      BY <1>0, <1>3, <2>1, PlaceMoves, SameBooks DEF PreviewLine
  <1>4. CASE SelectLines(w)
    <2> DEFINE todo == Chosen(WithPolicy(ctx[w].seen), ctx[w].lines)
               c == [ctx[w] EXCEPT !.pc = "items", !.seen = {}, !.lines = {}, !.todo = todo]
    <2>1. ctx' = [ctx EXCEPT ![w] = c] /\ c.batch = ctx[w].batch /\ c.pc = "items"
      BY <1>1, <1>4 DEF SelectLines, Locals
    <2> HIDE DEF c
    <2> QED
      BY <1>0, <1>4, <2>1, PlaceMoves, SameBooks DEF SelectLines
  <1>5. CASE Quote(w)
    <2> DEFINE d == [ctx[w].command EXCEPT !.revision = revision[ctx[w].command.line]]
               c == [ctx[w] EXCEPT !.pc = "select", !.command = d]
    <2>1. ctx' = [ctx EXCEPT ![w] = c] /\ c.batch = ctx[w].batch
      BY <1>1, <1>5 DEF Quote, Locals
    <2> HIDE DEF c
    <2> QED
      BY <1>0, <1>5, <2>1, PlaceMoves, SameBooks DEF Quote
  <1>6. CASE SelectRequest(w)
    <2>1. \/ Goes(w, "terms")
          \/ \E pc \in {"read", "failed"} : Outcome(w, pc)
      BY <1>6 DEF SelectRequest, Compared
    <2> QED
      BY <1>0, <1>6, <2>1, PlaceGoes, SameBooks DEF SelectRequest
  <1>7. CASE ResolveDestination(w)
    <2>1. CASE ctx' = [ctx EXCEPT ![w].pc = "save", ![w].command.destination = account]
      <3> DEFINE d == [ctx[w].command EXCEPT !.destination = account]
                 c == [ctx[w] EXCEPT !.pc = "save", !.command = d]
      <3>1. ctx' = [ctx EXCEPT ![w] = c] /\ c.batch = ctx[w].batch /\ c.request = ctx[w].request
        BY <1>1, <2>1 DEF Locals
      <3> HIDE DEF c
      <3> QED
        BY <1>0, <1>7, <3>1, PlaceMoves, SameBooks DEF ResolveDestination
    <2>2. CASE Outcome(w, "failed") \/ Goes(w, "save")
      BY <1>0, <1>7, <2>2, PlaceGoes, SameBooks DEF ResolveDestination
    <2> QED
      BY <1>7, <2>1, <2>2 DEF ResolveDestination
  <1>8. CASE ReadRequest(w)
    <2> DEFINE stored == request[ctx[w].request].command
               c == [ctx[w] EXCEPT !.pc = "send", !.command = stored]
    <2>1. CASE Outcome(w, "report")
      BY <1>0, <1>8, <2>1, PlaceGoes, SameBooks DEF ReadRequest
    <2>2. CASE ctx' = [ctx EXCEPT ![w].pc = "send", ![w].command = stored]
      <3>1. ctx' = [ctx EXCEPT ![w] = c] /\ c.batch = ctx[w].batch /\ c.pc = "send"
        BY <1>1, <2>2 DEF Locals
      <3> HIDE DEF c
      <3> QED
        BY <1>0, <1>8, <3>1, PlaceMoves, SameBooks DEF ReadRequest
    <2> QED
      BY <1>8, <2>1, <2>2 DEF ReadRequest
  <1>9. CASE CallFails(w)
    BY <1>0, <1>9, PlaceGoes, SameBooks DEF CallFails
  <1>10. CASE CallEnds(w)
    BY <1>0, <1>10, PlaceEnds, SameBooks DEF CallEnds
  <1> QED
    BY <1>2, <1>3, <1>4, <1>5, <1>6, <1>7, <1>8, <1>9, <1>10

-----------------------------------------------------------------------------
(* The steps that write the books.                                          *)

LEMMA BatchBooks ==
    ASSUME IInv, BInv, Tables, NEW w \in Calls, InsertBatch(w) \/ FinishBatch(w)
    PROVE  Booked
  <1> DEFINE b == ctx[w].batch
  <1>1. ctx[w] \in Locals /\ ctx \in [Calls -> Locals] /\ AtItem(ctx[w]) /\ Opened(ctx[w])
    BY CallOf DEF IInv, Shape, Flight, BInv
  <1>2. ctx[w].pc \in {"insert", "items"} /\ b \in Batches
    BY <1>1 DEF InsertBatch, FinishBatch, AtItem, InBatch, Locals
  <1>3. UNCHANGED <<request, item, decision>>
    BY DEF InsertBatch, FinishBatch, commerce
  <1>4. /\ UNCHANGED <<OnBooks, DecidedAs, ConfirmedRequests, ItemRequests, SettledItems>>
        /\ Entered'
    BY <1>3 DEF OnBooks, DecidedAs, Decided, ConfirmedRequests, ItemRequests, SettledItems,
                BInv, Entered
  <1>5. CASE UNCHANGED batch
    <2>1. SameRows /\ Ends(w)
      BY <1>2, <1>3, <1>5 DEF SameRows, InsertBatch, FinishBatch, Tables, NewBatch
    <2> QED
      BY <2>1, SameStatements, PlaceEnds, SameBooks
  <1>6. ASSUME NEW row, row.state # "absent", batch' = [batch EXCEPT ![b] = row],
               (Goes(w, "list") /\ ctx[w].pc = "insert") \/ Ends(w)
        PROVE  Booked
    <2>1. /\ batch'[b].state # "absent"
          /\ \A d \in Batches : d # b => batch'[d] = batch[d]
      BY <1>2, <1>6 DEF Tables
    <2>2. Statements' = Statements \cup {b} /\ StatementsKept
      BY <1>2, <2>1 DEF Statements, StatementsKept
    <2>3. \A v \in Calls : Opened(ctx[v])'
      <3>1. CASE Goes(w, "list") /\ ctx[w].pc = "insert"
        <4> DEFINE c == [ctx[w] EXCEPT !.pc = "list"]
        <4>1. ctx' = [ctx EXCEPT ![w] = c] /\ c.batch = ctx[w].batch /\ c.pc = "list"
          BY <1>1, <3>1 DEF Goes, Locals
        <4> HIDE DEF c
        <4> QED
          BY <1>2, <1>4, <2>1, <2>2, <3>1, <4>1, PlaceMoves
      <3>2. CASE Ends(w)
        BY <1>4, <2>2, <3>2, PlaceEnds
      <3> QED
        BY <1>6, <3>1, <3>2
    <2>4. Books!Open(b)
      BY <1>4, <2>2 DEF Books!Open
    <2> QED
      BY <1>2, <1>4, <2>3, <2>4 DEF Booked, BInv, Books!Next
  <1>7. CASE InsertBatch(w)
    <2>1. \/ UNCHANGED batch
          \/ batch' = [batch EXCEPT ![b] = NewBatch(ctx[w].lines)] /\ Goes(w, "list")
      BY <1>7 DEF InsertBatch
    <2>2. NewBatch(ctx[w].lines).state # "absent" /\ ctx[w].pc = "insert"
      BY <1>7 DEF NewBatch, InsertBatch
    <2> QED
      BY <1>5, <1>6, <2>1, <2>2
  <1>8. CASE FinishBatch(w)
    <2> DEFINE row == [batch[b] EXCEPT !.state = "completed"]
    <2>1. batch' = [batch EXCEPT ![b] = row] /\ row.state # "absent"
      BY <1>2, <1>8 DEF FinishBatch, Tables
    <2> HIDE DEF row
    <2> QED
      BY <1>6, <1>8, <2>1 DEF FinishBatch
  <1> QED
    BY <1>7, <1>8

\* A step that writes one item: its state, or the id it takes.
LEMMA ItemBooks ==
    ASSUME IInv, BInv, UNCHANGED <<request, batch, decision>>,
           NEW b \in Batches, NEW l \in Lines, NEW row \in ItemRow, MayBecome(b, l, row),
           item' = [item EXCEPT ![b][l] = row], row.request # NoRequest,
           batch[b].state # "absent",
           item[b][l].state = "absent" => FreshRequest(row.request) /\ row.state # "confirmed",
           \A v \in Calls : Opened(ctx[v])'
    PROVE  Booked
  <1>1. item \in [Batches -> [Lines -> ItemRow]] /\ item[b][l] \in ItemRow
    BY DEF IInv, Shape
  <1>2. /\ item'[b][l] = row
        /\ \A d \in Batches, k \in Lines : d # b \/ k # l => item'[d][k] = item[d][k]
    BY <1>1
  <1>3. row.request \in Requests /\ row.state # "absent"
    BY DEF MayBecome, ItemRow
  <1>4. Entered'
    BY <1>2, <1>3 DEF BInv, Entered
  <1>6. UNCHANGED <<OnBooks, DecidedAs, ConfirmedRequests, Statements>>
    BY DEF OnBooks, DecidedAs, Decided, ConfirmedRequests, Statements
  <1>7. SettledItems' = IF row.state = "confirmed" THEN SettledItems \cup {<<b, l>>} ELSE SettledItems
    BY <1>2 DEF SettledItems, MayBecome
  <1>8. ItemRequests' = [ItemRequests EXCEPT ![b][l] = row.request]
    <2>1. \A d \in Batches, k \in Lines :
            item'[d][k].request = IF d = b /\ k = l THEN row.request ELSE item[d][k].request
      BY <1>2
    <2> DEFINE of(d) == [k \in Lines |-> item[d][k].request]
    <2>2. ItemRequests = [d \in Batches |-> of(d)] /\ ItemRequests' = [d \in Batches |-> of(d)']
      BY DEF ItemRequests
    <2>3. of(b)' = [of(b) EXCEPT ![l] = row.request] /\ \A d \in Batches : d # b => of(d)' = of(d)
      BY <2>1
    <2> HIDE DEF of
    <2> QED
      BY <2>2, <2>3
  <1>9. CASE item[b][l].state = "absent"
    <2>1. UNCHANGED SettledItems
      BY <1>7, <1>9
    <2>2. b \in Statements /\ ItemRequests[b][l] = NoRequest
      BY <1>9 DEF Statements, ItemRequests, BInv, Entered
    <2>3. /\ OnBooks[row.request] = NoCommand
          /\ \A d \in Batches, k \in Lines : ItemRequests[d][k] # row.request
      BY <1>3, <1>9 DEF FreshRequest, OnBooks, ItemRequests
    <2>4. Books!Enter(b, l, row.request)
      BY <1>6, <1>8, <2>1, <2>2, <2>3 DEF Books!Enter
    <2> QED
      BY <1>3, <1>4, <2>4 DEF Booked, BInv, Books!Next
  <1>10. CASE item[b][l].state # "absent"
    <2>1. row.request = item[b][l].request /\ ItemRequests[b][l] = row.request
      BY <1>10 DEF MayBecome, ItemRequests
    <2>2. UNCHANGED ItemRequests
      BY <1>8, <2>1 DEF ItemRequests
    <2>3. CASE row.state = "confirmed"
      <3>1. row.request \in ConfirmedRequests /\ OnBooks[row.request].line = l
        BY <2>3 DEF MayBecome, ConfirmedRequests, OnBooks
      <3>2. Books!Settle(b, l)
        BY <1>6, <1>7, <2>1, <2>2, <2>3, <3>1 DEF Books!Settle
      <3> QED
        BY <1>4, <3>2 DEF Booked, BInv, Books!Next
    <2>4. CASE row.state # "confirmed"
      BY <1>4, <1>6, <1>7, <2>2, <2>4 DEF Booked, BInv, Books!vars
    <2> QED
      BY <2>3, <2>4
  <1> QED
    BY <1>9, <1>10

LEMMA UpsertBooks ==
    ASSUME IInv, BInv, NEW w \in Calls, NEW d \in ctx[w].todo, NEW r \in Requests, UpsertItem(w, d, r)
    PROVE  Booked
  <1> DEFINE b == ctx[w].batch
             l == d.line
             old == item[b][l]
             new == Upserted(old, r)
             rest == [ctx[w] EXCEPT !.todo = ctx[w].todo \ {d}]
             command == [NoCommand EXCEPT !.line = l, !.proof = d.proof]
             begun == [rest EXCEPT !.pc = IF d.ready THEN "quote" ELSE "skip", !.request = r,
                            !.command = command]
             next == IF new.state = "confirmed" THEN rest ELSE begun
  <1>1. /\ ctx[w] \in Locals /\ AtItem(ctx[w]) /\ ctx[w].pc = "items" /\ Opened(ctx[w])
        /\ ctx \in [Calls -> Locals]
    BY CallOf DEF Flight, UpsertItem, IInv, Shape, BInv
  <1>2. b \in Batches /\ l \in Lines /\ batch[b].state # "absent"
    BY <1>1 DEF Locals, Selected, AtItem, InBatch, Opened
  <1>3. item \in [Batches -> [Lines -> ItemRow]] /\ old \in ItemRow
    BY <1>2 DEF IInv, Shape
  <1>4. /\ new \in ItemRow /\ new.state # "absent" /\ new.request = r
        /\ old.state # "absent" => new = old
        /\ old.state = "absent" => new.state = "pending" /\ FreshRequest(r)
    BY <1>3 DEF UpsertItem, Upserted, ItemRow
  <1>5. MayBecome(b, l, new)
    <2>1. CASE old.state = "absent"
      BY <1>4, <2>1 DEF MayBecome, FreshRequest
    <2>2. CASE old.state # "absent"
      BY <1>2, <1>4, <2>2 DEF MayBecome, IInv, ConfirmedWasDecided, RequestsNotShared
    <2> QED
      BY <2>1, <2>2
  <1>6. item' = [item EXCEPT ![b][l] = new] /\ ctx' = [ctx EXCEPT ![w] = next]
    BY DEF UpsertItem
  <1>7. next.batch = b
    BY <1>1 DEF Locals
  <1>8. UNCHANGED <<request, batch, decision>>
    BY DEF UpsertItem, commerce
  <1>9. StatementsKept
    BY <1>8 DEF StatementsKept
  <1> HIDE DEF new, next
  <1>11. \A v \in Calls : Opened(ctx[v])'
    BY <1>1, <1>6, <1>7, <1>9, PlaceMoves
  <1>12. r # NoRequest
    BY CallsAssumption
  <1> HIDE DEF b, l
  <1> QED
    BY <1>2, <1>4, <1>5, <1>6, <1>8, <1>11, <1>12, ItemBooks DEF old

LEMMA StateBooks ==
    ASSUME IInv, BInv, NEW w \in Calls, SkipItem(w) \/ ReportSuccess(w) \/ RecordFailure(w)
    PROVE  Booked
  <1> DEFINE b == ctx[w].batch
             l == ctx[w].command.line
             old == item[b][l]
  <1>0. /\ Continues(w) /\ ctx[w].pc \in {"skip", "report", "failed"}
        /\ UNCHANGED <<request, batch, decision>> /\ StatementsKept
    BY DEF SkipItem, ReportSuccess, RecordFailure, commerce, StatementsKept
  <1>1. /\ ctx[w] \in Locals /\ AtItem(ctx[w]) /\ AtRequest(ctx[w]) /\ Opened(ctx[w])
        /\ item \in [Batches -> [Lines -> ItemRow]]
    BY CallOf DEF Flight, BInv, IInv, Shape
  <1>2. CASE b = NoBatch
    <2>1. ctx[w].pc # "skip"
      BY <1>1, <1>2 DEF AtItem, InBatch
    <2>2. SameRows
      BY <1>0, <1>2, <2>1 DEF SkipItem, ReportSuccess, RecordFailure, SameRows
    <2> QED
      BY <1>0, <2>2, SameStatements, PlaceGoes, SameBooks
  <1>3. CASE b # NoBatch
    <2>1. b \in Batches /\ l \in Lines /\ old.state # "absent" /\ batch[b].state # "absent"
      BY <1>0, <1>1, <1>3 DEF Locals, AtItem, OnItem, OnRequest, Opened
    <2>2. old \in ItemRow /\ old.request = ctx[w].request
      BY <1>0, <1>1, <1>3, <2>1 DEF AtItem, OnItem, OnRequest
    <2>3. PICK row \in ItemRow :
            /\ item' = [item EXCEPT ![b][l] = row]
            /\ row.request = old.request /\ row.state # "absent"
            /\ old.state = "confirmed" => row.state = "confirmed"
            /\ row.state = "confirmed" => old.state = "confirmed" \/ ctx[w].pc = "report"
      <3> DEFINE new(state) == [old EXCEPT !.state = state]
      <3>1. PICK state \in {"skipped", "failed", "confirmed"} :
                /\ item' = [item EXCEPT ![b][l] = new(state)]
                /\ old.state = "confirmed" => state = "confirmed"
                /\ state = "confirmed" => old.state = "confirmed" \/ ctx[w].pc = "report"
        BY <1>0, <1>1, <1>3, <2>1, <2>2
           DEF SkipItem, ReportSuccess, RecordFailure, ItemBecomes, ItemRow
      <3>2. new(state) \in ItemRow /\ new(state).request = old.request /\ new(state).state = state
        BY <2>2 DEF ItemRow
      <3> QED
        BY <3>1, <3>2
    <2>4. ASSUME row.state = "confirmed"
          PROVE  /\ row.request \in Requests
                 /\ request[row.request].state = "confirmed"
                 /\ request[row.request].command.line = l
      <3>1. CASE old.state = "confirmed"
        BY <2>1, <2>2, <2>3, <3>1 DEF ItemRow, IInv, ConfirmedWasDecided
      <3>2. CASE ctx[w].pc = "report"
        BY <1>1, <1>3, <2>2, <2>3, <3>2 DEF AtRequest, AtItem, OnRequest
      <3> QED
        BY <2>3, <2>4, <3>1, <3>2
    <2>5. MayBecome(b, l, row)
      <3>1. row.request # NoRequest =>
                \A d \in Batches, k \in Lines : item[d][k].request = row.request => d = b /\ k = l
        BY <2>1, <2>3 DEF IInv, RequestsNotShared
      <3> QED
        BY <2>3, <2>4, <3>1 DEF MayBecome
    <2>6. row.request # NoRequest
      BY <2>1, <2>3 DEF BInv, Entered
    <2>7. \A v \in Calls : Opened(ctx[v])'
      BY <1>0, PlaceGoes
    <2> HIDE DEF b, l
    <2> QED
      BY <1>0, <2>1, <2>3, <2>5, <2>6, <2>7, ItemBooks DEF old
  <1> QED
    BY <1>2, <1>3

\* A step that writes one request: it is stored, or confirmed.
LEMMA RequestBooks ==
    ASSUME IInv, BInv, UNCHANGED <<item, batch, decision>>,
           NEW r \in Requests, NEW row \in RequestRow, RequestMayBecome(r, row),
           request' = [request EXCEPT ![r] = row],
           request[r].state = "absent" => row.state = "pending",
           \A v \in Calls : Opened(ctx[v])'
    PROVE  Booked
  <1>1. request \in [Requests -> RequestRow] /\ item \in [Batches -> [Lines -> ItemRow]]
    BY DEF IInv, Shape
  <1>2. /\ request'[r] = row
        /\ \A q \in Requests : q # r => request'[q] = request[q]
    BY <1>1
  <1>3. row.state # "absent" /\ row.command.line \in Lines /\ row.command # NoCommand
    BY CommerceAssumption DEF RequestMayBecome, NoCommand
  <1>4. Entered'
    BY DEF BInv, Entered
  <1>6. UNCHANGED <<DecidedAs, Statements, ItemRequests, SettledItems>>
    BY DEF DecidedAs, Decided, Statements, ItemRequests, SettledItems
  <1>7. OnBooks' = [OnBooks EXCEPT ![r] = row.command]
    <2> DEFINE of(q) == IF request[q].state = "absent" THEN NoCommand ELSE request[q].command
    <2>1. /\ OnBooks = [q \in Requests |-> of(q)] /\ OnBooks' = [q \in Requests |-> of(q)']
          /\ of(r)' = row.command
          /\ \A q \in Requests : q # r => of(q)' = of(q)
      BY <1>2, <1>3 DEF OnBooks
    <2> QED
      BY <2>1
  <1>8. ConfirmedRequests' =
            IF row.state = "confirmed" THEN ConfirmedRequests \cup {r} ELSE ConfirmedRequests
    BY <1>2 DEF ConfirmedRequests, RequestMayBecome
  <1>9. CASE request[r].state = "absent"
    <2>1. UNCHANGED ConfirmedRequests /\ OnBooks[r] = NoCommand /\ OnBooks'[r] = row.command
      BY <1>2, <1>3, <1>8, <1>9 DEF OnBooks
    <2>2. Books!Store(r, row.command)
      BY <1>3, <1>6, <1>7, <2>1 DEF Books!Store
    <2> QED
      BY <1>4, <2>1, <2>2 DEF Booked, BInv, Books!Next
  <1>10. CASE request[r].state # "absent"
    <2>1. OnBooks[r] = row.command /\ UNCHANGED OnBooks
      BY <1>7, <1>10 DEF OnBooks, RequestMayBecome
    <2>2. CASE row.state = "confirmed"
      <3>1. DecidedAs[r] = row.command
        BY <1>10, <2>2 DEF RequestMayBecome, DecidedAs, IInv, DecidedIsRecorded
      <3>2. Books!Confirm(r)
        BY <1>3, <1>6, <1>8, <2>1, <2>2, <3>1 DEF Books!Confirm
      <3> QED
        BY <1>4, <3>2 DEF Booked, BInv, Books!Next
    <2>3. CASE row.state # "confirmed"
      BY <1>4, <1>6, <1>8, <2>1, <2>3 DEF Booked, BInv, Books!vars
    <2> QED
      BY <2>2, <2>3
  <1> QED
    BY <1>9, <1>10

LEMMA SaveBooks ==
    ASSUME IInv, BInv, NEW w \in Calls, SaveRequest(w)
    PROVE  Booked
  <1> DEFINE r == ctx[w].request
             row == Saved(request[r], ctx[w].command)
  <1>1. /\ ctx[w] \in Locals /\ ctx[w].pc = "save" /\ r \in Requests
        /\ ctx[w].command.line \in Lines /\ Covers(ctx[w].command)
        /\ AtItem(ctx[w]) /\ Opened(ctx[w])
    BY CallOf DEF SaveRequest, Flight, AtRequest, Carries, OnRequest, BInv
  <1>2. request[r] \in RequestRow /\ ctx[w].command \in Stored
    BY <1>1 DEF IInv, Shape, Locals
  <1>3. /\ row \in RequestRow /\ row.state # "absent"
        /\ request[r].state # "absent" => row = request[r]
        /\ request[r].state = "absent" => row.state = "pending" /\ row.command = ctx[w].command
    BY <1>2 DEF Saved, RequestRow
  <1>4. request' = [request EXCEPT ![r] = row] /\ UNCHANGED <<item, batch, decision>>
    BY DEF SaveRequest, commerce
  <1>5. RequestMayBecome(r, row)
    BY <1>1, <1>3 DEF RequestMayBecome, IInv, ConfirmedWasDecided, ProofCoversItsLine,
                      StoredNamesALine, Covers
  <1>7. \E pc : Outcome(w, pc)
    BY DEF SaveRequest
  <1>8. StatementsKept
    BY <1>4 DEF StatementsKept
  <1>9. \A v \in Calls : Opened(ctx[v])'
    BY <1>1, <1>7, <1>8, PlaceGoes
  <1> HIDE DEF r, row
  <1> QED
    BY <1>1, <1>3, <1>4, <1>5, <1>9, RequestBooks

LEMMA ConfirmBooks ==
    ASSUME IInv, BInv, NEW w \in Calls, ConfirmRequest(w)
    PROVE  Booked
  <1> DEFINE r == ctx[w].request
             row == [request[r] EXCEPT !.state = "confirmed"]
  <1>1. ctx[w] \in Locals /\ ctx[w].pc = "confirm" /\ r \in Requests /\ Decided(r)
    BY CallOf DEF ConfirmRequest, Flight, AtRequest, OnRequest
  <1>2. request[r] \in RequestRow /\ request[r].state # "absent"
    BY <1>1 DEF IInv, Shape, DecidedIsRecorded
  <1>3. row \in RequestRow /\ row.state = "confirmed" /\ row.command = request[r].command
    BY <1>2 DEF RequestRow
  <1>4. request' = [request EXCEPT ![r] = row] /\ UNCHANGED <<item, batch, decision>>
    BY <1>1 DEF ConfirmRequest, commerce, IInv, Shape
  <1>5. RequestMayBecome(r, row)
    BY <1>1, <1>2, <1>3 DEF RequestMayBecome, IInv, ProofCoversItsLine, StoredNamesALine, Covers
  <1>6. StatementsKept
    BY <1>4 DEF StatementsKept
  <1>7. \A v \in Calls : Opened(ctx[v])'
    BY <1>1, <1>6, PlaceGoes DEF ConfirmRequest
  <1> HIDE DEF r, row
  <1> QED
    BY <1>1, <1>2, <1>3, <1>4, <1>5, <1>7, RequestBooks

\* A step that changes nothing on the books but what Commerce decided.
LEMMA DecisionBooks ==
    ASSUME IInv, BInv, UNCHANGED <<request, item, batch>>,
           \/ UNCHANGED DecidedAs
           \/ \E r \in Requests : /\ ~Decided(r) /\ request[r].state # "absent"
                                  /\ DecidedAs' = [DecidedAs EXCEPT ![r] = request[r].command],
           \A v \in Calls : Opened(ctx[v])'
    PROVE  Booked
  <1>1. UNCHANGED <<OnBooks, ConfirmedRequests, Statements, ItemRequests, SettledItems>>
    BY DEF OnBooks, ConfirmedRequests, Statements, ItemRequests, SettledItems
  <1>2. Entered'
    BY DEF BInv, Entered
  <1>3. CASE UNCHANGED DecidedAs
    BY <1>1, <1>2, <1>3 DEF Booked, BInv, Books!vars
  <1>4. ASSUME NEW r \in Requests, ~Decided(r), request[r].state # "absent",
               DecidedAs' = [DecidedAs EXCEPT ![r] = request[r].command]
        PROVE  Booked
    <2>1. OnBooks[r] = request[r].command /\ DecidedAs[r] = NoCommand
      BY <1>4 DEF OnBooks, DecidedAs
    <2>2. OnBooks[r] # NoCommand
      BY <1>4, <2>1, CommerceAssumption DEF IInv, StoredNamesALine, NoCommand
    <2>3. Books!Decide(r)
      BY <1>1, <1>4, <2>1, <2>2 DEF Books!Decide
    <2> QED
      BY <1>2, <2>3 DEF Booked, BInv, Books!Next
  <1> QED
    BY <1>3, <1>4

LEMMA SendBooks ==
    ASSUME IInv, BInv, NEW w \in Calls, SendCommand(w)
    PROVE  Booked
  <1> DEFINE r == ctx[w].request
             d == ctx[w].command
  <1>1. /\ ctx[w] \in Locals /\ ctx[w].pc = "send" /\ r \in Requests
        /\ request[r].state # "absent" /\ d = request[r].command
    BY CallOf DEF SendCommand, Flight, AtRequest, OnRequest
  <1>2. UNCHANGED <<request, item, batch>> /\ StatementsKept
    BY DEF SendCommand, StatementsKept
  <1>3. \A v \in Calls : Opened(ctx[v])'
    BY <1>1, <1>2, PlaceGoes DEF SendCommand
  <1>4. CASE UNCHANGED commerce
    <2>1. UNCHANGED DecidedAs
      BY <1>4 DEF DecidedAs, Decided, commerce
    <2> QED
      BY <1>2, <1>3, <2>1, DecisionBooks
  <1>5. CASE ~Decided(r) /\ Decide(r, d)
    <2>1. /\ decision'[r].state # "undecided" /\ decision'[r].command = d
          /\ \A q \in Requests : q # r => decision'[q] = decision[q]
      BY <1>1, <1>5 DEF Decide, IInv, Shape
    <2>2. DecidedAs' = [DecidedAs EXCEPT ![r] = d]
      BY <2>1 DEF DecidedAs, Decided
    <2> HIDE DEF r, d
    <2> QED
      BY <1>1, <1>2, <1>3, <1>5, <2>2, DecisionBooks
  <1> QED
    BY <1>4, <1>5 DEF SendCommand, Decide

LEMMA SurroundingsBooks ==
    ASSUME IInv, BInv, Surroundings
    PROVE  Booked
  <1>1. UNCHANGED <<request, item, batch, ctx>>
    BY DEF Surroundings, ObserveLine, TransferConfirmed, AccountChanges
  <1>2. \A v \in Calls : Opened(ctx[v])'
    BY <1>1 DEF BInv, Opened
  <1>3. UNCHANGED DecidedAs
    <2>1. CASE \E l \in Lines, cents \in Cents, hold \in BOOLEAN : ObserveLine(l, cents, hold)
      BY <2>1 DEF ObserveLine, NewRevision, DecidedAs, Decided
    <2>2. ASSUME NEW r \in Requests, TransferConfirmed(r) PROVE UNCHANGED DecidedAs
      <3>1. decision \in [Requests -> DecisionRow]
        BY DEF IInv, Shape
      <3>2. \A q \in Requests : /\ decision'[q].command = decision[q].command
                                /\ Decided(q)' <=> Decided(q)
        BY <2>2, <3>1 DEF TransferConfirmed, TransferSucceeds, DecisionRow, Decided
      <3> QED
        BY <3>2 DEF DecidedAs
    <2>3. CASE \E a \in Accounts \cup {NoAccount} : AccountChanges(a)
      BY <2>3 DEF AccountChanges, commerce, DecidedAs, Decided
    <2> QED
      BY <2>1, <2>2, <2>3 DEF Surroundings
  <1> QED
    BY <1>1, <1>2, <1>3, DecisionBooks

LEMMA BooksStep ==
    ASSUME IInv, BInv, Tables, [Next]_vars
    PROVE  Booked
  <1>1. ASSUME NEW w \in Calls, RunBatch(w)
        PROVE  Booked
    <2>1. CASE InsertBatch(w) \/ FinishBatch(w)
      BY <2>1, BatchBooks
    <2>2. CASE \/ ListLines(w) \/ SelectLines(w) \/ Quote(w)
               \/ \E l \in Lines : PreviewLine(w, l, TRUE)
      BY <2>2, QuietBooks
    <2>3. ASSUME NEW d \in ctx[w].todo, NEW r \in Requests, UpsertItem(w, d, r)
          PROVE  Booked
      BY <2>3, UpsertBooks
    <2>4. CASE SkipItem(w)
      BY <2>4, StateBooks
    <2> QED
      BY <1>1, <2>1, <2>2, <2>3, <2>4 DEF RunBatch
  <1>2. ASSUME NEW w \in Calls, DecideRequest(w)
        PROVE  Booked
    BY <1>2, QuietBooks, SaveBooks, SendBooks, ConfirmBooks, StateBooks DEF DecideRequest
  <1>3. ASSUME NEW w \in Calls, Failing(w)
        PROVE  Booked
    BY <1>3, QuietBooks DEF Failing
  <1>4. CASE UNCHANGED vars
    <2>1. SameRows
      BY <1>4 DEF vars, commerce, SameRows
    <2>2. \A v \in Calls : Opened(ctx[v])'
      BY <1>4 DEF vars, BInv, Opened
    <2> QED
      BY <2>1, <2>2, SameBooks
  <1> QED
    BY <1>1, <1>2, <1>3, <1>4, BeginBooks, SurroundingsBooks DEF Next

-----------------------------------------------------------------------------
(* The theorems.                                                            *)

\* Every reachable state is well typed; in particular the total of a combined balance that is
\* frozen into a command is a number, however many lines it was taken over
\* (applyCombinedBalancePolicy).
THEOREM TypeCorrect == Spec => []TypeOK
  <1>1. Init => IInv /\ Tables
    BY Initially, TablesInitially
  <1>2. (IInv /\ Tables) /\ [Next]_vars => (IInv /\ Tables)'
    BY Inductive, TablesStep DEF Kept
  <1>3. IInv /\ Tables => TypeOK
    <2> SUFFICES ASSUME IInv, Tables PROVE TypeOK
      OBVIOUS
    <2>1. PolicyProof \subseteq Proof
      BY TotalsAreNumbers DEF PolicyProof, Proof
    <2>2. Stored \subseteq Command
      BY <2>1 DEF Stored, Command
    <2>3. Selected \subseteq [line : Lines, ready : BOOLEAN, proof : Proof]
      BY <2>1 DEF Selected
    <2>4. CommerceType
      BY <2>2 DEF IInv, Shape, Tables, CommerceType, DecisionRow
    <2>5. request \in [Requests -> [state : {"absent", "pending", "confirmed"}, command : Command]]
      BY <2>2 DEF IInv, Shape, RequestRow
    <2>6. Locals \subseteq
            [pc : {"idle", "insert", "list", "preview", "items", "skip", "quote", "select",
                   "terms", "save", "read", "send", "confirm", "report", "failed"},
             batch : Batches \cup {NoBatch},
             lines : SUBSET Lines,
             unseen : SUBSET Lines,
             seen : SUBSET Candidate,
             todo : SUBSET [line : Lines, ready : BOOLEAN, proof : Proof],
             request : Requests \cup {NoRequest},
             command : Command]
      BY <2>2, <2>3 DEF Locals, Candidates
    <2> QED
      BY <2>4, <2>5, <2>6 DEF IInv, Shape, Tables, TypeOK, ItemRow, Candidate
  <1> QED
    BY <1>1, <1>2, <1>3, PTL DEF Spec

\* What Commerce decided is on Thesi's books with the very command that was sent, whatever
\* calls overlap, repeat, throw or die (decideWithContext and sendAndConfirm).
THEOREM CommandsRecorded == Spec => []DecidedIsRecorded
  <1>1. IInv => DecidedIsRecorded
    BY DEF IInv
  <1> QED
    BY <1>1, Invariance, PTL

\* A confirmed item's request is confirmed and about its line, and a confirmed request was
\* decided by Commerce (the item's final update and sendAndConfirm).
THEOREM ConfirmationsBacked == Spec => []ConfirmedWasDecided
  <1>1. IInv => ConfirmedWasDecided
    BY DEF IInv
  <1> QED
    BY <1>1, Invariance, PTL

\* No two items of any statements share a request id (the item's upsert in runBatch).
THEOREM ItemsOwnTheirRequests == Spec => []RequestsNotShared
  <1>1. IInv => RequestsNotShared
    BY DEF IInv
  <1> QED
    BY <1>1, Invariance, PTL

\* A proof of a combined balance that is frozen into a command covers the command's line and
\* reaches its minimum (applyCombinedBalancePolicy).
THEOREM ProofsCoverTheirLines == Spec => []ProofCoversItsLine
  <1>1. IInv => ProofCoversItsLine
    BY DEF IInv
  <1> QED
    BY <1>1, Invariance, PTL

\* The tables implement SettlementBooks: one command for one id, decided as it stands on the
\* books; one id for one item, of a saved statement, and no item settled by a request about
\* another line; nothing is taken back, whatever calls overlap, repeat, throw or die (runBatch, decideWithContext,
\* sendAndConfirm).
THEOREM TablesImplementBooks == Spec => ImplementsBooks
  <1>1. Init => (IInv /\ Tables /\ BInv) /\ Books!Init
    BY Initially, TablesInitially, BooksInitially
  <1>2. (IInv /\ Tables /\ BInv) /\ [Next]_vars => (IInv /\ Tables /\ BInv)' /\ [Books!Next]_Books!vars
    BY Inductive, TablesStep, BooksStep DEF Kept, Booked
  <1> QED
    BY <1>1, <1>2, PTL DEF Spec, ImplementsBooks, Books!Spec
=============================================================================
