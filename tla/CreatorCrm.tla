----------------------------- MODULE CreatorCrm -----------------------------
(***************************************************************************)
(* A creator's pipeline with one brand: the deals, the jobs that won deals *)
(* and invoices make, the invoices, and the brand's contacts               *)
(* (creator-crm.service.ts).  Nothing runs in a transaction: every request *)
(* is a sequence of statements, any of which may fail and end it there.    *)
(***************************************************************************)
EXTENDS Naturals, Sequences, FiniteSets

CONSTANTS
    Calls,          \* concurrent requests
    Listings, Unlisted,
    People, NoPerson,   \* who may become a contact of the brand
    MaxRows         \* bound: deals, jobs, invoices

CrmAssumption == Unlisted \notin Listings /\ NoPerson \notin People /\ MaxRows \in Nat

VARIABLES
    deals,          \* crm_deal rows
    jobs,           \* crm_job rows, with the invoice that last marked them
    invoices,       \* crm_payment rows
    people,         \* crm_brand_person: whether each is the primary contact
    call            \* the local variables of each request

vars == <<deals, jobs, invoices, people, call>>

\* One stage stands for all that are not won, and one status for all that are not paid.
Stages == {"lead", "won"}
Statuses == {"unpaid", "paid"}
NoStatus == "unchanged"
NoCall == [at |-> "idle", deal |-> 0, stage |-> "lead", listing |-> Unlisted, job |-> 0, invoice |-> 0,
           number |-> 0, status |-> "unpaid", write |-> FALSE, person |-> NoPerson]

TypeOK ==
    /\ \A d \in 1 .. Len(deals) : deals[d].stage \in Stages /\ deals[d].listing \in Listings \cup {Unlisted}
    /\ \A j \in 1 .. Len(jobs) :
        /\ jobs[j].deal \in 1 .. Len(deals) /\ jobs[j].won \in BOOLEAN
        /\ jobs[j].payment \in Statuses /\ jobs[j].by \in 0 .. Len(invoices)
    /\ \A i \in 1 .. Len(invoices) :
        invoices[i].job \in 1 .. Len(jobs) /\ invoices[i].status \in Statuses /\ invoices[i].number \in 1 .. MaxRows
    /\ people \in [People -> {"none", "other", "primary"}]
    /\ \A c \in Calls : DOMAIN call[c] = DOMAIN NoCall

Init ==
    /\ deals = <<>> /\ jobs = <<>> /\ invoices = <<>>
    /\ people = [p \in People |-> "none"]
    /\ call = [c \in Calls |-> NoCall]

At(c, step) == call[c].at = step
Ends(c) == call' = [call EXCEPT ![c] = NoCall]

-----------------------------------------------------------------------------
(* Deals.                                                                   *)

NewDeal(stage, listing) == [stage |-> stage, listing |-> listing]
NewJob(deal, won) == [deal |-> deal, won |-> won, payment |-> "unpaid", by |-> 0]

\* createDeal, and every deal of importCsv.
CreateDeal(stage) ==
    /\ Len(deals) < MaxRows
    /\ deals' = Append(deals, NewDeal(stage, Unlisted))
    /\ UNCHANGED <<jobs, invoices, people, call>>

\* moveDealStage reads the deal.
Move(c, d, stage) ==
    /\ At(c, "idle") /\ deals[d].stage # stage
    /\ call' = [call EXCEPT ![c] = [NoCall EXCEPT !.at = "move", !.deal = d, !.stage = stage]]
    /\ UNCHANGED <<deals, jobs, invoices, people>>

WriteStage(c) ==
    /\ At(c, "move")
    /\ deals' = [deals EXCEPT ![call[c].deal].stage = call[c].stage]
    /\ IF call[c].stage = "won" THEN call' = [call EXCEPT ![c].at = "won"] ELSE Ends(c)
    /\ UNCHANGED <<jobs, invoices, people>>

HasJob(d) == \E j \in 1 .. Len(jobs) : jobs[j].deal = d

\* Faulty: a job that was already made is not looked for.
FindJob_Always(c) ==
    /\ At(c, "won")
    /\ call' = [call EXCEPT ![c].at = "make"]
    /\ UNCHANGED <<deals, jobs, invoices, people>>

\* "won deals become active jobs (idempotent)".
FindJob(c) ==
    /\ At(c, "won")
    /\ IF HasJob(call[c].deal) THEN Ends(c) ELSE call' = [call EXCEPT ![c].at = "make"]
    /\ UNCHANGED <<deals, jobs, invoices, people>>

MakeJob(c) ==
    /\ At(c, "make") /\ Len(jobs) < MaxRows
    /\ jobs' = Append(jobs, NewJob(call[c].deal, TRUE))
    /\ Ends(c)
    /\ UNCHANGED <<deals, invoices, people>>

\* addListingToPipeline, on request and by an application.
AddListing(c, l) ==
    /\ At(c, "idle") /\ \A d \in 1 .. Len(deals) : deals[d].listing # l
    /\ call' = [call EXCEPT ![c].at = "list", ![c].listing = l]
    /\ UNCHANGED <<deals, jobs, invoices, people>>

ListDeal(c) ==
    /\ At(c, "list") /\ Len(deals) < MaxRows
    /\ deals' = Append(deals, NewDeal("lead", call[c].listing))
    /\ Ends(c)
    /\ UNCHANGED <<jobs, invoices, people>>

-----------------------------------------------------------------------------
(* Invoices.                                                                *)

\* createPayment for a job of the brand.
InvoiceJob(c, j) ==
    /\ At(c, "idle")
    /\ call' = [call EXCEPT ![c] = [NoCall EXCEPT !.at = "number", !.job = j]]
    /\ UNCHANGED <<deals, jobs, invoices, people>>

\* Without one, the brand's deal that was updated last, whichever it is, gets a job.
InvoiceBrand(c) ==
    /\ At(c, "idle") /\ Len(jobs) < MaxRows
    /\ IF deals = <<>> THEN deals' = <<NewDeal("won", Unlisted)>> ELSE UNCHANGED deals
    /\ \E d \in 1 .. Len(deals') : call' = [call EXCEPT ![c] = [NoCall EXCEPT !.at = "job", !.deal = d]]
    /\ UNCHANGED <<jobs, invoices, people>>

InvoicedJob(c) ==
    /\ At(c, "job") /\ Len(jobs) < MaxRows
    /\ jobs' = Append(jobs, NewJob(call[c].deal, FALSE))
    /\ call' = [call EXCEPT ![c].at = "number", ![c].job = Len(jobs')]
    /\ UNCHANGED <<deals, invoices, people>>

\* nextInvoiceNumber counts the invoices.
NextNumber(c) ==
    /\ At(c, "number")
    /\ call' = [call EXCEPT ![c].at = "invoice", ![c].number = Len(invoices) + 1]
    /\ UNCHANGED <<deals, jobs, invoices, people>>

MakeInvoice(c) ==
    LET new == [job |-> call[c].job, number |-> call[c].number, status |-> "unpaid"] IN
    /\ At(c, "invoice") /\ Len(invoices) < MaxRows
    /\ invoices' = Append(invoices, new)
    /\ jobs' = [jobs EXCEPT ![new.job].by = 0]
    /\ call' = [call EXCEPT ![c].at = "mark", ![c].invoice = Len(invoices'), ![c].status = "unpaid"]
    /\ UNCHANGED <<deals, people>>

\* updatePayment reads the invoice, whose status the form may leave alone.
Update(c, i, status) ==
    /\ At(c, "idle")
    /\ call' = [call EXCEPT ![c] = [NoCall EXCEPT !.at = "update", !.invoice = i, !.job = invoices[i].job,
                                                  !.write = status # NoStatus,
                                                  !.status = IF status = NoStatus THEN invoices[i].status ELSE status]]
    /\ UNCHANGED <<deals, jobs, invoices, people>>

WriteInvoice(c) ==
    /\ At(c, "update")
    /\ invoices' = [invoices EXCEPT ![call[c].invoice].status = IF call[c].write THEN call[c].status ELSE @]
    /\ jobs' = [jobs EXCEPT ![call[c].job].by = 0]
    /\ call' = [call EXCEPT ![c].at = "mark"]
    /\ UNCHANGED <<deals, people>>

\* updateJobPaymentStatus.
Mark(c) ==
    /\ At(c, "mark")
    /\ jobs' = [jobs EXCEPT ![call[c].job].payment = call[c].status, ![call[c].job].by = call[c].invoice]
    /\ Ends(c)
    /\ UNCHANGED <<deals, invoices, people>>

-----------------------------------------------------------------------------
(* The contacts of the brand.                                               *)

\* createBrandPerson and updateBrandPerson of a primary contact.
MakePrimary(c, p) ==
    /\ At(c, "idle")
    /\ call' = [call EXCEPT ![c] = [NoCall EXCEPT !.at = "clear", !.person = p, !.write = people[p] # "none"]]
    /\ UNCHANGED <<deals, jobs, invoices, people>>

\* clearPrimaryPeopleForBrand, but for the one that is updated.
ClearPrimary(c) ==
    /\ At(c, "clear")
    /\ people' = [p \in People |-> IF people[p] = "primary" /\ p # call[c].person THEN "other" ELSE people[p]]
    /\ call' = [call EXCEPT ![c].at = "person"]
    /\ UNCHANGED <<deals, jobs, invoices>>

\* A person deleted meanwhile is not updated.
SavePrimary(c) ==
    /\ At(c, "person")
    /\ people' = IF call[c].write /\ people[call[c].person] = "none" THEN people
                 ELSE [people EXCEPT ![call[c].person] = "primary"]
    /\ Ends(c)
    /\ UNCHANGED <<deals, jobs, invoices>>

\* One statement: another contact added or demoted, or a contact deleted.
SavePerson(p, as) ==
    /\ as = "none" => people[p] # "none"
    /\ people' = [people EXCEPT ![p] = as]
    /\ UNCHANGED <<deals, jobs, invoices, call>>

\* A statement fails, and the request with it.
Fails(c) ==
    /\ ~At(c, "idle") /\ Ends(c)
    /\ UNCHANGED <<deals, jobs, invoices, people>>

Next ==
    \/ \E c \in Calls :
        \/ WriteStage(c) \/ FindJob(c) \/ MakeJob(c) \/ ListDeal(c)
        \/ InvoiceBrand(c) \/ InvoicedJob(c) \/ NextNumber(c) \/ MakeInvoice(c) \/ WriteInvoice(c) \/ Mark(c)
        \/ ClearPrimary(c) \/ SavePrimary(c) \/ Fails(c)
        \/ \E d \in 1 .. Len(deals), stage \in Stages : Move(c, d, stage)
        \/ \E l \in Listings : AddListing(c, l)
        \/ \E j \in 1 .. Len(jobs) : InvoiceJob(c, j)
        \/ \E i \in 1 .. Len(invoices), status \in Statuses \cup {NoStatus} : Update(c, i, status)
        \/ \E p \in People : MakePrimary(c, p)
    \/ \E stage \in Stages : CreateDeal(stage)
    \/ \E p \in People, as \in {"none", "other"} : SavePerson(p, as)

Spec == Init /\ [][Next]_vars

-----------------------------------------------------------------------------

(* Requests made one after the other, however they fail, leave the pipeline *)
(* consistent: winning a deal made at most one job of it, a listing is in   *)
(* the pipeline once, no two invoices have one number, the brand has one    *)
(* primary contact, and a job says what the invoice says that was last      *)
(* written to the end (moveDealStage, addListingToPipeline, createPayment,  *)
(* updatePayment, createBrandPerson, updateBrandPerson).                    *)
PipelineConsistent ==
    /\ \A j, k \in 1 .. Len(jobs) : jobs[j].won /\ jobs[k].won /\ jobs[j].deal = jobs[k].deal => j = k
    /\ \A d, e \in 1 .. Len(deals) :
        deals[d].listing = deals[e].listing /\ deals[d].listing \in Listings => d = e
    /\ \A i, k \in 1 .. Len(invoices) : invoices[i].number = invoices[k].number => i = k
    /\ \A p, q \in People : people[p] = "primary" /\ people[q] = "primary" => p = q
    /\ \A j \in 1 .. Len(jobs) : jobs[j].by # 0 => jobs[j].payment = invoices[jobs[j].by].status
=============================================================================
