# Formal models of Thesi

Thesi is a platform on which brands run campaigns with creators.  A brand
drafts a campaign, funds it, admits creators, tracks the sales they bring and
pays them: a base payment per creator out of a deposit, and a commission out of
attributed sales.  The API (`src/thesi-api`, NestJS over Postgres) holds the
logic; the web application (`src/thesi-web`, Next.js) calls it through
proxies; the schema's triggers live in a repository of their own (clothme-db)
and the shop ("Commerce", the "Customer API" of the docs) is another service.

This directory holds TLA+ models of the parts of the API where money and
entitlements move, the TLC configurations that check them on small instances,
and theorems proved with TLAPS for every instance.

## 1. Inventory

State is in Postgres unless said otherwise.  A "handler" is a service method
behind a controller; several API instances may run, so every handler and every
timer may interleave with every other, statement by statement, unless a
transaction and its row locks say otherwise.

| Component (`src/thesi-api/src/api/...`) | State | Operations | What makes it correct |
| --- | --- | --- | --- |
| `campaign-funding` | fund, obligations, operations with leases, ledger entries; the local variables of `process()` | deposit, accept work, cancel, retry, recover, the 30 s tick | the ledger never pays out more than was deposited; one movement per operation whatever is retried; accepted work is decided |
| `commission-earnings` (ingest, `commission-math.ts`) | one row per order line and revision | ingest, reports | revisions without gaps, refunds monotone, adjustments add up to what is accrued |
| `commission-earnings` (settlement, batches, scheduler) | requests with a frozen command, batches and their items; the flag and the advisory lock of the scheduler | decide, replay, retry, recover, run a batch, run the schedule | a request id stands for one command; what Commerce decided is confirmed; a batch run twice does not act twice |
| `invites`, `creator-applications`, `marketplace` | invites, applications, acceptance snapshots | invite, respond, apply, accept | a creator marked accepted has a snapshot (and a base obligation); capacity holds |
| `campaigns` | campaigns, revisions, promoted products, content review | draft, update, launch, pause, complete, review content | terms do not change under accepted creators; launch only when funded |
| `campaigns` (legacy payouts), `stripe-webhooks` | payouts, transfers, processed event ids | pay creator, collect fee, handle events | an event acts once; a payout's state follows the provider's |
| `connect`, `billing` | connected accounts, customers, payment methods, invoices | ensure account, set default, invoice numbers | one account and one default per user; distinct invoice numbers |
| `creator-tracking` | links, click grants, touchpoints and credits of installs | issue, click, claim, validate, convert | a grant is for one shopper, and answered on a live link |
| `merchant-links`, `brand-workspaces` | merchant links, login challenges, workspaces | link, revoke, sign in | one live link per brand; a challenge is used once |
| `auth`, `creator-applications` | applications, users, refresh tokens, reset links | apply, approve, reject, sign in, refresh, reset | a refresh token is rotated once; an approved creator may sign in |
| `social` | connections, synchronised posts, the creator's row of the directory, campaign content | connect, synchronise, import, attach, disconnect | after disconnecting nothing can be asked of the provider, and nothing that is kept of it passes as synchronised |
| `creator-crm` | deals, jobs, invoices, contacts | move deals, invoice, edit contacts | a deal is won into one job, a listing is added once, invoice numbers differ, a job agrees with its invoice |
| `inbox`, `profiles`, `settings`, `support`, `creators`, `health` | threads, profiles, preferences, tickets | CRUD | mostly row-local |
| `shared/*`, `platform/config`, `dbConfig` | none of their own | adapters, schema, configuration | - |
| `src/thesi-web` (`AuthProvider.tsx`) | the session in each tab and in the storage they share | sign in, refresh, sign out | a session is not lost to a refresh |
| the rest of `src/thesi-web`, `src/scripts` | - | pages, proxies, demos and tests | - |

How they interact.  `campaigns.update` asks `campaign-funding.beforeSave`
before it saves.  `invites` and `marketplace` write the acceptance snapshot, on
which a database trigger reserves a slot and creates the base obligation.
`campaign-funding` reads `billing` for the saved payment method and `connect`
for the creator's payout account, and calls Stripe outside any transaction.
`creator-tracking` hands a receipt to Commerce, which posts earning events to
`commission-earnings`; the settlement service sends Commerce frozen commands
and keeps its answers.  Stripe calls `stripe-webhooks` back, at least once and
in any order.  Timers drive the fund's operations and the scheduled settlement.

What is hard.  Leases that expire under a call that is still running; a call
whose answer is lost after the provider acted; idempotency keys that the
provider forgets; a refund that settles, or fails, long after it was asked for;
edits that race the deposit; closure racing acceptance and cancellation; a
stalled call's late answer; runs of one batch that overlap; a command that was
decided and not confirmed; events that come late, again or in another order than
they were sent.  `PROJECT.json` lists each hazard at its line.

## 2. Plan

Done, in the order in which it was built:

1. The base deposit, the largest money path inside this repository:
   `FundingProvider`, `CampaignFunding`, `BaseEscrow`, `CampaignFundingEscrow`
   and `CampaignFundingEscrow_proofs`.
2. The decisions about commission and the batches: `SettlementCommerce`,
   `CommissionSettlement`, `SettlementBooks`, `CommissionSettlementBooks` and
   `CommissionSettlement_proofs`.
3. The flat payment of a creator and the events that follow it:
   `PayoutProvider`, `CreatorPayout`; its theorems are in `MC_Work_proofs`.
4. Who may enter: `Accounts`, `WebSession`, `MerchantAccess`, with
   `MC_Access_proofs`.
5. The life of a campaign around the money: `CampaignPublishing`,
   `CampaignAdmission`, `ContentReview`, `CreatorTracking`,
   `CommissionEarnings`, with `CampaignPublishing_proofs`,
   `CampaignAdmission_proofs`, `ContentReview_proofs` and
   `CreatorTracking_proofs`; those of `CommissionEarnings` are in
   `MC_Work_proofs`.
6. What a creator keeps beside it: `SocialAccounts`, `CreatorCrm`, with
   `MC_Work_proofs`.

Left, in the order in which it should follow:

1. The interval runner of the settlement: its flag, the advisory lock that
   belongs to a session while statements go over a pool, and the 25 workspaces
   it takes in the order of their ids.
2. The platform fee of a launch (`collectPlatformFee`, its row, its invoice and
   its events), which has the shape of `CreatorPayout` with another catch
   clause, and with it the numbers of invoices in `billing`.
3. An abstract ledger that `CommissionEarnings` implements, as
   `SettlementBooks` is for the settlement.

## 3. The base deposit

### Modules and their correspondence to the code

| Module | Models |
| --- | --- |
| `FundingProvider` | Stripe as `funding.gateway.ts` relies on it: idempotency keys and their expiry, objects that settle later, disputes and refunds made by others.  External. |
| `CampaignFunding` | `campaign-funding.service.ts`, `funding.gateway.ts` and the points where `campaigns` and `invites` touch the fund |
| `BaseEscrow` | what the deposit promises, without the machinery |
| `CampaignFundingEscrow` | the refinement mapping from the ledger to `BaseEscrow` |
| `MC_CampaignFunding` | the instances TLC checks (symmetry) |
| `CampaignFundingEscrow_proofs` | the theorems |

Variables are tables and local variables: `status` and `slots` are columns of
`campaign`, `fund` is `campaign_base_fund`, `obligated`, `accepted` and
`cancelled` the obligations and their two timestamps, `requests` and `launching`
the handlers that are between their read and their write, `op` is
`campaign_fund_operation`, `entry` the `provider_id` of
`campaign_fund_entry`, and `ctx[w]` the local variables of one call of
`process()`.  Money is counted in slots: one unit is one base payment, so the
deposit is the number of slots and every other movement but the refund of
unused slots is 1.  Cents, currencies and accounts are compared by the code and
agree by construction here; the comparisons that can fail in a run (the amount
refunded at the provider against the ledger, a dispute) are modelled.

`process()` is split where it lets others in: the claim transaction (`Claim`,
`ClaimThrows`, `StopForReview`), the retrieval of the charge (`VerifyCharge`),
the provider's call (`CallProvider`, `ReplayCall`, `RetrieveObject`), and the
recording transaction (`Record`) or the catch clause (`Catch`).  `CallFails` is
an exception anywhere between; a lost answer is `CallProvider` followed by a
`Crash` or by `CallFails` from `record`.  Every request handler that is one
transaction is one action.  Two are not: `deposit()` is `RequestDeposit` and
`OpenDeposit`, because it awaits the billing service in between, and a launch is
`BeforeSave`, which reads the fund, and `Launch`, the save some awaits later,
which only the database's trigger (`FundedLaunch`) holds to what the fund says
by then.  Edits, a pause and closure may come between the two of either.

The database triggers that the code relies on (slot reservation, launch and
completion rules, the refund of unused slots at closure) are not under `src/`; they are
modelled from `docs/CAMPAIGN-FUNDING.md` and the scripts that exercise them.

Three simplifications of time.  `next_attempt_at` only delays and is left out.
`Ages` (23 hours) and `KeyExpires` (24 hours) do not happen while a call holds
the operation: a call takes minutes, and the hour between the two is the margin
the code relies on.  `LeaseMargin` says whether a call may outlive its own
two-minute lease; both values are checked.

### Runs

| Run | Question | Bounds |
| --- | --- | --- |
| `funding_races` | two concurrent calls that may outlive their lease, with crashes, lost answers, expiring keys, refund retries, disputes and foreign refunds: is every recorded movement real, are the deposit and each release made once, is nothing rewritten, and does no transfer leave under a hold? | 1 creator, 2 calls, 1 slot, 2 objects per operation, 1 retry, `LeaseMargin = FALSE` |
| `funding_ledger` | does the ledger stay within the deposit, through admissions, acceptances, cancellations and closure, and does it implement `BaseEscrow`? | 2 creators, 1 call, 2 slots |
| `funding_progress` | is accepted work decided, and, when calls stay within their lease, is every movement made once? | 1 creator, 2 calls, 1 slot, 2 objects, 1 retry, `LeaseMargin = TRUE`, the charge may be disputed or refunded, under fairness |
| `funding_refund_twice` | finding: a refund can be made twice (below) | 2 calls, 3 objects, 2 retries |
| `funding_refund_stuck` | finding: a failed refund that cannot be retried | 1 call |

The bounds suffice because operations interact only through the fund's row and
the ledger: one creator gives one operation of each kind, so every pair of
kinds meets; two creators are needed only for the sums (`funding_ledger`), two
calls only for the races, two objects per operation only for what is made
twice.  The theorems below have none of these bounds.

Fairness (`FairSpec`) is assumed of the releases only.  Every 30 seconds the
tick takes the ten oldest operations that are due; one that fails puts its next
attempt off, by longer each time, and so gives way to those behind it.  Hence an
operation that stays claimable comes up in the end, and a claim that is enabled
again and again happens; the readiness of the creator's payout account is part
of the claim, hence the strong fairness.  It assumes that due operations do not
arrive faster for ever than ten of them are worked off in a tick.  A call goes on to its end
(`GoesOn`).  Leases run out, and time passes even when an operation is tried
again and again.  Outages and crashes end at some point; the errors a call
makes of itself (a disputed charge, an amount that differs) do not.  Nothing is
assumed of refunds settling, of the owner, the operator or the payer, so
`AcceptedWorkDecided` only promises a release or a hand-over to review.

### Findings

* `RefundedOnce`.  The recording transaction checks only that the operation has
  not succeeded, not that the call still holds its lease.  A call that stalls
  past its lease and returns with an old *pending* refund writes that refund's
  id over whatever a later call recorded and clears its lease.  If that old
  refund then turns out failed, `retry_refund` makes a new one although the
  later call's refund is alive.
* `FailedRefundRetryable`.  A refund that fails in the answer to the call that
  created it is thrown as an error before its id is stored, and
  `retry_refund` requires the id.  The operation ends in review with no way on
  from within the application.

### What is proved

`CampaignFundingEscrow_proofs` proves, for every finite set of creators and
calls, every capacity and every bound: `TypeCorrect` (`TypeOK`), `SolventAlways`
(`LedgerSolvent`), `TermsAlwaysMatch` (`DepositMatchesTerms`) and
`LedgerMonotone` (`LedgerOnlyGrows`), from the named assumptions on the
constants and the library's theorems on finite sets and sequences.

`LedgerSolvent` is not inductive: a state in which a slot is both accepted and
cancelled, or in which the unused slots were refunded while admission was still
open, satisfies it and steps out of it.  `IInv` adds what prevents that:
obligations are never both accepted and cancelled and fit the slots
(`Obligations`); the fund's state, the deposit operation and the ledger agree,
and there are obligations only once the deposit is captured
(`FundOfCampaign`); a release is queued only for accepted work, a cancellation
refund only for a cancelled obligation, the unused refund only by closure and
only for slots nobody took (`Queued`); an operation is recorded only with its
success (`Recorded`); a running call is about an operation that exists
(`InFlight`).  Each action has its lemma; `Inductive` combines them, and the
theorems follow from `Invariance`.  The cardinality argument is in
`SlotsLeftOnce`: the slots paid and the slots refunded are disjoint sets of
obligations.

It proves the rest of what the runs check of safety too, with no bound on
creators, calls, slots, objects or retries, and whether or not a call may
outlive its lease: `LedgerAlwaysBacked` (`LedgerBacked`),
`ChargedAndPaidAtMostOnce` (`ChargedAndPaidOnce`), `NeverBoth`
(`PaidOrReturned`), `ActiveAlwaysFunded` (`ActiveIsFunded`), `AllOfItLeaves`
(`NothingStranded`), `HoldStopsTransfers` (`NoTransferUnderHold`) and
`LedgerImplementsEscrow` (`ImplementsEscrow`). The invariant is `EInv`, which
adds to `IInv`:

* `Traced`: the numbers that calls, operations and the ledger carry name what
  the provider made, and only what succeeded is recorded;
* `Made`: nothing is made for an operation that was never queued;
* `OneKey`: the deposit and a release have one idempotency key, which the
  provider forgets only when the operation has aged unanswered; such an
  operation is not claimed again without an operator, who finds the object;
* `Decided` and `Campaign`: the converse of `IInv`'s agreement between
  obligations, operations and the campaign's status.

`HInv` adds `OnHold`: what a claim noted as refunded by the flow never exceeds
what the provider refunded, so an equality read later means that nothing else
was refunded.  The refinement maps each step with `Enters` (a succeeded object
is recorded) or `Rests` (nothing of the ledger changes); `NothingStranded` is
arithmetic on the cardinalities of the disjoint sets of slots paid, cancelled
and unused (`Fits`, `Paid`, `Returned`, `Unneeded`).

`MovedAtMostOnce` (`MovedOnce`) has `LeaseMargin` as its hypothesis: without it
the finding `RefundedOnce` is a counterexample.  A refund may be retried under a
fresh key, so `OneKey` does not bound it.  What does is `Alone`: the call that
claimed a refund finds its row as the claim left it (`Fence`), hence its answer
is recorded against the retry it was made under; and of the attempts of one
refund those of earlier retries have failed, since a retry is allowed only then,
while the present one has at most one object, its key being forgotten only for a
row that aged without an answer, which an operator finds (`Attempts`).

## 4. The settlement of commission

### Modules and their correspondence to the code

| Module | Models |
| --- | --- |
| `SettlementCommerce` | Commerce as `commission-settlement.service.ts` relies on it: lines and their revisions, decisions kept under request ids, transfers.  External. |
| `CommissionSettlement` | `decide`, `replay`, `runBatch`, `batchCandidates` and `applyCombinedBalancePolicy` |
| `SettlementBooks` | what the books promise, without the calls that keep them |
| `CommissionSettlementBooks` | the refinement mapping from the tables to `SettlementBooks` |
| `MC_CommissionSettlement` | the instances TLC checks (four corners of the bounds, symmetry, minimums) |
| `CommissionSettlement_proofs` | the theorems |

`request`, `batch` and `item` are the three tables; `review` is the order in
which `batchCandidates` lists the lines whose latest event is under review;
`account` is the creator's payout account; `ctx[w]` are the local variables of
one call.  A call is split at every statement that others can see or change the
outcome of: the look-up of the batch, its insert, the listing, one preview per
line, the insert of an item, its second preview (`Quote`), the look-up of the
request (`SelectRequest`), the look-up of the account, the insert of the
request and the read that follows it (`SaveRequest`), the command to Commerce
(`SendCommand`), the confirmation and the item's success.  `CallFails` is an
exception inside the `try` of an item, `CallEnds` one outside it or the death
of the process; a lost answer is `SendCommand` followed by either.
`Approve` is a decision from the panel of one line, `ReplayRequest` its repeat.
`retry`, `recover` and `reviewRisk` keep nothing in Thesi; what they do in
Commerce is `TransferConfirmed` and `ObserveLine`.

Simplifications.  There is one workspace, one creator and one currency, so all
lines are of one group of the combined balance.  The actor of a request is
fixed: a request of another actor is refused before anything happens.  Items
are taken in any order, a superset of the code's.  Commerce's event arrives
with the revision it tells of; that Thesi may be behind is covered where it
matters by `Quote`, which reads a revision that may be outdated when it is
sent.  The ids of items are new (`FreshRequest`).  Those of the panel are chosen
freely by the browser, and the status of a statement shows the ids of its items:
a panel's id may be an item's.  `decide` does not refuse it, so an item whose id
an owner has used for another line, or for another action on the same, is
refused as "reused" in its own statement from then on; only another batch, or the
panel, settles its line.

### Runs

| Run | Question | Bounds |
| --- | --- | --- |
| `settlement`, corner `races` | two calls on one line, runs of a batch or decisions from its panel, with exceptions, deaths, repeated ids, new revisions, another account: is what Commerce decided recorded, what is confirmed decided, and do the tables implement `SettlementBooks`? | 1 line, 1 batch, 2 calls, 2 ids, 2 accounts of which one may replace the other before the second revision, 2 revisions; the panel qualifies |
| `settlement`, corners `disqualify` and `reconcile` | one call at a time on lines below their minimum: do proofs cover their lines, with revisions and decisions not to pay between, and with an item's id used for the other line? | 2 lines, 1 batch, 2 ids, 2 revisions of the first line; the panel's decisions are of that action |
| `settlement`, corner `statements` | two runs of one statement over two lines: do they agree on the ids, and is none shared? | 2 lines, 1 batch, 2 calls, 2 ids, 1 revision, no panel |
| `settlement_oldest` | finding: the newest lines are never reached (below) | 2 lines, a listing of 1, under fairness |

Two lines and two calls with all the panel can do are out of TLC's reach, so the
run `settlement` has four corners of that space, one of which is chosen in the
initial state (`Instances`): each leaves out what others have, and every property
is checked in all of them.  Two lines are the fewest that can share an id
or a proof; two calls and one line make every pair of statements meet; a second
revision or account is what makes two inputs of one id differ.  The theorems
below have none of these bounds and no corners.

No liveness property is stated as one that holds.  `runScheduledSettlements`
makes a new batch id for each run, takes 25 workspaces in the order of their ids
and may be kept from running by its flag or its advisory lock, so the code does
not promise that a payable line is settled.  `settlement_oldest` runs under
`Fairness`, which is kinder than that: some batch is run again and again, a call
that runs goes on, Commerce confirms transfers and outages end.  What is violated
under it is violated under anything the scheduler does.

### Finding

* `NewestLineSettled`.  `batchCandidates` lists 50 lines in ascending order of
  receipt, and a line does not leave the listing when it is paid.  The
  documentation says the preview returns recent lines; once 50 paid lines are
  under review, a newer one is never previewed.

### What is proved

`CommissionSettlement_proofs` proves, for every set of lines, batches, ids and
accounts, every limit of the listing, every minimum and every number of calls:
`TypeCorrect` (`TypeOK`), `CommandsRecorded` (`DecidedIsRecorded`),
`ConfirmationsBacked` (`ConfirmedWasDecided`), `ItemsOwnTheirRequests`
(`RequestsNotShared`), `ProofsCoverTheirLines` (`ProofCoversItsLine`) and
`TablesImplementBooks` (`ImplementsBooks`), from the named assumptions on the
constants.

The properties speak of the tables alone and are not inductive: a call that
holds another command than the stored one satisfies them and breaks them when it
sends.  `IInv` adds what a call's position says of the rows it is about
(`InFlight`): a call about to read or send has a stored request, one about to
send holds its command, one about to confirm was decided, one about to report is
confirmed (`AtRequest`); the item a batch's call is at carries the call's request
and, from the comparison of the inputs on, the request is about the item's line
(`AtItem`); the proofs a call carries cover their lines (`Carries`).  Every step
of another call keeps this because the tables only grow (`Grows`,
`FlightKept`), so each action's lemma is about its own call.  `ItemSet`,
`RequestSet` and `CommerceSet` say what a row may become; the actions are
instances of them.

`TypeOK` says, among the rest, that the total of a combined balance is a number,
and that total is a sum over a set, defined by recursion.  No induction theorem
can be cited for it (they take the predicate as a parameter), so the proof takes
the finite sets whose total is not a number and, were there one, a smallest of
them (`LeastSubset`): the set without one element has a number for its total, and
so has the set (`TotalsAreNumbers`).  That the recursion defines a function at
all is proved the same way (`BalanceExists`).  It needs that a call previews only
finitely many lines, which is why `Shape` has `Candidates` and not all sets.

The refinement has one lemma for each action (`...Books`): it opens a statement,
enters an item, stores, decides or confirms a command, settles an item, or
leaves the books alone.  `IInv` is not enough for it.  `BInv` adds that a
statement is saved before its items (`Opened`) and that an item has an id exactly
when it exists (`Entered`).  `SettlementBooks` gives an item an id that nothing
has at that time and lets it be settled only by a confirmed request about its
own line.  It does not say that nobody uses the id for another line afterwards,
because `decide` does not prevent that; such an item is never settled.

## 5. The payment of one creator and the provider's events

### Modules and their correspondence to the code

| Module | Models |
| --- | --- |
| `PayoutProvider` | Stripe as `payCreator` and the events use it: intents, transfers, what the idempotency keys remember, the events sent.  External but for the two calls of `stripe.service.ts`. |
| `CreatorPayout` | `payCreator` of `campaigns.service.ts`; `handleEvent` and the handlers of `stripe-webhooks.service.ts` |
| `MC_CreatorPayout` | the instances TLC checks (symmetry) |
| `MC_Work_proofs` | the theorems, with those of section 7 |

`row` is the `creator_payout` of one campaign and creator, `processed` the
table of event ids, `call` and `delivery` the local variables of the two
handlers.  `payCreator` is split at the reading of the row, the charge, the
first write, the transfer, the second write and the catch clause; the checks
between change nothing and can only end the call.  `handleEvent` is split at
the look-up of the event id, the look-up of the payout, its update (which
decides on the status it saw earlier) and the mark.  Any event that was sent
may be delivered at any time, again and in any order, until it is marked.
`transfer.updated` is handled as `transfer.created` and has no event of its own.
A statement that throws is taken not to have written.

### Runs

| Run | Question | Bounds |
| --- | --- | --- |
| `work` | is the brand charged once and the creator paid once while the provider keeps its keys, and does the row never claim more, while calls race, fail and repeat and events arrive? (`MC_Work`, section 7) | 2 calls, 1 delivery, 2 intents, 2 transfers |
| `payout_reversed` | finding: a reversal may be forgotten (below) | 1 call, 1 delivery |

Two intents and two transfers exist so that a second one can be made.  With one
delivery at a time events still arrive late, repeated, out of order and between
any two statements of a call; the theorems hold for any number.

### Finding

* `ReversedIsHeld`.  The events of a transfer and of its reversal may arrive in
  either order, and the handler of the first sets a reversed payout back to
  transferred; so does a `payCreator` that resumes after the reversal.  The
  rollout document says a reversal holds the local operation.

The catch clause also writes over a transfer that another call recorded; the
payout then reads charged, or failed, until an event sets it right.  No
document says otherwise, so no property is stated of it.  `PaidIsBacked` says
what remains true: a row that reads transferred has a transfer behind it.

### What is proved

`MC_Work_proofs` proves, for every number of calls, of deliveries and of
objects: `TypeCorrect` (`TypeOK`, which the run checks as a part of
`WorkTypeOK`), `OnceOnly` (`ChargedAndPaidOnce`),
`RowBeforeTransfer` (`TransferHasRow`) and `PaidAlwaysBacked`
(`PaidIsBacked`), from `MaxObjects \in Nat` alone.  `ChargedAndPaidOnce` is not
inductive: nothing in it stops a second intent.  `IInv` adds that the keys
remember whatever was made (`KeysRemember`), that a transfer has a charge
behind it (`MovedFromCharge`), that a call on its way to the transfer has a row
and one on its way to write has a transfer (`CallsAhead`), and that whatever was
sent about a transfer is true of it (`EventsAhead`).  The assumption that counts
is in the model of the provider: the keys are never forgotten.  The provider
keeps them for 24 hours, and a call that died after its charge and is repeated
a day later is charged again (listed under hazards).

## 6. Accounts, sessions and Merchant access

### Modules and their correspondence to the code

| Module | Models |
| --- | --- |
| `Accounts` | one email: `creator-applications.service.ts`, `auth.service.ts`, `account-access.ts` |
| `WebSession` | the tabs of one browser: `AuthProvider.tsx`, `auth-storage.ts` |
| `MerchantAccess` | `merchant-links.service.ts`, `merchant-login.service.ts`, the sessions of `merchant-access.service.ts` |
| `MC_Access` | the instance TLC checks |
| `MC_Access_proofs` | the theorems |

`Accounts`.  `application`, `user`, `tokens` and `links` are the rows of the
application, the account, `thesi_refresh_token` and
`thesi_password_reset_token`; `known` is what the creator can type.  `approve`
is split at its reading of the application, of the account and its commit;
`refresh` at the reading of the token, the conditional update that claims it and
the new session; a password request at the closing of the old links and the
insert of the new one.  The transactions of `approve`, `reject` and
`resetPassword` read without locks, so their reads are steps of their own.  Their
writes are one, since the first locks the account's row until the commit, but for
a rejection where there is no account: its first update finds nothing and locks
nothing (`DisableNobody`), and `approve` may create the account before the
application is written (`RejectApplication`).  An application may thus end as
rejected with an account that may sign in; no document says it must not.  Mail
may be lost.

`WebSession`.  Each tab has its React state, its `refreshPromiseRef` (`flight`)
and the requests whose closures remember a session; the storage is shared.  The
server is what `Accounts` shows of it: a refresh token is exchanged once.

`MerchantAccess`.  Every operation is one transaction; what matters is the row
locks and the order in which they are taken, so a transaction is split at each
lock it waits for and `held` says what it holds.  What matters as well is the
time it reads: `now()` is the start of the transaction, for `expires_at <= now()`
as for `expires_at=now()`.  `clock` keeps what is needed of it: whether the row
the transaction is about has expired by its own `now()` (`fresh`), and of one
that makes rows expire, a revocation or a logout, which transactions were open
when it began (`older`).  Its commit expires the rows for the younger ones, also
for those that wait for the row, and not for the older; those it marks
`overtaken`, a history variable.  The audit trail is kept as a sequence because
the document's promise is about the order of its entries; the authorization of a
sign-in and the link that `finish` makes or uses (`signed_in`) are in it too.
`Aborts` stands for every refusal, for a unique index and for the database
ending a deadlock.

### Runs

| Run | Question | Bounds |
| --- | --- | --- |
| `access` | does a refresh token rotate once, does an application that reads approved have an account that may sign in, what of an earlier grant can still be used after a disconnection, is a sign-in used once? | 2 requests, 3 tokens, 2 passwords, 1 reset link; 2 brands, 1 workspace, 3 intents, 1 sign-in, 3 links, 2 sessions; 2 tabs, 2 browser requests, 3 sessions |
| `link_resurrected` | finding: a grant from before a disconnection connects again (below) | 1 brand, 2 intents, 2 requests, 2 links |
| `session_lost` | finding: a session that could be renewed is dropped (below) | 2 requests, 3 sessions |

`MC_Access` and `MC_Work` (section 7) check several components in one run.  A
behaviour is one of a single component, chosen in the initial state, and the
others stand still; the state space is the sum of theirs.  This loses nothing:
these components have no table in common, and where one writes what another
reads, the other's module has that write as an action of its own
(`ReceiptClaimed`, `ListCampaign`, `Disconnect`).  The components of `MC_Access`
are the accounts, the web sessions and, twice, the Merchant links: `linking` has
several intents and no sign-ins, `signing` sign-ins next to one intent.

Two requests make every pair of handlers meet.  A second brand or intent is what
makes a link collide with another, a third token what a rotation done twice
needs.

### Findings

* `NotResurrected`.  The comment at `merchant-links.service.ts:174` and
  `docs/MERCHANT-HUB-LINKING.md` say that no grant of before a disconnection
  connects either side again.  `findIntent` compares `expires_at` with `now()`,
  which is when its transaction began.  A completion that began before the
  revocation and reads the intent's row after its commit finds it unexpired; the
  old link is gone, so the unique indexes accept the new one.  `finish` compares
  in the same way (`merchant-login.service.ts:79`).
* `SessionKept`.  A request answered 401 after the refresh it could have joined
  has settled starts another with the session its closure remembers.  Its
  refresh token is spent, the server denies it and the catch clause drops the
  session that was just renewed.  The hardening document asks that a token
  refreshes without losing the session.

### What is proved

`MC_Access_proofs` proves of the accounts, for every number of requests, tokens,
passwords and links: `TypeCorrect` (`TypeOK`), `TokenRotatedOnce` (`RotatedOnce`) and
`ApprovalActivates` (`ApprovedIsActive`).  `RotatedOnce` is not inductive: a
second call that has claimed a token satisfies it and breaks it with its next
step.  The invariant adds `Rotation`: a token some call has claimed is revoked,
has no successor yet, and no other call has claimed it; and `Mails`: a call
about to mail carries a password that was set.  That `ApprovedIsActive` holds
rests on `disableCreatorAccount` and the application's status being one
transaction, and on `activateCreatorAccount` refusing a disabled account.

It proves of the Merchant links, for every number of brands, workspaces,
intents, sign-ins, links and requests: `DisconnectedForGood`
(`StaysDisconnected`), `SessionsStandOnLinks` (`SessionHasLink`) and
`SignInsSpentOnce` (`ProofUsedOnce`).  `StaysDisconnected` is what remains of
`NotResurrected`: no launch opens a link that was revoked, and what was approved
or authorized before a revocation links or signs in afterwards only in a
transaction that was open already when the revocation, or a logout, began.
Grants given since are not restricted.  It speaks of the order of the audit's
entries, and what makes it true lies in rows not yet used.  `MInv` says of a
grant that has not expired, and of one in the hands of a transaction that nobody
overtook, that it was given after every revocation of its brand or workspace
(`Approvals`, `Users`): a request that uses a grant holds its row, and a
revocation waits for that row before it makes it expire.  The rest is about
locks: two requests never hold one row (`Apart`), and what a request has read of
the rows it holds is still so (`CallsFit`), because whatever another request
writes it has locked (`Spares`).  A session stands on its link because signing in
and revoking lock the same link; a sign-in is spent once because its row is
locked from the second look at it to its consumption.

`AccessTyped` (`AccessTypeOK`) joins the types of the three components; those of
`WebSession` are proved for the number of tabs and requests left open and the
three sessions that `MC_Access` gives it.

## 7. The work around one campaign

### Modules and their correspondence to the code

| Module | Models |
| --- | --- |
| `CampaignPublishing` | create, update, draft, restore, files: `campaigns.service.ts`, `campaign-products.service.ts`, `campaign-revision.ts`, `syncFromCampaign` |
| `CampaignAdmission` | `marketplace.service.ts`, `invites.service.ts` and the acceptance snapshot |
| `ContentReview` | `campaign-content-review.service.ts` and its repository |
| `CommissionEarnings` | `ingest` of `commission-earnings.service.ts`, `commission-math.ts` |
| `CreatorTracking` | `creator-tracking.service.ts` |
| `SocialAccounts` | `social.service.ts` and its repository, the directory row that `profiles` shares with it |
| `CreatorCrm` | deals, jobs, invoices and contacts of `creator-crm.service.ts` and its repository |
| `MC_Work` | the instances TLC checks, and those of `CreatorPayout` |
| `CampaignPublishing_proofs`, `CampaignAdmission_proofs`, `ContentReview_proofs`, `CreatorTracking_proofs` | theorems about these four |
| `MC_Work_proofs` | those about the others, and about the specification of the run |

`CampaignPublishing`.  A save reads the row, writes it under a lock
(`saveWithProductLink`, `Refused`), compares the terms with the latest version,
numbers and inserts a version, and synchronises the listing, each in a statement
others can come between.  `Editions` stands for every field of the terms except
the product and the files.

`CampaignAdmission`.  A decision reads, answers with a conditional update, and
an acceptance goes on to the invite it finds or adds and to the snapshot, which
is written once per creator.  Of the listing the module keeps what a decision
reads.

`ContentReview`.  Each handler reads the row, works on the file store and writes
the row by its id, whatever it says by then.

`CommissionEarnings`.  `Lock` takes the advisory lock of the line; `Repeated`,
`Accept` and `Insert` are the look-up of duplicates, the checks with
`commissionResult`, and the insert with its commit; `Answer` is what the sender
sees.  The arithmetic is kept in cents with its roundings, for the three types
of terms.

`CreatorTracking`.  `context` asks Merchant for the product inside the
transaction; the locks held meanwhile are `share`, `update` and `grant`.

`SocialAccounts`.  A synchronisation, an OAuth callback, an import and a
disconnection are sequences of statements without a transaction; the directory
row is written whole from `context`, what the request read of it at its start.
`Fails` ends a request at any statement; `SyncFails`, `CallbackFails` and
`Record` are the failures the code records as an error of the connection.
`cleared` is a history variable: the providers disconnected to the end and not
connected since.

`CreatorCrm`.  One stage stands for all that are not won and one status for all
that are not paid.  A request looks a row up in one statement and inserts in
another, and nothing rolls back when it fails between them.  `by` is a history
variable, the invoice that last marked a job to the end.

### Runs

| Run | Question | Bounds |
| --- | --- | --- |
| `work`, `CampaignPublishing` | does publication freeze the products, through overlapping saves (`ProductLocked`); does a save that completes leave version and listing in step with the campaign, whatever earlier ones left half-done (`SavedIsPublished`)? | 2 requests and 2 products; or 1 request at a time, 2 editions, 1 file, 2 versions |
| `work`, `CampaignAdmission` | does a snapshot name an answer that stands (`AcceptanceBacked`)? | 2 requests, 1 creator, 1 slot, 2 rows of each kind |
| `work`, `ContentReview` | can the file a draft names be read (`FileKept`)? | 2 requests, 2 drafts, 4 files |
| `work`, `CommissionEarnings` | do adjustments add up, and is what was acknowledged in the ledger (`LedgerExact`); does what a refund reversed stay reversed (`ReversedStays`)? | 2 calls, 2 events, 2 revisions, a sale of 3 cents, 7 states of its refunds, 3 types of terms |
| `work`, `CreatorTracking` | is a grant for one shopper (`OneShopper`), is a receipt answered on a link that is still there (`AnsweredWhileLinked`)? | 2 requests, 2 creators, 2 shoppers, 2 grants |
| `work`, `SocialAccounts` | after a disconnection, is there no token, no connected status, no synchronised post and no synchronised row of the directory, whatever failed before and since (`DisconnectedStaysOff`)? | 1 request at a time, 2 providers |
| `work`, `CreatorCrm` | do requests that fail anywhere leave no doubles, and each job in step with its invoice (`PipelineConsistent`)? | 1 request at a time, 2 deals, jobs and invoices, 1 listing; separately 2 contacts |

Two requests, or two revisions, make every pair of statements meet. Four files
are two replacements of each of two drafts. `SavedIsPublished` is asked of
requests made one at a time: of two saves that overlap, the one that writes the
campaign first may write its version last, and the code does not prevent it. So
are `DisconnectedStaysOff` and `PipelineConsistent`: of two requests of one
creator that overlap, the directory row keeps what the later one wrote, a
synchronisation lists a provider that was just disconnected, and two requests
that look up before either inserts both insert. What these two properties say is
that a request that failed part-way is made good by, or does no harm to, the
next. `DisconnectedStaysOff` does not say that nothing is left of the provider:
the connection keeps its handle, account id and scopes, the directory the
averages it had when no other row gives any, and the campaign the content that
was attached. `AcceptanceBacked` has a converse that does not hold: an answer is
written before the snapshot, and one whose snapshot then fails stays accepted
without terms. `PipelineConsistent` says no more than the code does: a deal
created as won, and one whose request failed after the stage was written, has no
job.
These modules have no fairness: nothing in them is retried by a timer.

### What is proved

For every number of requests, and of everything else the modules count, from the
assumption each module states of its constants.

* `CampaignPublishing_proofs`: `TypeCorrect`, `SelectionKept` (`ProductLocked`)
  and `SaveRepairs` (`SavedIsPublished`).  That the selection is kept rests on
  the refusal reading the row it has locked, not what the save was built from.
  `SaveRepairs` has the hypothesis that requests come one after the other.  Its
  invariant `SInv` says that the versions are numbered in order and the campaign
  names the last (`InOrder`), and that from the read-back on a save knows the
  campaign as it is and, before it synchronises, that the campaign's version has
  its terms (`Holds`).
* `CampaignAdmission_proofs`: `TypeCorrect` and `TermsBacked`
  (`AcceptanceBacked`).  The invariant adds `Known`: a request that goes on to
  the terms has accepted a row of that creator.  Every step is shown to keep
  what `RowsKept` says, that no row stops reading accepted (or deleted), which
  is where the conditional updates of both handlers are needed.
* `ContentReview_proofs`: `TypeCorrect` and `NamedFileKept` (`FileKept`).  The
  invariant adds `OneOwner`, that every file belongs to the row that names it or
  to the one request that stored it, and `Superseded`, that a file read before a
  replacement is named by the replaced row or by none.  Nothing about the order
  of overlapping replacements is needed, only that the old file is deleted after
  the row is written.
* `CreatorTracking_proofs`: `TypeCorrect`, `GrantForOne` (`OneShopper`) and
  `NoReceiptAfterUnlinking` (`AnsweredWhileLinked`).  The invariant adds
  `Exclusive`, that whoever locked a grant for update is alone with it, and
  `Served`, what a request knows of the grant and the link it locked.
* `MC_Work_proofs` proves of the run's specification what the run checks.  Of
  the four modules above it instantiates the theorems
  (`SelectionStays`, `SavesRepair`, `AcceptancesBacked`, `FilesKept`,
  `ShoppersAlone`, `AnswersLinked`): a step of `WorkSpec` is a step of one
  component or leaves it as it is.  About the others:
  * `LedgerAlwaysExact` and `ReversalsStay`, for any facts of a sale and any
    number of ingests that overlap.  The advisory lock makes what an ingest
    found true until it answers (`Found`); every row is what the code makes of
    its revision and the adjustments up to it add up to what it accrues
    (`Recorded`), which is a sum over a set and proved as the totals of section
    4 are; refunds only grow from row to row (`RefundsGrow`).
  * `OffForGood` (`DisconnectedStaysOff`), for every set of providers.  A request
    under way remembers no synchronised row of a provider that was disconnected,
    and works for none (`RequestHolds`).
  * `PipelineStaysConsistent` (`PipelineConsistent`), for every number of deals,
    jobs, invoices, listings and contacts.  What a request has read
    is still so when it writes (`HasRead`), and the rows refer to rows that are
    there (`JobRefers`, `InvoiceRefers`).
  * `WorkTyped` (`WorkTypeOK`).

The run fixes that social accounts and the CRM serve one request at a time, and
the theorems about them say what the run says: nothing of requests that overlap.

## 8. What is only model-checked

Liveness: `AcceptedWorkDecided`, under the fairness stated above.  The prover has
no rules for fairness and `ENABLED`.  Every safety
property of a passing run, action properties and refinements included, is also
stated by a theorem.  Of `WebSession` only the types are proved: its property
`SessionKept` is violated (section 6).  The findings are TLC's counterexamples.

## 9. Not modelled

Inside the modelled components: amounts, currencies and account ids beyond
equality (but for the arithmetic of commission); the text of errors; the
reports (`status()` is used only for what it derives from the ledger); the
`depositAction` hand-off to the browser, which changes nothing; the
configuration switches, taken to be on; the local stand-ins for Stripe used
without a key; the validation of the wizard's input.

Components without a module:

* The scheduler's flag and advisory lock, and the platform fee: next in the
  plan.
* The rest of `creator-crm` (brands, tasks, calendar, contracts, custom objects,
  workflows, the shared workspace and the stubs of integrations): rows written
  one at a time, which nothing else depends on.
* `inbox`, `profiles`, `settings`, `support`, `creators`: requests that read and
  write rows of one owner, on which no entitlement, payment or other component
  depends; the profile form's write of the directory row is in `SocialAccounts`.
* `connect`, `billing`: single rows written at Stripe's word; a creator's
  account and the saved payment method appear as variables of the modules that
  decide on them.
* `brand-workspaces`: an authorization of each request, with no steps of its own.
* The pages and proxies of the web application, which keep no state the API
  depends on: their requests are the arbitrary inputs of the modules.
* Scripts, adapters and the schema, read for what the database enforces.

Most lines of the repository are those pages, forms and DTOs and the CRUD of the
components above, so the modelled share of the lines is small although the
modules cover where money, entitlements and access are decided.
