# 4Ceria: verification of the gateway

4Ceria is a Go gateway in front of PostgreSQL for construction projects: an
owner hires professionals, pays them in stages out of a ceiling the project
holds, buys material, signs off the works, and an admin arbitrates disputes.
This development holds TLA+ models of the handlers that change state, TLC
configurations that check them on small instances, and theorems checked by
TLAPS: every safety property the runs check is proved for all values of the
constants.

## 1. Inventory

The gateway keeps no state of its own. All state is in PostgreSQL and in the
file vault, every handler runs at READ COMMITTED, and handlers meet only through
rows and row locks. What a handler read before `pool.Begin`, or in an earlier
statement, may be stale when it writes. Beside the requests run the loops of the
scheduler, in every replica.

| Component | State | Operations | Hard behaviour | What makes it correct |
|---|---|---|---|---|
| Escrow ledger (`release.go`, `money.go`, migration `0006`) | `project_budget_transactions`, `projects.budget` | book a payment, a refund, a retention release; sums | check-then-insert under a row lock, dedupe by unique index | paid never exceeds the ceiling; one payment per stage, a dedupe read before the lock still true behind it |
| Proof and verification (`projectpaymentproof.go`, `projectpaymentverify.go`, `projectbudgetmarkpaid.go`) | status and proof of stages, orders, quotes, addenda, bids | upload, accept, reject, mark paid | freeze read twice, status read before the lock | status agrees with the ledger; nothing paid while frozen |
| Stages (`projecttermins.go`, `projectterminwrites.go`, `projectupdate.go`) | the stage rows | create, edit, delete, replace the plan, link to a milestone | autocommitted writes after unlocked checks | settled stages stay settled; gross = net + retention, and both stay |
| Disputes and arbitration (`disputes.go`, `disputesuser.go`) | `project_disputes`, the refund mirror | file, reply, withdraw, five admin actions | check-then-insert, stale status, lock order | one open dispute, outcome final, refunds covered |
| Budget ceiling (`projectbudgetwrite.go`) | `projects.budget` | deposit, reduce | races payments and disputes | never below what was paid |
| Contract exit (`projecttermination.go`, `projectmutualtermination.go`, `projectlifecyclewrite.go`, `freeze.go`) | bid, place, stages, project status, `project_terminations` | terminate, resign, mutual exit, escalate, force, complete, delete | stale project status, a freeze only an answer lifts | a frozen project can still be answered; cancelled stays cancelled |
| Retention sweep and scheduler (`retentionrelease.go`, `scheduler.go`) | released marks, ledger rows, advisory lock | daily release, admin release, completion of orders, mail tick | crash between two writes, replicas, pooled advisory lock | released once and covered; released in the end |
| Material trade (`materialquotelifecycle.go`, `materialorderwrites.go`, `logistics.go`) | quotes, orders, jobs, stock, site stock, reviews | quote, order, pay, verify, ship, receive, complete, review | payment, status and stock in separate transactions | what reads as paid is booked in full; stock moved once; one courier |
| Addenda and change orders (`projectbudgetaddendum.go`, `projectaddendumdecision.go`, `projectchangeorder.go`) | addendum and change rows, new stages | propose, answer, decide, pay | several deciders on a status read before the lock | one stage per change, a paid addendum is booked |
| Procurement and site stock (`projectprocurementaction.go`, `projectrequirement*.go`) | requests, requirements, history | request, verify, refuse, restock, use, delete | arrival and history in two writes | stock equals its history |
| Bids and hiring (`projectbid*.go`, `projectpmbid.go`, `projectfeewrite.go`) | `bids`, the project's place, plans, the contract snapshot, fee | invite, bid, negotiate, recommend, hire, sign, pay | two winners for a place, two signatures of a plan | one hire, one plan per contract, the plan in force is the plan signed |
| Teams and vendors (`projectsubprofessional.go`, `projectengineering.go`, `projectvendor.go`) | sub-professionals, places, engineering requests | assign, accept, hire, remove, approve, authorize, import | no unique index, place and row written apart | a fee fits what is left of the ceiling |
| Milestones, design, planning (`projectmilestone*.go`, `projectdesignreview.go`, `projectplanning.go`, `projectbrief.go`, `projectpermit.go`) | milestones, vault documents, linked stages, project flags | create, submit, review, approve, audit, delete | stages unlocked by id, flags rewritten from a stale read | a paid stage is booked once |
| Handover and acceptance (`projecthandover*.go`, `projectseal*.go`, `projectsnag.go`, `projectextension.go`) | completed and submitted phases, snags, deadlines | submit, seal, approve, walk through, accept | lists rewritten whole, count then finalize | an accepted project has all its phases |
| Accounts (`auth*.go`, `admin*.go`, `rate_pg.go`) | users, tokens, reset codes, hits | register, login, reset, suspend, change role, limit | count then insert, several autocommits | a bounded number of attempts passes |
| Mail, push, notifications (`mailoutbox.go`, `push*.go`) | `mail_outbox`, subscriptions | queue, send, retry, give up, subscribe | crash between sending and marking; refused mail in front | queued mail is sent in the end |
| Firms, profiles, consultations (`firmmember*.go`, `consultations.go`) | membership, profiles, bookings | invite, respond, assign, verify, book | check-then-insert on an hour | no hour is promised twice (the code checks and then inserts; no property) |
| Documents, pictures, schedule (`projectdocument*.go`, `portfolios.go`, `projectschedule.go`, `projectsharing.go`, `houses*.go`) | rows with a file, schedule, delays, share links, listings | store, replace, verify, delete, shift | file and row written apart, paths written back stale | a row loses its file only to a request about that row |
| Money arithmetic (`money.go`, `domain/money`, `domain/escrow`) | none | parse, format, split | rounding, legacy rows | net + retention = gross |
| Authorization, identity; AI chat; ETL, routing, JSON, web | none of the state above | predicates, encodings, an external service | — | — |

Handlers interact by calls inside one transaction (`recordPaymentMinor` is
called by every payment path, `checkAndActivateBid` by two of them), by row locks
(project, stage, dispute, bid), by foreign keys (inserting a dispute or a ledger
row share-locks the project row), by the unique index on ledger references, and
by flags of the project row that another handler's guard reads (an open dispute
and a pending termination freeze most routes). `PROJECT.json` lists every
component with its status and every hazard with its line.

## 2. Modules

    LedgerSum          the sum of a set of ledger rows
    EscrowLedger       what the escrow promises: one atomic step per booking
    EscrowProject      the handlers of stages and disputes, step by step, with locks (implements EscrowLedger)
    EscrowInvariant    the inductive invariant IInv: ceiling and freeze        (EXTENDS EscrowProject)
    EscrowRows         the inductive invariant RInv: stages and disputes       (EXTENDS EscrowInvariant)
    LedgerSumProofs, EscrowProofs, EscrowRowsProofs                            the theorems about them
    RetentionSweep     the release of retentions;  RetentionProofs             the theorems about it

    Gateway            requests, the freeze and the ledger as one atomic booking
    MaterialTrade      quotes, orders, delivery, stock                (EXTENDS Gateway)
    Amendments         addenda, procurement, change orders, site stock(EXTENDS Gateway)
    Hiring             bids, contracts, plans, fees                   (EXTENDS Gateway)
    Teams              sub-professionals, engineers, vendors          (EXTENDS Gateway)
    Exit               how a project ends                             (EXTENDS Gateway)
    StageMoney         amounts of stages: division, plans, payments   (EXTENDS Gateway)
    Phases             milestones, design, planning, handover, snags  (EXTENDS Gateway)
    Accounts           identity, limits, mail, firms, bookings        (EXTENDS Gateway)
    Records            files, schedule, small rows                    (EXTENDS Gateway)

    MCEscrow, MCRetention                constants for TLC
    MCTrade, MCContracts, MCWorks        compositions over one Gateway, and their constants
    TradeProofs, ContractsProofs, WorksProofs                                  the theorems about these three
    StageMoneyProofs                                                           the theorems about StageMoney, for ContractsProofs

There are two grains. `EscrowProject` and `RetentionSweep` go statement by
statement, with row and advisory locks, because what they promise depends on
them. The modules over `Gateway` take as one step what one transaction decides
under a lock, or what one statement does, and keep every place where a handler
goes on with something it read earlier. `Payable` and `Book` stand there for
`recordPaymentMinor`; that it may be taken as atomic is what `EscrowProject` and
its refinement show.

### EscrowProject

A *session* is one request being served. Its control point is `at[p]`, what it
was asked and has read is `req[p]`, what its transaction wrote and did not commit
is `writes[p]`. Steps end where the code waits for a row lock or goes on with
something read earlier; statements in between are one step.

| Variables | Code |
|---|---|
| `status`, `mirror` | `project_payment_termins.status`, `.refunded_amount` of one role; `"absent"` is a deleted row |
| `ledger`, `budget` | payment and refund rows of `project_budget_transactions`; `projects.budget` |
| `dispute`, `project` | `project_disputes` (status, linked stage, disputed amount); `projects.status` |
| `contract` | the live bid of the role together with the project's slot for it |
| `mode`, `rowLock`, `disputeLock` | who holds which row lock |

| Actions | Handler |
|---|---|
| `BeginVerify` `LockForVerify` `DecideVerify` `Record` `CommitStep` | `VerifyProofHandler` |
| `BeginMarkPaid` `LockForMarkPaid` `CheckSettlement` `MarkPaidStage` `Record` `CommitStep` | `MarkPaidHandler` |
| `BeginUpload` `StoreProof` | `UploadProofHandler` |
| `BeginEdit` `EditStage`, `BeginDelete` `DeleteStage` | `UpdatePaymentTerminHandler`, `DeletePaymentTerminHandler` |
| `BeginOpen` `InsertDispute` | `ProjectDisputeStoreHandler`, `escalateTerminationDispute` |
| `BeginWithdraw` `WithdrawDispute` `TouchAndCommit` | `ProjectDisputeWithdrawHandler` |
| `BeginAct` `ActCancel` `ActRefund` `ActReverse` `ActRelease` `ActPay` `ActTakeSlot` `ActClose` `TouchAndCommit` | `AdminDisputeActHandler` |
| `BeginAdjust` `Adjust` `CommitStep` | `AddTransactionHandler` |
| `BeginTerminate` `EndContract` `SettleStages` | `TerminateProfessionalHandler`, `ResignFromProjectHandler` |
| `Disconnect`, `DeadlockVictim` | cancelled request context, PostgreSQL's deadlock detector; both end in the deferred `Rollback` |

Row locks follow PostgreSQL: `SELECT ... FOR UPDATE` is `"exclusive"`, an
`UPDATE` that touches no key is `"update"`, a foreign key check is `"share"`;
`Conflict` says which pairs exclude each other. A `"share"` lock waits for
`"exclusive"` but not for `"update"`, and that is what makes the freeze sound:
a new dispute cannot be inserted while a payment is between its freeze check and
its commit.

Left out of the actions: authorization (every request is an authorized one),
wording, notifications and activity logs, `paid_at` and `updated_at`, proof files
(a stage is `verifying` only once its proof path is set, so the status stands for
both), the deposit and reduction rows of the ledger (no sum reads them).

Three simplifications to know of. A termination is offered only while the role's
bid is accepted: the handlers look the professional up in the project's slot column
first, and only activation fills it. `SettleStages` locks and rewrites its
stages at one moment, where PostgreSQL takes the rows of one `UPDATE` one after the
other and re-evaluates the `WHERE` on each row it waited for; no other statement
of the model reads a stage that another session has already rewritten but not
committed, so the result is the same. `contract` stands for the bid and the slot
together, because activation and termination write both in one transaction.

### EscrowLedger

The abstract ledger has `budget`, `ledger` and `dispute` and one atomic step per
booking: `Deposit`, `Reduce`, `Pay`, `Open`, `Settle`, `Release`, `Reverse`.
`EscrowProject` states the refinement: its `ledger`, `budget` and `dispute` under
`INSTANCE EscrowLedger WITH ...`, and `ImplementsLedger` says that each commit is
one abstract step and everything else a stutter. TLC checks it in the run
`Ceiling` and `EscrowRowsProofs` proves it. `Settle` allows a closed dispute to be closed
again, because the code does (see findings).

### RetentionSweep

`releaseProjectRetention` reads warranty, claims, dispute and the list of stages
in four statements (`Scan` `CheckClaims` `CheckDispute` `List`), then per stage
reads it again (`Reread`) and releases it in a transaction of its own
(`Release`): the ledger row and the mark, or only the mark when a row is there
already.

| Variables | Code |
|---|---|
| `warranty`, `claim`, `filing`, `disputed` | `projects.warranty_end_at`; `project_warranty_claims.status` (`fixing` counts as open, `closed` as resolved, which is how the sweep reads them) and claims between date check and insert; an open dispute |
| `mark`, `booked`, `stages`, `paid`, `free` | `retention_released_at`; `retention_release` rows; the stages there are; those asked to be paid; ceiling minus `paidTotalMinor` |
| `at`, `queue` | the loop of each replica or admin, and what it listed |
| `holder`, `depth` | the session-level advisory lock of `runWithLock`: `pg_try_advisory_lock` and `pg_advisory_unlock` go to any pooled connection, so an unlock may miss (`Unlock`) and the lock lasts until the pool closes the connection (`Expire`) |

`Crash` and `Cancelled` stop a sweep anywhere between two statements.
`HalfWritten` lets a run start with a ledger row whose mark was never written.

### The modules over Gateway

`session[p]` is what a request has read between two statements. `Serve` starts a
request, `Done` ends it, `Leave` is a client that went away. `Contest` files or
closes a dispute. `Book(r, n)` writes the one ledger row of reference `r`.
Handlers that read, decide and write in a single statement are single actions;
the others are a `Begin...` action (checks and reads) and one or more actions
that act on what it read. An action without a `Begin...` whose guard is missing
is a handler that looks at no status.

| Module | Variables | Code |
|---|---|---|
| `MaterialTrade` | `quote`, `order` | `material_quotes`, `material_orders`: status, proof, prices, whether stock was taken |
| | `job` | `delivery_jobs`: status, courier, order |
| | `stock`, `onSite`, `reviewed`, `lost`, `cancels` | material stock and site stock relative to their start; reviews; units a cancelled request left undone between status and stock |
| `Amendments` | `addendum`, `request`, `sub`, `place` | `project_addendums`; procurement requests; the row of the specialist an addendum is for, and the slot of the project |
| | `change`, `stages` | change orders, and the payment stages each one added |
| | `requirement`, `history` | `project_requirements`, and the sums of their history |
| `Hiring` | `role`, `managed`, `bid`, `hired`, `projectIs` | kind of role, PM present, `bids`, the place, `projects.status` |
| | `plan`, `stagePaid`, `snapshot`, `feeVerified` | live payment plans, a stage asked to be paid, the plan in the signed document, `design_payment_verified_at` |
| `Teams` | `sub`, `place`, `engBid`, `request`, `needs`, `integrated` | sub-professionals, the place of their kind, engineers' bids, the specialist request, what the project requires and has approved |
| `Exit` | `workspace`, `deal`, `engaged`, `deleted` | `projects.status` (end states, frozen or not), `project_terminations`, whether anybody holds a place, `deleted_at` |
| `StageMoney` | `termin` | `project_payment_termins` of one role: status, `amount`, `retention_amount`, `net_amount`, whether `retention_released_at` is set |
| | `paidNet`, `paidHeld` | the ledger rows of a stage: its payment and its `retention_release`, 0 for none |
| `Phases` | `milestone`, `document`, `stage` | milestones, their vault documents, the stages linked to them |
| | `site`, `snag`, `extension` | the flags and lists of the project row; snags; extensions of the deadline |
| `Accounts` | `account`, `token`, `reset`, `hits` | one user, its tokens, its reset code, one key of the limiter |
| | `mail`, `worker`, `faults` | `mail_outbox` (what is queued, sent, refused), the batch of each replica's tick |
| | `device`, `member`, `proposal`, `profile`, `booking` | a push endpoint, firm members and their proposal, a profile, consultations of one hour |
| `Records` | `row`, `vault` | documents and pictures; the files stored so far and there |
| | `schedule`, `delays`, `shelf`, `workspace` | schedule phases, days lost, twenty kinds of small rows, folder/share link/broadcast/favorite |

Actions bear the names of their handlers; `map` in `PROJECT.json` gives the lines
of each. The composing modules hold a variable `topic`: a behaviour exercises one
topic (the payments of orders, the signing of a contract, the mail queue, ...),
so that the sizes of the topics add up instead of multiplying. Subjects in
different topics share no row but the ledger and the freeze, whose interplay
`Contest` and `Book` bring into every topic that has payments.

### StageMoney

The other models take the net and the retention of a stage as given. This one
says why they may. Amounts are integers: a request names tenths of a minor unit,
`Minor` cuts the digit off as `normaliseDecimal` does (`Truncated`), `Column`
rounds it as PostgreSQL does when a `numeric(24,2)` column takes the text of the
request, `SplitRetention` divides the minor units, and `Exact` is the CHECK of
migration `0004`. `ForTermin` is `terminNetMinor` with its fallbacks for rows
without a split.

| Actions | Handler |
|---|---|
| `BeginStoreTermin` `StoreTermin` | `StoreTerminHandler` |
| `BeginReplaceTermins` `ReplaceTermins` | `UpdateProjectHandler` with `payment_termins` |
| `BeginSignTermins` `SignTermins` | `SignContractHandler` |
| `ChangeOrderTermin` | `ChangeOrderDecisionHandler`, which locks the change |
| `BeginUpdateTermin` `UpdateTermin`, `BeginSetTermin` `SetTermin` | `UpdatePaymentTerminHandler` with and without an amount |
| `BeginDeleteTermin` `DeleteTermin` | `DeletePaymentTerminHandler` |
| `UploadTerminProof` `RejectTerminProof` `PayTermin` | `storeTerminProof`, `rejectVerifyRow`, `markPaidTermin` and `acceptVerifyRow` |
| `BeginReleaseTermin` `ReleaseTermin` | `ReleaseExpiredRetentions`, `releaseOneRetention` |
| `VoidTermins` | `settleTerminationStages` |

Left out: the order of stages and the ceiling, which only stop a payment, and
refunds, which are rows of their own. A plan of one stage stands for any plan,
since its rows are divided and inserted one by one, and the other checks on a
plan only stop it. `invoice_sent` is treated like `locked` and `pending`.

## 3. Runs

| Run | Instance | Shows |
|---|---|---|
| `Payments` | 2 sessions, 2 ordered stages, 1 dispute | types; two stages that together cost more than the ceiling never overspend it while they are uploaded, edited and deleted and a dispute comes and goes |
| `Arbitration` | 2 sessions, 1 stage, 2 disputes, amounts 1 and 2 | status and mirror agree with the ledger, dedupe is never stale, a refunded stage is not paid over |
| `Ceiling` | 2 sessions, 1 stage, 1 dispute, deposits, reductions, arbitration, a termination | the inductive invariant `RInv` (and with it `IInv`), no payment and no reduction slips past the freeze, refinement of `EscrowLedger` |
| `Progress` | 2 sessions, 1 stage, 1 dispute, fairness, no symmetry | every request ends |
| `Retention` | 2 replicas, 1 admin, 2 connections each, 1 stage, 1 claim | a release is covered, a mark has its row, a stage that stays releasable is released |
| `Trade` | 2 clients, 2 orders and the quote, 1 addendum, request, change, 2 specialists | ten properties of material, addenda, changes and site stock, among them that what reads as paid is booked at no less than its total; a delivered order ends |
| `Contracts` | 2 clients, 2 bids, 2 plans at most, 2 engineers, 2 vendors, 2 deals, 2 stages | one hire, one plan, the signed plan is in force, fees booked, freezes can be answered, what is spent fits the ceiling, what is booked and owed of a stage is its gross, which stays |
| `Works` | 2 clients, 3 milestones, 3 mails and 2 replicas, 3 files | phases complete at acceptance, limits bounded, a row loses its file only to a request about it, mail sent |
| `TwoDisputes`, `Outcome`, `Cancelled` | the smallest instance each | the findings below |
| `OrderTotal` | the instance of `Trade` | the finding about shipping |

### Bounds

Every hazard listed is a race of two requests, and the state a third would see
is a state one of the two commits, so two sessions (or clients) produce each
order of steps that matters; the theorems hold for any number.

*Escrow.* A stage costs 2 and the ceiling opens at 2, so one payment fits and a
second does not; refunds of 1 and 2 give the partial and the full refund.
`MaxBudget` bounds deposits and `Disputes` the ids of disputes; both bounds are
guards of the requests (`BeginAdjust`, `BeginOpen`) and never of a step the code
takes. Each run lets the clients make the requests named in `Requests`. Sessions
and dispute ids are symmetric. `Arbitration` does not let clients edit a stage: an
edit takes a refunded stage back to `pending` (see "Facts"), after which it may be
paid again, so `RefundIsNotPaidOver` speaks of the races that are left.

*Retention.* `MaxFailures` bounds crashes and cancelled sweeps, `MaxCeiling`
deposits. `MaxDepth = 1` keeps one connection from taking a lock it already has;
with two connections per replica an unlock on the wrong one still happens. A
ceiling of 1 and a retention of 1 make the release compete with a payment and a
reduction.

*Trade.* An order costs 1, or 2 with freight, which `acceptVerifyRow` books as 3:
`Funds = 3` lets any one of them fit and two that both have freight not. An addendum costs 1 or, with 4, more than there is.
One specialist has a profile for the place (`Profiled`) and one has not; a run
may begin with somebody in the place who has agreed. `MaxCancels`, `MaxStock` and
`MaxOnSite` bound cancelled requests and units.

*Contracts.* `Limit` is the code's limit of rounds of `NegotiateBidFee`, 1 here
and 5 there; `MaxRounds` bounds all rounds, since `ProposeFee` knows no limit.
Prices of 1 and 2 against `Funds = 2` let one fee fit and two not. The clients
are symmetric: a request differs from another only in what it read.

*Stages* (a topic of `Contracts`). Each amount of `Offers` stands for a way the
code can take: 1000 is a whole rupiah, the only kind `StoreTerminHandler` and
edits admit; 2014 is cut off and rounded alike, so it is written as 201; 2005 is
cut off to 200 and rounded to 201, and the CHECK refuses its row; 2300 is refused
by the guard of `MultiplyBy` (`MaxMinor` is small enough for that). With
`Agreed = 200` and `Tolerance = 50` two stages exceed what was agreed and one
does not. `Imported` lets a run begin with a row of the older system: one divided
at five percent, or one held back entirely, whose net is 0. `Termins` are
the ids the database gives, and bound the rows ever written. Nobody files a
dispute in this topic: a freeze only stops requests there.

*Works.* `MaxPassword`, `MaxTokens`, `MaxDeadline`, `MaxDays`, `MaxLinks`,
`MaxHits`, `MaxPending`, `MaxFaults` bound counters. The named conditions of
`MCWorks` are bounds too: `OneInFocus` (one milestone with a history of its own),
`OneSubmitted` (one phase submitted at a time), `FewShelves` (rows of two kinds at a time).
Clients may leave in every topic, between the file and its row too. `Files` are
the paths ever given, one upload each. `Batch = 2` of 3 mails makes a tick leave
one behind.

`Trade`, `Contracts` and `Works` say `CHECK_DEADLOCK FALSE`: in them nobody owes
the next request, and a project may come to rest (all ids used, every row in its
last state). The escrow and retention runs check deadlock.

### Fairness

*`EscrowProject!FairSpec`.* `SF_vars(Serve(p))`: PostgreSQL queues waiters on a
row lock, so a request that can run again and again is eventually granted its
lock, and a handler with its lock runs on. `WF_vars(DeadlockVictim(p))`: the
deadlock detector runs after `deadlock_timeout` and fails a member of every
cycle.

*`RetentionSweep!FairSpec`.* A sweep under way goes on (`WF` on its steps); some
connection that holds the advisory lock is closed in the end (the pool closes
idle connections, `WF` on `Expire`); and the loops of all replicas tick every 24
hours, long after any lock is gone, so if the lock can be taken again and again,
some replica takes it (`SF`). No replica in particular is promised the lock, and
crashes are bounded by `MaxFailures`.

*`TradeFairness`.* The daily sweep completes delivered orders: weak fairness on
`AutoCompleteOrders` for each order.

*Mail.* Weak fairness on the tick of each replica. `MailIsSent` assumes, by the
named ASSUME `FewAreRefused`, that fewer mails are refused for good than a batch
holds; see "Facts" for what happens otherwise.

Nothing is assumed of clients: no request need be made and none need be
cancelled.

### Findings

| Run | What the code does |
|---|---|
| `TwoDisputes` | `ProjectDisputeStoreHandler` checks for an open dispute and inserts without a lock or a unique index: two may be open (MONEY.md I39 says one). The freeze then lasts until both are closed. |
| `Outcome` | act and withdraw close a dispute by id without looking at its status again: the later overwrites the earlier, so a withdrawn dispute may become resolved. |
| `Cancelled` | `reopenIfInProgress` acts on a status read before the transaction: a termination can reopen a project that arbitration cancelled. |
| `OrderTotal` | `acceptVerifyRow` and `paymentRowGross` take an order at `total_price + shipping_cost`, although `total_price` holds the shipping already (the INVARIANT comment at `materialorderwrites.go:238`: the ledger moves exactly `total_price`). |

### Facts

Behaviour the models have because the code has it, which no run states as a
property. For most of it no doc, comment or test of the repository says otherwise,
or the statement is too loose to refute; the two facts of the escrow do disagree
with the sentences of MONEY.md they name, and single steps of `ActReverse` and
`EditStage` show them. A reader who changes the code should know all of it.

* **Escrow.** Nothing looks for an earlier refund of the same dispute: a second
  one fails at `budget_tx_reference_unique` and the admin is answered with a
  server error (MONEY.md I14 speaks of unique violations as idempotent
  successes). `PUT /payment-termins/{t}` writes `locked`, `pending` or
  `invoice_sent` over any status, `paid`, `refunded` and `void` included (MONEY.md
  lists those as terminal); a later payment of a stage that was paid finds its
  row in the ledger and books nothing.
* **Material.** A quote and the order made from it are
  two ledger references, so one purchase can be booked twice. A proof stored late
  takes a shipped or completed order back to `verifying`. A courier's concurrent
  updates can take a delivered job back to `picked_up`.
* **Addenda.** The status is read before the `FOR UPDATE` and not again; two
  verifications of one procurement request ask the owner twice. Deleting a
  requirement is three autocommits. Inviting another specialist replaces the user
  of the row and keeps its `accepted_at`, so a verified payment starts somebody on
  the consent of the one before. The bid an addendum recommends
  (`markPaidRecommended`) is in `Hiring`, not in `Amendments`.
* **Teams.** A dozen handlers write or clear the place of a role: hiring,
  accepting, declining and assigning sub-professionals by the profile of a user
  read before; paid and verified addenda; paid bids, whoever holds the place; the
  end of a contract. A place may therefore name somebody whose row was given to
  another user or removed. No property speaks of the place.
* **Retention.** The sweep looks for claims and disputes before its transactions
  and not in them: one opened in between does not stop the release (MONEY.md I27
  does not say at which moment the check has to hold). It also
  releases the retention of a stage that was never paid. A second acceptance by
  the owner restarts the warranty. A half-written release is not repaired while
  the ceiling has less left than the retention.
* **Hiring.** Rejecting an invitation, declining a PM and negotiating a fee look
  at no status; a signature that read its bid before a termination revives it;
  after a termination with a paid stage no successor can sign; verifying the
  design fee without an accepted bid stamps it as verified and books nothing.
* **Exit.** An answer to a mutual termination, a completion and a deletion act on
  what was read before; an escalation may file a dispute beside an open one.
* **Stages.** An edit of a stage that names another amount fails with a database
  error, whatever the status: the handler writes the amount and not the halves,
  and the CHECK refuses the row. A plan with a digit of five or more behind the
  minor unit fails the same way. A replacement of the plan by an edit of the
  project deletes stages that came into flight, or were paid, after its check;
  what was held back of a paid stage that is deleted is never released.
* **Works.** Milestones, reviews, audits and handovers unlock stages by id
  whatever their status has become; `completed_phases` is rewritten whole, so of
  two concurrent seals one is lost; the acceptance counts snags before it
  finalizes; the seal looks for milestones of a phase name that milestones do not
  use.
* **Accounts.** A login that checked the old password mints its token after a
  reset revoked the others; two requests may use one reset code; a change of role
  is four autocommits. The limiter counts and then inserts, so as many attempts
  pass as requests counted at once (`RateIsBounded` states the bound that
  holds). A batch full of refused mails starves the newer ones; a crash between
  sending and marking sends twice. Without the key of a provider mail is logged and
  marked as sent at once; the model is of a deployment with one.
* **Records.** A file is removed before its row is deleted or rewritten: a
  request that fails in between leaves a row whose file is gone. So does an edit
  of a picture without a new image, which writes back the path it read: a
  replacement in between has removed that file, and the new one is named by
  nobody. Share links and the broadcast list are rewritten from a stale read.

## 4. Proofs

| Module | Theorem | Property |
|---|---|---|
| `EscrowProofs` | `Invariance`; `TypeCorrect`, `Affordable`, `FreezeHolds` | `IInv`; `TypeOK`, `NoOverspend`, `MoneyRespectsFreeze` |
| `EscrowRowsProofs` | `RowInvariance`; `SettledBacked`, `MirrorCorrect`, `DedupeHolds` | `RInv`; `SettledIsBacked`, `MirrorMatchesLedger`, `DedupeIsCurrent` |
| | `RefundKept`, `Refines` | `RefundIsNotPaidOver`, `ImplementsLedger` |
| `RetentionProofs` | `SweepInvariance`; `ReleaseCovered`, `MarkBacked`, `SweepTypes` | `SweepInv`; `ReleaseIsCovered`, `MarkIsBacked`, `TypeOK` |
| `TradeProofs` | `TradeInvariance`; `TradeTypes`, `StockAccounted`, `SpentCovered`, `PaidFull`, `AddendumPaidBooked`, `OneStage`, `StockHistory` | `TradeInv`; `TypeOK`, `StockIsAccounted`, `SpentIsCovered`, `PaidInFull`, `AddendumPaidIsBooked`, `OneStagePerChange`, `StockHasHistory` |
| | `TradeBooksOnce`, `CouriersKeepJobs`, `OneOrder` | `BookedOnce`, `CourierKeepsJob`, `OneOrderPerApproval` |
| `ContractsProofs` | `ContractsInvariance`; `ContractsTypes`, `OnePlanEach`, `SignedPlan`, `BidsPaidBooked`, `FreezesPend` | `ContractsInv`; `TypeOK`, `OnePlanPerContract`, `SignedPlanIsPlan`, `BidPaidIsBooked`, `FreezeHasPending` |
| | `HiresOne`, `SpentCovered` | `OneHire`, `SpentIsCovered` |
| | `StagesInvariance`; `StagesAddUp`, `StagesStay` | `StagesInv`; `PaidAddsUp`, `AmountsStay` |
| `StageMoneyProofs` | `SplitExact`, `SplitBounded`, `PaidIsNet`, `RoundedIsRefused`, `WholeIsWritten`, `EditIsRefused` | — (about the operators and one step) |
| `WorksProofs` | `WorksInvariance`; `WorksTypes`, `RateBounded` | `WorksInv`; `TypeOK`, `RateIsBounded` |
| | `OwnFilesGo`, `AcceptedPhases` | `OnlyOwnFiles`, `AcceptedHasPhases` |
| `LedgerSumProofs` | `TotalEmpty`, `TotalInt`, `TotalSplit` | — |

Each theorem of the form `Spec => ...` rests on an inductive invariant, the first
theorem in its row. TLC has checked the invariants as well: `RInv` is a property
of the run `Ceiling`; `TradeInv`, `ContractsInv`, `StagesInv` and `WorksInv` were
checked on the instances of `Trade`, `Contracts` and `Works`.

### Assumptions

Nothing is assumed of the constants but what the named ASSUMEs say, which TLC
evaluates in every run.

| Module | ASSUME | Why it holds |
|---|---|---|
| `EscrowProject` | stage ids are naturals and no sentinel is one of them; prices and amounts are positive; the opening ceiling is a natural | ids are serial, the handlers refuse amounts that are not positive |
| `RetentionSweep` | `StageIds`, `HeldPositive`, `OpeningFits`, `WorkersDiffer`, `BoundsAreNats`; `NoConnIsNone`: the sentinel for "no connection" is none | ids, amounts, bounds; a modelling convention |
| `Gateway` | `ReferencesAreNats`; `FinitelyMany` clients and references | at any time finitely many requests are under way and rows are there |
| `MaterialTrade`, `Amendments` | ids are naturals and references of the ledger; prices, costs and amounts are positive; `NoOneIsNobody`; there is an order id | as above; the first order takes the first id |
| `Hiring`, `MCContracts` | bids are references; prices are positive; `Limit` is at most `MaxRounds`; `SomeoneBids` | `MaxRounds` is the bound of the model on all rounds, `Limit` the code's on some of them; the initial states with a hired contractor need a bid |
| `StageMoney` | `TerminIds`, `AmountsAre`: stage ids are naturals; amounts named are integers, also negative ones; the agreed value, the tolerance and the bound are naturals | ids are serial; `Agreed = 0` stands for no agreement yet |
| `Teams`, `Exit` | `VacantIsNobody`, `OwnerIsParty` | the empty place is no user; the owner of a project is always a party to its end |
| `Phases` | milestones are references; the price and the deadline are naturals; `PhasesHandedOver`: the phases that are handed over are phases | `HandedOver` bounds which phases are handed over |
| `Accounts` | `MailsAreNats`, `FewAreRefused`, `AccountBounds` | ids and bounds; `FewAreRefused` is about liveness only |
| `Records` | `StationsAreNats`, `FewRecords` (finitely many) | ids |

### Arguments

**The ceiling and the freeze.** Neither `NoOverspend` nor `MoneyRespectsFreeze`
is inductive. A commit is safe because of what its transaction checked steps
earlier and because of the lock it has held since. `IInv` says exactly that:
`SessionsReady` states for each control point what the buffer of a session may
hold (`PaymentReady`: a payment that still fits the ceiling, under the exclusive
lock, with no dispute open unless the payment resolves one; `RefundReady`;
`BudgetReady`), and `LocksCompatible` that project locks never conflict. The
argument for a step has two parts. For the session that moves, its new point is
ready (one lemma per handler). For the others, `ReadyKept`: what they have ready
depends on the rows only if they hold the project row exclusively, and a step
that changes ledger, ceiling or disputes needs a lock that excludes them
(`NobodyExclusive`). `QuietStep` and `WritingStep` say this once for all
handlers. `FreezeHolds` then needs only the invariant in the state before a
commit.

**Stages and disputes.** `SettledIsBacked` and the others fail to be inductive
for a second reason: what a transaction will write about a *stage* is right
because of what it read under the lock of that stage. `RInv` adds to `IInv` the
agreement of the stages with the ledger (`StagesBacked`) and for every session
`HoldsRow` (it holds the row of the stage it will write) and `RowReady` (a
buffered payment is of a stage that is neither refunded nor gone and not yet
booked; a buffered refund fits what was paid and sets the mirror to the new sum;
anything else writes no ledger row). For the session that moves there are three
shapes of step: one that prepares a stage write, one that leaves the buffer
alone, and a commit; the commits are split into payment, refund and anything
else. For the other sessions a frame lemma says that a step of `p` leaves them
the rows they have locked, the stage and claim of every dispute, and the ceiling
to whoever holds the project exclusively.

**Steps.** `RefundKept` and `Refines` are about steps from a state that
satisfies `RInv`. For `Refines`, each commit is mapped to the abstract step of
what its buffer holds (`Pay`, `Release`, `Reverse`, `Deposit`, `Reduce`,
`Settle`), the insertion of a dispute to `Open`, and `RowsStill` shows that all
other steps stutter.

**Retentions.** `SweepInv` strengthens the two properties with types and with
`Queued`: a sweep about to read or release a stage has one in its queue. That
the head of a queue is a member of it needs the minimum of a set of naturals,
which comes from the library's theorem on well-founded relations. `TypeOK` needs
one fact more, `LockCounted`: the count of the advisory lock is zero exactly
while nobody holds it. An unlock on the wrong connection leaves both alone, and
every way out (the last unlock, a closed connection, a crash) resets both; so
the count never leaves `0..MaxDepth`.

**Trade.** `SpentIsCovered` and `StockIsAccounted` add up over all references
and all clients, so each step has to say what it adds to the sum and that it
leaves the other summands alone. `TradeInv` gives what that takes. Its larger
part is about requests (`TradeSession`, `AmendSession`): the ids a request has
read name rows that are there, since nothing deletes them; an amount it will
book is positive; and a request about to write `paid` to an order has booked it
before (`bookOrder` comes before `writeOrder`), which is why `PaidInFull`
survives a cancelled request between the two. That the booking is of the whole
total holds because the total of an order, shipping included, is fixed by the
approval that makes it, and both ways to pay book it or more. Of a quote only the
goods are certain: freight can be asked for anew after the amount was read. The rows add that prices are
positive (`OrdersKept`, `AddendaKept`), that an order without a row took no
stock, and that a job nobody took has no courier, which makes `CourierKeepsJob`
a fact about steps. Stock is owed by a session only in the topics of trade;
`Due` of all clients is a sum over a function, which one step changes at one
client (`TradeKeeps`). The steps of `Amendments` and of `MaterialTrade` never
meet in one behaviour, so each only has to leave the rows of the other alone.

**Contracts.** What makes hiring right are two locks, and `Locks` says what they
protect: one request at a time is between the decision to hire and the write
(`At(p, "hire")`), and while it is the place is empty, which gives `OneHire`; of
the requests that sign one contract, one at a time is past the replacement of
its plan, and the copies it will delete are all there are (`session[p].old`),
which gives `OnePlan` and with it `OnePlanPerContract` and `SignedPlanIsPlan`.
What else happens to the bid of a signature is left open: the invariant does not
say that it is still live, because the code does not look (see "Facts").
`SpentIsCovered` is about fees of bids, stages and imported vendors together:
each is held against the ledger as it is under the lock of the project
(`Covered`), at an amount read long before, and a booking changes the sum by what
it adds.
`FreezeHasPending` rests on `ExitSession`: a termination answered once is never
pending again, so an escalation, which writes over a status it read before,
cannot take away the pending one a freeze rests on.

**Stage money.** The split is arithmetic: the net is the remainder, so the halves
add up for any amount and rate (`SplitExact`), and cutting the product off keeps
what is held back within its share (`SplitBounded`). Of a row the schema takes,
the fallbacks of `terminNetMinor` never give anything but the net (`PaidIsNet`).
An amount is stored from the text of the request and divided from the minor units
cut off it, so both agree just if the digit behind is below five
(`RoundedIsRefused`); whole amounts always do, and are far from an overflow
(`WholeIsWritten`). What remains is that the columns never move apart. An edit
writes the amount and leaves the halves, after a guard that compares it with a
row read before, perhaps before a payment. That staleness does no harm: the CHECK
refuses every edit that names another amount (`EditIsRefused`). So what the guard
promises for stages in flight holds for all of them, by the schema and not by the
guard; it also means that no amount of a stage can ever be edited.
`StageRows` says that each row is exact and that what is booked for it is
its own net and its own retention; `PlanSessions` that what a sweep has listed
for a release is the retention of the row, or the row is gone (an id is never
given again). Each action is shown to do one of three things to each row
(`Moves`: the row goes, comes, or is carried on with its halves and, if at all,
booked its own), and that keeps `StageRows` and the halves of rows that stay. `StagesAddUp` and
`StagesStay` follow, and they are what lets `EscrowProject` and `RetentionSweep`
take the net and the retention of a stage for constants.

**Works.** `WorksInv` has three parts, one for each component. *Phases:* the
acceptance decides on `needed`, `listed` and the certificate it read before it
counted the snags. It is right all the same because these only grow: what a
request listed is still answered for, by a stamp or a claim of the owner
(`PhaseSession`, `SiteGrows`), and a certificate is not taken back.
`AcceptedHasPhases` states the phases at the time of the write, not at the time
of the read. *Accounts:* the limiter counts and then inserts, so the bound that
is kept is about what was inserted together with the requests that have counted
(`Windows`): each of them was let in below the limit, so all of them together
exceed it by one less than their number. For the mails, a replica's batch was
read as queued, nobody takes a mail out of the queue but by sending or giving
up, and one is marked only if the provider has taken it (`Tour`). *Records:* a row may lose its file to a request that stops half
way, or to an older path written back, so no invariant can say that live rows
have their files. What keeps the requests of one row from hitting another is that
paths are never shared. `Holds(i, f)` says that row `i`, or a request about it,
has the path `f` in hand; `HeldOnce` that a path is in hand for one row only,
stale paths included, and `HeldStored` that it was stored once, so that
`storeVaultFile` never gives it out again. With both, a request that removes a
file removes one that only its own row can name (`OwnFilesGo`).

**Sums.** A sum over a set is a fold, which the provers cannot evaluate.
`LedgerSumProofs` proves what is needed of it from its definition, for any
weights: the sum of nothing is 0, the sum of finitely many integers is an
integer (`SumInt`), one element adds its weight (`SumSplit`), a change of one
weight changes the sum by the difference (`SumUpdate`), weights of 0 add nothing
(`SumZero`). That a function defined by recursion on the subsets of a finite set
exists and is unique is proved by a smallest counterexample on cardinality. The
ledger (`TotalInt`, `TotalSplit`) is the case where the weight is the amount of
a row; what was spent on trade, what the clients owe the stock and the days a
schedule has lost are others.

### Only model-checked

The liveness properties `EveryRequestEnds`, `RetentionReachesStage`,
`DeliveredOrdersEnd` and `MailIsSent`: liveness under fairness is out of the
prover's reach. The four findings are counterexamples found by TLC. Of the
properties that hold, no safety property is only model-checked.

## 5. Not modelled, and what is left

* The link of a stage to a milestone and the percentages of a plan; the purchase
  of material without a supplier (`roadmap2.go`).
* Pruning of old notifications and the stamp on overdue snags, two statements of
  the scheduler that no other handler reads. (The stamp excludes only resolved
  and closed snags, so accepted ones get it too.)
* The fan-out to push services: best effort, after the commit.
* The size of the connection pool. A payment asks for a second connection while
  its transaction holds one (`projectpaymentverify.go:155`), so a pool of which
  every connection is held by such a request stands still; the size is a
  deployment setting.
* Of the money arithmetic: formatting, allocation by weights and the percentages
  of fees; that the digits of a decimal mean the number they mean.
* Authorization and identity: stateless predicates; every request modelled is an
  authorized one.
* AI chat (an external service and a transcript nothing reads back), ETL, routing,
  JSON compatibility and the web frontend.

Next, in this order: the step properties that `FreezeHasPending` and
`SignedPlanIsPlan` suggest (what a signature may replace, what lifts a freeze)
as runs and theorems; an abstract ledger for the modules over `Gateway`, so that
`Book` is shown to be a step of `EscrowLedger`; allocation by weights against a
reference definition over bounded inputs; a module for the pool with second
connections; the stages of `Hiring` and `Phases` at the grain of
`EscrowProject`.
