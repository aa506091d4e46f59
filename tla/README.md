# A formal model of fazle-core

`fazle-core` runs the office of a security company over WhatsApp: messages come
in through two bridges, Meta webhooks and comments; they are classified and
start workflows (recruitment, escort duty, payment, attendance); replies and
payment instructions go out again; an admin steers everything with commands
such as `PAID`, `RELEASE` and `APPROVE`; a payroll engine books what the owner
writes about money. It is Python asyncio over PostgreSQL. Nearly all state is
rows of tables, nearly every statement commits by itself, and the tasks that
touch the rows are the request handlers, several background loops and, for some
tables, other processes. What is hard about it is therefore always the same:
what another task does between two `await`s, what a crash leaves behind between
two statements, and what a repeated message does.

The modules here model the parts where that decides whether money is paid twice,
a message is lost or a worker steps on another. Every module is translated from
the code; `PROJECT.json` names the lines behind each definition.

## 1. Inventory

### Modelled

| component | state | operations | hard because |
|---|---|---|---|
| `bridge_poller`, bridge webhooks of `app.main` | cursors, processed-message tables, in-memory reply cooldown | start, fetch, duplicate check, mark, save, route, reply, advance cursor; webhook request | two paths for one message; marks before work; cursor behind a batch; restart |
| `social_auto_reply` | inbox events, thread state, reply queue, rate limiter | ingest, claim a conversation, plan, enqueue, sweep, retry, pause | two daemons, two-step ingest, claims that outlive a crash |
| `outbound` + breaker of `app.bridge` | queue rows, breaker per bridge and process | enqueue, claim, send, mark, alert | lost answers, crash between post and mark, half-open probe |
| `shared.queue`, `shared.queue_arbiter` | queue rows, lease rows | dequeue, acquire (two statements), complete, fail, reclaim, sweep | stale lease snapshot, expiry against a slow worker |
| `shared.write_router`, `shared.locks` | lock rows with TTL, asyncio locks | acquire, transaction, publish, release, clean-up | TTL overrun, no fencing token, lost answer of an INSERT |
| `shared.state_version`, `events`, `realtime`, `frontend_sync` | two version counters, WebSocket connections, a tab's version | bump, announce, hello, poll, heartbeat, drop, purge | a write while the socket is down, another process, Redis that comes and goes |
| `shared.bridge_orchestrator`, `shared.self_heal` | health and probes of the bridges, in-memory retry queue, supervised tasks, panic mode | send with failover, retry pass, probe, drain, check cycle, restart | one list changed by three tasks, cycles that overlap |
| `shared.runtime_gateway` | node rows, heartbeats, claimed queue rows | register, heartbeat, sweep, release | a sweep of two statements, a node that is only silent |
| admin's desk: `admin_commands` (APPROVE, REJECT, EDIT, users), `rbac`, `attendance`, `attendance_parser`, `reviewed_reply_memory` | draft replies, attendance, admin users and roles, texts of the last 30 s | draft, check role, approve, send, mark, save attendance, reject, edit, remember, grant | statuses read and overwritten without a condition, restart between mark and send |
| `employee_verification`, employee branch of `message_router` | sessions, kept as draft rows | start, close the stale one, advance, build the payment draft | overlapping pictures, admin commands on the same row |
| `payroll`, `payment_ingest`, daily job of `scheduler` | payroll runs, staging rows | compute one or all, transitions, import, book | select then insert, status read before the update, keys per day |
| `admin_transactions` | transactions, monthly ledger | add, edit, soft delete | row and ledger in separate statements |
| `payment_workflow`, `payment_correction`, PAID/ADVANCE of `admin_commands`, draft clean-up | payment drafts, cash ledger, correction log, duplicate cache | create, pay, reverse, adjust, expire | statements without a transaction, repeated commands |
| `fazle_payroll_engine` | archive, checkpoint, message states, review queue, transactions, ledger, employees with links and aliases | sync, gap scan, replay, ingest; parse, match, book; promote, dismiss, requeue, reverse; link, review, patch | late messages, overlapping passes, workers against reviewers, merges |
| `escort`, `escort_roster` | escort programs, roster entries, lighters of the history | order, complete, reconcile, backfill, match, sync, edit, delete | racing orders, deletions by ids read before, repeated backfills |
| `escort_lifecycle`, confirmation in `escort` and `admin_commands` | escort programs, attendance, escort drafts | release by slip, message or command; confirm | select-then-update, failure half way, repeated slips |

They interact through tables and calls: the pollers (Inbound) hand messages to
the social auto reply (`SocialReply.Ingest`) or route them. A routed message may
open a verification session or make a draft (Desk), make or complete an order
(EscortOrders) or end a duty (EscortRelease), whose draft is then paid
(PaymentLedger). Payment instructions and alerts leave through the outbound
queue (Outbound). The payroll engine reads the bridge's SQLite files on its own
(PayrollEngine). The write router, the queue arbiter, the node registry, the
bridge orchestrator and the self-healer are the shared infrastructure (Runtime,
QueueArbiter).

What makes each correct: a message is taken up, once; a claim has one owner; a
reply or payment leaves at most once per decision; ledgers are the sum of their
rows and balance; final states stay final; nothing that was accepted is left for
ever.

### Not modelled

* Listings, exports, diagnostics and metrics of the payroll engine and the
  roster, the type-ahead search, the slip matching of `escort_roster/extractor.py`:
  they read. The parts of the message router that only word an answer.
* Recruitment funnel: `recruitment_flow.intake_message`, its only entry, has no
  caller in the application. `gap_detector`, `gap_actions`: no callers.
* Classification and wording (intent, identity, knowledge base, templates, RAG):
  tables of words and external models, without workflow state. OCR, slip
  extraction, voice and images: external services and regular expressions, pure
  functions of a picture. Where a decision depends on them the models choose.
* Backups, reports, CSV imports, message archive, `admin_employees`: I/O around
  single statements.
* `scripts/` and `tools/`: repairs and migrations run by hand, except the replay
  of the payroll engine, which feeds its archive.

## 2. How the models are written

* A handler is split at its `await`s. A statement is one step; what happens
  between two awaits of one task is one step too. `pc` names the next statement.
* SQL claims (`FOR UPDATE SKIP LOCKED`, `ON CONFLICT DO NOTHING`, an `UPDATE`
  with a condition) are atomic steps with that condition as guard. A `SELECT`
  whose answer is used later leaves it in a variable of the task.
* Time is abstract: a TTL, a backoff, a cooldown elapses in a step of its own, at
  any moment. Identifiers, texts and phones are model values; where a parser
  decides (EscortText, PayrollRules) a text is the sequence of labelled lines, or
  the record of matches, that its patterns see.
* Texts, wording, logging and metrics are left out. Where a decision depends only
  on them, both outcomes are possible.
* `env` (in WriteRouter `overrun`, in EscortRelease `setting`) is chosen in the initial state and never
  changes. It names the world of a behaviour: who runs, what arrives, what may go
  wrong. One run thus covers several worlds, listed with a comment each in its MC
  module, and a property says in its first line which of them it is about.
* Deviations named `Mut_…` occur in no specification; replacing the definition of
  the same idea by one of them must break the property that `PROJECT.json` couples
  it with.

## 3. Modules, actions and code

**Inbound** (`modules/bridge_poller`, `_handle_bridge_event`). A poller per
bridge: `StartPoller` reads the cursor, `Fetch` takes the oldest `Limit` rows
beyond it, `CheckProcessed`, `MarkProcessed`, `SaveMessage` go through them, then
either `IngestSocial` (single engine) or `CheckCooldown`, `ProcessMessage`,
`SendReply`/`KeepReply`; `AdvanceCursor` moves the poller's own cursor and
`SetCursor` the stored one. For bridge2 a second phase reads what the admin sent.
`PollRaises` is the `except` around the round, which the identity lookup before the
save may reach too, `StartFails` the read outside it.
The webhook runs through `HookCheck` to `HookReply`. `Arrive` is the bridge
writing its SQLite file (external). The branches for images, voice and documents
test `not text`; `_fetch_new_messages` gives every row a text or drops it, so they
are never entered.

**SocialReply** (`modules/social_auto_reply`). `Ingest` and `Classify` are the two
statements of `ingest_social_event`; `ReadThreads` to `CheckRate` the planner;
`PickRow` to `MarkFailed` the sweep, which a daemon or a retry request runs;
`Abort` is a crash or an exception only the loop catches. The cooldown compares
the joined text of the intents: those of the priority list are sorted, the others
keep the order of their messages, which `order` and `qorder` remember. A target is
whatever the platform answers to: the sender, or for Facebook comments the comment.

**Outbound** (`modules/outbound`, breaker of `app/bridge.py`). `Claim` is the
transaction of `sweep_once`; `StartSend`, `Post…`, `MarkSent`, `MarkFailed` one row;
`RecordSuccess` and `RecordFailure` the breaker; `AlertCircuitOpen` the alert row
through the other bridge. **ClaimQueue** is the abstract specification of a table
used as a queue: put once, claimed by one owner, let go or finished only by the
owner or in the name of one that died, finished for good. Outbound implements it under the mapping at the end of
its module: pending and failed rows wait, sending rows are claimed by the process
whose batch holds them, sent and dlq are finished.

**QueueArbiter** (`shared/queue.py`, `shared/queue_arbiter.py`). `DequeueBatch`
claims rows, `AcquireSelect` and then `AcquireInsert`, `AcquireReclaim` or
`AcquireRefused` the lease; the handler; `CompleteLease` and `AckMessage`, or
`FailLeaseSelect`, `FailLeaseUpdate` and `FailMessage`; `RecoverStaleLeases` and
`SweepNode` beside them. `env` says which workers dequeue and which call
`arbitrated_process` directly.

**Runtime** composes four parts that share no other variable: **WriteRouter** with
**FrontendSync**, **Bridges** with **SelfHeal**, and **Nodes**. WriteRouter
(`shared/write_router.py`, `shared/locks.py`): `TakeLocalLock`, `PurgeExpired`,
`InsertLock`, `WriterReads`, `WriterCommits`, `Publish`, `ReleaseLock`, with
`InsertAnswerLost`, `WriterRaises`, `ReleaseFails`, `TtlElapses`, `ProcessDies`. FrontendSync extends its
`Publish` step by `Announce`: the event reaches the tabs of the process that serves
the WebSocket, or is lost, and `BumpStateVersion` bumps the version in Redis, else in
PostgreSQL, else nowhere, which nobody is told (`unheard`); a tab
connects, says hello, polls, sends its heartbeat, or drops. Bridges
(`shared/bridge_orchestrator.py`): `SendWithFailover`, the retry pass over a
snapshot, probes and the drain after an outage, deduplication by content. SelfHeal
(`shared/self_heal.py`): a cycle of checks in `CheckOrder`, restarting what it finds
dead (a restart that raises, `RestartFails`, is logged and left to the next cycle) and
summing the pressure. Nodes (`shared/runtime_gateway.py`): `Heartbeat`,
`MarkStaleNodes`, then `ReleaseClaimedQueueItems` for each node it returned.

**Desk** composes the admin's side over **DeskTasks**, the tasks of the process.
**ReplyDesk**: rows of `fazle_draft_replies` from the drafts that arrive
(`KeepDraft`, `Complaint`, `SlipDraft`, `AttendanceDraft`, `HandleAttendanceMessage`)
through `ApproveRead`, `ApproveMark`, `Send`, `MarkSent`, the attendance statements,
`RejectRead/Mark`, `EditRead/Mark` and `RememberRead/Write`. A bridge that reports
failure may have delivered (`bridge.send` returns False on a timeout too), and the
UPDATE after a delivery may raise; `unheard` remembers the rows to which that happened. **Verification**: sessions
on the same rows. **Payday**: `ComputeRead/Insert`, `TransitionRead/Write`,
`DailyPayroll`, `IngestMatch` to `BridgeToFinalize`. **Roles**: `CheckActor`,
`CheckLevel`, `Grant`, `DisableUser`, the bootstrap, and the routes under
`/admin/users` (`UserRoute`, `RevokeRole`). **BackOffice**: hand-made
transactions and their ledger. Desk itself adds the memory of recent texts, the
routes and the restart.

**PaymentLedger**: creation of drafts, `PAID` statement by statement, reversal and
adjustment, the two clean-up jobs. The ledger is a sequence of rows.

**PayrollEngine** over **PayrollArchive** (bridge, sync with its checkpoint, gap scan,
replay, POST; `InsertMessage` and `InsertState` are the two statements of
`ingest_message`), **PayrollRules** (what parser, validation and AI helper make of a
text), **PayrollPeople** (lookup in stages, automatic creation, links, aliases,
reviews, PATCH): the parser worker (`PollPending` to `MarkNext`), the accounting
worker (`PollParsed`, `Dispatch`, `CashLookup`, `MatchEmployee`, `TxnCheck`, `TxnInsert`,
`UpsertLedger`, `Booked`), reviewers and clerks, requeue, crash. The ledger has a cell
per employee, month and column: an `advance` goes to `total_advance`, every other
category to `total_paid`. **PayrollReports**
defines what GET /employees and the reconciliation show.

**EscortOrders** over **EscortText** (the parsers) and **EscortRoster** (entries, pay,
edits, deletions): orders, completed drafts, reconciliation, junk and empty clean-up,
backfill, history sync, matching. `kind` remembers what a worker is doing while its
request is under way. `Fails` are the statements that raise, with what is left to do
afterwards: after a reconciliation the answer goes to the admin all the same, an order
goes on with its next lighter, an edit stops between its two UPDATEs. The swallowed
failure of a confirmation is a branch of `UpdateProgramConfirmed`.

**EscortRelease**: find the program, close it, fill in the attendance, draft the
payment, and the paths that confirm a program. It keeps of a program only what a
release reads (`duties`).

## 4. Runs

| run | instance | shows |
|---|---|---|
| Inbound | bridges b1 (3 messages) and b2 (1, and 2 sent), `Limit` 2, one webhook request; six worlds | `PolledOnce`: a poller starts a workflow once, across restarts and exceptions. `NoGap`: no cursor passes an unmarked message. `StoredIsTakenUp`: every message is taken up |
| SocialReply | 4 messages of one sender on 2 platforms, two daemons, a retry request; eight worlds | `AnsweredOnce`, `OnlyRecruitingAnswered`, `CooldownHolds`; `Settles`: messages are decided on, replies end |
| Outbound | 2 processes (one with sending switched off), 2 messages and 2 alerts, 2 attempts, breaker threshold 2; six worlds | `DeliveredOnce` where no answer is lost, `ImplementsClaimQueue`, `RowSettles` |
| QueueArbiter | 2 workers that dequeue or call `arbitrated_process`, 2 messages, 2 attempts; four worlds | `OneWorkerPerMessage`, `CompletedIsFinal`, `LeaseResolved` |
| Runtime | 3 writing tasks in 2 processes, a tab, 2 notices, 2 overlapping check cycles, 2 nodes; twelve worlds | `NoLostUpdate`, `LockEventuallyFree`, `RetrySettles`, `DeadNodeReleases`, `TabCatchesUp`, `DeadTaskRestarted` |
| Desk | 2 tasks, 2 people, an owner and an accountant, 2 employees, 2 payments; fourteen worlds | `SentAsApproved`, `LedgerFollowsRows`, `EvidenceBeforeDraft`, `PaidOnce`, `RolesFromSuperadmin` |
| PaymentLedger | 2 handlers, 2 drafts and 2 adjustments, 3 commands; overlapping or not, failing or not | `SentIsRecorded`, `CountersBalance`, `BooksAgree` |
| PaymentLedger_double | 1 draft, 1 handler, 2 commands | **violated** `NoDoubleFinalize`: the same `PAID` after 30 s pays again |
| PayrollEngine | 8 messages of every kind, 3 employees, 2 reviewers, 2 clerks; sixteen worlds | `BookedOnce`, `LedgerAgrees`, `MoneyVisible`, `PaidIsListed`, `Reconciles`; `StoredIsSettled`: whatever the bridge stores is settled. The only run that checks deadlock: its loops poll for ever |
| EscortOrders | 2 mother vessels, 3 lighters, 2 escorts, 2 workers, 3 requests; twelve worlds | `PayFollowsDates`, `SupersededIsGone`, `BackfilledOnce`, `ConfirmedIsKept` |
| EscortRelease | 1 program, 2 handlers, 2 requests; four worlds | `DraftsFollowClosures`, `CompletedStays`, `CompletedIsDrafted` |
| EscortRelease_repeat | 2 programs of one employee, 1 slip twice | **violated** `OneDraftPerSlip`: the repetition closes the next program |

*Bounds.* Two of each actor is the least at which an interleaving matters, and
the code has no rule about three. Two attempts exercise the first failure, the
last and the step beyond. Inbound has three messages for a limit of two, so that a
query is cut off; PayrollEngine syncs one message a pass for the same reason.
SocialReply has four messages, three of one conversation and one of another with the
same sender, two of them alike and two with an intent outside the priority list. Two
replies that differ in the order of such intents alone would take four of these;
what the cooldown then allows is shown by the proof of `CooldownHolds`, not by the run. `MaxWrites`, `MaxCommands`, `MaxRequests`, `MaxReleases`, `MaxRetries`, `MaxCalls`,
`MaxRequeues`, `MaxDrops`, `MaxDbErrors` and `env.requests`, `env.restarts`,
`env.deaths`, `env.faults` bound counters the code does not bound; `MaxRows`,
`MaxRuns`, `MaxEntries`, `MaxPrograms`, `MaxLighters` the size of tables (creating
one row more is not enabled); `MaxTime`, `MaxDay`, `LastDay` days or seconds.
`MaxEntries` and `MaxPrograms` are large enough that no world of EscortOrders fills
them. Symmetry is used in Desk (tasks) and PaymentLedger (handlers), which have no
liveness. Deadlock is not checked elsewhere: in those systems all work can be done
(or a task can have died).

*Worlds.* A world that combined everything would be out of reach; each combines
those operations of a component that touch the same rows. What is lost is only
interference between operations on different tables.

*Fairness.* Weak fairness of a task's steps: the event loop runs every task, and
an awaited call returns or raises. Weak fairness of background loops and of elapsing
time (TTL, backoff, breaker, heartbeat). Strong fairness only where the code queues:
`TakeLocalLock` (asyncio.Lock is first in, first out), `PickRow` and a non-empty
`ReadThreads` of SocialReply (both queries order by age). Nothing is assumed of
bridges that recover, admins, crashes or the order of arrivals. A liveness property
names in its premise the worlds where it holds: where a crash strands a row, that
is said in section 6.

## 5. Proofs

TLAPS proves these for every value of the constants (the set of environments
included) that satisfies the `ASSUME`s. Each is `Spec => []…`, or the refinement, from an inductive
invariant, which was also checked with TLC on the instances above.

* **InboundProofs**: `TypeCorrect`, `PolledOnceHolds`, `NoGapHolds`. `OnceInv`: what
  is done for a message is done behind its mark, by the poller of its bridge; all
  messages of one bridge have one poller, so `cur` differs between pollers.
  `NoGap` needs `Covered` (up to the newest timestamp of the batch everything is
  marked or at hand), `Distinct` (in an ordered store no two messages share a
  second, which the `LIMIT` needs) and `Bounded` (a cursor never passes the newest
  message, so that arrivals lie ahead).
* **RuntimeProofs**, the write router. `LocalSerialization` from `LocalOwner` (inside
  the critical part a task owns its process's lock) with no assumption on TTLs;
  `Serialization` and `RowIsKept` from `LockInv` (whoever holds has the row, and
  the row is fresh) where writes finish within their TTL. `RuntimeRefinesRouter`: every
  step of the composed Runtime is a step of the router or leaves it alone, whatever
  the other parts do (`FrontendSync` extends `Publish`), so that both results hold of
  Runtime (`RuntimeLosesNoUpdate`, `RuntimeSerializesProcesses`).
  The queue. `Exclusion`, `AttemptsBounded`, `FailedIsRetryable`,
  `CompletedStays`, `DeadLetterStays`, for environments where every worker dequeues.
  It is the claim on the queue row that keeps workers apart, not the lease:
  `ClaimInv` says that a message at hand is claimed by its worker, `LeaseInv` that
  only that worker writes the lease. `QueueRefinesClaimQueue`: under the same condition
  the queue implements ClaimQueue. The owner is the worker that `processor_id` names while the row is
  `processing`, alive or dead; `ClaimInv` makes every write of a worker a `LetGo`, and
  the sweep of a dead node is `GiveBack`. Where a node is swept by mistake it does not:
  that node still writes the rows it has lost.
* **OutboundProofs**: `ExclusiveClaims`, `BoundedDeliveries`, `FinalResults`,
  `OneDelivery`, `FreeProbe`, `OutboundRefinesClaimQueue`. `CountsInv`: deliveries exceed attempts by one at
  most and only while `sending`. `OnceInv`: a delivered row is sent, or its sender is
  about to write that. The refinement
  rests on the exclusive claim: the owner of a row is *the* worker that holds it, so
  a step that keeps who holds what keeps the owners, `MarkSent` and `MarkFailed` are
  the owner letting go, a crash or an aborted sweep is `Lose`.
* **PaymentLedgerProofs**: `SentRecorded`, `Balanced`, `Immutable`, `BooksAgreeHolds`.
  `CommandInv` says what a handler between two awaits may rely on: before `mark_sent`
  the row exists, before `rev_insert` the original is marked. `BooksAgree` counts, so
  its invariant does: `CountInv`, the payment rows of a draft are the instructions
  plus the commands whose row is written and whose instruction is to come;
  `ProgressInv` keeps a draft that a command is finishing from being new;
  `OnceInv`, a reversal under way is the first of its row.
* **SocialReplyProofs**: `AnsweredOnceHolds`, `RecruitingOnly`, `CooldownKeeps`. A
  message is claimed three awaits before its reply is in the queue and a row two
  awaits before its result: `TakenInv` and `ClaimInv` say that messages in hand or in
  a reply are pending for nobody and with one daemon, `PlanInv` that they are
  recruiting messages of one conversation, `HoldInv` and `DeliveryInv` the same of a
  row in hand, `AnsweredInv` what the thread state may promise. `CheckedInv`: the
  cooldown a lone daemon checked still holds when it queues, so that the joined texts
  of the replies a target gets within a cooldown differ (`TextsDiffer`); `OrderInv`: a
  text has each unlisted intent of its messages once, so that different texts
  of the same intents need two unlisted ones. A consequence: the
  branch of `enqueue_reply` for a key that exists is never taken.
* **EscortProofs**, the release. `OneDraftPerClosure`, `CompletedStaysHolds`, where
  requests do not overlap. `ProgramInv`: a program has an end date exactly when it
  is Completed, and then one draft at most; `AtHandInv`: what the handler at work
  finds at each await, in particular that attendance is complete up to the day it
  is at.
  Orders and the roster. `ConfirmedStays`, an action property that holds however
  requests overlap: the condition `status='draft'` is in the statement that deletes,
  not only in the query before it. `PayIsThatOfTheDates`: an edit writes the dates and shifts of an entry
  and then its pay; between the two statements the entry has another's pay. `PayInv`
  says which entries that can be, and that what a sync or an edit has computed and not
  written yet fits the dates and shifts it has read, or is the payment that a program of
  the old kind already had. It holds where `EditsRecompute` does (an edit
  overlaps nothing, none of its statements fails, and it gives a date or a shift, see section 6). `CountShiftsCounts`:
  the loop of `count_shifts` gives, for all dates, the difference of the two half days
  plus one, or 0 when they are reversed.
* **PayrollEngineProofs**: `OwnersMoneyStaysInSight`, `MessageIsBookedOnce`,
  `LedgerFollowsTransactions`, `PaymentsAreCounted`, `PaymentsAreListed`,
  `BooksReconcile`. `AtHand` types what each worker, reviewer and clerk
  carries from await to await. `SightInv`: a worker about to make a row final has
  booked the message, put it up for review, or lost it to a failed statement, of
  which one is still caught and put up. `OnceInv`: a row up to its booking is
  untouched, a payment of a message shows on its review row or is about to, and who
  books from the desk is the first to. `AgreeInv`: for every employee, month and column
  the ledger, with what the actors at work still owe it, is the sum of the signed
  transactions of that month and of the categories that go to that column. The reports: `PaymentsAreCounted` (the first two parts of
  `PaidIsListed`, however identity requests overlap) from `PeopleInv`, pointers lead to
  rows on record and a request holds two such rows, and `PayeesInv`, so is whoever is
  paid or about to be; a sum taken row by row is the sum of all (`SumByParts`).
  `PaymentsAreListed` adds the third part for at most nine employees, which is as far
  as `_resolve_canonical` follows (section 6). `HomeInv`: while requests come one at a time the
  pointers go down a rank, and a request holds a target that is nobody's duplicate; a
  merge puts that target below everybody. What the bounded recursion of `Resolve`
  finds is shown by unfolding it eight times (`ResolveLeadsHome`). `BooksReconcile`
  stands on `OnceInv` and adds `ReadInv`: what a worker carries, what a review row shows
  and what the worker books is the amount the parser read, and a message with an amount
  is not through before it is booked or put up. At rest the ledger and the pending rows
  of one message therefore come to what was read in it (`MessageReconciles`), and the
  three sums are taken message by message (`SumsReconcile`). The premise of `Reconciles`
  names what the sums of `reconcile.py` do not know of: failures, requeues, dismissals,
  manual payments, reversals, a second reviewer at the desk, income and cash commands, amounts that are not positive,
  and promotions with another amount than the row's (`BookedAsRead`).
* **DeskProofs**: `SentAsApprovedHolds`, `EvidenceFirst`, `PaidOnceHolds`,
  `OnlySuperadminsGrant`. The desk has some forty kinds of step in five lanes (rows,
  sessions, month end, users, back office). `Moves`, proved first, says of every
  step which lane it is in, where the task comes from and which variables it leaves
  alone; each part of the invariant is then shown kept by the steps of its own lane,
  action by action, and by all others at once. Where overlap does not matter:
  `BookInv` (a payment about to be booked has its staging row and one task),
  `EvidenceInv` (each step of a session has the pictures that lead to it, also for a
  task that is about to write it), `RolesInv` (whoever is about to grant may),
  `SentInv` and `ApproveInv` (what an approval read is what the row still is, except
  for its status). While requests do not overlap: `RunInv` (one active run per
  employee, a read transition still allowed, a payout final) and `FreshInv` (which
  rows were not delivered since their last edit, and what a restart, an unconfirmed
  delivery and a failed UPDATE leave behind). The bound on deliveries under overlap is
  `OverlapInv`: the deliveries of a row, with those that tasks have under way, are at most
  `atOnce` for each of its versions, and one version less while it waits for approval; it rests on a count
  of the busy tasks.
  `LedgerFollowsRowsHolds` (the hand-made transactions only, while no two requests work
  on one row at once, no statement fails and nothing restarts) from `OfficeInv`: who changes
  a row has read it as it is and works on it alone, and for each employee and month
  the ledger, with what is at hand, pays up the rows.

*Assumptions.* Bounds are natural numbers, and what a program cannot lack is there:
finitely many messages, `Handlers`, `Daemons`, `Tasks`, employees, reviewers and clerks (counting them needs
that), some program, a roster that is not empty, at least one day. Of the worlds the
models assume what the database and the parsers guarantee. `DeskAssumption`: texts are
commands, users have roles that exist, and of the runs a month begins with the unique
index lets one per employee be active. `TextsAssumption` (PayrollEngine): the commands
and amounts the patterns may find; `EnvironmentsAssumption`: nobody is merged at the
start. `EnvironmentsAssumption` (EscortOrders): the texts of
a world, as EscortText parses them, are orders, completions and records with known
vessels and days; the parsers filter and fold sequences, over which the prover cannot
induct. TLC evaluates all of them on the instances.

*Sums.* The library's `SumFunction` is a fold that chooses the elements of a set one by
one. That it is the same in any order, and what it becomes when one summand changes, is
proved by the smallest set for which it were not so; DeskProofs and PayrollEngineProofs
each have these lemmas for their ledger, and the latter for the sums of the reports.

*Left to TLC.* All liveness properties and `ENABLED`, which the prover does not reach,
and two invariants.
`SupersededIsGone` and `BackfilledOnce` are true of the worlds the run lists
and not of every world: a completion may move a backfilled program's date, ESCORTCONFIRM
revives a cancelled program, and only a completed draft is followed by the reconciliation
that finds the others of its lighter.

## 6. Behaviour worth knowing

The models follow the code, and the code does the following. Where a document
says otherwise it is quoted. The first two are runs.

* *PAID.* The only guard against paying a draft twice is a 30 s cache of texts
  (`TESTING_STATUS.md:196`, `CHAOS_TEST_PLAN.md:363`).
* *Release.* A release names an employee, not a duty: its repetition closes the
  next open program (`CHAOS_TEST_PLAN.md:327`).
* *Release.* Overlapping releases make two drafts; a failure after the program is
  closed leaves no draft and no way to repeat; a completion that races a release
  re-opens a completed program. ESCORTCONFIRM of a closed program fails only
  because its remarks are no longer JSON.
* *Ledger.* The accountant is told although `finalize_payment` failed; two
  interleaved reversals write two counter-rows; a reversal finds its payment by
  employee and amount and may hit another draft's.
* *Inbound.* The pollers of two bridges can both reply to a phone within one
  cooldown. Poller and webhook can both handle a message: each looks for the mark
  before either sets it (the comment at `app/main.py` P15-03 promises otherwise).
  The webhook's rollback of the mark is unreachable, because `_save_message`
  swallows its exception; for the same reason "ALWAYS persisted"
  (`bridge_poller/__init__.py:16`) does not hold when the insert fails. Messages of
  the cursor's second, and late ones, are never fetched; fifty rows without text
  stop a poller; a send that fails leaves neither reply nor draft; with the single
  engine off, the webhook also feeds the social auto reply, so both may answer.
* *Social auto reply.* A `needs_admin` written between the planner's claim and its
  UPDATE is overwritten with `ignored`; a crash leaves events in `planning` and rows
  in `sending` for good; two daemons can both pass the cooldown; the cooldown is per
  target, not "per sender" (a second Facebook comment of one person is another target),
  and compares the joined intents, so that two unlisted ones in another order pass;
  a sent row becomes
  `failed` when the sent log raises; intents count as answered before the reply is
  queued; `/retry` keeps the attempts and passes the rate limiter by.
* *Outbound.* A crash leaves rows in `sending` for good (`POST_CHAOS_VALIDATION.md:274`);
  an unexpected exception during a half-open probe keeps the breaker half open for
  ever; sweeps against an open circuit use up attempts.
* *Write router.* A task that outlives its TTL deletes its successor's lock row
  (`locks.py` calls that release safe).
* *Queue.* Direct callers that read one failed lease both take it; reclaiming can
  re-open a completed lease; `retry_after` is written and never read; a message out
  of attempts stays pending; `arbitrated_dequeue` claims twice its limit and leaves
  the rest claimed.
* *Draft replies.* Two admins who approve at once both send; a REJECT during the
  send ends as `sent`; a row whose send failed stays `approved` and cannot be approved
  again; where the bridge delivered and its answer did not come, the UPDATE to `sent`
  failed or the process stopped in between, such a row was delivered and can still be rejected;
  an EDIT of a sent draft makes it sendable again. Drafts of
  `handle_attendance_message` carry no metadata, so their APPROVE saves no attendance
  (`attendance/__init__.py:16` says it does); a reported absence is saved as Present;
  reviewed replies are stored without a role, so the lookup by role never finds them.
* *Verification.* An EDIT on a session's row blocks the employee, because sessions do
  not expire; overlapping messages make two payment drafts of one session or reopen a
  closed one. People who are not employees are asked for a picture whose answer
  nothing reads. APPROVE of a release draft made from a slip sends a text that the
  scan of outgoing messages takes for a confirmation.
* *Payroll runs and imports.* A cancel that overlaps the payment cancels a paid run,
  and the month can be paid again ("cancelled (from any non-paid state)"). A run that
  was computed is never computed again; `compute_all` stops at the first unique
  violation. The key of an imported message contains the day of the import, so the
  same SMS is booked again the next day ("unique per real payment"); two equal short
  messages of a day count as one; an import that fails after the staging row cannot
  be repeated. The reconciliation job looks for `pending` rows, unmatched ones are
  stored as `unmatched`.
* *Hand-made transactions.* An edit of the category alone leaves the ledger; overlapping
  edits of one row, or a crash between row and ledger, make them drift apart; the
  optimistic lock compares `updated_at`, which nothing writes; two simultaneous adds
  may create an employee twice.
* *Roles.* `USER REMOVE` of the last superadmin locks everyone out ("so the system is
  never locked out"); the bootstrap does not reactivate a user; the check of a role
  lets everyone pass when the database fails; a command that passed the check goes on
  after the route took the role away.
* *Bridges and healing.* The retry task ends with a `ValueError` when a drain removed
  the item before it; an outage that is left by way of `degraded` is never followed by
  a drain. Panic cannot be reached without a dead worker: four full signals sum up to
  0.8499999999999999 in floating point. A restart that raises is only logged; the next cycle tries again.
  The heartbeat logs "re-registering" and does not. A sweep
  that fails between its two statements, or a node that claims while it counts as
  offline and then dies, strands rows, and no caller passes `node_id` as
  `processor_id`. `send_with_failover`, `register_message` and `is_panic_mode` have no
  callers outside tests.
* *Dashboards.* A hello overwrites a tab's version without a refresh ("guaranteeing
  the frontend never shows stale data after a write"); the version goes back when Redis
  comes or goes; two concurrent bumps in PostgreSQL may return one number; a bump that
  fails is swallowed, and a tab that missed the event stays behind until the next
  bump that succeeds. The client
  is a sketch in a docstring.
* *Escort orders.* The reconciliation deletes roster entries by ids it read before
  ("Only touches rows with status='draft'"); a confirmation that fails is swallowed, so
  that the reconciliation then deletes the very draft that was to be confirmed and the final
  slip goes out all the same; a reconciliation that fails is swallowed too and leaves
  the superseded drafts; an edit whose second UPDATE fails leaves the new dates with the
  old pay; `total_payment` of an old program is taken over as it is, whatever its dates; a PATCH of the conveyance alone breaks
  (hence the premise `EditsRecompute`) "Total = Salary + Conveyance" (`calculations.py:9`); a completion that finds no lighter
  takes any draft of the mother vessel, perhaps another client's;
  `sync_conversation_history` doubles lighters when it runs again;
  `cleanup_draft_entries` deletes entries of confirmed programs; the history parser
  does not know the labels "Mother Vessel:" and "Lighter Vessel:".
* *Payroll engine.* `list_employees` follows one pointer, so that a chain of merges hides
  payments ("Aggregates transactions across the canonical + every member that resolves
  to it"); a lookup follows eight pointers, so that in a longer chain it ends at a
  duplicate; a second manual payment of one employee, amount, month and method is taken
  for the first, whatever its category, and still answered "created"; the ledger's closing
  balance, which the code computes from the columns from the second booking of a month
  on, is not modelled; overlapping link requests can close a circle, because the lock is taken
  outside the transaction; the reconciliation sums ignore commands and manual entries;
  the dead-letter list shows only what failed five times, while a failed message is
  never tried again; two reviewers can promote one message to two employees (one
  booking is kept); a crash between the archive's row and its state strands the message.

## 7. What is left

The remaining code either reads, or talks to external services, or has no caller
(section 1). Worth adding:

1. Theorems: what BackfilledOnce needs of the worlds it starts from.
2. Refinements: the reply queue of SocialReply, whose `/retry` takes up what was
   finished, as a further implementation of ClaimQueue.
3. Composition: EscortOrders with EscortRelease over the program table, and with
   PaymentLedger over the drafts a release makes.
