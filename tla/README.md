# A formal model of Dixora

Dixora is a multi-tenant restaurant platform: a FastAPI backend over PostgreSQL
(`src/apps/api`), a Next.js front end (`src/apps/web`) and a **Print Bridge**
agent (`src/apps/print-bridge`) that runs on a computer in each branch and prints
kitchen tickets and bills. This directory holds TLA+ modules for its core
protocols, configurations that model-check them with TLC, and proofs checked by
TLAPS. Paths below are relative to `src/apps/`, and `api/…`, `services/…`,
`models/…` to `src/apps/api/app/`.

## 1. Inventory

Every request handler runs in its own database session and transaction
(READ COMMITTED, `autoflush=False`, `db.py`). Handlers of one branch interleave
freely; what orders them are `SELECT … FOR UPDATE` row locks, advisory locks
(`lock_command`, `idempotency.py`) and unique constraints. A unit test runs one
handler after the other, so the interleavings below are what tests hardly reach.

| Component | State | Operations | Interacts with | Hard behaviour | Correct means |
|---|---|---|---|---|---|
| Print queue (`api/printing.py`, `models/printing.py`) | jobs with status, owner, attempt, lease; acknowledgements; bridges, devices, mappings | queue, claim (reroute, sweep, claim), report, manual retry, map, unmap, revoke | agents over HTTP, orders queue jobs | leases lapse while printing; late, replayed and stale reports; rows skipped by locks; revocation during calls | no ticket without a permission; status tells the truth; nothing stuck in flight |
| Print Bridge (`print-bridge/src`) | journal in memory and on disk, claim loop | recover, poll, dispatch, spool, report | queue, printer | crash between paper and report; failed journal writes; time-outs of calls still served | at most one ticket between confirmed outcomes; no ticket forgotten |
| Order lifecycle (`services/orders.py`) | orders, items, payments, approvals, versions | create, submit, append, accept, mutate, pay, discount, cancel, split | tables, kitchen, inventory, shifts, printing | concurrent payments; approvals that became stale; idempotent retries | never overpaid; totals match items and discounts; no item cancelled twice |
| Tables (`api/tables.py`, `services/orders.py`) | table state, sessions | open, transfer, merge, release | orders | two orders locked in opposite order | one open session per table; no check lost |
| Kitchen (`api/kitchen.py`) | tickets, item states | advance a ticket | orders | order status derived from other tickets | ready exactly when every ticket is |
| Shifts (`api/shifts.py`) | shifts, counts, closings | open, hand over, close, close day | payments | a payment while the drawer is counted | each payment in exactly one count |
| Inventory (`api/inventory.py`) | stock, movements | deduct, correct, receive | order acceptance | row locks taken one by one | stock is the sum of its movements |
| QR ordering (`api/qr.py`) | guest sessions, pending requests | request, approve, reject, expire | orders | expiry against approval | a request becomes at most one order |
| Loyalty (`services/loyalty.py`) | points ledger, codes | earn, redeem, verify | payments | concurrent redemption | never negative, nothing earned twice |
| Billing (`services/payments`, `services/billing.py`) | invoices, attempts | charge, retry, record | card provider | crash or error around the charge | an invoice is paid at most once and stays collectable |
| Sessions (`security.py`, `api/auth.py`, `web/src/lib/server`, `web/src/app/api`) | sessions, token pairs; the browser's cookies, refreshes under way | login, refresh, switch branch, logout, revoke | every request | several tabs refresh at once, late answers set cookies, reuse detection | nobody inherits a session; a refresh never looks like theft; work is done in the session's branch |
| Ordering screens (`order-builder.tsx`, `cashier-workspace.tsx`, `public-menu.tsx`, `new-delivery-order-dialog.tsx`) | drafts, idempotency keys, commands of unknown outcome | submit, repeat, edit, reload | orders, payments, QR requests, deliveries | a command repeated over a changed check or a reload | what is announced is booked, once |
| Screens (all pages of `web/src`) | the query cache, commands under way | fetch, poll, invalidate, command | every handler, events | answers overtaken by commands, refreshes and fills | what a command reported is on the page; open pages notice others' changes |
| Rate limits (`services/rate_limit.py`) | Redis windows | hit | login, phone codes | crash between two commands | a window ends |
| Realtime (`realtime.py`, `api/websocket.py`, `web/src/hooks/use-websocket.ts`, `realtime-sync.tsx`) | local hubs, subscriptions, sockets, the page's connection | publish, deliver, connect, check, reconnect, fetch | all handlers, Redis | sockets that come and go while events are sent; revocation while connected | open screens catch up; a revoked session is cut off |
| Others | catalog, campaigns, media, organisation, reports, e-mail | CRUD, imports, exports, rendering | | single transactions or pure I/O | |

`PROJECT.json` lists every component with its status, and every hazard with the
source line where it bites and the properties that would catch it.

## 2. Plan

The order of the work, and what became of it:

1. **Print pipeline** (done): `PrintProtocol`, `PrintServer`, `PrintBridge`, composed
   in `PrintPipeline`, refining `PrintPromise`; proofs in `PrintServerProofs`
   and, of the whole, in `PipelineProofs`. It comes first because it is the one place where the platform
   promises something across processes, crashes and a network, and where a mistake is
   paid for in wrong food or a missed order.
2. **Floor** (done for one branch): `FloorData` with the shared rows, `Orders`, `Moves`,
   `Kitchen` and `FloorTables` with their handlers, composed in `Floor`; proofs of all
   its properties in `FloorProofs`, on the lemmas about sums in `SumProofs`.
3. **Repeated commands** (done): `CommandApi` with what the API keeps under idempotency
   keys, `OrderingClients` with the four screens that repeat what they heard nothing of,
   composed in `Commands`; proofs in `CommandProofs`. QR requests against expiry and
   rejection are part of it.
4. **Browser sessions** (done): `SessionApi`, `WebSessions`, composed in `Sessions`;
   proofs in `SessionProofs`.
5. **Realtime events** (done): `Realtime`; proofs in `RealtimeProofs`.
6. **Screens** (done): `Screens`, one query of any page beside all its commands, over the
   tables `OfficeScreens`, `StaffScreens` and `PlatformScreens`; proof in `ScreenProofs`.
7. Left: the ledgers behind the screens - counting of shifts, stock, loyalty points,
   billing attempts - and rate limits, enrolment codes, the e-mail outbox.

Small bounds are used everywhere: two or three actors, one or two records, and
enough faults for the hazard in question to meet itself once.

### What is proved and what is model-checked

Every invariant and every action property that a run checks is also a theorem of the
specification it is checked of, for every value of the constants that satisfies the named
assumptions; `PROJECT.json` lists them under `theorems`, and each section below ends in how
they are proved. TLC says that the properties are not vacuous (each is violated by a mutant
of the code) and finds what the proofs cannot reach:

- **liveness** (`QueueMoves`, `InFlightEnds`, `ReportsGetThrough`, `WorkIsDone`,
  `ScreensCatchUp`, `EndedSessionsAreCutOff`, `ChangesReachScreens`), which needs `ENABLED`
  and fairness;
- the two **violated** statements (`OneKeyOneCommand`, `LogoutEndsSession`), which are false;
- that the application's own tables of queries and commands are what the theorem about
  screens assumes (`Thorough`).

Sums of lines, payments and portions are sums over finite sets in an order that `CHOOSE`
leaves open (`SumFunctionOnSet`). The library's induction theorems take an operator as a
parameter and cannot be used here. `SumProofs` goes around them: `SubsetInduction` is an
induction over the subsets of a finite set in which the good subsets are given as a *set*,
which the provers can instantiate; it follows from the well-foundedness of strict inclusion.
From it come that a sum does not depend on the order (`SumExtend`, `SumWithout`), and how it
behaves under agreement, union, renaming and exchange of terms (`SumAgrees`, `SumUnion`,
`SumRenamed`, `SumExchanged`).

## 3. The print pipeline

### What happens in the code

An order accepted by staff queues one job per preparation station
(`_send_items_to_preparation`); bills, courier slips and test pages name a device.
A device is mapped to at most one bridge. The agent calls `POST /bridge/claim`,
which in three transactions reroutes unattempted station jobs that have no device,
turns jobs whose lease lapsed into `FAILED` with `manual_retry_required`, and
claims the oldest open job mapped to the caller under a new attempt number and a
lease of 90 seconds. The agent writes `DISPATCHING` to its journal, prints, reports
`SENT`, journals `PRINTED`, reports `PRINTED` and marks the entry as acknowledged. A
failure is always reported as needing a manual retry. Unconfirmed entries are reported
again in each round of the loop and after a restart. Only a manager's retry returns a
failed job to the queue.

### Modules

| Module | Models | State | Actions |
|---|---|---|---|
| `PrintProtocol` | what is said between the two sides | – | – |
| `PrintServer` | `api/printing.py` | `jobs`, `acks`, `mapping`, `enabled`, `station`, `active`, `revoking`, `doomed`, `serving` | `EnqueueStationJob`, `EnqueueDeviceJob`, `Repair`, `ClaimNothing`, `Claim`, `LapseLease`, `UpdateJob`, `ManualRetry`, `MapPrinter`, `UnmapPrinter`, `BeginRevoke`, `FinishRevoke`, `UpdateDevice` |
| `PrintBridge` | `bridge.ts`, `journal.ts`, `api-client.ts` | `pc`, `todo`, `cur`, `reply`, `mem`, `disk`, `paper` | `Recover`, `Poll`, `Idle`, `RejectMalformed`, `Reclaim`, `Dispatch`, `Spool`, `RecordPrinted`, `Confirm`, `KeepForLater`, `Crash`, `Restart` |
| `PrintPipeline` | both, joined by the network | all of it, `lateClaims`, `lateReports` | calls served in time or after their caller gave up, `Timeout`, `AgentDies` |
| `PrintPromise` | what docs/printing.md promises a restaurant | `permitted`, `tickets`, `closed` | `Permit`, `PutOnPaper`, `Close` |
| `PrintServerProofs` | TLAPS proofs about `PrintServer` | | |
| `PipelineProofs` | TLAPS proofs about `PrintPipeline` | | |
| `MC…` | sets and symmetry for TLC | | |

How the code's state appears: a `PrintJob` row is a record of `jobs` with `status`,
`manual` (`manual_retry_required`), `owner` (`claimed_by_bridge_id`), `attempt`
(`attempt_count`), `lease` (`lease_expires_at` as none, live or lapsed), `station`
(whether it has a preparation station) and `device`. An acknowledgement is
`<<bridge, job, attempt, status>>`, which is what the agents' idempotency keys are
made of (an unreadable claim's key ends in `validation-failed`, but such a job has no
other failure report). A journal entry is its attempt, its state and `acked`.

### Abstractions

- **Time.** A live lease may lapse at any moment, so the 90 seconds do not matter.
- **Atomicity.** A handler is one action at the moment it holds its row lock:
  nobody else reads or writes the job between lock and commit, so the
  action may stand at the lock. Authentication comes earlier and takes no lock;
  `serving` counts calls that passed it before their bridge was revoked. `Repair`
  is the two commits that precede a claim; `Claim` and `ClaimNothing` include
  them as well, so a claim's commits may be separated or not. Rows locked by others
  are the set `skipped`. Revocation is two actions because the deletion of the
  mappings and `is_active = False` reach the database at different moments.
- **Network.** A call is lost, answered, or given up on (`requestTimeoutMs`) and then
  served later or never. Several late claims of one agent count as one that is
  still on its way; another claim may follow it.
- **Paper.** A transport that reports success has printed; one that fails may have
  printed or not.
- **Left out:** heartbeats and other telemetry, the development-only legacy key
  and mock bridge, enrolment, payload contents (a stored document never changes, so
  the journal's hash always matches), the journal's limit of 2000 entries. A
  graceful stop is a crash without consequences. `Restart` includes the removal
  of a stale runtime lock by hand. An agent is mapped all devices it serves
  (`PRINT_BRIDGE_PRINTER_IDS` is not narrowed further).
- **What bridges report.** `Updates` ties `manual_retry_required` to a failure, as the
  agent of this repository does: every failure it reports asks for a manual retry. The
  endpoint would take a failure that does not (`api/printing.py:1911-1913`) and hand such a
  job out again without an operator, up to five attempts (`:1720-1724`); a bridge that made use
  of it is outside the model and outside what `ClaimsAuthorised` and `FailureIsQuarantined` say.
- **Bounds.** `MaxAttempts`, `MaxRetries`, `MaxAdmin` (routing changes),
  `MaxServing` (calls in service at a revocation), `MaxFaults` (crashes, failed
  writes, time-outs), `MaxTickets`. No property mentions a bound, and the
  theorems hold for all of them.

### Runs

| Run | Instance | Question |
|---|---|---|
| `print_server` | 2 jobs, 2 bridges, 1 device, 3 attempts, 1 retry each, 1 routing change | Bridges may send any report of `Updates` at any time, true or not: are claims authorised, does the status tell the truth, and does a revoked bridge get anything done but calls authenticated before? |
| `print_pipeline` | 1 job, 2 bridges, 2 faults, 1 retry, 1 routing change | Does each ticket use up its own permission, and is the pipeline an implementation of `PrintPromise`? |
| `print_liveness` | 2 jobs, one unreadable, 1 bridge, 3 attempts, 1 fault, 1 routing change | Does a deliverable job ever wait for ever, do jobs in flight get resolved and journalled outcomes confirmed? (With one bridge: what a remap does to a claim is the question of the two runs above.) |

The bounds are enough for each hazard to meet itself: two bridges are needed for a
remap, a skipped row and a sweep by someone else's claim; three attempts and one
retry let a job be claimed once more than permitted; two faults allow a time-out
followed by a crash or a failed write. Symmetry is used only in safety runs, over
bridges and devices no property distinguishes.

### Fairness

`FairSpec` assumes that a running agent takes its next step and a dead one is started
again (the desktop shell and its service restart it), that a report which is not lost
is served, that a claim repeatedly sent is eventually served with no row locked by
others (strong fairness: row locks last for one short transaction), and that a live
lease lapses. Nothing is assumed of operators, managers or the orders that queue
jobs. Faults are bounded, so they end.

### Seen while modelling

`revoke_bridge` runs its `DELETE` of the mappings before the `UPDATE` of `is_active` is
flushed, so a mapping made in between survives the revocation and its jobs wait for an
agent that is refused (`BeginRevoke`, `MapPrinter`, `FinishRevoke`). Revoking the bridge
once more, or mapping the printer again, repairs it.

The comment on `PrintJob.lease_expires_at`
(`models/printing.py:283`) says that a job with a lapsed lease becomes reclaimable
without an operator, but the sweep quarantines it for a manager's retry; the code, and
docs/printing.md, are what keeps tickets from being printed twice.

Without a document that says otherwise: a job that has
neither station nor printer (`_resolve_print_defaults`) waits for ever; a journal entry
whose job has moved on is refused and retried in every round; a claim that is given up
on leaves a job that was never printed to an operator once its lease lapses.

### Proofs

`PrintServerProofs` proves, for every set of jobs, bridges and devices and every value of
the bounds, that the queue on its own - against bridges that may send any report of `Updates` at any
time - satisfies its type invariant, `ClaimsAuthorised`, `FailureIsQuarantined`,
`InFlightIsLeased`, `PrintedIsAcknowledged`, `AcksFollowClaims`, and the action properties
`PrintedIsFinal`, `OnlyClaimEndsWaiting` and `RevokedIsCutOff`.

The inductive invariant `ServerInv` is their conjunction with `AbsentIsUntouched`. None of
the parts is inductive alone: a claim of a `FAILED` job would break `ClaimsAuthorised`
unless `FailureIsQuarantined` makes it unclaimable, and a new attempt would meet an old
acknowledgement unless `AcksFollowClaims` keeps acknowledgements behind claims. The proof
has one lemma per group of actions, on top of lemmas about what the sweep, a claim, a
report and a retry do to one row. Assumptions: `JobsAssumption`, `AttemptAssumption`,
`NullAssumption`, `BoundsAssumption` (jobs are numbers, bounds are natural, the null
values are no bridge and no device).

`PipelineProofs` follows a grant from the queue through the agent's journal to the paper
and back, for every value of the constants: any number of jobs, agents and devices, any
malformed jobs, any number of crashes, failed writes, time-outs, lost and late calls. It
proves, of `Spec` of `PrintPipeline`, that the types hold (`TypeOK`), that each ticket used
up a claim of its own and no job has more claims than permissions (`NoUnauthorisedTicket`),
that an entry is settled only when its report is stored (`AckedMeansStored`), that no ticket
is forgotten (`TicketIsOnRecord`), and that the pipeline implements `PrintPromise`
(`KeepsPromise`).

The inductive invariant `PipeInv` is `ServerInv` together with what ties the two sides:

- `JournalOK`: no journal, in memory or on disk, is ahead of the queue's claims; an entry says
  `PRINTED` only if there is paper, and is acknowledged only if that attempt or a later one is;
  a living agent's memory is never behind its disk;
- `GrantOK`: the grant an agent deals with is not ahead of the queue and not behind its own
  journal; while it may still be printed (`Fresh`) nothing is printed of it, and at the
  spooler the disk already holds its unconfirmed entry;
- `GrantsDiffer`: no two agents may print the same attempt;
- `PaperFollowsClaims`, `TicketIsOnRecord`, and `LateReportsOK`: reports still on their way
  tell the truth.

`NoUnauthorisedTicket` is not inductive because nothing in it keeps a second print of one
attempt away: that takes `Fresh` and `GrantsDiffer`, which hold because a claim's attempt
number is new, and `ClaimsAuthorised` of the queue. `TicketIsOnRecord` survives the write of
an acknowledged entry because of `JournalOK`, and the write of a newer one because the journal
never goes back. Before the proof, TLC found no violation of `PipeInv` on the
instance of `print_pipeline` and on one with two jobs, one of them unreadable. The effect lemmas (`QueueingEffect` …
`UpdateEffect`) say of each handler of the queue whether it adds a permission or closes a job;
each agent step has a lemma on top of `QuietStep` (disks and paper at rest) or `WriteStep`
(the journal is written); `PromiseStep` maps every step to a step of the promise or a stutter.

Model-checked only: all liveness properties, which are beyond the prover.

## 4. The floor

### What happens in the code

Waiters, cashiers, managers and guests' QR pages call the commands of
`services/orders.py`. A command that changes an order locks its row
(`load_order(lock=True)`), reads lines, payments and session after that, and commits
once. Lines are sent to stations in batches: one `KitchenTicket` per station and batch
(`_send_items_to_preparation`). Kitchen screens move a ticket through `TRANSITIONS`
(`api/kitchen.py`), which also rewrites its lines, the order and the table. A table has a
session from the first order to `close_table_session`; several checks may share one.
Discounts and cancellations are asked for and approved later by someone else, against
whatever the order has become by then.

### Modules

| Module | Models | Actions |
|---|---|---|
| `FloorData` | the rows (`orders`, `items`, `tickets`, `payments`, `approvals`, `sessions`, `tables`), what handlers read from them and compute for them: totals, new lines, tickets, the end of a check | – |
| `Orders` | `services/orders.py`, `api/orders.py` | `CreateAtTable`, `CreateTakeaway`, `Append`, `AcceptOrder`, `RequestBill`, `LookAround`, `GiveUp`, `AddPayment`, `RefundPayment`, `Increase`, `Decrease`, `SetComplimentary`, `RemoveComplimentary`, `RemoveUnprinted`, `RequestDiscount`, `RequestCancellation`, `Reject`, `ApproveDiscount`, `ApproveVoid`, `ApproveItemCancellation` |
| `Moves` | transfers, merges and splits in `services/orders.py` | `TransferTable`, `MergeTable`, `SplitCheck`, `TransferItems` |
| `Kitchen` | `update_ticket_status` | `BeginTicket`, `CommitTicket` |
| `FloorTables` | `close_table_session` | `BeginClose`, `CommitClose`, `RepeatClose` |
| `Floor` | all of them on the same rows | one group of actions per kind of user; the properties |
| `FloorProofs` | TLAPS proofs of all properties of `Floor` | – |
| `SumProofs` | lemmas on sums over finite sets | – |
| `MCFloor` | menus and discounts for TLC | |

A row of the database is a record; its id is a number in the order of creation and 0 is
NULL, so "the latest open check" is the largest number. A row that does not exist has
status `none`. A ticket is named by order, station and batch, which the schema makes
unique; its `lines` are the `KitchenTicketItem` rows. `kitchenTx`, `closeTx` and `endTx` hold
what a ticket update, a closing or a command that may end a check has read and will write.

### Abstractions

- **Atomicity.** A command of `Orders` or `Moves` is one action at the moment it has its
  locks. Three kinds of handlers are split in two because what they decide from is not locked:
  `update_ticket_status` locks its ticket only and writes the order, the lines and the
  table at its commit; `close_table_session` locks table and session and reads the checks
  without a lock; and whatever may end a check - its last payment, the removal of its last
  line, an approved cancellation or void (`add_payment`, `_release_table_if_no_open_checks`) -
  locks that check and reads the session, its table and its other checks without a lock.
  `LookAround` is this reading, kept in `endTx`; the command itself commits with `Ending`, from
  what was read, or is refused after all (`GiveUp`). Between the two the check is locked
  (`Unheld`) and everything else goes on, another check of the session ending included;
  `atOnce` remembers the sessions in which that happened. With `autoflush=False` a handler's writes reach the database at its end,
  and a column that is set to the value it was read with is not written ("keep").
  A table that is being closed is locked, so a step that would write it waits
  (`Unlocked`). Two commands that wait for each other are ended by the database, which
  refuses one of them; a refused command changes nothing and is no step.
- **Calls with several lines** (creating, appending, transferring) are as many calls with
  one line each; acceptance sends all pending lines together, as in the code.
- **Money** is counted in cents and `Percent` rounds a half up as `money` does; a price of 2
  keeps half of it visible (`floor_moves`, without discounts, uses 1). Tax and service
  charge are zero for every order the code creates
  (`apply_branch_service_charge_snapshot`).
- **Left out:** stock, loyalty and print jobs written by the same commands; versions (a
  client may always have read the current one); idempotency keys (a repeated command
  returns the stored answer); a manager's direct change or deletion of a table, which may
  put it into any state.
- **Bounds.** `MaxOrders`, `MaxItems`, `MaxBatches`, `MaxPayments`, `MaxApprovals`,
  `MaxSessions` (rows of each kind), `MaxQuantity`, `MaxEdits`, `MaxMoves`, `MaxRetries`,
  `MaxLooks` (commands between `LookAround` and their commit). `MaxEdits` does not count
  gifts that are taken back, since each was given by an edit.
  They stand in guards only; the theorems hold for all their values. `retries` is also
  what the properties of tables call a late command.

### Runs

| Run | Instance | Question |
|---|---|---|
| `floor_checks` | 1 table, 1 check, 2 lines of up to 2 portions, 1 payment, 2 requests, a discount of one half, 1 edit | Do totals follow the lines whatever is changed, gifted, removed and cancelled in between, and can a check that was paid for grow? |
| `floor_service` | 1 table, 1 station, 2 checks of one session or of two, 2 batches, 2 payments, 2 commands in flight that end checks | Does every accepted line reach its station, and only once, does a table with guests ever show as free, and can one with nothing open on it look busy? |
| `floor_moves` | 2 tables, 2 checks, 3 lines of up to 2 portions, 1 edit (also a gift), 2 moves, a closing or merge that comes late | Do transfers, merges and splits conserve portions and money and leave a table one session? |

The bounds let each hazard meet itself: two lines make a check that loses one and keeps
one; two requests are the least that can contradict each other; two payments, a refund and
removals open one check again beside another and end both at once; two
batches follow each other on one station; two moves bring a line back to where it came
from. `floor_moves` treats tables as interchangeable, which no property tells apart. Deadlock is not checked: a branch whose bounds are used up, with all tables closed,
has nothing left to do. Some properties name what they exclude:
`TotalsFollowLines` and `NoPhantomTable` hold while nothing was moved and no station has
reported (`Undisturbed`: a station that cancels a ticket leaves
the subtotal as it was, and one that reports late shows a table as busy), the latter for
sessions of which no two checks were ended at once (`atOnce`, see below), and
`AcceptedLinesReachKitchen` while nothing was moved (copies of merged lines are accepted and on no
ticket; their originals are). That a total is what its subtotal and discounts give has no
such condition. `MovesConserveLines` speaks of moves of lines that cost their portions or are
gifts, which a merge may break (see below). `OneOpenSession` and `FreeTableIsFree` speak of histories
without late commands: `retries` counts the closings of a closed session (`RepeatClose`)
and the merges of a check whose session is closed (`LateMerge`), both of which the code
accepts; `floor_moves` allows one, so that `MovesConserveLines` is checked with it.
Its two sessions are too few for a late merge to do harm. TLC also found no violation with
three checks, sessions and moves and four lines; since both
properties are proved for all bounds, the run stays small.

No fairness is assumed and no liveness stated: guests, waiters and stations act when they
like, and no handler of the floor retries or schedules anything.

### Seen while modelling

The properties above say where they hold; where they do not, the code does this:

- two checks of one session that are ended at once, by payments or by cancellations, each
  see the other one still open, so neither command sets CLEANING and the table keeps its
  former state, although `_release_table_if_no_open_checks` exists for that: without it
  (`services/orders.py:2743-2745`) "the floor shows a busy table that no longer exists". It takes
  no move: pay a check, open a second one in the session, refund the first and pay it in part,
  then settle both from two tills (`record_payment` locks the operator's shift, so one till
  does them one after the other). TLC finds such a history in `floor_service`, with removals for the
  last two payments, if the exception is left out. `NoPhantomTable` excepts such sessions (`atOnce`); closing
  the table repairs it;
- two approved cancellations of one line take its price off twice: `approve_cancellation`
  does not look at the line's status, although docs/order-lifecycle.md:92-93 says that "The
  resolver cannot approve a stale request whose order version or target item no longer
  matches", and :129 asks that "Totals equal the sum of current snapshots, discounts, tax, and
  reversals" (`TotalsFollowLines` excepts it by `CancelledAgain`);
- the comment in `update_ticket_status` promises not to undo a checkout, but the order's
  status is read without a lock, so a ticket that is committed late takes an order whose
  bill was requested back to the kitchen's states;
- a repeated closing frees a table that waits for cleaning under a newer, open session;
- `merge_table_order` does not look at the state of its source, although
  docs/order-lifecycle.md:107-109 says that table operations validate it: a check that was
  merged already, merged once more under a new key (from a till whose screen is behind),
  frees its old table again. If new guests sit there by then, their table shows as
  AVAILABLE, a transfer may bring a second open session to it, and from then on creating
  an order there fails in `scalar_one_or_none` and closing in
  "The table has conflicting open sessions" (`api/tables.py:478`). TLC finds it
  in six steps if `OneOpenSession` is stated without `retries = 0` and the bounds are
  three sessions, checks and moves and four lines;
- `remove_unprinted_order_item`, unlike every other change of a line, does not look at
  payments, and neither does an approved discount, so a check may have received more than
  its total (docs/order-lifecycle.md:130);
- `update_ticket_status` sets every line of its ticket, so one cancelled in between enters
  preparation again (docs/order-lifecycle.md:131), and it counts a cancelled ticket as one
  that is not ready, so an order may stay PARTIALLY_READY with nothing left to prepare;
- closing a table settles a free check it has read without a lock, while the gift that
  made it free is taken back;
- `merge_table_order` closes the session of its source although another check of that
  session is open, the destination itself when a split check is merged back; and a check
  that was paid, refunded and paid in part after its table was closed is open again on a
  closed session (`add_payment` does not look at the session).

Without a document that says otherwise: the copies that `merge_table_order` makes lose
`is_complimentary` and keep the line total of zero, so the gift is charged again when the
copy is moved on in part (`transfer_order_items` prices the portions anew,
`services/orders.py:2461`) or its quantity is changed; a check that a closing has read as
free, to which a line is added and which is then voided on an old request, is made PAID by that
closing's commit, and a partial payment opens it again with a total and no live line
(`Revoked` in `TotalsFollowLines`; the proof found it, since no small instance had the rows
for it; lines 92-93 and 129 of docs/order-lifecycle.md, quoted above, forbid this too); moves lock
in the order of the request and not, as docs/order-lifecycle.md:107-108 has it, of the ids; the
database resolves what comes of it.

### Proofs

`FloorProofs` proves every property of `Floor`, for every set of tables, stations, products
and discounts, any prices and every value of the bounds. Assumptions: `RowBounds`,
`MenuAssumption`, `DiscountAssumption`, `StationAssumption` and `TableAssumption` (0, the NULL
of a check without a table, is no table). Its sections follow each other because the later
invariants rest on the earlier ones; each has one lemma per group of actions.

- **Tables** (`TablesHaveOneSession`, `FreeTablesAreFree`). `OneOpenSession` and
  `FreeTableIsFree` need each other: a transfer trusts that an AVAILABLE table has no
  session, and a transfer, merge or closing frees a table because the session it ends or
  takes along was the only one. `TablesInv` adds `ClosingIsAlone` (while a closing is in flight
  its session stays the only one of its table, since everything that opens, moves or ends
  a session waits for the table's lock) and `KitchenFreesNothing` (a station's late commit never
  writes AVAILABLE). `QuietStep` covers every action that leaves sessions alone and frees no
  table; opening a session, moving it, merging and closing have lemmas of their own.
- **Routing** (`LinesAreRoutedOnce`). A line that `accept_order` or `append_order_items` sends
  must not be on a ticket already. `RoutingInv` adds that a pending or unused row is on no
  ticket (`PendingIsUnrouted`) and that no update in flight makes a line pending again
  (`UpdatesAdvance`, which keeps a station's late commit from re-opening a line for
  routing). Two lemmas carry the argument: rows that change without tickets (`LinesChange`,
  `LinesEdited`) and lines that are sent (`LinesAreSent`).
- **Types** (`FloorTypeCorrect`). That no subtotal, total or line falls below zero is not a
  matter of shape: handlers subtract. `FloorTyped` adds that a line costs at most its portions
  (a decrease takes off no more than the line holds), that totals are what
  subtotal and discounts give, and that whatever a line, payment, request, update or closing
  refers to exists. The lemmas named `…Does` and `…Edits` say of each handler what it makes of its rows, once for
  this and all later sections.
- **Paid checks** (`PaidChecksNeverGrow`), from `FloorTyped`: every step leaves each check with money received at
  its total or below.
- **The kitchen** (`LinesReachTheKitchen`). `KitchenInv` adds to the property that batches of a
  station follow one another without a gap (`BatchesInARow`, so the number given to a new
  ticket is free), that an unused ticket holds no lines, and that an update in flight
  touches lines of its own ticket only (`UpdatesStayHome`): otherwise a late commit could make a
  line look accepted that was never sent.
- **The bill** (`TotalsAreTheLines`). `BillInv` says what the subtotal may differ by: every line is at
  its price or a gift (`Priced`: an edit takes off what the line holds and adds what it
  should cost), and a line that is dead cost nothing, or was cancelled by an approved request, or its
  check was voided (`Accounted`), so a second cancellation of a dead line has its first one
  as witness for `CancelledAgain`. `RowBill` and `LineAdds` apply the lemmas on sums to one changed row.
- **Guests** (`GuestsAreNoPhantoms`). `GuestsInv` adds that a closed session has no open check
  left (`ClosedAreLeft`), that all checks of a session being closed have ended but for the free
  ones it will settle (`ClosingIsSettled`), and that unused session rows have no checks
  (`Unopened`). The last check of a session is what matters: `LooksHold` says that what a
  command in flight has read of the last open check stays true - it is the last one, and of
  this table - unless another check of the session was ended since, and `LastCheckGoes` shows
  that whoever ends it then sets CLEANING. `EndingsTyped` are the types of what was read.
- **Moves** (`MovesConserve`) is an action property on `FloorTyped`. A merge
  renames lines, which `RowsForLines` matches with their copies one to one; a partial transfer divides a line,
  and `SumExchanged` says that a row exchanged for two of the same sum changes nothing.

Two statements had to change when their proofs failed: `TotalsFollowLines` excepts `Revoked`, and
`MovesConserveLines` excepts merged gifts (both above). What runs had assumed by the choice of
their instance - no stations, no moves, no late commands - the statements now say themselves
(`Undisturbed`, `moves = 0`, `retries = 0`). Nothing of the floor is model-checked only.

## 5. Repeated commands

### What happens in the code

Every command that creates something carries an idempotency key drawn on the screen
(`crypto.randomUUID`). The API executes it under the advisory lock of the key
(`lock_command`) and stores the key with what it made: on the order, in
`order_operations`, on the payment, on the guest's request. A command that comes again
under its key is answered with what is stored, or refused with 409 when its body differs.
Each screen has its own way of keeping the key of a command it heard nothing of: the
waiter's order builder a `submissionKey` beside the pending lines, the till a
`PendingCommands` object by table and product or by order and amount, the guest's menu an
`idempotencyKeyRef` beside the cart, the delivery desk a `pendingIntent` with the body.

### Modules

| Module | Models | Actions |
|---|---|---|
| `CommandApi` | what `services/orders.py`, `services/delivery.py`, `api/qr.py` and `api/tables.py` keep under keys | `ServeCreate`, `ServeAppend`, `ServePayment`, `ServeDelivery`, `ServeRequest`, `Age`, `ApproveRequest`, `BeginReject`, `CommitReject`, `CloseTable` |
| `OrderingClients` | the four screens and the network between | `WaiterTaps`, `WaiterCounts`, `WaiterSends`, `WaiterSent`, `TillAddsProduct`, `TillCollects`, `TillSucceeds`, `GuestEdits`, `GuestSends`, `GuestSent`, `DeskEdits`, `DeskSends`, `DeskSent`, `DeskCloses`, `Refresh`, `Failed`, `Reload` |
| `Commands` | what both promise together | – |
| `MCCommands` | one product, and the bound `TillAndWaiter` | – |

A **wish** is one unit of one product as a person asked for it; wishes are what the
properties count, while bodies are compared as the API does, by product and quantity.
`rows` are the executed commands (`orders`, `order_operations`, `payments`); `wire` holds
requests that the API may still serve, `open` when their screen still waits. `calling` is
a screen's call, `retained` what it keeps of calls without an outcome.

### Abstractions

- One table, prices of 1, no stations and no discounts: the floor's modules have those.
  A check is open, paid or closed.
- A handler is one step: it runs in one transaction under its advisory lock. Only the
  rejection of a guest's request is two, because it reads the row without a lock.
- The waiter's and the till's lists are read again at any moment (`Refresh`). The guest
  mode modelled is `WAITER_APPROVAL`; the age of a request is one bit.
- A command that fails is one the API refused or one nothing was heard of; the request of
  the second kind stays on the wire and may be served later or never.
- Left out: bill requests, table tokens, notes, modifiers, the choice of tables.
- **Bounds.** `MaxWishes`, `MaxKeys`, `MaxChecks`, `MaxTroubles` (failed calls and
  reloads), `PendingLimit` (3 in the code). `TillAndWaiter` cuts the search where a third
  key would be drawn while the guest or the desk is active: a till that meets a waiter
  needs three keys, the others two.

### Runs

| Run | Instance | Question |
|---|---|---|
| `commands` | 2 wishes of one product, 2 checks, 3 keys, 2 troubles, 1 live guest request | Is what a screen announces on record, does the till book what it says and no more, is nothing made twice, does a guest's request become one order, is no check overpaid? |
| `repeated_command` | as above, 2 keys | *Violated:* one key executes one command. |

`NothingTwice` counts reloads, and for the waiter's lines calls that failed, because
there the code does repeat (see below). Deadlock is not checked: a table may stay
as it is. No fairness is assumed; the screens repeat only when a person taps.

### Proofs

`CommandProofs` proves all properties of `Commands` but the violated one, for any number of
wishes, keys, checks, requests, failed calls and reloads. Assumptions: the five devices are
different (`DeviceAssumption`), bounds are natural and amounts positive (`BoundAssumption`,
`TroubleAssumption`), and wishes are of products (`ProductAssumption`).

- `Typed` adds to the types where each command may be: on the wire, retained or called under a
  key that was drawn, sent by a screen to a route it uses, for a check that exists; and a row is
  booked under such a key or under its guest request's.
- `Once`: an approval books once because the request is no longer pending, and the row it
  books stays, whatever a late rejection writes over its status (`OneOrderPerRequest`).
- `NeverOverpaid` is inductive with `Typed`, because the amount is compared with what is left under the check's lock.
- `Answered`: a call's answer stands for a row on file (`Filed`); a key belongs to one screen
  and is unannounced while any screen still holds it. Hence `AnnouncedIsOnRecord`.
- `Kept`: till, payment dialog and desk use a key for one kind of command, each row of theirs has its own key, and
  until a reload each key on the wire or on record was announced or is still retained. Hence
  `TillKeepsItsBooks`.
- `Wished`: a wish is one device's (`Owned`), a guest asked for it under no more keys than pages
  were loaded (`Spare`), till and desk hold it under one key (`Alone`), a desk's draft that was
  booked is still retained (`Repeated`), and while nothing failed the waiter's wire and books do not
  overlap (`Smooth`). Hence `NothingAskedTwice`.

### Findings and observations

- `repeated_command`: a waiter's submission whose answer was lost may have opened the
  check that the screen then shows; the same ticket goes out again under the same key but
  to another endpoint, whose lookup (`services/orders.py:763`) does not see orders, and is
  booked twice.
- A waiter's tap or note after an uncertain submission draws a new key, so what is sent
  next repeats what may be booked; lines added while a submission is under way are wiped
  by its `onSuccess`.
- A guest who edits the cart after a submission that was executed is refused with 409 until
  the page is reloaded; a reload keeps the cart (session storage) and forgets the key.
- The till files a product under table and product without the order, and a payment under
  order and amount: an equal second payment after an uncertain first is answered with the
  first.
- `reject_qr_request` may commit over an approval, and `approve_qr_request` stamps a
  rejected request EXPIRED (`ApproveRequest`, `CommitReject`).
- The delivery desk repeats the first body although the dialog was edited meanwhile.

## 6. Browser sessions

### What happens in the code

The browser holds an access token of fifteen minutes and a refresh token in cookies, shared
by all tabs. Next.js route handlers (`web/src/app/api`) answer its calls and talk to the
API. A call that is refused with 401 refreshes and is tried once more
(`authenticatedBackendFetch`). A map of refreshes under way (`refreshFlights`), kept two
seconds past their end, lets handlers that hold the same refresh token share one exchange.
The API replaces the session's `jti` on each exchange; a token of the family whose `jti`
was replaced revokes the session. A branch switch starts a new family. Cookies change when
a response arrives, in whatever order responses do.

### Modules

| Module | Models | Actions |
|---|---|---|
| `SessionApi` | `security.py`, `dependencies.py`, `api/auth.py` | `SignIn`, `Rotate`, `SwitchTo`, `RefuseToken`, `SignOut`, `RevokeElsewhere` as parts of the handlers' steps |
| `WebSessions` | `lib/server/auth-session.ts`, `auth-cookies.ts`, the routes, `proxy.ts` | `BeginWork`, `BeginRefresh`, `BeginSwitch`, `BeginLogout`, `BeginLogin`, `FirstTry`, `Exchange`, `Retry`, `ServeSwitch`, `ServeLogin`, `ServeLogout`, `Arrive`, `Expire`, `Forget`, `Abandon`, `LoseExchange`, `LogoutUnheard`, `EndElsewhere` |
| `Sessions` | the promises | – |
| `SessionProofs` | TLAPS proofs about `Sessions` | – |

An access and its refresh token are one numbered `pair`; `jar` is the pair in the cookies;
`calls` are the handlers at work, with the cookies they were sent and what their response
will do to the jar; `flights` is the map.

### Abstractions

One browser and one web server process (the map is per process). Passwords, PINs, trusted
devices, roles and the thirty-day limits are left out. An access token expires when no
call under way carries it (calls take seconds, tokens minutes). `Forget` ends the two
seconds of grace at any moment; when someone still holds the old pair by then, it counts
as a trouble. **Bounds:** `MaxSessions`, `MaxPairs`, `MaxTroubles`, `MaxSwitches`, and the
guard `Room`, which lets a call begin only while everything under way can still mint its
pair, so that a bound never stops a call half-way.

### Runs, fairness

| Run | Instance | Question |
|---|---|---|
| `sessions` | 1 user, 2 branches, 2 calls at once, 3 sign-ins, 3 pairs, 1 trouble, 1 switch | Is a refresh token exchanged once, do calm sessions survive, does nobody inherit a session, is work done in its branch, and is it done at all? |
| `lost_logout` | the same | *Violated:* once the API has answered a sign-out, its session is over. |

Handlers run and the API answers what it is sent (weak fairness of `Handler` and
`Exchange`); nothing is assumed of people, tokens or the grace period. Two sign-ins are
needed for a late answer to meet the next person and a third for what follows when it empties that
person's cookies, three pairs for a refresh beside a
switch. `CalmSessionSurvives` and `NobodyElse` name what they exclude; for the latter `evicted`
remembers that somebody signed in while the session of the person before still stood, which
only emptied cookies make possible.

### Findings and observations

- `lost_logout`: a sign-out sent with the cookies of before a branch switch looks for a
  session of the old family, finds none, answers 204 and revokes nothing; the switch's
  answer signs the browser in again.
- A refresh whose answer is lost in transport ends the session: after the grace the old
  token is offered again and looks stolen.
- The late answer to a call of somebody who has signed out (a refresh that was refused) clears the cookies of
  whoever signed in since. Their session stands without a holder; a call of theirs that is
  still under way may bring its pair back, over the cookies of the next person to sign in. The
  proof of `NobodyElse` met this first; TLC shows it with three sign-ins if the
  property is stated without `evicted`.
- The other tab keeps showing the old branch after a switch until it fetches again.
- docs/authentication.md says that the reuse of a token is written to the audit log; the
  code writes nothing there.

### Proofs

For every set of calls, users and branches and every value of the bounds, `SessionProofs` proves
`SessionsTypeCorrect` (`[]SessionsTypeOK`), `RefreshTokensAreExchangedOnce`
(`[]OneSuccessor`), `WorkStaysInItsBranch` (`WorksInItsBranch`), `TabsAreNoThieves`
(`[]CalmSessionSurvives`) and `CookiesAreTheirOwners` (`[]NobodyElse`).

`OneSuccessor` is not inductive: that two handlers hold the same successor depends on
where they got it from. `WebInv` adds that a handler has a successor only after its own
pair was exchanged (`CallOK`), that the same holds of a flight that was won (`FlightOK`),
and that the two agree as long as the flight is in the map (`FlightsAgree`): whoever comes
when it is not finds the pair exchanged and is refused. It stands on
`ApiInv`: a session's `jti` is a pair of its own family, a family is named after its first
pair and has one branch. From the last point follows `WorksInItsBranch`: an accepted pair
is of the session's family, and so is its `jti`. The lemmas say that an exchanged pair is
exchanged for ever (`Grows`), and treat one action each.

`CalmInv` carries `CalmSessionSurvives`: while it is calm, an exchanged pair is remembered by
the map or gone (`Remembered`: neither in the cookies nor with any handler that has
not got its successor), so nobody offers it again. `OwnInv` carries `NobodyElse`: a call's pair and its
successor are of one session (`SameSession`), without switches a session has one family (`OneFamily`), only one
sign-in is under way (`OneLogin`), whatever is live in the cookies or with a handler is the
owner's (`AllOurs`), and during a sign-in nothing is live (`Deserted`), which is what
`~evicted` buys. Assumptions: `SessionAssumption`, `WebAssumption`. `WorkIsDone` is liveness and
model-checked only.

## 7. Realtime events

A handler that changes something commits and then publishes an event on Redis. Each worker
with sockets is subscribed, and its reader delivers to the local hub, one socket after
the other, if the socket's session is still authorised. Events carry no data to rely on: a
page invalidates the queries that are listed for the event's type, and all of them at
`connection.ready`. Invalidating starts a fetch again that is under way, unless it is the first
load. A page fetches a ticket, connects, is told `connection.ready`, and after any loss of
the connection asks for a ticket again.

`Realtime` models writers (`Write`, `Publish`, `PublishFails`), the hub (`Deliver`,
`SendTo`), the endpoint with every exit (`Accept`, `Subscribe`, `Ready`, `RedisFails`,
`GoneEarly`, `EndLoop`, `LoopFails`, `Disconnect`), the page (`Open`, `RequestTicket`, `Connect`,
`Receive`, `OnClose`, `Leave`, `Online`, `Poll`, `ServeFetch`, `Show`), a network that drops
connections and sessions that end. `truth` counts committed changes and `screen[c].shows`
is the one a page shows. What is chosen freely: whether a change is announced at all (only the
handlers of orders, kitchen, QR requests, deliveries and tables broadcast), whether an event is one
the page's queries are listed for, whether a page that is opened is still in the cache, and,
in `SendTo`, whether the check of the session itself fails. The three history variables
`gaps`, `missed` and `deaf` remember where the code leaves a page behind.

| Run | Instance | Question |
|---|---|---|
| `realtime` | 1 worker, 1 page, 2 sockets, 1 change, 1 trouble | Is a ready socket subscribed and in its hub, does an open page catch up, and are all sockets of an ended session cut off? |

Two sockets are one more than a page holds, so that the handler of the old one leaves
while the new one joins. A trouble is a dropped connection, a network that comes back, a failed
Redis call, a lost event, or a check of a session that fails. Fairness: handlers, readers,
timers, fetches and publishing go on; people and troubles are free, and troubles are bounded.

`ReadyHears` excepts the deaf socket (below). `ScreensCatchUp` makes no claim

- for changes whose event does not go out to everyone (`gaps`: they have none, Redis refuses
  the message, or the process dies between commit and broadcast),
- for a page that has had a message without fetching again (`missed`: the event is not listed for its queries, or
  it came while the first load was on its way back), until its next fetch,
- while the page's connection is deaf.

Only the pages' own intervals repair these (section 8). What is left is what the protocol
itself promises: no event is lost between publication and the page, across
connections that come and go, fetches overtaken by changes and restarts of both ends.

`RealtimeProofs` proves `RealtimeTypeCorrect` and `ReadyAlwaysHears` for any number of workers, pages,
sockets, changes and troubles. `ReadyHears` alone is not inductive: the last socket of a
worker unsubscribes it, and what keeps that from happening beside a ready one is that the
ready one is in the same hub, from its acceptance on (`InHub`) and in no other (`AtHome`),
unless its check failed during a delivery.
The bounds of the queues, which `RealtimeTypeOK` states, need a count: what a
socket has still to be told is at most one event per change, of which those not yet published are `Due`,
and the greeting (`Counted`), and an inbox that is
not empty belongs to a page (`Owned`). Assumption: `RealtimeAssumption` (there is a worker and a client,
and no socket is the null value). Liveness (`ScreensCatchUp`, `EndedSessionsAreCutOff`) is model-checked only.

Seen while modelling: an exit of the endpoint before its `try` (Redis refuses the
subscription, or the browser is gone before `connection.ready`) leaves a dead socket in the
local hub, although the comment at the `finally` of `api/websocket.py` says that any exit
path must deregister; the next send to it removes it from the hub and leaves the worker
subscribed.

`RealtimeHub.broadcast` takes any exception for a dead connection (`realtime.py:101-102`), one
of `authorize()` too, such as a failed database call: the socket leaves the hub, but nobody closes it and its
endpoint goes on serving it, so that a page with an open connection that answers its pings
hears nothing until it connects again. `RedisRealtimeHub.disconnect`
(`realtime.py:162-163`) means to see to it that "a busy business never loses events
mid-session"; here one is lost to a page, with all that follow.

A change made after the API has read what a first load returns and before the socket is in
its hub is lost on the page if `connection.ready` comes before that first answer, because it
does not start the load again.

## 8. Screens

### What happens in the code

Every page keeps the answers of its queries in the react-query cache under a key. A
query may have an interval; a command's `onSuccess` writes answers into the cache
(`setQueryData`) or invalidates keys by prefix, which starts a fetch again that was under
way, unless it is the first one. Answers arrive in any order; pages are left and opened
again, fetches fail, and other people write.

### Modules

| Module | Models |
|---|---|
| `ScreenData` | how queries and commands are written down: pages, key, resources read or written, keys refreshed on success and on error, keys filled, interval, several requests |
| `OfficeScreens`, `StaffScreens`, `PlatformScreens` | every `useQuery` (113) and `useMutation` (about 100) of the management pages, of the waiter, till, delivery and support pages, and of the platform's own pages |
| `Screens` | the cache of one query, whichever it is, with `Visit`, `Leave`, `Age`, `Collect`, `Poll`, `Nudge`, `Serve`, `Show`, `FetchFails`, and the commands beside it with `Send`, `Commit`, `Succeed`, `Fail`, `Break`; other people with `OtherWrite` |
| `MCScreens` | all tables together |
| `ScreenProofs` | TLAPS proof of `OwnChangesAreShown` |

The initial state chooses the query; `Screen(q)` reduces it to what its commands do to it.
`truth` is a version counter of what it shows and `own` the version of the last command that
was reported as done on the page.

### Run, fairness

| Run | Instance | Question |
|---|---|---|
| `screens` | every query beside every command of its pages, 2 changes, 1 failed fetch | Is what a command reported on the page that gave it, and do pages with an interval come to show everybody's changes? |

Two changes are what it takes for an older answer to overtake a newer one. Fairness: the
API answers fetches (`WF` of `Serve`), intervals run while a page is open (`WF` of `Poll`),
and refreshes do not overtake answers for ever (`SF` of `Show`): each `Nudge` starts the
fetch again, and without that assumption a branch with a steady stream of events faster
than its API would never show anything.

`Overlooked` names the pairs for which a command's handlers do *not* refresh an answer it
changes; the properties make no claim for them. They are what reading every handler
found:

- accepting an order in the office, changing a loyalty programme, and a platform change of
  a business' life cycle write the answer into the cache without fetching, so a fetch under
  way may put the old one back; the business overview is not refreshed by the latter at all;
- names in the shell: branches, own account and business stay until the next load;
- the printer page's acceptance banner after a change of printers, mappings or bridges
  (its interval of ten seconds repairs it); the state of a PIN in the list of employees;
- the till's closed orders and receipts after a reprint; the loyalty panel after commands
  of the order, and the order after the panel's own; the waiter's list of destinations after lines
  were moved.

Also seen: an event during the first load of a page is lost on it (invalidation does not
restart a first load); docs/architecture.md:117 lists notifications about approvals and
printers that the API never sends; docs/database.md:66-67 says that version columns
protect tables, QR settings and configurations, but only rooms, campaigns, the
loyalty programme, order items and the closing of a table send `expected_version`;
`["catalog", "products"]` is filled by different requests; an inventory movement draws a
new key in every attempt (`inventory-management.tsx` 465, 504); `CashierShiftPage` in
`secondary-operations.tsx` is not used.

### Proofs

`ReportedIsShown` proves `Spec => []OwnChangesAreShown` for any tables that are `Thorough`
(every command refreshes the answers it changes on its page and, when it is several
requests, also when a later one fails), any number of writes and failures. That the
application's tables are thorough but for `Overlooked` is what TLC evaluates in the
run `screens`: a pair that is not shows as a violation there. `OwnChangesAreShown` is not
inductive: an older answer may be on its way, or in the cache of a page that is about to
open. `ScreenInv` adds that nothing on its way is older than what was reported
(`NothingOld`) and that an answer that is older is known as stale (`OldIsStale`), so that
opening the page fetches. `ChangesReachScreens` is liveness and model-checked only.

## 9. Not modelled

Each with its reason, and in more detail in `PROJECT.json`:

- **Ledgers of the API:** the counting and closing of shifts, stock movements, loyalty
  points, billing attempts. Their pages are modelled as screens. While reading
  `services/payments/collect.py`: after an error of the provider the attempt's row stays
  under its key `invoice:…:attempt:n+1` and the count is not raised, so the next charge of
  the invoice is refused as a replay, although the comment at line 188 says that it stays
  collectable. `charge_invoice` has no caller outside tests at this commit.
- **Rate limits and phone codes, the e-mail outbox, enrolment codes of bridges:** small
  protocols with Redis or a table of their own.
- **Transports and the desktop shell:** operating-system spoolers and text layout; the
  pipeline sees a transport as printing, failing or uncertain.
- **Forms, layout and translations** of the web application, the bulk of its lines: they
  keep no state that others see.
- **CRUD, imports, reports, templates, migrations and deployment files:** single
  transactions or no state of their own.
