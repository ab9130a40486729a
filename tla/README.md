# HeroBM: specifications, model checks and proofs

TLA+ models of the core engines of HeroBM, a TypeScript ERP. They are written from the
source under `src/`; comments in the modules and the map in `PROJECT.json` say which lines
each definition stands for. `tlc -config X.cfg M` repeats a run, `tlapm M.tla` a proof.

## 1. The system

A NestJS API (`apps/api`) keeps everything in PostgreSQL through Drizzle. Each HTTP request
that writes runs one database transaction at READ COMMITTED, and requests run concurrently,
also in several API processes. A worker process (`apps/worker`) relays events and e-mails
over Redis (BullMQ). A Next.js portal, a generated SDK and an MCP server are clients of the
API. `docs/technical/02_core_engines.md` names the engines; the rest are document services
that call them.

| Component | State | Operations | Talks to | What makes it correct |
|---|---|---|---|---|
| Inventory ledger (`inventory-movement.service.ts`, `-helpers.ts`) with stocktakes (`stocktakes-write.service.ts`) | `inventory_entries`, `inventory_ledger` (append-only), `bin_contents` (cache), putaway status of lines, state of stocktakes | moveStock, adjustStock, quarantineStock, putaway, submitReconciliation, changeState, recordInventoryMovement | GL (value of adjustments), every document service | cache = ledger; no stock lost or made; no negative bin; a line put away and a stocktake booked once; status and stock agree |
| General ledger (`gl.service.ts`, `ledger-hash.ts`) | journal entries and lines, fiscal periods, advisory lock | postJournalEntry, assertPeriodOpen, updatePeriodStatus, verifyLedgerHashChain | called inside the transactions of payments, invoices, stock, manufacturing | one hash chain, gapless numbers, balanced books, closed periods stay closed, posters end |
| Outbox relay (`emit-event.ts`, `relay.service.ts`, `outbox-listener.ts`) | `outbox` rows, NOTIFY, sweep flags, BullMQ jobs | emitEvent, triggerSweep, pollOutbox, processEvent, clearEventsByType | webhooks | at least once; processed means delivered; failed events are visible |
| Reconciliation, bank feeds | statement lines, `reconciliation_id` of journal lines | match, clear, split, post | GL | never changes what was posted |
| Payments and invoices (`payments/*.service.ts`), credit notes | documents, allocations, outstanding amounts | create, remove, submit, allocate, cancel, export, reject | GL | no over-allocation; document and journal agree; nothing undone twice |
| Sales orders, picking, shipments (`orders/`), returns | order state, picks, shipments, returned quantities | pickLine, cancelPick, createShipment, cancelShipment, life cycle rules | inventory, GL, invoices | picks, shipments, staged goods and cost of goods sold agree |
| Transfers, goods received, purchasing, manufacturing, projects | documents and their quantities | ship/receive, count, receive, build | inventory, GL | quantities of the document equal the movements |
| Document state machines (`state-machines.ts`) | none (transition tables) | | every document service | no illegal transition |
| Precision (`pricing.ts`, `currency.ts`, `tax.ts`) | none | distributeLumpSum, rounding | documents | shares add up to the total |
| E-mail relay (`email-relay.ts`, `email.service.ts`) | `email_outbox` | queueEmail, pollEmailOutbox, retry, dismiss, purge | SMTP, outbox | each mail ends, is repeated after a mishap only, failures are told |
| Idempotency interceptor, ledger audit | none | retry detection, nightly checks | | a retry returns the first result |

What is hard here: reads that take no lock followed by writes that rely on them; row locks
taken in the order of a request's lines; one global advisory lock taken in the middle of
transactions that hold other locks; unique indexes used as the only guard against doing
something twice; a queue and a table that must agree without a common transaction; crashes,
lost notifications, failing webhooks and retries. `PROJECT.json` lists each hazard at its line
with the properties that cover it, or the reason why none does yet.

## 2. Plan

1. *Core (done)*: `InventoryMovement`, `GeneralLedger`, `OutboxRelay`, each with an MC
   module, runs and a proof module.
2. *Abstract specifications (done)*: `AtomicStock`, `JournalBook` and `EventDelivery`, and
   the refinements that show that the three modules above, and `EmailRelay`, implement them.
3. *`Payments` (done)*: create, submit, allocate, cancel, export and reject, several payments
   on one invoice, against the accounts of the ledger.
4. *`Fulfilment` (done)*: picks, dispatches and their cancellations on one order.
5. *`EmailRelay` (done)*: the second consumer of the outbox listener.
6. *Stocktakes (done)*: submissions and state changes inside `InventoryMovement`, whose
   transactions they compete with.
7. *Proofs (done)*: the refinements of `AtomicStock`, `JournalBook` and `EventDelivery`; the safety
   properties of the inventory engine, the ledger, the outbox, the e-mail relay, `Fulfilment` and
   `Payments`, so that every invariant a passing run checks is a theorem; sums are reasoned about in `Sums`.
8. *Later*: transfers (ship and receive over in-transit bins), credit notes, the
   transfer-receipt and sales-return branches of putaway and quarantine, goods received,
   manufacturing; `Precision` with distributeLumpSum against a reference.

The number of runs is kept small: a run asks one question of one instance, and properties that
need the same instance share it.

## 3. The modules

### InventoryMovement

One action per statement, or per group of statements whose reads nobody else can change.
`pc[t]` is the next statement of transaction `t`:

    idle -> line -> stock -> header -> check -> upsert* -> mark -> (line ...) commit -> done

A request that names no document skips `line` and `mark`; a change of state goes from `line` to
`mark`; an adjustment that changes nothing skips what is between.

| Action | Code |
|---|---|
| `Begin` | the six entry points; move and adjust have no document to read |
| `ReadLine` | the goods-receipt line, its status, the bins it resolves to (276-326, 473-524; quarantine 777-893) |
| `ReadStock` | bin_contents, the validation of each request and the movement lines (`Movements`) |
| `LockStocktake` | submitReconciliation: SELECT FOR UPDATE and the refusals (485-525) |
| `ReadStocktake` | changeState: the unlocked read and STOCKTAKE_TRANSITIONS (274-295) |
| `InsertHeader`, `DuplicateHeader` | the entry header and its unique number (141-161) |
| `ValidateStock` | validateNegativeInventory |
| `Upsert` | one ledger line, its upsert, and the removal of zero rows (177-226) |
| `MarkLine` | putaway status (616-621, 1084-1095) or state of a stocktake, then the next line of a bulk putaway |
| `Commit` | value of a manual adjustment or a stocktake (`ShrinkageOf`) and the end of the transaction |
| `Refuse`, `ResolveDeadlock`, `Lose` | exceptions, Postgres's deadlock detection, a lost connection: all roll back |

READ COMMITTED is modelled by giving each transaction its uncommitted writes (`holds`, `mine`,
`posted`, `headers`, `marks`): they are what it reads over the committed tables (`QtyAt`,
`StatusAt`), and they are its locks. `Rows` that the cleanup deletes are quantity 0, as every
reader takes a missing row for 0. Only PUT- and ADJ- numbers are kept in `entryNumbers`; the others
are random. The counts of a stocktake are in the body of its submission. Every product costs one unit
of currency; zones, events and memos are left out, and so is the advisory lock an adjustment takes in the
GL, which `GeneralLedger` models.

*Units.* Stock is in whole base units. A receipt line is in the unit it was bought in (`LineRatio` base units):
receiving and putaway convert it, the correction of a counted destination too, although that one is computed from
stock in base units (`PutawayLegs`), while quarantineStock moves the bare number of the line as base units
(`QuarantineQty`). A line bought by the pair is therefore quarantined in half and put away from quarantine in
full. Moves and counts carry units of their own; their bodies are given in base units.

*Abstract specification.* `AtomicStock` is what callers rely on: a request takes effect in one
step, whole or not at all, with exactly the effect its body asks for (a move shifts its
quantities, a putaway takes its goods from where a line can be, a count changes counted rows only),
the value written off is the change of the stock, and a stocktake changes the stock once.
The mapping takes the committed tables for the stock, the transactions that ended in `done`
for the requests that took effect, and the ADJ- numbers in `entryNumbers` for the stocktakes that
were booked.

### GeneralLedger

A request is a transaction of a service that posts: a sequence of steps, each the lock of a
document row or a call of `postJournalEntry`. `Validate` and `Refuse` are the checks before any
lock, with the day of the entry number; `TakeLock` the advisory lock; `ReadTail` the newest
number, sequence and hash; `Insert` / `InsertFails` the inserts with the hard-close trigger
and the unique indexes; `Commit` the end. `UpdatePeriodStatus`, `Reconcile` and `NextDay` are the
environment: the administrator, the updates of posted lines, the clock. Amounts are in tenths of
a cent, so that rounding to cents (`Cents`) is visible. SHA-256 is taken as injective: a hash is
the value it hashes. `Canonical` is what the stable sort leaves to
hash: each line with its `Place` among those with the same sort key. `MoveToEnd` is what an UPDATE usually does to a heap: the new row
version is read last; the program orders these lines nowhere.

*Abstract specification.* `JournalBook` is the book an auditor expects: entries are added at the
end only, each linked to the one before, and never rewritten; reconciliation may reorder the
lines of an entry. AppendOnly states that the committed entries implement it.

### OutboxRelay

One action is what runs between two awaits. The sets `rows`, `processedAt`, `lastError` and
`lockedUntil` are the table; `isSweeping`, `pendingWakeup` and `sweep` the listener and the poll;
`jobs`, `attempts` and `stalled` BullMQ (external: a completed job is forgotten, a failed one
kept, an add with a known id ignored, a job whose process died started again once).
`PollSelect`, `PollAdd`, `PollLock`, `PollEnds` and `PollFails` are pollOutbox; `Start`, `Post`,
`Succeed`, `Fail` and `FailUnrecorded` are processEvent; `Crash` and `Restart` the process;
`Clear` the administrator. A webhook may take an event and its answer be lost.

*Abstract specification.* `EventDelivery`: an event that was emitted reaches its
subscribers, any number of times and nobody else, and is marked processed when all have it.
`OutboxRelay` implements it (DeliversEvents), and so does `EmailRelay` with the mail server as the one
receiver (DeliversMails).

### Payments

A worker is a database connection that runs one request after the other; what a request writes it
has locked first, so its writes are made in `Commit`. `LockPayment` is the SELECT FOR UPDATE of
the payment (or the insert of a new one) with the test of its state; `LockInvoice` and
`InvoicesLocked` the locks of the invoices, in any order as the query has none; `Check` the tests of
the amounts, which read the other drafts without a lock; `TakeLedger` the journal. `ReadBatch`, `ReadState`
and `WriteState` are export and rejection of a bank file: it takes the payments that it finds, in any order
(`Found`, `todo`), reads the state of each without a lock (`seen`) and then writes it whatever it is by then.
`overwritten` is a history variable: the payments whose state such a file wrote over after another request had
changed it. `RefusePayment`, `RefuseCheck`, `RefuseBatch`, `RefuseState`, `ResolveDeadlock` and `Lose` roll back. The ledger
is two balances in base currency: the bank and the receivables. Suppliers are the mirror image and
left out, as are split and direct payments, credit notes, terms and compliance.

### Fulfilment

A request checks what it reads without a lock (`Check`), moves stock row by row (`LockRow`, `Moved`), posts the
cost of the goods (`TakeLedger`), reads and tests the picks it is to change (`Change`, `RefuseChange`), locks the order
when a life cycle rule fires (`LockOrder`) and commits. It thus looks twice: `seen` is the quantity of a pick as its
cancellation first read it, `taken` what a dispatch or its cancellation takes of each pick that it found later, and at
the commit the tables may differ from both. A dispatch reads its picks before the journal in the code; all
that could commit between the two is a pick of another location being cancelled, which is met between `Change` and
`Commit` just as well. The row locks of the picks are left out: they only make a second writer wait
for the first, whose writes it then follows up with its own. Where changePickState reads a pick again and throws, the
request rolls back, as with `Lose`. Any requests may be open at once: nothing in the code keeps them apart.

A pick fills the SHIPPING bin of the location that fulfils its line (`Home`), from a bin in whatever location; its
reversal empties the SHIPPING bin of that bin's location. Bins are therefore kept by line and location, and `netPicked` is
what the SO_PICK entries of the ledger sum up to in each, from which executeDispatch lets goods leave: only the bin of `Home`
can have any. Picks are split when a dispatch takes part of one (`SplitPicks`) and are never deleted. Each line has
a product of its own, sold by its base unit; negative stock is allowed here, since `InventoryMovement` deals with its refusal.

### EmailRelay

One action is what runs between two awaits of pollEmailOutbox: `Select`, `Verify` (with
handleEmailBatchFailure), `Send`, `MarkSent`, `TellSent`, `AnnounceSent`, and on failure `Retry`,
`TellFailed`, `AnnounceFailed`. A sweep works on the rows as it read them (`readRetries`). `Thrown`
is the catch around one mail, `SweepFails` the one around the sweep, `Crash` and `Restart` the process.
`RetryEmail` and `DismissEmail` are the administrator, `Purge` the nightly job.

## 4. The runs

| Run | Instance | Shows |
|---|---|---|
| `inv_concurrent` | 3 requests, 2 open at a time, 8 bodies, 1 stocktake | implements AtomicStock, cache = ledger, locking, a line stocked once, requests end |
| `inv_serial` | 3 requests one after the other, 26 bodies, 1 stocktake, 1 line bought by the pair | no negative bin, status accounts for staged stock, completed and submitted are final |
| `inv_overdraw` | 2 open transactions, 2 withdrawals | **violated**: NoNegativeStock under concurrency |
| `gl_posting` | 2 posters, 5 requests, 1 period, 2 days, reconciliation | implements JournalBook, chain, hashes, numbers, balance, no duplicates, posters end |
| `gl_closed_period` | 2 posters, 1 period | **violated**: closed periods receive nothing |
| `outbox_relay` | 2 events, 2 webhooks, poll limit 1, 2 attempts, 1 mishap | implements EventDelivery, processed means delivered, coalescing, dead letters, every row ends (liveness) |
| `outbox_stranded` | 1 event, 2 mishaps | **violated**: every row ends |
| `payments` | 2 workers, 3 payments and an id of none, 2 invoices, 13 requests | unallocated and outstanding amounts, accounts, promises of drafts, states, requests end |
| `payments_cancel` | a payment with a discount | **violated**: a cancelled payment leaves no trace on its invoice |
| `fulfilment` | 2 workers, order of 2 lines, 2 locations, at most 4 picks and 2 shipments | what stays true of picks, shipments, staged goods and cost, state of the order, requests end |
| `shipped_unpicked` | the same order, 1 location | **violated**: only picked goods are put back on the shelf |
| `email_relay` | 3 mails, polls of 2, 2 retries, 1 mishap, 1 order | implements EventDelivery, repetitions are mishaps, failures are told, every mail ends |

The violated runs are disagreements between the code and its own documents or tests; the
findings in `PROJECT.json` quote both sides.

*Bounds and why they are enough.* Two open transactions suffice for races on a row, an index or
the advisory lock, for a deadlock and for a reader between another's check and write. `inv_concurrent`
has a third request because a stocktake is booked twice only by a submission, a change of state
that read before it, and another submission. Three serial requests suffice for
dock - quarantine - dock - shelf sequences. The bodies are chosen so that locks are taken in opposite
orders, a batch draws twice on one bin, a count goes down, up and below zero, lines are sent twice,
put into quarantine and not matched. A GL request posts at most twice, which shows chaining onto an
uncommitted entry. `MaxDay` 2 gives one midnight. Two attempts or retries (5 in the code) give one
repetition. `MaxMishaps` 1 is single-fault tolerance; two faults are `outbox_stranded`. With `Limit` 1
below the number of events a poll leaves rows behind. `payments` has a draft and a payment that is created submitted for
one invoice that holds one and a half of them: the allocation of the draft competes with the late one of the other (two
drafts for one invoice are covered by the theorem). p1 is cancelled at its foreign rate, p3 is exported while it
is submitted or rejected, and allocated late at another rate; the bank file also names p4, an id of no
payment. `MaxBank` bounds the bank account, which would grow whenever a payment is submitted again after a bank file wrote
its state over: with 13 every payment can be submitted, and p3 twice. `fulfilment` has a line of two that is shipped in parts,
so that a pick is split, two dispatches of it that may run at once, and a pick from another location. `MaxPicks` and
`MaxShipments` bound rows that are only added. In `inv_serial` line l4 is bought by the pair, quarantined, taken
back and put away, also with a count of its destination.

*What the runs leave out, and what happens there.* NoNegativeStock, LinesAccountForStagedStock and
CompletedIsFinal are checked for requests one after the other: concurrently the first fails
(`inv_overdraw`) and the others can fail too, since quarantineStock, adjustStock and changeState write
what they computed from unlocked reads; without the two of them that write a status, CompletedIsFinal
holds concurrently too (`FinalWhenLocked`). `gl_posting` posts whole cents; `payments` has promises that are tested or
uncontested (`PromisesTested`). `Perpetual` inventory accounting is what serialises dispatches; OrderStateAgrees fails for the
periodic one. The hazards in `PROJECT.json` name the lines.

*What goes wrong within the runs, and what the properties say of it.* Some properties are as strong as the code allows and no
stronger; the runs reach the cases they leave open.
- A bank file writes a state over that was changed meanwhile: StatesFollowMachine names this as the one way out
  of PAYMENT_TRANSITIONS, and OutstandingExplained, LedgersAgree and PromisesFit speak of the time before it happens.
- A foreign payment is cancelled: LedgersAgree says by how much the two accounts are off from then on, namely what the
  reversal leaves out (`BankLeftover`, `ControlLeftover`), and that nothing else is.
- Lines of an entry that differ in the cost centre only are hashed in the order they are read: PayloadsVerify speaks
  of the entries whose lines the sort tells apart (`ToldApart`); the others may be reported as tampered with after a reconciliation.
- A line bought in another unit is quarantined: LinesAccountForStagedStock then holds for dock and quarantine together.
- A dispatch ships a pick under its cancellation, or two dispatches ship the same picks: goods that left are put
  back on the shelf (`shipped_unpicked`), and shipments exceed the picks. PicksAgree says what remains: each
  SHIPPING bin and the cost of goods sold follow the documents to the unit, a pick or a shipment is never reversed twice, no more
  picks count as shipped than shipments took, and the history of picks shows no more than the picks.

*Deadlock.* The inventory, GL, payment, fulfilment and e-mail runs set CHECK_DEADLOCK FALSE: when all
requests have ended, or all mails have, the system rests. Waiting in a cycle is covered by
RequestsFinish, PostingsFinish, PaymentsFinish and FulfilmentEnds instead. The outbox runs check deadlock.

*Fairness.* In the inventory engine some statement that can run does run: each request ends after
finitely many, and none starts twice. In the GL each poster's statements are weakly fair:
posters run one request each, so that every holder of a lock ends. The workers of `Payments` and `Fulfilment` run requests without end, so that a
waiting one could be overtaken for ever: their steps are strongly fair because Postgres queues the
waiters of a row lock. Postgres resolves deadlocks (weakly fair) after deadlock_timeout. No request has to
arrive and no connection has to fail. In the relay the sweep, some job (concurrency 5, no job starves
the others for ever), the heartbeat timer, the expiry of locks and the restart of the container are weakly
fair, and in the e-mail relay the sweep, the passing of next_retry_at and the restart; notifications,
polls that fail and the administrator are not.

## 5. Proofs

All theorems are checked by TLAPS for arbitrary constants that meet the named assumptions
(`ShapeAssumption`, `LedgerAssumption`, `RelayAssumption`, `EmailAssumption`, `PaymentAssumption`,
`FulfilmentAssumption`), which TLC evaluates on the instances. A theorem that assumes more says so in its ASSUME. These conditions on layout
and requests (`StockFinite`, `NumbersApart`, `StagingLayout`, `StagedByLine`, `WholeCents`,
`CancelsUndiscounted`, `PromisesTested`) are defined at the end of the modules they are about, and
the MC modules assume them too, so that TLC evaluates them on the very requests of the runs.

| Module | Theorem | States |
|---|---|---|
| `InventoryMovementProofs` | `Typing` | `Spec => []TypeOK` |
| | `Locking` | `Spec => []WritesAreLocked` |
| | `CacheAgrees` | `Spec => []CacheIsLedger` |
| | `PutawayOnce` | `Spec => []CompletedOnce` |
| | `FinalOneByOne` | `MaxOpen <= 1`: `Spec => CompletedIsFinal` |
| | `FinalWhenLocked` | `NoBlindWriters`: `Spec => CompletedIsFinal` |
| | `NoNegativeOneByOne` | `MaxOpen <= 1`, `~AllowNegative`, checked bins start at 0 or more: `Spec => []NoNegativeStock` |
| | `StagedStockOneByOne` | `MaxOpen <= 1`, `StagingLayout`, `StagedByLine`: `Spec => []LinesAccountForStagedStock` |
| | `ImplementsAtomicStock` | `StockFinite`, `NumbersApart`: `Spec => RequestsAreAtomic` (refinement of `AtomicStock`) |
| `GeneralLedgerProofs` | `Typing` | `Spec => []TypeOK` |
| | `Fresh` | `Spec => []TailIsFresh` |
| | `ChainHolds` | `Spec => []ChainIntact` |
| `JournalProofs` | `NeverFailsOnAnIndex` | `Spec => []NeverDuplicate` |
| | `NumbersRunFromOne` | `Spec => []DayNumbersGapless` |
| | `ImplementsBook` | `Spec => AppendOnly` (refinement of `JournalBook`) |
| | `EntriesBalance` | every committed entry balances in cents |
| | `LedgerBalances` | `WholeCents`: `Spec => []BooksBalance` |
| | `PayloadsAreVerified` | `Spec => []PayloadsVerify` |
| `OutboxRelayProofs` | `Typing` | `Spec => []TypeOK` |
| | `Delivered` | `Spec => []ProcessedMeansDelivered` |
| | `NoLostWakeup` | `Spec => []NotifiedIsSeen` |
| | `DeadLetters` | `MaxAttempts >= 2`: `Spec => [](mishaps <= 1 => DeadLettersRecorded)` |
| | `Implements` | `Spec => DeliversEvents` (refinement of `EventDelivery`) |
| `EmailRelayProofs` | `Typing` | `Spec => []TypeOK` |
| | `TellsOfFailures` | `Spec => []FailuresAreTold` |
| | `RepeatsOnlyForMishaps` | `Spec => []RepeatsAreMishaps` |
| | `Implements` | `Spec => DeliversMails` (refinement of `EventDelivery`) |
| `PaymentsProofs` | `Typing` | `Spec => []TypeOK` |
| | `LeftOfPayments` | `Spec => []UnallocatedAgrees` |
| | `PaymentsFollowMachine` | `Spec => StatesFollowMachine` |
| | `OutstandingIsExplained` | `CancelsUndiscounted`: `Spec => []OutstandingExplained` |
| | `PromisesAreKept` | `PromisesTested`: `Spec => []PromisesFit` |
| | `InvoicesNeverOverpaid` | `CancelsUndiscounted`, `PromisesTested`: until a bank file writes a state over, no invoice is settled beyond its total |
| | `LedgersAlwaysAgree` | `Spec => []LedgersAgree` |
| `FulfilmentProofs` | `Typing` | `Spec => []TypeOK` |
| | `PicksAgreeAlways` | `Spec => []PicksAgree` |
| | `OrderFollowsShipments` | `Perpetual`: `Spec => []OrderStateAgrees` |

*Inventory.* CacheIsLedger alone is not inductive: a commit writes `mine`, so one must know that
`mine` is still the committed quantity plus the transaction's own lines. WritesAreLocked says that, and it
is inductive because a row has one holder: `Upsert` waits for the lock and nobody else can
commit to the row. CompletedOnce needs more: that a putaway that processed line *i* holds, or has
committed, the number PUT-*i*, that headers of two transactions are disjoint and disjoint
from the committed numbers. Typing is inductive only with `ProgressOK`, which ties the
program counter to the kind of request, the item, the legs and what is left of them. Stocktakes
are part of all of these theorems.

CompletedIsFinal is proved twice. For requests one after the other (`FinalInv`) a request never goes on with, or marks,
what is committed as final, since nobody changes it between the read and the commit. For concurrent requests
(`LockInv`) this argument is not available: a line's status is read without a lock. What protects a line
that was put away is that its number is taken, so that the second putaway fails in `InsertHeader`; what protects
a stocktake is its row lock. The two kinds that have neither, changes of state and quarantines of a line, are
excluded by name (`NoBlindWriters`), and with them TLC finds the property violated. NoNegativeStock needs `Suffices`:
for each row, what is committed or already upserted still covers the legs left, because validateNegativeInventory looked at all legs
together. The refinement maps a commit to the one step in which `AtomicStock` does all that the request's body asks for;
`BodyInv` says of a running transaction that the legs it wrote and has left, the lines it posted
and the statuses it marked are those of the items it has processed. It relies on the numbers of stocktakes
being apart from those of other documents (their ADJ- prefix).

LinesAccountForStagedStock ties the rows of the receiving bins and of quarantine to the statuses of the receipt
lines, and is broken between the legs of a movement and its mark. `StageInv` therefore counts, for the one open request, what it
has posted and what its legs have left to post (`ToCome`), against the statuses as they will be when it has marked its line
(`Heading`). The statement is inductive with a gap for each row (`Balanced`): none for a product bought in its base unit, and none
over all staged bins together for any product. Where the legs are computed, `StockRelocates` shows that they take the line's
quantity from where its old status says it waits and bring it to where its new one does, or widen the gap by what the bare number
of a quarantine falls short of it, in one bin as in the other (`Skew`). `StagingLayout` names the bins; `StagedByLine` what the
code leaves to its callers: putaways and quarantines of whole lines, no loose stock into or out of these bins. moveStock refuses
to move anything into these bins or out of the receiving ones itself, but not out of quarantine.

*General ledger.* The chain rests on three facts that are inductive together with Typing: only the holder of
the advisory lock reads, inserts or has pending entries (`OneWriter`); what it read is the tail of
the committed entries followed by its own (`TailRead`); and that sequence is itself a chain. The lock is
transaction-scoped, so a commit or an abort ends both the entries and the lock in one step. The numbers need
a fourth (`NumberInv`): the committed entries, and what a poster sees, have the numbers 1..n of each day, and
the number it read is the next one of some day, which may be over. An entry balances because it is one that
was validated (`BalanceInv`), and a reordering of its lines permutes the terms of its sums. That the whole
ledger balances needs amounts of whole cents (`WholeCents`): postJournalEntry rounds each line where it
compares and stores the amounts as they were given. An entry carries the hash of its lines from `NewEntry` to
the end (`EntrySound`), and an UPDATE, which moves a row to the end, keeps `Canonical` as long as no two different lines of that
entry have the same key (`ToldApart`): the moved line then only changes its place with lines equal to it
(`MoveKeepsCanonical`). The sort breaks ties by the order in which rows are read, which the program does not fix, so nothing is said of
an entry with lines that differ in a field the key leaves out. `ImplementsBook` maps every step to an append, a
reordering or a stutter of `JournalBook`.

*Outbox.* ProcessedMeansDelivered is inductive with `NothingForgotten`: for a running job without an error, each
subscribed webhook is still to be called or has taken the event. `AttemptsBounded` makes Typing inductive: a job
that waits or is delayed has attempts left, one more after a crash. NotifiedIsSeen needs that a locked row is
queued and that the worker listens while nothing fails (`LockedIsQueued`, `Listening`). DeadLettersRecorded
needs that a job which failed before left its error in the row (`FailuresLeaveErrors`); the assumption of two attempts
is true of the code, which has five (relay.service.ts:77): with one attempt its only failing update is a mishap too many.

*E-mail.* The sweep's own knowledge is the invariant (`SweepInv`): the mails in its batch are queued, and retries
remain for the mail it sends. Repetitions are counted with the mail that is about to be handed over
(`Excess`), one that can be sent counting as handed over: a mishap pays for the next one before it is sent.

*Payments.* The argument is about locks. From the test of its state to the commit a payment is held by one
transaction and keeps an accepted state (`HoldsOK`), and a commit changes only payments its transaction holds. Bank
files are the exception: they write over what they have not locked. `SeenInv` says that what they write was a transition when they
read; so either the state is still the one that was read, or the payment joins `overwritten`. PaymentsFollowMachine needs no more. The
sums are proved for the steps that leave `overwritten` empty: there a bank file changes drafts and exported payments
only (`Faithful`). An invoice that is cancelled is held from the test to the commit and was not cancelled before (`VoidsOK`): a second
reversal would break the receivables. OutstandingExplained assumes that payments that are cancelled have no discount
(`CancelsUndiscounted`; `payments_cancel` shows the violation without it), with the same statement about the allocations
that are stored (`PricesOK`). LedgersAgree assumes nothing: what a reversal leaves out of the accounts depends on
the payment and its allocations alone, which no later request changes, so that it is a third sum beside those of the submitted
payments and the invoices (`BooksOK`); a discount that a cancellation does not give back is missing from the invoice and
from the account alike.

PromisesFit is about a test and its use: allocatePayment sums the drafts of others without a lock on them, and commits later.
What it found still fits then (`FitsOf`), because the invoice is locked from the test to the commit (`InvoicesOK`)
and the commits of others only ease it: a cancellation gives back, a submission takes from the outstanding amount what it takes from the
drafts. `PromisesTested` says when this argument is complete, invoice by invoice. Either all promises on it are tested
(`Tested`): made by allocatePayment, one line each, without discounts and in drafts that are not exported, none of which the test counts.
Or one payment alone is allocated to it (`Uncontested`), which then keeps within the total. Together with
OutstandingExplained it follows that no invoice is settled beyond its total (`InvoicesNeverOverpaid`), although a submission compares no
amounts.

*Fulfilment.* The tables a request looks at are read without a lock, so it must be shown how much of what it found lasts
until it commits. `ClaimsOK` says so per kind, in inequalities, as others may add, split and reverse picks meanwhile. A dispatch takes from each line
no more than it sends, whatever becomes of the picks. Who cancels a dispatch holds the SHIPPING bins of its lines, so nobody
else dispatches or cancels of them (`LocksOK`): the shipment is still dispatched, and the shipped picks that remain are within
the other shipments. A cancellation of a pick puts back what it read first (`seen`), which is no less than the pick is by now, and
exactly it until something of the line was dispatched, since only a dispatch or its cancellation splits a pick. From this
`PicksCover` follows by sums over the picks, which splitting does not change; StagedAgrees and CogsIsDispatched follow from the commits
alone. For OrderStateAgrees, `RulesOK` says that the shipments a life cycle
rule looked at are those its transaction leaves behind: under perpetual accounting the lock of the general ledger is held
from before the rules to the commit. The rule also looks at the shipped picks of a line, which never exceed its shipments.

*Sums.* The models write SUM and reduce as folds (SumFunctionOnSet), which pick elements by CHOOSE. `Sums` proves that the
fold of a finite set is well defined and takes its elements in any order, adds up, scales, concatenates, and may be
grouped by a key; that natural numbers have natural sums, of which a part is at most the whole, and that larger terms have a
larger sum. The library's induction theorems cannot be cited here, since they take an operator as a
parameter; `SubsetInduction` states induction for a *set* of subsets instead, and follows from the minimal element of a
well-founded order (WFMin, FS_StrictSubsetOrderingWellFounded).

*Only model-checked.* Liveness (RequestsFinish, PostingsFinish, EventsEnd, PaymentsFinish, FulfilmentEnds,
MailsEnd), which is outside the provers' reach. No module declares a
RECURSIVE operator.

## 6. Not modelled

- *Within the modelled components*: putaway and quarantine of transfer receipts and returns; creation,
  counting and deletion of stocktakes; purchase side, split and direct payments, credit notes, payment
  numbers and idempotency keys; order entry, backorders, allocations, manual changes of an order's
  state (changeSalesOrderState, which reads without a lock and may write over a life cycle rule),
  packing and non-stock lines; reports, chart of accounts, generation of periods, project subledger; the
  shutdown of the worker and its maintenance jobs.
- *Not yet*: sales returns, transfer orders, goods received, purchasing, manufacturing, projects,
  reconciliation documents, pricing. They are services over `recordInventoryMovement` and
  `postJournalEntry`, whose promises the modules above state.
- *Not planned*: user interface, SDK, MCP server, authentication and roles, master data and settings,
  CRM, PDF templates, seeds, telemetry, which are most of the repository's lines: they have no
  protocol of their own, or are I/O or generated.
