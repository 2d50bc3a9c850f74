# Formal specification of Aitvaras

Aitvaras records the receiving of goods: a warehouse worker weighs packages of a
delivery, an administrator later confirms each batch against the supplier's
document, and differences between the two weights are settled over time. It is a
NestJS API over PostgreSQL (Prisma), a Next.js client and a package of shared
request contracts. This directory holds TLA+ modules of its core logic, the TLC
instances that check them and the TLAPS proofs about them.

Paths below are relative to the repository; `batches.service.ts` and its
neighbours are under `apps/api/src/modules/`.

## 1. Inventory

### API

| Part | State | Operations | Hard behaviour | What makes it correct |
|---|---|---|---|---|
| Package registration (`batches/batches.service.ts`) | `Bag`, `BagCorrection` | `createBag`, `correctBag`, `voidBag` | every check is a read in an earlier statement than the write; corrections recompute from the row they read; decimals of any precision into 3-decimal columns | net = gross - tare; the trail explains the row; a voided unit stays voided; a confirmed batch is frozen |
| Reconciliation (same file) | `Batch.status/receiptLineId/documentWeight`, `ReceivingDiscrepancy`, `GoodsReceipt`, `GoodsReceiptLine` | `reconcile`, `resolveReceiptLine` | five statements of which only the last is a transaction; the receipt is created outside it; retries and two administrators | confirmed completely or not at all, once, on a line of its own; the discrepancy is that of the winner; no duplicate receipts; document metadata is kept |
| Receipts (`receipts/`) | `GoodsReceipt`, lines | `create`, lists | shares its tables with reconciliation | one supplier per receipt |
| Settlement ledger (`receiving-discrepancies/`) | `DiscrepancySettlement`, `ReceivingDiscrepancy.status/settledAt` | `createSettlement`, reads | row lock; balance derived from rounded rows, status from the unrounded amount | never over-settled; status follows balance; requests do not wait for ever |
| Deliveries and batch resolution (`batches/`) | `IncomingDelivery`, `Batch` rows and codes | `createDelivery`, `resolveBatch` | find-or-create under unique constraints, bounded retries, sequences that end at 99 | one batch per (delivery, resource, warehouse); unique codes |
| Receiving reads (`batches/`) | none | `get`, `list*`, `getBagByBarcode` | several statements per reply | derived, never stored |
| Packaging types and other master data (`packaging-types/`, `partners/`, `resources/`, `resource-categories/`, `warehouses/`) | one table each, `active`, the roles of a partner, the category of a resource | create, update, (de)activate | edited and retired while requests use them; checks and the write they are for are separate calls | what is newly referred to is active; snapshots, not references, where history matters |
| Users and access (`users/`, `access/`) | `User`, `UserRole` | create, update, reset password | last-administrator check outside the transaction; roles replaced by a delete and an insert under READ COMMITTED | always an active administrator; ADMIN stands alone |
| Authentication (`auth/`, `common/guards`) | cookie tokens with a version; attempt counters in the memory of the process | login, logout, me, update profile; `isLocked`, `recordFailure`, `reset` | a token is signed, a hash written, after the account was read; logins in flight together are counted after all were let in | a reset ends every older session; guesses are bounded |
| HTTP plumbing, health, scripts | none | | | |

### Web client

| Part | State | Hard behaviour | What makes it correct |
|---|---|---|---|
| Package entry (`receiving-delivery.tsx`, `lib/receiving.ts`) | the batch on the screen, the draft, the label, the panels | a save succeeds and the refresh after it fails; only a handler's own button is disabled, so its answer may find another batch | no package is saved twice; a package goes into the batch it was entered for; labels and rows are of the batch shown |
| Confirmation page (`batch-details-page.tsx`) | the batch as loaded, the difference dialog | stock changed since loading; the read is two statements | what is recorded was acknowledged; a confirmed total is final |
| Discrepancy page (`discrepancy-details-page.tsx`) | the balance as loaded, the form | balance changed since loading; a reload that fails | no payment is entered twice |
| Session and API client (`features/auth`, `shared/api`) | the current user; the cookie, which it cannot read | loads, logins, logouts and 401s answered out of order; expiry | the shown user is the cookie's |
| Users page (`manage-users`) | the list, the edit panel | no button is disabled; some handlers replace a row, others the list | the list is the server's |
| Master data pages (`manage-packaging-types`, `manage-resource-categories`, `manage-warehouses`) | the list, the row open for editing | every change loads the list again, answers in any order | the list is the server's |
| Lists of deliveries and batches, registers, scanner, partner and resource pages, shell | lists and forms | one load, one request per submit | |

### How the parts interact

- A package request reads `Batch.status` and the packaging type, and writes `Bag`.
  Reconciliation reads the `ACTIVE` bags and writes `Batch.status`. Neither takes a
  lock that the other respects.
- Reconciliation and `ReceiptsService.create` both write receipts and lines; the
  only coordination is the unique `Batch.receiptLineId`.
- Reconciliation creates the discrepancy that the ledger settles; the ledger reads
  the status of source batches.
- Every check that a row is active, or that a partner is a supplier, is made before
  the write it is for; nothing is locked in between.
- An update of a user decides by what it read of all users; a reset of a password
  ends the sessions that `JwtAuthGuard` finds to have an older token version.
- A page of the client awaits one call after another in the handler of a button. What
  its answer does to the page is done to the page as it is by then, and a worker
  repeats what was reported as failed.

The hazards, each at its line and with the properties that cover it, are in
`PROJECT.json`.

## 2. Modules

| Module | Stands for |
|---|---|
| `Weights` | decimal arithmetic on the two sides of a `numeric(14,3)` column |
| `Batches` | what the next three share: the batches, and a request that is not under way |
| `Packages` | `createBag`, `correctBag`, `voidBag`; `PackagingTypesService.update` |
| `Reconcile` | `reconcile`, `resolveReceiptLine`; `ReceiptsService.create` |
| `Receiving` | the two together over one database |
| `Ledger` | the settlement ledger as it is promised: a settlement is one step |
| `Settlement` | `createSettlement`, statement by statement, under its lock |
| `Registry` | the numbering of deliveries and batches as it is promised |
| `Deliveries` | `createDelivery`, `resolveBatch` and their code sequences |
| `Administration` | `create` and `update` of users, the roles in tokens, the last administrator |
| `Sessions` | login, logout, the guard, the profile, the reset of a password |
| `LoginAttempts` | the counters of failed logins, windows and lockouts |
| `MasterData` | partners, categories, resources, warehouses, locations, packaging types, and the checks of what refers to them |
| `ReceivingScreen` | the screen on which a worker registers, corrects and voids packages |
| `ConfirmScreen` | the page on which an administrator confirms a batch, and the read it shows |
| `SettlementScreen` | the page on which settlements are entered |
| `UsersScreen` | the administrator's list of users |
| `CatalogScreen` | the lists of packaging types, categories and warehouses, and the page of a warehouse |
| `SessionClient` | `AuthProvider` and the cookie |
| `PackagesProofs`, `ReconcileProofs`, `ReceivingProofs`, `SettlementProofs`, `DeliveriesProofs`, `AccountsProofs`, `ClientProofs`, `CatalogProofs` | the theorems |
| `MCPackages`, `MCReconcile`, `MCReceiving`, `MCSettlement`, `MCDeliveries`, `MCAccounts`, `MCClient` | model-checking instances |

### Conventions

**Steps.** A request is a process. One action is one awaited database call, or one
`$transaction` when nothing another request does can be seen inside it; between
two actions any other request may run. A `findUnique` with an `include` is one
step, although Prisma may send two statements. `Abort` ends a request between two
steps: a thrown await, a lost connection, a restarted server. It also stands for
the answers that depend on nothing modelled (unknown ids, inactive locations).

**Requests** keep what they have read in a record (`old`, `tare`, `measured`,
`anchor`, `seen`) and the field `pc` names the next step. An answered request is
`Idle` and may be followed by another, so the number of requests in a behaviour is
unbounded and only those in flight at once are bounded.

**Screens.** A handler of the client is a process as well: the request, what the
server does with it, and the answer applied to the page are separate steps, and
whatever else the page allows may come between. A screen module has of the server
what its page can tell of it, with the whole request as one step; the module of the
service has the steps. The worker is modelled by one assumption: what he saved, as far
as he can tell, he does not enter again.

**History.** Most properties of the screens and accounts hold but for an exception
that the code really allows. The exception is a history variable that becomes TRUE at
the step that makes the difference (`overtaken`, `overlapped`, `displaced`, ...) or a set
of what is affected (`crossed` of `Packages`, `doubtful`, `misled`, `unseen`, `missed`,
`unknown`); no guard reads one. Where the code recovers by itself the exception ends with
the step that recovers: the next correction of the column, the next active administrator,
the next answer of the session, the next list loaded and shown alone. So each property
says what it takes to go wrong, and the exceptions are listed in section 5: what is
granted there, the property does not show.

**Weights.** A client sends decimals of any precision
(`contracts/src/batches.ts`, `decimalString`; `coveredWeightKg` in
`receiving-discrepancies.ts` is any decimal the service can parse), the service
computes exactly, and PostgreSQL rounds what is stored to grams. `Weights!Column`
is that rounding, half away from zero, of a number of tenths of a gram: the
coarsest unit in which a sent weight can lie below, on and above a rounding
boundary. Stored weights are in grams. Tare weights have at most three decimals by
contract and are whole grams.

### Packages

`bag[g]` is the row with barcode `g`. `trail[g]` folds its `BagCorrection` rows:
for each kind the latest `newValue`, starting from the registered values, which is
what a reader of the trail would take the unit to be, and `at` has when that row was
stamped. `CreateLoad`, `CreatePrice`, `CreateInsert` are `createBag`; `CorrectLoad`,
`CorrectPrice`, `CorrectRecord`, `CorrectCommit` are `correctBag`; `VoidLoad`,
`VoidCommit` are `voidBag`. The transaction of a correction is two steps, because its
first statement locks nothing that another correction needs: `CorrectRecord` inserts the
rows of the trail, which get their `createdAt` from `clock` and are seen by nobody yet;
`CorrectCommit` is the `UPDATE`, which waits for no more than another commit, and the
commit. `get` orders the rows by `createdAt`, so a row that commits late may not be the
newest of its kind (`Newest`); `crossed` then has the unit and the column until it is
corrected again. Two rows of one unit are never given the same stamp here; where two
corrections fall into one millisecond their random ids decide, which is one of the two
orders. `CorrectedRow` applies the columns of the service's `data` object to the row as
it is when the `UPDATE` runs. The two statements of `voidBag` stay one step: its rows
all say the same, and the order of two tells a reader nothing.
`StoredGross` is what the column can hold: sent weights, and those a correction of the
packaging type writes back as it read them. `ConfirmBatch` is what this module needs of reconciliation.

### Reconcile

`Submit`, `Weigh`, `FindLine`, `CreateReceipt`, `Confirm` are the awaited calls of
`reconcile`. `Key` is a (supplier, resource, warehouse) triple, the only thing
`resolveReceiptLine` compares. Line ids are numbers because `orderBy: { id: "desc" }`
makes their order matter. `minted` is a history variable. The branch of
`resolveReceiptLine` for a batch that already has a line cannot be reached:
`reconcile` only calls it with a batch it read as `PENDING`, and `LinkedIffConfirmed`
says that such a batch has none. `ChangeStock` is what this module needs of
registration. Acquisition value, pieces, prices and times are left out: they are
written and never read back by these operations.

### Receiving

Extends both: the package requests of `Packages` and the reconcile requests of
`Reconcile` run against one database. The status that `Packages` reads is the column of
the `Batch` rows that `Reconcile` writes (`StatusColumn`); the stock that `Reconcile`
sums is computed from the `Bag` rows that `Packages` writes (`StockOnHand`). So the
environment actions `ConfirmBatch` and `ChangeStock` take no part in `Next`; that each
component still behaves as its own module says with them is `PackagesSpec` and
`ReconcileSpec`. `StockAssumption` says that the bounds of `Reconcile` leave room for the
totals of the packages. `overtaken` and `drifted` are history variables that record which
confirmed batches had a package written after they were weighed.

### Ledger and Settlement

`Begin`, `Lock`, `ReadBalance`, `CheckSource`, `Write` are `createSettlement`;
`Finish` releases the lock, on commit and on rollback. The reads after the lock see
what is committed when they run, because the transaction is READ COMMITTED.
`Ledger` is the abstract specification; its refinement mapping is the identity on
`settled` and `status`.

### Registry and Deliveries

`OpenDelivery`, `NextDeliveryCode`, `InsertDelivery` are `createDelivery`;
`Resolve`, `FindBatch`, `NextBatchCode`, `InsertBatch`, `AfterConflict` are
`resolveBatch`. A code is its month and number, or its number in the delivery: the
texts are fixed width up to the limits, so that ordering by code is ordering by
number. A (resource, warehouse) pair is a `Group`. `last`, the number a request
tried before, is a history field. A request that has its batch stays `replied`, the
answer in the client's hands, until it is forgotten (`Abort`). `Registry` is the
abstract specification: a counter per month and an append-only list of distinct
groups per delivery, each written in one step. The refinement mapping counts the rows of a
month and reads the batches of a delivery in the order of their codes; that it is a
sequence at all says that the codes have no gap.

### Administration, Sessions, LoginAttempts

`FindUser`, `CountAdmins`, `BeginUpdate`, `CommitUpdate` are `UsersService.update`: two
reads, then a transaction of which the first statements lock what they write and the
commit shows it. A transaction that writes the `users` row waits for another that
does (`WritesRow`); one that replaces roles alone does not, and its delete does not
see the roles inserted meanwhile (`RolesAfter`, `Duplicate`). `stale` marks a request
whose check another commit has made void (it took away an active administrator, or made
this very account one), `raced` one whose delete has. `SignIn` and
`holder` are the roles a token names until it ends. Usernames are the accounts
themselves.

In `Sessions` a browser has one cookie and one call. `SendLogin`, `ReadCredentials`
and `AnswerLogin` are `login`; `SendProfile`, `Guard`, `ReadProfile` and
`WriteProfile` are a request that passes `JwtAuthGuard` and then `updateProfile`. A token carries, as history, the password it was
obtained with, and `earned` has the passwords of an account since its last reset. `LoginAttempts` has a clock in units of seconds; `LookedAt` is the
order in which `isLocked` deletes expired records until it meets a locked one.

### MasterData

`active` is the column of that name over all tables. A request is the list of rows it
checks, one per step, and the write. `Needs` says what a kind of document refers to
and is a constant: `assertActiveSupplier` and its neighbours check a delivery
(a supplier), a batch (a resource, a warehouse), a package (a packaging type, a location)
and a receipt (a supplier, then a resource and a warehouse a line). The instance has the
first two: the others are longer lists of the same steps, and the theorem is for any
lists.

### The screens

`ReceivingScreen`: `Start` and `Finish` bracket the four async handlers of
`receiving-delivery.tsx`; `EnterBatch`, `UnitSaved` and `UnitEdited` are the state
functions of `lib/receiving.ts`. `Serve` is the request, `RefreshBatch` the read that
follows, `Answer` what is put on the screen, `Fail` an error at any of them. Every
button is guarded by what is on the screen when it is there to be pressed.

`ConfirmScreen`: `ReadBatch` is `get` with its two statements, `SubmitReconciliation`,
`AcceptDialog` and `CloseDialog` the form and its dialog, `Measure` and
`CommitReconcile` what `reconcile` tells the page. `SettlementScreen`: the same for
`createSettlement`, with `FailSettlement` before or after the entry is stored.

`UsersScreen`: a handler keeps the list of the render that started it (`base`), as the
closures of `users-page.tsx` do: an edit maps over it, a toggle over the list there is.
`CatalogScreen`: the three list pages and the page of one warehouse differ in what has
buttons and in what is loaded again after a change (`RowButtons`, `Reloads`,
`LoadsOwn`); the constant `Heading` is the warehouse on its own page. One browser; an
update and the read that builds its reply are one step; a behaviour starts after the
first load. `newer` is, as history, the order in which the lists that handlers hold were
read, and `fresh` has the handlers whose list was read after the one on the screen.

`SessionClient`: `jar` is the cookie, which changes when the headers of a login or
logout arrive, before their handlers go on. A request belongs to the cookie it was
sent with; a 401 is the answer for `Nobody`.

## 3. Runs

| Run | Instance | Question |
|---|---|---|
| `packages` | 2 requests, 1 unit, 2 packaging types, gross 1.4 g and 3.0 g, tares 1 g and 2 g, 2 stamps | do overlapping corrections and voids keep a unit consistent, and is a drained confirmed batch frozen? |
| `reconcile` | 2 batches of one triple, one client each, 3 lines and receipts | do concurrent confirmations with failures, retries and hand-made receipts confirm properly? |
| `receiving` | 1 batch, 2 packages, 1 package request, 2 overlapping clients | is what was accepted the physical stock, and does registration still behave as `Packages`? |
| `settlement` | a shortage of 3 g, an overage of 1 g, 2 requests, amounts 0.4, 1.0, 1.6 g | is the ledger safe, live, and an implementation of `Ledger`? |
| `deliveries` | 2 requests, 2 months, 2 deliveries a month, 3 batches a delivery, 3 groups, 2 attempts | are codes and batches numbered as `Registry` says, does everyone get the same batch, do retries make progress? |
| `accounts` | 2 accounts, 2 roles, 2 updates; 1 account, 2 browsers, 2 passwords, 2 resets; 2 names and 1 address, 2 logins, limit, window and lockout of 2; 1 partner, 2 categories, 1 resource, 1 warehouse, 2 requests | is an administrator left, does a reset end the sessions, are guesses bounded, is what is referred to usable? |
| `client` | 2 batches, 2 packages, 2 handlers at a time; 2 pages and weights up to 2; 2 pages, payments of 1 and 2 against 3; 2 users and 2 handlers; 2 entries, 2 titles and 2 handlers; 2 accounts | does every page end up showing what the server has, and is nothing entered twice or in the wrong place? |
| `frozen_batch`, `retry_duplicates`, `document_overwritten`, `trail_gross`, `status_of_balance` | as above | statements of the documentation that the code does not keep (section 5) |

Why the bounds are enough. The hazards are races of two requests, so two in flight
at once reach them; a third adds an interleaving, not a new kind of step, and the
theorems cover any number. One unit suffices in `packages` since no step relates two
units except the unique barcode, which a second request to the same barcode
exercises (`MaxBarcodeAttempts` is 2, so both the retry and the end of the loop
happen). One location suffices: location and packaging type are treated alike and
the proof of `TrailExplainsUnit` is for any set of locations. `MaxClock` bounds the
corrections of a behaviour: two in `packages`, enough for their rows and updates to come in
opposite orders; three in `trail_gross`, whose counterexample needs fewer, and one in
`receiving` and `frozen_batch`, where corrections matter only for the stock they change.
`CONSTRAINT StampsLeft` drops what could only be aborted, a correction with no stamp left.
That a third correction ends the exception is not in the instance, which does not finish
within its time with three, but in the theorem (`CrossedByCorrection`). In `reconcile` three
lines let one be registered by hand, one created by each batch; two clients on one
batch are in `receiving` and `retry_duplicates`. 1.4 g rounds down, 1.6 g up, 1.5 g
is the documentary weight on the boundary, and a gross weight of 1.4 g over a tare of
1 g is the accepted package that rounds to net 0. Deadlock checking is off because
bounded identifiers run out: with every barcode or receipt used, and in the ledger with every difference
covered, the instance has nothing new to do. `deliveries` reaches both limits, and two attempts
run out when the other request inserts twice; its `CONSTRAINT OneFilled` fills one
delivery at a time, because batches of two deliveries share no row, code or
constraint.

`accounts` and `client` each check components that share no variable. A behaviour is
one of one component, chosen by `part`, while the others keep their initial values: the
state spaces add. `MCBound` leaves states unexplored in which a lasting exception has
happened: beyond `displaced` the properties of the receiving screen say nothing, and after
the first change that a page of `CatalogScreen` reports as failed nothing new is claimed.
`UsersScreen` runs through its exceptions and out of them again, with one set of roles and,
since the users are alike, one of the two as the first administrator: an edit, a creation and a toggle differ in what they do to the list, whatever roles they name.
Two handlers
at a time are the least that overlap; one of them may be a save while the other brings
another batch on the screen. A limit of two attempts with two logins in flight has one
counted and one let in past it; the clock runs past a window, a lockout and the
start of the next. `MaxVersion` is two resets: a token, or a read, may be two versions
old.

Symmetry is used only for sets that no property and no constant function tells
apart. `settlement`, which checks liveness, uses none.

### Fairness

Only `Settlement` states any. Weak fairness of `ReadBalance`, `CheckSource` and
`Write`: the server runs the statements of a request it has accepted. Strong
fairness of `Lock`: PostgreSQL queues the transactions that wait for a row lock, so
none is passed over for ever. Nothing is assumed of clients, of confirmations, or of
failures. The screens are checked for what they show once their handlers have ended,
which is a safety property; that handlers end is left to the browser and the network.

## 4. Proofs

The theorems hold for any constants that satisfy the named assumptions: weights are
natural numbers, `Target` maps clients to batches, `NULL` and the like are not
values of the sets they are added to, batches are finitely many (`BatchAssumption`, for
the counting of `Retries`), and in `Receiving` packages are, and the bounds of
`Reconcile` cover their totals (`StockAssumption`). TLC evaluates each in a run.

- `PackagesProofs`. `PackagesInv` adds to the properties that a request about to write
  has compared the gross weight and tare it is going to write (`PricedAboveTare`), that
  the unit it writes to exists (`UnitExists`) and that every unit has a trail
  (`TrailBegins`). That the trail explains the unit needs no more: of each column a
  correction records, its row is the newest of the kind, or the column is `crossed`
  (`CrossedByCorrection`). Without `PricedAboveTare` the net weight of a correction could be
  anything; the lemma `NetRounding` is why gross and net, rounded separately, still
  differ by the tare. `VoidForGood` and `Freeze` follow from the invariant and from how
  rows change in a step (`RowsChange`): a drained batch stays drained since a request
  that starts finds it confirmed.
- `ReconcileProofs`. `ReconcileInv` adds that an anchor a request carries is an existing
  line of the batch's own triple (`AnchorsExist`, `ReceiptsExist`). `Linking`,
  `Exclusivity` and `Discrepancies` follow; `Finality` needs only types and the condition
  of the update. `Retries` counts, for each triple whose batches have one client each:
  the lines minted for it and the batches for which one is about to be created are
  together no more than its batches (`RoomToCreate`). A client creates only where it found
  no free line, so each line minted by then is linked to a batch, and not to the
  client's own, which is pending (`PendingInFlight`). `Documents` needs that an anchor of a
  receipt of one triple is its greatest line that is not linked, and that until it is
  linked what the request read of the document is still stored (`FreshReading`): the
  requests that could write the receipt hold the same line, and only one gets it.
- `ReceivingProofs`. `ReceivingInv` is both invariants, that `status` and `stock` are the
  other's rows (`Views`), that a client past the weighing has found packages
  (`WeighedHavePackages`), and that what it weighed is still the stock unless it was
  `overtaken` (`MeasuredUnlessOvertaken`). `MeasureCorrect` follows, and with `Freeze`
  also `MeasureStays`: once the package requests in flight at the confirmation have ended
  the measure is the stock for good. `RegistrationImplementsPackages` and
  `ConfirmationImplementsReconcile` show step by step that each component's environment
  action is what the other really does: a confirmation is `ConfirmBatch` of a batch with
  packages, a written package is `ChangeStock` of one batch. So every theorem about
  one component holds of both together; `ReceivingRegisters`, `ReceivingConfirms` and
  `ReceivingFinality` say which.
- `SettlementProofs`. `Inv` ties a request past the lock to the lock and what it has
  read to the current sum: the holder's `seen` is `settled`, and its amount fits in
  the remainder. That is what the lock is for, and with it each step maps to a step
  of `Ledger` or a stutter.
- `DeliveriesProofs`. `Inv` adds the unique constraint as a fact about the rows
  (`OneBatchPerGroup`) and what each request has learnt of them (`Learnt`): a number
  tried in vain is taken, a refused insert met its code or its group, a reply is of
  its group. Rows only get added, so what was learnt stays true; two replies for one
  group are then one batch, and the greatest number read again is at least the one
  that collided. For the refinement `NumberInv` adds that the codes have no gap
  (`NoGaps`) and that the number a request is about to insert is 1 or follows a taken
  one (`Follows`): the number of rows of a month is then the greatest number, the
  batches of a delivery in the order of their codes are a sequence, and an insert that
  is not refused appends to it.
- `AccountsProofs`, one part per component and `AccountsTypes` for their types together.
  `AdministrationInv` adds to `SomeActiveAdmin` that a request let through
  to take an administrator away, and not `stale` since, leaves another
  (`OtherRemains`), whether or not the exception has happened before: of two such requests
  the first to commit makes the other `stale`.
  For `AdminStandsAlone` it adds that of two transactions that replace the roles of one
  user none is in doubt unless they met (`Apart`), and that a raced one has begun
  (`RacedLate`).
  Sessions: a version read with a password is not above the account's,
  and if it is the account's the password is one of those since the last reset
  (`Dated`): this holds of the account that a login has read, of every cookie and of every
  token under a guard, and a reset makes all of them outdated at once. For the
  counters the invariant is that a key that has reached the limit is locked until a
  lockout after now at the latest, so that only logins that were let in before count on;
  the cardinality of those in flight falls by one with each that is counted.
  Master data (`CheckedSoFar`): of what a request refers to, all that is not left
  to check is usable or was retired since the request began.
- `ClientProofs`. Of a page of settlements: a payment is in one form and is sent by one
  page, and what is being sent was not stored before, unless it was reported as failed
  (`PayInv`). Of the session: with no call under way the user
  is the cookie's or the last answer `crossed`, and a call in flight that nothing overtook
  will make it so (`SessionInv`). Of the confirmation page:
  until the batch is confirmed the page shows the stock or the stock has `shifted`, and a
  confirmation is read before the stock that belongs to it (`ConfirmInv`). Of the
  receiving screen: a reading of a batch holds only packages of that batch
  (`ScreenShape`); a draft, a label and a save in flight are of the batch on the screen or
  of the call, unless `displaced` (`InPlace`); what is being saved was not stored before,
  unless reported as failed, and is not in the form for another save (`SavedOnce`); and
  while handlers follow one another the screen is at most the change behind that the
  running handler still has to read (`OneBehind`). Of the list of users: handlers in
  flight together are toggles of different users (`Apart`), what each carries is the
  server's row (`Carries`), and a row that differs is of a handler that has not answered
  (`Behind`). `Heals` is the way out of the exceptions: a handler that was alone when it
  read the list, and since, shows the server's, whatever was on the screen before. That no
  user disappears from the list, and only users are handled (`NobodyGone`, `Within`), is what both rest on.

- `CatalogProofs`. What the list on the screen lacks, a handler is about to bring: one
  whose list is still to be read, or one that holds a list read after the one shown
  (`UpToDate` of `shown` and `fresh`); and the same of every such list and those read after
  it (`newer`), so that showing one leaves the invariant true of what is then newer. It
  needs that `newer` is a strict order closed under what was read later (`ReadInOrder`).

Only model-checked: liveness (`RequestsAreAnswered`), which the prover does not handle.
Every other property of a passing run is a theorem. `ReconcileSpec` and
`MeasuredForGood` of `Receiving` are theorems and in no run, for their cost. The proofs
are about the modules as they stand: what they say of the code rests on the modules
being faithful, and section 2 says where they abstract.

## 5. Where the code and its documentation disagree

Each has a run whose counterexample shows it.

1. `frozen_batch`: `docs/batches.md:200` says packages change only while `PENDING`. A
   request that passed its status check before the confirmation writes after it. What
   does hold is `FreezeHoldsOnceDrained`.
2. `retry_duplicates`: `docs/batches.md:239` says retrying never duplicates a receipt.
   A retry that overlaps the first request does. What does hold is
   `NoDuplicateReceipt`: one after the other they do not, even after a failure at any
   step.
3. `document_overwritten`: `batches.service.ts:714` says a recorded date or number is
   never overwritten. It is, when two lines of one receipt are confirmed together.
   For receipts of one triple it is not (`OneTripleDocumentKept`).
4. `trail_gross`: `docs/packaging-types.md:77` says history is never silently
   overwritten. A correction of the packaging type writes the gross weight it had
   read. For the other columns the trail is right, but for the order of two corrections
   (`TrailExplainsUnit`, below).
5. `status_of_balance`: `docs/discrepancies.md:89` says `SETTLED` means that nothing
   remains. An entry rounded up to the whole remainder leaves a discrepancy
   `PARTIALLY_SETTLED` for ever. For whole grams the table holds
   (`StatusExactInGrams`).

Two smaller ones of the same kind as the last, visible in how properties are
stated: a gross weight less than half a gram above the tare is accepted and stored
with net weight 0 (`NetIsGrossMinusTare`), and a stored difference can be a gram
more than that of the stored weights (`DiscrepancyOfTheConfirmation`), or 0.

Met while modelling and granted to the code by a history variable:

- Two corrections of one column can insert their rows in one order and update the unit
  in the other: the newest row of the trail then says what the unit no longer is
  (`crossed` of `Packages`), until the column is corrected again.
- Two administrators who deactivate each other at the same time both pass the check
  and none is left, although `users.service.ts` says that there must never be none
  (`overtaken`). So does one update that read its account before another made it an
  administrator.
- A change of roles alone that meets another one of the same user leaves the roles of
  both, ADMIN next to others (`unlocked`).
- A profile update that read its account before a reset writes its password after it;
  the older sessions stay ended all the same (`earned`).
- An answer to a correction or a void puts its batch back on the screen under a draft
  or a label of another one (`displaced`); handlers that overlap leave an older reading
  on the screen (`overlapped`, `mixed`, `older`); a stored save whose refresh fails is
  reported as failed and is repeated (`doubtful`, `misled`).
- A session load that a login or logout has overtaken, and one that fails, replaces the
  user; so may a login or logout whose answer is lost leave the old one (`crossed` of
  `SessionClient`, until the next answer that nothing overtook).
- A confirmed batch may hold packages written after its weighing (`drifted`); a document
  may refer to what was retired after its checks began (`lapsed`), or get back the category
  another request moved it from (`moved`).

And without a model: the register of discrepancies opens with the filter `OPEN`, which
hides partially settled ones, although its comment says that unresolved ones stay
visible (`discrepancy-list.ts`); the profile page refuses passwords of fewer than 8
characters with a message that says 6, as the contract does.

## 6. Not modelled, and the plan

Left out: the pages of one partner and one resource, which replace one row by the
answer to one request; registers and lists that only read; the creation of a delivery on
the receiving page (`Deliveries` has its request); the scanner; navigation, layout and
shared controls; validation pipes and wiring; seeding scripts other than
`bootstrap-admin`. Formatting and parsing of texts are left out wherever no property
is about them.

To add next, in this order:

1. The composition of a screen with the steps of its service, in place of the one step
   it takes now, and the proof that the service's steps implement that one.
2. Liveness of the screens, which needs a smaller instance than the run has.
