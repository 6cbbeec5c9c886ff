# Bullion Ledger: formal model

TLA+ modules, TLC configurations and TLAPS proofs for Bullion Ledger, a
self-hosted ledger of physical precious metals. The code is a TypeScript
monorepo: a NestJS API on Postgres through Prisma (`apps/api`), a BullMQ worker
on Redis that collects prices (also `apps/api`), shared arithmetic
(`packages/shared`), object storage (MinIO) for photos, and a React client
(`apps/web`). The modules below are translated from that source.
`PROJECT.json` gives, for every definition that models code, the lines it
stands for.

    cd tla
    tlc -workers 2 -config HoldingLedger.cfg MCHoldingLedger
    tlapm LedgerProofs.tla

Paths in this file are relative to `src/apps/api/src/` unless they start with
`src/`; `web/` is `src/apps/web/src/`.

## 1. Inventory

What each part keeps, what it does, what is hard about it and what makes it
correct.

| Component | State | Operations | Hard behaviour | Correct when |
|---|---|---|---|---|
| **Holding ledger** `movements/`, `assets/`, `purchases.update` | `Asset` (remaining quantity, weight, cost, status, place, version), `AssetMovement`, audit rows | sell, gift out, mark lost or damaged, transfer, receive a gift, edit, correct the currency of a purchase | reads without a lock before an `UPDATE ... WHERE version`; a correction that locks several rows in turn; rounding of partial disposals | balances equal what movements and edits account for; a lot is gone exactly when empty; booked results carry the lot's currency |
| **Purchase creation** `purchases/`, `purchase-intakes/` | `PurchaseIntake` (status, version), `Purchase` (idempotency key, request hash, source intake) | save, cancel and finalize a draft; create directly; replay | retried and concurrent finalizations; cancel and save racing them; unlocked lookups | one purchase per draft; the right answer for each key; terminal drafts stay terminal |
| **Attachments** `attachments/` | `Attachment`, derivatives, objects in MinIO, covers | upload, add a derivative, review, delete; the same for a lot; filing by finalization | an object is put before its row exists; quotas checked before the lock; row versions; two covers | nothing escapes finalization, nothing unreviewed is filed, quota respected, files keep their objects |
| **Purchase price snapshots** `market-prices/purchase-snapshot.service.ts`, `jobs/` | one snapshot per purchase and metal; jobs in Redis | capture, queue, retry, reconcile, delete by a currency correction | provider calls between reading the purchase and writing the snapshot; deduplicated job ids; bounded reconciliation | a snapshot is in its purchase's currency; every purchase that can be priced is |
| **Market prices and providers** `market-prices/`, `price-providers/`, `scheduler.main.ts` | quotes per metal and time, FX rates, provider status, the schedule | sync, manual correction, backfill, fallback | two tasks storing one day; a worker that stops half way; quotes dated ahead | one price per time, changed by hand only; a backfill fills its days |
| **Allocation and money** `src/packages/shared/src/`, `purchases/purchase-domain.ts` | none | split a cost over lines and units | rounding | parts add up to the total |
| **Dashboard and chart** `dashboard/`, `market-prices/market-markers.service.ts` | none | valuation, premiums, markers, cost lines | parts read by separate statements; several currencies | no figure mixes currencies; sums are of what they name |
| **Accounts and sessions** `auth/` | the one user, sessions, step-up marks, in-memory throttle | initialize, login, logout, change password or name, step-up | two first runs; a step-up spent twice; reservations of the throttle; a restart | one account; a step-up is used once; a revoked session stays revoked; attempts are bounded |
| **Passkeys** `webauthn/` | challenges, credentials | register, verify, remove | one challenge verified twice; the last way in | a challenge is used once |
| **Catalog** `products/`, `organizations/` | versioned product definitions, organizations | edit, archive; create and search organizations | a form filled from an older version; answers of the search out of order | an edit rewrites nothing it did not show; one organization per name |
| **Backup** `backup/` | an archive of rows and objects | export, inspect, restore | rows and objects are two stores; foreign keys; others write meanwhile | an archive is one moment; a restore is all or nothing |
| **Web drafts** `web/purchase-wizard/`, `web/screens/Purchase.tsx` | a local and a server draft, a queue of saves, uploads | autosave, upload, finalize, recover | answers lost or late, two pages, a closed page; photo work that ends after other edits | the pages tell the truth about what is saved, and catch up; a stored draft can be read |
| **Web screens** `web/screens/`, `web/App.tsx` | forms filled from cached lists, dialogs, the browser's history | edit a holding and its files, dispose, pick values, navigate | a list reloaded under an open form; requests that outlive their page | what is sent is what was shown, once; the address names what is shown |
| Reference data | dealers, metals | search | answers of older texts | a list chooses what it shows |
| Audit, storage client, HTTP shell, health | none of their own, or append-only | inserts, I/O | none beyond their callers' | (their effects appear in the callers' modules) |

How they interact. Calls reach Postgres only through the services; each service
method runs at most one interactive transaction at READ COMMITTED (the export of
a backup at REPEATABLE READ). The shared rows couple the components:
`purchases.create` produces the lots the ledger lives on and files the
attachments of the draft; `purchases.update` rewrites lots, movements and
snapshots together; the worker reads purchases and writes snapshots and prices.
Only three things leave the transaction: objects in MinIO (put before, removed
after), jobs in Redis (queued after the commit), and the answer to the client,
which may be lost. The client keeps rows it fetched in a query cache that is
loaded again at any moment, and its requests go on when the page that sent them
is left.

The hazards are listed, each at its line with the properties that cover it, in
`PROJECT.json`.

## 2. The modules

### Holding ledger

| Module | What it is |
|---|---|
| `LedgerRows` | The rows and the arithmetic on them: what a disposal, transfer, edit, gift and correction write. |
| `AtomicLedger` | What the ledger promises: each operation one indivisible step on current rows. |
| `HoldingLedger` | What the code does: concurrent calls, statement by statement. |
| `MCHoldingLedger` | Instances for TLC. |
| `LedgerProofs` | Theorems about `HoldingLedger`, and about `Backup`, the archives of the ledger. |

*State.* `asset`, `movement`, `edit` and `purchaseCurrency`
are committed rows of the tables of the same names (`edit` is the audit row of
`AssetsService.update`). `lotLock` and `purchaseLock` are Postgres row locks.
`pc` and `plan` are a call's progress and local variables. Figures are natural
numbers: the unit of the code's last decimal place. Movements are indexed by the
call that inserts them, since a call inserts at most one.

*Actions.* A lot call has three steps: the unlocked read with its checks
(`ReadForDisposal`, `ReadForTransfer`, `ReadForEdit`); the guarded
`updateMany`, which waits for the row lock and matches id and version
(`GuardedUpdate`, or `ConflictAtUpdate` for a 409); and the rest with the commit
(`CommitDisposal`, `CommitTransfer`, `CommitEdit`). A gift is one step, as it
inserts rows nobody else can name (`ReceiveGift`). A currency correction reads
the purchase without a lock (`ReadForRelabel`), writes it by id
(`WritePurchase`), locks its lots in any order (`RelabelLot`), selects the
booked movements (`RelabelMovements`) and commits (`CommitRelabel`); the price
snapshot it deletes is in `PurchaseSnapshots`, with the worker that writes it. `Abandon`
is every thrown check, lost connection and transaction timeout. Statements that
cannot meet another call (inserts of movement and audit rows) belong to the
commit; that is all the atomicity assumed.

The share of weight and cost a partial disposal takes is *any* natural number
nearest to the exact share (`Nearest`), so the results do not depend on the
rounding mode; the rest stays by subtraction, as in `splitForDisposal`.

### Drafts, purchases and their files

`PurchaseIntake` is one module because the three services meet on one row lock,
that of the `PurchaseIntake` row. `MCPurchaseIntake` instantiates it,
`PurchaseIntakeProofs` has its theorems.

*State.* `intake`, `purchase` and `file` are committed rows, `object` the
originals in MinIO, `intakeLock` the row lock that `tryLockDraftIntake` takes.
`result` is what a call did or was answered, a history the properties read.

*Actions.* A finalization is split at each statement that reads what others
write: the read of the draft (`ReadForFinalize`), the replay lookup
(`Lookup`, `Replay`), the draft lock (`LockIntake`, `LoseIntake`), the second
lookup, the insert, which waits for a competing uncommitted row of the same
unique index (`InsertPurchase`, `LoseInsert`), the files it reads and accepts
(`Reassign`) and the commit (`CommitPurchase`). Saves and cancels are an
unlocked read, then one conditional `updateMany`. An upload is the unlocked read,
the put of the object (`PutObject`), its transaction (`InsertFile`,
`LoseUpload`, `FailUpload`) and the removal of the object when the transaction
failed or seemed to (`RemoveOrphan`). A review, a derivative and a delete are an
unlocked read and a transaction that does everything under the draft's lock
(`Review`, `UploadVariant`, `SoftDelete`); such a transaction is one step, taken
when the lock is free.

Details abstracted: `confirmed` stands for the processing status READY, which is
set exactly together with `userConfirmed`; a body and an upload are what their
hash distinguishes; every stored object has size one. An insert that collides
on the draft rather than the key (purchases.service.ts:495-501) is not an
action: `FinalizationOwnsItsDraft` shows that no other purchase of the draft can
exist, or be under way, once the draft is locked.

### Purchase-time price snapshots

`PurchaseSnapshots` has the worker, its queue and what the API does to both;
`MCPurchaseSnapshots` instantiates it, `PurchaseSnapshotsProofs` has its theorems.

*State.* `currency` and `snapshot` are columns of `Purchase` and
`PurchasePriceSnapshot`; of a snapshot's figures only the currency and the FX
rate they were computed with are kept, the rates being numbered in the order they
were stored. `quote` is the currency of the spot row `priceAt` finds, `job` the
BullMQ job of each purchase, `capture` and `batch` what each worker slot is
doing, `requests` the window between an API commit and `queue.add`. Purchases
are numbers ordered like `purchasedAt`.

*Actions.* A capture is the reads at its start (`Reading`, taken by a job in
`TakeJob` or by a pass in `ReconcileNext`), one step per metal (`CaptureMetal`)
and its end (`FinishCapture`). The quote is read in the step that writes the
snapshot: a quote that arrives in between is one that arrived just after. A
correction is its unlocked read and its commit; the row locks it takes on the
way are `HoldingLedger`'s subject. `LoseRequest`, `CaptureThrows` and
`WorkerDies` are the failures, `ForgetJob` the trimming of finished jobs.
`outdated` is a history bit: the purchase was corrected after the capture read it.

### The files of a lot

`LotFiles` is the server side, `HoldingEditor` the page that saves them.
`file`, `variant` and `object` are the rows and the bucket; a request in a slot
goes through `Checked` (the unlocked checks), the put, the statement that clears
covers, the one that sets one, and the commit. Unlike the handlers of a draft
these lock nothing first, and so two covers, or one file too many, can result
from the races `LotFilesAreSound` names, and from nothing else. `HoldingEditor`
sends the requests of a save one by one, in the order of `AssetEditWizard`'s
mutation; the picks are photos (a document that is a PDF goes without the request for
a variant, and is not modelled); each request may fail before or after it was applied,
the list may be fetched again, and the save may be pressed again. `HoldingEditorProofs` has the theorems
about both.

### Market prices

`MarketPrices` has the tasks of the worker and the API (syncs of spot and FX
quotes, backfills, manual entries), the providers' fallback with its status rows,
and the schedule; time is counted in days. `PriceBook` is the abstract book the
quotes implement: an entry, once published, is changed by hand only. Its `book`
is mapped to the rows of `quote` that exist. A backfill asks for the days that
had no price when it looked, as `missingRanges`: the maximal runs of such days,
kept as a set and fetched one by one from the first day on (`NextRanges`); a run
longer than a provider serves is refused (`RefuseRange`). `MCMarketPrices` instantiates the module
beside a small `HoldingLedger`,
`MarketPricesProofs` has its theorems.

### Accounts

`Accounts` has the callers of every `auth/` and `webauthn/` handler, split at
their statements; `LoginThrottle` the in-memory store of the throttle as
operators; `SingleUse` the abstract promise that a token is redeemed at most
once. It is instantiated for challenges and for step-up verifications, whose
uses `Accounts` counts in a history variable. The store is a function from the
keys it holds to their records; a JavaScript `Map` also remembers the order in
which keys were set, which decides what is evicted when it is full, and so each
record has the keys that are `older` than it. Hashing and signatures match or do
not. `AccountsProofs` has the theorems.

### Catalogue and organizations

`ProductEditing` has one product, the wizard that edits it and other clients;
`OrganizationSearch` has creation under its advisory lock, the ranked search and
the combobox with its debounce and requests in flight. `Measures` rounds as
decimal.js is told to. The theorem about products is in `ScreensProofs`, with those
of the client's other forms.

### Figures

`Portfolio` has the arithmetic from a purchase's costs (`allocateCosts` with its
methods and its largest remainder) to the Dashboard and the chart of purchases,
and the reader that collects the Dashboard's parts by separate statements while
the ledger moves. The chart converts what it draws by the one rate it has, and averages a
metal's cost by weight.

### Backups

`Backup` has the rows of the tables that refer to each other, the bucket, one
export or restore at a time, statement by statement, other writers and the
page's restore panel. `Refs` gives each row the rows it refers to; what a
foreign key does when its target goes (`Cascade`, `Restrict`, `SetNull`) is in
the module. A job remembers the places of the tables it has yet to read, empty or
fill; tables no row of the instance is in are passed over. The ghost `lost` has
the files nobody can expect: those storage lost or refused, and those an archive
was made without. A later put brings one back only if no archive lacks it, as
restoring that archive leaves the row without its object again. The theorems
stand with the ledger's in `LedgerProofs`.

### The client

| Module | What it is |
|---|---|
| `PurchaseClient` | The pages of the purchase wizard on one or two browsers: the lists each window keeps, autosave, queue, uploads, finalization, recovery. |
| `WizardDraft` | The draft itself: edits, limits, the parser of the stored copy, photo work that ends late, validation, the loop of a refused purchase. |
| `HoldingForm` | The form of a holding: filled once, compared with the reloaded list, and the two updates it sends. |
| `DisposalDialog` | The dialog that sells or writes off a lot, against the server that books it. |
| `PurchaseClientProofs` | Theorems about the wizard's pages. |
| `ScreensProofs` | Theorems about `HoldingForm` and `DisposalDialog`, and about `ProductEditing`. |
| `Pickers` | The lists values are picked with, and the dealer combobox with its search. |
| `AccountPages` | Who a window takes to be logged in; the first-run, login and settings pages against the account, its passkeys and its sessions. |
| `Navigation` | The browser history the shell, the inventory, the catalogue and the wizard write, and answers for pages that were left. |

`AccountPages` has the shell's gate (`Showing`, in the order of `App`'s returns),
the cards of the settings and the requests they make, one after another (`todo`);
a request carries the cookie of the moment it is sent, is served later and heard
later still, by a window that may have moved on. The queries for the init status,
the session and the passkeys are calls too: an invalidation asks again, and the
answer it ignores is still heard if it is a 401. Of a window's history it keeps
by what, and of which session, its account pages last ended (`endedBy`,
`endedSid`), for the properties.

A window of `PurchaseClient` has react-query's cache: the list of drafts (`listCache`) and the
lookups of single ones (`exactCache`). Data a window has is shown whatever its age to a wizard
that is mounted, and fetched again behind it (`Load`, `Refresh`; `main.tsx`), so a wizard may
open on an older copy than the server's; a wizard that is done takes its draft out (`Evicted`),
and the cache goes with its window (`WindowEnds`).

In `WizardDraft` a 409 for an outdated product frees the form first and leads back to the items
only when the catalogue was fetched again, or could not be (`Conflict`, `Refresh`): the draft may
be edited in between. The ghost `shown` is what the costs step last showed.

A request is one step in `PurchaseClient`, with a failure before or after the
server acted, and sent, served and answered separately in `DisposalDialog`,
where the order matters. The ghosts `by` of a draft, a purchase and a file in
`PurchaseClient` name the page that wrote, booked or deleted it; only the
properties read them. React's rule that a component and its state survive a
render, and are dropped with their key, is in the operators that say what is
`mounted` or `RenderedAs`.

### Composition

Components that share rows are one module (`PurchaseIntake`, `HoldingLedger`,
`PurchaseSnapshots`) or extend each other (`HoldingEditor` extends `LotFiles`,
`Accounts` extends `LoginThrottle`). Five modules check several independent
components in one run: `MCAccountsCatalogue` (accounts and product editing),
`MCLedgerScreens` (backups, figures, disposals, forms), `MCHoldingEditor` (a
lot's files with their editor, and navigation), `MCMarketPrices` (prices, and the calls of a
ledger) and `MCWizardDraft` (the draft,
the organizations, the lists and the account's pages). Their variable `about` says which one a
behaviour is about, and the others stay in one initial state, so the run explores
the union of their state spaces and not the product.

## 3. The runs

| Run | Configuration | Distinct states | Shows |
|---|---|---|---|
| `holding_ledger` | `HoldingLedger.cfg` | 74 000 | the inductive invariant, the accounting identity, the currency properties; movements match balances; lots that are gone stay as they are; `HoldingLedger` implements `AtomicLedger` |
| `purchase_intake` | `PurchaseIntake.cfg` | 1 078 000 | one purchase per draft, right answers, terminal drafts, versions; files and finalization, quota, replays of uploads |
| `purchase_snapshots` | `PurchaseSnapshots.cfg` | 1 470 000 | when a snapshot can go stale, what a completed job means |
| `snapshot_liveness` | `SnapshotLiveness.cfg` | 515 000 | what can be priced is priced, unless crowded out |
| `ledger_and_prices` | `MarketPrices.cfg` | 101 000 | every call that read its row is answered: no cycle of row locks; quotes are dated and kept as the code says; `MarketPrices` implements `PriceBook`; backfills run to the end |
| `holding_editor` | `HoldingEditor.cfg` | 286 000 | files of a lot, saves of the editor and their end; addresses and pages agree |
| `purchase_client` | `PurchaseClient.cfg` | 152 000 | pages tell the truth about drafts and purchases, and catch up; what they open is the newest they are shown |
| `wizard_draft` | `WizardDraft.cfg` | 372 000 | a draft stays readable and whole, and the costs it last showed are posted; insisting on a refused purchase ends in one that matches the catalogue; organizations are created once; lists choose what they show; the login and the settings are shown for a reason, and with the user's own changes |
| `accounts_catalogue` | `AccountsCatalogue.cfg` | 1 001 000 | the account is guarded and what it may spend works once (`Accounts` implements `SingleUse`); an edit of a product rewrites nothing its form did not show |
| `ledger_screens` | `LedgerScreens.cfg` | 926 000 | archives, restores, figures, disposals as shown, exact edits |
| `purchase_currency_split` | `PurchaseCurrencySplit.cfg` | | a counterexample; see section 6 |
| `review_total` | `ReviewTotal.cfg` | | a counterexample; see section 6 |

*Bounds, and why they are enough.* The ledger runs have three calls, one
purchase of two lots and one gift. Two calls make a race, the third lets a
property compare a call with one that overtook another (two disposals and a
correction; a receipt, a sale and an edit). Two lots under one purchase are the
least for a correction to lock in turn and for siblings to disagree. Lots open
with a quantity of at most three and a weight and cost that does not divide by
it, so a partial disposal rounds, a second one empties the lot, and an edit can
change what the first one left. `KindInputs`, `EditInputs` and `GiftInputs`
bound the requests: a kind of disposal that books a result and one that books
none (a loss and a damage differ from a sale in the name of the status alone; the
run that checks liveness has two calls and a damage). Liveness is checked without
symmetry.

The intake run has three calls as well: two that race and one that takes
advantage of it. A desk has two drafts and two keys, which may be used for the
wrong draft or with another body, or one draft with a file awaiting its
derivative, its review, or neither, one upload key used for two contents, and a
quota one upload short of what the calls can store. Deadlock is checked in the
runs of the ledger, the drafts and the snapshots: `Idle` allows a behaviour to
rest only when every call has been answered. In the others a user or a bound may
stop at any time, and their configurations say so.

The snapshot runs have one purchase of two metals, two workers and two
corrections where the currency matters, or an older and a newer purchase and a
pass of one where the order does; one failure of any kind; two attempts per job
instead of eight; one or two FX rates. The constants 25 and 500 of
`pendingPurchaseIds` become `BatchLimit` and `Window`: the question is whether
the purchases in front fill the pass, and one in front of a pass of one does. The
third currency is one nothing is quoted in or converted to.

The other runs bound what one behaviour may do by a record drawn at the start
(`Worlds`, `Desks`, `Trials`, `Folios`, `Mixes`, `Efforts`, `Scenarios`,
`Itineraries`, `Visits`), so that a behaviour has enough of one kind of event for the
races of its kind without having all kinds at once: two requests and one
failure or restart in `Accounts`; two days of syncs and a backfill longer than a
provider serves in `MarketPrices`; two restores in `Backup`; three items, whose
shares do not divide, in `Portfolio`; two tabs in `DisposalDialog` and
`HoldingForm`; four pages in three windows of two browsers in `PurchaseClient`, which open in the
order of `budget.pages`; drafts one short
of their limits in `WizardDraft`; two presses in two windows of one browser or of two, in
`AccountPages`; seven moves of the user in `Navigation`. Each
configuration states its own at its head.

*Fairness.* `ledger_and_prices` assumes, of the ledger, weak fairness of
`Progress(r)`, i.e. the database eventually runs a statement whose lock is free,
which is what Postgres and the request handlers do. A call is not obliged to
start, and no failure is obliged to happen: `Abandon` is not fair, so the
property does not rest on the transaction timeout breaking a deadlock. The
snapshot runs assume weak fairness of `WorkerStep(w)`: a worker goes on with its
job or pass, and the scheduled syncs keep coming and now and then succeed, which
`installSchedule` and the worker's restart policy provide. Requests, quotes and
corrections are not obliged to happen, and failures are bounded by `MaxFaults`: a
worker that dies in every pass prices nothing. `ledger_and_prices` assumes the same of the
price tasks; `holding_editor` that a request sent is served or fails and that the page
sends the next one; `purchase_client` that a page's timers and answers come;
`wizard_draft` that a user who was refused insists. A stalled job is taken over by
another worker only when its own is dead (`WorkerDies`): BullMQ also takes one from a
worker that lives but lost its lock, which `JobsAreHeld` does not cover.

*What can break them.* For each property of each passing run `PROJECT.json`
names changes of modelled definitions that a plausible bug would make (the
comments call these operators "Fault"): a version missing from a `WHERE`, a lock
replaced by a status check, a share rounded twice, a version not bumped, an
answer applied to the wrong text. TLC finds the property violated under each.

## 4. The proofs

Every theorem holds for any value of the constants under the assumptions below:
any number of calls, lots, drafts, files, workers, sessions or pages, any inputs
and limits. A run shows the same property on its small instance.

| Theorem | Module | Says |
|---|---|---|
| `LedgerInvariance` | `LedgerProofs` | `Spec => []LedgerInv` |
| `TypeCorrectness` | | `[]TypeOK`; no balance is ever negative |
| `DisposalsExplained` | | `[]DisposedLotsAreExplained` |
| `BookedCurrencySafe` | | `[]BookedCurrencyFollowsLot` |
| `SiblingCurrencySafe` | | `[]SiblingLotsShareCurrency` |
| `NothingIsLostOrCountedTwice` | | `[]FiguresAccountedFor`: a sum over all calls |
| `CostsAreDivided` | | `FolioSpec => []CostsReachTheLots` |
| `FiguresAlwaysCompare` | | `FolioSpec => []FiguresAreComparable` |
| `LedgerImplementsAtomic` | | `Spec => ImplementsAtomicLedger` |
| `DisposedFrozen`, `MovementsMatchBalances` | | the two action properties |
| `SnapshotInvariance` | `PurchaseSnapshotsProofs` | `Spec => []SnapshotInv` |
| `StaleOnlyByRaces`, `CompletedPriced` | | the two action properties of `purchase_snapshots` |
| `IntakesAreOwned` | `PurchaseIntakeProofs` | `Spec => []IntakeInv`: a finalization owns its draft from the lock to the commit |
| `DraftsAndPurchasesAgree` | | `[]IntakesAndPurchasesAgree` |
| `EveryEditHasItsNumber` | | `[]EditsAreNumbered` |
| `UploadsKeepTheirWord` | | `[]UploadsAnswerTruly`, the quota included |
| `TerminalDraftsStay`, `FilesAreFiledAsReviewed` | | the two action properties of `purchase_intake` |
| `PricesStaySound` | `MarketPricesProofs` | `MarketSpec => []PricesAreSound` |
| `PricesAreABook` | | `MarketSpec => ImplementsPriceBook` |
| `DoneBackfillsLeftNoGap` | | an action property no run lists: a backfill that completes leaves no day without a price, but those without one |
| `AccountStaysGuarded` | `AccountsProofs` | `Spec => []AccountIsGuarded` |
| `NothingEverWorksTwice` | | `Spec => NothingWorksTwice` |
| `BookedAsTheDialogShowed` | `ScreensProofs` | `DialogSpec => []DisposalsAreBookedAsShown` |
| `SavedAsTheFormShowed` | | `FormSpec => []EditsAreExact` |
| `EditedAsTheWizardShowed` | | `ProductSpec => []ProductsAreEditedSoundly` |
| `BackupIsInOrder` | `LedgerProofs` | `BackupSpec => []BackupIInv` |
| `BackupsKeepArchivesWhole` | | `[]ArchivesAreWhole` |
| `RestoresReplaceLedgers` | | `BackupSpec => RestoresReplaceTheLedger` |
| `EditorIsInOrder` | `HoldingEditorProofs` | `Spec => []EditorIInv` |
| `LotFilesStaySound` | | `[]LotFilesAreSound` |
| `ReviewsOverwriteNothingUnseen` | | `Spec => ReviewsReplaceWhatWasSeen`, a part of `SavesEndAndOverwriteNothing` |
| `SavesDoAsShown` | | `[]SavesDoWhatTheFormShows` |
| `PagesAlwaysTellTheTruth` | `PurchaseClientProofs` | `Spec => []PagesTellTheTruth` |
| `NewestCopiesOpen` | | `Spec => NewestCopyOpens`, a part of `PagesCatchUp` |
| `CompletedDraftsAlwaysStayAway` | | `Spec => CompletedDraftsStayAway`, another part |

*Assumptions.* They are named, stand beside the constants they are about, and
TLC evaluates each in the runs of its module.

- `RowsAssumption` (`LedgerRows`), `LedgerAssumption` (`HoldingLedger`): the
  sentinel values are not rows, a purchase's lots open held, non-empty and in
  one currency (what `purchases.create` writes), inputs are what the request
  validation lets through. `FiniteRequests`: a behaviour has finitely many calls,
  which a sum over them needs.
- `FolioAssumption` (`Portfolio`): no amount and no price is negative, no purity
  above one, every line has a quantity (what the DTOs' patterns and `Min(1)` let
  through); the units' factors and the scales are positive, and some price is
  possible.
- `SnapshotAssumption` (`PurchaseSnapshots`): every purchase has a metal and
  there is at least one attempt; the limits are numbers.
- `IntakeAssumption`, `IdentifiersDiffer`, `RowsAreNotMissing`,
  `ResultsAreNotMissing` (`PurchaseIntake`): finitely many calls and earlier
  files; the latter belong to drafts, and a photo that is confirmed has its
  derivatives (what review requires); identifiers of different tables differ.
- `MarketAssumption`, `SomeoneProvides`, `EnteredIsDated` (`MarketPrices`): the
  scheduler queues backfills that end by now and are not longer than the history
  limit; each capability has an adapter; a manual price has a date and a source
  the controller lets through.
- `ThrottleAssumption` (`LoginThrottle`), `AccountsAssumption` (`Accounts`): the
  limits are positive, requests are finitely many, every bucket is a key.
- `LotFilesAssumption`, `NoCallIsNoCall` (`LotFiles`), `OthersAreClients`
  (`HoldingEditor`): finitely many requests and files, a lot opens within its
  limit and with its own files, the sentinels are no rows, an upload's key is not
  a file's id and "as is" is no caption; other clients send requests the controller
  lets through, for files that may exist.
- `DisposalDialogAssumption`, `HoldingFormAssumption`: lots open non-empty, a
  purchase's in one currency, numbers typed are not negative (the fields accept
  no other), the units' factors are positive and that of a gram is one.
- `UnitsAreApart`, `ProductAssumption` (`ProductEditing`): there are finitely many
  units, a gram's factor is one, the others are three grams or more and four times
  apart, as the code's are (3.75, 31.1034768 and 1000 grams); products open with a
  brand that agrees with their parties (what `ProductsService.create` writes).
- `RowsFitTheSchema`, `BackupAssumption` (`Backup`): every row is of a model of
  the schema and refers to what its foreign keys allow, a session to an account; the
  challenge of a login refers to none;
  a deployment starts with all its rows refer to; an older archive lacks nothing
  its rows refer to but drafts, and has the files it lists. The tables and the
  keys are the code's own lists, not parameters.
- `PurchaseClientAssumption` (`PurchaseClient`): a page runs in one of the browsers,
  PDFs are files, the sentinels are no rows. How many pages, drafts, files, edits,
  faults and submissions there are is not limited.

### The ledger

None of the named properties is inductive: each speaks of committed rows, and a
step from an outdated read could break it. What carries them is that a read is
still current when it is used.

- `VersionIdentifiesRow`: if a lot's version is the one a call read, the whole
  row is the one it read. It is inductive because *every* writer of the row
  increments the version, the corrections of `purchases.update` included
  (purchases.service.ts:171); this is the line that makes an optimistic `UPDATE`
  as good as a lock taken at the read, and the mutant that leaves the increment
  out breaks `BookedCurrencyFollowsLot`.
- `LocksAreHeld`: from its `UPDATE` to its end a call holds its rows, so the row
  read is also the row at the commit.
- `PlansFollowRows`: what a call is about to write follows from that row.
- `BookingsAreSeen`: once a correction holds every lot of its purchase, the
  movements it selected are all there are, as a disposal needs a lot's lock to
  book one. The order of the two `updateMany` statements matters here.

With these, each commit is a step of `AtomicLedger` on current rows
(`LedgerImplementsAtomic`, with the tables mapped to themselves), every other
step a stutter, and the two action properties follow from the atomic steps.
The lemmas about the arithmetic come first: a split adds up to the balance, and
leaves nothing exactly when everything is taken.

`FiguresAccountedFor` sums what every call moved. `Moved` is that sum as a value,
and `Balanced` the property written with it; the induction over the subsets of a
finite set that gives `Total` its laws (`SubsetInduction`) comes from the
well-foundedness of their strict order, in the library's form that speaks of sets
and not of operators. `MovedShift` says that a total changes as the one flow that
changed, which is how a commit changes it: its call had moved nothing before
(`RowsAreBackedUp`), and what it moves is what the row gains (`SplitsAddUp`, the
audit row of an edit, the receipt of a gift). `FoldedFlows` shows that the fold of
`FiguresAccountedFor` is this total.

### Costs and figures

A purchase is only ever added, and a lot keeps its cost when it is sold, so what
`CostsReachTheLots` says of one purchase is inductive once it holds of
`computePurchase`. The sums it compares are folds; `SumIs` shows that a fold is a
`SumOver`, with laws by induction on the subsets of a finite set, and the lemmas
on sums of sums (`SumsCombine`), of naturals and of ones (`SumsCount`,
`SumsBound`) follow. `FairSplit` is the claim about `largestRemainderSplit`: what
the floors leave over is what the remainders come to, a number of units below
the number of items with one, so each unit goes to an item that has a remainder.
That needs the places in the order of the remainders to be distinct, of which
`PlacesAreDistinct` makes sure: the order is strict, ties going by position.
`EvenRounding` says what half-even rounding differs from its quotient by, and
`FineIsWithin` that no purity makes a line finer than its weight.

The Dashboard's statements run one after the other, and what it answers is about
the lots of one moment and the prices of another. `FiguresIInv` says that what was
read is a finite set of lots and that an answer is made from what was read; the
rest is about any such set. A sum is the sum of its parts (`SumByParts`, for any
key), so metals divide what currencies divide and the other way round
(`FieldsByMetal`, `CostsByMetal`), and so do a purchase's markers (`MarkersAddUp`).
`ValueIsNear` adds up the roundings, one for each metal. The average-cost line is a
mediant: `Reaches` says when half-even rounding comes to a number, and that is
closed under adding numerators and denominators (`MediantsReach`), whichever way
the ties go; so the average, rounded, cannot leave the range of the rounded costs
per gram (`AverageLiesBetween`).
That the average is the weighted one is the rounding of one quotient.

### The snapshot worker

`SnapshotInv` has two parts that matter. `JobsAreHeld` says that a job is active
exactly while one worker captures its purchase for it: only so is the worker
whose job completes the one that went through the metals. `CapturesKeepUp` says
that a capture no correction has overtaken holds the purchase's present currency
and has stored, skipped or yet to do each metal. It survives the other workers
because a capture only ever adds or replaces snapshots, and the corrections
because the one that drops them marks it. Each action property then is one action
(`CaptureMetal` or `CommitUpdate`; `FinishCapture`) and the invariant before it.

### Drafts

The invariant is `IntakeIInv`: `IntakeInv` with the invariants the runs check.
Its heart is `FinalizationOwnsItsDraft`. The lookups before the lock say nothing
by the time they are used; what makes a purchase the only one of its draft is
that nobody else holds the lock, that the draft is open and that no purchase
names it, all of it from `tryLockDraftIntake` to the commit. The same holds of
the files: `Reassign` reads them inside the transaction, and every writer of a
file needs the lock. `EditsAreBehind` carries the numbering: an accepted edit
was made from a version the row has left, so a later one cannot be made from the
same. The quota needs the sum of what a draft retains to grow by the file that
was just counted and nothing else, hence the lemmas about cardinalities
(`NoMoreRetained`, `OneMoreRetained`).

Some thirty actions have a few shapes. `Moves` goes on to another stage and
writes nothing others read, `Ends` answers, `Rewrites` changes one file under the
draft's lock; the saves, the lock, the commit and the insert of a file are their
own. `StepShapes` puts each action into its shape once, and each shape keeps the
invariant once.

### Prices

`PricesAreSound` is inductive. `missingRanges` turns the days without a price
into maximal runs; that the runs cover the days (`RunsCoverTheDays`) takes a
smallest first day for each, by well-foundedness of `<`. `GapsAreAccountedFor`
says where each missing day of a backfill is: stored meanwhile, in a run still to
be fetched, fetched and being stored, or without a price; when nothing is left to
fetch the days without a price are those that have none
(`DoneBackfillsLeftNoGap`). It needs `BackfillsAreHeldOnce`, as a second worker on
the same job would complete it. `ScheduleIsAccountedFor` says what Redis holds
while a schedule is installed, so that a scheduler that stopped half way and
starts again still ends with one cadence per job. `PriceBook` is implemented
because a task stores only where nothing is stored (`skipDuplicates` and the
unique key) and only the manual correction replaces a row.

### Accounts

Most of the requests' steps leave most of what is promised alone. A step is
`Quiet` when the request keeps clear of the lock of initialization, of the
buckets, of other sessions and of claims; the quiet ones keep everything at once
(`QuietSteps`). For each other step `Steps` says which of the four subjects it
leaves alone (`InitFrame`, `SeenFrame`, `ProofFrame`, `ThrottleFrame`), and it is
treated under the rest, mostly one.

- *One account:* under the advisory lock there is one caller, and it creates
  when it looked again and found none (`InitializationIsAlone`).
- *The throttle:* a clean-up deletes buckets or eases them, and never ends a
  lockout but in a store full of them (`RoomIsMade`, `CreatedIsSound`). What the
  store holds as reserved is held by as many attempts under way (`Covered`), so
  nobody is held off by an attempt that ended; and a bucket's failures and
  reservations together stay within the limit (`Sound`), for any number of
  parallel attempts and whatever is evicted meanwhile.
- *Sessions:* a change of password sees the sessions that live when it writes the
  password and ends them with its next statement; a session that ended never
  slides forward again, although a request may have read it before.
- *Challenges and step-ups:* `ProofsAreInOnePlace` follows a challenge from the
  claim to the request that bears it, to the one session it elevates, to its one
  use. `SingleUse` is implemented because each next place is empty before and
  left after.

### The two forms

Both show a row of a list that is loaded again at any moment, and both send the
version of the row they compared with. The invariants (`DialogIInv`, `FormIInv`,
at the end of their modules) say that a version names one content of a lot: a row
in a list, a form or a request is the lot's own for as long as the versions agree
(`Copied`, `Asked`, `Presents`). Each write increments the version, after which
the claim holds of nothing older (`OlderClaimsLapse`, `OlderRowsLapse`), so what
is accepted was made from what is stored. The rest is arithmetic: the preview
rounds halves up and the ledger halves to even, each to a neighbour of the same
quotient (`RoundingsAreNear`), and so they differ by one unit at most; and the
weight of a holding, shown per piece and stored as a total, comes back as it was
when neither number was touched.

### Products

The versions carry this proof as they do the forms': the list, the form and each
request have the row, or one it has left (`PageFollowsTheProduct`), and a checked
update that is still current was checked against the row it is written to
(`UpdatesAreSound`), which the check, a read of its own, does not give by itself. So
brand and parties change together (`PatchedRows`), and a save from a page that has
not fallen behind is a patch of the very row the form was filled with
(`WritesKeep`, `OwnChanges`).

The weight takes an invariant of its own, since a user may choose units back and
forth without end and each choice rounds what the last one showed. `Turned` says
what the weight shown still has to do with the weight stored: it follows a trail
of the units it was shown in, without those finer than a later one, and what was
shown in each. On a trail the roundings together come to a quarter of the last
digit of the unit they are seen from, as the factors are four apart
(`FinerIsLittle`, `CoarserIsMuch`). So coming back to a unit of the trail shows what
was shown there before (`TurnedBack`), and a unit that is new adds one rounding
(`TurnedOn`). Weights are compared as multiples of one common part of a gram's last
digit (`CommonDenominator`, by induction on the finite set of units). Hence
`TurnedIsRounded`: what is stored is off by one last digit of some unit at most,
however often the unit changed.

### Backups

`BackupIInv` (at the end of `Backup`) follows a job through its statements.
`CopyIsInOrder` says what the safety copy needs: the rows read so far are the
snapshot's, whatever is committed meanwhile, and every row there is now is in the
snapshot or was written since. A snapshot that satisfies the foreign keys makes an
archive that does, since nothing captured refers to a session.
`RestoreIsInOrder` says what a restore has left of the old rows (`deleting`) and
put in of the new ones (`creating`): each table's place in `TABLES` decides. While
there is an account nobody sets up another one, so when the sessions are gone no
row is left a session could belong to, and none is in the ledger at the commit; of the
challenges only one that belongs to nobody, a login's, can be.
`FilesAreStored` counts the objects a restore has yet to put.

What the proof needs of the list of tables is shown from the list itself:
each model but the sessions' has one place in it (`OnePlace`) and a row's table
comes after those of the rows it refers to (`DependencyOrder`). From the latter
no statement is refused while nobody else writes (`DeletionsAreAllowed`,
`InsertionsAreAllowed`), also for archives of older versions, once
`withoutUnrestorableIntakeLinks` has made them whole (`RestorableIsWhole`). A new
model that is put at the wrong place, or left out, breaks these lemmas.

The attempt to prove `RestoredFilesAreStored` showed that an earlier form of it was
false beyond the run's bounds: a photo that could not be read for an archive, put
back by another restore, is missing again after a restore of that archive on a
machine that lost its storage. The code cannot do better, the archive does not have
the photo; the ghost `lost` now says so, and the run has such a behaviour.

### The files of a lot

The handlers of a lot's files lock nothing before they write, so the invariant
(`FilesIInv`, at the end of `LotFiles`) says what each call knows at each step.

- `CoversAreChosenInTurn`: while no two calls that choose a cover overlap, one
  clears at a time, and the covers there are, are those it has seen or cleared and
  its own file. From this a lot has at most one cover (`OneCoverUnlessOverlapped`).
- `AdmittedFit`: the live files and the uploads that found room are together less
  than the limit and the number of calls. An insert takes the place its upload was
  admitted to, and only the look-up admits (`RoomIsRoom`, `AdmittedBecomesLive`);
  hence `LimitHoldsUpToRaces`, the bound the unlocked check (396) leaves.
- `CallsAreSound`, `UploadsAreApart`: what an upload has put is no file's yet and no
  other upload's, so the removal after a failed transaction never takes the object
  of a row that stays (`FilesKeepTheirObjects`).

The page's part (`EditorIInv`) is about versions, as with the ledger: a version of
a row names one caption, because every write of the row that changes the caption
increments it. A review that waits in a save's queue names a version; either the
row has left it, and the review is refused, or the caption it replaces is the
listed one (`IsOfTheListing`). The server writes a version between a variant and
the review that follows; it goes to a confirmation, which replaces no caption
(`VariantsAreConfirmed`).

`SavesDoAsShown` is about the end of a save, so its invariant (`SaveIInv`) says of
every moment before it that what the form shows is so already or is still to be
sent, for as long as nobody else has written to the lot (`~disturbed`).

- `FormHolds`, also while the form is edited: whatever attempts have failed, a listed
  photo has its listed caption or the shown one, and a cover that was not edited is
  as it was listed. A failed attempt leaves no trace but this, because only the
  photo's own review writes its caption, and the queue is made anew from the form.
- `SaveIsInOrder`: deletions and reviews of listed photos come first, with all
  uploads waiting behind them; then one pick after the other is uploaded, given its
  variant and confirmed. So no pick's cover is cleared by a listed photo's review.
- `SaveProgresses`: a removed photo that is still live has its deletion queued, a
  caption that differs has its review queued, a pick has its row or awaits it
  (`Awaited`, `HasRow`), and the one cover shown is set or on its way, each other
  cover being cleared on the way too (`CoverIsOnItsWay`). `KeysAreUnique` makes the
  upload that is repeated after a lost answer find the file it stored.
- `OwnCallSeesCovers`: alone, a call of the save that sets a cover has seen every
  other, so its transaction leaves no second one.

When nothing is left to send, `SaveProgresses` is the property. It needs
`CoversAreChosen`: the form shows one cover at most, or only covers it was listed
(of which overlapping calls may have left two).

### The pages of the wizard

`ClientIInv` (at the end of `PurchaseClient`) starts from what names a copy of a
draft: an edit stamps it, so two copies of one draft with one timestamp are the
same, wherever they are kept (`CopiesAreNamed`). Copies only travel between the
browser, the forms, the queues, the server and the lists of the windows, hence
`NewestCopiesOpen`: what a wizard leaves behind it is what its window's list lacked. An
answer that finds the draft on the server with the timestamp sent has found the
copy sent. `CacheIsSound` says that no list a window keeps has a draft that one of its pages
completed: it was taken out when the page was done, and a list fetched later has drafts that are
still open. A window that ends takes its pages with it, so nothing is asked of a cache that starts
anew. `CompletedDraftsAlwaysStayAway` follows.

`QueueIsSound` and `SaveIsSound` follow a page's saves. They are sent in the order
they were made, so when no timer runs the last that waits is of the form as it
is; when none waits either, the form is stored, or another page wrote the draft
since. A finalization waits in the same queue (its flush, then its own save) and
the form stays as it is until it ends. `PostIsSound` is about its uploads: the
files done so far are the draft's, but for those another page deleted, and a page
whose post acted never starts over from the uploads. Whatever a page does to its
own draft leaves what the other pages are told alone (`Serves`, `OthersStay`), so
each action is treated for the page that takes it.

The attempt to prove `AnswersAreForThisForm` showed that an earlier form of it was
false beyond the run's bounds: with two pages on one draft the second may delete a
photo between the first's review of it and the first's post, and the purchase the
first is told of lacks a photo its form shows. The server decides that, as it files
what is there at the commit, and the page cannot know. `files` now remembers who
deleted one (`by`), the property names the exception (`DeletedElsewhere`), and all
the rest of it is proved.

### Only model-checked

- Liveness: `CallsAreAnswered`, `PricedUnlessCrowdedOut`, `BackfillsRunToTheEnd`,
  `SavesEndAndOverwriteNothing`, `PagesCatchUp`, `InsistingBuysTheCatalogue`. The
  prover has no rules for fairness.
- Not attempted so far: `OrganizationSearch`, `WizardDraft`, `Pickers`,
  `Navigation`, `AccountPages`. `DraftsStayWhole` is the one worth proving next.

## 5. What is not modelled

- *Ledger:* legacy lots without a currency; the market valuation stored beside
  a movement, which nothing reads back; the creation of a purchase as a step of
  `HoldingLedger` (the lots it leaves are `Init`; the creation itself is in
  `PurchaseIntake`, its costs in `Portfolio`).
- *Drafts:* inserting a draft; saves write one payload, so only the version is
  kept. The lock on product definitions is the version check of `WizardDraft`.
- *Prices:* the history a chart asks for is a range read and left out; the
  providers' HTTP and their retries are external and answer or fail.
- *Attachments:* file signatures, range requests and response headers.
- *Accounts:* hashing, signatures and the cookie's attributes; what an attempt under way
  loses when its record is pruned or evicted from the throttle: `BurstsAreBounded` counts what
  the store counts.
- *Catalogue:* `ProductsService.create`, the listing's filter, the seeds.
- *Backup:* the archive format and its encryption, which are codecs; objects a
  restore leaves behind.
- *Client:* screens that render what they fetched and post one form (market,
  movements); image processing (a crop or a detection ends or
  fails); scrolling, focus and layout, except where `Pickers` needs the focus.
- *Audit, object storage client, HTTP shell:* their effects are in their
  callers' modules; the rest is pure I/O.

Bounds of the models themselves: in `Navigation` the load errors that unmount the
wizard are left out, and a product is always in the list; in `PurchaseClient` the
list and the exact read of a draft are one step, a lookup is not fetched again behind an open
wizard (one that finds the local draft completed then ends a wizard that shows another), and an
unused list is never dropped after five minutes; in `Backup` one export or
restore runs at a time; in `HoldingEditor` the two updates that end a save are
`HoldingForm`'s.

## 6. Where the code and its documents disagree

The first two items have runs with counterexamples. Most of the others are stated as
definitions at the end of their modules ("What the documents say and the code
does not do") and were found with TLC in the same way.

- *Currency of a purchase* (`purchase_currency_split`): `purchases.update`
  decides from its unlocked read whether the currency changes
  (purchases.service.ts:162), and writes the purchase by id in any case. Of two
  corrections that read the same row, one that repeats the stored currency with
  another field changed commits after the other: the purchase is back in the old
  currency, its lots are in the new one. README.md:432-436 says they "move
  together in one transaction". The lots still agree with each other and with
  their booked movements (proved).
- *Total on the review step* (`review_total`): `ReviewStep` totals the costs as the draft keeps
  them (web/purchase-wizard/steps.tsx:815), with a subtotal that is '0' from the start
  (web/purchase-wizard/model.ts:86) and, for a simple purchase, the charges left by a visit to
  the itemized view; what is posted is `resolveCosts` (model.ts:316). So the total the user
  confirms is not the one posted, although steps.tsx:791 says that previews show costs "as they
  will actually be submitted". `TheCostsShownArePosted` holds of the costs step.
- *Currency of a gift:* it is edited on the lot (assets.service.ts:166), and what
  its movements have booked stays under the old code, unlike
  movements.service.ts:389-390; for purchased lots the correction moves both.
- *Lost original:* an upload removes its object after *any* failure of its
  transaction (attachments.service.ts:346), also when the commit took effect and
  only the acknowledgement was lost: the row stays, its original is gone, though
  README.md:407-408 says originals are kept.
- *Stale snapshot:* a capture reads the purchase's currency, awaits its prices,
  and upserts (purchase-snapshot.service.ts:86). A correction that commits in
  between deletes the snapshot and the capture writes it back in the old
  currency (schema.prisma:688); nothing repairs it.
  `SnapshotsGoStaleOnlyByRaces` (proved) says that this, and the first item, are
  the only ways.
- *Conversion on the chart:* web/screens/market-model.ts:134 says the rate is applied "only for
  the exact pair the rate describes"; line 151 divides any currency by it when the chart is in
  USD, so a purchase in a third currency is drawn by the rate of the display currency.
  `ConvertedByItsRate` states the comment, `ThirdCurrenciesOnlyInUsd` (proved) what holds.
- *Login begun during a restore:* schema.prisma:163 lets the challenge of a login have no
  account, so one issued after the deletion of backup.service.ts:181 and before the commit
  survives the restore, which means to leave no session or challenge of the replaced account;
  `OfNoSession` names it.
- *Snapshot rewritten:* a capture that is run again for one metal rewrites the
  others with the newest FX rate (purchase-snapshot.service.ts:56), though
  README.md:656-658 calls the stored figures a historical fact.
- *Snapshots starved:* a pass takes the newest pending purchases, those that can
  never be priced included (price.processor.ts:99), so enough of them keep every
  older one from being reconciled (purchases.service.ts:518-519).
  `PricedUnlessCrowdedOut` says that nothing else does.
- *Gift without a price:* movements.service.ts:178-179 says a later pass corrects
  its cost; the pass only walks purchases.
- *Quantity edited without a movement:* `AssetsService.update` rewrites a held
  lot's quantity while `schema.prisma` calls movements "the truth"; what holds is
  `FiguresAccountedFor`, which counts the audited edits too.
- *Job id taken:* the job of a purchase keeps its id while active or remembered
  (price-jobs.ts:71), so the request a correction makes may add no job, although
  the README says that one is queued; the reconciliation pass makes up for it.
  A finished backfill absorbs a later request in the same way, which is answered
  `{queued: true}`.
- *Backfill:* README.md:675 gives 90 days as the default, the code 365;
  scheduler.main.ts:82-84 caps a request "at the provider's own range limit", but
  400 days inclusive are 401; an empty history counts as success though
  README.md:637 calls it a miss.
- *Edits of a holding:* the patch is made against the list's present row, so after
  a background refetch the untouched fields of the form take others' edits back,
  contrary to web/screens/asset-edit-model.ts:101-102; choosing another weight
  unit may round the stored grams although AssetEditWizard.tsx:572-573 says
  "never a silent edit". `EditsAreExact` states what does hold.
- *Photos:* the crop editor detects again each time it is mounted, so a crop made
  by hand is overwritten when the photo step is visited again (README.md:403).
- *Drafts:* on a conflict the client fetches the version and saves again, over
  another page's newer draft (README.md:371-373; web/screens/Purchase.tsx:232). It need not have
  been open before: a wizard mounted again within the 30 seconds a list counts as fresh, or before
  the refetch is answered, opens the copy its window's list has (web/main.tsx:16,
  web/screens/Purchase.tsx:108), and its first autosave replaces a newer one in this way.
  `NewestCopyOpens` (proved) says that a list kept from before is the only reason.
- *Addresses:* an answer that arrives after its editor was left writes its
  parameters over another page's address (PurchaseWizard.tsx:216, Assets.tsx:91),
  contrary to screen-navigation.ts:29-33; Back after a cancel or a save reopens
  the editor although Assets.tsx:34-35 says it leaves it, as each step pushed an
  entry. `AddressesTellTheTruth` names these exceptions.

- *Login over a live session:* `api.ts` calls a 401 an "expired session"
  (web/api.ts:28), but a wrong current password and a passkey check that proves
  nothing are 401s too (auth.service.ts:226, :233; passkeys.service.ts:315): the
  settings are left for the login, although the session lives and the next load
  shows them again. An export of a backup, which uses `fetch`, stays.
- *Late read of the session:* a window that hears a logout or a 401 should
  "immediately leave" (web/api.ts:28); a read of the session that was served
  before and is heard after brings the account's pages back for a session that is
  over, until the next request. `PagesAreShownForAReason` names the exception.

Without a document to contradict, but worth a reader's attention: after an
unheard success and a refetch a second press in the disposal dialog books a second
disposal; choosing a dealer with exactly one branch while the branch field is
empty loses the dealer's name to the text typed before (`Pickers.TakeDealer`); the
safety copy a restore answers with is not kept by the page
(web/screens/BackupSection.tsx:205-212); choosing another file while an
inspection is under way shows the first's manifest over the second's bytes; a
purchase booked after its page was left leads the shell to the dashboard from
wherever the user is; an editor has no `key`, so a jump in the history from one
holding's editor to another's keeps the first's form; a passkey added while the list is
first loading may not appear, as the invalidation joins the read under way (react-query
keeps a first fetch), and a read that is answered after the settings were left marks an
older list as fresh (web/screens/Settings.tsx:28).
