------------------------- MODULE PurchaseSnapshots -------------------------
(***************************************************************************)
(* Purchase-time price snapshots: PurchaseSnapshotService.capture and      *)
(* pendingPurchaseIds, the jobs PriceQueueService requests, the worker of  *)
(* PriceProcessor, and what purchases.create and purchases.update do to    *)
(* them, as processes that share the database and the job queue.           *)
(*                                                                         *)
(* A capture reads the purchase and the FX rate, then for each metal a     *)
(* quote, and writes the metal's snapshot by itself: nothing ties the      *)
(* statements together.  A currency correction decides from an unlocked    *)
(* read whether the currency changes and applies its decision when it      *)
(* commits (its row locks are the subject of HoldingLedger).               *)
(*                                                                         *)
(* External to src/ and assumed: BullMQ ignores an add whose job id exists *)
(* in any state, returns the job of a dead worker to the queue or fails    *)
(* it, and forgets old finished jobs; Postgres' atomic upsert.             *)
(***************************************************************************)
EXTENDS Integers, FiniteSets

CONSTANTS
    Purchases,          \* numbered by purchasedAt: the greater the newer
    Metals,
    MetalsOf,           \* the metals of a purchase's items
    Currencies,
    PriceBase, Display, \* PRICE_BASE_CURRENCY and the display currency
    QuoteCurrencies,    \* bound: the currencies spot quotes are stored in
    OpenCurrencies,     \* bound: the currencies a purchase is recorded in
    Updates,            \* PATCH /api/purchases/:id requests with a currency
    Workers,            \* job slots of the worker processes
    Window, BatchLimit, \* pendingPurchaseIds: take (500) and limit (25)
    MaxAttempts,        \* PURCHASE_SNAPSHOT_JOB_OPTIONS.attempts
    MaxRates,           \* bound: FX rates ever stored
    MaxFaults,          \* bound: lost requests, failed statements, dead workers
    NoQuote, NoSnapshot, NoCapture, NoUpdate

ASSUME SnapshotAssumption ==
    /\ Purchases \subseteq Nat /\ IsFiniteSet(Purchases)
    /\ MetalsOf \in [Purchases -> SUBSET Metals]
    /\ \A p \in Purchases : MetalsOf[p] # {}
    /\ QuoteCurrencies \subseteq Currencies /\ OpenCurrencies \subseteq Currencies
    /\ NoQuote \notin Currencies
    /\ NoCapture \notin [purchase : Purchases, currency : Currencies,
                        fx : 0..MaxRates, todo : SUBSET Metals,
                        skipped : BOOLEAN, job : BOOLEAN, outdated : BOOLEAN]
    /\ NoSnapshot \notin [currency : Currencies, fx : 0..MaxRates]
    /\ Window \in Nat /\ BatchLimit \in Nat \ {0} /\ MaxAttempts \in Nat \ {0}
    /\ MaxRates \in Nat /\ MaxFaults \in Nat

VARIABLES
    recorded,           \* purchases that were committed
    currency,           \* Purchase.currency
    snapshot,           \* PurchasePriceSnapshot rows, by purchase and metal
    quote,              \* currency of the nearest spot quote, by purchase and metal
    fxRate,             \* the newest FX rate; 0 when there is none
    requests,           \* snapshots the API is about to request, by purchase
    job,                \* the purchase-snapshot job of each purchase
    capture,            \* the capture each worker is in
    batch,              \* what is left of each worker's reconciliation pass
    update,             \* what each correction read and decided
    faults              \* failures so far

ledger == <<recorded, currency, update>>
market == <<quote, fxRate>>
worker == <<capture, batch>>
vars   == <<ledger, snapshot, market, requests, job, worker, faults>>

Init ==
    /\ recorded = {}
    /\ currency \in [Purchases -> OpenCurrencies]
    /\ snapshot = [p \in Purchases |-> [m \in Metals |-> NoSnapshot]]
    /\ quote = [p \in Purchases |-> [m \in Metals |-> NoQuote]]
    /\ fxRate = 0
    /\ requests = [p \in Purchases |-> 0]
    /\ job = [p \in Purchases |-> [state |-> "none", attemptsMade |-> 0]]
    /\ capture = [w \in Workers |-> NoCapture]
    /\ batch = [w \in Workers |-> {}]
    /\ update = [u \in Updates |-> NoUpdate]
    /\ faults = 0

-----------------------------------------------------------------------------
(* The market *)

\* A sync or a backfill stores a spot quote at or before the purchase, nearer
\* than what was there.
StoreQuote(p, m) ==
    /\ \E c \in QuoteCurrencies :
         quote' = [quote EXCEPT ![p][m] = c]
    /\ UNCHANGED <<ledger, snapshot, fxRate, requests, job, worker, faults>>

SyncFx ==
    /\ fxRate < MaxRates
    /\ fxRate' = fxRate + 1
    /\ UNCHANGED <<ledger, snapshot, quote, requests, job, worker, faults>>

\* toPurchaseCurrency returns a price.
Convertible(from, to, fx) ==
    \/ from = to
    \/ fx > 0 /\ to = Display /\ from = PriceBase

-----------------------------------------------------------------------------
(* The API: recording and correcting purchases, requesting snapshots *)

\* purchases.create has committed.
RecordPurchase(p) ==
    /\ p \notin recorded
    /\ recorded' = recorded \cup {p}
    /\ requests' = [requests EXCEPT ![p] = @ + 1]
    /\ UNCHANGED <<currency, update, snapshot, market, job, worker, faults>>

\* purchases.update reads the purchase without a lock.
ReadForUpdate(u, p) ==
    /\ update[u] = NoUpdate /\ p \in recorded
    /\ \E c \in Currencies :
         update' = [update EXCEPT ![u] =
            [purchase |-> p, currency |-> c, changed |-> c # currency[p],
             committed |-> FALSE]]
    /\ UNCHANGED <<recorded, currency, snapshot, market, requests, job, worker,
                   faults>>

\* Fault: the old snapshots stay.
KeepSnapshots(p) == snapshot[p]

\* purchasePriceSnapshot.deleteMany.
DropSnapshots(p) == [m \in Metals |-> NoSnapshot]

\* The purchase is written in any case, the rest if the currency had changed.
\* `outdated' marks the captures that read the purchase before.
CommitUpdate(u) ==
    /\ update[u] # NoUpdate /\ ~update[u].committed
    /\ LET p == update[u].purchase
           changed == update[u].changed
       IN  /\ currency' = [currency EXCEPT ![p] = update[u].currency]
           /\ snapshot' = [snapshot EXCEPT ![p] =
                             IF changed THEN DropSnapshots(p) ELSE @]
           /\ requests' = [requests EXCEPT ![p] = IF changed THEN @ + 1 ELSE @]
           /\ capture' = [w \in Workers |->
                IF capture[w] # NoCapture /\ capture[w].purchase = p
                THEN [capture[w] EXCEPT
                        !.outdated = @ \/ changed \/ currency'[p] # currency[p]]
                ELSE capture[w]]
    /\ update' = [update EXCEPT ![u].committed = TRUE]
    /\ UNCHANGED <<recorded, market, job, batch, faults>>

\* requestPurchaseSnapshot: one job id per purchase, and an add of an id the
\* queue still knows, finished or not, does nothing.
RequestSnapshot(p) ==
    /\ requests[p] > 0
    /\ requests' = [requests EXCEPT ![p] = @ - 1]
    /\ job' = [job EXCEPT ![p] = IF @.state = "none"
                  THEN [state |-> "waiting", attemptsMade |-> 0] ELSE @]
    /\ UNCHANGED <<ledger, snapshot, market, worker, faults>>

\* Redis refuses, or the API dies first: the request is gone.
LoseRequest(p) ==
    /\ requests[p] > 0 /\ faults < MaxFaults
    /\ requests' = [requests EXCEPT ![p] = @ - 1]
    /\ faults' = faults + 1
    /\ UNCHANGED <<ledger, snapshot, market, job, worker>>

-----------------------------------------------------------------------------
(* The worker *)

Free(w) == capture[w] = NoCapture /\ batch[w] = {}

\* The first reads of a capture.
Reading(p, byJob) ==
    [purchase |-> p, currency |-> currency[p], fx |-> fxRate,
     todo |-> MetalsOf[p], skipped |-> FALSE, job |-> byJob, outdated |-> FALSE]

\* process, capturePurchase: the job is taken, at once or after its backoff.
TakeJob(w, p) ==
    /\ Free(w)
    /\ job[p].state = "waiting"
    /\ job' = [job EXCEPT ![p].state = "active"]
    /\ capture' = [capture EXCEPT ![w] = Reading(p, TRUE)]
    /\ UNCHANGED <<ledger, snapshot, market, requests, batch, faults>>

\* The n newest of a set of purchases.
Newest(n, S) == {p \in S : Cardinality({q \in S : q > p}) < n}

Captured(p) == \A m \in MetalsOf[p] : snapshot[p][m] # NoSnapshot

\* Fault: the limit is applied before the purchases are filtered.
PendingOfNewest == {p \in Newest(BatchLimit, recorded) : ~Captured(p)}

Pending == Newest(BatchLimit, {p \in Newest(Window, recorded) : ~Captured(p)})

\* A sync or backfill that got its quotes ends with a reconciliation pass.
StartReconciling(w) ==
    /\ Free(w)
    /\ Pending # {}
    /\ batch' = [batch EXCEPT ![w] = Pending]
    /\ UNCHANGED <<ledger, snapshot, market, requests, job, capture, faults>>

ReconcileNext(w) ==
    /\ capture[w] = NoCapture
    /\ \E p \in Newest(1, batch[w]) :
         /\ capture' = [capture EXCEPT ![w] = Reading(p, FALSE)]
         /\ batch' = [batch EXCEPT ![w] = @ \ {p}]
    /\ UNCHANGED <<ledger, snapshot, market, requests, job, faults>>

\* What is stored for a metal: its figures are in the currency the capture read
\* for the purchase, converted when the quote is in another one.
Value(w, m) ==
    [currency |-> capture[w].currency,
     fx |-> IF quote[capture[w].purchase][m] = capture[w].currency
            THEN 0 ELSE capture[w].fx]

\* One round of capture's loop: the snapshot is upserted, or the metal skipped.
CaptureMetal(w, m) ==
    /\ capture[w] # NoCapture
    /\ m \in capture[w].todo
    /\ LET p == capture[w].purchase
           usable == Convertible(quote[p][m], capture[w].currency, capture[w].fx)
       IN  /\ snapshot' = [snapshot EXCEPT ![p][m] =
                             IF usable THEN Value(w, m) ELSE @]
           /\ capture' = [capture EXCEPT ![w].todo = @ \ {m},
                                         ![w].skipped = @ \/ ~usable]
    /\ UNCHANGED <<ledger, market, requests, job, batch, faults>>

\* Fault: one attempt too many.
RetriedOnceMore(j) ==
    [state |-> IF j.attemptsMade < MaxAttempts THEN "waiting" ELSE "failed",
     attemptsMade |-> j.attemptsMade + 1]

\* What becomes of a job whose handler threw.
Retried(j) ==
    [state |-> IF j.attemptsMade + 1 < MaxAttempts THEN "waiting" ELSE "failed",
     attemptsMade |-> j.attemptsMade + 1]

\* Fault: the handler returns though metals were skipped.
SettledQuietly(c) == [job[c.purchase] EXCEPT !.state = "completed"]

\* capturePurchase throws when a metal was skipped.
Settled(c) ==
    IF c.skipped THEN Retried(job[c.purchase])
    ELSE [job[c.purchase] EXCEPT !.state = "completed"]

\* The end of capture.  The reconciliation pass ignores what was skipped.
FinishCapture(w) ==
    /\ capture[w] # NoCapture
    /\ capture[w].todo = {}
    /\ job' = IF capture[w].job
              THEN [job EXCEPT ![capture[w].purchase] = Settled(capture[w])]
              ELSE job
    /\ capture' = [capture EXCEPT ![w] = NoCapture]
    /\ UNCHANGED <<ledger, snapshot, market, requests, batch, faults>>

\* A statement fails: the job is retried, or the pass goes on to the next one.
CaptureThrows(w) ==
    /\ capture[w] # NoCapture
    /\ faults < MaxFaults
    /\ job' = IF capture[w].job
              THEN [job EXCEPT ![capture[w].purchase] = Retried(@)] ELSE job
    /\ capture' = [capture EXCEPT ![w] = NoCapture]
    /\ faults' = faults + 1
    /\ UNCHANGED <<ledger, snapshot, market, requests, batch>>

\* The worker dies.  Its job stalls and is run again or failed; its pass is lost.
WorkerDies(w) ==
    /\ ~Free(w)
    /\ faults < MaxFaults
    /\ IF capture[w] # NoCapture /\ capture[w].job
       THEN \E state \in {"waiting", "failed"} :
              job' = [job EXCEPT ![capture[w].purchase].state = state]
       ELSE UNCHANGED job
    /\ capture' = [capture EXCEPT ![w] = NoCapture]
    /\ batch' = [batch EXCEPT ![w] = {}]
    /\ faults' = faults + 1
    /\ UNCHANGED <<ledger, snapshot, market, requests>>

\* Finished jobs of the whole queue push this one out of its history.
ForgetJob(p) ==
    /\ job[p].state \in {"completed", "failed"}
    /\ job' = [job EXCEPT ![p] = [state |-> "none", attemptsMade |-> 0]]
    /\ UNCHANGED <<ledger, snapshot, market, requests, worker, faults>>

-----------------------------------------------------------------------------

ApiStep ==
    \/ \E p \in Purchases : \/ RecordPurchase(p)
                            \/ RequestSnapshot(p)
                            \/ LoseRequest(p)
                            \/ \E u \in Updates : ReadForUpdate(u, p)
    \/ \E u \in Updates : CommitUpdate(u)

MarketStep ==
    \/ \E p \in Purchases : \E m \in MetalsOf[p] : StoreQuote(p, m)
    \/ SyncFx

WorkerStep(w) ==
    \/ \E p \in Purchases : TakeJob(w, p)
    \/ StartReconciling(w)
    \/ ReconcileNext(w)
    \/ \E m \in Metals : CaptureMetal(w, m)
    \/ FinishCapture(w)

Next ==
    \/ ApiStep
    \/ MarketStep
    \/ \E w \in Workers : WorkerStep(w) \/ CaptureThrows(w) \/ WorkerDies(w)
    \/ \E p \in Purchases : ForgetJob(p)

Spec == Init /\ [][Next]_vars

\* Each worker goes on, and the scheduled syncs keep coming and now and then
\* succeed; nothing else is obliged to happen.
FairSpec == Spec /\ \A w \in Workers : WF_vars(WorkerStep(w))

-----------------------------------------------------------------------------
(* Type correctness *)

Values   == [currency : Currencies, fx : 0..MaxRates]
Captures == [purchase : Purchases, currency : Currencies, fx : 0..MaxRates,
             todo : SUBSET Metals, skipped : BOOLEAN, job : BOOLEAN,
             outdated : BOOLEAN]
JobRows  == [state : {"none", "waiting", "active", "completed", "failed"},
             attemptsMade : 0..MaxAttempts]

TypeOK ==
    /\ recorded \subseteq Purchases
    /\ currency \in [Purchases -> Currencies]
    /\ snapshot \in [Purchases -> [Metals -> Values \cup {NoSnapshot}]]
    /\ quote \in [Purchases -> [Metals -> Currencies \cup {NoQuote}]]
    /\ fxRate \in 0..MaxRates
    /\ requests \in [Purchases -> Nat]
    /\ job \in [Purchases -> JobRows]
    /\ capture \in [Workers -> Captures \cup {NoCapture}]
    /\ batch \in [Workers -> SUBSET Purchases]
    /\ update \in [Updates -> [purchase : Purchases, currency : Currencies,
                               changed : BOOLEAN, committed : BOOLEAN]
                              \cup {NoUpdate}]
    /\ faults \in 0..MaxFaults

-----------------------------------------------------------------------------
(* The inductive invariant *)

\* A job is active exactly while one worker is at it, and has an attempt left:
\* neither a retry, a stalled worker nor a second request runs it twice at once.
JobsAreHeld ==
    /\ \A p \in Purchases :
         /\ job[p].state = "active" <=>
              \E w \in Workers : /\ capture[w] # NoCapture /\ capture[w].job
                                 /\ capture[w].purchase = p
         /\ job[p].state \in {"waiting", "active"} =>
              job[p].attemptsMade < MaxAttempts
    /\ \A v, w \in Workers :
         (/\ capture[v] # NoCapture /\ capture[v].job
          /\ capture[w] # NoCapture /\ capture[w].job
          /\ capture[v].purchase = capture[w].purchase) => v = w

\* What a capture read of its purchase holds until a correction commits, and
\* what it has written stays until then.
CapturesKeepUp ==
    \A w \in Workers : (capture[w] # NoCapture /\ ~capture[w].outdated) =>
       /\ capture[w].currency = currency[capture[w].purchase]
       /\ \A m \in MetalsOf[capture[w].purchase] :
            \/ m \in capture[w].todo
            \/ snapshot[capture[w].purchase][m] # NoSnapshot
            \/ capture[w].skipped

\* Inductive: what the two properties below rest on.
SnapshotInv == TypeOK /\ JobsAreHeld /\ CapturesKeepUp

-----------------------------------------------------------------------------
(* Safety *)

Stale(p, m) == snapshot[p][m] # NoSnapshot /\ snapshot[p][m].currency # currency[p]

\* A snapshot that matches its purchase's currency stops matching in two ways
\* only: a capture that read the purchase before a correction writes after it,
\* or a correction that read the purchase before another one puts its currency
\* back.  A correction of its own never leaves a snapshot behind
\* (purchases.service.ts:179-183).
SnapshotsGoStaleOnlyByRaces ==
    [][\A p \in Purchases, m \in Metals :
         (Stale(p, m)' /\ ~Stale(p, m)) =>
            \/ \E w \in Workers : /\ capture[w] # NoCapture
                                  /\ capture[w].purchase = p
                                  /\ capture[w].outdated
            \/ \E u \in Updates : /\ update[u] # NoUpdate /\ ~update[u].committed
                                  /\ update'[u].committed
                                  /\ ~update[u].changed]_vars

\* A job that completes leaves every metal of its purchase priced, unless a
\* correction dropped the snapshots under it: no failure to find a price passes
\* for success, whatever the reconciliation pass does meanwhile
\* (price.processor.ts:16-17, 72-77).
CompletedJobsPricedEverything ==
    [][\A w \in Workers, p \in Purchases :
         (/\ capture[w] # NoCapture /\ capture[w].job /\ capture[w].purchase = p
          /\ job[p].state = "active" /\ job'[p].state = "completed")
           => Captured(p)' \/ capture[w].outdated]_vars

-----------------------------------------------------------------------------
(* Liveness *)

\* Every metal of the purchase has a price a capture could use now.
Priceable(p) ==
    \A m \in MetalsOf[p] : Convertible(quote[p][m], currency[p], fxRate)

\* The pass never comes to the purchase: too many newer ones, recorded or
\* impossible to price, stand before it.
CrowdedOut(p) ==
    \/ p \notin Newest(Window, recorded)
    \/ p \notin Newest(BatchLimit,
                  {p} \cup {q \in Newest(Window, recorded) :
                              ~Captured(q) /\ ~Priceable(q)})

\* A purchase that can be priced is priced, even if its request was lost, its
\* job spent its attempts before the price was known, or its worker died
\* (price.processor.ts:58-60, purchases.service.ts:518-519).
PricedUnlessCrowdedOut ==
    \A p \in Purchases :
       (p \in recorded /\ Priceable(p))
         ~> (Captured(p) \/ ~Priceable(p) \/ CrowdedOut(p))

-----------------------------------------------------------------------------
(* What the documents say and the code does not do *)

\* schema.prisma:688, a stored snapshot is "Derived, in the purchase's own
\* currency".
SnapshotsAreInPurchaseCurrency ==
    \A p \in Purchases, m \in Metals : ~Stale(p, m)

\* README.md:655-658, a snapshot "is a historical fact": once taken it is never
\* rewritten in the same currency with another day's rate.
SnapshotsKeepTheirRate ==
    [][\A p \in Purchases, m \in Metals :
         (/\ snapshot[p][m] # NoSnapshot /\ snapshot'[p][m] # NoSnapshot
          /\ snapshot'[p][m].currency = snapshot[p][m].currency
          /\ quote'[p][m] = quote[p][m])
           => snapshot'[p][m] = snapshot[p][m]]_vars

\* purchases.service.ts:518-519, "the worker reconciles anything this misses":
\* also when newer purchases cannot be priced.
MissedSnapshotsAreReconciled ==
    \A p \in Purchases :
       (p \in recorded /\ Priceable(p)) ~> (Captured(p) \/ ~Priceable(p))
=============================================================================
