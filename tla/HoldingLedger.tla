---------------------------- MODULE HoldingLedger ----------------------------
(***************************************************************************)
(* The holding ledger of the API: MovementsService (sell, giftOut,         *)
(* markLost, markDamaged, transferStorage, giftIn), AssetsService.update   *)
(* and the currency correction of PurchasesService.update, as concurrent   *)
(* calls on the same lots.                                                 *)
(*                                                                         *)
(* A call is one interactive Postgres transaction at READ COMMITTED.  Each *)
(* statement that reads or locks a row another call writes is a step:      *)
(*   - a read sees the last committed rows and locks nothing;              *)
(*   - an UPDATE waits for the row's lock, then matches its WHERE against  *)
(*     the row's last committed version; the lock is held to the end;      *)
(*   - what a call wrote becomes visible when it commits, and an exception *)
(*     at any point before that leaves no trace.                           *)
(* Statements that only add rows (movement, audit) are part of the commit. *)
(*                                                                         *)
(* External to src/ and assumed: the row locks and atomic commit of        *)
(* Postgres.  The purchase's price snapshot, which a currency correction   *)
(* deletes and the worker's capture writes back, and the recalculation job *)
(* that purchases.update queues after it committed, are the subject of     *)
(* PurchaseSnapshots and touch no row here.                                *)
(***************************************************************************)
EXTENDS LedgerRows, FiniteSetsExt

CONSTANTS
    Opening,            \* the row purchases.create gave each purchased lot
    KindInputs,         \* bound: the kinds of disposal the calls ask for
    EditInputs,         \* bound: the edits PATCH /api/assets/:id is sent
    GiftInputs,         \* bound: the figures of received gifts
    NoRequest, NoPlan

ASSUME LedgerAssumption ==
    /\ Opening \in [Lots \ GiftLots -> Rows]
    /\ \A l \in Lots \ GiftLots :
          Opening[l].status = "HELD" /\ Opening[l].figures.quantity > 0
    /\ KindInputs \subseteq DisposalKinds
    /\ EditInputs \subseteq Corrections
    /\ GiftInputs \subseteq {f \in Figures : f.quantity > 0}
    /\ NoRow \notin Rows /\ NoRequest \notin Requests
    /\ NoMovement \notin Movements /\ NoEdit \notin Edits
    /\ \A p \in Purchases : \A k, l \in LotsOf(p) :
          Opening[k].currency = Opening[l].currency

\* A behaviour may have any number of calls, but a finite number: the sums of
\* FiguresAccountedFor are over them.
ASSUME FiniteRequests == IsFiniteSet(Requests)

VARIABLES
    asset,              \* the committed Asset rows
    movement,           \* the committed AssetMovement rows, by call
    edit,               \* the committed audit rows of asset edits, by call
    purchaseCurrency,   \* Purchase.currency
    lotLock,            \* the call holding each lot's row lock
    purchaseLock,       \* the call holding each purchase's row lock
    pc,                 \* how far each call has come
    plan                \* what each call read and intends to write

tables == <<asset, movement, edit, purchaseCurrency>>
locks  == <<lotLock, purchaseLock>>
vars   == <<tables, locks, pc, plan>>

Init ==
    /\ asset = [l \in Lots |-> IF l \in GiftLots THEN NoRow ELSE Opening[l]]
    /\ movement = [r \in Requests |-> NoMovement]
    /\ edit = [r \in Requests |-> NoEdit]
    /\ purchaseCurrency \in [Purchases -> Currencies]
    /\ \A l \in Lots \ GiftLots :
          purchaseCurrency[PurchaseOf[l]] = Opening[l].currency
    /\ lotLock = [l \in Lots |-> NoRequest]
    /\ purchaseLock = [p \in Purchases |-> NoRequest]
    /\ pc = [r \in Requests |-> "new"]
    /\ plan = [r \in Requests |-> NoPlan]

-----------------------------------------------------------------------------
(* Reading the lot *)

\* Fault: any stored lot will do.
HeldOrGone(l) == asset[l] # NoRow

Held(l) == asset[l] # NoRow /\ asset[l].status = "HELD"

\* The first statement of a lot call and the checks on what it returned.
Plan(r, p) ==
    /\ pc[r] = "new"
    /\ pc' = [pc EXCEPT ![r] = "planned"]
    /\ plan' = [plan EXCEPT ![r] = p]
    /\ UNCHANGED <<tables, locks>>

\* Fault: the quantity is compared with one more than what remains.
ReadBeyondBalance(r, l) ==
    /\ Held(l)
    /\ \E kind \in KindInputs :
         \E quantity \in 1..asset[l].figures.quantity + 1 :
           \E split \in Splits(asset[l].figures, quantity) :
              Plan(r, [op |-> "dispose", lot |-> l, row |-> asset[l],
                       kind |-> kind, split |-> split])

\* dispose.  The version the client loaded is optional, and one that differs
\* from the row's is refused here; either way the row just read is what counts.
ReadForDisposal(r, l) ==
    /\ Held(l)
    /\ \E kind \in KindInputs :
         \E quantity \in 1..asset[l].figures.quantity :
           \E split \in Splits(asset[l].figures, quantity) :
              Plan(r, [op |-> "dispose", lot |-> l, row |-> asset[l],
                       kind |-> kind, split |-> split])

ReadForTransfer(r, l) ==
    /\ Held(l)
    /\ \E to \in Locations :
          Plan(r, [op |-> "transferStorage", lot |-> l, row |-> asset[l],
                   to |-> to])

\* AssetsService.update: an edit of a purchased lot's currency and a quantity
\* below one are refused.  An edit may leave these columns as they are and
\* change a description; one that changes nothing at all is refused.
ReadForEdit(r, l) ==
    /\ Held(l)
    /\ \E input \in EditInputs :
         /\ input.quantity # 0
         /\ input.currency # Keep => l \in GiftLots
         /\ \E figures \in CorrectedFigures(asset[l].figures, input) :
              Plan(r, [op |-> "update", lot |-> l, row |-> asset[l],
                       input |-> input, figures |-> figures])

-----------------------------------------------------------------------------
(* Writing the lot: updateMany where id and version match *)

\* Fault: the WHERE names the id alone.
UnguardedUpdate(r) ==
    /\ pc[r] = "planned"
    /\ lotLock[plan[r].lot] = NoRequest
    /\ lotLock' = [lotLock EXCEPT ![plan[r].lot] = r]
    /\ pc' = [pc EXCEPT ![r] = "updated"]
    /\ UNCHANGED <<tables, purchaseLock, plan>>

GuardedUpdate(r) ==
    /\ pc[r] = "planned"
    /\ lotLock[plan[r].lot] = NoRequest
    /\ asset[plan[r].lot].version = plan[r].row.version
    /\ lotLock' = [lotLock EXCEPT ![plan[r].lot] = r]
    /\ pc' = [pc EXCEPT ![r] = "updated"]
    /\ UNCHANGED <<tables, purchaseLock, plan>>

\* No row matched: the call throws 409 and rolls back.
ConflictAtUpdate(r) ==
    /\ pc[r] = "planned"
    /\ lotLock[plan[r].lot] = NoRequest
    /\ asset[plan[r].lot].version # plan[r].row.version
    /\ pc' = [pc EXCEPT ![r] = "refused"]
    /\ plan' = [plan EXCEPT ![r] = NoPlan]
    /\ UNCHANGED <<tables, locks>>

\* The end of a transaction, committed or not, frees the rows it locked.
Finish(r, outcome) ==
    /\ pc' = [pc EXCEPT ![r] = outcome]
    /\ plan' = [plan EXCEPT ![r] = NoPlan]
    /\ lotLock' = [l \in Lots |->
                     IF lotLock[l] = r THEN NoRequest ELSE lotLock[l]]
    /\ purchaseLock' = [p \in Purchases |->
                     IF purchaseLock[p] = r THEN NoRequest ELSE purchaseLock[p]]

CommitDisposal(r) ==
    /\ pc[r] = "updated" /\ plan[r].op = "dispose"
    /\ asset' = [asset EXCEPT ![plan[r].lot] =
                   AfterDisposal(@, plan[r].kind, plan[r].split)]
    /\ movement' = [movement EXCEPT ![r] =
         DisposalMovement(plan[r].lot, plan[r].row, plan[r].kind, plan[r].split)]
    /\ Finish(r, "committed")
    /\ UNCHANGED <<edit, purchaseCurrency>>

CommitTransfer(r) ==
    /\ pc[r] = "updated" /\ plan[r].op = "transferStorage"
    /\ asset' = [asset EXCEPT ![plan[r].lot] = AfterTransfer(@, plan[r].to)]
    /\ movement' = [movement EXCEPT ![r] =
         TransferMovement(plan[r].lot, plan[r].row, plan[r].to)]
    /\ Finish(r, "committed")
    /\ UNCHANGED <<edit, purchaseCurrency>>

CommitEdit(r) ==
    /\ pc[r] = "updated" /\ plan[r].op = "update"
    /\ asset' = [asset EXCEPT ![plan[r].lot] =
                   AfterCorrection(@, plan[r].input, plan[r].figures)]
    /\ edit' = [edit EXCEPT ![r] =
         [lot |-> plan[r].lot, before |-> plan[r].row.figures,
          after |-> asset'[plan[r].lot].figures]]
    /\ Finish(r, "committed")
    /\ UNCHANGED <<movement, purchaseCurrency>>

\* giftIn inserts a lot no other call can see yet and books its receipt.  Its
\* cost is the market value at receipt, or zero when no price is known.
ReceiveGift(r, l) ==
    /\ pc[r] = "new"
    /\ l \in GiftLots /\ asset[l] = NoRow
    /\ \E figures \in GiftInputs, c \in Currencies, location \in Locations :
         /\ asset' = [asset EXCEPT ![l] = GiftRow(figures, c, location)]
         /\ movement' = [movement EXCEPT ![r] = GiftMovement(l, figures)]
    /\ pc' = [pc EXCEPT ![r] = "committed"]
    /\ UNCHANGED <<edit, purchaseCurrency, locks, plan>>

-----------------------------------------------------------------------------
(* PurchasesService.update with a currency *)

\* The unlocked read.  A request that repeats the stored currency is accepted
\* when another field differs, so any currency may get past the no-op check.
ReadForRelabel(r, p) ==
    /\ pc[r] = "new"
    /\ \E c \in Currencies :
         plan' = [plan EXCEPT ![r] =
                    [op |-> "relabel", purchase |-> p, currency |-> c,
                     changed |-> c # purchaseCurrency[p], booked |-> {}]]
    /\ pc' = [pc EXCEPT ![r] = "relabelling"]
    /\ UNCHANGED <<tables, locks>>

\* Fault: the purchase row is written last, so nothing orders two corrections.
WriteNothingYet(r) ==
    /\ pc[r] = "relabelling"
    /\ pc' = [pc EXCEPT ![r] = IF plan[r].changed THEN "purchaseWritten"
                               ELSE "relabelled"]
    /\ UNCHANGED <<tables, locks, plan>>

\* purchase.update by id: waits for the row, checks nothing more.
WritePurchase(r) ==
    /\ pc[r] = "relabelling"
    /\ purchaseLock[plan[r].purchase] = NoRequest
    /\ purchaseLock' = [purchaseLock EXCEPT ![plan[r].purchase] = r]
    /\ pc' = [pc EXCEPT ![r] = IF plan[r].changed THEN "purchaseWritten"
                               ELSE "relabelled"]
    /\ UNCHANGED <<tables, lotLock, plan>>

\* Fault: lots that left the holding keep the old label.
RelabelledHeldLots(p) == {l \in LotsOf(p) : asset[l].status = "HELD"}

\* The rows the two updateMany statements select.
RelabelledLots(p) == LotsOf(p)

\* Fault: movements that book nothing are labelled too.
AllMovements(p) ==
    {b \in Requests : movement[b] # NoMovement /\ movement[b].lot \in LotsOf(p)}

BookedMovements(p) ==
    {b \in Requests : /\ movement[b] # NoMovement
                      /\ movement[b].lot \in LotsOf(p)
                      /\ movement[b].currency # NoCurrency}

\* asset.updateMany where purchaseId: one lot at a time, waiting at each.
RelabelLot(r, l) ==
    /\ pc[r] = "purchaseWritten"
    /\ l \in RelabelledLots(plan[r].purchase)
    /\ lotLock[l] = NoRequest
    /\ lotLock' = [lotLock EXCEPT ![l] = r]
    /\ UNCHANGED <<tables, purchaseLock, pc, plan>>

\* assetMovement.updateMany: the booked rows this statement's snapshot shows.
RelabelMovements(r) ==
    /\ pc[r] = "purchaseWritten"
    /\ \A l \in RelabelledLots(plan[r].purchase) : lotLock[l] = r
    /\ plan' = [plan EXCEPT ![r].booked = BookedMovements(plan[r].purchase)]
    /\ pc' = [pc EXCEPT ![r] = "relabelled"]
    /\ UNCHANGED <<tables, locks>>

CommitRelabel(r) ==
    /\ pc[r] = "relabelled"
    /\ purchaseCurrency' =
         [purchaseCurrency EXCEPT ![plan[r].purchase] = plan[r].currency]
    /\ IF plan[r].changed
       THEN /\ asset' = [l \in Lots |->
                  IF l \in RelabelledLots(plan[r].purchase)
                  THEN AfterRelabel(asset[l], plan[r].currency) ELSE asset[l]]
            /\ movement' = [b \in Requests |->
                  IF b \in plan[r].booked
                  THEN [movement[b] EXCEPT !.currency = plan[r].currency]
                  ELSE movement[b]]
       ELSE UNCHANGED <<asset, movement>>
    /\ Finish(r, "committed")
    /\ UNCHANGED edit

-----------------------------------------------------------------------------
\* A check that throws (404, 400, 409), a lost database connection or the
\* transaction timeout: everything since the first statement is rolled back.
Abandon(r) ==
    /\ pc[r] \notin {"committed", "refused"}
    /\ Finish(r, "refused")
    /\ UNCHANGED tables

\* Every call has been answered.
Answered == \A r \in Requests : pc[r] \in {"committed", "refused"}
Idle == Answered /\ UNCHANGED vars

LotCall(r) ==
    \/ \E l \in Lots : \/ ReadForDisposal(r, l)
                       \/ ReadForTransfer(r, l)
                       \/ ReadForEdit(r, l)
                       \/ ReceiveGift(r, l)
    \/ \E p \in Purchases : ReadForRelabel(r, p)

Progress(r) ==
    \/ GuardedUpdate(r)
    \/ ConflictAtUpdate(r)
    \/ CommitDisposal(r)
    \/ CommitTransfer(r)
    \/ CommitEdit(r)
    \/ WritePurchase(r)
    \/ \E l \in Lots : RelabelLot(r, l)
    \/ RelabelMovements(r)
    \/ CommitRelabel(r)

Next ==
    \/ \E r \in Requests : LotCall(r) \/ Progress(r) \/ Abandon(r)
    \/ Idle

Spec == Init /\ [][Next]_vars

\* The database runs each statement it can run; a call is not obliged to start.
FairSpec == Spec /\ \A r \in Requests : WF_vars(Progress(r))

-----------------------------------------------------------------------------
(* Type correctness *)

Splitting == [out : Figures, left : Figures]

DisposalPlans == [op : {"dispose"}, lot : Lots, row : Rows,
                  kind : DisposalKinds, split : Splitting]
TransferPlans == [op : {"transferStorage"}, lot : Lots, row : Rows,
                  to : Locations]
EditPlans     == [op : {"update"}, lot : Lots, row : Rows,
                  input : EditInputs, figures : Figures \cup {Keep}]
RelabelPlans  == [op : {"relabel"}, purchase : Purchases, currency : Currencies,
                  changed : BOOLEAN, booked : SUBSET Requests]
LotPlans      == DisposalPlans \cup TransferPlans \cup EditPlans
Plans         == LotPlans \cup RelabelPlans \cup {NoPlan}

TypeOK ==
    /\ asset \in [Lots -> Rows \cup {NoRow}]
    /\ movement \in [Requests -> Movements \cup {NoMovement}]
    /\ edit \in [Requests -> Edits \cup {NoEdit}]
    /\ purchaseCurrency \in [Purchases -> Currencies]
    /\ lotLock \in [Lots -> Requests \cup {NoRequest}]
    /\ purchaseLock \in [Purchases -> Requests \cup {NoRequest}]
    /\ pc \in [Requests -> {"new", "planned", "updated", "relabelling",
                            "purchaseWritten", "relabelled", "committed", "refused"}]
    /\ plan \in [Requests -> Plans]
    /\ \A r \in Requests :
         /\ pc[r] \in {"planned", "updated"} => plan[r] \in LotPlans
         /\ pc[r] \in {"relabelling", "purchaseWritten", "relabelled"} =>
               plan[r] \in RelabelPlans
         /\ pc[r] \in {"new", "committed", "refused"} => plan[r] = NoPlan

-----------------------------------------------------------------------------
(* Safety *)

\* What call r moved into (or out of) lot l's column f: a receipt adds, a
\* disposal removes, an edit accounts for itself in its audit row.
Flow(r, l, f) ==
    (IF movement[r] # NoMovement /\ movement[r].lot = l
     THEN IF movement[r].kind = "GIFT_IN" THEN movement[r].figures[f]
          ELSE -movement[r].figures[f]
     ELSE 0)
  + (IF edit[r] # NoEdit /\ edit[r].lot = l
     THEN edit[r].after[f] - edit[r].before[f] ELSE 0)

OpeningFigure(l, f) == IF l \in GiftLots THEN 0 ELSE Opening[l].figures[f]

\* Whatever the interleaving, a lot's quantity, weight and cost are exactly
\* what it opened with, less what its movements carried out, plus what audited
\* edits changed: no disposal is applied twice, lost, or rounded away
\* (dispose's version guard and splitForDisposal's remainder by subtraction).
FiguresAccountedFor ==
    \A l \in Lots : asset[l] # NoRow =>
       \A f \in {"quantity", "weight", "cost"} :
          asset[l].figures[f] =
             OpeningFigure(l, f) + MapThenSumSet(LAMBDA r : Flow(r, l, f), Requests)

\* A lot has left the holding exactly when nothing of it remains - not a cent
\* of cost, not a microgram - and then a movement of the kind its status names
\* says where it went (statusAfterDisposal, the whole-remainder branch).
DisposedLotsAreExplained ==
    \A l \in Lots : asset[l] # NoRow =>
       /\ asset[l].status = "HELD" <=> asset[l].figures.quantity > 0
       /\ asset[l].status # "HELD" =>
            /\ asset[l].figures = Nothing
            /\ \E r \in Requests :
                  /\ movement[r] # NoMovement
                  /\ movement[r].lot = l
                  /\ movement[r].figures.quantity > 0
                  /\ StatusAfterDisposal(movement[r].kind, 0) = asset[l].status

\* Realized figures of purchased lots move with the currency correction of
\* their purchase: a disposal that read the old currency cannot commit its
\* movement under the wrong label (purchases.service.ts:164-178).
BookedCurrencyFollowsLot ==
    \A r \in Requests :
       (/\ movement[r] # NoMovement
        /\ movement[r].currency # NoCurrency
        /\ movement[r].lot \notin GiftLots)
       => movement[r].currency = asset[movement[r].lot].currency

\* The lots of one purchase never disagree on the currency, whatever
\* corrections race: they move together in one transaction.
SiblingLotsShareCurrency ==
    \A p \in Purchases : \A k, l \in LotsOf(p) :
       asset[k].currency = asset[l].currency

Minus(f, g) == [quantity |-> f.quantity - g.quantity,
                weight |-> f.weight - g.weight, cost |-> f.cost - g.cost]

\* A movement and the balance it produces appear together and agree: what the
\* movement carried out is what the lot lost, it left from where the lot was,
\* and what it books is in the currency the lot had.  No other step but an
\* audited edit touches a lot's figures.
MovementMatchesBalance ==
    [][/\ \A r \in Requests, l \in Lots :
            (/\ movement[r] = NoMovement /\ movement'[r] # NoMovement
             /\ movement'[r].lot = l /\ asset[l] # NoRow) =>
               /\ asset[l].status = "HELD"
               /\ asset'[l].figures = Minus(asset[l].figures, movement'[r].figures)
               /\ movement'[r].from = asset[l].location
               /\ movement'[r].currency \in {NoCurrency, asset[l].currency}
       /\ \A l \in Lots :
            (asset[l] # NoRow /\ asset'[l].figures # asset[l].figures) =>
               \E r \in Requests :
                  \/ movement[r] = NoMovement /\ movement'[r] # NoMovement
                     /\ movement'[r].lot = l
                  \/ edit[r] = NoEdit /\ edit'[r] # NoEdit /\ edit'[r].lot = l
      ]_vars

\* Once sold, given away or lost, a lot's balance, status and place never
\* change again; only a currency correction still reaches it.
DisposedLotsAreFrozen ==
    [][\A l \in Lots :
          (asset[l] # NoRow /\ asset[l].status # "HELD") =>
             /\ asset'[l].status = asset[l].status
             /\ asset'[l].figures = asset[l].figures
             /\ asset'[l].location = asset[l].location]_vars

Atomic == INSTANCE AtomicLedger WITH asset <- asset, movement <- movement, edit <- edit

\* The interleaved calls act as if each were one indivisible step on current
\* rows: the ledger implements AtomicLedger.
ImplementsAtomicLedger == Atomic!AtomicSpec

-----------------------------------------------------------------------------
(* The inductive invariant *)

\* A call past its UPDATE holds the row locks it needs, to the end.
LocksAreHeld ==
    \A r \in Requests :
       /\ pc[r] = "updated" => lotLock[plan[r].lot] = r
       /\ pc[r] \in {"purchaseWritten", "relabelled"} =>
             purchaseLock[plan[r].purchase] = r
       /\ pc[r] = "relabelled" /\ plan[r].changed =>
             \A l \in LotsOf(plan[r].purchase) : lotLock[l] = r

\* A lot whose version is the one a call read is, column for column, the row
\* it read: this is what lets an UPDATE by version stand for a lock since the
\* read.  It holds because every writer of the row bumps the version.
VersionIdentifiesRow ==
    \A r \in Requests : pc[r] \in {"planned", "updated"} =>
       /\ asset[plan[r].lot] # NoRow
       /\ plan[r].row.version <= asset[plan[r].lot].version
       /\ plan[r].row.version = asset[plan[r].lot].version =>
             plan[r].row = asset[plan[r].lot]
       /\ pc[r] = "updated" => plan[r].row = asset[plan[r].lot]

\* What a call intends follows from the row it read.
PlansFollowRows ==
    \A r \in Requests : pc[r] \in {"planned", "updated"} =>
       /\ plan[r].row.status = "HELD"
       /\ plan[r].op = "dispose" =>
             \E quantity \in 1..plan[r].row.figures.quantity :
                plan[r].split \in Splits(plan[r].row.figures, quantity)
       /\ plan[r].op = "update" =>
             /\ plan[r].figures # Keep => plan[r].figures.quantity > 0
             /\ plan[r].input.currency # Keep => plan[r].lot \in GiftLots

\* While a correction holds its lots nothing can be booked on them behind it.
BookingsAreSeen ==
    \A r \in Requests : pc[r] = "relabelled" /\ plan[r].changed =>
       plan[r].booked = BookedMovements(plan[r].purchase)

RowsAreBackedUp ==
    /\ \A l \in Lots \ GiftLots : asset[l] # NoRow
    /\ \A r \in Requests :
         /\ movement[r] # NoMovement => asset[movement[r].lot] # NoRow
         /\ edit[r] # NoEdit => asset[edit[r].lot] # NoRow
         /\ pc[r] # "committed" => movement[r] = NoMovement /\ edit[r] = NoEdit

\* Inductive: the named properties with the discipline they rest on.
LedgerInv ==
    /\ TypeOK
    /\ LocksAreHeld
    /\ VersionIdentifiesRow
    /\ PlansFollowRows
    /\ BookingsAreSeen
    /\ RowsAreBackedUp
    /\ DisposedLotsAreExplained
    /\ BookedCurrencyFollowsLot
    /\ SiblingLotsShareCurrency

-----------------------------------------------------------------------------
(* Liveness *)

\* No call waits for ever on another's row locks: once it has read its row it
\* is answered, one way or the other.
CallsAreAnswered ==
    \A r \in Requests :
       pc[r] # "new" ~> pc[r] \in {"committed", "refused"}

-----------------------------------------------------------------------------
(* What the documents say and the code does not do *)

\* README.md:434-436, the purchase and its lots "move together in one
\* transaction": a purchase is labelled like the lots it produced.
PurchaseAndLotsMoveTogether ==
    \A l \in Lots \ GiftLots :
       asset[l].currency = purchaseCurrency[PurchaseOf[l]]

\* movements.service.ts:389, "Any booked P&L is denominated in the lot's
\* currency": also for a lot received as a gift.
BookedCurrencyFollowsGift ==
    \A r \in Requests :
       (/\ movement[r] # NoMovement
        /\ movement[r].currency # NoCurrency
        /\ movement[r].lot \in GiftLots)
       => movement[r].currency = asset[movement[r].lot].currency
=============================================================================
