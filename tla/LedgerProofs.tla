---------------------------- MODULE LedgerProofs -----------------------------
(***************************************************************************)
(* Theorems about the ledger and its archives.                             *)
(*                                                                         *)
(* About HoldingLedger, for every set of calls, lots, purchases,           *)
(* currencies, locations, opening rows and edits: LedgerInv is inductive;  *)
(* the lemmas show its parts preserved one at a time, each from the whole  *)
(* invariant in the state before.                                          *)
(*                                                                         *)
(* About Backup, for every set of rows, references, archives of older      *)
(* versions and scenarios: an archive is a consistent ledger, a restore    *)
(* replaces the ledger by one, and its files are there.  The tables and    *)
(* foreign keys are those of the code, so what the proofs need of the      *)
(* order of the tables is shown from the two lists.                        *)
(*                                                                         *)
(* The two share no state: each theorem speaks of its component's          *)
(* specification only.                                                     *)
(***************************************************************************)
EXTENDS HoldingLedger, Backup, Portfolio, FiniteSetTheorems, SequenceTheorems,
        WellFoundedInduction, TLAPS

-----------------------------------------------------------------------------
(* The arithmetic and the rows of LedgerRows *)

\* A share of an amount, rounded to the nearest unit, never exceeds it: the
\* remainder splitForDisposal leaves by subtraction is never negative.
LEMMA ShareWithinAmount ==
    ASSUME NEW amount \in Nat, NEW n \in Nat, NEW q \in 1..(n - 1),
           NEW k \in Nearest(amount * q, n)
    PROVE  k \in 0..amount
  <1>1. amount * q \in Nat
    OBVIOUS
  <1>2. k \in Nat /\ 2 * (n * k - amount * q) <= n
    BY <1>1 DEF Nearest
  <1>3. amount * q <= amount * (n - 1)
    OBVIOUS
  <1>4. amount * (n - 1) = n * amount - amount
    OBVIOUS
  <1>5. ASSUME k >= amount + 1 PROVE FALSE
    <2>1. n * k >= n * (amount + 1)
      BY <1>2, <1>5
    <2>2. n * (amount + 1) = n * amount + n
      OBVIOUS
    <2>3. n * k \in Nat /\ n * amount \in Nat
      BY <1>2
    <2>4. n * k - amount * q >= n + amount
      BY <1>1, <1>3, <1>4, <2>1, <2>2, <2>3
    <2> QED
      BY <1>1, <1>2, <2>3, <2>4
  <1> QED
    BY <1>2, <1>5

\* Both halves of a split are balances, they add up to the one that was split,
\* and a half that is empty of pieces is empty of weight and cost.
LEMMA SplitsAddUp ==
    ASSUME NEW f \in Figures, NEW q \in 1..f.quantity, NEW s \in Splits(f, q)
    PROVE  /\ s \in [out : Figures, left : Figures]
           /\ s.out.quantity = q
           /\ s.left.quantity = f.quantity - q
           /\ s.left.weight = f.weight - s.out.weight
           /\ s.left.cost = f.cost - s.out.cost
           /\ s.left.quantity = 0 => s.left = Nothing
  <1>1. f.quantity \in Nat /\ f.weight \in Nat /\ f.cost \in Nat
    BY DEF Figures
  <1>2. CASE q = f.quantity
    <2>1. s = [out |-> f, left |-> Nothing]
      BY <1>2 DEF Splits
    <2>2. s.out = f /\ s.left = Nothing
      BY <2>1
    <2>3. Nothing \in Figures
      BY DEF Nothing, Figures
    <2> QED
      BY <1>1, <1>2, <2>1, <2>2, <2>3 DEF Nothing
  <1>3. CASE q # f.quantity
    <2>1. PICK w \in Nearest(f.weight * q, f.quantity),
               c \in Nearest(f.cost * q, f.quantity) :
             s = [out  |-> [quantity |-> q, weight |-> w, cost |-> c],
                  left |-> [quantity |-> f.quantity - q,
                            weight |-> f.weight - w, cost |-> f.cost - c]]
      BY <1>3 DEF Splits
    <2>2. q \in 1..(f.quantity - 1)
      BY <1>1, <1>3
    <2>3. w \in 0..f.weight /\ c \in 0..f.cost
      BY <1>1, <2>2, ShareWithinAmount
    <2>4. s.out = [quantity |-> q, weight |-> w, cost |-> c]
      BY <2>1
    <2>5. s.left = [quantity |-> f.quantity - q, weight |-> f.weight - w,
                    cost |-> f.cost - c]
      BY <2>1
    <2>6. s.out \in Figures /\ s.left \in Figures
      BY <1>1, <2>2, <2>3, <2>4, <2>5 DEF Figures
    <2> QED
      BY <1>1, <2>1, <2>2, <2>4, <2>5, <2>6
  <1> QED
    BY <1>2, <1>3

-----------------------------------------------------------------------------
(* The invariant *)

\* What TypeOK says of a call's plan, by stage and by operation.
LEMMA PlanTypes ==
    ASSUME TypeOK, NEW r \in Requests
    PROVE  /\ pc[r] \in {"planned", "updated"} =>
                /\ plan[r] \in LotPlans
                /\ plan[r].lot \in Lots
                /\ plan[r].row \in Rows
                /\ plan[r].op = "dispose" => plan[r] \in DisposalPlans
                /\ plan[r].op = "transferStorage" => plan[r] \in TransferPlans
                /\ plan[r].op = "update" => plan[r] \in EditPlans
           /\ pc[r] \in {"relabelling", "purchaseWritten", "relabelled"} =>
                plan[r] \in RelabelPlans
  <1>1. pc[r] \in {"planned", "updated"} => plan[r] \in LotPlans
    BY DEF TypeOK
  <1>2. pc[r] \in {"relabelling", "purchaseWritten", "relabelled"} =>
           plan[r] \in RelabelPlans
    BY DEF TypeOK
  <1> QED
    BY <1>1, <1>2 DEF LotPlans, DisposalPlans, TransferPlans, EditPlans

\* The rows a call writes are rows.
LEMMA WrittenRowTypes ==
    ASSUME NEW stored \in Rows
    PROVE  /\ \A kind \in DisposalKinds, split \in Splitting :
                AfterDisposal(stored, kind, split) \in Rows
           /\ \A to \in Locations : AfterTransfer(stored, to) \in Rows
           /\ \A input \in Corrections, figures \in Figures \cup {Keep} :
                AfterCorrection(stored, input, figures) \in Rows
           /\ \A c \in Currencies : AfterRelabel(stored, c) \in Rows
  <1>1. ASSUME NEW kind \in DisposalKinds, NEW n \in Nat
        PROVE  StatusAfterDisposal(kind, n) \in Statuses
    BY DEF StatusAfterDisposal, DisposalKinds, Statuses
  <1>2. ASSUME NEW kind \in DisposalKinds, NEW split \in Splitting
        PROVE  AfterDisposal(stored, kind, split) \in Rows
    <2>1. split.left \in Figures /\ split.left.quantity \in Nat
      BY DEF Splitting, Figures
    <2> QED
      BY <1>1, <2>1 DEF AfterDisposal, Rows
  <1>3. ASSUME NEW to \in Locations PROVE AfterTransfer(stored, to) \in Rows
    BY DEF AfterTransfer, Rows
  <1>4. ASSUME NEW input \in Corrections, NEW figures \in Figures \cup {Keep}
        PROVE  AfterCorrection(stored, input, figures) \in Rows
    <2>1. Over(figures, stored.figures) \in Figures
      BY DEF Over, Rows
    <2>2. Over(input.currency, stored.currency) \in Currencies
      BY DEF Over, Rows, Corrections
    <2>3. Over(input.location, stored.location) \in Locations
      BY DEF Over, Rows, Corrections
    <2> QED
      BY <2>1, <2>2, <2>3 DEF AfterCorrection, Rows
  <1>5. ASSUME NEW c \in Currencies PROVE AfterRelabel(stored, c) \in Rows
    BY DEF AfterRelabel, Rows
  <1> QED
    BY <1>2, <1>3, <1>4, <1>5

\* So are the movements, whatever row the call read.
LEMMA MovementTypes ==
    ASSUME NEW l \in Lots, NEW row \in Rows
    PROVE  /\ \A kind \in DisposalKinds, split \in Splitting :
                DisposalMovement(l, row, kind, split) \in Movements
           /\ \A to \in Locations : TransferMovement(l, row, to) \in Movements
           /\ \A f \in Figures : GiftMovement(l, f) \in Movements
  BY DEF DisposalMovement, TransferMovement, GiftMovement, Movements, Rows,
         Splitting, MovementKinds, DisposalKinds, Nothing, Figures

\* A quantity edit rescales the weight to a natural number.
LEMMA CorrectedTypes ==
    ASSUME NEW old \in Figures, NEW input \in Corrections,
           NEW f \in CorrectedFigures(old, input)
    PROVE  f \in Figures \cup {Keep}
  BY DEF CorrectedFigures, Corrections, Figures, Over, Nearest

\* No edit empties a lot: a quantity of zero is refused.
LEMMA CorrectedQuantity ==
    ASSUME NEW old \in Figures, old.quantity > 0, NEW input \in Corrections,
           input.quantity # 0, NEW f \in CorrectedFigures(old, input), f # Keep
    PROVE  f.quantity > 0
  <1>1. f.quantity = Over(input.quantity, old.quantity)
    BY DEF CorrectedFigures
  <1> QED
    BY <1>1 DEF Over, Corrections

-----------------------------------------------------------------------------
(* Type correctness *)

\* Ending a transaction keeps the locks, stages and plans well typed.
LEMMA FinishTypes ==
    ASSUME TypeOK, NEW r \in Requests, NEW outcome \in {"committed", "refused"},
           Finish(r, outcome)
    PROVE  /\ lotLock' \in [Lots -> Requests \cup {NoRequest}]
           /\ purchaseLock' \in [Purchases -> Requests \cup {NoRequest}]
           /\ pc' \in [Requests -> {"new", "planned", "updated", "relabelling",
                        "purchaseWritten", "relabelled", "committed", "refused"}]
           /\ plan' \in [Requests -> Plans]
           /\ \A s \in Requests :
                /\ pc'[s] \in {"planned", "updated"} => plan'[s] \in LotPlans
                /\ pc'[s] \in {"relabelling", "purchaseWritten", "relabelled"} =>
                      plan'[s] \in RelabelPlans
                /\ pc'[s] \in {"new", "committed", "refused"} => plan'[s] = NoPlan
  <1>1. NoPlan \in Plans /\ plan' \in [Requests -> Plans]
    BY DEF TypeOK, Finish, Plans
  <1>2. lotLock' \in [Lots -> Requests \cup {NoRequest}]
    BY DEF TypeOK, Finish
  <1>3. purchaseLock' \in [Purchases -> Requests \cup {NoRequest}]
    BY DEF TypeOK, Finish
  <1> QED
    BY <1>1, <1>2, <1>3 DEF TypeOK, Finish

\* A call past its UPDATE works on the row as it is stored.
LEMMA UpdatedRow ==
    ASSUME LedgerInv, NEW r \in Requests, pc[r] = "updated"
    PROVE  /\ plan[r].lot \in Lots
           /\ asset[plan[r].lot] \in Rows
           /\ plan[r].row = asset[plan[r].lot]
           /\ asset[plan[r].lot].status = "HELD"
           /\ lotLock[plan[r].lot] = r
  <1>1. TypeOK /\ VersionIdentifiesRow /\ PlansFollowRows /\ LocksAreHeld
    BY DEF LedgerInv
  <1>2. plan[r].lot \in Lots
    BY <1>1, PlanTypes
  <1>3. asset[plan[r].lot] # NoRow /\ plan[r].row = asset[plan[r].lot]
    BY <1>1 DEF VersionIdentifiesRow
  <1>4. asset[plan[r].lot] \in Rows
    BY <1>1, <1>2, <1>3 DEF TypeOK
  <1> QED
    BY <1>1, <1>2, <1>3, <1>4 DEF PlansFollowRows, LocksAreHeld

\* A purchased lot is stored from the start and is no gift.
LEMMA PurchasedRow ==
    ASSUME LedgerInv, NEW p \in Purchases, NEW l \in LotsOf(p)
    PROVE  l \in Lots /\ l \notin GiftLots /\ asset[l] \in Rows
  BY RowsAssumption DEF LedgerInv, TypeOK, RowsAreBackedUp, LotsOf, GiftLots

\* The movements a correction relabels are the booked ones of its lots.
LEMMA BookedAreMovements ==
    ASSUME LedgerInv, NEW r \in Requests, pc[r] = "relabelled", plan[r].changed
    PROVE  /\ plan[r] \in RelabelPlans
           /\ plan[r].booked = BookedMovements(plan[r].purchase)
           /\ \A b \in plan[r].booked : b \in Requests /\ movement[b] \in Movements
  <1>1. TypeOK /\ BookingsAreSeen
    BY DEF LedgerInv
  <1>2. plan[r] \in RelabelPlans
    BY <1>1, PlanTypes
  <1>3. plan[r].booked = BookedMovements(plan[r].purchase)
    BY <1>1 DEF BookingsAreSeen
  <1> QED
    BY <1>1, <1>2, <1>3 DEF BookedMovements, TypeOK

\* Every step keeps every variable of the type its column or stage has.
LEMMA TypeStep ==
    ASSUME LedgerInv, [Next]_vars
    PROVE  TypeOK'
  <1>1. TypeOK
    BY DEF LedgerInv
  <1>2. ASSUME NEW r \in Requests, NEW p, Plan(r, p), p \in LotPlans
        PROVE  TypeOK'
    <2>1. p \in Plans
      BY <1>2 DEF Plans
    <2>2. plan' \in [Requests -> Plans]
      BY <1>1, <1>2, <2>1 DEF TypeOK, Plan
    <2> QED
      BY <1>1, <1>2, <2>2 DEF TypeOK, Plan, tables, locks
  <1>3. ASSUME NEW r \in Requests, NEW l \in Lots, ReadForDisposal(r, l)
        PROVE  TypeOK'
    <2>1. asset[l] \in Rows /\ asset[l].figures \in Figures
      BY <1>1, <1>3 DEF TypeOK, ReadForDisposal, Held, Rows
    <2>2. PICK kind \in KindInputs, quantity \in 1..asset[l].figures.quantity :
             \E split \in Splits(asset[l].figures, quantity) :
                Plan(r, [op |-> "dispose", lot |-> l, row |-> asset[l],
                         kind |-> kind, split |-> split])
      BY <1>3 DEF ReadForDisposal
    <2>3. PICK split \in Splits(asset[l].figures, quantity) :
             Plan(r, [op |-> "dispose", lot |-> l, row |-> asset[l],
                      kind |-> kind, split |-> split])
      BY <2>2
    <2>4. split \in Splitting
      BY <2>1, <2>2, <2>3, SplitsAddUp DEF Splitting
    <2>5. kind \in DisposalKinds
      BY LedgerAssumption
    <2>6. [op |-> "dispose", lot |-> l, row |-> asset[l],
           kind |-> kind, split |-> split] \in LotPlans
      BY <2>1, <2>4, <2>5 DEF LotPlans, DisposalPlans
    <2> QED
      BY <1>2, <2>3, <2>6
  <1>4. ASSUME NEW r \in Requests, NEW l \in Lots, ReadForTransfer(r, l)
        PROVE  TypeOK'
    <2>1. asset[l] \in Rows
      BY <1>1, <1>4 DEF TypeOK, ReadForTransfer, Held
    <2>2. PICK to \in Locations :
             Plan(r, [op |-> "transferStorage", lot |-> l, row |-> asset[l],
                      to |-> to])
      BY <1>4 DEF ReadForTransfer
    <2>3. [op |-> "transferStorage", lot |-> l, row |-> asset[l], to |-> to]
             \in LotPlans
      BY <2>1 DEF LotPlans, TransferPlans
    <2> QED
      BY <1>2, <2>2, <2>3
  <1>5. ASSUME NEW r \in Requests, NEW l \in Lots, ReadForEdit(r, l)
        PROVE  TypeOK'
    <2>1. asset[l] \in Rows /\ asset[l].figures \in Figures
      BY <1>1, <1>5 DEF TypeOK, ReadForEdit, Held, Rows
    <2>2. PICK input \in EditInputs :
             \E figures \in CorrectedFigures(asset[l].figures, input) :
                Plan(r, [op |-> "update", lot |-> l, row |-> asset[l],
                         input |-> input, figures |-> figures])
      BY <1>5 DEF ReadForEdit
    <2>2a. PICK figures \in CorrectedFigures(asset[l].figures, input) :
             Plan(r, [op |-> "update", lot |-> l, row |-> asset[l],
                      input |-> input, figures |-> figures])
      BY <2>2
    <2>3. figures \in Figures \cup {Keep}
      BY <2>1, CorrectedTypes, LedgerAssumption
    <2>4. [op |-> "update", lot |-> l, row |-> asset[l],
           input |-> input, figures |-> figures] \in LotPlans
      BY <2>1, <2>3 DEF LotPlans, EditPlans
    <2> QED
      BY <1>2, <2>2a, <2>4
  <1>6. ASSUME NEW r \in Requests, NEW l \in Lots, ReceiveGift(r, l)
        PROVE  TypeOK'
    <2>1. PICK figures \in GiftInputs, c \in Currencies, location \in Locations :
             /\ asset' = [asset EXCEPT ![l] = GiftRow(figures, c, location)]
             /\ movement' = [movement EXCEPT ![r] = GiftMovement(l, figures)]
      BY <1>6 DEF ReceiveGift
    <2>2. figures \in Figures
      BY LedgerAssumption
    <2>3. GiftRow(figures, c, location) \in Rows
      BY <2>2 DEF GiftRow, Rows, Statuses
    <2>4. GiftMovement(l, figures) \in Movements
      BY <2>2 DEF GiftMovement, Movements, MovementKinds
    <2>5. asset' \in [Lots -> Rows \cup {NoRow}]
      BY <1>1, <2>1, <2>3 DEF TypeOK
    <2>6. movement' \in [Requests -> Movements \cup {NoMovement}]
      BY <1>1, <2>1, <2>4 DEF TypeOK
    <2> QED
      BY <1>1, <1>6, <2>5, <2>6 DEF TypeOK, ReceiveGift, locks
  <1>7. ASSUME NEW r \in Requests, NEW p \in Purchases, ReadForRelabel(r, p)
        PROVE  TypeOK'
    <2>1. PICK c \in Currencies :
             plan' = [plan EXCEPT ![r] =
                        [op |-> "relabel", purchase |-> p, currency |-> c,
                         changed |-> c # purchaseCurrency[p], booked |-> {}]]
      BY <1>7 DEF ReadForRelabel
    <2>2. [op |-> "relabel", purchase |-> p, currency |-> c,
           changed |-> c # purchaseCurrency[p], booked |-> {}] \in RelabelPlans
      BY DEF RelabelPlans
    <2>3. plan' \in [Requests -> Plans]
      BY <1>1, <2>1, <2>2 DEF TypeOK, Plans
    <2> QED
      BY <1>1, <1>7, <2>1, <2>2, <2>3 DEF TypeOK, ReadForRelabel, tables, locks
  <1>8. ASSUME NEW r \in Requests, GuardedUpdate(r) PROVE TypeOK'
    <2>1. plan[r].lot \in Lots
      BY <1>1, <1>8, PlanTypes DEF GuardedUpdate
    <2> QED
      BY <1>1, <1>8, <2>1 DEF TypeOK, GuardedUpdate, tables
  <1>9. ASSUME NEW r \in Requests, ConflictAtUpdate(r) PROVE TypeOK'
    <2>1. plan' \in [Requests -> Plans]
      BY <1>1, <1>9 DEF TypeOK, ConflictAtUpdate, Plans
    <2> QED
      BY <1>1, <1>9, <2>1 DEF TypeOK, ConflictAtUpdate, tables, locks
  <1>10. ASSUME NEW r \in Requests, CommitDisposal(r) PROVE TypeOK'
    <2>1. plan[r] \in DisposalPlans /\ asset[plan[r].lot] \in Rows
          /\ plan[r].row \in Rows
      BY <1>1, <1>10, PlanTypes, UpdatedRow DEF CommitDisposal
    <2>2. plan[r].lot \in Lots /\ plan[r].kind \in DisposalKinds
          /\ plan[r].split \in Splitting
      BY <2>1 DEF DisposalPlans
    <2>3. AfterDisposal(asset[plan[r].lot], plan[r].kind, plan[r].split) \in Rows
      BY <2>1, <2>2, WrittenRowTypes
    <2>4. DisposalMovement(plan[r].lot, plan[r].row, plan[r].kind, plan[r].split)
             \in Movements
      BY <2>1, <2>2, MovementTypes
    <2>5. asset' \in [Lots -> Rows \cup {NoRow}]
      BY <1>1, <1>10, <2>3 DEF TypeOK, CommitDisposal
    <2>6. movement' \in [Requests -> Movements \cup {NoMovement}]
      BY <1>1, <1>10, <2>4 DEF TypeOK, CommitDisposal
    <2> QED
      BY <1>1, <1>10, <2>5, <2>6, FinishTypes DEF TypeOK, CommitDisposal
  <1>11. ASSUME NEW r \in Requests, CommitTransfer(r) PROVE TypeOK'
    <2>1. plan[r] \in TransferPlans /\ asset[plan[r].lot] \in Rows
          /\ plan[r].row \in Rows
      BY <1>1, <1>11, PlanTypes, UpdatedRow DEF CommitTransfer
    <2>2. plan[r].lot \in Lots /\ plan[r].to \in Locations
      BY <2>1 DEF TransferPlans
    <2>3. AfterTransfer(asset[plan[r].lot], plan[r].to) \in Rows
      BY <2>1, <2>2, WrittenRowTypes
    <2>4. TransferMovement(plan[r].lot, plan[r].row, plan[r].to) \in Movements
      BY <2>1, <2>2, MovementTypes
    <2>5. asset' \in [Lots -> Rows \cup {NoRow}]
      BY <1>1, <1>11, <2>3 DEF TypeOK, CommitTransfer
    <2>6. movement' \in [Requests -> Movements \cup {NoMovement}]
      BY <1>1, <1>11, <2>4 DEF TypeOK, CommitTransfer
    <2> QED
      BY <1>1, <1>11, <2>5, <2>6, FinishTypes DEF TypeOK, CommitTransfer
  <1>12. ASSUME NEW r \in Requests, CommitEdit(r) PROVE TypeOK'
    <2>1. plan[r] \in EditPlans /\ asset[plan[r].lot] \in Rows
          /\ plan[r].row \in Rows
      BY <1>1, <1>12, PlanTypes, UpdatedRow DEF CommitEdit
    <2>2. plan[r].lot \in Lots /\ plan[r].input \in Corrections
          /\ plan[r].figures \in Figures \cup {Keep}
      BY <2>1, LedgerAssumption DEF EditPlans
    <2>3. AfterCorrection(asset[plan[r].lot], plan[r].input, plan[r].figures) \in Rows
      BY <2>1, <2>2, WrittenRowTypes
    <2>4. asset' \in [Lots -> Rows \cup {NoRow}]
      BY <1>1, <1>12, <2>3 DEF TypeOK, CommitEdit
    <2>5. asset'[plan[r].lot] \in Rows
      BY <1>1, <1>12, <2>2, <2>3 DEF TypeOK, CommitEdit
    <2>6. [lot |-> plan[r].lot, before |-> plan[r].row.figures,
           after |-> asset'[plan[r].lot].figures] \in Edits
      BY <2>1, <2>2, <2>5 DEF Edits, Rows
    <2>7. edit' \in [Requests -> Edits \cup {NoEdit}]
      BY <1>1, <1>12, <2>6 DEF TypeOK, CommitEdit
    <2> QED
      BY <1>1, <1>12, <2>4, <2>7, FinishTypes DEF TypeOK, CommitEdit
  <1>13. ASSUME NEW r \in Requests, WritePurchase(r) PROVE TypeOK'
    <2>1. plan[r] \in RelabelPlans
      BY <1>1, <1>13, PlanTypes DEF WritePurchase
    <2>2. plan[r].purchase \in Purchases
      BY <2>1 DEF RelabelPlans
    <2>3. purchaseLock' \in [Purchases -> Requests \cup {NoRequest}]
      BY <1>1, <1>13, <2>2 DEF TypeOK, WritePurchase
    <2> QED
      BY <1>1, <1>13, <2>1, <2>3 DEF TypeOK, WritePurchase, tables
  <1>14. ASSUME NEW r \in Requests, NEW l \in Lots, RelabelLot(r, l)
         PROVE  TypeOK'
    BY <1>1, <1>14 DEF TypeOK, RelabelLot, tables
  <1>15. ASSUME NEW r \in Requests, RelabelMovements(r) PROVE TypeOK'
    <2>1. plan[r] \in RelabelPlans
      BY <1>1, <1>15, PlanTypes DEF RelabelMovements
    <2>2. BookedMovements(plan[r].purchase) \in SUBSET Requests
      BY DEF BookedMovements
    <2>3. [plan[r] EXCEPT !.booked = BookedMovements(plan[r].purchase)]
             \in RelabelPlans
      BY <2>1, <2>2 DEF RelabelPlans
    <2>4. plan' = [plan EXCEPT ![r] =
             [plan[r] EXCEPT !.booked = BookedMovements(plan[r].purchase)]]
      BY <1>1, <1>15 DEF TypeOK, RelabelMovements
    <2>5. plan' \in [Requests -> Plans]
      BY <1>1, <2>3, <2>4 DEF TypeOK, Plans
    <2> QED
      BY <1>1, <1>15, <2>3, <2>4, <2>5 DEF TypeOK, RelabelMovements, tables, locks
  <1>16. ASSUME NEW r \in Requests, CommitRelabel(r) PROVE TypeOK'
    <2>1. plan[r] \in RelabelPlans
      BY <1>1, <1>16, PlanTypes DEF CommitRelabel
    <2>2. plan[r].purchase \in Purchases /\ plan[r].currency \in Currencies
      BY <2>1 DEF RelabelPlans
    <2>3. asset' \in [Lots -> Rows \cup {NoRow}]
      <3>1. CASE ~ plan[r].changed
        BY <1>1, <1>16, <3>1 DEF TypeOK, CommitRelabel
      <3>2. CASE plan[r].changed
        <4>1. \A l \in LotsOf(plan[r].purchase) :
                 AfterRelabel(asset[l], plan[r].currency) \in Rows
          BY <2>2, PurchasedRow, WrittenRowTypes
        <4> QED
          BY <1>1, <1>16, <3>2, <4>1 DEF TypeOK, CommitRelabel, RelabelledLots
      <3> QED
        BY <3>1, <3>2
    <2>4. movement' \in [Requests -> Movements \cup {NoMovement}]
      <3>1. CASE ~ plan[r].changed
        BY <1>1, <1>16, <3>1 DEF TypeOK, CommitRelabel
      <3>2. CASE plan[r].changed
        <4>1. \A b \in plan[r].booked :
                 [movement[b] EXCEPT !.currency = plan[r].currency] \in Movements
          BY <1>16, <2>2, <3>2, BookedAreMovements DEF CommitRelabel, Movements
        <4> QED
          BY <1>1, <1>16, <3>2, <4>1 DEF TypeOK, CommitRelabel
      <3> QED
        BY <3>1, <3>2
    <2>5. purchaseCurrency' \in [Purchases -> Currencies]
      BY <1>1, <1>16, <2>2 DEF TypeOK, CommitRelabel
    <2> QED
      BY <1>1, <1>16, <2>3, <2>4, <2>5, FinishTypes
         DEF TypeOK, CommitRelabel
  <1>17. ASSUME NEW r \in Requests, Abandon(r) PROVE TypeOK'
    BY <1>1, <1>17, FinishTypes DEF TypeOK, Abandon, tables
  <1>18. CASE UNCHANGED vars
    BY <1>1, <1>18 DEF TypeOK, vars, tables, locks
  <1> QED
    BY <1>3, <1>4, <1>5, <1>6, <1>7, <1>8, <1>9, <1>10, <1>11, <1>12, <1>13,
       <1>14, <1>15, <1>16, <1>17, <1>18 DEF Next, LotCall, Progress, Idle

-----------------------------------------------------------------------------
(* What a step does, said once for the lemmas below *)

\* Only the commits and the receipt of a gift change a table.
LEMMA TablesChange ==
    ASSUME [Next]_vars
    PROVE  \/ UNCHANGED tables
           \/ \E r \in Requests :
                \/ CommitDisposal(r)
                \/ CommitTransfer(r)
                \/ CommitEdit(r)
                \/ CommitRelabel(r)
                \/ \E l \in Lots : ReceiveGift(r, l)
  <1>1. ASSUME NEW r \in Requests, Progress(r),
               ~ CommitDisposal(r), ~ CommitTransfer(r), ~ CommitEdit(r),
               ~ CommitRelabel(r)
        PROVE  UNCHANGED tables
    BY <1>1 DEF Progress, GuardedUpdate, ConflictAtUpdate, WritePurchase,
                RelabelLot, RelabelMovements
  <1>2. ASSUME NEW r \in Requests, NEW l \in Lots, ReadForDisposal(r, l)
        PROVE  UNCHANGED tables
    BY <1>2 DEF ReadForDisposal, Plan
  <1>3. ASSUME NEW r \in Requests, NEW l \in Lots, ReadForTransfer(r, l)
        PROVE  UNCHANGED tables
    BY <1>3 DEF ReadForTransfer, Plan
  <1>4. ASSUME NEW r \in Requests, NEW l \in Lots, ReadForEdit(r, l)
        PROVE  UNCHANGED tables
    BY <1>4 DEF ReadForEdit, Plan
  <1>5. ASSUME NEW r \in Requests, NEW p \in Purchases, ReadForRelabel(r, p)
        PROVE  UNCHANGED tables
    BY <1>5 DEF ReadForRelabel
  <1>6. ASSUME NEW r \in Requests, Abandon(r) PROVE UNCHANGED tables
    BY <1>6 DEF Abandon
  <1>7. CASE UNCHANGED vars
    BY <1>7 DEF vars
  <1> QED
    BY <1>1, <1>2, <1>3, <1>4, <1>5, <1>6, <1>7 DEF Next, LotCall, Idle

\* A disposal commits against the row it read, as it is stored.
LEMMA DisposalEffect ==
    ASSUME LedgerInv, NEW r \in Requests, CommitDisposal(r)
    PROVE  \E l \in Lots, kind \in DisposalKinds :
             /\ lotLock[l] = r /\ l = plan[r].lot
             /\ asset[l] \in Rows /\ asset[l].status = "HELD"
             /\ movement[r] = NoMovement /\ edit[r] = NoEdit
             /\ \E q \in 1..asset[l].figures.quantity :
                  \E split \in Splits(asset[l].figures, q) :
                     /\ asset' = [asset EXCEPT ![l] =
                                    AfterDisposal(asset[l], kind, split)]
                     /\ movement' = [movement EXCEPT ![r] =
                                    DisposalMovement(l, asset[l], kind, split)]
             /\ asset'[l] \in Rows
             /\ UNCHANGED <<edit, purchaseCurrency>>
             /\ pc' = [pc EXCEPT ![r] = "committed"]
  <1> DEFINE l == plan[r].lot
             kind == plan[r].kind
             split == plan[r].split
  <1>1. TypeOK /\ pc[r] = "updated" /\ plan[r].op = "dispose"
    BY DEF LedgerInv, CommitDisposal
  <1>2. l \in Lots /\ asset[l] \in Rows /\ plan[r].row = asset[l]
        /\ asset[l].status = "HELD" /\ lotLock[l] = r
    BY <1>1, UpdatedRow
  <1>3. plan[r] \in DisposalPlans
    BY <1>1, PlanTypes
  <1>4. kind \in DisposalKinds
    BY <1>3 DEF DisposalPlans
  <1>5. \E q \in 1..asset[l].figures.quantity :
           split \in Splits(asset[l].figures, q)
    BY <1>1, <1>2 DEF LedgerInv, PlansFollowRows
  <1>6. movement[r] = NoMovement /\ edit[r] = NoEdit
    BY <1>1 DEF LedgerInv, RowsAreBackedUp
  <1>7. asset' = [asset EXCEPT ![l] = AfterDisposal(asset[l], kind, split)]
    BY DEF CommitDisposal
  <1>8. movement' = [movement EXCEPT ![r] =
                       DisposalMovement(l, asset[l], kind, split)]
    BY <1>2 DEF CommitDisposal
  <1>9. UNCHANGED <<edit, purchaseCurrency>>
        /\ pc' = [pc EXCEPT ![r] = "committed"]
    BY DEF CommitDisposal, Finish
  <1>10. AfterDisposal(asset[l], kind, split) \in Rows
    BY <1>2, <1>3, <1>4, WrittenRowTypes DEF DisposalPlans
  <1>11. asset'[l] \in Rows
    BY <1>1, <1>2, <1>7, <1>10 DEF TypeOK
  <1> HIDE DEF l, kind, split
  <1> QED
    BY <1>2, <1>4, <1>5, <1>6, <1>7, <1>8, <1>9, <1>11 DEF l

\* So does a transfer.
LEMMA TransferEffect ==
    ASSUME LedgerInv, NEW r \in Requests, CommitTransfer(r)
    PROVE  \E l \in Lots, to \in Locations :
             /\ lotLock[l] = r /\ l = plan[r].lot
             /\ asset[l] \in Rows /\ asset[l].status = "HELD"
             /\ movement[r] = NoMovement /\ edit[r] = NoEdit
             /\ asset' = [asset EXCEPT ![l] = AfterTransfer(asset[l], to)]
             /\ movement' = [movement EXCEPT ![r] =
                               TransferMovement(l, asset[l], to)]
             /\ asset'[l] \in Rows
             /\ UNCHANGED <<edit, purchaseCurrency>>
             /\ pc' = [pc EXCEPT ![r] = "committed"]
  <1>1. TypeOK /\ pc[r] = "updated" /\ plan[r].op = "transferStorage"
    BY DEF LedgerInv, CommitTransfer
  <1>2. plan[r].lot \in Lots /\ asset[plan[r].lot] \in Rows
        /\ plan[r].row = asset[plan[r].lot]
        /\ asset[plan[r].lot].status = "HELD" /\ lotLock[plan[r].lot] = r
    BY <1>1, UpdatedRow
  <1>3. plan[r].to \in Locations
    BY <1>1, PlanTypes DEF TransferPlans
  <1>4. movement[r] = NoMovement /\ edit[r] = NoEdit
    BY <1>1 DEF LedgerInv, RowsAreBackedUp
  <1>5. AfterTransfer(asset[plan[r].lot], plan[r].to) \in Rows
    BY <1>2, <1>3, WrittenRowTypes
  <1>6. asset'[plan[r].lot] \in Rows
    BY <1>1, <1>2, <1>5 DEF TypeOK, CommitTransfer
  <1> QED
    BY <1>2, <1>3, <1>4, <1>6 DEF CommitTransfer, Finish

\* An edit of a purchased lot keeps its currency and its lot is not emptied.
LEMMA EditEffect ==
    ASSUME LedgerInv, NEW r \in Requests, CommitEdit(r)
    PROVE  \E l \in Lots :
             /\ lotLock[l] = r /\ l = plan[r].lot
             /\ asset[l] \in Rows /\ asset[l].status = "HELD"
             /\ movement[r] = NoMovement /\ edit[r] = NoEdit
             /\ asset' = [asset EXCEPT ![l] = asset'[l]]
             /\ asset'[l] \in Rows
             /\ asset'[l].status = "HELD"
             /\ asset'[l].version = asset[l].version + 1
             /\ asset'[l].figures.quantity > 0
             /\ l \in GiftLots \/ asset'[l].currency = asset[l].currency
             /\ edit' = [edit EXCEPT ![r] =
                           [lot |-> l, before |-> asset[l].figures,
                            after |-> asset'[l].figures]]
             /\ UNCHANGED <<movement, purchaseCurrency>>
             /\ pc' = [pc EXCEPT ![r] = "committed"]
  <1> DEFINE l == plan[r].lot
             new == AfterCorrection(asset[l], plan[r].input, plan[r].figures)
  <1>1. TypeOK /\ pc[r] = "updated" /\ plan[r].op = "update"
    BY DEF LedgerInv, CommitEdit
  <1>2. l \in Lots /\ asset[l] \in Rows /\ plan[r].row = asset[l]
        /\ asset[l].status = "HELD" /\ lotLock[l] = r
    BY <1>1, UpdatedRow
  <1>3. plan[r] \in EditPlans
    BY <1>1, PlanTypes
  <1>4. plan[r].input \in Corrections /\ plan[r].figures \in Figures \cup {Keep}
    BY <1>3, LedgerAssumption DEF EditPlans
  <1>5. new \in Rows
    BY <1>2, <1>4, WrittenRowTypes
  <1>6. /\ plan[r].figures # Keep => plan[r].figures.quantity > 0
        /\ plan[r].input.currency # Keep => l \in GiftLots
    BY <1>1 DEF LedgerInv, PlansFollowRows
  <1>7. asset[l].figures.quantity > 0
    BY <1>1, <1>2 DEF LedgerInv, DisposedLotsAreExplained, VersionIdentifiesRow
  <1>8. new.figures.quantity > 0
    BY <1>6, <1>7 DEF AfterCorrection, Over
  <1>9. l \in GiftLots \/ new.currency = asset[l].currency
    BY <1>6 DEF AfterCorrection, Over
  <1>10. new.status = "HELD" /\ new.version = asset[l].version + 1
    BY <1>2 DEF AfterCorrection
  <1>11. asset' = [asset EXCEPT ![l] = new] /\ asset'[l] = new
    BY <1>1, <1>2 DEF CommitEdit, TypeOK
  <1>12. movement[r] = NoMovement /\ edit[r] = NoEdit
    BY <1>1 DEF LedgerInv, RowsAreBackedUp
  <1>13. edit' = [edit EXCEPT ![r] = [lot |-> l, before |-> asset[l].figures,
                                      after |-> asset'[l].figures]]
    BY <1>2 DEF CommitEdit
  <1>14. UNCHANGED <<movement, purchaseCurrency>>
         /\ pc' = [pc EXCEPT ![r] = "committed"]
    BY DEF CommitEdit, Finish
  <1> HIDE DEF l, new
  <1> QED
    BY <1>2, <1>5, <1>8, <1>9, <1>10, <1>11, <1>12, <1>13, <1>14 DEF l

\* A received gift is a lot nobody had, booked by a movement without a P&L.
LEMMA GiftEffect ==
    ASSUME LedgerInv, NEW r \in Requests, NEW l \in Lots, ReceiveGift(r, l)
    PROVE  /\ l \in GiftLots /\ asset[l] = NoRow /\ asset'[l] \in Rows
           /\ movement[r] = NoMovement /\ edit[r] = NoEdit
           /\ asset' = [asset EXCEPT ![l] = asset'[l]]
           /\ asset'[l] = GiftRow(asset'[l].figures, asset'[l].currency,
                                  asset'[l].location)
           /\ asset'[l].status = "HELD" /\ asset'[l].figures.quantity > 0
           /\ movement' = [movement EXCEPT ![r] =
                             GiftMovement(l, asset'[l].figures)]
           /\ UNCHANGED <<edit, purchaseCurrency, locks, plan>>
           /\ pc' = [pc EXCEPT ![r] = "committed"]
  <1>1. TypeOK
    BY DEF LedgerInv
  <1>2. PICK figures \in GiftInputs, c \in Currencies, location \in Locations :
          /\ asset' = [asset EXCEPT ![l] = GiftRow(figures, c, location)]
          /\ movement' = [movement EXCEPT ![r] = GiftMovement(l, figures)]
    BY DEF ReceiveGift
  <1>3. figures \in Figures /\ figures.quantity > 0
    BY LedgerAssumption
  <1>4. asset'[l] = GiftRow(figures, c, location)
    BY <1>1, <1>2 DEF TypeOK
  <1>5. asset'[l] \in Rows
    BY <1>3, <1>4 DEF GiftRow, Rows, Statuses
  <1>6. asset'[l].figures = figures /\ asset'[l].currency = c
        /\ asset'[l].location = location /\ asset'[l].status = "HELD"
    BY <1>4 DEF GiftRow
  <1>7. movement[r] = NoMovement /\ edit[r] = NoEdit
    BY DEF LedgerInv, RowsAreBackedUp, ReceiveGift
  <1> QED
    BY <1>2, <1>3, <1>4, <1>5, <1>6, <1>7 DEF ReceiveGift

\* A currency correction that changed nothing touches no lot; one that did
\* holds every lot of its purchase and moves them, and all they booked, at once.
LEMMA RelabelEffect ==
    ASSUME LedgerInv, NEW r \in Requests, CommitRelabel(r)
    PROVE  \E p \in Purchases, c \in Currencies :
             /\ pc[r] = "relabelled" /\ p = plan[r].purchase
             /\ \/ UNCHANGED <<asset, movement>>
                \/ /\ plan[r].changed
                   /\ \A l \in LotsOf(p) : lotLock[l] = r
                   /\ asset' = [l \in Lots |-> IF l \in LotsOf(p)
                                  THEN AfterRelabel(asset[l], c) ELSE asset[l]]
                   /\ movement' = [b \in Requests |->
                        IF b \in BookedMovements(p)
                        THEN [movement[b] EXCEPT !.currency = c]
                        ELSE movement[b]]
             /\ UNCHANGED edit
             /\ pc' = [pc EXCEPT ![r] = "committed"]
  <1>1. TypeOK /\ pc[r] = "relabelled"
    BY DEF LedgerInv, CommitRelabel
  <1>2. plan[r] \in RelabelPlans
    BY <1>1, PlanTypes
  <1>3. plan[r].purchase \in Purchases /\ plan[r].currency \in Currencies
        /\ plan[r].changed \in BOOLEAN
    BY <1>2 DEF RelabelPlans
  <1>4. UNCHANGED edit /\ pc' = [pc EXCEPT ![r] = "committed"]
    BY DEF CommitRelabel, Finish
  <1>5. CASE ~ plan[r].changed
    <2>1. UNCHANGED <<asset, movement>>
      BY <1>5 DEF CommitRelabel
    <2> QED
      BY <1>1, <1>3, <1>4, <2>1
  <1>6. CASE plan[r].changed
    <2>1. \A l \in LotsOf(plan[r].purchase) : lotLock[l] = r
      BY <1>1, <1>6 DEF LedgerInv, LocksAreHeld
    <2>2. plan[r].booked = BookedMovements(plan[r].purchase)
      BY <1>1, <1>6, BookedAreMovements
    <2>3. asset' = [l \in Lots |-> IF l \in LotsOf(plan[r].purchase)
                      THEN AfterRelabel(asset[l], plan[r].currency) ELSE asset[l]]
      BY <1>6 DEF CommitRelabel, RelabelledLots
    <2>4. movement' = [b \in Requests |->
             IF b \in BookedMovements(plan[r].purchase)
             THEN [movement[b] EXCEPT !.currency = plan[r].currency]
             ELSE movement[b]]
      BY <1>6, <2>2 DEF CommitRelabel
    <2> QED
      BY <1>1, <1>3, <1>4, <1>6, <2>1, <2>3, <2>4
  <1> QED
    BY <1>3, <1>5, <1>6

\* Every writer of a stored row holds its lock and bumps its version.
LEMMA RowChange ==
    ASSUME LedgerInv, [Next]_vars, NEW l \in Lots
    PROVE  \/ asset'[l] = asset[l]
           \/ asset[l] = NoRow /\ asset'[l] \in Rows
           \/ /\ asset[l] \in Rows /\ asset'[l] \in Rows
              /\ asset'[l].version = asset[l].version + 1
              /\ \E r \in Requests : lotLock[l] = r /\ pc'[r] = "committed"
  <1>1. TypeOK
    BY DEF LedgerInv
  <1>2. ASSUME NEW r \in Requests, CommitDisposal(r),
               asset'[l] # asset[l]
        PROVE  /\ asset[l] \in Rows /\ asset'[l] \in Rows
               /\ asset'[l].version = asset[l].version + 1
               /\ lotLock[l] = r /\ pc'[r] = "committed"
    <2>1. PICK k \in Lots, kind \in DisposalKinds :
             /\ lotLock[k] = r /\ asset[k] \in Rows /\ asset'[k] \in Rows
             /\ \E q \in 1..asset[k].figures.quantity :
                  \E split \in Splits(asset[k].figures, q) :
                     asset' = [asset EXCEPT ![k] = AfterDisposal(asset[k], kind, split)]
             /\ pc' = [pc EXCEPT ![r] = "committed"]
      BY <1>2, DisposalEffect
    <2>2. PICK q \in 1..asset[k].figures.quantity :
             \E split \in Splits(asset[k].figures, q) :
                asset' = [asset EXCEPT ![k] = AfterDisposal(asset[k], kind, split)]
      BY <2>1
    <2>3. PICK split \in Splits(asset[k].figures, q) :
             asset' = [asset EXCEPT ![k] = AfterDisposal(asset[k], kind, split)]
      BY <2>2
    <2>4. k = l
      BY <1>1, <1>2, <2>3 DEF TypeOK
    <2>5. asset'[l] = AfterDisposal(asset[l], kind, split)
      BY <1>1, <2>3, <2>4 DEF TypeOK
    <2> QED
      BY <1>1, <2>1, <2>4, <2>5 DEF AfterDisposal, TypeOK
  <1>3. ASSUME NEW r \in Requests, CommitTransfer(r), asset'[l] # asset[l]
        PROVE  /\ asset[l] \in Rows /\ asset'[l] \in Rows
               /\ asset'[l].version = asset[l].version + 1
               /\ lotLock[l] = r /\ pc'[r] = "committed"
    <2>1. PICK k \in Lots, to \in Locations :
             /\ lotLock[k] = r /\ asset[k] \in Rows /\ asset'[k] \in Rows
             /\ asset' = [asset EXCEPT ![k] = AfterTransfer(asset[k], to)]
             /\ pc' = [pc EXCEPT ![r] = "committed"]
      BY <1>3, TransferEffect
    <2>2. k = l /\ asset'[l] = AfterTransfer(asset[l], to)
      BY <1>1, <1>3, <2>1 DEF TypeOK
    <2> QED
      BY <1>1, <2>1, <2>2 DEF AfterTransfer, TypeOK
  <1>4. ASSUME NEW r \in Requests, CommitEdit(r), asset'[l] # asset[l]
        PROVE  /\ asset[l] \in Rows /\ asset'[l] \in Rows
               /\ asset'[l].version = asset[l].version + 1
               /\ lotLock[l] = r /\ pc'[r] = "committed"
    <2>1. PICK k \in Lots :
             /\ lotLock[k] = r /\ asset[k] \in Rows /\ asset'[k] \in Rows
             /\ asset' = [asset EXCEPT ![k] = asset'[k]]
             /\ asset'[k].version = asset[k].version + 1
             /\ pc' = [pc EXCEPT ![r] = "committed"]
      BY <1>4, EditEffect
    <2>2. k = l
      BY <1>1, <1>4, <2>1 DEF TypeOK
    <2> QED
      BY <1>1, <2>1, <2>2 DEF TypeOK
  <1>5. ASSUME NEW r \in Requests, NEW k \in Lots, ReceiveGift(r, k),
               asset'[l] # asset[l]
        PROVE  asset[l] = NoRow /\ asset'[l] \in Rows
    <2>1. /\ asset[k] = NoRow /\ asset'[k] \in Rows
          /\ asset' = [asset EXCEPT ![k] = asset'[k]]
      BY <1>5, GiftEffect
    <2>2. k = l
      BY <1>1, <1>5, <2>1 DEF TypeOK
    <2> QED
      BY <2>1, <2>2
  <1>6. ASSUME NEW r \in Requests, CommitRelabel(r), asset'[l] # asset[l]
        PROVE  /\ asset[l] \in Rows /\ asset'[l] \in Rows
               /\ asset'[l].version = asset[l].version + 1
               /\ lotLock[l] = r /\ pc'[r] = "committed"
    <2>1. PICK p \in Purchases, c \in Currencies :
             /\ \A k \in LotsOf(p) : lotLock[k] = r
             /\ asset' = [k \in Lots |-> IF k \in LotsOf(p)
                            THEN AfterRelabel(asset[k], c) ELSE asset[k]]
             /\ pc' = [pc EXCEPT ![r] = "committed"]
      BY <1>6, RelabelEffect
    <2>2. l \in LotsOf(p) /\ asset'[l] = AfterRelabel(asset[l], c)
      BY <1>6, <2>1
    <2>3. asset[l] \in Rows /\ asset'[l] \in Rows
      BY <2>2, PurchasedRow, WrittenRowTypes
    <2> QED
      BY <1>1, <2>1, <2>2, <2>3 DEF AfterRelabel, TypeOK
  <1>7. CASE UNCHANGED tables
    BY <1>7 DEF tables
  <1> QED
    BY <1>2, <1>3, <1>4, <1>5, <1>6, <1>7, TablesChange

\* A call with a plan made it now from the stored row, took the lock now on the
\* row it planned for, or already stood where it stands.
LEMMA CallChange ==
    ASSUME LedgerInv, [Next]_vars, NEW s \in Requests,
           pc'[s] \in {"planned", "updated"}
    PROVE  \/ pc'[s] = pc[s] /\ plan'[s] = plan[s]
           \/ /\ pc[s] = "planned" /\ pc'[s] = "updated" /\ plan'[s] = plan[s]
              /\ lotLock'[plan[s].lot] = s
              /\ asset[plan[s].lot].version = plan[s].row.version
              /\ UNCHANGED tables
           \/ /\ pc'[s] = "planned"
              /\ plan'[s].lot \in Lots
              /\ Held(plan'[s].lot)
              /\ plan'[s].row = asset[plan'[s].lot]
              /\ plan'[s].op = "dispose" =>
                    \E quantity \in 1..plan'[s].row.figures.quantity :
                       plan'[s].split \in Splits(plan'[s].row.figures, quantity)
              /\ plan'[s].op = "update" =>
                    /\ plan'[s].figures # Keep => plan'[s].figures.quantity > 0
                    /\ plan'[s].input.currency # Keep => plan'[s].lot \in GiftLots
              /\ UNCHANGED tables
  <1> DEFINE Made ==
              /\ pc'[s] = "planned"
              /\ plan'[s].lot \in Lots
              /\ Held(plan'[s].lot)
              /\ plan'[s].row = asset[plan'[s].lot]
              /\ plan'[s].op = "dispose" =>
                    \E quantity \in 1..plan'[s].row.figures.quantity :
                       plan'[s].split \in Splits(plan'[s].row.figures, quantity)
              /\ plan'[s].op = "update" =>
                    /\ plan'[s].figures # Keep => plan'[s].figures.quantity > 0
                    /\ plan'[s].input.currency # Keep => plan'[s].lot \in GiftLots
              /\ UNCHANGED tables
             Took ==
              /\ pc[s] = "planned" /\ pc'[s] = "updated" /\ plan'[s] = plan[s]
              /\ lotLock'[plan[s].lot] = s
              /\ asset[plan[s].lot].version = plan[s].row.version
              /\ UNCHANGED tables
             Same == pc'[s] = pc[s] /\ plan'[s] = plan[s]
  <1>1. TypeOK
    BY DEF LedgerInv
  <1>2. ASSUME NEW r \in Requests, NEW p, Plan(r, p)
        PROVE  /\ r # s => Same
               /\ r = s => plan'[s] = p /\ pc'[s] = "planned" /\ UNCHANGED tables
    BY <1>1, <1>2 DEF Plan, TypeOK
  <1>3. ASSUME NEW r \in Requests, NEW l \in Lots, ReadForDisposal(r, l)
        PROVE  Same \/ Made
    <2>1. PICK kind \in KindInputs, quantity \in 1..asset[l].figures.quantity :
             \E split \in Splits(asset[l].figures, quantity) :
                Plan(r, [op |-> "dispose", lot |-> l, row |-> asset[l],
                         kind |-> kind, split |-> split])
      BY <1>3 DEF ReadForDisposal
    <2>2. PICK split \in Splits(asset[l].figures, quantity) :
             Plan(r, [op |-> "dispose", lot |-> l, row |-> asset[l],
                      kind |-> kind, split |-> split])
      BY <2>1
    <2>3. Held(l)
      BY <1>3 DEF ReadForDisposal
    <2>4. CASE r = s
      <3>1. plan'[s] = [op |-> "dispose", lot |-> l, row |-> asset[l],
                        kind |-> kind, split |-> split]
            /\ pc'[s] = "planned" /\ UNCHANGED tables
        BY <1>2, <2>2, <2>4
      <3>2. plan'[s].op = "dispose" /\ plan'[s].lot = l
            /\ plan'[s].row = asset[l] /\ plan'[s].split = split
        BY <3>1
      <3> QED
        BY <2>1, <2>2, <2>3, <3>1, <3>2
    <2> QED
      BY <1>2, <2>2, <2>4
  <1>4. ASSUME NEW r \in Requests, NEW l \in Lots, ReadForTransfer(r, l)
        PROVE  Same \/ Made
    <2>1. PICK to \in Locations :
             Plan(r, [op |-> "transferStorage", lot |-> l, row |-> asset[l],
                      to |-> to])
      BY <1>4 DEF ReadForTransfer
    <2>2. Held(l)
      BY <1>4 DEF ReadForTransfer
    <2>3. CASE r = s
      <3>1. plan'[s] = [op |-> "transferStorage", lot |-> l, row |-> asset[l],
                        to |-> to]
            /\ pc'[s] = "planned" /\ UNCHANGED tables
        BY <1>2, <2>1, <2>3
      <3>2. plan'[s].op = "transferStorage" /\ plan'[s].lot = l
            /\ plan'[s].row = asset[l]
        BY <3>1
      <3> QED
        BY <2>2, <3>1, <3>2
    <2> QED
      BY <1>2, <2>1, <2>3
  <1>5. ASSUME NEW r \in Requests, NEW l \in Lots, ReadForEdit(r, l)
        PROVE  Same \/ Made
    <2>1. PICK input \in EditInputs :
             /\ input.quantity # 0
             /\ input.currency # Keep => l \in GiftLots
             /\ \E figures \in CorrectedFigures(asset[l].figures, input) :
                  Plan(r, [op |-> "update", lot |-> l, row |-> asset[l],
                           input |-> input, figures |-> figures])
      BY <1>5 DEF ReadForEdit
    <2>2. PICK figures \in CorrectedFigures(asset[l].figures, input) :
             Plan(r, [op |-> "update", lot |-> l, row |-> asset[l],
                      input |-> input, figures |-> figures])
      BY <2>1
    <2>3. Held(l)
      BY <1>5 DEF ReadForEdit
    <2>4. asset[l].figures.quantity > 0 /\ asset[l].figures \in Figures
      BY <1>1, <2>3 DEF LedgerInv, DisposedLotsAreExplained, Held, TypeOK, Rows
    <2>5. input \in Corrections
      BY LedgerAssumption
    <2>6. figures # Keep => figures.quantity > 0
      BY <2>1, <2>4, <2>5, CorrectedQuantity
    <2>7. CASE r = s
      <3>1. plan'[s] = [op |-> "update", lot |-> l, row |-> asset[l],
                        input |-> input, figures |-> figures]
            /\ pc'[s] = "planned" /\ UNCHANGED tables
        BY <1>2, <2>2, <2>7
      <3>2. plan'[s].op = "update" /\ plan'[s].lot = l /\ plan'[s].input = input
            /\ plan'[s].row = asset[l] /\ plan'[s].figures = figures
        BY <3>1
      <3> QED
        BY <2>1, <2>3, <2>6, <3>1, <3>2
    <2> QED
      BY <1>2, <2>2, <2>7
  <1>6. ASSUME NEW r \in Requests, GuardedUpdate(r)
        PROVE  Same \/ Took
    <2>1. plan[r].lot \in Lots
      BY <1>1, <1>6, PlanTypes DEF GuardedUpdate
    <2> QED
      BY <1>1, <1>6, <2>1 DEF GuardedUpdate, TypeOK
  <1>7. ASSUME NEW r \in Requests, ConflictAtUpdate(r) PROVE Same
    BY <1>1, <1>7 DEF ConflictAtUpdate, TypeOK
  <1>8. ASSUME NEW r \in Requests, NEW o \in {"committed", "refused"},
               Finish(r, o)
        PROVE  Same
    BY <1>1, <1>8 DEF Finish, TypeOK
  <1>9. ASSUME NEW r \in Requests, NEW l \in Lots, ReceiveGift(r, l) PROVE Same
    BY <1>1, <1>9 DEF ReceiveGift, TypeOK
  <1>10. ASSUME NEW r \in Requests, NEW p \in Purchases, ReadForRelabel(r, p)
         PROVE  Same
    BY <1>1, <1>10 DEF ReadForRelabel, TypeOK
  <1>11. ASSUME NEW r \in Requests, WritePurchase(r) PROVE Same
    BY <1>1, <1>11 DEF WritePurchase, TypeOK
  <1>12. ASSUME NEW r \in Requests, NEW l \in Lots, RelabelLot(r, l) PROVE Same
    BY <1>12 DEF RelabelLot
  <1>13. ASSUME NEW r \in Requests, RelabelMovements(r) PROVE Same
    BY <1>1, <1>13 DEF RelabelMovements, TypeOK
  <1>14. ASSUME UNCHANGED vars PROVE Same
    BY <1>14 DEF vars
  <1>15. ASSUME NEW r \in Requests, Progress(r), ~ GuardedUpdate(r) PROVE Same
    BY <1>7, <1>8, <1>11, <1>12, <1>13, <1>15
       DEF Progress, CommitDisposal, CommitTransfer, CommitEdit, CommitRelabel
  <1>16. ASSUME NEW r \in Requests, Abandon(r) PROVE Same
    BY <1>8, <1>16 DEF Abandon
  <1>17. ASSUME NEW r \in Requests, LotCall(r) PROVE Same \/ Made
    BY <1>3, <1>4, <1>5, <1>9, <1>10, <1>17 DEF LotCall
  <1> HIDE DEF Same, Made, Took
  <1>18. Same \/ Made \/ Took
    BY <1>6, <1>14, <1>15, <1>16, <1>17 DEF Next, Idle
  <1>19. CASE Same
    BY <1>19 DEF Same
  <1>20. CASE Took
    BY <1>20 DEF Took
  <1>21. CASE Made
    BY <1>21 DEF Made
  <1> QED
    BY <1>18, <1>19, <1>20, <1>21

\* A row lock is released by the end of the transaction that holds it, and by
\* nothing else.
LEMMA LocksPersist ==
    ASSUME LedgerInv, [Next]_vars, NEW s \in Requests,
           pc'[s] \notin {"committed", "refused"}
    PROVE  /\ \A l \in Lots : lotLock[l] = s => lotLock'[l] = s
           /\ \A p \in Purchases : purchaseLock[p] = s => purchaseLock'[p] = s
  <1> DEFINE AsBefore ==
           /\ \A l \in Lots : lotLock[l] = s => lotLock'[l] = s
           /\ \A p \in Purchases : purchaseLock[p] = s => purchaseLock'[p] = s
  <1>1. TypeOK
    BY DEF LedgerInv
  <1>2. ASSUME NEW r \in Requests, NEW o \in {"committed", "refused"},
               Finish(r, o)
        PROVE  AsBefore
    BY <1>1, <1>2 DEF Finish, TypeOK
  <1>3. ASSUME UNCHANGED locks PROVE AsBefore
    BY <1>3 DEF locks
  <1>4. ASSUME NEW r \in Requests, GuardedUpdate(r) PROVE AsBefore
    <2>1. plan[r].lot \in Lots
      BY <1>1, <1>4, PlanTypes DEF GuardedUpdate
    <2> QED
      BY <1>1, <1>4, <2>1, LedgerAssumption DEF GuardedUpdate, TypeOK
  <1>5. ASSUME NEW r \in Requests, WritePurchase(r) PROVE AsBefore
    <2>1. plan[r].purchase \in Purchases
      BY <1>1, <1>5, PlanTypes DEF WritePurchase, RelabelPlans
    <2> QED
      BY <1>1, <1>5, <2>1, LedgerAssumption DEF WritePurchase, TypeOK
  <1>6. ASSUME NEW r \in Requests, NEW l \in Lots, RelabelLot(r, l) PROVE AsBefore
    BY <1>1, <1>6, LedgerAssumption DEF RelabelLot, TypeOK
  <1>7. ASSUME NEW r \in Requests, LotCall(r) PROVE AsBefore
    BY <1>3, <1>7 DEF LotCall, ReadForDisposal, ReadForTransfer, ReadForEdit,
       ReceiveGift, ReadForRelabel, Plan, locks
  <1>8. ASSUME NEW r \in Requests, Progress(r) PROVE AsBefore
    <2> HIDE DEF AsBefore
    <2> QED
      BY <1>2, <1>3, <1>4, <1>5, <1>6, <1>8
         DEF Progress, ConflictAtUpdate, CommitDisposal, CommitTransfer,
             CommitEdit, CommitRelabel, RelabelMovements
  <1>9. ASSUME NEW r \in Requests, Abandon(r) PROVE AsBefore
    BY <1>2, <1>9 DEF Abandon
  <1>10. ASSUME UNCHANGED vars PROVE AsBefore
    BY <1>10 DEF vars, locks
  <1> HIDE DEF AsBefore
  <1>11. AsBefore
    BY <1>7, <1>8, <1>9, <1>10 DEF Next, Idle
  <1> QED
    BY <1>11 DEF AsBefore

\* A correction past the purchase row holds it; one that has relabelled holds
\* every lot of the purchase and knows what they booked.
LEMMA CorrectionChange ==
    ASSUME LedgerInv, [Next]_vars, NEW s \in Requests,
           pc'[s] \in {"purchaseWritten", "relabelled"}
    PROVE  \/ pc'[s] = pc[s] /\ plan'[s] = plan[s]
           \/ /\ pc[s] = "relabelling" /\ plan'[s] = plan[s]
              /\ purchaseLock'[plan[s].purchase] = s
              /\ pc'[s] = "relabelled" => ~ plan[s].changed
              /\ UNCHANGED tables
           \/ /\ pc[s] = "purchaseWritten" /\ pc'[s] = "relabelled"
              /\ plan'[s].purchase = plan[s].purchase
              /\ plan'[s].booked = BookedMovements(plan[s].purchase)
              /\ \A l \in LotsOf(plan[s].purchase) : lotLock[l] = s
              /\ UNCHANGED <<tables, locks>>
  <1> DEFINE Same == pc'[s] = pc[s] /\ plan'[s] = plan[s]
             Wrote ==
              /\ pc[s] = "relabelling" /\ plan'[s] = plan[s]
              /\ purchaseLock'[plan[s].purchase] = s
              /\ pc'[s] = "relabelled" => ~ plan[s].changed
              /\ UNCHANGED tables
             Relabelled ==
              /\ pc[s] = "purchaseWritten" /\ pc'[s] = "relabelled"
              /\ plan'[s].purchase = plan[s].purchase
              /\ plan'[s].booked = BookedMovements(plan[s].purchase)
              /\ \A l \in LotsOf(plan[s].purchase) : lotLock[l] = s
              /\ UNCHANGED <<tables, locks>>
  <1>1. TypeOK
    BY DEF LedgerInv
  <1>2. ASSUME NEW r \in Requests, NEW o \in {"committed", "refused"},
               Finish(r, o)
        PROVE  Same
    BY <1>1, <1>2 DEF Finish, TypeOK
  <1>3. ASSUME NEW r \in Requests, NEW p, Plan(r, p) PROVE Same
    BY <1>1, <1>3 DEF Plan, TypeOK
  <1>4. ASSUME NEW r \in Requests, LotCall(r) PROVE Same
    <2>1. ASSUME NEW l \in Lots, ReceiveGift(r, l) PROVE Same
      BY <1>1, <2>1 DEF ReceiveGift, TypeOK
    <2>2. ASSUME NEW p \in Purchases, ReadForRelabel(r, p) PROVE Same
      BY <1>1, <2>2 DEF ReadForRelabel, TypeOK
    <2> HIDE DEF Same
    <2> QED
      BY <1>3, <1>4, <2>1, <2>2
         DEF LotCall, ReadForDisposal, ReadForTransfer, ReadForEdit
  <1>5. ASSUME NEW r \in Requests, GuardedUpdate(r) PROVE Same
    BY <1>1, <1>5 DEF GuardedUpdate, TypeOK
  <1>6. ASSUME NEW r \in Requests, ConflictAtUpdate(r) PROVE Same
    BY <1>1, <1>6 DEF ConflictAtUpdate, TypeOK
  <1>7. ASSUME NEW r \in Requests, WritePurchase(r) PROVE Same \/ Wrote
    <2>1. plan[r] \in RelabelPlans
      BY <1>1, <1>7, PlanTypes DEF WritePurchase
    <2>2. plan[r].purchase \in Purchases
      BY <2>1 DEF RelabelPlans
    <2> QED
      BY <1>1, <1>7, <2>2 DEF WritePurchase, TypeOK
  <1>8. ASSUME NEW r \in Requests, NEW l \in Lots, RelabelLot(r, l) PROVE Same
    BY <1>8 DEF RelabelLot
  <1>9. ASSUME NEW r \in Requests, RelabelMovements(r)
        PROVE  Same \/ Relabelled
    <2>1. plan[r] \in RelabelPlans
      BY <1>1, <1>9, PlanTypes DEF RelabelMovements
    <2>2. plan' = [plan EXCEPT ![r] =
             [plan[r] EXCEPT !.booked = BookedMovements(plan[r].purchase)]]
      BY <1>1, <1>9 DEF TypeOK, RelabelMovements
    <2>3. CASE r = s
      <3>1. plan'[s] = [plan[s] EXCEPT !.booked = BookedMovements(plan[s].purchase)]
        BY <1>1, <2>2, <2>3 DEF TypeOK
      <3>2. plan'[s].purchase = plan[s].purchase
            /\ plan'[s].booked = BookedMovements(plan[s].purchase)
        BY <2>1, <2>3, <3>1 DEF RelabelPlans
      <3> QED
        BY <1>1, <1>9, <2>3, <3>2 DEF RelabelMovements, RelabelledLots, TypeOK
    <2>4. CASE r # s
      BY <1>1, <1>9, <2>2, <2>4 DEF RelabelMovements, TypeOK
    <2> QED
      BY <2>3, <2>4
  <1>10. ASSUME NEW r \in Requests, Abandon(r) PROVE Same
    BY <1>2, <1>10 DEF Abandon
  <1>11. ASSUME UNCHANGED vars PROVE Same
    BY <1>11 DEF vars
  <1> HIDE DEF Same, Wrote, Relabelled
  <1>12. ASSUME NEW r \in Requests, Progress(r)
         PROVE  Same \/ Wrote \/ Relabelled
    BY <1>2, <1>5, <1>6, <1>7, <1>8, <1>9, <1>12
       DEF Progress, CommitDisposal, CommitTransfer, CommitEdit, CommitRelabel
  <1>13. Same \/ Wrote \/ Relabelled
    BY <1>4, <1>10, <1>11, <1>12 DEF Next, Idle
  <1> QED
    BY <1>13 DEF Same, Wrote, Relabelled

\* A movement row is only ever added, by the call whose row it is and which
\* holds the lot - or as a gift's receipt, which books nothing - or given
\* another currency when it already had one.
LEMMA MovementChange ==
    ASSUME LedgerInv, [Next]_vars, NEW b \in Requests
    PROVE  \/ movement'[b] = movement[b]
           \/ /\ movement[b] = NoMovement /\ movement'[b] \in Movements
              /\ pc'[b] = "committed"
              /\ asset'[movement'[b].lot] \in Rows
              /\ \/ lotLock[movement'[b].lot] = b
                 \/ movement'[b].lot \in GiftLots /\ movement'[b].currency = NoCurrency
           \/ /\ movement[b] \in Movements /\ movement'[b] \in Movements
              /\ movement'[b].lot = movement[b].lot
              /\ movement'[b].kind = movement[b].kind
              /\ movement'[b].figures = movement[b].figures
              /\ movement[b].currency # NoCurrency
              /\ movement'[b].currency # NoCurrency
  <1> DEFINE AsBefore == movement'[b] = movement[b]
             Added ==
              /\ movement[b] = NoMovement /\ movement'[b] \in Movements
              /\ pc'[b] = "committed"
              /\ asset'[movement'[b].lot] \in Rows
              /\ \/ lotLock[movement'[b].lot] = b
                 \/ movement'[b].lot \in GiftLots /\ movement'[b].currency = NoCurrency
             Relabelled ==
              /\ movement[b] \in Movements /\ movement'[b] \in Movements
              /\ movement'[b].lot = movement[b].lot
              /\ movement'[b].kind = movement[b].kind
              /\ movement'[b].figures = movement[b].figures
              /\ movement[b].currency # NoCurrency
              /\ movement'[b].currency # NoCurrency
  <1>1. TypeOK /\ TypeOK'
    BY TypeStep DEF LedgerInv
  <1>2. ASSUME NEW r \in Requests, CommitDisposal(r) PROVE AsBefore \/ Added
    <2>1. PICK l \in Lots, kind \in DisposalKinds :
             /\ lotLock[l] = r /\ asset'[l] \in Rows /\ asset[l] \in Rows
             /\ movement[r] = NoMovement
             /\ \E q \in 1..asset[l].figures.quantity :
                  \E split \in Splits(asset[l].figures, q) :
                     movement' = [movement EXCEPT ![r] =
                                    DisposalMovement(l, asset[l], kind, split)]
             /\ pc' = [pc EXCEPT ![r] = "committed"]
      BY <1>2, DisposalEffect
    <2>2. PICK q \in 1..asset[l].figures.quantity :
             \E split \in Splits(asset[l].figures, q) :
                movement' = [movement EXCEPT ![r] =
                               DisposalMovement(l, asset[l], kind, split)]
      BY <2>1
    <2>3. PICK split \in Splits(asset[l].figures, q) :
             movement' = [movement EXCEPT ![r] =
                            DisposalMovement(l, asset[l], kind, split)]
      BY <2>2
    <2>4. CASE r = b
      <3>1. movement'[b] = DisposalMovement(l, asset[l], kind, split)
        BY <1>1, <2>3, <2>4 DEF TypeOK
      <3>2. movement'[b].lot = l
        BY <3>1 DEF DisposalMovement
      <3>3. asset[l].figures \in Figures /\ split \in Splitting
        BY <2>1, <2>2, <2>3, SplitsAddUp DEF Splitting, Rows
      <3>4. movement'[b] \in Movements
        BY <2>1, <3>1, <3>3, MovementTypes
      <3> QED
        BY <1>1, <2>1, <2>4, <3>2, <3>4 DEF TypeOK
    <2> QED
      BY <1>1, <2>3, <2>4 DEF TypeOK
  <1>3. ASSUME NEW r \in Requests, CommitTransfer(r) PROVE AsBefore \/ Added
    <2>1. PICK l \in Lots, to \in Locations :
             /\ lotLock[l] = r /\ asset'[l] \in Rows /\ asset[l] \in Rows
             /\ movement[r] = NoMovement
             /\ movement' = [movement EXCEPT ![r] =
                               TransferMovement(l, asset[l], to)]
             /\ pc' = [pc EXCEPT ![r] = "committed"]
      BY <1>3, TransferEffect
    <2>2. CASE r = b
      <3>1. movement'[b] = TransferMovement(l, asset[l], to)
        BY <1>1, <2>1, <2>2 DEF TypeOK
      <3>2. movement'[b].lot = l
        BY <3>1 DEF TransferMovement
      <3>3. movement'[b] \in Movements
        BY <2>1, <3>1, MovementTypes
      <3> QED
        BY <1>1, <2>1, <2>2, <3>2, <3>3 DEF TypeOK
    <2> QED
      BY <1>1, <2>1, <2>2 DEF TypeOK
  <1>4. ASSUME NEW r \in Requests, CommitEdit(r) PROVE AsBefore
    BY <1>4 DEF CommitEdit
  <1>5. ASSUME NEW r \in Requests, NEW l \in Lots, ReceiveGift(r, l)
        PROVE  AsBefore \/ Added
    <2>1. /\ l \in GiftLots /\ asset'[l] \in Rows /\ movement[r] = NoMovement
          /\ movement' = [movement EXCEPT ![r] =
                            GiftMovement(l, asset'[l].figures)]
          /\ pc' = [pc EXCEPT ![r] = "committed"]
      BY <1>5, GiftEffect
    <2>2. CASE r = b
      <3>1. movement'[b] = GiftMovement(l, asset'[l].figures)
        BY <1>1, <2>1, <2>2 DEF TypeOK
      <3>2. movement'[b].lot = l /\ movement'[b].currency = NoCurrency
        BY <3>1 DEF GiftMovement
      <3>3. asset'[l].figures \in Figures
        BY <2>1 DEF Rows
      <3>4. movement'[b] \in Movements
        BY <3>1, <3>3 DEF GiftMovement, Movements, MovementKinds
      <3> QED
        BY <1>1, <2>1, <2>2, <3>2, <3>4 DEF TypeOK
    <2> QED
      BY <1>1, <2>1, <2>2 DEF TypeOK
  <1>6. ASSUME NEW r \in Requests, CommitRelabel(r) PROVE AsBefore \/ Relabelled
    <2>1. PICK p \in Purchases, c \in Currencies :
             \/ UNCHANGED movement
             \/ movement' = [d \in Requests |-> IF d \in BookedMovements(p)
                               THEN [movement[d] EXCEPT !.currency = c]
                               ELSE movement[d]]
      BY <1>6, RelabelEffect
    <2>2. CASE b \in BookedMovements(p) /\ ~ UNCHANGED movement
      <3>1. movement'[b] = [movement[b] EXCEPT !.currency = c]
        BY <2>1, <2>2
      <3>2. movement[b] \in Movements /\ movement[b].currency # NoCurrency
        BY <1>1, <2>2 DEF BookedMovements, TypeOK
      <3>3. c # NoCurrency
        BY RowsAssumption
      <3> QED
        BY <3>1, <3>2, <3>3 DEF Movements
    <2>3. CASE b \notin BookedMovements(p) \/ UNCHANGED movement
      BY <2>1, <2>3
    <2> QED
      BY <2>2, <2>3
  <1>7. ASSUME UNCHANGED tables PROVE AsBefore
    BY <1>7 DEF tables
  <1> HIDE DEF AsBefore, Added, Relabelled
  <1>8. AsBefore \/ Added \/ Relabelled
    BY <1>2, <1>3, <1>4, <1>5, <1>6, <1>7, TablesChange
  <1> QED
    BY <1>8 DEF AsBefore, Added, Relabelled

-----------------------------------------------------------------------------
(* The parts of the invariant *)

\* A call past its UPDATE keeps its row locks until it ends.
LEMMA LocksStep ==
    ASSUME LedgerInv, [Next]_vars
    PROVE  LocksAreHeld'
  <1> SUFFICES ASSUME NEW s \in Requests
      PROVE  /\ pc'[s] = "updated" => lotLock'[plan'[s].lot] = s
             /\ pc'[s] \in {"purchaseWritten", "relabelled"} =>
                   purchaseLock'[plan'[s].purchase] = s
             /\ pc'[s] = "relabelled" /\ plan'[s].changed =>
                   \A l \in LotsOf(plan'[s].purchase) : lotLock'[l] = s
    BY DEF LocksAreHeld
  <1>1. TypeOK /\ LocksAreHeld
    BY DEF LedgerInv
  <1>2. ASSUME pc'[s] = "updated" PROVE lotLock'[plan'[s].lot] = s
    <2>1. CASE pc[s] = "updated" /\ plan'[s] = plan[s]
      <3>1. plan[s].lot \in Lots /\ lotLock[plan[s].lot] = s
        BY <2>1, UpdatedRow
      <3> QED
        BY <1>2, <2>1, <3>1, LocksPersist
    <2> QED
      BY <1>2, <2>1, CallChange
  <1>3. ASSUME pc'[s] \in {"purchaseWritten", "relabelled"}
        PROVE  /\ purchaseLock'[plan'[s].purchase] = s
               /\ pc'[s] = "relabelled" /\ plan'[s].changed =>
                     \A l \in LotsOf(plan'[s].purchase) : lotLock'[l] = s
    <2>1. CASE pc'[s] = pc[s] /\ plan'[s] = plan[s]
      <3>1. plan[s] \in RelabelPlans
        BY <1>1, <1>3, <2>1, PlanTypes
      <3>2. plan[s].purchase \in Purchases
        BY <3>1 DEF RelabelPlans
      <3> QED
        BY <1>1, <1>3, <2>1, <3>2, LocksPersist DEF LocksAreHeld, LotsOf
    <2>2. CASE /\ pc[s] = "relabelling" /\ plan'[s] = plan[s]
               /\ purchaseLock'[plan[s].purchase] = s
               /\ pc'[s] = "relabelled" => ~ plan[s].changed
      BY <2>2
    <2>3. CASE /\ pc[s] = "purchaseWritten" /\ pc'[s] = "relabelled"
               /\ plan'[s].purchase = plan[s].purchase
               /\ \A l \in LotsOf(plan[s].purchase) : lotLock[l] = s
               /\ UNCHANGED locks
      BY <1>1, <2>3 DEF LocksAreHeld, locks
    <2> QED
      BY <1>3, <2>1, <2>2, <2>3, CorrectionChange
  <1> QED
    BY <1>2, <1>3

\* The version names the row: a writer of the row a call read either ended
\* that call's turn or made the versions differ for good.
LEMMA VersionStep ==
    ASSUME LedgerInv, [Next]_vars
    PROVE  VersionIdentifiesRow'
  <1> SUFFICES ASSUME NEW s \in Requests, pc'[s] \in {"planned", "updated"}
      PROVE  /\ asset'[plan'[s].lot] # NoRow
             /\ plan'[s].row.version <= asset'[plan'[s].lot].version
             /\ plan'[s].row.version = asset'[plan'[s].lot].version =>
                   plan'[s].row = asset'[plan'[s].lot]
             /\ pc'[s] = "updated" => plan'[s].row = asset'[plan'[s].lot]
    BY DEF VersionIdentifiesRow
  <1>1. TypeOK /\ VersionIdentifiesRow
    BY DEF LedgerInv
  <1>2. CASE pc'[s] = pc[s] /\ plan'[s] = plan[s]
    <2> DEFINE l == plan[s].lot
    <2>1. l \in Lots /\ plan[s].row \in Rows /\ asset[l] # NoRow
      BY <1>1, <1>2, PlanTypes DEF VersionIdentifiesRow
    <2>2. asset[l] \in Rows
      BY <1>1, <2>1 DEF TypeOK
    <2>3. CASE asset'[l] = asset[l]
      BY <1>1, <1>2, <2>3 DEF VersionIdentifiesRow
    <2>4. CASE /\ asset'[l] \in Rows
               /\ asset'[l].version = asset[l].version + 1
               /\ \E r \in Requests : lotLock[l] = r /\ pc'[r] = "committed"
      <3>1. pc[s] = "planned"
        BY <1>1, <1>2, <2>1, <2>4, UpdatedRow
      <3>2. plan[s].row.version <= asset[l].version
        BY <1>1, <3>1 DEF VersionIdentifiesRow
      <3>3. plan[s].row.version \in Nat /\ asset[l].version \in Nat
        BY <2>1, <2>2 DEF Rows
      <3>4. asset'[l] # NoRow
        BY <2>4, LedgerAssumption
      <3> QED
        BY <1>2, <2>4, <3>1, <3>2, <3>3, <3>4
    <2> QED
      BY <2>1, <2>3, <2>4, RowChange
  <1>3. CASE /\ pc[s] = "planned" /\ pc'[s] = "updated" /\ plan'[s] = plan[s]
             /\ asset[plan[s].lot].version = plan[s].row.version
             /\ UNCHANGED tables
    BY <1>1, <1>3 DEF VersionIdentifiesRow, tables
  <1>4. CASE /\ pc'[s] = "planned"
             /\ plan'[s].lot \in Lots
             /\ Held(plan'[s].lot)
             /\ plan'[s].row = asset[plan'[s].lot]
             /\ UNCHANGED tables
    <2>1. asset[plan'[s].lot] \in Rows
      BY <1>1, <1>4 DEF TypeOK, Held
    <2>2. asset[plan'[s].lot].version \in Nat
      BY <2>1 DEF Rows
    <2> QED
      BY <1>4, <2>2 DEF Held, tables
  <1> QED
    BY <1>2, <1>3, <1>4, CallChange

\* What a call intends keeps following from the row it read.
LEMMA PlansStep ==
    ASSUME LedgerInv, [Next]_vars
    PROVE  PlansFollowRows'
  <1> SUFFICES ASSUME NEW s \in Requests, pc'[s] \in {"planned", "updated"}
      PROVE  /\ plan'[s].row.status = "HELD"
             /\ plan'[s].op = "dispose" =>
                   \E quantity \in 1..plan'[s].row.figures.quantity :
                      plan'[s].split \in Splits(plan'[s].row.figures, quantity)
             /\ plan'[s].op = "update" =>
                   /\ plan'[s].figures # Keep => plan'[s].figures.quantity > 0
                   /\ plan'[s].input.currency # Keep => plan'[s].lot \in GiftLots
    BY DEF PlansFollowRows
  <1>1. PlansFollowRows
    BY DEF LedgerInv
  <1>2. CASE pc[s] \in {"planned", "updated"} /\ plan'[s] = plan[s]
    BY <1>1, <1>2 DEF PlansFollowRows
  <1>3. CASE ~ (pc[s] \in {"planned", "updated"} /\ plan'[s] = plan[s])
    BY <1>3, CallChange DEF Held
  <1> QED
    BY <1>2, <1>3

\* Nobody books a movement on a lot a correction holds.
LEMMA BookingsStep ==
    ASSUME LedgerInv, [Next]_vars
    PROVE  BookingsAreSeen'
  <1> SUFFICES ASSUME NEW s \in Requests, pc'[s] = "relabelled", plan'[s].changed
      PROVE  plan'[s].booked =
                {b \in Requests : /\ movement'[b] # NoMovement
                                  /\ movement'[b].lot \in LotsOf(plan'[s].purchase)
                                  /\ movement'[b].currency # NoCurrency}
    BY DEF BookingsAreSeen, BookedMovements
  <1>1. TypeOK /\ BookingsAreSeen /\ LocksAreHeld
    BY DEF LedgerInv
  <1>2. CASE pc'[s] = pc[s] /\ plan'[s] = plan[s]
    <2> DEFINE p == plan[s].purchase
    <2>1. plan[s].booked = BookedMovements(p)
          /\ \A l \in LotsOf(p) : lotLock[l] = s
      BY <1>1, <1>2 DEF BookingsAreSeen, LocksAreHeld
    <2>2. ASSUME NEW b \in Requests
          PROVE  (/\ movement'[b] # NoMovement
                  /\ movement'[b].lot \in LotsOf(p)
                  /\ movement'[b].currency # NoCurrency)
                 <=> b \in BookedMovements(p)
      <3>1. CASE movement'[b] = movement[b]
        BY <3>1 DEF BookedMovements
      <3>2. CASE /\ movement[b] = NoMovement
                 /\ pc'[b] = "committed"
                 /\ \/ lotLock[movement'[b].lot] = b
                    \/ movement'[b].lot \in GiftLots /\ movement'[b].currency = NoCurrency
        BY <1>2, <2>1, <3>2 DEF BookedMovements
      <3>3. CASE /\ movement[b] \in Movements /\ movement'[b] \in Movements
                 /\ movement'[b].lot = movement[b].lot
                 /\ movement[b].currency # NoCurrency
                 /\ movement'[b].currency # NoCurrency
        BY <3>3, LedgerAssumption DEF BookedMovements
      <3> QED
        BY <3>1, <3>2, <3>3, MovementChange
    <2> QED
      BY <1>2, <2>1, <2>2 DEF BookedMovements
  <1>3. CASE pc'[s] = "relabelled" => ~ plan'[s].changed
    BY <1>3
  <1>4. CASE /\ plan'[s].purchase = plan[s].purchase
             /\ plan'[s].booked = BookedMovements(plan[s].purchase)
             /\ UNCHANGED tables
    BY <1>4 DEF BookedMovements, tables
  <1> QED
    BY <1>2, <1>3, <1>4, CorrectionChange

\* An audit row is only ever added, at the commit of its call.
LEMMA EditChange ==
    ASSUME LedgerInv, [Next]_vars, NEW b \in Requests
    PROVE  \/ edit'[b] = edit[b]
           \/ /\ pc'[b] = "committed"
              /\ edit'[b].lot \in Lots /\ asset[edit'[b].lot] \in Rows
  <1>1. TypeOK
    BY DEF LedgerInv
  <1>2. ASSUME NEW r \in Requests, CommitEdit(r), edit'[b] # edit[b]
        PROVE  /\ pc'[b] = "committed"
               /\ edit'[b].lot \in Lots /\ asset[edit'[b].lot] \in Rows
    <2>1. PICK l \in Lots :
            /\ asset[l] \in Rows
            /\ edit' = [edit EXCEPT ![r] =
                          [lot |-> l, before |-> asset[l].figures,
                           after |-> asset'[l].figures]]
            /\ pc' = [pc EXCEPT ![r] = "committed"]
      BY <1>2, EditEffect
    <2>2. r = b
      BY <1>1, <1>2, <2>1 DEF TypeOK
    <2>3. edit'[b].lot = l
      BY <1>1, <2>1, <2>2 DEF TypeOK
    <2> QED
      BY <1>1, <2>1, <2>2, <2>3 DEF TypeOK
  <1> QED
    BY <1>2, TablesChange
       DEF tables, CommitDisposal, CommitTransfer, CommitRelabel, ReceiveGift

\* A committed call stays committed.
LEMMA CommittedStays ==
    ASSUME LedgerInv, [Next]_vars, NEW b \in Requests, pc[b] = "committed"
    PROVE  pc'[b] = "committed"
  <1>1. TypeOK
    BY DEF LedgerInv
  <1>2. ASSUME NEW r \in Requests, LotCall(r) PROVE pc'[b] = pc[b]
    BY <1>1, <1>2 DEF TypeOK, LotCall, ReadForDisposal, ReadForTransfer,
       ReadForEdit, ReceiveGift, ReadForRelabel, Plan
  <1>3. ASSUME NEW r \in Requests, Progress(r) PROVE pc'[b] = pc[b]
    BY <1>1, <1>3 DEF TypeOK, Progress, GuardedUpdate, ConflictAtUpdate,
       CommitDisposal, CommitTransfer, CommitEdit, WritePurchase, RelabelLot,
       RelabelMovements, CommitRelabel, Finish
  <1>4. ASSUME NEW r \in Requests, Abandon(r) PROVE pc'[b] = pc[b]
    BY <1>1, <1>4 DEF TypeOK, Abandon, Finish
  <1> QED
    BY <1>2, <1>3, <1>4 DEF Next, Idle, vars

\* Rows are never deleted, and only a committed call left one.
LEMMA RowsStep ==
    ASSUME LedgerInv, [Next]_vars
    PROVE  RowsAreBackedUp'
  <1>1. TypeOK /\ RowsAreBackedUp
    BY DEF LedgerInv
  <1>2. ASSUME NEW l \in Lots, asset[l] # NoRow PROVE asset'[l] # NoRow
    BY <1>2, RowChange, LedgerAssumption
  <1>3. \A l \in Lots \ GiftLots : asset'[l] # NoRow
    BY <1>1, <1>2 DEF RowsAreBackedUp
  <1>4. ASSUME NEW b \in Requests, movement'[b] # NoMovement
        PROVE  asset'[movement'[b].lot] # NoRow
    <2>1. CASE movement[b] # NoMovement /\ movement'[b].lot = movement[b].lot
      <3>1. movement[b].lot \in Lots
        BY <1>1, <2>1 DEF TypeOK, Movements
      <3> QED
        BY <1>1, <1>2, <2>1, <3>1 DEF RowsAreBackedUp
    <2>2. CASE asset'[movement'[b].lot] \in Rows
      BY <2>2, LedgerAssumption
    <2> QED
      BY <1>4, <2>1, <2>2, MovementChange, LedgerAssumption
  <1>5. ASSUME NEW b \in Requests, pc'[b] # "committed"
        PROVE  movement'[b] = NoMovement /\ edit'[b] = NoEdit
    <2>1. movement[b] = NoMovement /\ edit[b] = NoEdit
      BY <1>1, <1>5, CommittedStays DEF RowsAreBackedUp
    <2> QED
      BY <1>5, <2>1, MovementChange, EditChange, LedgerAssumption
  <1>6. ASSUME NEW b \in Requests, edit'[b] # NoEdit
        PROVE  asset'[edit'[b].lot] # NoRow
    <2>1. CASE edit'[b] = edit[b]
      <3>1. edit[b].lot \in Lots /\ asset[edit[b].lot] # NoRow
        BY <1>1, <1>6, <2>1 DEF TypeOK, Edits, RowsAreBackedUp
      <3> QED
        BY <1>2, <2>1, <3>1
    <2>2. CASE edit'[b].lot \in Lots /\ asset[edit'[b].lot] \in Rows
      BY <1>2, <2>2, LedgerAssumption
    <2> QED
      BY <2>1, <2>2, EditChange
  <1> QED
    BY <1>3, <1>4, <1>5, <1>6 DEF RowsAreBackedUp

\* A lot leaves the holding with its last piece, and the movement that says so
\* stays.
LEMMA DisposedStep ==
    ASSUME LedgerInv, [Next]_vars
    PROVE  DisposedLotsAreExplained'
  <1> DEFINE Explained(l) ==
           /\ asset[l].status = "HELD" <=> asset[l].figures.quantity > 0
           /\ asset[l].status # "HELD" =>
                /\ asset[l].figures = Nothing
                /\ \E r \in Requests :
                      /\ movement[r] # NoMovement
                      /\ movement[r].lot = l
                      /\ movement[r].figures.quantity > 0
                      /\ StatusAfterDisposal(movement[r].kind, 0) = asset[l].status
  <1> SUFFICES ASSUME NEW l \in Lots, asset'[l] # NoRow
      PROVE  Explained(l)'
    BY DEF DisposedLotsAreExplained
  <1>1. TypeOK /\ TypeOK' /\ (asset[l] # NoRow => Explained(l))
    BY TypeStep DEF LedgerInv, DisposedLotsAreExplained
  <1>2. ASSUME NEW b \in Requests, movement[b] # NoMovement
        PROVE  /\ movement'[b] # NoMovement
               /\ movement'[b].lot = movement[b].lot
               /\ movement'[b].kind = movement[b].kind
               /\ movement'[b].figures = movement[b].figures
    BY <1>2, MovementChange, LedgerAssumption
  <1>3. ASSUME asset[l] # NoRow, asset'[l].status = asset[l].status,
               asset'[l].figures = asset[l].figures
        PROVE  Explained(l)'
    BY <1>1, <1>2, <1>3
  <1>4. ASSUME asset'[l].status = "HELD", asset'[l].figures.quantity > 0
        PROVE  Explained(l)'
    BY <1>4
  <1>5. ASSUME NEW r \in Requests, CommitDisposal(r), asset'[l] # asset[l]
        PROVE  Explained(l)'
    <2>1. PICK k \in Lots, kind \in DisposalKinds :
             /\ asset[k] \in Rows
             /\ \E q \in 1..asset[k].figures.quantity :
                  \E split \in Splits(asset[k].figures, q) :
                     /\ asset' = [asset EXCEPT ![k] =
                                    AfterDisposal(asset[k], kind, split)]
                     /\ movement' = [movement EXCEPT ![r] =
                                    DisposalMovement(k, asset[k], kind, split)]
      BY <1>5, DisposalEffect
    <2>2. PICK q \in 1..asset[k].figures.quantity :
             \E split \in Splits(asset[k].figures, q) :
                     /\ asset' = [asset EXCEPT ![k] =
                                    AfterDisposal(asset[k], kind, split)]
                     /\ movement' = [movement EXCEPT ![r] =
                                    DisposalMovement(k, asset[k], kind, split)]
      BY <2>1
    <2>3. PICK split \in Splits(asset[k].figures, q) :
                     /\ asset' = [asset EXCEPT ![k] =
                                    AfterDisposal(asset[k], kind, split)]
                     /\ movement' = [movement EXCEPT ![r] =
                                    DisposalMovement(k, asset[k], kind, split)]
      BY <2>2
    <2>4. k = l
      BY <1>1, <1>5, <2>3 DEF TypeOK
    <2>5. asset'[l] = AfterDisposal(asset[l], kind, split)
          /\ movement'[r] = DisposalMovement(l, asset[l], kind, split)
      BY <1>1, <2>3, <2>4 DEF TypeOK
    <2>6. /\ asset'[l].status = StatusAfterDisposal(kind, split.left.quantity)
          /\ asset'[l].figures = split.left
          /\ movement'[r].kind = kind /\ movement'[r].lot = l
          /\ movement'[r].figures = split.out
      BY <2>5 DEF AfterDisposal, DisposalMovement
    <2>7. asset[l].figures \in Figures /\ asset[l].figures.quantity \in Nat
      BY <2>1, <2>4 DEF Rows, Figures
    <2>8. /\ split.out.quantity = q /\ q > 0
          /\ split.left.quantity \in Nat
          /\ split.left.quantity = 0 => split.left = Nothing
      BY <2>2, <2>3, <2>4, <2>7, SplitsAddUp
    <2>9. movement'[r] # NoMovement
      BY <1>1, <2>3, <2>4, <2>5, <2>7, SplitsAddUp, MovementTypes, LedgerAssumption,
         <2>1 DEF Splitting
    <2>10. CASE split.left.quantity > 0
      BY <2>6, <2>10 DEF StatusAfterDisposal
    <2>11. CASE split.left.quantity = 0
      <3>1. asset'[l].status # "HELD"
        BY <2>1, <2>6, <2>11 DEF StatusAfterDisposal, DisposalKinds
      <3>2. asset'[l].figures = Nothing /\ asset'[l].figures.quantity = 0
        BY <2>6, <2>8, <2>11
      <3> QED
        BY <2>6, <2>8, <2>9, <2>11, <3>1, <3>2
    <2> QED
      BY <2>8, <2>10, <2>11
  <1>6. ASSUME NEW r \in Requests, CommitTransfer(r), asset'[l] # asset[l]
        PROVE  Explained(l)'
    <2>1. PICK k \in Lots, to \in Locations :
             asset[k] \in Rows
             /\ asset' = [asset EXCEPT ![k] = AfterTransfer(asset[k], to)]
      BY <1>6, TransferEffect
    <2>2. k = l /\ asset'[l] = AfterTransfer(asset[l], to)
      BY <1>1, <1>6, <2>1 DEF TypeOK
    <2> QED
      BY <1>3, <2>1, <2>2, LedgerAssumption DEF AfterTransfer
  <1>7. ASSUME NEW r \in Requests, CommitEdit(r), asset'[l] # asset[l]
        PROVE  Explained(l)'
    <2>1. PICK k \in Lots :
             /\ asset' = [asset EXCEPT ![k] = asset'[k]]
             /\ asset'[k].status = "HELD" /\ asset'[k].figures.quantity > 0
      BY <1>7, EditEffect
    <2>2. k = l
      BY <1>1, <1>7, <2>1 DEF TypeOK
    <2> QED
      BY <1>4, <2>1, <2>2
  <1>8. ASSUME NEW r \in Requests, NEW k \in Lots, ReceiveGift(r, k),
               asset'[l] # asset[l]
        PROVE  Explained(l)'
    <2>1. /\ asset' = [asset EXCEPT ![k] = asset'[k]]
          /\ asset'[k].status = "HELD" /\ asset'[k].figures.quantity > 0
      BY <1>8, GiftEffect
    <2>2. k = l
      BY <1>1, <1>8, <2>1 DEF TypeOK
    <2> QED
      BY <1>4, <2>1, <2>2
  <1>9. ASSUME NEW r \in Requests, CommitRelabel(r), asset'[l] # asset[l]
        PROVE  Explained(l)'
    <2>1. PICK p \in Purchases, c \in Currencies :
             asset' = [k \in Lots |-> IF k \in LotsOf(p)
                         THEN AfterRelabel(asset[k], c) ELSE asset[k]]
      BY <1>9, RelabelEffect
    <2>2. l \in LotsOf(p) /\ asset'[l] = AfterRelabel(asset[l], c)
      BY <1>9, <2>1
    <2>3. asset[l] # NoRow
      BY <2>2, PurchasedRow, LedgerAssumption
    <2> QED
      BY <1>3, <2>2, <2>3 DEF AfterRelabel
  <1>10. CASE asset'[l] = asset[l]
    BY <1>3, <1>10
  <1> HIDE DEF Explained
  <1> QED
    BY <1>5, <1>6, <1>7, <1>8, <1>9, <1>10, TablesChange DEF tables

\* A step either leaves the currency of every stored purchased lot alone and
\* books, at most, in the currency the lot has, or is a currency correction.
LEMMA CurrencyChange ==
    ASSUME LedgerInv, [Next]_vars
    PROVE  \/ /\ \A l \in Lots \ GiftLots : asset'[l].currency = asset[l].currency
              /\ \A b \in Requests :
                   \/ movement'[b] = movement[b]
                   \/ movement'[b].currency \in {NoCurrency,
                                                 asset[movement'[b].lot].currency}
           \/ \E p \in Purchases, c \in Currencies :
                /\ asset' = [l \in Lots |-> IF l \in LotsOf(p)
                               THEN AfterRelabel(asset[l], c) ELSE asset[l]]
                /\ movement' = [b \in Requests |->
                     IF b \in BookedMovements(p)
                     THEN [movement[b] EXCEPT !.currency = c]
                     ELSE movement[b]]
  <1> DEFINE AsBefore ==
               /\ \A l \in Lots \ GiftLots : asset'[l].currency = asset[l].currency
               /\ \A b \in Requests :
                    \/ movement'[b] = movement[b]
                    \/ movement'[b].currency \in {NoCurrency,
                                                  asset[movement'[b].lot].currency}
  <1>1. TypeOK
    BY DEF LedgerInv
  <1>2. ASSUME NEW r \in Requests, CommitDisposal(r) PROVE AsBefore
    <2>1. PICK k \in Lots, kind \in DisposalKinds :
             /\ \E q \in 1..asset[k].figures.quantity :
                  \E split \in Splits(asset[k].figures, q) :
                     /\ asset' = [asset EXCEPT ![k] =
                                    AfterDisposal(asset[k], kind, split)]
                     /\ movement' = [movement EXCEPT ![r] =
                                    DisposalMovement(k, asset[k], kind, split)]
      BY <1>2, DisposalEffect
    <2>2. PICK q \in 1..asset[k].figures.quantity :
             \E split \in Splits(asset[k].figures, q) :
                     /\ asset' = [asset EXCEPT ![k] =
                                    AfterDisposal(asset[k], kind, split)]
                     /\ movement' = [movement EXCEPT ![r] =
                                    DisposalMovement(k, asset[k], kind, split)]
      BY <2>1
    <2>3. PICK split \in Splits(asset[k].figures, q) :
                     /\ asset' = [asset EXCEPT ![k] =
                                    AfterDisposal(asset[k], kind, split)]
                     /\ movement' = [movement EXCEPT ![r] =
                                    DisposalMovement(k, asset[k], kind, split)]
      BY <2>2
    <2>4. \A l \in Lots : asset'[l].currency = asset[l].currency
      BY <1>1, <2>3 DEF TypeOK, AfterDisposal
    <2>5. movement'[r].lot = k
          /\ movement'[r].currency \in {NoCurrency, asset[k].currency}
      BY <1>1, <2>3 DEF TypeOK, DisposalMovement
    <2>6. \A b \in Requests : b # r => movement'[b] = movement[b]
      BY <1>1, <2>3 DEF TypeOK
    <2> QED
      BY <2>1, <2>4, <2>5, <2>6
  <1>3. ASSUME NEW r \in Requests, CommitTransfer(r) PROVE AsBefore
    <2>1. PICK k \in Lots, to \in Locations :
             /\ asset' = [asset EXCEPT ![k] = AfterTransfer(asset[k], to)]
             /\ movement' = [movement EXCEPT ![r] =
                               TransferMovement(k, asset[k], to)]
      BY <1>3, TransferEffect
    <2>2. \A l \in Lots : asset'[l].currency = asset[l].currency
      BY <1>1, <2>1 DEF TypeOK, AfterTransfer
    <2>3. movement'[r].currency = NoCurrency
      BY <1>1, <2>1 DEF TypeOK, TransferMovement
    <2>4. \A b \in Requests : b # r => movement'[b] = movement[b]
      BY <1>1, <2>1 DEF TypeOK
    <2> QED
      BY <2>1, <2>2, <2>3, <2>4
  <1>4. ASSUME NEW r \in Requests, CommitEdit(r) PROVE AsBefore
    <2>1. PICK k \in Lots :
             /\ asset' = [asset EXCEPT ![k] = asset'[k]]
             /\ k \in GiftLots \/ asset'[k].currency = asset[k].currency
             /\ UNCHANGED movement
      BY <1>4, EditEffect
    <2>2. \A l \in Lots : l # k => asset'[l] = asset[l]
      BY <1>1, <2>1 DEF TypeOK
    <2> QED
      BY <2>1, <2>2
  <1>5. ASSUME NEW r \in Requests, NEW k \in Lots, ReceiveGift(r, k) PROVE AsBefore
    <2>1. /\ k \in GiftLots /\ asset' = [asset EXCEPT ![k] = asset'[k]]
          /\ movement' = [movement EXCEPT ![r] =
                            GiftMovement(k, asset'[k].figures)]
      BY <1>5, GiftEffect
    <2>2. \A l \in Lots : l # k => asset'[l] = asset[l]
      BY <1>1, <2>1 DEF TypeOK
    <2>3. movement'[r].currency = NoCurrency
      BY <1>1, <2>1 DEF TypeOK, GiftMovement
    <2>4. \A b \in Requests : b # r => movement'[b] = movement[b]
      BY <1>1, <2>1 DEF TypeOK
    <2> QED
      BY <2>1, <2>2, <2>3, <2>4
  <1>6. ASSUME UNCHANGED tables PROVE AsBefore
    BY <1>6 DEF tables
  <1>7. ASSUME NEW r \in Requests, CommitRelabel(r),
               UNCHANGED <<asset, movement>>
        PROVE  AsBefore
    BY <1>7
  <1> HIDE DEF AsBefore
  <1>8. AsBefore \/ \E r \in Requests : /\ CommitRelabel(r)
                                    /\ ~ UNCHANGED <<asset, movement>>
    BY <1>2, <1>3, <1>4, <1>5, <1>6, <1>7, TablesChange
  <1>9. CASE AsBefore
    BY <1>9 DEF AsBefore
  <1>10. ASSUME NEW r \in Requests, CommitRelabel(r),
                ~ UNCHANGED <<asset, movement>>
         PROVE  \E p \in Purchases, c \in Currencies :
                /\ asset' = [l \in Lots |-> IF l \in LotsOf(p)
                               THEN AfterRelabel(asset[l], c) ELSE asset[l]]
                /\ movement' = [b \in Requests |->
                     IF b \in BookedMovements(p)
                     THEN [movement[b] EXCEPT !.currency = c]
                     ELSE movement[b]]
    BY <1>10, RelabelEffect
  <1> QED
    BY <1>8, <1>9, <1>10

\* A realized figure and the lot it was realized on change currency together.
LEMMA BookedCurrencyStep ==
    ASSUME LedgerInv, [Next]_vars
    PROVE  BookedCurrencyFollowsLot'
  <1> SUFFICES ASSUME NEW b \in Requests, movement'[b] # NoMovement,
                      movement'[b].currency # NoCurrency,
                      movement'[b].lot \notin GiftLots
      PROVE  movement'[b].currency = asset'[movement'[b].lot].currency
    BY DEF BookedCurrencyFollowsLot
  <1>1. TypeOK /\ TypeOK' /\ BookedCurrencyFollowsLot
    BY TypeStep DEF LedgerInv
  <1>2. movement'[b].lot \in Lots \ GiftLots
    BY <1>1 DEF TypeOK, Movements
  <1>3. CASE /\ \A l \in Lots \ GiftLots : asset'[l].currency = asset[l].currency
             /\ \/ movement'[b] = movement[b]
                \/ movement'[b].currency \in {NoCurrency,
                                              asset[movement'[b].lot].currency}
    BY <1>1, <1>2, <1>3 DEF BookedCurrencyFollowsLot
  <1>4. ASSUME NEW p \in Purchases, NEW c \in Currencies,
               asset' = [l \in Lots |-> IF l \in LotsOf(p)
                           THEN AfterRelabel(asset[l], c) ELSE asset[l]],
               movement' = [d \in Requests |->
                     IF d \in BookedMovements(p)
                     THEN [movement[d] EXCEPT !.currency = c]
                     ELSE movement[d]]
        PROVE  movement'[b].currency = asset'[movement'[b].lot].currency
    <2>1. CASE b \in BookedMovements(p)
      <3>1. movement[b] \in Movements /\ movement[b].lot \in LotsOf(p)
        BY <1>1, <2>1 DEF BookedMovements, TypeOK
      <3>2. movement'[b] = [movement[b] EXCEPT !.currency = c]
        BY <1>4, <2>1
      <3>3. movement'[b].lot = movement[b].lot /\ movement'[b].currency = c
        BY <3>1, <3>2 DEF Movements
      <3> QED
        BY <1>2, <1>4, <3>1, <3>3 DEF AfterRelabel
    <2>2. CASE b \notin BookedMovements(p)
      <3>1. movement'[b] = movement[b]
        BY <1>4, <2>2
      <3>2. movement[b].lot \notin LotsOf(p)
        BY <2>2, <3>1 DEF BookedMovements
      <3> QED
        BY <1>1, <1>2, <1>4, <3>1, <3>2 DEF BookedCurrencyFollowsLot
    <2> QED
      BY <2>1, <2>2
  <1> QED
    BY <1>3, <1>4, CurrencyChange

\* The lots of a purchase change currency together.
LEMMA SiblingsStep ==
    ASSUME LedgerInv, [Next]_vars
    PROVE  SiblingLotsShareCurrency'
  <1> SUFFICES ASSUME NEW p \in Purchases, NEW k \in LotsOf(p), NEW l \in LotsOf(p)
      PROVE  asset'[k].currency = asset'[l].currency
    BY DEF SiblingLotsShareCurrency
  <1>1. asset[k].currency = asset[l].currency
    BY DEF LedgerInv, SiblingLotsShareCurrency
  <1>2. /\ k \in Lots \ GiftLots /\ l \in Lots \ GiftLots
        /\ PurchaseOf[k] = p /\ PurchaseOf[l] = p
    BY PurchasedRow DEF LotsOf
  <1>3. CASE \A m \in Lots \ GiftLots : asset'[m].currency = asset[m].currency
    BY <1>1, <1>2, <1>3
  <1>4. ASSUME NEW q \in Purchases, NEW c \in Currencies,
               asset' = [m \in Lots |-> IF m \in LotsOf(q)
                           THEN AfterRelabel(asset[m], c) ELSE asset[m]]
        PROVE  asset'[k].currency = asset'[l].currency
    BY <1>1, <1>2, <1>4 DEF AfterRelabel, LotsOf
  <1> QED
    BY <1>3, <1>4, CurrencyChange

-----------------------------------------------------------------------------
(* Theorems *)

\* The database a set of purchases leaves behind satisfies the invariant.
LEMMA InitInv == Init => LedgerInv
  <1> SUFFICES ASSUME Init PROVE LedgerInv
    OBVIOUS
  <1>1. \A l \in Lots \ GiftLots :
           /\ PurchaseOf[l] \in Purchases
           /\ asset[l] = Opening[l] /\ asset[l] \in Rows
           /\ asset[l].status = "HELD" /\ asset[l].figures.quantity > 0
    BY RowsAssumption, LedgerAssumption DEF Init, GiftLots, LotsOf
  <1>2. asset \in [Lots -> Rows \cup {NoRow}]
    BY <1>1 DEF Init
  <1>3. TypeOK
    BY <1>2, LedgerAssumption DEF TypeOK, Init, Plans
  <1>4. DisposedLotsAreExplained
    BY <1>1 DEF DisposedLotsAreExplained, Init
  <1>5. SiblingLotsShareCurrency
    BY <1>1, LedgerAssumption, RowsAssumption
       DEF SiblingLotsShareCurrency, Init, LotsOf, GiftLots
  <1>6. RowsAreBackedUp
    BY <1>1, LedgerAssumption DEF RowsAreBackedUp, Init
  <1>7. LocksAreHeld /\ VersionIdentifiesRow /\ PlansFollowRows
        /\ BookingsAreSeen /\ BookedCurrencyFollowsLot
    BY DEF Init, LocksAreHeld, VersionIdentifiesRow, PlansFollowRows,
           BookingsAreSeen, BookedCurrencyFollowsLot
  <1> QED
    BY <1>3, <1>4, <1>5, <1>6, <1>7 DEF LedgerInv

\* The invariant is inductive: it holds in every state of every behaviour,
\* however the calls of the three services are interleaved.
THEOREM LedgerInvariance == Spec => []LedgerInv
  <1>1. LedgerInv /\ [Next]_vars => LedgerInv'
    BY TypeStep, LocksStep, VersionStep, PlansStep, BookingsStep, RowsStep,
       DisposedStep, BookedCurrencyStep, SiblingsStep
       DEF LedgerInv
  <1> QED
    BY <1>1, InitInv, PTL DEF Spec

\* Every column stays in its type and every call's plan fits its stage.
THEOREM TypeCorrectness == Spec => []TypeOK
  <1>1. LedgerInv => TypeOK
    BY DEF LedgerInv
  <1> QED
    BY <1>1, LedgerInvariance, PTL

\* A lot is out of the holding exactly when nothing is left of it, and then a
\* movement of the right kind says where it went.
THEOREM DisposalsExplained == Spec => []DisposedLotsAreExplained
  <1>1. LedgerInv => DisposedLotsAreExplained
    BY DEF LedgerInv
  <1> QED
    BY <1>1, LedgerInvariance, PTL

\* No disposal commits a realized figure of a purchased lot under a currency
\* the lot no longer has, and no correction leaves one behind.
THEOREM BookedCurrencySafe == Spec => []BookedCurrencyFollowsLot
  <1>1. LedgerInv => BookedCurrencyFollowsLot
    BY DEF LedgerInv
  <1> QED
    BY <1>1, LedgerInvariance, PTL

\* Corrections that race never leave the lots of a purchase divided.
THEOREM SiblingCurrencySafe == Spec => []SiblingLotsShareCurrency
  <1>1. LedgerInv => SiblingLotsShareCurrency
    BY DEF LedgerInv
  <1> QED
    BY <1>1, LedgerInvariance, PTL

-----------------------------------------------------------------------------
(* HoldingLedger implements AtomicLedger, and the action properties of the   *)
(* ledger: a call's commit is the abstract operation, every other step of a   *)
(* call stutters.                                                             *)

\* The abstract ledger speaks of the same rows: its instance of LedgerRows has
\* the same constants, so each of its operators is this module's.
LEMMA SameRows ==
    /\ Atomic!DisposalKinds = DisposalKinds
    /\ Atomic!GiftLots = GiftLots
    /\ Atomic!Rows = Rows
    /\ \A p : Atomic!LotsOf(p) = LotsOf(p)
    /\ \A f, q : Atomic!Splits(f, q) = Splits(f, q)
    /\ \A row, kind, split :
          Atomic!AfterDisposal(row, kind, split) = AfterDisposal(row, kind, split)
    /\ \A l, row, kind, split :
          Atomic!DisposalMovement(l, row, kind, split) =
             DisposalMovement(l, row, kind, split)
    /\ \A row, to : Atomic!AfterTransfer(row, to) = AfterTransfer(row, to)
    /\ \A l, row, to :
          Atomic!TransferMovement(l, row, to) = TransferMovement(l, row, to)
    /\ \A row, c : Atomic!AfterRelabel(row, c) = AfterRelabel(row, c)
    /\ \A l, f : Atomic!GiftMovement(l, f) = GiftMovement(l, f)
    /\ \A f, c, x : Atomic!GiftRow(f, c, x) = GiftRow(f, c, x)
  <1>1. \A num, den : Atomic!Nearest(num, den) = Nearest(num, den)
    BY DEF Nearest, Atomic!Nearest
  <1>2. Atomic!Nothing = Nothing
    BY DEF Nothing, Atomic!Nothing
  <1>3. ASSUME NEW f, NEW q PROVE Atomic!Splits(f, q) = Splits(f, q)
    <2>1. CASE q = f.quantity
      BY <1>2, <2>1 DEF Splits, Atomic!Splits
    <2>2. CASE q # f.quantity
      <3>1. \A s : s \in Atomic!Splits(f, q) <=> s \in Splits(f, q)
        BY <1>1, <2>2 DEF Splits, Atomic!Splits
      <3> QED
        BY <3>1
    <2> QED
      BY <2>1, <2>2
  <1>4. \A p : Atomic!LotsOf(p) = LotsOf(p)
    BY DEF LotsOf, Atomic!LotsOf
  <1>5. Atomic!GiftLots = GiftLots
    BY <1>4 DEF GiftLots, Atomic!GiftLots
  <1>6. \A kind, n : Atomic!StatusAfterDisposal(kind, n) = StatusAfterDisposal(kind, n)
    BY DEF StatusAfterDisposal, Atomic!StatusAfterDisposal
  <1>7. \A row, kind, split :
          Atomic!AfterDisposal(row, kind, split) = AfterDisposal(row, kind, split)
    BY <1>6 DEF AfterDisposal, Atomic!AfterDisposal
  <1>8. \A kind : Atomic!BooksRealizedPnl(kind) = BooksRealizedPnl(kind)
    BY DEF BooksRealizedPnl, Atomic!BooksRealizedPnl
  <1>9. \A l, row, kind, split :
          Atomic!DisposalMovement(l, row, kind, split) =
             DisposalMovement(l, row, kind, split)
    BY <1>8 DEF DisposalMovement, Atomic!DisposalMovement
  <1>10. \A l, row, to :
          Atomic!TransferMovement(l, row, to) = TransferMovement(l, row, to)
    BY <1>2 DEF TransferMovement, Atomic!TransferMovement
  <1>11. /\ \A row, to : Atomic!AfterTransfer(row, to) = AfterTransfer(row, to)
         /\ \A row, c : Atomic!AfterRelabel(row, c) = AfterRelabel(row, c)
         /\ \A l, f : Atomic!GiftMovement(l, f) = GiftMovement(l, f)
         /\ \A f, c, x : Atomic!GiftRow(f, c, x) = GiftRow(f, c, x)
    BY DEF AfterTransfer, Atomic!AfterTransfer, AfterRelabel, Atomic!AfterRelabel,
           GiftMovement, Atomic!GiftMovement, GiftRow, Atomic!GiftRow
  <1>12. Atomic!DisposalKinds = DisposalKinds
    BY DEF DisposalKinds, Atomic!DisposalKinds
  <1>13. Atomic!Rows = Rows
    BY DEF Rows, Atomic!Rows, Statuses, Atomic!Statuses, Figures, Atomic!Figures
  <1> QED
    BY <1>3, <1>4, <1>5, <1>7, <1>9, <1>10, <1>11, <1>12, <1>13

\* A disposal's commit is a disposal of the lot as it is stored.
LEMMA DisposalImplements ==
    ASSUME LedgerInv, NEW r \in Requests, CommitDisposal(r)
    PROVE  Atomic!AtomicNext
  <1>1. PICK l \in Lots, kind \in DisposalKinds :
          /\ asset[l] \in Rows /\ asset[l].status = "HELD"
          /\ movement[r] = NoMovement /\ edit[r] = NoEdit
          /\ \E q \in 1..asset[l].figures.quantity :
               \E split \in Splits(asset[l].figures, q) :
                  /\ asset' = [asset EXCEPT ![l] =
                                 AfterDisposal(asset[l], kind, split)]
                  /\ movement' = [movement EXCEPT ![r] =
                                 DisposalMovement(l, asset[l], kind, split)]
          /\ UNCHANGED edit
    BY DisposalEffect
  <1>2. Atomic!Held(l) /\ Atomic!Unbooked(r)
    BY <1>1, LedgerAssumption DEF Atomic!Held, Atomic!Unbooked
  <1>3. Atomic!Dispose(r, l, kind)
    BY <1>1, <1>2, SameRows DEF Atomic!Dispose
  <1> QED
    BY <1>3, SameRows DEF Atomic!AtomicNext

\* A transfer's commit is a transfer.
LEMMA TransferImplements ==
    ASSUME LedgerInv, NEW r \in Requests, CommitTransfer(r)
    PROVE  Atomic!AtomicNext
  <1>1. PICK l \in Lots, to \in Locations :
          /\ asset[l] \in Rows /\ asset[l].status = "HELD"
          /\ movement[r] = NoMovement /\ edit[r] = NoEdit
          /\ asset' = [asset EXCEPT ![l] = AfterTransfer(asset[l], to)]
          /\ movement' = [movement EXCEPT ![r] = TransferMovement(l, asset[l], to)]
          /\ UNCHANGED edit
    BY TransferEffect
  <1>2. Atomic!Held(l) /\ Atomic!Unbooked(r)
    BY <1>1, LedgerAssumption DEF Atomic!Held, Atomic!Unbooked
  <1>3. Atomic!TransferStorage(r, l, to)
    BY <1>1, <1>2, SameRows DEF Atomic!TransferStorage
  <1> QED
    BY <1>3 DEF Atomic!AtomicNext

\* An edit's commit is a correction that keeps the lot held.
LEMMA EditImplements ==
    ASSUME LedgerInv, NEW r \in Requests, CommitEdit(r)
    PROVE  Atomic!AtomicNext
  <1>1. PICK l \in Lots :
          /\ asset[l] \in Rows /\ asset[l].status = "HELD"
          /\ movement[r] = NoMovement /\ edit[r] = NoEdit
          /\ asset' = [asset EXCEPT ![l] = asset'[l]]
          /\ asset'[l] \in Rows
          /\ asset'[l].status = "HELD"
          /\ asset'[l].version = asset[l].version + 1
          /\ l \in GiftLots \/ asset'[l].currency = asset[l].currency
          /\ edit' = [edit EXCEPT ![r] = [lot |-> l, before |-> asset[l].figures,
                                          after |-> asset'[l].figures]]
          /\ UNCHANGED movement
    BY EditEffect
  <1>2. Atomic!Held(l) /\ Atomic!Unbooked(r)
    BY <1>1, LedgerAssumption DEF Atomic!Held, Atomic!Unbooked
  <1>3. Atomic!Correct(r, l)
    BY <1>1, <1>2, SameRows DEF Atomic!Correct
  <1> QED
    BY <1>3 DEF Atomic!AtomicNext

\* The receipt of a gift is one.
LEMMA GiftImplements ==
    ASSUME LedgerInv, NEW r \in Requests, NEW l \in Lots, ReceiveGift(r, l)
    PROVE  Atomic!AtomicNext
  <1>1. Atomic!Unbooked(r)
    BY GiftEffect DEF Atomic!Unbooked
  <1>2. Atomic!ReceiveGift(r, l)
    BY <1>1, GiftEffect, SameRows DEF Atomic!ReceiveGift
  <1> QED
    BY <1>2 DEF Atomic!AtomicNext

\* A correction's commit moves every lot and booking at once, or nothing.
LEMMA RelabelImplements ==
    ASSUME LedgerInv, NEW r \in Requests, CommitRelabel(r)
    PROVE  Atomic!AtomicNext \/ UNCHANGED <<asset, movement, edit>>
  <1>1. PICK p \in Purchases, c \in Currencies :
          /\ \/ UNCHANGED <<asset, movement>>
             \/ /\ asset' = [l \in Lots |-> IF l \in LotsOf(p)
                               THEN AfterRelabel(asset[l], c) ELSE asset[l]]
                /\ movement' = [b \in Requests |->
                     IF b \in BookedMovements(p)
                     THEN [movement[b] EXCEPT !.currency = c]
                     ELSE movement[b]]
          /\ UNCHANGED edit
    BY RelabelEffect
  <1>2. CASE UNCHANGED <<asset, movement>>
    BY <1>1, <1>2
  <1>3. CASE /\ asset' = [l \in Lots |-> IF l \in LotsOf(p)
                            THEN AfterRelabel(asset[l], c) ELSE asset[l]]
             /\ movement' = [b \in Requests |->
                     IF b \in BookedMovements(p)
                     THEN [movement[b] EXCEPT !.currency = c]
                     ELSE movement[b]]
    <2>1. movement' = [b \in Requests |->
             IF /\ movement[b] # NoMovement
                /\ movement[b].lot \in LotsOf(p)
                /\ movement[b].currency # NoCurrency
             THEN [movement[b] EXCEPT !.currency = c]
             ELSE movement[b]]
      BY <1>3 DEF BookedMovements
    <2>2. Atomic!Relabel(p, c)
      BY <1>1, <1>3, <2>1, SameRows DEF Atomic!Relabel
    <2> QED
      BY <2>2 DEF Atomic!AtomicNext
  <1> QED
    BY <1>1, <1>2, <1>3

\* Interleaved statement by statement, the calls act as if each were one
\* indivisible step on current rows (the version guards and the row locks).
THEOREM LedgerImplementsAtomic == Spec => ImplementsAtomicLedger
  <1>1. Init => Atomic!AtomicInit
    BY SameRows DEF Init, Atomic!AtomicInit
  <1>2. LedgerInv /\ [Next]_vars => [Atomic!AtomicNext]_(Atomic!atomicVars)
    <2> SUFFICES ASSUME LedgerInv, [Next]_vars
        PROVE  Atomic!AtomicNext \/ UNCHANGED <<asset, movement, edit>>
      BY DEF Atomic!atomicVars
    <2>1. CASE UNCHANGED tables
      BY <2>1 DEF tables
    <2> QED
      BY <2>1, TablesChange, DisposalImplements, TransferImplements,
         EditImplements, GiftImplements, RelabelImplements
  <1> QED
    BY <1>1, <1>2, LedgerInvariance, PTL
       DEF Spec, ImplementsAtomicLedger, Atomic!AtomicSpec

-----------------------------------------------------------------------------
(* Action properties *)

\* What a step does to one stored lot: nothing, a correction of its currency,
\* or - while it is held - what one disposal, transfer or audited edit does.
LEMMA LotStep ==
    ASSUME LedgerInv, [Next]_vars, NEW l \in Lots, asset[l] # NoRow
    PROVE  \/ /\ asset'[l].status = asset[l].status
              /\ asset'[l].figures = asset[l].figures
              /\ asset'[l].location = asset[l].location
           \/ /\ asset[l].status = "HELD"
              /\ \/ asset'[l].figures = asset[l].figures
                 \/ \E r \in Requests :
                      \/ /\ movement[r] = NoMovement /\ movement'[r] # NoMovement
                         /\ movement'[r].lot = l
                      \/ edit[r] = NoEdit /\ edit'[r] # NoEdit /\ edit'[r].lot = l
  <1>1. TypeOK /\ asset[l] \in Rows
    BY DEF LedgerInv, TypeOK
  <1>2. CASE asset'[l] = asset[l]
    BY <1>2
  <1>3. ASSUME NEW r \in Requests, CommitDisposal(r), asset'[l] # asset[l]
        PROVE  /\ asset[l].status = "HELD"
               /\ movement[r] = NoMovement /\ movement'[r] # NoMovement
               /\ movement'[r].lot = l
    <2>1. PICK k \in Lots, kind \in DisposalKinds :
             /\ asset[k] \in Rows /\ asset[k].status = "HELD"
             /\ movement[r] = NoMovement
             /\ \E q \in 1..asset[k].figures.quantity :
                  \E split \in Splits(asset[k].figures, q) :
                     /\ asset' = [asset EXCEPT ![k] =
                                    AfterDisposal(asset[k], kind, split)]
                     /\ movement' = [movement EXCEPT ![r] =
                                    DisposalMovement(k, asset[k], kind, split)]
      BY <1>3, DisposalEffect
    <2>2. PICK q \in 1..asset[k].figures.quantity :
             \E split \in Splits(asset[k].figures, q) :
                     /\ asset' = [asset EXCEPT ![k] =
                                    AfterDisposal(asset[k], kind, split)]
                     /\ movement' = [movement EXCEPT ![r] =
                                    DisposalMovement(k, asset[k], kind, split)]
      BY <2>1
    <2>3. PICK split \in Splits(asset[k].figures, q) :
                     /\ asset' = [asset EXCEPT ![k] =
                                    AfterDisposal(asset[k], kind, split)]
                     /\ movement' = [movement EXCEPT ![r] =
                                    DisposalMovement(k, asset[k], kind, split)]
      BY <2>2
    <2>4. k = l
      BY <1>1, <1>3, <2>3 DEF TypeOK
    <2>5. split \in Splitting
      BY <2>1, <2>2, <2>3, SplitsAddUp DEF Splitting, Rows
    <2>6. movement'[r] = DisposalMovement(l, asset[l], kind, split)
      BY <1>1, <2>3, <2>4 DEF TypeOK
    <2>7. movement'[r] \in Movements
      BY <1>1, <2>5, <2>6, MovementTypes
    <2> QED
      BY <2>1, <2>4, <2>6, <2>7, LedgerAssumption DEF DisposalMovement
  <1>4. ASSUME NEW r \in Requests, CommitTransfer(r), asset'[l] # asset[l]
        PROVE  asset[l].status = "HELD" /\ asset'[l].figures = asset[l].figures
    <2>1. PICK k \in Lots, to \in Locations :
             /\ asset[k].status = "HELD"
             /\ asset' = [asset EXCEPT ![k] = AfterTransfer(asset[k], to)]
      BY <1>4, TransferEffect
    <2>2. k = l /\ asset'[l] = AfterTransfer(asset[l], to)
      BY <1>1, <1>4, <2>1 DEF TypeOK
    <2> QED
      BY <2>1, <2>2 DEF AfterTransfer
  <1>5. ASSUME NEW r \in Requests, CommitEdit(r), asset'[l] # asset[l]
        PROVE  /\ asset[l].status = "HELD"
               /\ edit[r] = NoEdit /\ edit'[r] # NoEdit /\ edit'[r].lot = l
    <2>1. PICK k \in Lots :
             /\ asset[k] \in Rows /\ asset[k].status = "HELD"
             /\ edit[r] = NoEdit
             /\ asset' = [asset EXCEPT ![k] = asset'[k]]
             /\ asset'[k] \in Rows
             /\ edit' = [edit EXCEPT ![r] =
                           [lot |-> k, before |-> asset[k].figures,
                            after |-> asset'[k].figures]]
      BY <1>5, EditEffect
    <2>2. k = l
      BY <1>1, <1>5, <2>1 DEF TypeOK
    <2>3. edit'[r] = [lot |-> l, before |-> asset[l].figures,
                      after |-> asset'[l].figures]
      BY <1>1, <2>1, <2>2 DEF TypeOK
    <2>4. edit'[r] \in Edits
      BY <2>1, <2>2, <2>3 DEF Edits, Rows
    <2> QED
      BY <2>1, <2>2, <2>3, <2>4, LedgerAssumption
  <1>6. ASSUME NEW r \in Requests, NEW k \in Lots, ReceiveGift(r, k)
        PROVE  asset'[l] = asset[l]
    <2>1. asset[k] = NoRow /\ asset' = [asset EXCEPT ![k] = asset'[k]]
      BY <1>6, GiftEffect
    <2>2. k # l
      BY <2>1
    <2> QED
      BY <1>1, <2>1, <2>2 DEF TypeOK
  <1>7. ASSUME NEW r \in Requests, CommitRelabel(r), asset'[l] # asset[l]
        PROVE  /\ asset'[l].status = asset[l].status
               /\ asset'[l].figures = asset[l].figures
               /\ asset'[l].location = asset[l].location
    <2>1. PICK p \in Purchases, c \in Currencies :
             asset' = [k \in Lots |-> IF k \in LotsOf(p)
                         THEN AfterRelabel(asset[k], c) ELSE asset[k]]
      BY <1>7, RelabelEffect
    <2>2. asset'[l] = AfterRelabel(asset[l], c)
      BY <1>7, <2>1
    <2> QED
      BY <2>2 DEF AfterRelabel
  <1>8. CASE UNCHANGED tables
    BY <1>2, <1>8 DEF tables
  <1> QED
    BY <1>2, <1>3, <1>4, <1>5, <1>6, <1>7, <1>8, TablesChange

\* A lot that was sold, given away or lost keeps its balance, status and place
\* for ever.
THEOREM DisposedFrozen == Spec => DisposedLotsAreFrozen
  <1>1. LedgerInv /\ [Next]_vars =>
          \A l \in Lots :
             (asset[l] # NoRow /\ asset[l].status # "HELD") =>
                /\ asset'[l].status = asset[l].status
                /\ asset'[l].figures = asset[l].figures
                /\ asset'[l].location = asset[l].location
    BY LotStep
  <1> QED
    BY <1>1, LedgerInvariance, PTL DEF Spec, DisposedLotsAreFrozen

\* A movement added to a stored lot and the lot's new row agree.
LEMMA MovementStep ==
    ASSUME LedgerInv, [Next]_vars, NEW b \in Requests, NEW l \in Lots,
           movement[b] = NoMovement, movement'[b] # NoMovement,
           movement'[b].lot = l, asset[l] # NoRow
    PROVE  /\ asset[l].status = "HELD"
           /\ asset'[l].figures = Minus(asset[l].figures, movement'[b].figures)
           /\ movement'[b].from = asset[l].location
           /\ movement'[b].currency \in {NoCurrency, asset[l].currency}
  <1> DEFINE Goal ==
           /\ asset[l].status = "HELD"
           /\ asset'[l].figures = Minus(asset[l].figures, movement'[b].figures)
           /\ movement'[b].from = asset[l].location
           /\ movement'[b].currency \in {NoCurrency, asset[l].currency}
  <1>1. TypeOK /\ asset[l] \in Rows
    BY DEF LedgerInv, TypeOK
  <1>2. asset[l].figures \in Figures
    BY <1>1 DEF Rows
  <1>3. ASSUME NEW r \in Requests, CommitDisposal(r) PROVE Goal
    <2>1. PICK k \in Lots, kind \in DisposalKinds :
             /\ asset[k] \in Rows /\ asset[k].status = "HELD"
             /\ \E q \in 1..asset[k].figures.quantity :
                  \E split \in Splits(asset[k].figures, q) :
                     /\ asset' = [asset EXCEPT ![k] =
                                    AfterDisposal(asset[k], kind, split)]
                     /\ movement' = [movement EXCEPT ![r] =
                                    DisposalMovement(k, asset[k], kind, split)]
      BY <1>3, DisposalEffect, SMTT(60)
    <2>2. PICK q \in 1..asset[k].figures.quantity :
             \E split \in Splits(asset[k].figures, q) :
                     /\ asset' = [asset EXCEPT ![k] =
                                    AfterDisposal(asset[k], kind, split)]
                     /\ movement' = [movement EXCEPT ![r] =
                                    DisposalMovement(k, asset[k], kind, split)]
      BY <2>1
    <2>3. PICK split \in Splits(asset[k].figures, q) :
                     /\ asset' = [asset EXCEPT ![k] =
                                    AfterDisposal(asset[k], kind, split)]
                     /\ movement' = [movement EXCEPT ![r] =
                                    DisposalMovement(k, asset[k], kind, split)]
      BY <2>2
    <2>4. r = b
      BY <1>1, <2>3 DEF TypeOK
    <2>5. movement'[b] = DisposalMovement(k, asset[k], kind, split)
      BY <1>1, <2>3, <2>4 DEF TypeOK
    <2>6. k = l
      BY <2>5 DEF DisposalMovement
    <2>7. asset'[l] = AfterDisposal(asset[l], kind, split)
      BY <1>1, <2>3, <2>6 DEF TypeOK
    <2>8. /\ movement'[b].figures = split.out /\ asset'[l].figures = split.left
          /\ movement'[b].from = asset[l].location
          /\ movement'[b].currency \in {NoCurrency, asset[l].currency}
      BY <2>5, <2>6, <2>7 DEF DisposalMovement, AfterDisposal
    <2>9. split.left = Minus(asset[l].figures, split.out)
      <3>1. /\ split \in [out : Figures, left : Figures]
            /\ split.out.quantity = q
            /\ split.left.quantity = asset[l].figures.quantity - q
            /\ split.left.weight = asset[l].figures.weight - split.out.weight
            /\ split.left.cost = asset[l].figures.cost - split.out.cost
        BY <1>2, <2>2, <2>3, <2>6, SplitsAddUp
      <3>2. split.left \in Figures
        BY <3>1
      <3>3. split.left = [quantity |-> split.left.quantity,
                          weight |-> split.left.weight, cost |-> split.left.cost]
        BY <3>2 DEF Figures
      <3> QED
        BY <3>1, <3>3 DEF Minus
    <2> QED
      BY <2>1, <2>6, <2>8, <2>9
  <1>4. ASSUME NEW r \in Requests, CommitTransfer(r) PROVE Goal
    <2>1. PICK k \in Lots, to \in Locations :
             /\ asset[k].status = "HELD"
             /\ asset' = [asset EXCEPT ![k] = AfterTransfer(asset[k], to)]
             /\ movement' = [movement EXCEPT ![r] =
                               TransferMovement(k, asset[k], to)]
      BY <1>4, TransferEffect
    <2>2. r = b
      BY <1>1, <2>1 DEF TypeOK
    <2>3. movement'[b] = TransferMovement(k, asset[k], to)
      BY <1>1, <2>1, <2>2 DEF TypeOK
    <2>4. k = l
      BY <2>3 DEF TransferMovement
    <2>5. asset'[l] = AfterTransfer(asset[l], to)
      BY <1>1, <2>1, <2>4 DEF TypeOK
    <2>6. Minus(asset[l].figures, Nothing) = asset[l].figures
      BY <1>2 DEF Minus, Nothing, Figures
    <2> QED
      BY <2>1, <2>3, <2>4, <2>5, <2>6 DEF TransferMovement, AfterTransfer
  <1>5. ASSUME NEW r \in Requests, NEW k \in Lots, ReceiveGift(r, k) PROVE FALSE
    <2>1. /\ asset[k] = NoRow
          /\ movement' = [movement EXCEPT ![r] =
                            GiftMovement(k, asset'[k].figures)]
      BY <1>5, GiftEffect
    <2>2. movement'[b].lot = k
      BY <1>1, <2>1 DEF TypeOK, GiftMovement
    <2> QED
      BY <2>1, <2>2
  <1>6. ASSUME NEW r \in Requests, CommitRelabel(r) PROVE FALSE
    <2>1. PICK p \in Purchases, c \in Currencies :
             \/ UNCHANGED movement
             \/ movement' = [d \in Requests |-> IF d \in BookedMovements(p)
                               THEN [movement[d] EXCEPT !.currency = c]
                               ELSE movement[d]]
      BY <1>6, RelabelEffect
    <2> QED
      BY <2>1 DEF BookedMovements
  <1>7. ASSUME NEW r \in Requests, CommitEdit(r) PROVE FALSE
    BY <1>7 DEF CommitEdit
  <1>8. ASSUME UNCHANGED tables PROVE FALSE
    BY <1>8 DEF tables
  <1> HIDE DEF Goal
  <1>9. Goal
    BY <1>3, <1>4, <1>5, <1>6, <1>7, <1>8, TablesChange
  <1> QED
    BY <1>9 DEF Goal

\* A movement and the balance it produces appear in one step and agree, and
\* no figure changes without a movement or an audited edit.
THEOREM MovementsMatchBalances == Spec => MovementMatchesBalance
  <1>1. LedgerInv /\ [Next]_vars =>
          /\ \A r \in Requests, l \in Lots :
               (/\ movement[r] = NoMovement /\ movement'[r] # NoMovement
                /\ movement'[r].lot = l /\ asset[l] # NoRow) =>
                  /\ asset[l].status = "HELD"
                  /\ asset'[l].figures =
                        Minus(asset[l].figures, movement'[r].figures)
                  /\ movement'[r].from = asset[l].location
                  /\ movement'[r].currency \in {NoCurrency, asset[l].currency}
          /\ \A l \in Lots :
               (asset[l] # NoRow /\ asset'[l].figures # asset[l].figures) =>
                  \E r \in Requests :
                     \/ movement[r] = NoMovement /\ movement'[r] # NoMovement
                        /\ movement'[r].lot = l
                     \/ edit[r] = NoEdit /\ edit'[r] # NoEdit /\ edit'[r].lot = l
    BY LotStep, MovementStep
  <1> QED
    BY <1>1, LedgerInvariance, PTL DEF Spec, MovementMatchesBalance

-----------------------------------------------------------------------------
(* The sum of a lot's flows.  Nothing here is about the ledger: what is shown *)
(* of sums over a finite set is shown by induction on its subsets, from the   *)
(* well-foundedness of their strict order.                                    *)

Pick(s) == CHOOSE x \in s : TRUE

\* F sums g over every subset of S, taking elements as MapThenSumSet does.
Sums(F, g, S) ==
      /\ F \in [SUBSET S -> Int]
      /\ F[{}] = 0
      /\ \A s \in SUBSET S : s # {} => F[s] = g[Pick(s)] + F[s \ {Pick(s)}]

LEMMA PickIn == ASSUME NEW s, s # {} PROVE Pick(s) \in s
    BY DEF Pick

\* Induction on the subsets of a finite set.
LEMMA SubsetInduction ==
    ASSUME NEW S, IsFiniteSet(S), NEW T \in SUBSET SUBSET S,
           \A s \in SUBSET S : (\A t \in SUBSET s : t # s => t \in T) => s \in T
    PROVE  T = SUBSET S
  <1> DEFINE Bad == (SUBSET S) \ T
  <1>1. SUFFICES ASSUME Bad # {} PROVE FALSE
    OBVIOUS
  <1>2. FiniteSubsetsOf(S) = SUBSET S
    BY FS_FiniteSubsetsOfFinite
  <1>3. IsWellFoundedOn(StrictSubsetOrdering(S), SUBSET S)
    BY <1>2, FS_StrictSubsetOrderingWellFounded
  <1>4. PICK x \in Bad : \A y \in Bad : ~(<<y, x>> \in StrictSubsetOrdering(S))
    <2>1. Bad \subseteq SUBSET S /\ Bad # {}
      BY <1>1
    <2> HIDE DEF Bad
    <2>2. PICK R : R = StrictSubsetOrdering(S)
      OBVIOUS
    <2>3. PICK U : U = SUBSET S
      OBVIOUS
    <2>4. \E x \in Bad : \A y \in Bad : ~(<<y, x>> \in R)
      <3>1. IsWellFoundedOn(R, U)
        BY <1>3, <2>2, <2>3
      <3>2. Bad \subseteq U
        BY <2>1, <2>3
      <3>3. Bad # {}
        BY <2>1
      <3> QED BY ONLY <3>1, <3>2, <3>3, WFMin
    <2> QED BY <2>2, <2>4
  <1>5. x \in SUBSET S /\ x \notin T
    OBVIOUS
  <1>6. ASSUME NEW t \in SUBSET x, t # x PROVE t \in T
    <2>1. <<t, x>> \in StrictSubsetOrdering(S)
      BY <1>5, <1>6 DEF StrictSubsetOrdering
    <2> QED BY <1>4, <1>5, <2>1
  <1> QED BY <1>5, <1>6

LEMMA SumsAgree ==
    ASSUME NEW S, IsFiniteSet(S), NEW g, NEW A \in SUBSET S, NEW B \in SUBSET S,
           NEW F, NEW H, Sums(F, g, A), Sums(H, g, B),
           NEW s, s \subseteq A, s \subseteq B
    PROVE  F[s] = H[s]
  <1> DEFINE T == {t \in SUBSET s : F[t] = H[t]}
  <1>1. IsFiniteSet(s)
    BY FS_Subset
  <1>2. ASSUME NEW t \in SUBSET s, \A u \in SUBSET t : u # t => u \in T
        PROVE  t \in T
    <2>1. CASE t = {}
      BY <2>1 DEF Sums
    <2>2. CASE t # {}
      <3>1. Pick(t) \in t
        BY <2>2, PickIn
      <3>2. t \ {Pick(t)} \in T
        BY <1>2, <3>1
      <3>3. F[t] = g[Pick(t)] + F[t \ {Pick(t)}]
        BY <2>2 DEF Sums
      <3>4. H[t] = g[Pick(t)] + H[t \ {Pick(t)}]
        BY <2>2 DEF Sums
      <3> QED BY <3>2, <3>3, <3>4
    <2> QED BY <2>1, <2>2
  <1>3. T = SUBSET s
    <2> HIDE DEF T
    <2>1. T \in SUBSET SUBSET s
      BY DEF T
    <2> QED BY <1>1, <1>2, <2>1, SubsetInduction
  <1> QED BY <1>3

LEMMA SumsRestrict ==
    ASSUME NEW S, NEW g, NEW F, Sums(F, g, S), NEW s \in SUBSET S
    PROVE  Sums([t \in SUBSET s |-> F[t]], g, s)
  <1> DEFINE H == [t \in SUBSET s |-> F[t]]
  <1>1. H \in [SUBSET s -> Int] /\ H[{}] = 0
    BY DEF Sums
  <1>2. ASSUME NEW t \in SUBSET s, t # {} PROVE H[t] = g[Pick(t)] + H[t \ {Pick(t)}]
    <2>1. F[t] = g[Pick(t)] + F[t \ {Pick(t)}]
      BY <1>2 DEF Sums
    <2>2. t \ {Pick(t)} \in SUBSET s
      OBVIOUS
    <2> QED BY <2>1, <2>2
  <1> HIDE DEF H
  <1>3. Sums(H, g, s)
    BY <1>1, <1>2 DEF Sums
  <1> QED BY <1>3 DEF H

LEMMA SumsExist ==
    ASSUME NEW S, IsFiniteSet(S), NEW g, \A x \in S : g[x] \in Int
    PROVE  \E F : Sums(F, g, S)
  <1> DEFINE T == {s \in SUBSET S : \E F : Sums(F, g, s)}
             At(u) == CHOOSE F : Sums(F, g, u)
  <1>1. ASSUME NEW s \in SUBSET S, \A t \in SUBSET s : t # s => t \in T
        PROVE  s \in T
    <2> DEFINE V(u) == At(u)[u]
               F == [t \in SUBSET s |-> IF t = {} THEN 0 ELSE g[Pick(t)] + V(t \ {Pick(t)})]
    <2>1. ASSUME NEW u \in SUBSET s, u # s
          PROVE  /\ Sums(At(u), g, u) /\ V(u) \in Int
                 /\ \A w \in SUBSET u : w # s => At(u)[w] = V(w)
      <3>1. Sums(At(u), g, u)
        BY <1>1, <2>1, Zenon
      <3>2. V(u) \in Int
        BY <3>1 DEF Sums
      <3>3. ASSUME NEW w \in SUBSET u, w # s PROVE At(u)[w] = V(w)
        <4>1. w \in T
          BY <1>1, <3>3
        <4>2. Sums(At(w), g, w)
          BY <4>1, Zenon
        <4> HIDE DEF At
        <4>3. u \in SUBSET S /\ w \in SUBSET S /\ w \subseteq u /\ w \subseteq w
          OBVIOUS
        <4> QED BY ONLY <3>1, <4>2, <4>3, IsFiniteSet(S), SumsAgree
      <3> QED BY <3>1, <3>2, <3>3
    <2> HIDE DEF V
    <2>2. ASSUME NEW t \in SUBSET s, t # {}
          PROVE  /\ t \ {Pick(t)} \in SUBSET s /\ t \ {Pick(t)} # s
                 /\ Pick(t) \in S
      BY <2>2, PickIn
    <2>3. F \in [SUBSET s -> Int]
      <3>1. ASSUME NEW t \in SUBSET s, t # {} PROVE g[Pick(t)] + V(t \ {Pick(t)}) \in Int
        <4>1. g[Pick(t)] \in Int
          BY <2>2, <3>1
        <4>2. V(t \ {Pick(t)}) \in Int
          BY <2>1, <2>2, <3>1
        <4> QED BY <4>1, <4>2
      <3> QED BY <3>1
    <2>4. ASSUME NEW u \in SUBSET s, u # s PROVE F[u] = V(u)
      <3>1. CASE u = {}
        <4>1. At({})[{}] = 0
          BY <2>1, <2>4, <3>1 DEF Sums
        <4> QED BY <3>1, <4>1 DEF V
      <3>2. CASE u # {}
        <4>1. Sums(At(u), g, u)
          BY <2>1, <2>4
        <4>2. At(u)[u] = g[Pick(u)] + At(u)[u \ {Pick(u)}]
          BY <4>1, <3>2 DEF Sums
        <4>3. At(u)[u \ {Pick(u)}] = V(u \ {Pick(u)})
          BY <2>1, <2>2, <2>4, <3>2
        <4> QED BY <3>2, <4>2, <4>3 DEF V
      <3> QED BY <3>1, <3>2
    <2>5. ASSUME NEW t \in SUBSET s, t # {} PROVE F[t] = g[Pick(t)] + F[t \ {Pick(t)}]
      <3>1. F[t] = g[Pick(t)] + V(t \ {Pick(t)})
        BY <2>5
      <3>2. F[t \ {Pick(t)}] = V(t \ {Pick(t)})
        <4> HIDE DEF F
        <4> QED BY <2>2, <2>4, <2>5
      <3> QED BY <3>1, <3>2
    <2>6. F[{}] = 0
      OBVIOUS
    <2> HIDE DEF F
    <2>7. Sums(F, g, s)
      BY <2>3, <2>5, <2>6 DEF Sums
    <2> QED BY <2>7
  <1>2. T = SUBSET S
    <2>1. T \in SUBSET SUBSET S
      OBVIOUS
    <2> HIDE DEF T
    <2> QED BY <1>1, <2>1, SubsetInduction
  <1> QED BY <1>2

\* A sum whose summands differ in one place differs as they do.
LEMMA SumsShift ==
    ASSUME NEW S, IsFiniteSet(S), NEW g \in [S -> Int], NEW h \in [S -> Int],
           NEW F, NEW H, Sums(F, g, S), Sums(H, h, S),
           NEW r \in S, \A q \in S : q # r => g[q] = h[q]
    PROVE  H[S] = F[S] + h[r] - g[r]
  <1> DEFINE T == {s \in SUBSET S : H[s] = F[s] + (IF r \in s THEN h[r] - g[r] ELSE 0)}
  <1>1. ASSUME NEW s \in SUBSET S, \A t \in SUBSET s : t # s => t \in T
        PROVE  s \in T
    <2>1. CASE s = {}
      BY <2>1 DEF Sums
    <2>2. CASE s # {}
      <3> DEFINE x == Pick(s)
      <3>1. x \in s
        BY <2>2, PickIn
      <3>2. s \ {x} \in T
        BY <1>1, <3>1
      <3>3. H[s] = h[x] + H[s \ {x}] /\ F[s] = g[x] + F[s \ {x}]
        BY <2>2 DEF Sums
      <3>4. H[s \ {x}] \in Int /\ F[s \ {x}] \in Int /\ h[x] \in Int /\ g[x] \in Int
            /\ h[r] \in Int /\ g[r] \in Int
        BY <3>1 DEF Sums
      <3> HIDE DEF x
      <3>5. CASE x = r
        BY <3>1, <3>2, <3>3, <3>4, <3>5
      <3>6. CASE x # r
        <4>1. h[x] = g[x]
          BY <3>1, <3>6
        <4> QED BY <3>1, <3>2, <3>3, <3>4, <3>6, <4>1
      <3> QED BY <3>5, <3>6
    <2> QED BY <2>1, <2>2
  <1>2. T = SUBSET S
    <2>1. T \in SUBSET SUBSET S
      OBVIOUS
    <2> HIDE DEF T
    <2> QED BY <1>1, <2>1, SubsetInduction
  <1>3. S \in T
    BY <1>2
  <1>4. F[S] \in Int /\ H[S] \in Int /\ h[r] \in Int /\ g[r] \in Int
    BY DEF Sums
  <1> QED BY <1>3, <1>4

\* The sum, as a value: what CHOOSE finds is determined.
SumOver(g, S) == (CHOOSE F : Sums(F, g, S))[S]

LEMMA SumIs ==
    ASSUME NEW S, IsFiniteSet(S), NEW g, NEW F, Sums(F, g, S)
    PROVE  SumOver(g, S) = F[S]
  <1> DEFINE G == CHOOSE H : Sums(H, g, S)
  <1>1. Sums(G, g, S)
    OBVIOUS
  <1> HIDE DEF G
  <1>2. G[S] = F[S]
    BY <1>1, SumsAgree
  <1> QED
    BY <1>2 DEF SumOver, G

\* A fold over a finite set, given by its recursion, is the sum.
LEMMA FoldIs ==
    ASSUME NEW S, IsFiniteSet(S), NEW g, \A x \in S : g[x] \in Int,
           NEW it, it[{}] = 0,
           \A s \in SUBSET S : s # {} => it[s] = g[Pick(s)] + it[s \ {Pick(s)}]
    PROVE  it[S] = SumOver(g, S) /\ it[S] \in Int
  <1>1. PICK F : Sums(F, g, S)
    BY SumsExist
  <1> DEFINE T == {s \in SUBSET S : it[s] = F[s]}
  <1>2. ASSUME NEW s \in SUBSET S, \A t \in SUBSET s : t # s => t \in T
        PROVE  s \in T
    <2>1. CASE s = {}
      BY <1>1, <2>1 DEF Sums
    <2>2. CASE s # {}
      <3>1. Pick(s) \in s
        BY <2>2, PickIn
      <3>2. s \ {Pick(s)} \in T
        BY <1>2, <3>1
      <3>3. F[s] = g[Pick(s)] + F[s \ {Pick(s)}]
        BY <1>1, <2>2 DEF Sums
      <3> QED
        BY <2>2, <3>2, <3>3
    <2> QED
      BY <2>1, <2>2
  <1>3. T = SUBSET S
    <2>1. T \in SUBSET SUBSET S
      OBVIOUS
    <2> HIDE DEF T
    <2> QED
      BY <1>2, <2>1, SubsetInduction
  <1>4. it[S] = F[S] /\ F[S] \in Int
    BY <1>1, <1>3 DEF Sums
  <1> QED
    BY <1>1, <1>4, SumIs

\* A sum, taken apart.
LEMMA SumOfNone == ASSUME NEW g PROVE SumOver(g, {}) = 0
  <1>1. IsFiniteSet({}) /\ \A x \in {} : g[x] \in Int
    BY FS_EmptySet
  <1>2. PICK F : Sums(F, g, {})
    BY <1>1, SumsExist
  <1>3. F[{}] = 0
    BY <1>2 DEF Sums
  <1> QED
    BY <1>1, <1>2, <1>3, SumIs

LEMMA SumTakesOne ==
    ASSUME NEW S, IsFiniteSet(S), NEW g, \A x \in S : g[x] \in Int
    PROVE  /\ SumOver(g, S) \in Int
           /\ S # {} => SumOver(g, S) = g[Pick(S)] + SumOver(g, S \ {Pick(S)})
  <1>1. PICK F : Sums(F, g, S)
    BY SumsExist
  <1>2. SumOver(g, S) = F[S] /\ F[S] \in Int
    BY <1>1, SumIs DEF Sums
  <1>3. ASSUME S # {} PROVE SumOver(g, S) = g[Pick(S)] + SumOver(g, S \ {Pick(S)})
    <2> DEFINE s == S \ {Pick(S)}
    <2>1. s \in SUBSET S /\ IsFiniteSet(s)
      BY FS_Subset
    <2>2. Sums([t \in SUBSET s |-> F[t]], g, s)
      BY <1>1, <2>1, SumsRestrict
    <2>3. SumOver(g, s) = [t \in SUBSET s |-> F[t]][s]
      BY <2>1, <2>2, SumIs
    <2>4. SumOver(g, s) = F[s]
      BY <2>3
    <2>5. F[S] = g[Pick(S)] + F[s]
      BY <1>1, <1>3 DEF Sums
    <2> QED
      BY <1>2, <2>4, <2>5
  <1> QED
    BY <1>2, <1>3

\* What holds of no summands, and of some when it holds without one of them, holds of all.
LEMMA SumInduction ==
    ASSUME NEW S, IsFiniteSet(S), NEW T \in SUBSET SUBSET S, {} \in T,
           \A s \in SUBSET S : s # {} /\ s \ {Pick(s)} \in T => s \in T
    PROVE  S \in T
  <1>1. ASSUME NEW s \in SUBSET S, \A t \in SUBSET s : t # s => t \in T PROVE s \in T
    <2>1. CASE s = {}
      BY <2>1
    <2>2. CASE s # {}
      <3>1. Pick(s) \in s
        BY <2>2, PickIn
      <3>2. s \ {Pick(s)} \in T
        BY <1>1, <3>1
      <3> QED
        BY <2>2, <3>2
    <2> QED
      BY <2>1, <2>2
  <1>2. T = SUBSET S
    BY <1>1, SubsetInduction
  <1> QED
    BY <1>2

\* A relation of the summands is one of the sums.
LEMMA SumsCombine ==
    ASSUME NEW S, IsFiniteSet(S), NEW a \in Int, NEW b \in Int, NEW f, NEW g, NEW h,
           \A x \in S : /\ f[x] \in Int /\ g[x] \in Int /\ h[x] \in Int
                        /\ a * f[x] = b * g[x] + h[x]
    PROVE  a * SumOver(f, S) = b * SumOver(g, S) + SumOver(h, S)
  <1> DEFINE T == {s \in SUBSET S : a * SumOver(f, s) = b * SumOver(g, s) + SumOver(h, s)}
  <1>1. {} \in T
    BY SumOfNone
  <1>2. ASSUME NEW s \in SUBSET S, s # {}, s \ {Pick(s)} \in T PROVE s \in T
    <2> DEFINE x == Pick(s)
               t == s \ {x}
    <2>1. x \in S /\ t \in SUBSET S /\ IsFiniteSet(s) /\ IsFiniteSet(t)
      BY <1>2, PickIn, FS_Subset
    <2>2. PICK u, v, w : u = SumOver(f, t) /\ v = SumOver(g, t) /\ w = SumOver(h, t)
      OBVIOUS
    <2>3. u \in Int /\ v \in Int /\ w \in Int
      BY <2>1, <2>2, SumTakesOne
    <2>4. /\ SumOver(f, s) = f[x] + u /\ SumOver(g, s) = g[x] + v
          /\ SumOver(h, s) = h[x] + w
      BY <1>2, <2>1, <2>2, SumTakesOne
    <2>5. a * u = b * v + w
      BY <1>2, <2>2
    <2>6. PICK i, j, k : i = f[x] /\ j = g[x] /\ k = h[x]
      OBVIOUS
    <2>7. i \in Int /\ j \in Int /\ k \in Int /\ a * i = b * j + k
      BY <2>1, <2>6
    <2>8. a * (i + u) = a * i + a * u /\ b * (j + v) = b * j + b * v
      BY <2>3, <2>7
    <2>9. /\ a * i \in Int /\ a * u \in Int /\ b * j \in Int /\ b * v \in Int
      BY <2>3, <2>7
    <2>10. a * (i + u) = b * (j + v) + (k + w)
      BY <2>3, <2>5, <2>7, <2>8, <2>9
    <2> QED
      BY <2>4, <2>6, <2>10
  <1>3. S \in T
    <2>1. T \in SUBSET SUBSET S
      OBVIOUS
    <2> HIDE DEF T
    <2> QED
      BY <1>1, <1>2, <2>1, SumInduction
  <1> QED
    BY <1>3

\* A sum of what is not negative is not.
LEMMA SumIsNatural ==
    ASSUME NEW S, IsFiniteSet(S), NEW f, \A x \in S : f[x] \in Nat
    PROVE  SumOver(f, S) \in Nat
  <1> DEFINE T == {s \in SUBSET S : SumOver(f, s) \in Nat}
  <1>1. {} \in T
    BY SumOfNone
  <1>2. ASSUME NEW s \in SUBSET S, s # {}, s \ {Pick(s)} \in T PROVE s \in T
    <2>1. Pick(s) \in S /\ IsFiniteSet(s) /\ \A x \in s : f[x] \in Int
      BY <1>2, PickIn, FS_Subset
    <2>2. SumOver(f, s) = f[Pick(s)] + SumOver(f, s \ {Pick(s)})
      BY <1>2, <2>1, SumTakesOne
    <2> QED
      BY <1>2, <2>1, <2>2
  <1>3. S \in T
    <2>1. T \in SUBSET SUBSET S
      OBVIOUS
    <2> HIDE DEF T
    <2> QED
      BY <1>1, <1>2, <2>1, SumInduction
  <1> QED
    BY <1>3

\* One more at some of the places.
LEMMA SumsCount ==
    ASSUME NEW S, IsFiniteSet(S), NEW W \in SUBSET S, NEW f, NEW g,
           \A x \in S : /\ f[x] \in Int /\ g[x] \in Int
                        /\ f[x] = g[x] + (IF x \in W THEN 1 ELSE 0)
    PROVE  SumOver(f, S) = SumOver(g, S) + Cardinality(W)
  <1> DEFINE T == {s \in SUBSET S : SumOver(f, s) = SumOver(g, s) + Cardinality(W \cap s)}
  <1>1. {} \in T
    <2>1. W \cap {} = {} /\ Cardinality({}) = 0
      BY FS_EmptySet
    <2>2. SumOver(f, {}) = 0 /\ SumOver(g, {}) = 0
      BY SumOfNone
    <2> QED
      BY <2>1, <2>2
  <1>2. ASSUME NEW s \in SUBSET S, s # {}, s \ {Pick(s)} \in T PROVE s \in T
    <2> DEFINE x == Pick(s)
               t == s \ {x}
    <2>1. x \in s /\ x \in S /\ t \in SUBSET S /\ IsFiniteSet(s) /\ IsFiniteSet(t)
      BY <1>2, PickIn, FS_Subset
    <2>2. IsFiniteSet(W \cap s) /\ Cardinality(W \cap s) \in Nat
      BY <2>1, FS_Subset, FS_CardinalityType
    <2>3. W \cap t = (W \cap s) \ {x}
      OBVIOUS
    <2>4. Cardinality(W \cap t) = Cardinality(W \cap s) - (IF x \in W THEN 1 ELSE 0)
      <3>1. PICK V : V = W \cap s
        OBVIOUS
      <3>2. Cardinality(V \ {x}) = IF x \in V THEN Cardinality(V) - 1 ELSE Cardinality(V)
        BY <2>2, <3>1, FS_RemoveElement
      <3>3. x \in V <=> x \in W
        BY <2>1, <3>1
      <3> QED
        BY <2>2, <2>3, <3>1, <3>2, <3>3
    <2>5. SumOver(f, t) \in Int /\ SumOver(g, t) \in Int
      BY <2>1, SumTakesOne
    <2>6. SumOver(f, s) = f[x] + SumOver(f, t) /\ SumOver(g, s) = g[x] + SumOver(g, t)
      BY <1>2, <2>1, SumTakesOne
    <2>7. SumOver(f, t) = SumOver(g, t) + Cardinality(W \cap t)
      BY <1>2
    <2>8. f[x] \in Int /\ g[x] \in Int /\ f[x] = g[x] + (IF x \in W THEN 1 ELSE 0)
      BY <2>1
    <2>9. PICK c, d, u, v : /\ c = Cardinality(W \cap s) /\ d = Cardinality(W \cap t)
                            /\ u = SumOver(f, t) /\ v = SumOver(g, t)
      OBVIOUS
    <2>10. PICK i, j : i = f[x] /\ j = g[x]
      OBVIOUS
    <2> HIDE DEF x, t
    <2>11. SumOver(f, s) = i + u /\ SumOver(g, s) = j + v
      BY <2>6, <2>9, <2>10
    <2>12. i + u = j + v + c
      BY <2>2, <2>4, <2>5, <2>7, <2>8, <2>9, <2>10
    <2> QED
      BY <2>9, <2>11, <2>12
  <1>3. S \in T
    <2>1. T \in SUBSET SUBSET S
      OBVIOUS
    <2> HIDE DEF T
    <2> QED
      BY <1>1, <1>2, <2>1, SumInduction
  <1>4. W \cap S = W
    OBVIOUS
  <1> QED
    BY <1>3, <1>4

\* What is nowhere more than a, and nothing outside W.
LEMMA SumsBound ==
    ASSUME NEW S, IsFiniteSet(S), NEW W \in SUBSET S, NEW a \in Nat, NEW f,
           \A x \in S : f[x] \in 0 .. a /\ (x \notin W => f[x] = 0)
    PROVE  SumOver(f, S) \in 0 .. (a * Cardinality(W))
  <1> DEFINE T == {s \in SUBSET S : SumOver(f, s) \in 0 .. (a * Cardinality(W \cap s))}
  <1>1. {} \in T
    <2>1. W \cap {} = {} /\ Cardinality({}) = 0
      BY FS_EmptySet
    <2>2. SumOver(f, {}) = 0
      BY SumOfNone
    <2> QED
      BY <2>1, <2>2
  <1>2. ASSUME NEW s \in SUBSET S, s # {}, s \ {Pick(s)} \in T PROVE s \in T
    <2> DEFINE x == Pick(s)
               t == s \ {x}
    <2>1. x \in s /\ x \in S /\ t \in SUBSET S /\ IsFiniteSet(s) /\ IsFiniteSet(t)
      BY <1>2, PickIn, FS_Subset
    <2>2. IsFiniteSet(W \cap s) /\ Cardinality(W \cap s) \in Nat
          /\ IsFiniteSet(W \cap t) /\ Cardinality(W \cap t) \in Nat
      BY <2>1, FS_Subset, FS_CardinalityType
    <2>3. W \cap t = (W \cap s) \ {x}
      OBVIOUS
    <2>4. Cardinality(W \cap s) = Cardinality(W \cap t) + (IF x \in W THEN 1 ELSE 0)
      <3>1. PICK V : V = W \cap s
        OBVIOUS
      <3>2. Cardinality(V \ {x}) = IF x \in V THEN Cardinality(V) - 1 ELSE Cardinality(V)
        BY <2>2, <3>1, FS_RemoveElement
      <3>3. x \in V <=> x \in W
        BY <2>1, <3>1
      <3> QED
        BY <2>2, <2>3, <3>1, <3>2, <3>3
    <2>5. SumOver(f, s) = f[x] + SumOver(f, t)
      <3>1. \A z \in s : f[z] \in Int
        OBVIOUS
      <3> QED
        BY <1>2, <2>1, <3>1, SumTakesOne
    <2>6. PICK c, d, u, y : /\ c = Cardinality(W \cap t) /\ d = Cardinality(W \cap s)
                            /\ u = SumOver(f, t) /\ y = f[x]
      OBVIOUS
    <2>7. u \in 0 .. (a * c) /\ c \in Nat /\ d \in Nat /\ a * c \in Nat
      BY <1>2, <2>2, <2>6
    <2>8. y \in 0 .. a /\ (x \notin W => y = 0)
      BY <2>1, <2>6
    <2>9. y + u \in 0 .. (a * d)
      <3>1. CASE x \in W
        <4>1. d = c + 1
          BY <2>4, <2>6, <2>7, <3>1
        <4>2. a * d = a * c + a
          BY <2>7, <4>1
        <4> QED
          BY <2>7, <2>8, <4>2
      <3>2. CASE x \notin W
        <4>1. d = c
          BY <2>4, <2>6, <2>7, <3>2
        <4> QED
          BY <2>7, <2>8, <3>2, <4>1
      <3> QED
        BY <3>1, <3>2
    <2> QED
      BY <2>5, <2>6, <2>9
  <1>3. S \in T
    <2>1. T \in SUBSET SUBSET S
      OBVIOUS
    <2> HIDE DEF T
    <2> QED
      BY <1>1, <1>2, <2>1, SumInduction
  <1>4. W \cap S = W
    OBVIOUS
  <1> QED
    BY <1>3, <1>4

\* Any summand may be taken out first.
LEMMA SumRemoves ==
    ASSUME NEW S, IsFiniteSet(S), NEW g, \A x \in S : g[x] \in Int
    PROVE  \A x \in S : SumOver(g, S) = g[x] + SumOver(g, S \ {x})
  <1> DEFINE T == {s \in SUBSET S : \A x \in s : SumOver(g, s) = g[x] + SumOver(g, s \ {x})}
  <1>1. ASSUME NEW s \in SUBSET S, \A t \in SUBSET s : t # s => t \in T,
               NEW x \in s
        PROVE  SumOver(g, s) = g[x] + SumOver(g, s \ {x})
    <2>1. PICK p : p = Pick(s)
      OBVIOUS
    <2>2. p \in s /\ s # {}
      BY <1>1, <2>1, PickIn
    <2>3. IsFiniteSet(s) /\ \A y \in s : g[y] \in Int
      BY FS_Subset
    <2>4. SumOver(g, s) = g[p] + SumOver(g, s \ {p})
      BY <2>1, <2>2, <2>3, SumTakesOne
    <2>5. CASE x = p
      BY <2>4, <2>5
    <2>6. CASE x # p
      <3>1. PICK t, u, v : t = s \ {p} /\ u = s \ {x} /\ v = s \ {p, x}
        OBVIOUS
      <3>2. t \in T /\ u \in T
        BY <1>1, <2>2, <3>1
      <3>3. x \in t /\ p \in u /\ t \ {x} = v /\ u \ {p} = v
        BY <1>1, <2>2, <2>6, <3>1
      <3>4. SumOver(g, t) = g[x] + SumOver(g, v) /\ SumOver(g, u) = g[p] + SumOver(g, v)
        BY <3>2, <3>3
      <3>5. v \in SUBSET S /\ IsFiniteSet(v)
        BY <2>3, <3>1, FS_Subset
      <3>6. SumOver(g, v) \in Int
        BY <3>5, SumTakesOne
      <3> QED
        BY <2>2, <2>3, <2>4, <3>1, <3>4, <3>6
    <2> QED
      BY <2>5, <2>6
  <1>2. T = SUBSET S
    <2>1. T \in SUBSET SUBSET S
      OBVIOUS
    <2>2. \A s \in SUBSET S : (\A t \in SUBSET s : t # s => t \in T) => s \in T
      BY <1>1
    <2> HIDE DEF T
    <2> QED
      BY <2>1, <2>2, SubsetInduction
  <1> QED
    BY <1>2

\* Nothing adds up to nothing.
LEMMA SumOfZeros ==
    ASSUME NEW S, IsFiniteSet(S), NEW g, \A x \in S : g[x] = 0
    PROVE  SumOver(g, S) = 0
  <1>1. PICK a : a = SumOver(g, S)
    OBVIOUS
  <1>2. a \in 0 .. (0 * Cardinality({}))
    <2>1. \A x \in S : g[x] \in 0 .. 0 /\ (x \notin {} => g[x] = 0)
      OBVIOUS
    <2>2. {} \in SUBSET S /\ 0 \in Nat
      OBVIOUS
    <2> QED
      BY <1>1, <2>1, <2>2, SumsBound
  <1>3. 0 * Cardinality({}) = 0
    BY FS_EmptySet
  <1> QED
    BY <1>1, <1>2, <1>3

LEMMA SumsSame ==
    ASSUME NEW S, IsFiniteSet(S), NEW f, NEW g, \A x \in S : f[x] = g[x] /\ g[x] \in Int
    PROVE  SumOver(f, S) = SumOver(g, S)
  <1>1. PICK z : z = [x \in S |-> 0]
    OBVIOUS
  <1>2. \A x \in S : /\ f[x] \in Int /\ g[x] \in Int /\ z[x] \in Int
                     /\ 1 * f[x] = 1 * g[x] + z[x]
    BY <1>1
  <1>3. 1 * SumOver(f, S) = 1 * SumOver(g, S) + SumOver(z, S)
    BY <1>2, SumsCombine
  <1>4. SumOver(z, S) = 0
    BY <1>1, SumOfZeros
  <1>5. SumOver(f, S) \in Int /\ SumOver(g, S) \in Int
    BY <1>2, SumTakesOne
  <1> QED
    BY <1>3, <1>4, <1>5

\* What is scaled, or a number for each.
LEMMA SumScales ==
    ASSUME NEW S, IsFiniteSet(S), NEW a \in Int, NEW f, NEW g,
           \A x \in S : f[x] = a * g[x] /\ g[x] \in Int
    PROVE  SumOver(f, S) = a * SumOver(g, S)
  <1>1. PICK z : z = [x \in S |-> 0]
    OBVIOUS
  <1>2. ASSUME NEW x \in S
        PROVE  f[x] \in Int /\ g[x] \in Int /\ z[x] \in Int /\ 1 * f[x] = a * g[x] + z[x]
    <2>1. PICK y : y = a * g[x]
      OBVIOUS
    <2>2. y \in Int /\ f[x] = y /\ z[x] = 0 /\ g[x] \in Int
      BY <1>1, <2>1
    <2>3. 1 * f[x] = y + z[x]
      BY <2>2
    <2> QED
      BY <2>1, <2>2, <2>3
  <1>3. 1 * SumOver(f, S) = a * SumOver(g, S) + SumOver(z, S)
    BY <1>2, SumsCombine
  <1>4. SumOver(z, S) = 0
    BY <1>1, SumOfZeros
  <1>5. PICK u, v, w : u = SumOver(f, S) /\ v = SumOver(g, S) /\ w = a * v
    OBVIOUS
  <1>6. u \in Int /\ v \in Int
    BY <1>2, <1>5, SumTakesOne
  <1>7. w \in Int /\ 1 * u = w + 0
    BY <1>3, <1>4, <1>5, <1>6
  <1> QED
    BY <1>5, <1>6, <1>7

LEMMA SumOfConstant ==
    ASSUME NEW S, IsFiniteSet(S), NEW a \in Int, NEW f, \A x \in S : f[x] = a
    PROVE  SumOver(f, S) = a * Cardinality(S)
  <1>1. PICK one, z : one = [x \in S |-> 1] /\ z = [x \in S |-> 0]
    OBVIOUS
  <1>2. SumOver(one, S) = SumOver(z, S) + Cardinality(S)
    <2>1. \A x \in S : /\ one[x] \in Int /\ z[x] \in Int
                       /\ one[x] = z[x] + (IF x \in S THEN 1 ELSE 0)
      BY <1>1
    <2>2. S \in SUBSET S
      OBVIOUS
    <2> QED
      BY <2>1, <2>2, SumsCount
  <1>3. SumOver(z, S) = 0
    BY <1>1, SumOfZeros
  <1>4. SumOver(one, S) = Cardinality(S)
    BY <1>2, <1>3, FS_CardinalityType
  <1>5. \A x \in S : f[x] = a * one[x] /\ one[x] \in Int
    BY <1>1
  <1>6. SumOver(f, S) = a * SumOver(one, S)
    BY <1>5, SumScales
  <1> QED
    BY <1>4, <1>6

\* A sum is the sum of its parts: key names the part of each.
Keys(key, S) == {key[x] : x \in S}
Part(key, S, k) == {x \in S : key[x] = k}

LEMMA SumByParts ==
    ASSUME NEW S, IsFiniteSet(S), NEW key, NEW f, \A x \in S : f[x] \in Int,
           NEW g, \A k \in Keys(key, S) : g[k] = SumOver(f, Part(key, S, k))
    PROVE  /\ IsFiniteSet(Keys(key, S)) /\ SumOver(g, Keys(key, S)) = SumOver(f, S)
           /\ \A k \in Keys(key, S) : g[k] \in Int
  <1>1. PICK K : K = Keys(key, S)
    OBVIOUS
  <1>2. IsFiniteSet(K)
    <2>1. PICK m : m = [x \in S |-> key[x]]
      OBVIOUS
    <2>2. m \in Surjection(S, K)
      BY <1>1, <2>1 DEF Surjection, Keys
    <2> QED
      BY <2>2, FS_Surjection
  <1>3. ASSUME NEW s \in SUBSET S, NEW k
        PROVE  /\ Part(key, s, k) \in SUBSET s /\ IsFiniteSet(Part(key, s, k))
               /\ SumOver(f, Part(key, s, k)) \in Int
    <2>1. Part(key, s, k) \in SUBSET s /\ Part(key, s, k) \in SUBSET S
      BY DEF Part
    <2>2. IsFiniteSet(Part(key, s, k))
      BY <2>1, FS_Subset
    <2>3. \A x \in Part(key, s, k) : f[x] \in Int
      BY <2>1
    <2> QED
      BY <2>1, <2>2, <2>3, SumTakesOne
  <1> DEFINE G(s) == [k \in K |-> SumOver(f, Part(key, s, k))]
             T == {s \in SUBSET S : SumOver(G(s), K) = SumOver(f, s)}
  <1>4. {} \in T
    <2>1. \A k \in K : G({})[k] = 0
      <3>1. \A k \in K : Part(key, {}, k) = {}
        BY DEF Part
      <3> QED
        BY <3>1, SumOfNone
    <2> HIDE DEF G
    <2>2. SumOver(G({}), K) = 0
      BY <1>2, <2>1, SumOfZeros
    <2> QED
      BY <2>2, SumOfNone
  <1>5. ASSUME NEW s \in SUBSET S, s # {}, s \ {Pick(s)} \in T PROVE s \in T
    <2>1. PICK x, t, r : x = Pick(s) /\ t = s \ {x} /\ r = key[x]
      OBVIOUS
    <2>2. x \in s /\ x \in S /\ t \in SUBSET S /\ r \in K /\ IsFiniteSet(s)
      BY <1>1, <1>5, <2>1, PickIn, FS_Subset DEF Keys
    <2>3. PICK u, v : u = G(s) /\ v = G(t)
      OBVIOUS
    <2>4. \A k \in K : /\ u[k] = SumOver(f, Part(key, s, k)) /\ u[k] \in Int
                       /\ v[k] = SumOver(f, Part(key, t, k)) /\ v[k] \in Int
      BY <1>3, <2>2, <2>3
    <2>5. u[r] = f[x] + v[r]
      <3>1. x \in Part(key, s, r) /\ Part(key, s, r) \ {x} = Part(key, t, r)
        BY <2>1, <2>2 DEF Part
      <3>2. IsFiniteSet(Part(key, s, r)) /\ \A y \in Part(key, s, r) : f[y] \in Int
        BY <1>3
      <3>3. SumOver(f, Part(key, s, r)) = f[x] + SumOver(f, Part(key, s, r) \ {x})
        BY <3>1, <3>2, SumRemoves
      <3> QED
        BY <2>2, <2>4, <3>1, <3>3
    <2>6. \A k \in K \ {r} : u[k] = v[k]
      <3>1. \A k \in K \ {r} : Part(key, s, k) = Part(key, t, k)
        BY <2>1 DEF Part
      <3> QED
        BY <2>4, <3>1
    <2>7. SumOver(u, K) = u[r] + SumOver(u, K \ {r}) /\ SumOver(v, K) = v[r] + SumOver(v, K \ {r})
      BY <1>2, <2>2, <2>4, SumRemoves
    <2>8. IsFiniteSet(K \ {r}) /\ \A k \in K \ {r} : u[k] = v[k] /\ v[k] \in Int
      BY <1>2, <2>4, <2>6, FS_Subset
    <2>9. SumOver(u, K \ {r}) = SumOver(v, K \ {r}) /\ SumOver(v, K \ {r}) \in Int
      BY <2>8, SumsSame, SumTakesOne
    <2>10. SumOver(v, K) = SumOver(f, t)
      BY <1>5, <2>1, <2>3
    <2>11. SumOver(f, s) = f[x] + SumOver(f, t)
      BY <1>5, <2>1, <2>2, SumTakesOne
    <2>12. SumOver(u, K) = SumOver(f, s)
      BY <2>2, <2>4, <2>5, <2>7, <2>9, <2>10, <2>11
    <2> QED
      BY <2>3, <2>12
  <1>6. S \in T
    <2>1. T \in SUBSET SUBSET S
      OBVIOUS
    <2> HIDE DEF T
    <2> QED
      BY <1>4, <1>5, <2>1, SumInduction
  <1>7. SumOver(G(S), K) = SumOver(f, S)
    BY <1>6
  <1>8. S \in SUBSET S
    OBVIOUS
  <1>9. \A k \in K : g[k] = G(S)[k] /\ G(S)[k] \in Int
    BY <1>1, <1>3, <1>8
  <1> HIDE DEF G
  <1>10. SumOver(g, K) = SumOver(G(S), K)
    BY <1>2, <1>9, SumsSame
  <1> QED
    BY <1>1, <1>2, <1>7, <1>9, <1>10

\* The sign of the summands is the sum's.
LEMMA SumHasTheSign ==
    ASSUME NEW S, IsFiniteSet(S), S # {}, NEW f, \A x \in S : f[x] \in Int
    PROVE  /\ SumOver(f, S) \in Int
           /\ (\A x \in S : f[x] >= 0) => SumOver(f, S) >= 0
           /\ (\A x \in S : f[x] > 0) => SumOver(f, S) > 0
           /\ (\A x \in S : f[x] <= 0) => SumOver(f, S) <= 0
           /\ (\A x \in S : f[x] < 0) => SumOver(f, S) < 0
  <1>1. SumOver(f, S) \in Int
    BY SumTakesOne
  <1>2. ASSUME NEW h, \A x \in S : h[x] \in Nat PROVE SumOver(h, S) >= 0
    BY <1>2, SumIsNatural
  <1>3. ASSUME NEW h, \A x \in S : h[x] \in Nat \ {0} PROVE SumOver(h, S) > 0
    <2>1. PICK x \in S : TRUE
      OBVIOUS
    <2>2. SumOver(h, S) = h[x] + SumOver(h, S \ {x})
      BY <1>3, SumRemoves
    <2>3. IsFiniteSet(S \ {x}) /\ \A y \in S \ {x} : h[y] \in Nat
      BY <1>3, FS_Subset
    <2>4. SumOver(h, S \ {x}) \in Nat
      BY <2>3, SumIsNatural
    <2> QED
      BY <1>3, <2>2, <2>4
  <1>4. PICK m : m = [x \in S |-> -f[x]]
    OBVIOUS
  <1>5. \A x \in S : m[x] = (-1) * f[x] /\ m[x] = -f[x]
    BY <1>4
  <1>6. SumOver(m, S) = (-1) * SumOver(f, S)
    BY <1>5, SumScales
  <1>7. SumOver(m, S) = -SumOver(f, S)
    BY <1>1, <1>6
  <1>8. ASSUME \A x \in S : f[x] <= 0 PROVE SumOver(f, S) <= 0
    <2>1. \A x \in S : m[x] \in Nat
      BY <1>5, <1>8
    <2>2. SumOver(m, S) >= 0
      BY <1>2, <2>1
    <2> QED
      BY <1>1, <1>7, <2>2
  <1>9. ASSUME \A x \in S : f[x] < 0 PROVE SumOver(f, S) < 0
    <2>1. \A x \in S : m[x] \in Nat \ {0}
      BY <1>5, <1>9
    <2>2. SumOver(m, S) > 0
      BY <1>3, <2>1
    <2> QED
      BY <1>1, <1>7, <2>2
  <1>10. ASSUME \A x \in S : f[x] >= 0 PROVE SumOver(f, S) >= 0
    <2>1. \A x \in S : f[x] \in Nat
      BY <1>10
    <2> QED
      BY <1>2, <2>1
  <1>11. ASSUME \A x \in S : f[x] > 0 PROVE SumOver(f, S) > 0
    <2>1. \A x \in S : f[x] \in Nat \ {0}
      BY <1>11
    <2> QED
      BY <1>3, <2>1
  <1> QED
    BY <1>1, <1>8, <1>9, <1>10, <1>11

\* What the calls moved.
Moved(g) == SumOver(g, Requests)

LEMMA MovedIs ==
    ASSUME NEW g, NEW F, Sums(F, g, Requests)
    PROVE  Moved(g) = F[Requests]
BY FiniteRequests, SumIs DEF Moved

LEMMA MovedOfNothing ==
    ASSUME NEW g \in [Requests -> Int], \A r \in Requests : g[r] = 0
    PROVE  Moved(g) = 0
  <1> DEFINE F == [s \in SUBSET Requests |-> 0]
  <1>1. F \in [SUBSET Requests -> Int] /\ F[{}] = 0
    OBVIOUS
  <1>2. ASSUME NEW s \in SUBSET Requests, s # {}
        PROVE  F[s] = g[Pick(s)] + F[s \ {Pick(s)}]
    <2>1. g[Pick(s)] = 0
      BY <1>2, PickIn
    <2> QED
      BY <2>1
  <1>3. F[Requests] = 0
    OBVIOUS
  <1> HIDE DEF F
  <1>4. Sums(F, g, Requests)
    BY <1>1, <1>2 DEF Sums
  <1> QED
    BY <1>3, <1>4, MovedIs

\* One call's flow changes the total by as much as itself.
LEMMA MovedShift ==
    ASSUME NEW g \in [Requests -> Int], NEW h \in [Requests -> Int],
           NEW r \in Requests, \A q \in Requests : q # r => g[q] = h[q]
    PROVE  Moved(h) = Moved(g) + h[r] - g[r]
  <1>1. PICK F : Sums(F, g, Requests)
    BY FiniteRequests, SumsExist
  <1>2. PICK H : Sums(H, h, Requests)
    BY FiniteRequests, SumsExist
  <1>3. H[Requests] = F[Requests] + h[r] - g[r]
    BY <1>1, <1>2, FiniteRequests, SumsShift
  <1> QED
    BY <1>1, <1>2, <1>3, MovedIs

Flows(l, f) == [r \in Requests |-> Flow(r, l, f)]

Columns == {"quantity", "weight", "cost"}

LEMMA FlowsAreNumbers ==
    ASSUME TypeOK, NEW l \in Lots, NEW f \in Columns
    PROVE  /\ Flows(l, f) \in [Requests -> Int]
           /\ \A r \in Requests : Flow(r, l, f) \in Int
  <1>1. ASSUME NEW r \in Requests PROVE Flow(r, l, f) \in Int
    <2>1. movement[r] # NoMovement => movement[r].figures[f] \in Int
      BY DEF TypeOK, Movements, Figures, Columns
    <2>2. edit[r] # NoEdit =>
             edit[r].after[f] \in Int /\ edit[r].before[f] \in Int
      BY DEF TypeOK, Edits, Figures, Columns
    <2> QED
      BY <2>1, <2>2 DEF Flow
  <1> QED
    BY <1>1 DEF Flows

\* The sum FiguresAccountedFor folds over the calls is what they moved.
LEMMA FoldedFlows ==
    ASSUME TypeOK, NEW l \in Lots, NEW f \in Columns
    PROVE  MapThenSumSet(LAMBDA r : Flow(r, l, f), Requests) = Moved(Flows(l, f))
  <1> DEFINE Rule(G) ==
         G = [s \in SUBSET Requests |->
                IF s = {} THEN 0
                ELSE Flow(CHOOSE x \in s : TRUE, l, f)
                     + G[s \ {CHOOSE x \in s : TRUE}]]
  <1>1. PICK g : g = Flows(l, f)
    OBVIOUS
  <1>2. g \in [Requests -> Int]
        /\ \A r \in Requests : g[r] = Flow(r, l, f)
    BY <1>1, FlowsAreNumbers DEF Flows
  <1>3. PICK F : Sums(F, g, Requests)
    BY <1>2, FiniteRequests, SumsExist
  <1>4. ASSUME NEW s \in SUBSET Requests
        PROVE  F[s] = IF s = {} THEN 0
                      ELSE Flow(CHOOSE x \in s : TRUE, l, f)
                           + F[s \ {CHOOSE x \in s : TRUE}]
    <2>1. CASE s = {}
      BY <1>3, <2>1 DEF Sums
    <2>2. CASE s # {}
      <3>1. Pick(s) \in Requests
        BY <2>2, PickIn
      <3>2. F[s] = g[Pick(s)] + F[s \ {Pick(s)}]
        BY <1>3, <2>2 DEF Sums
      <3> QED
        BY <1>2, <2>2, <3>1, <3>2 DEF Pick
    <2> QED
      BY <2>1, <2>2
  <1>5. Rule(F)
    BY <1>3, <1>4 DEF Sums
  <1>6. Rule(CHOOSE G : Rule(G))
    <2> HIDE DEF Rule
    <2> QED
      BY <1>5
  <1> DEFINE it == CHOOSE G : Rule(G)
  <1>7. MapThenSumSet(LAMBDA r : Flow(r, l, f), Requests) = it[Requests]
    BY DEF MapThenSumSet, MapThenFoldSet
  <1> HIDE DEF it
  <1>8. it = [s \in SUBSET Requests |->
                IF s = {} THEN 0
                ELSE Flow(CHOOSE x \in s : TRUE, l, f)
                     + it[s \ {CHOOSE x \in s : TRUE}]]
    BY <1>6 DEF it
  <1> HIDE DEF Rule
  <1>9. ASSUME NEW s \in SUBSET Requests
        PROVE  /\ s = {} => it[s] = 0
               /\ s # {} => it[s] = g[Pick(s)] + it[s \ {Pick(s)}]
    <2>1. it[s] = IF s = {} THEN 0
                  ELSE Flow(CHOOSE x \in s : TRUE, l, f)
                       + it[s \ {CHOOSE x \in s : TRUE}]
      BY <1>8
    <2>2. s # {} => Pick(s) \in Requests
      BY PickIn
    <2> QED
      BY <1>2, <2>1, <2>2 DEF Pick
  <1>10. it[Requests] = SumOver(g, Requests)
    BY <1>2, <1>9, FiniteRequests, FoldIs
  <1> QED
    BY <1>1, <1>7, <1>10 DEF Moved

-----------------------------------------------------------------------------
(* What a lot holds is what it opened with and what its calls moved. *)

\* FiguresAccountedFor with the sum as a value.
Balanced ==
    \A l \in Lots : asset[l] # NoRow =>
       \A f \in Columns :
          asset[l].figures[f] = OpeningFigure(l, f) + Moved(Flows(l, f))

\* A commit adds its own flow to the total and no other.
LEMMA OneFlow ==
    ASSUME TypeOK, TypeOK', NEW r \in Requests,
           movement[r] = NoMovement, edit[r] = NoEdit,
           \A q \in Requests :
              q # r => movement'[q] = movement[q] /\ edit'[q] = edit[q],
           NEW l \in Lots, NEW f \in Columns
    PROVE  /\ Moved(Flows(l, f))' = Moved(Flows(l, f)) + Flow(r, l, f)'
           /\ Moved(Flows(l, f)) \in Int
  <1>1. PICK g : g = Flows(l, f)
    OBVIOUS
  <1>2. PICK h : h = Flows(l, f)'
    OBVIOUS
  <1>3. g \in [Requests -> Int] /\ \A q \in Requests : g[q] = Flow(q, l, f)
    BY <1>1, FlowsAreNumbers DEF Flows
  <1>4. h \in [Requests -> Int] /\ \A q \in Requests : h[q] = Flow(q, l, f)'
    <2>1. ASSUME NEW q \in Requests PROVE Flow(q, l, f)' \in Int
      <3>1. movement'[q] # NoMovement => movement'[q].figures[f] \in Int
        BY DEF TypeOK, Movements, Figures, Columns
      <3>2. edit'[q] # NoEdit =>
               edit'[q].after[f] \in Int /\ edit'[q].before[f] \in Int
        BY DEF TypeOK, Edits, Figures, Columns
      <3> QED
        BY <3>1, <3>2 DEF Flow
    <2> QED
      BY <1>2, <2>1 DEF Flows
  <1>5. ASSUME NEW q \in Requests, q # r PROVE g[q] = h[q]
    BY <1>3, <1>4, <1>5 DEF Flow
  <1>6. g[r] = 0
    BY <1>3 DEF Flow
  <1>7. Moved(h) = Moved(g) + h[r] - g[r]
    BY <1>3, <1>4, <1>5, MovedShift
  <1>8. Moved(g) \in Int
    <2>1. PICK F : Sums(F, g, Requests)
      BY <1>3, FiniteRequests, SumsExist
    <2>2. F[Requests] \in Int
      BY <2>1 DEF Sums
    <2> QED
      BY <1>3, <2>1, <2>2, MovedIs
  <1>9. Moved(h) = Moved(g) + h[r]
    BY <1>4, <1>6, <1>7, <1>8
  <1> QED
    BY <1>1, <1>2, <1>4, <1>8, <1>9

\* Calls that keep what their movements and edits carried keep the totals.
LEMMA SameFlows ==
    ASSUME NEW l \in Lots, NEW f \in Columns,
           \A q \in Requests : Flow(q, l, f)' = Flow(q, l, f)
    PROVE  Moved(Flows(l, f))' = Moved(Flows(l, f))
  <1>1. Flows(l, f)' = Flows(l, f)
    BY DEF Flows
  <1> QED
    BY <1>1

\* Nothing was moved into or out of a lot that is not there.
LEMMA NoFlows ==
    ASSUME LedgerInv, NEW l \in Lots, asset[l] = NoRow, NEW f \in Columns
    PROVE  Moved(Flows(l, f)) = 0
  <1>1. \A r \in Requests : Flow(r, l, f) = 0
    BY DEF LedgerInv, RowsAreBackedUp, Flow
  <1>2. PICK g : g = Flows(l, f)
    OBVIOUS
  <1>3. g \in [Requests -> Int] /\ \A r \in Requests : g[r] = 0
    BY <1>1, <1>2 DEF Flows
  <1> QED
    BY <1>2, <1>3, MovedOfNothing

\* How the flows of a lot and its balance change together.
Accounted(l) ==
    asset'[l] # NoRow => \A f \in Columns :
       asset'[l].figures[f] = OpeningFigure(l, f) + Moved(Flows(l, f))'

LEMMA BalanceMoves ==
    ASSUME LedgerInv, Balanced, TypeOK', NEW r \in Requests,
           movement[r] = NoMovement, edit[r] = NoEdit,
           \A q \in Requests :
              q # r => movement'[q] = movement[q] /\ edit'[q] = edit[q],
           NEW l \in Lots, asset[l] # NoRow,
           \A f \in Columns :
              asset'[l].figures[f] = asset[l].figures[f] + Flow(r, l, f)'
    PROVE  Accounted(l)
  <1>1. ASSUME NEW f \in Columns
        PROVE  asset'[l].figures[f] = OpeningFigure(l, f) + Moved(Flows(l, f))'
    <2>1. asset[l].figures[f] = OpeningFigure(l, f) + Moved(Flows(l, f))
      BY DEF Balanced
    <2>2. /\ Moved(Flows(l, f))' = Moved(Flows(l, f)) + Flow(r, l, f)'
          /\ Moved(Flows(l, f)) \in Int
      BY OneFlow DEF LedgerInv
    <2>3. OpeningFigure(l, f) \in Int
      BY LedgerAssumption DEF OpeningFigure, Rows, Figures, Columns
    <2>4. Flow(r, l, f)' \in Int
      <3>1. movement'[r] # NoMovement => movement'[r].figures[f] \in Int
        BY DEF TypeOK, Movements, Figures, Columns
      <3>2. edit'[r] # NoEdit =>
               edit'[r].after[f] \in Int /\ edit'[r].before[f] \in Int
        BY DEF TypeOK, Edits, Figures, Columns
      <3> QED
        BY <3>1, <3>2 DEF Flow
    <2> QED
      BY <2>1, <2>2, <2>3, <2>4
  <1> QED
    BY <1>1 DEF Accounted

LEMMA DisposalBalances ==
    ASSUME LedgerInv, Balanced, TypeOK', NEW r \in Requests, CommitDisposal(r),
           NEW l \in Lots, asset[l] # NoRow
    PROVE  Accounted(l)
  <1>1. TypeOK /\ asset[l] \in Rows
    BY DEF LedgerInv, TypeOK
  <1>2. PICK k \in Lots, kind \in DisposalKinds :
           /\ asset[k] \in Rows
           /\ movement[r] = NoMovement /\ edit[r] = NoEdit
           /\ \E q \in 1..asset[k].figures.quantity :
                \E split \in Splits(asset[k].figures, q) :
                   /\ asset' = [asset EXCEPT ![k] =
                                  AfterDisposal(asset[k], kind, split)]
                   /\ movement' = [movement EXCEPT ![r] =
                                  DisposalMovement(k, asset[k], kind, split)]
           /\ UNCHANGED <<edit, purchaseCurrency>>
    BY DisposalEffect
  <1>q. PICK q \in 1..asset[k].figures.quantity :
           \E split \in Splits(asset[k].figures, q) :
              /\ asset' = [asset EXCEPT ![k] =
                             AfterDisposal(asset[k], kind, split)]
              /\ movement' = [movement EXCEPT ![r] =
                             DisposalMovement(k, asset[k], kind, split)]
    BY <1>2
  <1>3. PICK split \in Splits(asset[k].figures, q) :
           /\ asset' = [asset EXCEPT ![k] = AfterDisposal(asset[k], kind, split)]
           /\ movement' = [movement EXCEPT ![r] =
                             DisposalMovement(k, asset[k], kind, split)]
    BY <1>q
  <1>4. \A p \in Requests : p # r => movement'[p] = movement[p] /\ edit'[p] = edit[p]
    BY <1>1, <1>2, <1>3 DEF TypeOK
  <1>5. /\ movement'[r] # NoMovement /\ movement'[r].lot = k
        /\ movement'[r].kind # "GIFT_IN" /\ movement'[r].figures = split.out
        /\ edit'[r] = NoEdit
    <2>1. movement'[r] = DisposalMovement(k, asset[k], kind, split)
      BY <1>1, <1>3 DEF TypeOK
    <2>2. movement'[r] \in Movements
      <3>1. /\ movement'[r].kind = kind /\ movement'[r].lot = k
            /\ movement'[r].figures = split.out
        BY <2>1 DEF DisposalMovement
      <3>2. asset[k].figures \in Figures
        BY <1>2 DEF Rows
      <3>3. split.out \in Figures
        BY <1>3, <3>2, SplitsAddUp
      <3>4. asset[k].currency \in Currencies /\ asset[k].location \in Locations
        BY <1>2 DEF Rows
      <3> QED
        BY <2>1, <3>3, <3>4 DEF DisposalMovement, Movements, MovementKinds
    <2> QED
      BY <1>2, <2>1, <2>2, LedgerAssumption DEF DisposalMovement, DisposalKinds
  <1>6. ASSUME NEW f \in Columns
        PROVE  asset'[l].figures[f] = asset[l].figures[f] + Flow(r, l, f)'
    <2>1. CASE l # k
      <3>1. asset'[l] = asset[l] /\ asset[l].figures[f] \in Nat
        BY <1>1, <1>3, <2>1 DEF TypeOK, Rows, Figures, Columns
      <3>2. Flow(r, l, f)' = 0
        BY <1>5, <2>1 DEF Flow
      <3> QED
        BY <3>1, <3>2
    <2>2. CASE l = k
      <3>1. asset'[l].figures = split.left
        BY <1>1, <1>3, <2>2 DEF TypeOK, AfterDisposal
      <3>2. asset[l].figures \in Figures
        BY <1>1 DEF Rows
      <3>3. /\ split.out \in Figures
            /\ split.out.quantity = q
            /\ split.left.quantity = asset[l].figures.quantity - q
            /\ split.left.weight = asset[l].figures.weight - split.out.weight
            /\ split.left.cost = asset[l].figures.cost - split.out.cost
        BY <1>3, <2>2, <3>2, SplitsAddUp
      <3>4. Flow(r, l, f)' = -split.out[f]
        <4>1. split.out[f] \in Nat
          BY <3>3 DEF Figures, Columns
        <4> QED
          BY <1>5, <2>2, <4>1 DEF Flow
      <3>5. split.left[f] = asset[l].figures[f] - split.out[f]
        BY <3>3 DEF Columns
      <3>6. split.out[f] \in Nat /\ asset[l].figures[f] \in Nat
        BY <3>2, <3>3 DEF Figures, Columns
      <3> QED
        BY <3>1, <3>4, <3>5, <3>6
    <2> QED
      BY <2>1, <2>2
  <1> QED
    BY <1>2, <1>4, <1>6, BalanceMoves

\* A transfer carries nothing out.
LEMMA TransferBalances ==
    ASSUME LedgerInv, Balanced, TypeOK', NEW r \in Requests, CommitTransfer(r),
           NEW l \in Lots, asset[l] # NoRow
    PROVE  Accounted(l)
  <1>1. TypeOK /\ asset[l] \in Rows
    BY DEF LedgerInv, TypeOK
  <1>2. PICK k \in Lots, to \in Locations :
           /\ movement[r] = NoMovement /\ edit[r] = NoEdit
           /\ asset' = [asset EXCEPT ![k] = AfterTransfer(asset[k], to)]
           /\ movement' = [movement EXCEPT ![r] =
                             TransferMovement(k, asset[k], to)]
           /\ UNCHANGED <<edit, purchaseCurrency>>
    BY TransferEffect
  <1>3. \A p \in Requests : p # r => movement'[p] = movement[p] /\ edit'[p] = edit[p]
    BY <1>1, <1>2 DEF TypeOK
  <1>4. ASSUME NEW f \in Columns
        PROVE  asset'[l].figures[f] = asset[l].figures[f] + Flow(r, l, f)'
    <2>1. asset'[l].figures = asset[l].figures
      BY <1>1, <1>2 DEF TypeOK, AfterTransfer
    <2>2. movement'[r].figures = Nothing /\ edit'[r] = NoEdit
      BY <1>1, <1>2 DEF TypeOK, TransferMovement
    <2>3. PICK n \in Int : n = movement'[r].figures[f] /\ n = 0 /\ -n = 0
      BY <2>2 DEF Nothing, Columns
    <2>4. Flow(r, l, f)' = 0
      <3>1. Flow(r, l, f)' = IF movement'[r] # NoMovement /\ movement'[r].lot = l
                             THEN IF movement'[r].kind = "GIFT_IN" THEN n + 0 ELSE (-n) + 0
                             ELSE 0
        BY <2>2, <2>3 DEF Flow
      <3> QED
        BY <2>3, <3>1
    <2>5. asset[l].figures[f] \in Nat
      BY <1>1 DEF Rows, Figures, Columns
    <2> QED
      BY <2>1, <2>4, <2>5
  <1> QED
    BY <1>2, <1>3, <1>4, BalanceMoves

\* An edit's audit row accounts for what it changed.
LEMMA EditBalances ==
    ASSUME LedgerInv, Balanced, TypeOK', NEW r \in Requests, CommitEdit(r),
           NEW l \in Lots, asset[l] # NoRow
    PROVE  Accounted(l)
  <1>1. TypeOK /\ asset[l] \in Rows
    BY DEF LedgerInv, TypeOK
  <1>2. PICK k \in Lots :
           /\ asset[k] \in Rows /\ asset'[k] \in Rows
           /\ movement[r] = NoMovement /\ edit[r] = NoEdit
           /\ asset' = [asset EXCEPT ![k] = asset'[k]]
           /\ edit' = [edit EXCEPT ![r] =
                         [lot |-> k, before |-> asset[k].figures,
                          after |-> asset'[k].figures]]
           /\ UNCHANGED <<movement, purchaseCurrency>>
    BY EditEffect
  <1>3. \A p \in Requests : p # r => movement'[p] = movement[p] /\ edit'[p] = edit[p]
    BY <1>1, <1>2 DEF TypeOK
  <1>4. /\ edit'[r].lot = k /\ edit'[r].before = asset[k].figures
        /\ edit'[r].after = asset'[k].figures
        /\ movement'[r] = NoMovement
    BY <1>1, <1>2 DEF TypeOK
  <1>5. edit'[r] # NoEdit
    <2>1. edit'[r] = [lot |-> k, before |-> asset[k].figures,
                      after |-> asset'[k].figures]
      BY <1>1, <1>2 DEF TypeOK
    <2>2. asset[k].figures \in Figures /\ asset'[k].figures \in Figures
      BY <1>2 DEF Rows
    <2> QED
      BY <2>1, <2>2, LedgerAssumption DEF Edits
  <1>6. ASSUME NEW f \in Columns
        PROVE  asset'[l].figures[f] = asset[l].figures[f] + Flow(r, l, f)'
    <2>1. asset[l].figures[f] \in Nat
      BY <1>1 DEF Rows, Figures, Columns
    <2>2. CASE l # k
      <3>1. asset'[l] = asset[l]
        BY <1>1, <1>2, <2>2 DEF TypeOK
      <3>2. Flow(r, l, f)' = 0
        BY <1>4, <2>2 DEF Flow
      <3> QED
        BY <2>1, <3>1, <3>2
    <2>3. CASE l = k
      <3>1. asset'[l].figures[f] \in Nat
        BY <1>2, <2>3 DEF Rows, Figures, Columns
      <3>2. Flow(r, l, f)' = asset'[l].figures[f] - asset[l].figures[f]
        BY <1>4, <1>5, <2>1, <2>3, <3>1 DEF Flow
      <3> QED
        BY <2>1, <3>1, <3>2
    <2> QED
      BY <2>2, <2>3
  <1> QED
    BY <1>2, <1>3, <1>6, BalanceMoves

\* A gift's receipt is all there is of its lot, and is about no other.
LEMMA GiftBalances ==
    ASSUME LedgerInv, Balanced, TypeOK', NEW r \in Requests, NEW k \in Lots,
           ReceiveGift(r, k), NEW l \in Lots
    PROVE  Accounted(l)
  <1>1. TypeOK
    BY DEF LedgerInv
  <1>2. /\ k \in GiftLots /\ asset[k] = NoRow /\ asset'[k] \in Rows
        /\ movement[r] = NoMovement /\ edit[r] = NoEdit
        /\ asset' = [asset EXCEPT ![k] = asset'[k]]
        /\ movement' = [movement EXCEPT ![r] = GiftMovement(k, asset'[k].figures)]
        /\ UNCHANGED <<edit, purchaseCurrency, locks, plan>>
    BY GiftEffect
  <1>3. \A p \in Requests : p # r => movement'[p] = movement[p] /\ edit'[p] = edit[p]
    BY <1>1, <1>2 DEF TypeOK
  <1>4. /\ movement'[r].lot = k /\ movement'[r].kind = "GIFT_IN"
        /\ movement'[r].figures = asset'[k].figures /\ edit'[r] = NoEdit
    BY <1>1, <1>2 DEF TypeOK, GiftMovement
  <1>5. movement'[r] # NoMovement
    <2>1. movement'[r] = GiftMovement(k, asset'[k].figures)
      BY <1>1, <1>2 DEF TypeOK
    <2>2. asset'[k].figures \in Figures
      BY <1>2 DEF Rows
    <2> QED
      BY <2>1, <2>2, LedgerAssumption
         DEF GiftMovement, Movements, MovementKinds
  <1>6. CASE l = k
    <2>1. ASSUME NEW f \in Columns
          PROVE  asset'[l].figures[f] = OpeningFigure(l, f) + Moved(Flows(l, f))'
      <3>1. Moved(Flows(l, f)) = 0
        BY <1>2, <1>6, NoFlows
      <3>2. Moved(Flows(l, f))' = Moved(Flows(l, f)) + Flow(r, l, f)'
        BY <1>1, <1>2, <1>3, OneFlow
      <3>3. OpeningFigure(l, f) = 0
        BY <1>2, <1>6 DEF OpeningFigure
      <3>4. asset'[l].figures[f] \in Nat
        BY <1>2, <1>6 DEF Rows, Figures, Columns
      <3>5. Flow(r, l, f)' = asset'[l].figures[f]
        BY <1>4, <1>5, <1>6, <3>4 DEF Flow
      <3> QED
        BY <3>1, <3>2, <3>3, <3>4, <3>5
    <2> QED
      BY <2>1 DEF Accounted
  <1>7. CASE l # k
    <2>1. asset'[l] = asset[l]
      BY <1>1, <1>2, <1>7 DEF TypeOK
    <2>2. CASE asset[l] = NoRow
      BY <2>1, <2>2 DEF Accounted
    <2>3. CASE asset[l] # NoRow
      <3>1. ASSUME NEW f \in Columns
            PROVE  asset'[l].figures[f] = asset[l].figures[f] + Flow(r, l, f)'
        <4>1. Flow(r, l, f)' = 0
          BY <1>4, <1>7 DEF Flow
        <4>2. asset[l].figures[f] \in Nat
          BY <1>1, <2>3 DEF TypeOK, Rows, Figures, Columns
        <4> QED
          BY <2>1, <4>1, <4>2
      <3> QED
        BY <1>2, <1>3, <2>3, <3>1, BalanceMoves
    <2> QED
      BY <2>2, <2>3
  <1> QED
    BY <1>6, <1>7

\* A correction changes the currency movements are booked in, not what they
\* carried.
LEMMA RelabelBalances ==
    ASSUME LedgerInv, Balanced, NEW r \in Requests, CommitRelabel(r),
           NEW l \in Lots
    PROVE  Accounted(l)
  <1>1. TypeOK
    BY DEF LedgerInv
  <1>2. PICK p \in Purchases, c \in Currencies :
           /\ \/ UNCHANGED <<asset, movement>>
              \/ /\ asset' = [k \in Lots |-> IF k \in LotsOf(p)
                                THEN AfterRelabel(asset[k], c) ELSE asset[k]]
                 /\ movement' = [b \in Requests |->
                      IF b \in BookedMovements(p)
                      THEN [movement[b] EXCEPT !.currency = c]
                      ELSE movement[b]]
           /\ UNCHANGED edit
    BY RelabelEffect
  <1>3. asset[l] = NoRow => asset'[l] = NoRow
    <2>1. l \in LotsOf(p) => asset[l] # NoRow
      BY RowsAssumption DEF LedgerInv, RowsAreBackedUp, LotsOf, GiftLots
    <2> QED
      BY <1>2, <2>1
  <1>4. asset[l] # NoRow => asset'[l].figures = asset[l].figures
    BY <1>2 DEF AfterRelabel
  <1>5. ASSUME NEW q \in Requests
        PROVE  \/ movement'[q] = movement[q]
               \/ /\ movement[q] # NoMovement /\ movement'[q] # NoMovement
                  /\ movement'[q].lot = movement[q].lot
                  /\ movement'[q].kind = movement[q].kind
                  /\ movement'[q].figures = movement[q].figures
    <2>1. CASE UNCHANGED movement
      BY <2>1
    <2>2. CASE movement' = [b \in Requests |->
                      IF b \in BookedMovements(p)
                      THEN [movement[b] EXCEPT !.currency = c]
                      ELSE movement[b]]
      <3>1. CASE q \notin BookedMovements(p)
        BY <2>2, <3>1
      <3>2. CASE q \in BookedMovements(p)
        <4>1. movement[q] \in Movements
          BY <1>1, <3>2 DEF BookedMovements, TypeOK
        <4>2. movement'[q] = [movement[q] EXCEPT !.currency = c]
          BY <2>2, <3>2
        <4>3. movement'[q] \in Movements
          BY <4>1, <4>2 DEF Movements
        <4>4. /\ movement'[q].lot = movement[q].lot
              /\ movement'[q].kind = movement[q].kind
              /\ movement'[q].figures = movement[q].figures
          BY <4>1, <4>2 DEF Movements
        <4> QED
          BY <4>1, <4>3, <4>4, LedgerAssumption
      <3> QED
        BY <3>1, <3>2
    <2> QED
      BY <1>2, <2>1, <2>2
  <1>6. ASSUME NEW f \in Columns
        PROVE  Moved(Flows(l, f))' = Moved(Flows(l, f))
    <2>1. ASSUME NEW q \in Requests PROVE Flow(q, l, f)' = Flow(q, l, f)
      <3>1. edit'[q] = edit[q]
        BY <1>2
      <3> QED
        BY <1>5, <3>1 DEF Flow
    <2> QED
      BY <2>1, SameFlows
  <1> QED
    BY <1>3, <1>4, <1>6 DEF Balanced, Accounted

LEMMA BalanceStep ==
    ASSUME LedgerInv, TypeOK', Balanced, [Next]_vars
    PROVE  Balanced'
  <1>1. ASSUME NEW l \in Lots PROVE Accounted(l)
    <2>1. ASSUME NEW r \in Requests,
                 CommitDisposal(r) \/ CommitTransfer(r) \/ CommitEdit(r)
          PROVE  Accounted(l)
      <3>1. CASE asset[l] # NoRow
        BY <2>1, <3>1, DisposalBalances, TransferBalances, EditBalances
      <3>2. CASE asset[l] = NoRow
        <4>1. asset'[l] = NoRow
          <5>1. TypeOK
            BY DEF LedgerInv
          <5> DEFINE Writes(k) == /\ asset[k] \in Rows
                                  /\ \E row : asset' = [asset EXCEPT ![k] = row]
          <5>a. ASSUME CommitDisposal(r) PROVE \E k \in Lots : Writes(k)
            BY <5>a, DisposalEffect
          <5>b. ASSUME CommitTransfer(r) PROVE \E k \in Lots : Writes(k)
            BY <5>b, TransferEffect
          <5>c. ASSUME CommitEdit(r) PROVE \E k \in Lots : Writes(k)
            <6>1. PICK k \in Lots :
                     /\ asset[k] \in Rows
                     /\ asset' = [asset EXCEPT ![k] = asset'[k]]
              BY <5>c, EditEffect
            <6> QED
              BY <6>1
          <5>2. PICK k \in Lots : Writes(k)
            BY <2>1, <5>a, <5>b, <5>c
          <5>3. k # l
            BY <3>2, <5>2, LedgerAssumption
          <5> QED
            BY <3>2, <5>1, <5>2, <5>3 DEF TypeOK
        <4> QED
          BY <4>1 DEF Accounted
      <3> QED
        BY <3>1, <3>2
    <2>2. CASE UNCHANGED tables
      <3>1. asset' = asset /\ movement' = movement /\ edit' = edit
        BY <2>2 DEF tables
      <3>2. ASSUME NEW f \in Columns
            PROVE  Moved(Flows(l, f))' = Moved(Flows(l, f))
        <4>1. \A q \in Requests : Flow(q, l, f)' = Flow(q, l, f)
          BY <3>1 DEF Flow
        <4> QED
          BY <4>1, SameFlows
      <3> QED
        BY <3>1, <3>2 DEF Balanced, Accounted
    <2> QED
      BY <2>1, <2>2, TablesChange, GiftBalances, RelabelBalances
  <1> QED
    BY <1>1 DEF Accounted, Balanced, OpeningFigure

LEMMA InitBalanced == Init => Balanced
  <1> SUFFICES ASSUME Init PROVE Balanced
    OBVIOUS
  <1>1. ASSUME NEW l \in Lots, asset[l] # NoRow, NEW f \in Columns
        PROVE  asset[l].figures[f] = OpeningFigure(l, f) + Moved(Flows(l, f))
    <2>1. \A r \in Requests : Flow(r, l, f) = 0
      BY DEF Init, Flow
    <2>2. PICK g : g = Flows(l, f)
      OBVIOUS
    <2>3. g \in [Requests -> Int] /\ \A r \in Requests : g[r] = 0
      BY <2>1, <2>2 DEF Flows
    <2>4. Moved(Flows(l, f)) = 0
      BY <2>2, <2>3, MovedOfNothing
    <2>5. l \notin GiftLots /\ asset[l] = Opening[l] /\ Opening[l] \in Rows
      BY <1>1, LedgerAssumption DEF Init
    <2>6. OpeningFigure(l, f) = asset[l].figures[f] /\ asset[l].figures[f] \in Nat
      BY <2>5 DEF OpeningFigure, Rows, Figures, Columns
    <2> QED
      BY <2>4, <2>6
  <1> QED
    BY <1>1 DEF Balanced

\* Nothing is disposed of twice, lost between two calls or rounded away: every
\* lot's quantity, weight and cost are what it opened with, less what its
\* movements carried out, plus what its audited edits changed, however many
\* calls race.
THEOREM NothingIsLostOrCountedTwice == Spec => []FiguresAccountedFor
  <1>1. LedgerInv /\ LedgerInv' /\ Balanced /\ [Next]_vars => Balanced'
    BY BalanceStep DEF LedgerInv
  <1>2. LedgerInv /\ Balanced => FiguresAccountedFor
    BY FoldedFlows DEF LedgerInv, Balanced, FiguresAccountedFor, Columns
  <1> QED
    BY <1>1, <1>2, InitBalanced, LedgerInvariance, PTL DEF Spec

-----------------------------------------------------------------------------
(* The schema *)

\* What the schema's foreign keys are like: sessions depend on the account only, and nothing
\* on sessions or variants; drafts are referred to by purchases and files (schema.prisma).
LEMMA SchemaKeys ==
    ASSUME NEW child, NEW parent, NEW rule, Key(child, parent, rule) \in ForeignKeys
    PROVE  /\ child \in SchemaTables /\ parent \in SchemaTables \ SessionTables
           /\ child \in SessionTables => parent = "appUser" /\ rule = "Cascade"
           /\ parent = "purchaseIntake" => child \in {"purchase", "attachment"}
           /\ parent = "attachment" => child = "attachmentVariant"
           /\ parent # "attachmentVariant"
<1>1. CASE Key(child, parent, rule) \in AccountKeys
    BY <1>1 DEF AccountKeys, Key, SchemaTables, SessionTables
<1>2. CASE Key(child, parent, rule) \in CatalogKeys
    BY <1>2 DEF CatalogKeys, Key, SchemaTables, SessionTables
<1>3. CASE Key(child, parent, rule) \in PurchaseKeys
    BY <1>3 DEF PurchaseKeys, Key, SchemaTables, SessionTables
<1>4. CASE Key(child, parent, rule) \in HoldingKeys
    BY <1>4 DEF HoldingKeys, Key, SchemaTables, SessionTables
<1>5. CASE Key(child, parent, rule) \in FileKeys
    BY <1>5 DEF FileKeys, Key, SchemaTables, SessionTables
<1>6. CASE Key(child, parent, rule) \in PriceKeys
    BY <1>6 DEF PriceKeys, Key, SchemaTables, SessionTables
<1> QED
    BY <1>1, <1>2, <1>3, <1>4, <1>5, <1>6 DEF ForeignKeys

\* The place of each table in the list.
LEMMA PlacesOfTables ==
    /\ DOMAIN TABLES = 1..21
    /\ \A p \in 1..21 :
        /\ TABLES[p] = "appUser" <=> p = 1
        /\ TABLES[p] = "userPasskey" <=> p = 2
        /\ TABLES[p] = "purchaseIntake" <=> p = 3
        /\ TABLES[p] = "metal" <=> p = 4
        /\ TABLES[p] = "organization" <=> p = 5
        /\ TABLES[p] = "organizationAlias" <=> p = 6
        /\ TABLES[p] = "organizationCapability" <=> p = 7
        /\ TABLES[p] = "productDefinition" <=> p = 8
        /\ TABLES[p] = "productOrganization" <=> p = 9
        /\ TABLES[p] = "purchase" <=> p = 10
        /\ TABLES[p] = "purchaseItem" <=> p = 11
        /\ TABLES[p] = "purchaseItemOrganizationSnapshot" <=> p = 12
        /\ TABLES[p] = "purchasePriceSnapshot" <=> p = 13
        /\ TABLES[p] = "asset" <=> p = 14
        /\ TABLES[p] = "assetMovement" <=> p = 15
        /\ TABLES[p] = "attachment" <=> p = 16
        /\ TABLES[p] = "attachmentVariant" <=> p = 17
        /\ TABLES[p] = "spotPriceSnapshot" <=> p = 18
        /\ TABLES[p] = "fxRateSnapshot" <=> p = 19
        /\ TABLES[p] = "priceProviderStatus" <=> p = 20
        /\ TABLES[p] = "systemSetting" <=> p = 21
<1>1. DOMAIN TABLES = 1..21
    BY DEF TABLES
<1>2. \A p \in 1..21 : \/ p = 1 \/ p = 2 \/ p = 3 \/ p = 4 \/ p = 5 \/ p = 6 \/ p = 7
                       \/ p = 8 \/ p = 9 \/ p = 10 \/ p = 11 \/ p = 12 \/ p = 13 \/ p = 14
                       \/ p = 15 \/ p = 16 \/ p = 17 \/ p = 18 \/ p = 19 \/ p = 20 \/ p = 21
    OBVIOUS
<1> QED
    BY <1>1, <1>2 DEF TABLES

\* Every model but the sessions' has one place, and the list has nothing else.
LEMMA OnePlace ==
    /\ \A t \in SchemaTables \ SessionTables : \E p \in DOMAIN TABLES : TABLES[p] = t
    /\ \A p \in DOMAIN TABLES : TABLES[p] \notin SessionTables
    /\ \A p, q \in DOMAIN TABLES : TABLES[p] = TABLES[q] => p = q
<1>1. \A t \in SchemaTables \ SessionTables : \E p \in 1..21 : TABLES[p] = t
    <2>1. \A p \in {1, 2, 3, 4, 5, 6, 7, 8, 9, 10, 11, 12, 13, 14, 15, 16, 17, 18, 19, 20, 21} :
             p \in 1..21
        OBVIOUS
    <2> QED
        BY <2>1, PlacesOfTables DEF SchemaTables
<1>2. \A p \in 1..21 : TABLES[p] \notin SessionTables
    BY DEF TABLES, SessionTables
<1>3. \A p, q \in 1..21 : TABLES[p] = TABLES[q] => p = q
    <2>1. \A p \in 1..21 : TABLES[p] \in SchemaTables
        BY DEF TABLES, SchemaTables
    <2> QED
        BY <2>1, <1>2, PlacesOfTables DEF SchemaTables
<1> QED
    BY <1>1, <1>2, <1>3, PlacesOfTables

\* The list is in dependency order: a row's table comes after those of the rows it refers to.
LEMMA DependencyOrder ==
    ASSUME NEW child, NEW parent, NEW rule, Key(child, parent, rule) \in ForeignKeys,
           NEW p \in DOMAIN TABLES, NEW q \in DOMAIN TABLES, TABLES[p] = parent, TABLES[q] = child
    PROVE  p < q
<1>1. p \in 1..21 /\ q \in 1..21
    BY PlacesOfTables
<1>2. CASE Key(child, parent, rule) \in AccountKeys
    BY <1>1, <1>2, PlacesOfTables, OnePlace DEF AccountKeys, Key, SessionTables
<1>3. CASE Key(child, parent, rule) \in CatalogKeys
    BY <1>1, <1>3, PlacesOfTables DEF CatalogKeys, Key
<1>4. CASE Key(child, parent, rule) \in PurchaseKeys
    BY <1>1, <1>4, PlacesOfTables DEF PurchaseKeys, Key
<1>5. CASE Key(child, parent, rule) \in HoldingKeys
    BY <1>1, <1>5, PlacesOfTables DEF HoldingKeys, Key
<1>6. CASE Key(child, parent, rule) \in FileKeys
    BY <1>1, <1>6, PlacesOfTables DEF FileKeys, Key
<1>7. CASE Key(child, parent, rule) \in PriceKeys
    BY <1>1, <1>7, PlacesOfTables DEF PriceKeys, Key
<1> QED
    BY <1>2, <1>3, <1>4, <1>5, <1>6, <1>7 DEF ForeignKeys

-----------------------------------------------------------------------------
(* Rows *)

\* What a row refers to is captured, in a table that comes before its own.
LEMMA RowsRefer ==
    ASSUME NEW r \in Row, NEW q \in Refs[r]
    PROVE  /\ q \in Captured
           /\ Table[r] \in SessionTables =>
                Table[q] = "appUser" /\ \A rule : OnDelete(r, q, rule) => rule = "Cascade"
           /\ Table[q] = "purchaseIntake" => Table[r] \in {"purchase", "attachment"}
           /\ Table[q] = "attachment" => Table[r] = "attachmentVariant"
           /\ Table[q] # "attachmentVariant"
           /\ \A m, n \in DOMAIN TABLES : TABLES[m] = Table[q] /\ TABLES[n] = Table[r] => m < n
<1>1. PICK rule : OnDelete(r, q, rule)
    BY RowsFitTheSchema
<1>2. Key(Table[r], Table[q], rule) \in ForeignKeys /\ q \in Row
    BY <1>1, RowsFitTheSchema DEF OnDelete
<1>3. /\ Table[q] \in SchemaTables \ SessionTables
      /\ Table[r] \in SessionTables => Table[q] = "appUser"
      /\ Table[q] = "purchaseIntake" => Table[r] \in {"purchase", "attachment"}
      /\ Table[q] = "attachment" => Table[r] = "attachmentVariant"
      /\ Table[q] # "attachmentVariant"
    BY <1>2, SchemaKeys, Zenon
<1>4. \A m, n \in DOMAIN TABLES : TABLES[m] = Table[q] /\ TABLES[n] = Table[r] => m < n
    BY <1>2, DependencyOrder
<1>5. ASSUME NEW other, OnDelete(r, q, other), Table[r] \in SessionTables
      PROVE  other = "Cascade"
    BY <1>5, SchemaKeys, Zenon DEF OnDelete
<1> QED
    BY <1>2, <1>3, <1>4, <1>5 DEF Captured

\* A captured row is in the table of one place.
LEMMA RowsHavePlaces ==
    ASSUME NEW r \in Captured
    PROVE  \E p \in Places : TABLES[p] = Table[r]
<1>1. r \in Row /\ Table[r] \in SchemaTables \ SessionTables
    BY RowsFitTheSchema DEF Captured
<1>2. PICK p \in DOMAIN TABLES : TABLES[p] = Table[r]
    BY <1>1, OnePlace
<1> QED
    BY <1>1, <1>2 DEF Places

\* The rows that stay and the references they hold.
LEMMA OnlyIsRows ==
    ASSUME NEW rows, NEW S, AreRows(rows)
    PROVE  /\ AreRows(Only(rows, S)) /\ DOMAIN Only(rows, S) = DOMAIN rows \cap S
           /\ \A r \in DOMAIN rows \cap S : Only(rows, S)[r] = rows[r]
BY DEF AreRows, Only

\* The rows of two sets of rows.
LEMMA BesideIsRows ==
    ASSUME NEW more, NEW rows, AreRows(more), AreRows(rows)
    PROVE  /\ AreRows(Beside(more, rows))
           /\ DOMAIN Beside(more, rows) = DOMAIN more \cup DOMAIN rows
           /\ \A r \in DOMAIN more : Beside(more, rows)[r] = more[r]
           /\ \A r \in DOMAIN rows \ DOMAIN more : Beside(more, rows)[r] = rows[r]
BY DEF AreRows, Beside

\* Rows and nothing beside them.
LEMMA NothingBeside ==
    ASSUME NEW rows, AreRows(rows)
    PROVE  Beside(NoRows, rows) = rows /\ AreRows(NoRows) /\ IsClosed(NoRows)
BY DEF AreRows, Beside, NoRows, IsClosed

\* Rows with all they refer to, as the schema lets them be.
LEMMA WrittenIsRows ==
    ASSUME NEW S \in SUBSET Row
    PROVE  /\ AreRows(Written(S)) /\ DOMAIN Written(S) = S
           /\ \A r \in S : Written(S)[r] = Refs[r]
BY DEF AreRows, Written

\* What is captured of a consistent ledger is consistent: nothing refers to a session.
LEMMA CapturedIsClosed ==
    ASSUME NEW rows, AreRows(rows), IsClosed(rows)
    PROVE  IsClosed(Only(rows, Captured))
<1> SUFFICES ASSUME NEW r \in DOMAIN rows \cap Captured, NEW q \in rows[r]
             PROVE  q \in DOMAIN rows \cap Captured
    BY OnlyIsRows, ZenonT(60) DEF IsClosed
<1>1. q \in DOMAIN rows /\ q \in Refs[r] /\ r \in Row
    BY DEF AreRows, IsClosed
<1> QED
    BY <1>1, RowsRefer

\* Passing the table of a place adds its rows to those passed.
LEMMA PassingATable ==
    ASSUME NEW rows, AreRows(rows), NEW rest \in SUBSET Places, NEW p \in rest
    PROVE  Beside(Only(rows, RowsOf(rows, TABLES[p])), Only(rows, Passed(rest)))
              = Only(rows, Passed(rest \ {p}))
<1>1. \A r \in RowsOf(rows, TABLES[p]) : r \in Captured
    <2> SUFFICES ASSUME NEW r \in DOMAIN rows, Table[r] = TABLES[p]
                 PROVE  r \in Captured
        BY DEF RowsOf
    <2>1. p \in DOMAIN TABLES /\ r \in Row
        BY DEF Places, AreRows
    <2> QED
        BY <2>1, OnePlace DEF Captured
<1>2. \A q \in rest : q \in DOMAIN TABLES
    BY DEF Places
<1>3. DOMAIN rows \cap Passed(rest \ {p}) = RowsOf(rows, TABLES[p]) \cup (DOMAIN rows \cap Passed(rest))
    BY <1>1, <1>2, OnePlace DEF Passed, RowsOf
<1> DEFINE some == Only(rows, RowsOf(rows, TABLES[p]))
           others == Only(rows, Passed(rest))
<1>4. /\ DOMAIN some = RowsOf(rows, TABLES[p]) /\ DOMAIN others = DOMAIN rows \cap Passed(rest)
      /\ \A r \in DOMAIN some : some[r] = rows[r]
      /\ \A r \in DOMAIN others : others[r] = rows[r]
    BY DEF Only, RowsOf
<1>5. Beside(some, others) = [r \in DOMAIN some \cup DOMAIN others |-> rows[r]]
    BY <1>4 DEF Beside
<1> QED
    BY <1>3, <1>4, <1>5 DEF Only

\* Before the first table nothing has been passed, after the last one everything captured.
LEMMA PassedAtEnds ==
    ASSUME NEW rows, AreRows(rows)
    PROVE  /\ Only(rows, Passed(Places)) = NoRows
           /\ Passed({}) = Captured
<1>1. \A r \in Captured : r \notin Passed(Places)
    BY RowsHavePlaces DEF Passed
<1>2. DOMAIN rows \cap Passed(Places) = {}
    BY <1>1 DEF Passed
<1> QED
    BY <1>2 DEF Only, NoRows, Passed

-----------------------------------------------------------------------------
(* The invariant *)

\* The values of the variables the other parts of the invariant do not speak of.
Kinds ==
    /\ bucket \in SUBSET ObjectKeys /\ lost \in SUBSET ObjectKeys
    /\ during \in SUBSET Row /\ since \in SUBSET Row
    /\ answer \in Outcomes /\ page \in Panels
    /\ left \in [{"writes", "exports", "restores", "faults", "reloads", "disasters"} -> Nat]

\* The run's invariant is part of the inductive one.
LEMMA PartsMakeWhole ==
    ASSUME Kinds', LedgerIsClosed', FilesAreLedgers', JobIsInOrder', CopyIsInOrder',
           RestoreIsInOrder', FilesAreStored', PageIsInOrder', RestoresWhatWasInspected'
    PROVE  BackupIInv'
<1>1. BackupTypeOK'
    BY DEF Kinds, BackupTypeOK, LedgerIsClosed, FilesAreLedgers, JobIsInOrder, AreRows
<1>2. ArchivesAreConsistent'
    BY DEF ArchivesAreConsistent, FilesAreLedgers
<1>3. RestoredFilesAreStored'
    BY DEF RestoredFilesAreStored, FilesAreStored
<1> QED
    BY <1>1, <1>2, <1>3 DEF BackupIInv, ArchivesAreWhole

\* And it says what kinds the variables are of.
LEMMA WholeIsOfKinds ==
    ASSUME BackupIInv
    PROVE  Kinds
BY DEF BackupIInv, ArchivesAreWhole, BackupTypeOK, Kinds

\* Each part holds on when nothing it speaks of changes.
LEMMA LedgerUntouched ==
    ASSUME LedgerIsClosed, UNCHANGED db
    PROVE  LedgerIsClosed'
BY DEF LedgerIsClosed, AreRows, IsClosed

LEMMA FilesUntouched ==
    ASSUME FilesAreLedgers, UNCHANGED files, lost \subseteq lost'
    PROVE  FilesAreLedgers'
BY DEF FilesAreLedgers, AreRows

LEMMA JobUntouched ==
    ASSUME JobIsInOrder, UNCHANGED <<job, files>>
    PROVE  JobIsInOrder'
BY DEF JobIsInOrder, Restoring

LEMMA CopyUntouched ==
    ASSUME CopyIsInOrder, UNCHANGED <<db, job>>, since \subseteq since', lost \subseteq lost',
           bucket \subseteq bucket' \cup lost'
    PROVE  CopyIsInOrder'
BY DEF CopyIsInOrder, JobAt, AreRows, IsClosed

LEMMA RestoreUntouched ==
    ASSUME RestoreIsInOrder, UNCHANGED <<db, job, files, during>>
    PROVE  RestoreIsInOrder'
BY DEF RestoreIsInOrder, JobAt, Restoring, AreRows, IsClosed, View, Kept, RowsOf

LEMMA StoreUntouched ==
    ASSUME FilesAreStored, UNCHANGED <<db, job>>, lost \subseteq lost',
           bucket \subseteq bucket' \cup lost'
    PROVE  FilesAreStored'
BY DEF FilesAreStored, JobAt

LEMMA PageUntouched ==
    ASSUME PageIsInOrder, RestoresWhatWasInspected, UNCHANGED page, DOMAIN files \subseteq DOMAIN files'
    PROVE  PageIsInOrder' /\ RestoresWhatWasInspected'
BY DEF PageIsInOrder, RestoresWhatWasInspected

\* When a job ends there is nothing to say of it.
LEMMA JobEnds ==
    ASSUME job' = NoJob
    PROVE  /\ JobIsInOrder' /\ CopyIsInOrder' /\ RestoreIsInOrder'
           /\ DOMAIN db' \cap ObjectKeys \subseteq bucket' \cup lost' => FilesAreStored'
<1>1. /\ DOMAIN job' = DOMAIN NoJob /\ job'.kind = "none" /\ job'.at = "none"
      /\ job'.rest = {} /\ job'.got = {} /\ job'.gone = {} /\ job'.copied = NoRows
    BY DEF NoJob
<1>2. JobIsInOrder'
    BY <1>1 DEF JobIsInOrder, Restoring, NoRows
<1>3. CopyIsInOrder'
    BY <1>1 DEF CopyIsInOrder, JobAt
<1>4. RestoreIsInOrder'
    BY <1>1 DEF RestoreIsInOrder, JobAt, Restoring
<1>5. DOMAIN db' \cap ObjectKeys \subseteq bucket' \cup lost' => FilesAreStored'
    BY <1>1 DEF FilesAreStored, JobAt
<1> QED
    BY <1>2, <1>3, <1>4, <1>5

\* The page shows how a restore ended and goes on.
LEMMA AnswerKeepsPage ==
    ASSUME Kinds, PageIsInOrder, RestoresWhatWasInspected, UNCHANGED files,
           NEW outcome, AnswerRestore(outcome)
    PROVE  /\ PageIsInOrder' /\ RestoresWhatWasInspected' /\ page' \in Panels
<1>1. page.waits # "restore" => page' = page
    BY DEF AnswerRestore
<1>2. CASE page.waits = "restore"
    <2>1. page' = [page EXCEPT !.waits = "no"] /\ page \in Panels
        BY <1>2 DEF AnswerRestore, Kinds
    <2>2. /\ page'.file = page.file /\ page'.manifest = page.manifest
          /\ page'.overtaken = page.overtaken /\ page'.waits = "no" /\ page' \in Panels
        BY <2>1 DEF Panels, Waits
    <2> QED
        BY <2>2 DEF PageIsInOrder, RestoresWhatWasInspected
<1> QED
    BY <1>1, <1>2 DEF PageIsInOrder, RestoresWhatWasInspected, Kinds

-----------------------------------------------------------------------------
(* The beginning, and the export *)

LEMMA BackupBegins == BackupInit => BackupIInv
<1> SUFFICES ASSUME BackupInit PROVE BackupIInv
    OBVIOUS
<1>1. /\ Initially \in SUBSET Row /\ \A r \in Initially : Refs[r] \subseteq Initially
      /\ db = Written(Initially) /\ bucket = Initially \cap ObjectKeys /\ lost = {}
    BY BackupAssumption DEF BackupInit
<1>2. LedgerIsClosed
    BY <1>1, WrittenIsRows DEF LedgerIsClosed, IsClosed
<1>3. FilesAreLedgers
    <2>1. files = OldFiles
        BY DEF BackupInit
    <2>2. OldFiles \in Seq({OldFiles[i] : i \in DOMAIN OldFiles})
        BY BackupAssumption
    <2>3. ASSUME NEW i \in DOMAIN OldFiles
          PROVE  LET rows == OldFiles[i].rows IN
                 /\ AreRows(rows) /\ DOMAIN rows \subseteq Captured
                 /\ OldFiles[i].objects \subseteq ObjectKeys
                 /\ DOMAIN rows \cap ObjectKeys \subseteq OldFiles[i].objects
                 /\ \A r \in DOMAIN rows : \A q \in rows[r] \ DOMAIN rows :
                       ~OldFiles[i].intakes /\ Table[q] = "purchaseIntake"
        BY BackupAssumption
    <2> QED
        BY <2>1, <2>2, <2>3 DEF FilesAreLedgers
<1>4. JobIsInOrder /\ CopyIsInOrder /\ RestoreIsInOrder
    <2>1. /\ job = NoJob /\ job.kind = "none" /\ job.at = "none" /\ job.copied = NoRows
          /\ job.rest = {} /\ job.got = {} /\ job.gone = {}
        BY DEF BackupInit, NoJob
    <2> QED
        BY <2>1 DEF JobIsInOrder, CopyIsInOrder, RestoreIsInOrder, JobAt, Restoring, NoRows
<1>5. FilesAreStored
    <2>1. job.at = "none"
        BY DEF BackupInit, NoJob
    <2> QED
        BY <1>1, <2>1, WrittenIsRows DEF FilesAreStored, JobAt
<1>6. PageIsInOrder /\ RestoresWhatWasInspected /\ page \in Panels
    <2>1. page = BlankPage
        BY DEF BackupInit
    <2> QED
        BY <2>1 DEF BlankPage, PageIsInOrder, RestoresWhatWasInspected, Panels, Waits
<1>7. BackupTypeOK
    <2>1. /\ bucket \subseteq ObjectKeys /\ lost \subseteq ObjectKeys
          /\ answer \in Outcomes /\ during \subseteq Row /\ since \subseteq Row
          /\ left \in [{"writes", "exports", "restores", "faults", "reloads", "disasters"} -> Nat]
        BY <1>1, BackupAssumption DEF BackupInit, Outcomes
    <2> QED
        BY <1>2, <1>3, <1>4, <1>6, <2>1
        DEF BackupTypeOK, LedgerIsClosed, FilesAreLedgers, JobIsInOrder, AreRows
<1>8. ArchivesAreConsistent
    BY <1>3 DEF ArchivesAreConsistent, FilesAreLedgers
<1>9. RestoredFilesAreStored
    BY <1>5 DEF RestoredFilesAreStored, FilesAreStored
<1> QED
    BY <1>2, <1>3, <1>4, <1>5, <1>6, <1>7, <1>8, <1>9 DEF BackupIInv, ArchivesAreWhole

\* What is spent is one less.
LEMMA SpendingCounts ==
    ASSUME Kinds, NEW what \in {"writes", "exports", "restores", "faults", "reloads", "disasters"},
           Spend(what)
    PROVE  left' \in [{"writes", "exports", "restores", "faults", "reloads", "disasters"} -> Nat]
<1>1. left[what] \in Nat /\ left[what] > 0
    BY DEF Kinds, Spend
<1>2. left[what] - 1 \in Nat
    BY <1>1
<1> QED
    BY <1>2 DEF Kinds, Spend

\* An export, or the safety copy of a restore, starts with the ledger of the moment.
LEMMA JobStarts ==
    ASSUME BackupIInv, job = NoJob, NEW kind \in {"export", "restore"}, NEW file,
           kind = "restore" => file \in DOMAIN files /\ RowsOf(db, "appUser") # {},
           job' = NewJob(kind, file), UNCHANGED <<db, bucket, files, lost>>
    PROVE  JobIsInOrder' /\ CopyIsInOrder' /\ RestoreIsInOrder' /\ FilesAreStored'
<1>1. /\ DOMAIN job' = DOMAIN NoJob /\ job'.kind = kind /\ job'.at = "tables" /\ job'.rest = Places
      /\ job'.snapshot = db /\ job'.copied = NoRows /\ job'.file = file
      /\ job'.got = {} /\ job'.gone = {} /\ job'.made = NoRows
    BY DEF NewJob, NoJob
<1>2. JobIsInOrder'
    BY <1>1 DEF JobIsInOrder, Restoring, NoRows
<1>3. AreRows(db) /\ IsClosed(db)
    BY DEF BackupIInv, LedgerIsClosed
<1>4. FilesAreStored'
    <2>1. DOMAIN db \cap ObjectKeys \subseteq bucket \cup lost
        BY DEF BackupIInv, ArchivesAreWhole, RestoredFilesAreStored, JobAt, NoJob
    <2> QED
        BY <1>1, <2>1 DEF FilesAreStored, JobAt
<1>5. CopyIsInOrder'
    <2>1. Only(db, Passed(Places)) = NoRows
        BY <1>3, PassedAtEnds
    <2> QED
        BY <1>1, <1>3, <1>4, <2>1 DEF CopyIsInOrder, JobAt, AreRows, IsClosed, FilesAreStored
<1>6. RestoreIsInOrder'
    BY <1>1 DEF RestoreIsInOrder, JobAt, Restoring, RowsOf
<1> QED
    BY <1>2, <1>4, <1>5, <1>6

LEMMA StartExportKeeps ==
    ASSUME BackupIInv, StartExport
    PROVE  BackupIInv'
<1>1. /\ job = NoJob /\ Spend("exports") /\ job' = NewJob("export", 0)
      /\ UNCHANGED <<db, bucket, files, answer, page, during, since, lost>>
    BY DEF StartExport
<1>2. JobIsInOrder' /\ CopyIsInOrder' /\ RestoreIsInOrder' /\ FilesAreStored'
    BY <1>1, JobStarts
<1>3. Kinds'
    BY <1>1, WholeIsOfKinds, SpendingCounts DEF Kinds
<1>4. LedgerIsClosed' /\ FilesAreLedgers' /\ PageIsInOrder' /\ RestoresWhatWasInspected'
    BY <1>1, LedgerUntouched, FilesUntouched, PageUntouched DEF BackupIInv, ArchivesAreWhole
<1> QED
    BY <1>2, <1>3, <1>4, PartsMakeWhole

\* What stays when only the job goes on.
LEMMA JobGoesOn ==
    ASSUME BackupIInv, NEW next, Go(next), UNCHANGED <<db, bucket>>, lost \subseteq lost',
           lost' \subseteq ObjectKeys, Kinds => left' \in
              [{"writes", "exports", "restores", "faults", "reloads", "disasters"} -> Nat]
    PROVE  /\ Kinds' /\ LedgerIsClosed' /\ FilesAreLedgers'
           /\ PageIsInOrder' /\ RestoresWhatWasInspected'
<1>1. UNCHANGED <<files, answer, page, during, since>>
    BY DEF Go
<1>2. Kinds'
    BY <1>1, WholeIsOfKinds DEF Kinds
<1>3. LedgerIsClosed' /\ FilesAreLedgers' /\ PageIsInOrder' /\ RestoresWhatWasInspected'
    BY <1>1, LedgerUntouched, FilesUntouched, PageUntouched DEF BackupIInv, ArchivesAreWhole
<1> QED
    BY <1>2, <1>3

LEMMA ReadTableKeeps ==
    ASSUME BackupIInv, ReadTable
    PROVE  BackupIInv'
<1> DEFINE copied(p) == Beside(Only(job.snapshot, RowsOf(job.snapshot, TABLES[p])), job.copied)
           next(p) == [job EXCEPT !.copied = copied(p), !.rest = @ \ {p},
                                  !.at = IF job.rest = {p} THEN "objects" ELSE "tables",
                                  !.todo = DOMAIN copied(p) \cap ObjectKeys]
<1>1. /\ job.at = "tables" /\ UNCHANGED <<db, bucket, lost, left>>
      /\ \E p \in Lowest(job.rest) : Go(next(p))
    BY DEF ReadTable, JobAt, ReadFrom
<1>2. PICK p \in Lowest(job.rest) : Go(next(p))
    BY <1>1
<1>3. p \in job.rest /\ job.rest \subseteq Places /\ DOMAIN job = DOMAIN NoJob
    BY DEF Lowest, BackupIInv, JobIsInOrder
<1>4. /\ AreRows(job.snapshot) /\ IsClosed(job.snapshot)
      /\ DOMAIN db \subseteq DOMAIN job.snapshot \cup since
      /\ DOMAIN job.snapshot \cap ObjectKeys \subseteq bucket \cup lost
      /\ job.copied = Only(job.snapshot, Passed(job.rest)) /\ job.got = {}
    BY <1>1 DEF BackupIInv, CopyIsInOrder, JobAt
<1>5. copied(p) = Only(job.snapshot, Passed(job.rest \ {p}))
    BY <1>3, <1>4, PassingATable
<1>6. /\ AreRows(copied(p)) /\ DOMAIN copied(p) \subseteq DOMAIN job.snapshot
      /\ DOMAIN copied(p) \subseteq Captured
    <2>1. /\ AreRows(Only(job.snapshot, Passed(job.rest \ {p})))
          /\ DOMAIN Only(job.snapshot, Passed(job.rest \ {p}))
                = DOMAIN job.snapshot \cap Passed(job.rest \ {p})
        BY <1>4, OnlyIsRows
    <2>2. Passed(job.rest \ {p}) \subseteq Captured
        BY DEF Passed
    <2> HIDE DEF copied
    <2> QED
        BY <1>5, <2>1, <2>2
<1>7. /\ DOMAIN job' = DOMAIN NoJob /\ job'.copied = copied(p) /\ job'.rest = job.rest \ {p}
      /\ job'.at = (IF job.rest = {p} THEN "objects" ELSE "tables")
      /\ job'.todo = DOMAIN copied(p) \cap ObjectKeys
      /\ job'.kind = job.kind /\ job'.snapshot = job.snapshot /\ job'.file = job.file
      /\ job'.got = job.got /\ job'.gone = job.gone /\ job'.made = job.made
      /\ files' = files /\ since' = since
    BY <1>2, <1>3 DEF Go, NoJob
<1> HIDE DEF copied, next
<1>8. JobIsInOrder'
    BY <1>1, <1>3, <1>6, <1>7 DEF BackupIInv, JobIsInOrder, Restoring
<1>9. CopyIsInOrder'
    <2>1. CASE job.rest = {p}
        <3>1. copied(p) = Only(job.snapshot, Captured)
            BY <1>4, <1>5, <2>1, PassedAtEnds
        <3>2. /\ IsClosed(copied(p))
              /\ DOMAIN copied(p) = DOMAIN job.snapshot \cap Captured
            BY <1>4, <3>1, CapturedIsClosed, OnlyIsRows
        <3>3. /\ job'.at = "objects" /\ AreRows(job'.copied) /\ IsClosed(job'.copied)
              /\ job'.todo \subseteq (bucket' \cup lost') \cap ObjectKeys
              /\ DOMAIN job'.copied \cap ObjectKeys \subseteq job'.got \cup job'.todo \cup lost'
              /\ DOMAIN db' \cap Captured \subseteq DOMAIN job'.copied \cup since'
            BY <1>1, <1>4, <1>6, <1>7, <2>1, <3>2
        <3> QED
            BY <3>3 DEF CopyIsInOrder, JobAt, AreRows, IsClosed
    <2>2. CASE job.rest # {p}
        BY <1>1, <1>4, <1>5, <1>7, <2>2 DEF CopyIsInOrder, JobAt
    <2> QED
        BY <2>1, <2>2
<1>10. RestoreIsInOrder'
    <2>1. Restoring => RowsOf(db, "appUser") # {}
        BY <1>1 DEF BackupIInv, RestoreIsInOrder, JobAt
    <2> QED
        BY <1>1, <1>7, <2>1 DEF RestoreIsInOrder, JobAt, Restoring, RowsOf
<1>11. FilesAreStored'
    BY <1>1, <1>7 DEF BackupIInv, FilesAreStored, JobAt
<1>12. /\ Kinds' /\ LedgerIsClosed' /\ FilesAreLedgers'
       /\ PageIsInOrder' /\ RestoresWhatWasInspected'
    BY <1>1, <1>2, WholeIsOfKinds, JobGoesOn DEF Kinds
<1> QED
    BY <1>8, <1>9, <1>10, <1>11, <1>12, PartsMakeWhole

LEMMA ReadObjectKeeps ==
    ASSUME BackupIInv, ReadObject
    PROVE  BackupIInv'
<1> DEFINE key == CHOOSE k \in job.todo : TRUE
           got == [job EXCEPT !.todo = @ \ {key}, !.got = @ \cup {key}]
           without == [job EXCEPT !.todo = @ \ {key}]
<1>1. /\ job.at = "objects" /\ job.todo # {} /\ UNCHANGED <<db, bucket>>
      /\ \/ Go(got) /\ UNCHANGED <<lost, left>>
         \/ key \notin bucket /\ Go(without) /\ UNCHANGED <<lost, left>>
         \/ Go(without) /\ Spend("faults") /\ lost' = lost \cup {key}
    BY DEF ReadObject, JobAt
<1>2. key \in job.todo
    BY <1>1
<1>3. /\ AreRows(job.copied) /\ IsClosed(job.copied)
      /\ job.todo \subseteq (bucket \cup lost) \cap ObjectKeys
      /\ DOMAIN job.copied \cap ObjectKeys \subseteq job.got \cup job.todo \cup lost
      /\ DOMAIN db \cap Captured \subseteq DOMAIN job.copied \cup since
    BY <1>1 DEF BackupIInv, CopyIsInOrder, JobAt
<1>4. DOMAIN job = DOMAIN NoJob
    BY DEF BackupIInv, JobIsInOrder
<1> HIDE DEF key
<1>5. /\ job' \in {got, without} /\ lost \subseteq lost' /\ lost' \subseteq lost \cup {key}
      /\ job' = got \/ key \in lost'
      /\ UNCHANGED <<db, bucket, files, since>>
    BY <1>1, <1>2, <1>3 DEF Go
<1>6. /\ DOMAIN job' = DOMAIN NoJob /\ job'.todo = job.todo \ {key} /\ job'.at = "objects"
      /\ job'.kind = job.kind /\ job'.file = job.file /\ job'.rest = job.rest
      /\ job'.copied = job.copied /\ job'.gone = job.gone /\ job'.made = job.made
      /\ job'.got \in {job.got, job.got \cup {key}}
      /\ job'.got = job.got \cup {key} \/ key \in lost'
    BY <1>1, <1>4, <1>5 DEF NoJob
<1>7. key \in ObjectKeys
    BY <1>2, <1>3
<1>8. JobIsInOrder'
    <2>1. job'.got \subseteq ObjectKeys
        BY <1>6, <1>7 DEF BackupIInv, JobIsInOrder
    <2> QED
        BY <1>1, <1>5, <1>6, <2>1 DEF BackupIInv, JobIsInOrder, Restoring
<1>9. CopyIsInOrder'
    <2>1. DOMAIN job'.copied \cap ObjectKeys \subseteq job'.got \cup job'.todo \cup lost'
        BY <1>3, <1>5, <1>6
    <2> QED
        BY <1>3, <1>5, <1>6, <2>1 DEF CopyIsInOrder, JobAt, AreRows, IsClosed
<1>10. RestoreIsInOrder'
    <2>1. Restoring => RowsOf(db, "appUser") # {}
        BY <1>1 DEF BackupIInv, RestoreIsInOrder, JobAt
    <2> QED
        BY <1>5, <1>6, <2>1 DEF RestoreIsInOrder, JobAt, Restoring, RowsOf
<1>11. FilesAreStored'
    <2>1. DOMAIN db \cap ObjectKeys \subseteq bucket \cup lost
        BY <1>1 DEF BackupIInv, FilesAreStored, JobAt
    <2> QED
        BY <1>5, <1>6, <2>1 DEF FilesAreStored, JobAt
<1>12. /\ Kinds' /\ LedgerIsClosed' /\ FilesAreLedgers'
       /\ PageIsInOrder' /\ RestoresWhatWasInspected'
    <2>1. lost' \subseteq ObjectKeys
        BY <1>5, <1>7, WholeIsOfKinds DEF Kinds
    <2>2. left' \in [{"writes", "exports", "restores", "faults", "reloads", "disasters"} -> Nat]
        BY <1>1, WholeIsOfKinds, SpendingCounts DEF Kinds
    <2>3. \E next : Go(next)
        BY <1>1
    <2> QED
        BY <1>5, <2>1, <2>2, <2>3, JobGoesOn
<1> QED
    BY <1>8, <1>9, <1>10, <1>11, <1>12, PartsMakeWhole

\* The archives there were keep their places, the new one is the last.
LEMMA Appending ==
    ASSUME NEW s, s \in Seq({s[i] : i \in DOMAIN s}), NEW e, NEW t, t = Append(s, e)
    PROVE  /\ t \in Seq({t[i] : i \in DOMAIN t})
           /\ DOMAIN t = DOMAIN s \cup {Len(s) + 1} /\ Len(s) + 1 \notin DOMAIN s
           /\ \A i \in DOMAIN s : t[i] = s[i]
           /\ t[Len(s) + 1] = e
<1> DEFINE S == {s[i] : i \in DOMAIN s} \cup {e}
<1>1. s \in Seq(S) /\ e \in S /\ Len(s) \in Nat /\ DOMAIN s = 1..Len(s)
    OBVIOUS
<1>2. /\ t \in Seq(S) /\ Len(t) = Len(s) + 1 /\ DOMAIN t = 1..(Len(s) + 1)
      /\ \A i \in 1..Len(s) : t[i] = s[i]
      /\ t[Len(s) + 1] = e
    BY <1>1
<1>3. \A x \in S : x \in {t[i] : i \in DOMAIN t}
    BY <1>1, <1>2
<1>4. t \in Seq({t[i] : i \in DOMAIN t})
    BY <1>2
<1> QED
    BY <1>1, <1>2, <1>4

LEMMA FinishExportKeeps ==
    ASSUME BackupIInv, FinishExport
    PROVE  BackupIInv'
<1>1. /\ job.at = "objects" /\ job.todo = {} /\ job.kind = "export"
      /\ files' = Append(files, Sealed) /\ job' = NoJob
      /\ UNCHANGED <<db, bucket, answer, page, during, since, lost, left>>
    BY DEF FinishExport, JobAt
<1>2. /\ files' \in Seq({files'[i] : i \in DOMAIN files'})
      /\ DOMAIN files' = DOMAIN files \cup {Len(files) + 1}
      /\ \A i \in DOMAIN files : files'[i] = files[i]
      /\ files'[Len(files) + 1] = Sealed
    BY <1>1, Appending DEF BackupIInv, FilesAreLedgers
<1>3. /\ AreRows(job.copied) /\ IsClosed(job.copied) /\ DOMAIN job.copied \subseteq Captured
      /\ DOMAIN job.copied \cap ObjectKeys \subseteq job.got \cup lost /\ job.got \subseteq ObjectKeys
    BY <1>1 DEF BackupIInv, CopyIsInOrder, JobIsInOrder, JobAt
<1>4. FilesAreLedgers'
    <2>1. ASSUME NEW i \in DOMAIN files'
          PROVE  LET rows == files'[i].rows IN
                 /\ AreRows(rows) /\ DOMAIN rows \subseteq Captured
                 /\ files'[i].objects \subseteq ObjectKeys
                 /\ DOMAIN rows \cap ObjectKeys \subseteq files'[i].objects \cup lost
                 /\ \A r \in DOMAIN rows : \A q \in rows[r] \ DOMAIN rows :
                       ~files'[i].intakes /\ Table[q] = "purchaseIntake"
        <3>1. CASE i \in DOMAIN files
            BY <1>2, <3>1 DEF BackupIInv, FilesAreLedgers
        <3>2. CASE i = Len(files) + 1
            <4>1. files'[i].rows = job.copied /\ files'[i].objects = job.got
                BY <1>2, <3>2 DEF Sealed
            <4> QED
                BY <1>3, <4>1 DEF IsClosed
        <3> QED
            BY <1>2, <2>1, <3>1, <3>2
    <2> QED
        BY <1>1, <1>2, <2>1 DEF FilesAreLedgers, AreRows
<1>5. DOMAIN db \cap ObjectKeys \subseteq bucket \cup lost
    BY <1>1 DEF BackupIInv, FilesAreStored, JobAt
<1>6. JobIsInOrder' /\ CopyIsInOrder' /\ RestoreIsInOrder' /\ FilesAreStored'
    BY <1>1, <1>5, JobEnds
<1>7. Kinds' /\ LedgerIsClosed' /\ PageIsInOrder' /\ RestoresWhatWasInspected'
    BY <1>1, <1>2, WholeIsOfKinds, LedgerUntouched, PageUntouched
    DEF Kinds, BackupIInv, ArchivesAreWhole
<1> QED
    BY <1>4, <1>6, <1>7, PartsMakeWhole

-----------------------------------------------------------------------------
(* The restore *)

LEMMA HaveSafetyCopyKeeps ==
    ASSUME BackupIInv, HaveSafetyCopy
    PROVE  BackupIInv'
<1>1. /\ job.at = "objects" /\ Restoring /\ Go([job EXCEPT !.at = "parse"])
      /\ UNCHANGED <<db, bucket, lost, left>>
    BY DEF HaveSafetyCopy, JobAt
<1>2. DOMAIN job = DOMAIN NoJob
    BY DEF BackupIInv, JobIsInOrder
<1>3. /\ DOMAIN job' = DOMAIN NoJob /\ job'.at = "parse" /\ job'.kind = job.kind
      /\ job'.file = job.file /\ job'.rest = job.rest /\ job'.copied = job.copied
      /\ job'.got = job.got /\ job'.gone = job.gone /\ job'.made = job.made
      /\ UNCHANGED <<files, since>>
    BY <1>1, <1>2 DEF Go, NoJob
<1>4. JobIsInOrder'
    BY <1>1, <1>3 DEF BackupIInv, JobIsInOrder, Restoring
<1>5. CopyIsInOrder'
    BY <1>1, <1>3 DEF BackupIInv, CopyIsInOrder, JobAt
<1>6. RestoreIsInOrder'
    <2>1. RowsOf(db, "appUser") # {}
        BY <1>1 DEF BackupIInv, RestoreIsInOrder, JobAt
    <2> QED
        BY <1>1, <1>3, <2>1 DEF RestoreIsInOrder, JobAt, Restoring, RowsOf
<1>7. FilesAreStored'
    BY <1>1, <1>3 DEF BackupIInv, FilesAreStored, JobAt
<1>8. /\ Kinds' /\ LedgerIsClosed' /\ FilesAreLedgers'
      /\ PageIsInOrder' /\ RestoresWhatWasInspected'
    <2>1. \E next : Go(next)
        BY <1>1
    <2> QED
        BY <1>1, <2>1, WholeIsOfKinds, JobGoesOn DEF Kinds
<1> QED
    BY <1>4, <1>5, <1>6, <1>7, <1>8, PartsMakeWhole

\* When a job ends without having written anything, or with everything it has written in
\* order, the invariant holds on.
LEMMA AnsweringKeeps ==
    ASSUME BackupIInv, NEW outcome \in Outcomes, AnswerRestore(outcome),
           UNCHANGED <<files, during, since>>, LedgerIsClosed', bucket' = bucket,
           lost \subseteq lost', lost' \subseteq ObjectKeys,
           DOMAIN db' \cap ObjectKeys \subseteq bucket \cup lost',
           left' \in [{"writes", "exports", "restores", "faults", "reloads", "disasters"} -> Nat]
    PROVE  BackupIInv'
<1>1. job' = NoJob /\ answer' = outcome
    BY DEF AnswerRestore
<1>2. JobIsInOrder' /\ CopyIsInOrder' /\ RestoreIsInOrder' /\ FilesAreStored'
    BY <1>1, JobEnds
<1>3. PageIsInOrder' /\ RestoresWhatWasInspected' /\ page' \in Panels
    BY WholeIsOfKinds, AnswerKeepsPage DEF BackupIInv, ArchivesAreWhole
<1>4. Kinds' /\ FilesAreLedgers'
    BY <1>1, <1>3, WholeIsOfKinds, FilesUntouched DEF Kinds, BackupIInv
<1> QED
    BY <1>2, <1>3, <1>4, PartsMakeWhole

\* Archives of older versions are made whole: a purchase loses the link to a draft that is not
\* in them, the files of such drafts stay out, and with them their variants.
LEMMA RestorableIsWhole ==
    ASSUME FilesAreLedgers, NEW i \in DOMAIN files
    PROVE  LET rows == withoutUnrestorableIntakeLinks(files[i]) IN
           /\ AreRows(rows) /\ IsClosed(rows) /\ DOMAIN rows \subseteq DOMAIN files[i].rows
<1> DEFINE old == files[i].rows
           ofDraft == {r \in RowsOf(old, "attachment") :
                         \E q \in old[r] : Table[q] = "purchaseIntake"}
           kept == {r \in DOMAIN old :
                      r \notin ofDraft /\ ~(Table[r] = "attachmentVariant" /\ old[r] \cap ofDraft # {})}
           unlinked == [r \in kept |-> IF Table[r] = "purchase"
                                       THEN {q \in old[r] : Table[q] # "purchaseIntake"} ELSE old[r]]
<1>1. /\ AreRows(old)
      /\ \A r \in DOMAIN old : \A q \in old[r] \ DOMAIN old :
            ~files[i].intakes /\ Table[q] = "purchaseIntake"
    BY DEF FilesAreLedgers
<1>2. withoutUnrestorableIntakeLinks(files[i]) = IF files[i].intakes THEN old ELSE unlinked
    BY DEF withoutUnrestorableIntakeLinks
<1>3. CASE files[i].intakes
    <2>1. IsClosed(old)
        BY <1>1, <1>3 DEF IsClosed
    <2> QED
        BY <1>1, <1>2, <1>3, <2>1
<1>4. CASE ~files[i].intakes
    <2>1. /\ AreRows(unlinked) /\ DOMAIN unlinked = kept /\ kept \subseteq DOMAIN old
        BY <1>1 DEF AreRows
    <2>2. ASSUME NEW r \in kept, NEW q \in unlinked[r]
          PROVE  q \in kept
        <3>1. /\ r \in DOMAIN old /\ r \in Row /\ q \in old[r] /\ q \in Refs[r]
              /\ Table[r] = "purchase" => Table[q] # "purchaseIntake"
            BY <1>1, <2>2 DEF AreRows
        <3>2. q \in DOMAIN old
            <4> SUFFICES ASSUME q \notin DOMAIN old PROVE FALSE
                OBVIOUS
            <4>1. Table[q] = "purchaseIntake"
                BY <1>1, <3>1
            <4>2. Table[r] = "attachment"
                BY <3>1, <4>1, RowsRefer
            <4> QED
                BY <2>2, <3>1, <4>1, <4>2 DEF RowsOf
        <3>3. q \notin ofDraft
            <4> SUFFICES ASSUME q \in ofDraft PROVE FALSE
                OBVIOUS
            <4>1. Table[q] = "attachment"
                BY DEF RowsOf
            <4>2. Table[r] = "attachmentVariant"
                BY <3>1, <4>1, RowsRefer
            <4> QED
                BY <2>2, <3>1, <4>2
        <3>4. Table[q] # "attachmentVariant"
            BY <3>1, RowsRefer
        <3> QED
            BY <3>2, <3>3, <3>4
    <2> HIDE DEF unlinked, kept
    <2>3. IsClosed(unlinked)
        BY <2>1, <2>2 DEF IsClosed
    <2> QED
        BY <1>2, <1>4, <2>1, <2>3
<1> QED
    BY <1>3, <1>4

LEMMA ParseKeeps ==
    ASSUME BackupIInv, Parse
    PROVE  BackupIInv'
<1>1. job.at = "parse" /\ UNCHANGED <<db, bucket, files, since, lost, left>>
    BY DEF Parse, JobAt
<1>2. DOMAIN db \cap ObjectKeys \subseteq bucket \cup lost
    BY <1>1 DEF BackupIInv, FilesAreStored, JobAt
<1>3. LedgerIsClosed' /\ FilesAreLedgers'
    BY <1>1, LedgerUntouched, FilesUntouched DEF BackupIInv
<1>4. Kinds
    BY WholeIsOfKinds
<1>5. CASE AnswerRestore("refused") /\ UNCHANGED during
    BY <1>1, <1>2, <1>3, <1>4, <1>5, AnsweringKeeps DEF Kinds, Outcomes
<1>6. CASE /\ job' = [job EXCEPT !.at = "deleting", !.rest = Places,
                         !.archived = withoutUnrestorableIntakeLinks(files[job.file])]
           /\ during' = {} /\ UNCHANGED <<answer, page>>
    <2> DEFINE rows == withoutUnrestorableIntakeLinks(files[job.file])
    <2>1. /\ DOMAIN job = DOMAIN NoJob /\ Restoring /\ job.file \in DOMAIN files
          /\ JobIsInOrder
        BY <1>1 DEF BackupIInv, JobIsInOrder
    <2>2. AreRows(rows) /\ IsClosed(rows) /\ DOMAIN rows \subseteq DOMAIN files[job.file].rows
        BY <2>1, RestorableIsWhole DEF BackupIInv
    <2> HIDE DEF rows
    <2>3. /\ DOMAIN job' = DOMAIN NoJob /\ job'.at = "deleting" /\ job'.kind = job.kind
          /\ job'.file = job.file /\ job'.rest = Places /\ job'.copied = job.copied
          /\ job'.got = job.got /\ job'.gone = job.gone /\ job'.made = job.made
          /\ job'.archived = rows
        BY <1>6, <2>1 DEF NoJob, rows
    <2>4. JobIsInOrder'
        BY <1>1, <2>1, <2>3 DEF JobIsInOrder, Restoring
    <2>5. CopyIsInOrder'
        BY <1>1, <2>3 DEF BackupIInv, CopyIsInOrder, JobAt
    <2>6. RestoreIsInOrder'
        <3>1. RowsOf(db, "appUser") # {} /\ job.made = NoRows /\ job.gone = {}
            BY <1>1, <2>1 DEF BackupIInv, RestoreIsInOrder, JobIsInOrder, JobAt
        <3>2. ASSUME NEW r \in DOMAIN db, Table[r] \notin SessionTables
              PROVE  \E p \in Places : TABLES[p] = Table[r]
            BY <3>2, RowsHavePlaces DEF BackupIInv, LedgerIsClosed, AreRows, Captured
        <3> QED
            BY <1>1, <1>6, <2>2, <2>3, <3>1, <3>2
            DEF RestoreIsInOrder, JobAt, Restoring, RowsOf, AreRows, IsClosed
    <2>7. FilesAreStored'
        BY <1>1, <1>2, <2>3 DEF FilesAreStored, JobAt
    <2>8. Kinds' /\ PageIsInOrder' /\ RestoresWhatWasInspected'
        BY <1>1, <1>4, <1>6, PageUntouched DEF Kinds, BackupIInv, ArchivesAreWhole
    <2> QED
        BY <1>3, <2>4, <2>5, <2>6, <2>7, <2>8, PartsMakeWhole
<1> QED
    BY <1>5, <1>6 DEF Parse

\* What the restore's transaction sees is a consistent ledger.
LEMMA ViewIsALedger ==
    ASSUME BackupIInv, job.at \in {"deleting", "creating"}
    PROVE  /\ AreRows(View) /\ IsClosed(View)
           /\ DOMAIN View = DOMAIN job.made \cup (DOMAIN db \ job.gone)
           /\ AreRows(job.made)
           /\ \A r \in DOMAIN job.made : View[r] = job.made[r]
           /\ job.at = "deleting" => DOMAIN View = DOMAIN db \ job.gone
<1>1. AreRows(db) /\ IsClosed(db)
    BY DEF BackupIInv, LedgerIsClosed
<1>2. /\ AreRows(Kept) /\ IsClosed(Kept) /\ DOMAIN Kept = DOMAIN db \ job.gone
    BY <1>1 DEF Kept, AreRows, IsClosed
<1>3. AreRows(job.made) /\ \A r \in DOMAIN job.made : job.made[r] \subseteq DOMAIN View
    <2>1. CASE job.at = "deleting"
        <3>1. job.made = NoRows
            BY <2>1 DEF BackupIInv, RestoreIsInOrder, JobAt
        <3> QED
            BY <3>1 DEF AreRows, NoRows
    <2>2. CASE job.at = "creating"
        <3>1. /\ job.made = Only(job.archived, Passed(job.rest)) /\ AreRows(job.archived)
              /\ \A r \in DOMAIN job.made : job.made[r] \subseteq DOMAIN View
            BY <2>2 DEF BackupIInv, RestoreIsInOrder, JobAt
        <3>2. AreRows(Only(job.archived, Passed(job.rest)))
            BY <3>1, OnlyIsRows
        <3> QED
            BY <3>1, <3>2
    <2> QED
        BY <2>1, <2>2
<1>4. /\ AreRows(View) /\ DOMAIN View = DOMAIN job.made \cup DOMAIN Kept
      /\ \A r \in DOMAIN job.made : View[r] = job.made[r]
      /\ \A r \in DOMAIN Kept \ DOMAIN job.made : View[r] = Kept[r]
    BY <1>2, <1>3, BesideIsRows, ZenonT(60) DEF View
<1>5. IsClosed(View)
    BY <1>2, <1>3, <1>4 DEF IsClosed
<1>6. job.at = "deleting" => DOMAIN job.made = {}
    BY DEF BackupIInv, RestoreIsInOrder, JobAt, NoRows
<1> QED
    BY <1>2, <1>3, <1>4, <1>5, <1>6

\* A statement that fails rolls everything back.
LEMMA BreakingKeeps ==
    ASSUME BackupIInv, job.at \in {"deleting", "creating"}, Broken
    PROVE  BackupIInv'
<1>1. /\ AnswerRestore("constraint") /\ UNCHANGED <<db, bucket, files, during, since, lost, left>>
    BY DEF Broken
<1>2. DOMAIN db \cap ObjectKeys \subseteq bucket \cup lost
    BY DEF BackupIInv, FilesAreStored, JobAt
<1>3. LedgerIsClosed'
    BY <1>1, LedgerUntouched DEF BackupIInv
<1> QED
    BY <1>1, <1>2, <1>3, WholeIsOfKinds, AnsweringKeeps DEF Kinds, Outcomes

LEMMA DeleteTableKeeps ==
    ASSUME BackupIInv, DeleteTable
    PROVE  BackupIInv'
<1> DEFINE S(p) == Deleted(View, RowsToDelete(TABLES[p]))
<1>1. job.at = "deleting"
    BY DEF DeleteTable, JobAt
<1>2. PICK p \in Highest(job.rest) :
         \/ Broken
         \/ /\ Go([job EXCEPT !.gone = @ \cup S(p), !.rest = @ \ {p}])
            /\ UNCHANGED <<db, bucket, lost, left>>
    BY DEF DeleteTable
<1>3. CASE Broken
    BY <1>1, <1>3, BreakingKeeps
<1>4. CASE /\ Go([job EXCEPT !.gone = @ \cup S(p), !.rest = @ \ {p}])
           /\ UNCHANGED <<db, bucket, lost, left>>
    <2>1. /\ DOMAIN job = DOMAIN NoJob /\ JobIsInOrder /\ Restoring /\ p \in job.rest
        BY <1>1 DEF BackupIInv, JobIsInOrder, Highest
    <2>2. /\ S(p) \subseteq DOMAIN View /\ RowsOf(View, TABLES[p]) \subseteq S(p)
        BY DEF Deleted, Orphans, RowsToDelete, RowsOf
    <2>3. DOMAIN View = DOMAIN db \ job.gone /\ DOMAIN View \subseteq Row
        BY <1>1, ViewIsALedger DEF AreRows
    <2> HIDE DEF S
    <2>4. /\ DOMAIN job' = DOMAIN NoJob /\ job'.at = "deleting" /\ job'.kind = job.kind
          /\ job'.file = job.file /\ job'.rest = job.rest \ {p} /\ job'.copied = job.copied
          /\ job'.got = job.got /\ job'.gone = job.gone \cup S(p) /\ job'.made = job.made
          /\ job'.archived = job.archived /\ UNCHANGED <<files, during, since>>
        BY <1>1, <1>4, <2>1 DEF Go, NoJob
    <2>5. JobIsInOrder'
        <3>1. job'.gone \subseteq Row /\ job'.rest \subseteq Places
            BY <2>1, <2>2, <2>3, <2>4 DEF JobIsInOrder
        <3> QED
            BY <1>1, <2>1, <2>4, <3>1 DEF JobIsInOrder, Restoring
    <2>6. CopyIsInOrder'
        BY <1>1, <1>4, <2>4 DEF BackupIInv, CopyIsInOrder, JobAt
    <2>7. RestoreIsInOrder'
        <3>1. /\ RowsOf(db, "appUser") # {} /\ job.made = NoRows
              /\ AreRows(job.archived) /\ IsClosed(job.archived)
              /\ DOMAIN job.archived \subseteq DOMAIN files[job.file].rows
              /\ \A r \in during : Table[r] # "appUser"
              /\ \A r \in DOMAIN db \ job.gone :
                    r \in during \/ Table[r] \in SessionTables \/ \E q \in job.rest : TABLES[q] = Table[r]
            BY <1>1, <2>1 DEF BackupIInv, RestoreIsInOrder, JobAt
        <3>2. ASSUME NEW r \in DOMAIN db \ job'.gone
              PROVE  \/ r \in during \/ Table[r] \in SessionTables
                     \/ \E q \in job'.rest : TABLES[q] = Table[r]
            <4>1. r \in DOMAIN View /\ r \notin S(p) /\ r \in DOMAIN db \ job.gone
                BY <2>3, <2>4
            <4>2. Table[r] # TABLES[p]
                BY <2>2, <4>1 DEF RowsOf
            <4> QED
                BY <2>4, <3>1, <4>1, <4>2
        <3> QED
            BY <1>4, <2>4, <3>1, <3>2
            DEF RestoreIsInOrder, JobAt, Restoring, RowsOf, AreRows, IsClosed
    <2>8. FilesAreStored'
        BY <1>1, <1>4, <2>4 DEF BackupIInv, FilesAreStored, JobAt
    <2>9. /\ Kinds' /\ LedgerIsClosed' /\ FilesAreLedgers'
          /\ PageIsInOrder' /\ RestoresWhatWasInspected'
        <3>1. \E next : Go(next)
            BY <1>4
        <3> QED
            BY <1>4, <3>1, WholeIsOfKinds, JobGoesOn DEF Kinds
    <2> QED
        BY <2>5, <2>6, <2>7, <2>8, <2>9, PartsMakeWhole
<1> QED
    BY <1>2, <1>3, <1>4

LEMMA DeleteSessionsKeeps ==
    ASSUME BackupIInv, DeleteSessions
    PROVE  BackupIInv'
<1> DEFINE S == {r \in DOMAIN View : Table[r] \in SessionTables}
<1>1. /\ job.at = "deleting" /\ job.rest = {} /\ UNCHANGED <<db, bucket, lost, left>>
      /\ Go([job EXCEPT !.gone = @ \cup S, !.at = "creating", !.rest = Places])
    BY DEF DeleteSessions, JobAt
<1>2. DOMAIN job = DOMAIN NoJob /\ JobIsInOrder /\ Restoring
    BY <1>1 DEF BackupIInv, JobIsInOrder
<1>3. DOMAIN View = DOMAIN db \ job.gone /\ DOMAIN View \subseteq Row
    BY <1>1, ViewIsALedger DEF AreRows
<1>4. S \subseteq Row /\ \A r \in DOMAIN db \ (job.gone \cup S) : Table[r] \notin SessionTables
    BY <1>3
<1> HIDE DEF S
<1>5. /\ DOMAIN job' = DOMAIN NoJob /\ job'.at = "creating" /\ job'.kind = job.kind
      /\ job'.file = job.file /\ job'.rest = Places /\ job'.copied = job.copied
      /\ job'.got = job.got /\ job'.gone = job.gone \cup S /\ job'.made = job.made
      /\ job'.archived = job.archived /\ UNCHANGED <<files, during, since>>
    BY <1>1, <1>2 DEF Go, NoJob
<1>6. JobIsInOrder'
    <2>1. job'.gone \subseteq Row
        BY <1>2, <1>4, <1>5 DEF JobIsInOrder
    <2> QED
        BY <1>1, <1>2, <1>5, <2>1 DEF JobIsInOrder, Restoring
<1>7. CopyIsInOrder'
    BY <1>1, <1>5 DEF BackupIInv, CopyIsInOrder, JobAt
<1>8. RestoreIsInOrder'
    <2>1. /\ RowsOf(db, "appUser") # {} /\ job.made = NoRows
          /\ AreRows(job.archived) /\ IsClosed(job.archived)
          /\ DOMAIN job.archived \subseteq DOMAIN files[job.file].rows
          /\ \A r \in during : Table[r] # "appUser"
          /\ \A r \in DOMAIN db \ job.gone : r \in during \/ Table[r] \in SessionTables
        BY <1>1, <1>2 DEF BackupIInv, RestoreIsInOrder, JobAt
    <2>2. job'.made = Only(job'.archived, Passed(job'.rest)) /\ DOMAIN job'.made = {}
        BY <1>5, <2>1, PassedAtEnds DEF NoRows
    <2>3. \A r \in DOMAIN db \ job'.gone : r \in during /\ OfNoSession(r)
        BY <1>4, <1>5, <2>1 DEF OfNoSession
    <2> QED
        BY <1>1, <1>5, <2>1, <2>2, <2>3
        DEF RestoreIsInOrder, JobAt, Restoring, RowsOf, AreRows, IsClosed
<1>9. FilesAreStored'
    BY <1>1, <1>5 DEF BackupIInv, FilesAreStored, JobAt
<1>10. /\ Kinds' /\ LedgerIsClosed' /\ FilesAreLedgers'
       /\ PageIsInOrder' /\ RestoresWhatWasInspected'
    <2>1. \E next : Go(next)
        BY <1>1
    <2> QED
        BY <1>1, <2>1, WholeIsOfKinds, JobGoesOn DEF Kinds
<1> QED
    BY <1>6, <1>7, <1>8, <1>9, <1>10, PartsMakeWhole

LEMMA CreateTableKeeps ==
    ASSUME BackupIInv, CreateTable
    PROVE  BackupIInv'
<1> DEFINE rows(p) == Only(job.archived, RowsOf(job.archived, TABLES[p]))
<1>1. job.at = "creating"
    BY DEF CreateTable, JobAt
<1>2. PICK p \in Lowest(job.rest) :
         \/ Broken
         \/ /\ Insertable(rows(p))
            /\ Go([job EXCEPT !.made = Beside(rows(p), @), !.rest = @ \ {p}])
            /\ UNCHANGED <<db, bucket, lost, left>>
    BY DEF CreateTable
<1>3. CASE Broken
    BY <1>1, <1>3, BreakingKeeps
<1>4. CASE /\ Insertable(rows(p))
           /\ Go([job EXCEPT !.made = Beside(rows(p), @), !.rest = @ \ {p}])
           /\ UNCHANGED <<db, bucket, lost, left>>
    <2>1. /\ DOMAIN job = DOMAIN NoJob /\ JobIsInOrder /\ Restoring /\ p \in job.rest
          /\ job.rest \subseteq Places
        BY <1>1 DEF BackupIInv, JobIsInOrder, Lowest
    <2>2. /\ RowsOf(db, "appUser") # {}
          /\ AreRows(job.archived) /\ IsClosed(job.archived)
          /\ DOMAIN job.archived \subseteq DOMAIN files[job.file].rows
          /\ \A r \in during : Table[r] # "appUser"
          /\ job.made = Only(job.archived, Passed(job.rest))
          /\ \A r \in DOMAIN job.made : job.made[r] \subseteq DOMAIN View
          /\ \A r \in DOMAIN db \ job.gone : r \in during /\ OfNoSession(r)
        BY <1>1, <2>1 DEF BackupIInv, RestoreIsInOrder, JobAt
    <2>3. AreRows(rows(p)) /\ \A r \in DOMAIN rows(p) : rows(p)[r] \subseteq DOMAIN View
        BY <1>4, <2>2, OnlyIsRows DEF Insertable
    <2>4. Beside(rows(p), job.made) = Only(job.archived, Passed(job.rest \ {p}))
        BY <2>1, <2>2, PassingATable
    <2> HIDE DEF rows
    <2> DEFINE made == Beside(rows(p), job.made)
    <2>5. AreRows(job.made) /\ DOMAIN View = DOMAIN job.made \cup (DOMAIN db \ job.gone)
        BY <1>1, ViewIsALedger
    <2>6. /\ AreRows(made) /\ DOMAIN made = DOMAIN rows(p) \cup DOMAIN job.made
          /\ \A r \in DOMAIN rows(p) : made[r] = rows(p)[r]
          /\ \A r \in DOMAIN job.made \ DOMAIN rows(p) : made[r] = job.made[r]
        <3> DEFINE more == rows(p)
                   made0 == job.made
        <3>1. AreRows(more) /\ AreRows(made0)
            BY <2>3, <2>5
        <3> HIDE DEF more, made0
        <3>2. /\ AreRows(Beside(more, made0))
              /\ DOMAIN Beside(more, made0) = DOMAIN more \cup DOMAIN made0
              /\ \A r \in DOMAIN more : Beside(more, made0)[r] = more[r]
              /\ \A r \in DOMAIN made0 \ DOMAIN more : Beside(more, made0)[r] = made0[r]
            BY <3>1, BesideIsRows
        <3> QED
            BY <3>2 DEF more, made0
    <2>7. \A r \in DOMAIN made : made[r] \subseteq DOMAIN View
        BY <2>2, <2>3, <2>6
    <2> HIDE DEF made
    <2>8. /\ DOMAIN job' = DOMAIN NoJob /\ job'.at = "creating" /\ job'.kind = job.kind
          /\ job'.file = job.file /\ job'.rest = job.rest \ {p} /\ job'.copied = job.copied
          /\ job'.got = job.got /\ job'.gone = job.gone /\ job'.made = made
          /\ job'.archived = job.archived /\ UNCHANGED <<files, during, since>>
        BY <1>1, <1>4, <2>1 DEF Go, NoJob, made
    <2>9. JobIsInOrder'
        BY <1>1, <2>1, <2>8 DEF JobIsInOrder, Restoring
    <2>10. CopyIsInOrder'
        BY <1>1, <1>4, <2>8 DEF BackupIInv, CopyIsInOrder, JobAt
    <2>11. RestoreIsInOrder'
        <3>1. DOMAIN View \subseteq DOMAIN View'
            <4>1. DOMAIN View' = DOMAIN made \cup (DOMAIN db \ job.gone)
                BY <1>4, <2>8 DEF View, Kept, Beside
            <4> QED
                BY <2>5, <2>6, <4>1
        <3>2. \A r \in DOMAIN job'.made : job'.made[r] \subseteq DOMAIN View'
            BY <2>7, <2>8, <3>1
        <3>3. job'.made = Only(job'.archived, Passed(job'.rest))
            BY <2>4, <2>8 DEF made
        <3> QED
            BY <1>1, <1>4, <2>2, <2>8, <3>2, <3>3
            DEF RestoreIsInOrder, JobAt, Restoring, RowsOf, AreRows, IsClosed
    <2>12. FilesAreStored'
        BY <1>1, <1>4, <2>8 DEF BackupIInv, FilesAreStored, JobAt
    <2>13. /\ Kinds' /\ LedgerIsClosed' /\ FilesAreLedgers'
           /\ PageIsInOrder' /\ RestoresWhatWasInspected'
        <3>1. \E next : Go(next)
            BY <1>4
        <3> QED
            BY <1>4, <3>1, WholeIsOfKinds, JobGoesOn DEF Kinds
    <2> QED
        BY <2>9, <2>10, <2>11, <2>12, <2>13, PartsMakeWhole
<1> QED
    BY <1>2, <1>3, <1>4

\* Everything there is at the commit: the archive's rows, as they were archived, and those
\* others wrote meanwhile, no session among them.
LEMMA CommittedLedger ==
    ASSUME BackupIInv, Commit
    PROVE  /\ job.made = job.archived /\ Restoring /\ job.at = "creating"
           /\ DOMAIN job.archived \subseteq Captured
           /\ DOMAIN db' = DOMAIN job.archived \cup (DOMAIN db \ job.gone)
           /\ \A r \in DOMAIN job.archived : db'[r] = job.archived[r]
           /\ \A r \in DOMAIN db \ job.gone : r \in during /\ OfNoSession(r)
           /\ AreRows(db') /\ IsClosed(db')
<1>1. job.at = "creating" /\ job.rest = {} /\ db' = View
    BY DEF Commit, JobAt
<1>2. Restoring /\ job.file \in DOMAIN files
    BY <1>1 DEF BackupIInv, JobIsInOrder
<1>3. /\ AreRows(job.archived) /\ DOMAIN job.archived \subseteq DOMAIN files[job.file].rows
      /\ job.made = Only(job.archived, Passed(job.rest))
      /\ \A r \in DOMAIN db \ job.gone : r \in during /\ OfNoSession(r)
    BY <1>1 DEF BackupIInv, RestoreIsInOrder, JobAt
<1>4. DOMAIN job.archived \subseteq Captured
    BY <1>2, <1>3 DEF BackupIInv, FilesAreLedgers
<1>5. job.made = Only(job.archived, Captured)
    BY <1>1, <1>3, PassedAtEnds
<1>6. job.made = job.archived
    BY <1>3, <1>4, <1>5 DEF Only, AreRows
<1>7. /\ AreRows(View) /\ IsClosed(View)
      /\ DOMAIN View = DOMAIN job.made \cup (DOMAIN db \ job.gone)
      /\ \A r \in DOMAIN job.made : View[r] = job.made[r]
    BY <1>1, ViewIsALedger
<1>8. AreRows(db') /\ IsClosed(db')
    BY <1>1, <1>7 DEF AreRows, IsClosed
<1> QED
    BY <1>1, <1>2, <1>3, <1>4, <1>6, <1>7, <1>8

LEMMA CommitKeeps ==
    ASSUME BackupIInv, Commit
    PROVE  BackupIInv'
<1>1. /\ job.at = "creating" /\ job.rest = {} /\ UNCHANGED <<bucket, lost, left>>
      /\ Go([job EXCEPT !.at = "putting", !.todo = files[job.file].objects])
    BY DEF Commit, JobAt
<1>2. DOMAIN job = DOMAIN NoJob /\ JobIsInOrder /\ Restoring /\ job.file \in DOMAIN files
    BY <1>1 DEF BackupIInv, JobIsInOrder
<1>3. /\ DOMAIN job' = DOMAIN NoJob /\ job'.at = "putting" /\ job'.kind = job.kind
      /\ job'.file = job.file /\ job'.rest = job.rest /\ job'.copied = job.copied
      /\ job'.got = job.got /\ job'.gone = job.gone /\ job'.made = job.made
      /\ job'.todo = files[job.file].objects
      /\ UNCHANGED <<files, answer, page, during, since>>
    BY <1>1, <1>2 DEF Go, NoJob
<1>4. JobIsInOrder'
    BY <1>1, <1>2, <1>3 DEF JobIsInOrder, Restoring
<1>5. CopyIsInOrder'
    BY <1>3 DEF CopyIsInOrder, JobAt
<1>6. RestoreIsInOrder'
    BY <1>3 DEF RestoreIsInOrder, JobAt, Restoring
<1>7. LedgerIsClosed'
    BY CommittedLedger DEF LedgerIsClosed, AreRows, IsClosed
<1>8. FilesAreStored'
    <2>1. DOMAIN db' = DOMAIN job.archived \cup (DOMAIN db \ job.gone)
        BY CommittedLedger
    <2>2. DOMAIN db \cap ObjectKeys \subseteq bucket \cup lost
        BY <1>1 DEF BackupIInv, FilesAreStored, JobAt
    <2>3. DOMAIN job.archived \subseteq DOMAIN files[job.file].rows
        BY <1>1 DEF BackupIInv, RestoreIsInOrder, JobAt
    <2>4. /\ DOMAIN files[job.file].rows \cap ObjectKeys \subseteq files[job.file].objects \cup lost
          /\ files[job.file].objects \subseteq ObjectKeys
        BY <1>2 DEF BackupIInv, FilesAreLedgers
    <2>5. DOMAIN db' \cap ObjectKeys \subseteq bucket' \cup lost' \cup job'.todo
        BY <1>1, <1>3, <2>1, <2>2, <2>3, <2>4
    <2> QED
        BY <1>3, <2>4, <2>5 DEF FilesAreStored, JobAt
<1>9. FilesAreLedgers' /\ Kinds' /\ PageIsInOrder' /\ RestoresWhatWasInspected'
    BY <1>1, <1>3, WholeIsOfKinds, FilesUntouched, PageUntouched
    DEF Kinds, BackupIInv, ArchivesAreWhole
<1> QED
    BY <1>4, <1>5, <1>6, <1>7, <1>8, <1>9, PartsMakeWhole

LEMMA PutObjectKeeps ==
    ASSUME BackupIInv, PutObject
    PROVE  BackupIInv'
<1> DEFINE key == CHOOSE k \in job.todo : TRUE
<1>1. /\ job.at = "putting" /\ job.todo # {} /\ UNCHANGED <<db, left>>
      /\ bucket' = bucket \cup {key}
      /\ lost' = IF Lacking(key) THEN lost ELSE lost \ {key}
      /\ Go([job EXCEPT !.todo = @ \ {key}])
    BY DEF PutObject, JobAt, Put
<1>2. key \in job.todo
    BY <1>1
<1> HIDE DEF key
<1>3. DOMAIN job = DOMAIN NoJob /\ JobIsInOrder /\ Restoring
    BY <1>1 DEF BackupIInv, JobIsInOrder
<1>4. /\ DOMAIN job' = DOMAIN NoJob /\ job'.at = "putting" /\ job'.kind = job.kind
      /\ job'.file = job.file /\ job'.rest = job.rest /\ job'.copied = job.copied
      /\ job'.got = job.got /\ job'.gone = job.gone /\ job'.todo = job.todo \ {key}
      /\ UNCHANGED <<files, answer, page, during, since>>
    BY <1>1, <1>3 DEF Go, NoJob
<1>5. JobIsInOrder'
    BY <1>3, <1>4 DEF JobIsInOrder, Restoring
<1>6. CopyIsInOrder' /\ RestoreIsInOrder'
    BY <1>4 DEF CopyIsInOrder, RestoreIsInOrder, JobAt, Restoring
<1>7. /\ job.todo \subseteq ObjectKeys
      /\ DOMAIN db \cap ObjectKeys \subseteq bucket \cup lost \cup job.todo
    BY <1>1 DEF BackupIInv, FilesAreStored, JobAt
<1>8. FilesAreStored'
    BY <1>1, <1>4, <1>7 DEF FilesAreStored, JobAt
<1>9. FilesAreLedgers'
    <2>1. ASSUME NEW i \in DOMAIN files
          PROVE  DOMAIN files[i].rows \cap ObjectKeys \subseteq files[i].objects \cup lost'
        <3>1. DOMAIN files[i].rows \cap ObjectKeys \subseteq files[i].objects \cup lost
            BY DEF BackupIInv, FilesAreLedgers
        <3>2. CASE Lacking(key)
            BY <1>1, <3>1, <3>2
        <3>3. CASE ~Lacking(key)
            <4>1. key \notin DOMAIN files[i].rows \ files[i].objects
                BY <3>3 DEF Lacking
            <4> QED
                BY <1>1, <3>1, <3>3, <4>1
        <3> QED
            BY <3>2, <3>3
    <2> QED
        BY <1>4, <2>1 DEF BackupIInv, FilesAreLedgers, AreRows
<1>10. Kinds'
    <2>1. bucket' \in SUBSET ObjectKeys /\ lost' \in SUBSET ObjectKeys
        BY <1>1, <1>2, <1>7, WholeIsOfKinds DEF Kinds
    <2> QED
        BY <1>1, <1>4, <2>1, WholeIsOfKinds DEF Kinds
<1>11. LedgerIsClosed' /\ PageIsInOrder' /\ RestoresWhatWasInspected'
    BY <1>1, <1>4, LedgerUntouched, PageUntouched DEF BackupIInv, ArchivesAreWhole
<1> QED
    BY <1>5, <1>6, <1>8, <1>9, <1>10, <1>11, PartsMakeWhole

\* The account's sessions go without a trace: nothing refers to them.
LEMMA FinishRestoreKeeps ==
    ASSUME BackupIInv, FinishRestore
    PROVE  BackupIInv'
<1> DEFINE open == {r \in DOMAIN db : Table[r] \in {"userSession"}}
<1>1. /\ job.at = "putting" /\ job.todo = {} /\ AnswerRestore("done")
      /\ db' = Only(db, DOMAIN db \ open)
      /\ UNCHANGED <<bucket, files, during, since, lost, left>>
    BY DEF FinishRestore, JobAt
<1>2. AreRows(db) /\ IsClosed(db)
    BY DEF BackupIInv, LedgerIsClosed
<1>3. /\ AreRows(Only(db, DOMAIN db \ open)) /\ DOMAIN Only(db, DOMAIN db \ open) = DOMAIN db \ open
      /\ \A r \in DOMAIN db \ open : Only(db, DOMAIN db \ open)[r] = db[r]
    BY <1>2 DEF AreRows, Only
<1>4. ASSUME NEW r \in DOMAIN db \ open, NEW q \in db[r]
      PROVE  q \in DOMAIN db \ open
    <2>1. r \in Row /\ q \in Refs[r] /\ q \in DOMAIN db
        BY <1>2 DEF AreRows, IsClosed
    <2>2. Table[q] \notin SessionTables
        BY <2>1, RowsRefer DEF Captured
    <2> QED
        BY <2>1, <2>2 DEF SessionTables
<1> HIDE DEF open
<1>5. LedgerIsClosed'
    BY <1>1, <1>3, <1>4 DEF LedgerIsClosed, AreRows, IsClosed
<1>6. DOMAIN db' \cap ObjectKeys \subseteq bucket \cup lost
    BY <1>1, <1>3 DEF BackupIInv, FilesAreStored, JobAt
<1> QED
    BY <1>1, <1>5, <1>6, WholeIsOfKinds, AnsweringKeeps DEF Kinds, Outcomes

\* A failure rolls the transaction back; after the commit it leaves objects out.
LEMMA FailKeeps ==
    ASSUME BackupIInv, Fail
    PROVE  BackupIInv'
<1> DEFINE outcome == IF job.at = "putting" THEN "partial"
                      ELSE IF Restoring THEN "failed" ELSE answer
<1>1. /\ Spend("faults") /\ AnswerRestore(outcome)
      /\ lost' = IF job.at = "putting" THEN lost \cup job.todo ELSE lost
      /\ UNCHANGED <<db, bucket, files, during, since>>
    BY DEF Fail, JobAt
<1>2. outcome \in Outcomes
    BY WholeIsOfKinds DEF Kinds, Outcomes
<1> HIDE DEF outcome
<1>3. /\ lost \subseteq lost' /\ lost' \subseteq ObjectKeys
      /\ DOMAIN db \cap ObjectKeys \subseteq bucket \cup lost'
    BY <1>1, WholeIsOfKinds DEF Kinds, BackupIInv, FilesAreStored, JobAt
<1>4. left' \in [{"writes", "exports", "restores", "faults", "reloads", "disasters"} -> Nat]
    BY <1>1, WholeIsOfKinds, SpendingCounts
<1>5. LedgerIsClosed'
    BY <1>1, LedgerUntouched DEF BackupIInv
<1> QED
    BY <1>1, <1>2, <1>3, <1>4, <1>5, AnsweringKeeps

-----------------------------------------------------------------------------
(* The others *)

LEMMA WriteKeeps ==
    ASSUME BackupIInv, NEW r \in Row, Write(r)
    PROVE  BackupIInv'
<1>1. /\ Spend("writes") /\ r \notin DOMAIN db /\ Refs[r] \subseteq DOMAIN db
      /\ Refs[r] \cap job.gone = {} /\ r \notin job.gone \cup DOMAIN job.made
      /\ Table[r] = "appUser" => RowsOf(db, "appUser") = {}
      /\ db' = Beside(Written({r}), db)
      /\ bucket' = bucket \cup ({r} \cap ObjectKeys)
      /\ during' = during \cup {r} /\ since' = since \cup {r}
      /\ UNCHANGED <<files, job, answer, page, lost>>
    BY DEF Write
<1>2. AreRows(db) /\ IsClosed(db)
    BY DEF BackupIInv, LedgerIsClosed
<1>3. /\ AreRows(Written({r})) /\ DOMAIN Written({r}) = {r} /\ Written({r})[r] = Refs[r]
    BY WrittenIsRows
<1>4. /\ AreRows(db') /\ DOMAIN db' = DOMAIN db \cup {r} /\ db'[r] = Refs[r]
      /\ \A q \in DOMAIN db : db'[q] = db[q]
    <2>1. /\ AreRows(Beside(Written({r}), db))
          /\ DOMAIN Beside(Written({r}), db) = {r} \cup DOMAIN db
          /\ Beside(Written({r}), db)[r] = Refs[r]
          /\ \A q \in DOMAIN db \ {r} : Beside(Written({r}), db)[q] = db[q]
        <3> DEFINE more == Written({r})
        <3>1. AreRows(more) /\ DOMAIN more = {r} /\ more[r] = Refs[r]
            BY <1>3
        <3> HIDE DEF more
        <3>2. /\ AreRows(Beside(more, db)) /\ DOMAIN Beside(more, db) = DOMAIN more \cup DOMAIN db
              /\ \A q \in DOMAIN more : Beside(more, db)[q] = more[q]
              /\ \A q \in DOMAIN db \ DOMAIN more : Beside(more, db)[q] = db[q]
            BY <1>2, <3>1, BesideIsRows
        <3> QED
            BY <3>1, <3>2 DEF more
    <2> QED
        BY <1>1, <2>1 DEF AreRows
<1>5. LedgerIsClosed'
    BY <1>1, <1>2, <1>4 DEF LedgerIsClosed, AreRows, IsClosed
<1>6. JobIsInOrder' /\ FilesAreLedgers' /\ PageIsInOrder' /\ RestoresWhatWasInspected'
    BY <1>1, JobUntouched, FilesUntouched, PageUntouched DEF BackupIInv, ArchivesAreWhole
<1>7. CopyIsInOrder'
    <2>1. CopyIsInOrder
        BY DEF BackupIInv
    <2>2. /\ JobAt("tables") => DOMAIN db' \subseteq DOMAIN job.snapshot \cup since'
          /\ job.at \in {"objects", "parse", "deleting", "creating"} =>
                DOMAIN db' \cap Captured \subseteq DOMAIN job.copied \cup since'
        BY <1>1, <1>4, <2>1 DEF CopyIsInOrder
    <2>3. bucket \subseteq bucket' /\ lost' = lost /\ job' = job
        BY <1>1
    <2> QED
        BY <2>1, <2>2, <2>3 DEF CopyIsInOrder, JobAt, AreRows, IsClosed
<1>8. RestoreIsInOrder'
    <2>1. RestoreIsInOrder /\ JobIsInOrder
        BY DEF BackupIInv
    <2>2. Restoring /\ ~JobAt("putting") => RowsOf(db', "appUser") # {}
        BY <1>4, <2>1 DEF RestoreIsInOrder, RowsOf
    <2>3. ASSUME job.at \in {"deleting", "creating"}
          PROVE  /\ Table[r] # "appUser"
                 /\ \A q \in during' : Table[q] # "appUser"
        <3>1. RowsOf(db, "appUser") # {} /\ \A q \in during : Table[q] # "appUser"
            BY <2>1, <2>3 DEF RestoreIsInOrder, JobIsInOrder, JobAt
        <3> QED
            BY <1>1, <3>1
    <2>4. CASE job.at = "creating"
        <3>1. /\ AreRows(job.archived) /\ IsClosed(job.archived)
              /\ DOMAIN job.archived \subseteq DOMAIN files[job.file].rows
              /\ job.made = Only(job.archived, Passed(job.rest))
              /\ \A q \in DOMAIN job.made : job.made[q] \subseteq DOMAIN View
              /\ \A q \in DOMAIN db \ job.gone : q \in during /\ OfNoSession(q)
            BY <2>1, <2>4 DEF RestoreIsInOrder, JobAt
        <3>2. DOMAIN View \subseteq DOMAIN View'
            BY <1>1, <1>4 DEF View, Kept, Beside
        <3>3. OfNoSession(r)
            <4> SUFFICES ASSUME Table[r] \in SessionTables, r \notin LoginChallenges PROVE FALSE
                BY DEF OfNoSession
            <4>1. PICK q \in Refs[r] : Table[q] = "appUser"
                BY RowsFitTheSchema, RowsRefer DEF LoginChallenges, SessionTables
            <4>2. q \in DOMAIN db \ job.gone
                BY <1>1, <4>1
            <4> QED
                BY <1>1, <2>3, <2>4, <3>1, <4>1, <4>2
        <3>4. \A q \in DOMAIN db' \ job.gone : q \in during' /\ OfNoSession(q)
            BY <1>1, <1>4, <3>1, <3>3
        <3>5. \A q \in DOMAIN job.made : job.made[q] \subseteq DOMAIN View'
            BY <3>1, <3>2
        <3> QED
            BY <1>1, <2>2, <2>3, <2>4, <3>1, <3>4, <3>5, ZenonT(60)
            DEF RestoreIsInOrder, JobAt, Restoring, RowsOf, AreRows, IsClosed
    <2>5. CASE job.at = "deleting"
        <3>1. /\ AreRows(job.archived) /\ IsClosed(job.archived)
              /\ DOMAIN job.archived \subseteq DOMAIN files[job.file].rows /\ job.made = NoRows
              /\ \A q \in DOMAIN db \ job.gone :
                    q \in during \/ Table[q] \in SessionTables \/ \E p \in job.rest : TABLES[p] = Table[q]
            BY <2>1, <2>5 DEF RestoreIsInOrder, JobAt
        <3>2. \A q \in DOMAIN db' \ job.gone :
                 q \in during' \/ Table[q] \in SessionTables \/ \E p \in job.rest : TABLES[p] = Table[q]
            BY <1>1, <1>4, <3>1
        <3> QED
            BY <1>1, <2>2, <2>3, <2>5, <3>1, <3>2
            DEF RestoreIsInOrder, JobAt, Restoring, RowsOf, AreRows, IsClosed
    <2>6. CASE job.at \notin {"deleting", "creating"}
        BY <1>1, <2>2, <2>6 DEF RestoreIsInOrder, JobAt, Restoring, RowsOf
    <2> QED
        BY <2>4, <2>5, <2>6
<1>9. FilesAreStored'
    <2>1. FilesAreStored
        BY DEF BackupIInv
    <2> QED
        BY <1>1, <1>4, <2>1 DEF FilesAreStored, JobAt
<1>10. Kinds'
    <2>1. left' \in [{"writes", "exports", "restores", "faults", "reloads", "disasters"} -> Nat]
        BY <1>1, WholeIsOfKinds, SpendingCounts
    <2> QED
        BY <1>1, <2>1, WholeIsOfKinds DEF Kinds
<1> QED
    BY <1>5, <1>6, <1>7, <1>8, <1>9, <1>10, PartsMakeWhole

LEMMA LoseObjectKeeps ==
    ASSUME BackupIInv, NEW key \in ObjectKeys, LoseObject(key)
    PROVE  BackupIInv'
<1>1. /\ Spend("faults") /\ bucket' = bucket \ {key} /\ lost' = lost \cup {key}
      /\ UNCHANGED <<db, files, job, answer, page, during, since>>
    BY DEF LoseObject
<1>2. left' \in [{"writes", "exports", "restores", "faults", "reloads", "disasters"} -> Nat]
    BY <1>1, WholeIsOfKinds, SpendingCounts
<1>3. Kinds'
    BY <1>1, <1>2, WholeIsOfKinds DEF Kinds
<1>4. lost \subseteq lost' /\ bucket \subseteq bucket' \cup lost'
    BY <1>1
<1>5. /\ LedgerIsClosed' /\ FilesAreLedgers' /\ JobIsInOrder' /\ CopyIsInOrder'
      /\ RestoreIsInOrder' /\ FilesAreStored' /\ PageIsInOrder' /\ RestoresWhatWasInspected'
    BY <1>1, <1>4, LedgerUntouched, FilesUntouched, JobUntouched, CopyUntouched,
       RestoreUntouched, StoreUntouched, PageUntouched DEF BackupIInv, ArchivesAreWhole
<1> QED
    BY <1>3, <1>5, PartsMakeWhole

LEMMA BlankPageIsInOrder ==
    ASSUME page' = BlankPage
    PROVE  PageIsInOrder' /\ RestoresWhatWasInspected' /\ page' \in Panels
BY DEF BlankPage, PageIsInOrder, RestoresWhatWasInspected, Panels, Waits

LEMMA DisasterKeeps ==
    ASSUME BackupIInv, Disaster
    PROVE  BackupIInv'
<1>1. /\ job = NoJob /\ job' = NoJob /\ Spend("disasters") /\ db' = Written(Anew) /\ bucket' = {}
      /\ answer' = "none" /\ page' = BlankPage /\ UNCHANGED <<files, during, since, lost>>
    BY DEF Disaster
<1>2. /\ Anew \in SUBSET Row /\ \A r \in Anew : Refs[r] \subseteq Anew
      /\ Anew \cap ObjectKeys = {}
    BY BackupAssumption
<1>3. /\ AreRows(db') /\ DOMAIN db' = Anew /\ \A r \in Anew : db'[r] = Refs[r]
    <2>1. /\ AreRows(Written(Anew)) /\ DOMAIN Written(Anew) = Anew
          /\ \A r \in Anew : Written(Anew)[r] = Refs[r]
        BY <1>2, WrittenIsRows
    <2> QED
        BY <1>1, <2>1 DEF AreRows
<1>4. LedgerIsClosed'
    BY <1>2, <1>3 DEF LedgerIsClosed, AreRows, IsClosed
<1>5. JobIsInOrder' /\ CopyIsInOrder' /\ RestoreIsInOrder' /\ FilesAreStored'
    BY <1>1, <1>2, <1>3, JobEnds
<1>6. PageIsInOrder' /\ RestoresWhatWasInspected' /\ page' \in Panels
    BY <1>1, BlankPageIsInOrder
<1>7. left' \in [{"writes", "exports", "restores", "faults", "reloads", "disasters"} -> Nat]
    BY <1>1, WholeIsOfKinds, SpendingCounts
<1>8. FilesAreLedgers' /\ Kinds'
    BY <1>1, <1>6, <1>7, WholeIsOfKinds, FilesUntouched DEF Kinds, BackupIInv, Outcomes
<1> QED
    BY <1>4, <1>5, <1>6, <1>8, PartsMakeWhole

\* What the panel does changes nothing but the panel.
LEMMA PanelKeeps ==
    ASSUME BackupIInv, NEW new, PanelStep(new), PageIsInOrder', RestoresWhatWasInspected',
           page' \in Panels, Kinds => left' \in
              [{"writes", "exports", "restores", "faults", "reloads", "disasters"} -> Nat]
    PROVE  BackupIInv'
<1>1. UNCHANGED <<db, bucket, files, job, answer, during, since, lost>>
    BY DEF PanelStep
<1>2. Kinds'
    BY <1>1, WholeIsOfKinds DEF Kinds
<1>3. lost \subseteq lost' /\ bucket \subseteq bucket' \cup lost' /\ since \subseteq since'
    BY <1>1
<1>4. /\ LedgerIsClosed' /\ FilesAreLedgers' /\ JobIsInOrder' /\ CopyIsInOrder'
      /\ RestoreIsInOrder' /\ FilesAreStored'
    BY <1>1, <1>3, LedgerUntouched, FilesUntouched, JobUntouched, CopyUntouched,
       RestoreUntouched, StoreUntouched DEF BackupIInv
<1> QED
    BY <1>2, <1>4, PartsMakeWhole

LEMMA ReloadKeeps ==
    ASSUME BackupIInv, Reload
    PROVE  BackupIInv'
<1>1. Spend("reloads") /\ PanelStep(BlankPage) /\ page' = BlankPage
    BY DEF Reload, PanelStep
<1> QED
    BY <1>1, BlankPageIsInOrder, WholeIsOfKinds, SpendingCounts, PanelKeeps

\* Archives are counted from 1: none is taken for no file.
LEMMA FilesAreCounted ==
    ASSUME BackupIInv
    PROVE  DOMAIN files \subseteq Nat /\ NoFile \notin DOMAIN files
<1>1. DOMAIN files = 1..Len(files) /\ Len(files) \in Nat
    BY DEF BackupIInv, FilesAreLedgers
<1> QED
    BY <1>1, BackupAssumption

LEMMA ChooseFileKeeps ==
    ASSUME BackupIInv, NEW i \in DOMAIN files, ChooseFile(i)
    PROVE  BackupIInv'
<1>1. PanelStep(Chosen(i)) /\ page' = Chosen(i) /\ UNCHANGED <<left, files>>
    BY DEF ChooseFile, PanelStep
<1>2. page \in Panels
    BY WholeIsOfKinds DEF Kinds
<1>3. /\ page'.file = i /\ page'.manifest = NoFile /\ page'.waits = page.waits
      /\ page'.asked = page.asked /\ page'.overtaken = (page.waits = "inspection")
      /\ page' \in Panels
    BY <1>1, <1>2, FilesAreCounted DEF Chosen, Panels, Waits
<1>4. PageIsInOrder' /\ RestoresWhatWasInspected'
    BY <1>1, <1>3 DEF BackupIInv, PageIsInOrder, RestoresWhatWasInspected
<1> QED
    BY <1>1, <1>3, <1>4, WholeIsOfKinds, PanelKeeps DEF Kinds

LEMMA InspectKeeps ==
    ASSUME BackupIInv, Inspect
    PROVE  BackupIInv'
<1> DEFINE new == [page EXCEPT !.waits = "inspection", !.asked = page.file]
<1>1. PanelStep(new) /\ page' = new /\ UNCHANGED <<left, files>> /\ page.file # NoFile
    BY DEF Inspect, PanelStep
<1>2. page \in Panels
    BY WholeIsOfKinds DEF Kinds
<1>3. /\ page'.file = page.file /\ page'.manifest = page.manifest /\ page'.waits = "inspection"
      /\ page'.asked = page.file /\ page'.overtaken = page.overtaken /\ page' \in Panels
    BY <1>1, <1>2 DEF Panels, Waits
<1>4. PageIsInOrder' /\ RestoresWhatWasInspected'
    BY <1>1, <1>3 DEF BackupIInv, ArchivesAreWhole, PageIsInOrder, RestoresWhatWasInspected
<1> QED
    BY <1>1, <1>3, <1>4, WholeIsOfKinds, PanelKeeps DEF Kinds

LEMMA InspectAnsweredKeeps ==
    ASSUME BackupIInv, InspectAnswered
    PROVE  BackupIInv'
<1> DEFINE inspected == [page EXCEPT !.waits = "no", !.asked = NoFile, !.manifest = page.asked,
                                 !.overtaken = @ /\ page.file # page.asked]
           refused == [page EXCEPT !.waits = "no", !.asked = NoFile]
<1>1. /\ page.waits = "inspection" /\ page' \in {inspected, refused} /\ PanelStep(page')
      /\ UNCHANGED <<left, files>>
    BY DEF InspectAnswered, PanelStep
<1>2. page \in Panels
    BY WholeIsOfKinds DEF Kinds
<1>3. /\ page.asked \in DOMAIN files /\ page.file \in DOMAIN files
      /\ page.asked = page.file \/ page.overtaken
      /\ page.manifest # NoFile => page.file = page.manifest \/ page.overtaken
    BY <1>1 DEF BackupIInv, ArchivesAreWhole, PageIsInOrder, RestoresWhatWasInspected
<1>4. CASE page' = inspected
    <2>1. /\ page'.file = page.file /\ page'.manifest = page.asked /\ page'.waits = "no"
          /\ page'.overtaken = (page.overtaken /\ page.file # page.asked) /\ page' \in Panels
        BY <1>2, <1>3, <1>4, FilesAreCounted DEF Panels, Waits
    <2>2. PageIsInOrder' /\ RestoresWhatWasInspected'
        BY <1>1, <1>3, <2>1 DEF PageIsInOrder, RestoresWhatWasInspected
    <2> QED
        BY <1>1, <2>1, <2>2, WholeIsOfKinds, PanelKeeps DEF Kinds
<1>5. CASE page' = refused
    <2>1. /\ page'.file = page.file /\ page'.manifest = page.manifest /\ page'.waits = "no"
          /\ page'.overtaken = page.overtaken /\ page' \in Panels
        BY <1>2, <1>5 DEF Panels, Waits
    <2>2. PageIsInOrder' /\ RestoresWhatWasInspected'
        BY <1>1, <1>3, <2>1 DEF PageIsInOrder, RestoresWhatWasInspected
    <2> QED
        BY <1>1, <2>1, <2>2, WholeIsOfKinds, PanelKeeps DEF Kinds
<1> QED
    BY <1>1, <1>4, <1>5

LEMMA ConfirmKeeps ==
    ASSUME BackupIInv, Confirm
    PROVE  BackupIInv'
<1>1. /\ PanelStep(page') /\ page' = [page EXCEPT !.confirmed = TRUE] /\ UNCHANGED <<left, files>>
    BY DEF Confirm, PanelStep
<1>2. page \in Panels
    BY WholeIsOfKinds DEF Kinds
<1>3. /\ page'.file = page.file /\ page'.manifest = page.manifest /\ page'.waits = page.waits
      /\ page'.asked = page.asked /\ page'.overtaken = page.overtaken /\ page' \in Panels
    BY <1>1, <1>2 DEF Panels, Waits
<1>4. PageIsInOrder' /\ RestoresWhatWasInspected'
    BY <1>1, <1>3 DEF BackupIInv, ArchivesAreWhole, PageIsInOrder, RestoresWhatWasInspected
<1> QED
    BY <1>1, <1>3, <1>4, WholeIsOfKinds, PanelKeeps DEF Kinds

LEMMA PressRestoreKeeps ==
    ASSUME BackupIInv, PressRestore
    PROVE  BackupIInv'
<1>1. /\ page.manifest # NoFile /\ page' = [page EXCEPT !.waits = "restore"]
      /\ job = NoJob /\ RowsOf(db, "appUser") # {} /\ Spend("restores")
      /\ job' = NewJob("restore", page.file) /\ since' = {}
      /\ UNCHANGED <<db, bucket, files, answer, during, lost>>
    BY DEF PressRestore, StartRestore, IsAsked
<1>2. page.file \in DOMAIN files /\ page \in Panels
    BY <1>1, WholeIsOfKinds DEF Kinds, BackupIInv, PageIsInOrder
<1>3. JobIsInOrder' /\ CopyIsInOrder' /\ RestoreIsInOrder' /\ FilesAreStored'
    BY <1>1, <1>2, JobStarts
<1>4. /\ page'.file = page.file /\ page'.manifest = page.manifest /\ page'.waits = "restore"
      /\ page'.overtaken = page.overtaken /\ page' \in Panels
    BY <1>1, <1>2 DEF Panels, Waits
<1>5. PageIsInOrder' /\ RestoresWhatWasInspected'
    BY <1>1, <1>2, <1>4 DEF BackupIInv, ArchivesAreWhole, PageIsInOrder, RestoresWhatWasInspected
<1>6. left' \in [{"writes", "exports", "restores", "faults", "reloads", "disasters"} -> Nat]
    BY <1>1, WholeIsOfKinds, SpendingCounts
<1>7. Kinds' /\ LedgerIsClosed' /\ FilesAreLedgers'
    BY <1>1, <1>4, <1>6, WholeIsOfKinds, LedgerUntouched, FilesUntouched DEF Kinds, BackupIInv
<1> QED
    BY <1>3, <1>5, <1>7, PartsMakeWhole

LEMMA StutterKeeps ==
    ASSUME BackupIInv, UNCHANGED backupVars
    PROVE  BackupIInv'
<1>1. /\ UNCHANGED <<db, bucket, files, job, answer, page, during, since, lost, left>>
      /\ lost \subseteq lost' /\ bucket \subseteq bucket' \cup lost' /\ since \subseteq since'
    BY DEF backupVars
<1>2. Kinds'
    BY <1>1, WholeIsOfKinds DEF Kinds
<1>3. /\ LedgerIsClosed' /\ FilesAreLedgers' /\ JobIsInOrder' /\ CopyIsInOrder'
      /\ RestoreIsInOrder' /\ FilesAreStored' /\ PageIsInOrder' /\ RestoresWhatWasInspected'
    BY <1>1, LedgerUntouched, FilesUntouched, JobUntouched, CopyUntouched, RestoreUntouched,
       StoreUntouched, PageUntouched DEF BackupIInv, ArchivesAreWhole
<1> QED
    BY <1>2, <1>3, PartsMakeWhole

-----------------------------------------------------------------------------
(* The theorems *)

LEMMA BackupStepKeeps ==
    ASSUME BackupIInv, [BackupNext]_backupVars
    PROVE  BackupIInv'
<1>1. ASSUME BackupNext
      PROVE  BackupIInv'
    BY <1>1, StartExportKeeps, ReadTableKeeps, ReadObjectKeeps, FinishExportKeeps,
       HaveSafetyCopyKeeps, ParseKeeps, DeleteTableKeeps, DeleteSessionsKeeps, CreateTableKeeps,
       CommitKeeps, PutObjectKeeps, FinishRestoreKeeps, FailKeeps, WriteKeeps, LoseObjectKeeps,
       DisasterKeeps, ChooseFileKeeps, InspectKeeps, InspectAnsweredKeeps, ConfirmKeeps,
       PressRestoreKeeps, ReloadKeeps
    DEF BackupNext
<1> QED
    BY <1>1, StutterKeeps

\* The inductive invariant holds in every state.
THEOREM BackupIsInOrder == BackupSpec => []BackupIInv
<1>1. BackupIInv /\ [BackupNext]_backupVars => BackupIInv'
    BY BackupStepKeeps
<1> QED
    BY <1>1, BackupBegins, PTL DEF BackupSpec

\* Whatever is written meanwhile and whatever fails, an archive is one moment's ledger, every
\* file of a ledger that was restored is stored unless storage lost it or an archive lacks it,
\* and the page restores the file it showed (backup.service.ts:93, 202; BackupSection.tsx:184).
THEOREM BackupsKeepArchivesWhole == BackupSpec => []ArchivesAreWhole
<1>1. BackupIInv => ArchivesAreWhole
    BY DEF BackupIInv
<1> QED
    BY <1>1, BackupIsInOrder, PTL

\* Objects are put after a commit only.
LEMMA OnlyCommitsPut ==
    ASSUME BackupIInv, BackupNext, job.at = "creating", job'.at = "putting"
    PROVE  Commit
<1>1. DOMAIN job = DOMAIN NoJob
    BY DEF BackupIInv, JobIsInOrder
<1>2. job' # NoJob /\ job # NoJob /\ job' # job
    BY DEF NoJob
<1>3. ~(StartExport \/ FinishExport \/ FinishRestore \/ Fail \/ Disaster \/ PressRestore)
    BY <1>2 DEF StartExport, FinishExport, FinishRestore, Fail, Disaster, PressRestore,
                StartRestore, AnswerRestore
<1>4. ~(ReadTable \/ ReadObject \/ HaveSafetyCopy \/ Parse \/ DeleteTable \/ DeleteSessions \/ PutObject)
    BY DEF ReadTable, ReadObject, HaveSafetyCopy, Parse, DeleteTable, DeleteSessions, PutObject, JobAt
<1>5. ~CreateTable
    <2> SUFFICES ASSUME CreateTable PROVE FALSE
        OBVIOUS
    <2>1. ~Broken
        BY <1>2 DEF Broken, AnswerRestore
    <2>2. \E rows, rest : job' = [job EXCEPT !.made = rows, !.rest = rest]
        BY <2>1 DEF CreateTable, Go
    <2> QED
        BY <1>1, <2>2 DEF NoJob
<1>6. /\ \A r \in Row : ~Write(r)
      /\ \A k \in ObjectKeys : ~LoseObject(k)
      /\ \A i \in DOMAIN files : ~ChooseFile(i)
      /\ ~(Inspect \/ InspectAnswered \/ Confirm \/ Reload)
    BY <1>2 DEF Write, LoseObject, ChooseFile, Inspect, InspectAnswered, Confirm, Reload, PanelStep
<1> QED
    BY <1>3, <1>4, <1>5, <1>6 DEF BackupNext

\* A transaction that broke was one that deleted or inserted rows.
LEMMA OnlyStatementsBreak ==
    ASSUME BackupIInv, BackupNext, Restoring, job' = NoJob, answer' = "constraint"
    PROVE  DeleteTable \/ CreateTable
<1>1. job # NoJob /\ job.kind = "restore" /\ job' # job
    BY DEF Restoring, NoJob
<1>2. ~(StartExport \/ Disaster \/ PressRestore \/ FinishExport)
    BY <1>1 DEF StartExport, Disaster, PressRestore, StartRestore, FinishExport
<1>3. ~(FinishRestore \/ Fail)
    BY <1>1 DEF FinishRestore, Fail, AnswerRestore, Restoring
<1>4. DOMAIN job = DOMAIN NoJob
    BY DEF BackupIInv, JobIsInOrder
<1>5. job'.at = "none"
    BY DEF NoJob
<1>6. ~(HaveSafetyCopy \/ DeleteSessions \/ Commit \/ Parse)
    <2>1. ~HaveSafetyCopy /\ ~DeleteSessions /\ ~Commit
        BY <1>4, <1>5, ZenonT(60) DEF HaveSafetyCopy, DeleteSessions, Commit, Go, NoJob
    <2>2. ~Parse
        <3> SUFFICES ASSUME Parse PROVE FALSE
            OBVIOUS
        <3>1. answer' # "refused"
            OBVIOUS
        <3>2. \E rows : job' = [job EXCEPT !.at = "deleting", !.rest = Places, !.archived = rows]
            BY <3>1 DEF Parse, AnswerRestore
        <3> QED
            BY <1>4, <1>5, <3>2 DEF NoJob
    <2> QED
        BY <2>1, <2>2
<1>7. ~(ReadTable \/ ReadObject \/ PutObject)
    <2>1. ~ReadTable
        BY <1>4, <1>5, ZenonT(60) DEF ReadTable, Go, NoJob
    <2>2. ~ReadObject
        BY <1>4, <1>5 DEF ReadObject, Go, NoJob, JobAt
    <2>3. ~PutObject
        BY <1>4, <1>5 DEF PutObject, Go, NoJob, JobAt
    <2> QED
        BY <2>1, <2>2, <2>3
<1>8. /\ \A r \in Row : ~Write(r)
      /\ \A k \in ObjectKeys : ~LoseObject(k)
      /\ \A i \in DOMAIN files : ~ChooseFile(i)
      /\ ~(Inspect \/ InspectAnswered \/ Confirm \/ Reload)
    BY <1>1 DEF Write, LoseObject, ChooseFile, Inspect, InspectAnswered, Confirm, Reload, PanelStep
<1> QED
    BY <1>2, <1>3, <1>6, <1>7, <1>8 DEF BackupNext

\* While nobody else writes no statement that empties a table is refused: the rows that refer
\* to those of the table are gone, but for sessions, which go with the account.
LEMMA DeletionsAreAllowed ==
    ASSUME BackupIInv, job.at = "deleting", during = {}, NEW p \in Highest(job.rest)
    PROVE  ~Refused(View, Deleted(View, RowsToDelete(TABLES[p])))
<1> DEFINE S == RowsOf(View, TABLES[p])
           Sessions == {r \in Row : Table[r] \in SessionTables}
<1>1. AreRows(View) /\ IsClosed(View) /\ DOMAIN View = DOMAIN db \ job.gone
    BY ViewIsALedger
<1>2. /\ p \in job.rest /\ \A n \in job.rest : n <= p
      /\ job.rest \subseteq Places
    BY DEF Highest, BackupIInv, JobIsInOrder
<1>3. \A r \in DOMAIN View : Table[r] \in SessionTables \/ \E n \in job.rest : TABLES[n] = Table[r]
    BY <1>1 DEF BackupIInv, RestoreIsInOrder, JobAt
<1>4. ASSUME NEW r \in DOMAIN View, NEW q \in View[r]
      PROVE  /\ r \in Row /\ q \in Refs[r] /\ Table[q] \notin SessionTables
             /\ q \in S => r \in Sessions
    <2>1. r \in Row /\ q \in Refs[r]
        BY <1>1 DEF AreRows
    <2>2. Table[q] \notin SessionTables
        BY <2>1, RowsRefer DEF Captured
    <2>3. ASSUME q \in S, Table[r] \notin SessionTables
          PROVE  FALSE
        <3>1. PICK n \in job.rest : TABLES[n] = Table[r]
            BY <1>3, <2>3
        <3>2. n \in DOMAIN TABLES /\ p \in DOMAIN TABLES /\ TABLES[p] = Table[q] /\ n <= p
            BY <1>2, <2>3 DEF Places, RowsOf
        <3>3. p < n
            BY <2>1, <3>1, <3>2, RowsRefer
        <3> QED
            BY <3>2, <3>3, PlacesOfTables
    <2> QED
        BY <2>1, <2>2, <2>3
<1>5. ASSUME NEW X, X \subseteq S \cup Sessions
      PROVE  Orphans(View, X) \subseteq Sessions
    BY <1>4, <1>5 DEF Orphans
<1>6. Deleted(View, S) \subseteq S \cup Sessions
    <2> DEFINE first  == S \cup Orphans(View, S)
               second == first \cup Orphans(View, first)
    <2>1. first \subseteq S \cup Sessions
        BY <1>5
    <2> HIDE DEF first
    <2>2. second \subseteq S \cup Sessions
        BY <1>5, <2>1
    <2> HIDE DEF second
    <2>3. second \cup Orphans(View, second) \subseteq S \cup Sessions
        BY <1>5, <2>2
    <2> QED
        BY <2>3 DEF Deleted, first, second
<1> HIDE DEF S
<1>7. ASSUME NEW r \in DOMAIN View, NEW q \in View[r] \cap Deleted(View, S)
      PROVE  ~OnDelete(r, q, "Restrict")
    <2>1. r \in Row /\ q \in Refs[r] /\ q \in S
        BY <1>4, <1>6
    <2>2. Table[r] \in SessionTables
        BY <1>4, <2>1
    <2> QED
        BY <2>1, <2>2, RowsRefer
<1> QED
    BY <1>7 DEF Refused, RowsToDelete, S

\* And no statement that fills one fails: what its rows refer to is there, and they are not.
LEMMA InsertionsAreAllowed ==
    ASSUME BackupIInv, job.at = "creating", during = {}, NEW p \in Lowest(job.rest)
    PROVE  Insertable(Only(job.archived, RowsOf(job.archived, TABLES[p])))
<1>1. /\ p \in job.rest /\ \A n \in job.rest : p <= n
      /\ job.rest \subseteq Places
    BY DEF Lowest, BackupIInv, JobIsInOrder
<1>2. /\ AreRows(job.archived) /\ IsClosed(job.archived)
      /\ job.made = Only(job.archived, Passed(job.rest))
      /\ \A r \in DOMAIN db \ job.gone : r \in during
    BY DEF BackupIInv, RestoreIsInOrder, JobAt
<1>3. DOMAIN View = DOMAIN job.archived \cap Passed(job.rest)
    <2>1. DOMAIN View = DOMAIN job.made \cup (DOMAIN db \ job.gone)
        BY ViewIsALedger
    <2>2. DOMAIN db \ job.gone = {}
        BY <1>2
    <2> QED
        BY <1>2, <2>1, <2>2 DEF Only
<1> SUFFICES ASSUME NEW r \in DOMAIN job.archived, Table[r] = TABLES[p]
             PROVE  r \notin DOMAIN View /\ job.archived[r] \subseteq DOMAIN View
    BY DEF Insertable, Only, RowsOf
<1>4. r \notin DOMAIN View
    BY <1>1, <1>3 DEF Passed
<1>5. ASSUME NEW q \in job.archived[r]
      PROVE  q \in DOMAIN View
    <2>1. r \in Row /\ q \in Refs[r] /\ q \in DOMAIN job.archived
        BY <1>2 DEF AreRows, IsClosed
    <2>2. q \in Captured
        BY <2>1, RowsRefer
    <2>3. ASSUME NEW n \in job.rest, TABLES[n] = Table[q]
          PROVE  FALSE
        <3>1. n \in DOMAIN TABLES /\ p \in DOMAIN TABLES /\ p <= n
            BY <1>1 DEF Places
        <3>2. n < p
            BY <2>1, <2>3, <3>1, RowsRefer
        <3> QED
            BY <3>1, <3>2, PlacesOfTables
    <2> QED
        BY <1>3, <2>1, <2>2, <2>3 DEF Passed
<1> QED
    BY <1>4, <1>5

LEMMA StepsReplace ==
    ASSUME BackupIInv, [BackupNext]_backupVars, JobAt("creating"), JobAt("putting")'
    PROVE  /\ DOMAIN job.archived \subseteq DOMAIN db'
           /\ \A r \in DOMAIN job.archived : db'[r] = job.archived[r]
           /\ DOMAIN db' \ DOMAIN job.archived \subseteq during
           /\ \A r \in DOMAIN db' : OfNoSession(r)
<1>1. job.at = "creating" /\ job'.at = "putting"
    BY DEF JobAt
<1>2. Commit
    <2>1. BackupNext
        BY <1>1 DEF backupVars
    <2> QED
        BY <1>1, <2>1, OnlyCommitsPut
<1>3. /\ DOMAIN job.archived \subseteq Captured
      /\ DOMAIN db' = DOMAIN job.archived \cup (DOMAIN db \ job.gone)
      /\ \A r \in DOMAIN job.archived : db'[r] = job.archived[r]
      /\ \A r \in DOMAIN db \ job.gone : r \in during /\ OfNoSession(r)
    BY <1>2, CommittedLedger
<1> QED
    BY <1>3 DEF Captured, OfNoSession

LEMMA StepsRespectForeignKeys ==
    ASSUME BackupIInv, [BackupNext]_backupVars, Restoring, job' = NoJob, answer' = "constraint"
    PROVE  during # {}
<1> SUFFICES ASSUME during = {} PROVE FALSE
    OBVIOUS
<1>1. BackupNext
    BY DEF backupVars, Restoring, NoJob
<1>2. DOMAIN job = DOMAIN NoJob /\ job'.at = "none"
    BY DEF BackupIInv, JobIsInOrder, NoJob
<1>3. ASSUME DeleteTable PROVE FALSE
    <2>1. job.at = "deleting"
        BY <1>3 DEF DeleteTable, JobAt
    <2>2. PICK p \in Highest(job.rest) :
             \/ Refused(View, Deleted(View, RowsToDelete(TABLES[p])))
             \/ \E gone, rest : job' = [job EXCEPT !.gone = gone, !.rest = rest]
        BY <1>3 DEF DeleteTable, Go
    <2>3. \E gone, rest : job' = [job EXCEPT !.gone = gone, !.rest = rest]
        BY <2>1, <2>2, DeletionsAreAllowed
    <2> QED
        BY <1>2, <2>1, <2>3 DEF NoJob
<1>4. ASSUME CreateTable PROVE FALSE
    <2>1. job.at = "creating"
        BY <1>4 DEF CreateTable, JobAt
    <2>2. PICK p \in Lowest(job.rest) :
             \/ ~Insertable(Only(job.archived, RowsOf(job.archived, TABLES[p])))
             \/ \E made, rest : job' = [job EXCEPT !.made = made, !.rest = rest]
        BY <1>4 DEF CreateTable, Go
    <2>3. \E made, rest : job' = [job EXCEPT !.made = made, !.rest = rest]
        BY <2>1, <2>2, InsertionsAreAllowed
    <2> QED
        BY <1>2, <2>1, <2>3 DEF NoJob
<1> QED
    BY <1>1, <1>3, <1>4, OnlyStatementsBreak

LEMMA StepsCover ==
    ASSUME BackupIInv, JobAt("creating")
    PROVE  (DOMAIN db \ DOMAIN db') \cap Captured \subseteq DOMAIN job.copied \cup since
BY DEF BackupIInv, CopyIsInOrder, JobAt

\* A restore that commits leaves the archive's ledger and nothing else but what was written
\* while it ran, of the old account's sessions and challenges nothing; it fails for a foreign key, or an identity that is taken, only when something
\* was; and what it replaced is in the safety copy (backup.service.ts:176,
\* backup.controller.ts:89).
THEOREM RestoresReplaceLedgers == BackupSpec => RestoresReplaceTheLedger
<1> DEFINE Replaces ==
               JobAt("creating") /\ JobAt("putting")' =>
                   /\ DOMAIN job.archived \subseteq DOMAIN db'
                   /\ \A r \in DOMAIN job.archived : db'[r] = job.archived[r]
                   /\ DOMAIN db' \ DOMAIN job.archived \subseteq during
                   /\ \A r \in DOMAIN db' : OfNoSession(r)
           Respects == Restoring /\ job' = NoJob /\ answer' = "constraint" => during # {}
           Covers ==
               JobAt("creating") /\ JobAt("putting")' =>
                   (DOMAIN db \ DOMAIN db') \cap Captured \subseteq DOMAIN job.copied \cup since
<1>1. BackupIInv /\ [BackupNext]_backupVars => Replaces
    BY StepsReplace
<1>2. BackupIInv /\ [BackupNext]_backupVars => Respects
    BY StepsRespectForeignKeys
<1>3. BackupIInv /\ [BackupNext]_backupVars => Covers
    BY StepsCover
<1> HIDE DEF Replaces, Respects, Covers
<1>4. BackupSpec => [][Replaces]_backupVars /\ [][Respects]_backupVars /\ [][Covers]_backupVars
    BY <1>1, <1>2, <1>3, BackupIsInOrder, PTL DEF BackupSpec
<1>5. RestoresReplaceTheLedger
         <=> [][Replaces]_backupVars /\ [][Respects]_backupVars /\ [][Covers]_backupVars
    BY DEF RestoresReplaceTheLedger, RestoreReplaces, OrderRespectsForeignKeys,
           SafetyCopyCoversTheReplaced, Replaces, Respects, Covers
<1> QED
    BY <1>4, <1>5
-----------------------------------------------------------------------------
(* What was paid, divided among the items (allocation.ts).  The floors of the *)
(* exact shares leave as many units as their remainders make up; each goes to *)
(* an item of its own, because the order of the remainders is strict and so   *)
(* gives every item another place, and to one that has a remainder, because   *)
(* there are at least as many of those.                                       *)

\* Total, which folds over a function's domain, is the sum.
LEMMA TotalIs ==
    ASSUME NEW S, IsFiniteSet(S), NEW g \in [S -> Int]
    PROVE  Total(g) = SumOver(g, S) /\ Total(g) \in Int
  <1> DEFINE Rule(G) ==
         G = [s \in SUBSET S |->
                IF s = {} THEN 0
                ELSE g[CHOOSE x \in s : TRUE] + G[s \ {CHOOSE x \in s : TRUE}]]
  <1>1. PICK F : Sums(F, g, S)
    BY SumsExist
  <1>2. ASSUME NEW s \in SUBSET S
        PROVE  F[s] = IF s = {} THEN 0
                      ELSE g[CHOOSE x \in s : TRUE] + F[s \ {CHOOSE x \in s : TRUE}]
    <2>1. CASE s = {}
      BY <1>1, <2>1 DEF Sums
    <2>2. CASE s # {}
      BY <1>1, <2>2 DEF Sums, Pick
    <2> QED
      BY <2>1, <2>2
  <1>3. Rule(F)
    BY <1>1, <1>2 DEF Sums
  <1>4. Rule(CHOOSE G : Rule(G))
    <2> HIDE DEF Rule
    <2> QED
      BY <1>3
  <1> DEFINE it == CHOOSE G : Rule(G)
  <1>5. Total(g) = it[S]
    <2>1. DOMAIN g = S
      OBVIOUS
    <2>2. Total(g) = MapThenSumSet(LAMBDA i : g[i], S)
      BY <2>1 DEF Total
    <2> QED
      BY <2>2 DEF MapThenSumSet, MapThenFoldSet
  <1> HIDE DEF it
  <1>6. it = [s \in SUBSET S |->
                IF s = {} THEN 0
                ELSE g[CHOOSE x \in s : TRUE] + it[s \ {CHOOSE x \in s : TRUE}]]
    BY <1>4 DEF it
  <1> HIDE DEF Rule
  <1>7. it[{}] = 0
    BY <1>6
  <1>8. ASSUME NEW s \in SUBSET S, s # {} PROVE it[s] = g[Pick(s)] + it[s \ {Pick(s)}]
    BY <1>6, <1>8 DEF Pick
  <1>9. it[S] = SumOver(g, S) /\ it[S] \in Int
    BY <1>7, <1>8, FoldIs
  <1> QED
    BY <1>5, <1>9

\* The items of which an order puts fewer than e before are e, in a strict order of n.
\* earlier[i] is what comes before i.
LEMMA PlacesAreDistinct ==
    ASSUME NEW n \in Nat, NEW earlier \in [1 .. n -> SUBSET (1 .. n)],
           \A i \in 1 .. n : i \notin earlier[i],
           \A i \in 1 .. n, j \in 1 .. n : i # j => i \in earlier[j] \/ j \in earlier[i],
           \A i \in 1 .. n, j \in 1 .. n : j \in earlier[i] => earlier[j] \subseteq earlier[i],
           NEW e \in 0 .. n
    PROVE  Cardinality({i \in 1 .. n : Cardinality(earlier[i]) < e}) = e
  <1> DEFINE S == 1 .. n
             place == [i \in S |-> Cardinality(earlier[i])]
  <1>1. IsFiniteSet(S) /\ Cardinality(S) = n
    BY FS_Interval
  <1>2. ASSUME NEW i \in S PROVE IsFiniteSet(earlier[i]) /\ Cardinality(earlier[i]) \in 0 .. (n - 1)
    <2>1. IsFiniteSet(S \ {i}) /\ Cardinality(S \ {i}) = n - 1
      BY <1>1, FS_RemoveElement
    <2>2. earlier[i] \in SUBSET (S \ {i})
      OBVIOUS
    <2>3. IsFiniteSet(earlier[i]) /\ Cardinality(earlier[i]) <= n - 1
      BY <2>1, <2>2, FS_Subset
    <2> QED
      BY <2>3, FS_CardinalityType
  <1>3. ASSUME NEW i \in S, NEW j \in S, j \in earlier[i]
        PROVE  Cardinality(earlier[j]) < Cardinality(earlier[i])
    <2>1. earlier[j] \in SUBSET earlier[i] /\ j \notin earlier[j]
      BY <1>3
    <2>2. /\ Cardinality(earlier[j]) <= Cardinality(earlier[i])
          /\ Cardinality(earlier[i]) = Cardinality(earlier[j]) => earlier[i] = earlier[j]
      BY <1>2, <2>1, FS_Subset
    <2> QED
      BY <1>2, <1>3, <2>1, <2>2
  <1>4. ASSUME NEW i \in S, NEW j \in S, i # j PROVE place[i] # place[j]
    <2>1. CASE j \in earlier[i]
      BY <1>2, <1>3, <2>1
    <2>2. CASE i \in earlier[j]
      BY <1>2, <1>3, <2>2
    <2> QED
      BY <1>4, <2>1, <2>2
  <1>5. place \in Injection(S, 0 .. (n - 1))
    <2>1. place \in [S -> 0 .. (n - 1)]
      BY <1>2
    <2> HIDE DEF place, S
    <2> QED
      BY <1>4, <2>1 DEF Injection, IsInjective
  <1>6. place \in Surjection(S, 0 .. (n - 1))
    <2>1. IsFiniteSet(0 .. (n - 1)) /\ Cardinality(0 .. (n - 1)) = n
      <3>1. 0 \in Int /\ n - 1 \in Int
        OBVIOUS
      <3>2. /\ IsFiniteSet(0 .. (n - 1))
            /\ Cardinality(0 .. (n - 1)) = IF 0 > n - 1 THEN 0 ELSE (n - 1) - 0 + 1
        BY ONLY <3>1, FS_Interval
      <3> QED
        BY <3>2
    <2> HIDE DEF place, S
    <2> QED
      BY <1>1, <1>5, <2>1, FS_Injection
  <1> DEFINE W == {i \in S : Cardinality(earlier[i]) < e}
             P == 0 .. (e - 1)
             taken == [i \in W |-> place[i]]
  <1>7. IsFiniteSet(W)
    BY <1>1, FS_Subset
  <1>8. taken \in [W -> P]
    BY <1>2
  <1>9. taken \in Injection(W, P)
    <2>1. \A i, j \in W : taken[i] = taken[j] => i = j
      BY <1>4
    <2> HIDE DEF taken, W, P
    <2> QED
      BY <1>8, <2>1 DEF Injection, IsInjective
  <1>10. taken \in Surjection(W, P)
    <2>1. ASSUME NEW p \in P PROVE \E i \in W : taken[i] = p
      <3>1. PICK i \in S : place[i] = p
        <4>1. p \in 0 .. (n - 1)
          OBVIOUS
        <4> HIDE DEF place, S
        <4> QED
          BY <1>6, <4>1 DEF Surjection
      <3>2. i \in W
        BY <3>1
      <3> QED
        BY <3>1, <3>2
    <2> HIDE DEF taken, W, P
    <2> QED
      BY <1>8, <2>1 DEF Surjection
  <1>11. Cardinality(P) = e
    <2>1. 0 \in Int /\ e - 1 \in Int
      OBVIOUS
    <2>2. Cardinality(0 .. (e - 1)) = IF 0 > e - 1 THEN 0 ELSE (e - 1) - 0 + 1
      BY <2>1, FS_Interval
    <2> QED
      BY <2>2
  <1>12. Cardinality(W) = Cardinality(P)
    <2> HIDE DEF taken, W, P
    <2> QED
      BY <1>7, <1>9, <1>10, FS_Surjection
  <1> QED
    BY <1>11, <1>12

\* What a division leaves.
LEMMA DivisionLeaves ==
    ASSUME NEW a \in Nat, NEW d \in Nat \ {0}
    PROVE  a \div d \in Nat /\ a % d \in 0 .. (d - 1) /\ a = d * (a \div d) + (a % d)
  <1> DEFINE q == a \div d
             r == a % d
  <1>1. q \in Int /\ r \in 0 .. (d - 1) /\ a = d * q + r
    OBVIOUS
  <1> HIDE DEF q, r
  <1>2. q >= 0
    <2>1. SUFFICES ASSUME q <= -1 PROVE FALSE
      BY <1>1
    <2>2. d * q <= d * (-1) /\ d * (-1) = -d
      BY <1>1, <2>1
    <2> QED
      BY <1>1, <2>2
  <1>3. q \in Nat
    BY <1>1, <1>2
  <1>4. a \div d \in Nat
    BY <1>3 DEF q
  <1> QED
    BY <1>1, <1>4 DEF q, r

\* What largestRemainderSplit promises: all of the total, and each item within a unit of its
\* exact share.
FairSplit(c, t, b, n) ==
    /\ c \in [1 .. n -> Nat] /\ Total(c) = t
    /\ \A i \in 1 .. n : /\ c[i] * Total(b) - t * b[i] < Total(b)
                         /\ -(c[i] * Total(b) - t * b[i]) < Total(b)

LEMMA SplitIsFair ==
    ASSUME NEW n \in Nat \ {0}, NEW t \in Nat, NEW b \in [1 .. n -> Nat], Total(b) # 0
    PROVE  FairSplit(largestRemainderSplit(t, b), t, b, n)
  <1> DEFINE S == 1 .. n
  <1>1. IsFiniteSet(S) /\ Cardinality(S) = n
    BY FS_Interval
  <1>2. PICK B : B = Total(b)
    OBVIOUS
  <1>3. B = SumOver(b, S) /\ B \in Nat \ {0}
    <2>1. B = SumOver(b, S) /\ B \in Int
      BY <1>1, <1>2, TotalIs
    <2>2. B >= 0
      BY <1>1, <2>1, SumIsNatural
    <2> QED
      BY <1>2, <2>1, <2>2
  <1>4. PICK f : f = Floors(t, b)
    OBVIOUS
  <1>5. PICK r : r = Remains(t, b)
    OBVIOUS
  <1>6. DOMAIN b = S
    OBVIOUS
  <1>7. /\ f = [i \in S |-> (t * b[i]) \div B]
        /\ r = [i \in S |-> (t * b[i]) % B]
    BY <1>2, <1>4, <1>5, <1>6 DEF Floors, Remains
  <1>8. ASSUME NEW i \in S
        PROVE  /\ f[i] \in Nat /\ r[i] \in 0 .. (B - 1) /\ b[i] \in Nat
               /\ t * b[i] = B * f[i] + r[i]
    <2>1. PICK a : a = t * b[i]
      OBVIOUS
    <2>2. a \in Nat
      BY <2>1
    <2>3. f[i] = a \div B /\ r[i] = a % B
      BY <1>7, <2>1
    <2>4. a \div B \in Nat /\ a % B \in 0 .. (B - 1) /\ a = B * (a \div B) + (a % B)
      BY <1>3, <2>2, DivisionLeaves
    <2>5. f[i] \in Nat /\ r[i] \in 0 .. (B - 1) /\ a = B * f[i] + r[i]
      BY <2>3, <2>4
    <2> QED
      BY <2>1, <2>5
  <1>9. f \in [S -> Nat] /\ r \in [S -> Nat] /\ b \in [S -> Nat]
    BY <1>7, <1>8
  <1>10. PICK floors, rest : floors = SumOver(f, S) /\ rest = SumOver(r, S)
    OBVIOUS
  <1>11. floors \in Int /\ rest \in Int /\ Total(f) = floors
    BY <1>1, <1>9, <1>10, TotalIs, SumTakesOne
  <1>12. t * B = B * floors + rest
    <2>1. \A i \in S : /\ b[i] \in Int /\ f[i] \in Int /\ r[i] \in Int
                       /\ t * b[i] = B * f[i] + r[i]
      BY <1>8
    <2> HIDE DEF S
    <2>2. t * SumOver(b, S) = B * SumOver(f, S) + SumOver(r, S)
      <3>1. t \in Int /\ B \in Int
        BY <1>3
      <3> QED
        BY ONLY <1>1, <2>1, <3>1, SumsCombine
    <2> QED
      BY <1>3, <1>10, <2>2
  <1> DEFINE P == {i \in S : r[i] # 0}
  <1>13. IsFiniteSet(P) /\ Cardinality(P) \in 0 .. n
    <2>1. IsFiniteSet(P) /\ Cardinality(P) <= n
      BY <1>1, FS_Subset
    <2> QED
      BY <2>1, FS_CardinalityType
  <1>14. rest \in 0 .. ((B - 1) * Cardinality(P))
    <2>1. \A i \in S : r[i] \in 0 .. (B - 1) /\ (i \notin P => r[i] = 0)
      BY <1>8
    <2>2. P \in SUBSET S /\ B - 1 \in Nat
      BY <1>3
    <2> HIDE DEF P, S
    <2> QED
      BY <1>1, <1>10, <2>1, <2>2, SumsBound
  <1>15. PICK e : e = t - floors
    OBVIOUS
  <1>16. e \in 0 .. Cardinality(P)
    <2>1. PICK p : p = Cardinality(P)
      OBVIOUS
    <2>2. p \in Nat /\ e \in Int /\ rest \in 0 .. ((B - 1) * p)
      BY <1>11, <1>13, <1>14, <1>15, <2>1
    <2>3. B * e = rest
      <3>1. B * e = t * B - B * floors
        BY <1>3, <1>11, <1>15
      <3> QED
        BY <1>3, <1>11, <1>12, <3>1
    <2>4. e >= 0
      <3>1. SUFFICES ASSUME e <= -1 PROVE FALSE
        BY <2>2
      <3>2. B * e <= B * (-1)
        BY <1>3, <2>2, <3>1, SMTT(60)
      <3>3. B * (-1) = -B
        BY <1>3
      <3> QED
        BY <1>3, <2>2, <2>3, <3>2, <3>3
    <2>5. e <= p
      <3>1. SUFFICES ASSUME e >= p + 1 PROVE FALSE
        BY <2>2
      <3>2. B * e >= B * (p + 1)
        BY <1>3, <2>2, <3>1
      <3>3. PICK m : m = (B - 1) * p
        OBVIOUS
      <3>4. B * (p + 1) = m + p + B /\ m \in Int
        BY <1>3, <2>2, <3>3
      <3>5. rest <= m /\ p \in Nat
        BY <2>2, <3>3, <3>4
      <3>6. PICK x, y : x = B * e /\ y = B * (p + 1)
        OBVIOUS
      <3>7. x >= y /\ x = rest /\ y = m + p + B /\ m \in Int
        BY <2>3, <3>2, <3>4, <3>6
      <3> QED
        BY ONLY <1>3, <1>11, <3>5, <3>7
    <2> QED
      BY <2>1, <2>2, <2>4, <2>5
  <1> DEFINE earlier == [i \in S |-> {j \in S \ {i} : Before(t, b, j, i)}]
  <1>17. ASSUME NEW i \in S, NEW j \in S
         PROVE  Before(t, b, i, j) <=> r[i] > r[j] \/ (r[i] = r[j] /\ i < j)
    BY <1>5 DEF Before
  <1> HIDE DEF P
  <1>18. Cardinality({i \in S : Cardinality(earlier[i]) < e}) = e
    <2>1. PICK E : E = earlier
      OBVIOUS
    <2>2. \A i \in S : r[i] \in Int /\ i \in Int
      BY <1>8
    <2>3. \A i, j \in S :
             i \in E[j] <=> i # j /\ (r[i] > r[j] \/ (r[i] = r[j] /\ i < j))
      BY <1>17, <2>1
    <2>4. E \in [S -> SUBSET S]
      BY <2>1
    <2>5. \A i \in S : i \notin E[i]
      BY <2>3
    <2>6. \A i \in S, j \in S : i # j => i \in E[j] \/ j \in E[i]
      BY <2>2, <2>3
    <2>7. \A i \in S, j \in S : j \in E[i] => E[j] \subseteq E[i]
      <3>1. SUFFICES ASSUME NEW i \in S, NEW j \in S, j \in E[i], NEW k \in E[j] PROVE k \in E[i]
        OBVIOUS
      <3>2. k \in S
        BY <2>4, <3>1
      <3>3. /\ r[j] > r[i] \/ (r[j] = r[i] /\ j < i)
            /\ r[k] > r[j] \/ (r[k] = r[j] /\ k < j)
        BY <2>3, <3>1, <3>2
      <3>4. PICK x, y, z : x = r[i] /\ y = r[j] /\ z = r[k]
        OBVIOUS
      <3>5. x \in Int /\ y \in Int /\ z \in Int /\ i \in Int /\ j \in Int /\ k \in Int
        BY <2>2, <3>1, <3>2, <3>4
      <3>6. k # i /\ (z > x \/ (z = x /\ k < i))
        BY <3>3, <3>4, <3>5, SMTT(60)
      <3> QED
        BY <2>3, <3>1, <3>2, <3>4, <3>6
    <2>8. e \in 0 .. n
      BY <1>13, <1>16
    <2> HIDE DEF earlier
    <2>9. Cardinality({i \in 1 .. n : Cardinality(E[i]) < e}) = e
      BY <2>4, <2>5, <2>6, <2>7, <2>8, PlacesAreDistinct
    <2> QED
      BY <2>1, <2>9
  <1> DEFINE W == {i \in S : Cardinality(earlier[i]) < e}
             c == largestRemainderSplit(t, b)
  <1>19. c = [i \in S |-> f[i] + (IF i \in W THEN 1 ELSE 0)]
    <2>1. Total(b) = B /\ t - Total(Floors(t, b)) = e
      BY <1>2, <1>4, <1>11, <1>15
    <2>2. c = [i \in S |-> f[i] + (IF Cardinality({j \in S \ {i} : Before(t, b, j, i)}) < e
                                   THEN 1 ELSE 0)]
      BY <1>4, <1>6, <2>1 DEF largestRemainderSplit
    <2> QED
      BY <2>2
  <1>20. ASSUME NEW i \in W PROVE i \in S /\ r[i] # 0
    <2>1. i \in S /\ Cardinality(earlier[i]) < e
      BY <1>20
    <2>2. SUFFICES ASSUME r[i] = 0 PROVE FALSE
      BY <2>1
    <2>3. P \in SUBSET earlier[i]
      <3>1. ASSUME NEW j \in P PROVE j \in S \ {i} /\ Before(t, b, j, i)
        <4>1. j \in S /\ r[j] # 0 /\ r[j] \in Nat
          BY <1>9, <3>1 DEF P
        <4> QED
          BY <1>17, <2>1, <2>2, <4>1
      <3> QED
        BY <2>1, <3>1
    <2>4. IsFiniteSet(earlier[i])
      <3>1. earlier[i] \in SUBSET S
        BY <2>1
      <3> HIDE DEF earlier
      <3> QED
        BY <1>1, <3>1, FS_Subset
    <2>5. Cardinality(P) <= Cardinality(earlier[i])
      BY <2>3, <2>4, FS_Subset
    <2> QED
      BY <1>13, <1>16, <2>1, <2>4, <2>5, FS_CardinalityType
  <1>21. Cardinality(W) = e
    BY <1>18
  <1>22. W \in SUBSET S
    OBVIOUS
  <1> HIDE DEF W, c, earlier
  <1>23. c \in [S -> Nat]
    BY <1>9, <1>19
  <1>24. Total(c) = t
    <2>1. \A i \in S : /\ c[i] \in Int /\ f[i] \in Int
                       /\ c[i] = f[i] + (IF i \in W THEN 1 ELSE 0)
      BY <1>9, <1>19, <1>23
    <2>2. c \in [S -> Int]
      BY <1>23
    <2>3. Total(c) = SumOver(c, S)
      BY <1>1, <2>2, TotalIs
    <2> HIDE DEF S
    <2>4. SumOver(c, S) = SumOver(f, S) + Cardinality(W)
      BY <1>1, <1>22, <2>1, SumsCount
    <2> QED
      BY <1>10, <1>11, <1>15, <1>21, <2>3, <2>4
  <1>25. ASSUME NEW i \in S
         PROVE  c[i] * B - t * b[i] < B /\ -(c[i] * B - t * b[i]) < B
    <2>1. PICK x, y, a : x = f[i] /\ y = r[i] /\ a = t * b[i]
      OBVIOUS
    <2>2. x \in Nat /\ y \in 0 .. (B - 1) /\ a = B * x + y /\ a \in Int
      BY <1>8, <2>1
    <2>3. CASE i \in W
      <3>1. c[i] = x + 1 /\ y # 0
        BY <1>19, <1>20, <2>1, <2>3
      <3>2. (x + 1) * B = B * x + B /\ B * x \in Int
        BY <1>3, <2>2
      <3>3. (x + 1) * B - a = B - y
        BY <1>3, <2>2, <3>2, SMTT(60)
      <3>4. c[i] * B - t * b[i] = B - y
        BY <2>1, <3>1, <3>3
      <3>5. PICK z : z = c[i] * B - t * b[i]
        OBVIOUS
      <3>6. z = B - y /\ y \in 0 .. (B - 1)
        BY <2>2, <3>4, <3>5
      <3>7. z < B /\ -z < B
        BY ONLY <1>3, <3>1, <3>6
      <3> QED
        BY <3>5, <3>7
    <2>4. CASE i \notin W
      <3>1. c[i] = x
        BY <1>9, <1>19, <2>1, <2>4
      <3>2. x * B - a = -y
        <4>1. x * B = B * x /\ B * x \in Int
          BY <1>3, <2>2
        <4> QED
          BY <2>2, <4>1
      <3>3. c[i] * B - t * b[i] = -y
        BY <2>1, <3>1, <3>2
      <3>4. PICK z : z = c[i] * B - t * b[i]
        OBVIOUS
      <3>5. z = -y /\ y \in 0 .. (B - 1)
        BY <2>2, <3>3, <3>4
      <3>6. z < B /\ -z < B
        BY ONLY <1>3, <3>5
      <3> QED
        BY <3>4, <3>6
    <2> QED
      BY <2>3, <2>4
  <1> QED
    BY <1>2, <1>23, <1>24, <1>25 DEF FairSplit, c

-----------------------------------------------------------------------------
(* What a purchase becomes (purchase-domain.ts, allocation.ts). *)

\* Rounding to the even neighbour stays within half a unit, and above zero.
LEMMA EvenRounding ==
    ASSUME NEW a \in Nat, NEW d \in Nat \ {0}
    PROVE  /\ HalfEven(a, d) \in Nat
           /\ 2 * (d * HalfEven(a, d)) <= 2 * a + d /\ 2 * a <= 2 * (d * HalfEven(a, d)) + d
  <1> DEFINE q == a \div d
             r == a % d
             h == HalfEven(a, d)
  <1>1. q \in Nat /\ r \in 0 .. (d - 1) /\ a = d * q + r
    BY DivisionLeaves
  <1>2. \/ h = q /\ 2 * r <= d
        \/ h = q + 1 /\ 2 * r >= d
    BY <1>1 DEF HalfEven
  <1> HIDE DEF q, r, h
  <1>3. d * (q + 1) = d * q + d /\ d * q \in Int
    BY <1>1
  <1>4. h \in Nat
    BY <1>1, <1>2
  <1>5. PICK x : x = d * h
    OBVIOUS
  <1>6. PICK y : y = d * q
    OBVIOUS
  <1>7. \/ x = y /\ 2 * r <= d
        \/ x = y + d /\ 2 * r >= d
    BY <1>2, <1>3, <1>5, <1>6
  <1>8. 2 * x <= 2 * a + d /\ 2 * a <= 2 * x + d
    <2>1. a = y + r /\ y \in Int /\ r \in 0 .. (d - 1) /\ d \in Nat
      BY <1>1, <1>3, <1>6
    <2> QED
      BY ONLY <1>7, <2>1
  <1>9. h \in Nat /\ 2 * (d * h) <= 2 * a + d /\ 2 * a <= 2 * (d * h) + d
    BY <1>4, <1>5, <1>8
  <1> QED
    BY <1>9 DEF h

\* Rounding never makes an item finer than it is heavy.
LEMMA FineIsWithin ==
    ASSUME FolioAssumption, NEW w \in Nat, NEW k \in 0 .. PurityScale
    PROVE  Fine(w, k) \in 0 .. w
  <1>1. PICK a : a = w * k
    OBVIOUS
  <1>2. PICK d : d = PurityScale
    OBVIOUS
  <1>3. d \in Nat \ {0} /\ k \in 0 .. d
    BY <1>2 DEF FolioAssumption
  <1>4. a \in Nat /\ a <= w * d
    BY <1>1, <1>3
  <1>5. PICK h : h = HalfEven(a, d)
    OBVIOUS
  <1>6. h \in Nat /\ 2 * (d * h) <= 2 * a + d
    BY <1>3, <1>4, <1>5, EvenRounding
  <1>7. h <= w
    <2>1. SUFFICES ASSUME h >= w + 1 PROVE FALSE
      BY <1>6
    <2>2. PICK x, y : x = d * h /\ y = w * d
      OBVIOUS
    <2>3. d * (w + 1) = y + d /\ y \in Int /\ x \in Int
      BY <1>3, <1>6, <2>2
    <2>4. d * h >= d * (w + 1)
      BY <1>3, <1>6, <2>1
    <2>5. x >= y + d /\ 2 * x <= 2 * a + d /\ a <= y
      BY <1>4, <1>6, <2>2, <2>3, <2>4
    <2> QED
      BY ONLY <1>3, <1>4, <2>3, <2>5
  <1> QED
    BY <1>1, <1>2, <1>5, <1>6, <1>7 DEF Fine

LEMMA ItemsAreRight ==
    ASSUME FolioAssumption, NEW p \in Offers, Acceptable(p)
    PROVE  /\ Len(p.lines) \in Nat \ {0} /\ DOMAIN p.lines = 1 .. Len(p.lines)
           /\ Items(p) \in [1 .. Len(p.lines) -> ItemRecords]
           /\ \A i \in 1 .. Len(p.lines) : /\ Items(p)[i].fine <= Items(p)[i].gross
                                           /\ Items(p)[i].subtotal = p.lines[i].subtotal
                                           /\ Items(p)[i].manual = p.lines[i].manual
           /\ \A i \in 1 .. Len(p.lines) : p.lines[i] \in Lines
  <1>1. p.lines \in Seq(Lines) /\ p.lines # <<>>
    BY DEF Offers, Acceptable
  <1>2. PICK n : n = Len(p.lines)
    OBVIOUS
  <1>3. n \in Nat \ {0} /\ DOMAIN p.lines = 1 .. n /\ p.lines \in [1 .. n -> Lines]
    <2>1. n \in Nat /\ DOMAIN p.lines = 1 .. n /\ p.lines \in [1 .. n -> Lines]
      BY <1>1, <1>2
    <2>2. n # 0
      BY <1>1, <1>2, EmptySeq
    <2> QED
      BY <2>1, <2>2
  <1>4. ASSUME NEW i \in 1 .. n
        PROVE  /\ Computed(p.lines[i]) \in ItemRecords
               /\ Computed(p.lines[i]).fine <= Computed(p.lines[i]).gross
               /\ Computed(p.lines[i]).subtotal = p.lines[i].subtotal
               /\ Computed(p.lines[i]).manual = p.lines[i].manual
    <2>1. PICK l : l = p.lines[i]
      OBVIOUS
    <2>2. l \in Lines
      BY <1>3, <2>1
    <2>3. PICK g : g = ToGrams(l.weight, l.unit)
      OBVIOUS
    <2>4. g \in Nat
      <3>1. /\ l.weight \in Nat /\ Num[l.unit] \in Nat \ {0} /\ Den[l.unit] \in Nat \ {0}
        BY <2>2 DEF Lines, FolioAssumption
      <3>2. PICK a : a = l.weight * Num[l.unit]
        OBVIOUS
      <3>3. a \in Nat
        BY <3>1, <3>2
      <3> QED
        BY <2>3, <3>1, <3>2, <3>3, EvenRounding DEF ToGrams
    <2>5. PICK w : w = g * l.quantity
      OBVIOUS
    <2>6. w \in Nat
      BY <2>2, <2>4, <2>5 DEF Lines
    <2>7. Fine(w, l.purity) \in 0 .. w
      BY <2>2, <2>6, FineIsWithin DEF Lines
    <2>8. Computed(l) = [metal |-> l.metal, quantity |-> l.quantity, gross |-> w,
                         fine |-> Fine(w, l.purity), subtotal |-> l.subtotal,
                         manual |-> l.manual]
      BY <2>3, <2>5 DEF Computed
    <2>9. Fine(w, l.purity) \in Nat /\ Fine(w, l.purity) <= w
      BY <2>6, <2>7
    <2>10. Computed(l) \in ItemRecords
      BY <2>2, <2>6, <2>8, <2>9 DEF Lines, ItemRecords
    <2> QED
      BY <2>1, <2>8, <2>9, <2>10
  <1>5. Items(p) = [i \in 1 .. n |-> Computed(p.lines[i])]
    BY <1>3 DEF Items
  <1> QED
    BY <1>2, <1>3, <1>4, <1>5

\* A basis to divide by is never all zero.
LEMMA BasisIsPositive ==
    ASSUME NEW n \in Nat \ {0}, NEW items \in [1 .. n -> ItemRecords], NEW method
    PROVE  BasisOf(method, items) \in [1 .. n -> Nat] /\ Total(BasisOf(method, items)) # 0
  <1> DEFINE S == 1 .. n
  <1>1. IsFiniteSet(S) /\ Cardinality(S) = n
    BY FS_Interval
  <1>2. DOMAIN items = S
    OBVIOUS
  <1>3. Equal(items) = [i \in S |-> 1]
    BY <1>2 DEF Equal
  <1>4. Total(Equal(items)) = n
    <2>1. PICK one : one = [i \in S |-> 1]
      OBVIOUS
    <2>2. PICK zero : zero = [i \in S |-> 0]
      OBVIOUS
    <2>3. SumOver(one, S) = SumOver(zero, S) + Cardinality(S)
      <3>1. \A i \in S : /\ one[i] \in Int /\ zero[i] \in Int
                         /\ one[i] = zero[i] + (IF i \in S THEN 1 ELSE 0)
        BY <2>1, <2>2
      <3> HIDE DEF S
      <3> QED
        BY <1>1, <3>1, SumsCount
    <2>4. SumOver(zero, S) = 0
      <3>1. \A i \in S : zero[i] \in 0 .. 0 /\ (i \notin {} => zero[i] = 0)
        BY <2>2
      <3>2. {} \in SUBSET S /\ 0 \in Nat
        OBVIOUS
      <3> HIDE DEF S
      <3>3. SumOver(zero, S) \in 0 .. (0 * Cardinality({}))
        BY <1>1, <3>1, <3>2, SumsBound
      <3> QED
        BY <3>3, FS_EmptySet
    <2>5. Total(one) = SumOver(one, S)
      <3>1. one \in [S -> Int]
        BY <2>1
      <3> HIDE DEF S
      <3> QED
        BY <1>1, <3>1, TotalIs
    <2> QED
      BY <1>1, <1>3, <2>1, <2>3, <2>4, <2>5
  <1> DEFINE basis == CASE method = "SUBTOTAL_PROPORTIONAL" -> [i \in DOMAIN items |-> items[i].subtotal]
                        [] method = "WEIGHT_PROPORTIONAL"   -> [i \in DOMAIN items |-> items[i].fine]
                        [] OTHER                            -> Equal(items)
  <1>5. basis \in [S -> Nat]
    <2>1. \A i \in S : items[i].subtotal \in Nat /\ items[i].fine \in Nat
      BY DEF ItemRecords
    <2>2. [i \in S |-> items[i].subtotal] \in [S -> Nat] /\ [i \in S |-> items[i].fine] \in [S -> Nat]
      BY <2>1
    <2>3. Equal(items) \in [S -> Nat]
      BY <1>3
    <2> QED
      BY <1>2, <2>2, <2>3
  <1>6. BasisOf(method, items) = IF Total(basis) = 0 THEN Equal(items) ELSE basis
    BY DEF BasisOf
  <1> HIDE DEF basis
  <1>7. CASE Total(basis) = 0
    BY <1>3, <1>4, <1>6, <1>7
  <1>8. CASE Total(basis) # 0
    BY <1>5, <1>6, <1>8
  <1> QED
    BY <1>7, <1>8

\* What CostsReachTheLots says of one purchase.
CostsAreRight(q) ==
    /\ Total([i \in DOMAIN q.items |-> q.items[i].cost]) = q.total
    /\ q.method # "MANUAL" =>
          LET items == [i \in DOMAIN q.items |-> q.items[i].item]
              basis == BasisOf(q.method, items)
              off(i) == q.items[i].cost * Total(basis) - q.total * basis[i]
          IN  \A i \in DOMAIN items : off(i) < Total(basis) /\ -off(i) < Total(basis)
    /\ \A i \in DOMAIN q.items : q.items[i].item.fine <= q.items[i].item.gross

LEMMA CostsAreAllocated ==
    ASSUME FolioAssumption, NEW p \in Offers, Acceptable(p)
    PROVE  computePurchase(p) \in PurchaseRecords /\ CostsAreRight(computePurchase(p))
  <1>1. PICK n : n = Len(p.lines)
    OBVIOUS
  <1>2. PICK items : items = Items(p)
    OBVIOUS
  <1>3. PICK t : t = totalAmount(p)
    OBVIOUS
  <1>4. /\ n \in Nat \ {0} /\ DOMAIN p.lines = 1 .. n /\ items \in [1 .. n -> ItemRecords]
        /\ \A i \in 1 .. n : /\ items[i].fine <= items[i].gross
                             /\ items[i].manual = p.lines[i].manual
        /\ \A i \in 1 .. n : p.lines[i] \in Lines
    BY <1>1, <1>2, ItemsAreRight
  <1>5. t \in Nat
    <2>1. PICK g : g = [i \in 1 .. n |-> p.lines[i].subtotal]
      OBVIOUS
    <2>2. g \in [1 .. n -> Int]
      BY <1>4, <2>1 DEF Lines
    <2>3. IsFiniteSet(1 .. n)
      BY <1>4, FS_Interval
    <2>4. Total(g) \in Int
      BY <2>2, <2>3, TotalIs
    <2>5. t = Total(g) + p.charges - p.discount
      BY <1>3, <1>4, <2>1 DEF totalAmount
    <2>6. t >= 0
      BY <1>3 DEF Acceptable
    <2> QED
      BY <2>4, <2>5, <2>6 DEF Offers
  <1> DEFINE costs == allocate(p.method, t, items)
             b == BasisOf(p.method, items)
  <1>6. /\ costs \in [1 .. n -> Nat] /\ Total(costs) = t
        /\ p.method # "MANUAL" => FairSplit(costs, t, b, n)
    <2>1. CASE p.method = "MANUAL"
      <3>1. costs = [i \in 1 .. n |-> items[i].manual]
        BY <1>4, <2>1 DEF allocate
      <3>2. costs = [i \in 1 .. n |-> p.lines[i].manual]
        BY <1>4, <3>1
      <3>3. costs \in [1 .. n -> Nat]
        BY <1>4, <3>2 DEF Lines
      <3>4. Total(costs) = t
        BY <1>3, <1>4, <2>1, <3>2 DEF Acceptable
      <3> QED
        BY <2>1, <3>3, <3>4
    <2>2. CASE p.method # "MANUAL"
      <3>1. costs = largestRemainderSplit(t, b)
        BY <2>2 DEF allocate
      <3>2. b \in [1 .. n -> Nat] /\ Total(b) # 0
        BY <1>4, BasisIsPositive
      <3> HIDE DEF b, costs
      <3>3. FairSplit(costs, t, b, n)
        BY <1>4, <1>5, <3>1, <3>2, SplitIsFair
      <3> QED
        BY <3>3 DEF FairSplit
    <2> QED
      BY <2>1, <2>2
  <1>7. PICK q : q = computePurchase(p)
    OBVIOUS
  <1>8. q = [currency |-> p.currency, total |-> t, method |-> p.method,
             items |-> [i \in 1 .. n |-> [item |-> items[i], cost |-> costs[i]]]]
    <2>1. DOMAIN items = 1 .. n
      BY <1>4
    <2> QED
      BY <1>2, <1>3, <1>7, <2>1 DEF computePurchase
  <1> HIDE DEF costs
  <1>9. q.items \in Seq([item : ItemRecords, cost : Nat])
    <2>1. \A i \in 1 .. n : [item |-> items[i], cost |-> costs[i]] \in [item : ItemRecords, cost : Nat]
      BY <1>4, <1>6
    <2>2. q.items \in [1 .. n -> [item : ItemRecords, cost : Nat]]
      BY <1>8, <2>1
    <2> QED
      BY <1>4, <2>2, SeqDef, ZenonT(60)
  <1>10. q \in PurchaseRecords
    BY <1>5, <1>8, <1>9 DEF PurchaseRecords, Offers
  <1>11. /\ DOMAIN q.items = 1 .. n /\ q.total = t /\ q.method = p.method
         /\ \A i \in 1 .. n : q.items[i].item = items[i] /\ q.items[i].cost = costs[i]
    BY <1>8
  <1>12. [i \in DOMAIN q.items |-> q.items[i].cost] = costs
    BY <1>6, <1>11
  <1>13. [i \in DOMAIN q.items |-> q.items[i].item] = items
    BY <1>4, <1>11
  <1>14. CostsAreRight(q)
    <2>1. Total([i \in DOMAIN q.items |-> q.items[i].cost]) = q.total
      BY <1>6, <1>11, <1>12
    <2>2. \A i \in DOMAIN q.items : q.items[i].item.fine <= q.items[i].item.gross
      BY <1>4, <1>11
    <2>3. ASSUME q.method # "MANUAL", NEW i \in 1 .. n
          PROVE  /\ q.items[i].cost * Total(b) - q.total * b[i] < Total(b)
                 /\ -(q.items[i].cost * Total(b) - q.total * b[i]) < Total(b)
      <3> HIDE DEF b
      <3>1. FairSplit(costs, t, b, n)
        BY <1>6, <1>11, <2>3
      <3> QED
        BY <1>11, <3>1 DEF FairSplit
    <2>4. /\ BasisOf(q.method, [i \in DOMAIN q.items |-> q.items[i].item]) = b
          /\ DOMAIN [i \in DOMAIN q.items |-> q.items[i].item] = 1 .. n
      BY <1>11, <1>13
    <2> HIDE DEF b
    <2> QED
      BY <2>1, <2>2, <2>3, <2>4 DEF CostsAreRight
  <1> QED
    BY <1>7, <1>10, <1>14

-----------------------------------------------------------------------------
(* Purchases are only ever added, so what is shown of one when it is booked   *)
(* stays true of it.                                                          *)

FolioIInv ==
    /\ FolioTypeOK /\ inputs \subseteq Offers
    /\ \A n \in DOMAIN purchases : CostsAreRight(purchases[n])

LEMMA FolioBegins == ASSUME FolioAssumption, FolioInit PROVE FolioIInv
  <1>1. purchases = <<>> /\ lots = {} /\ snapshots = {}
    BY DEF FolioInit
  <1>2. inputs \subseteq Offers
    BY DEF FolioInit, FolioAssumption
  <1>3. DOMAIN prices = Codes /\ chartIn = Display
    BY DEF FolioInit
  <1>4. purchases \in Seq(PurchaseRecords) /\ DOMAIN purchases = {}
    BY <1>1
  <1> QED
    BY <1>1, <1>2, <1>3, <1>4 DEF FolioIInv, FolioTypeOK

LEMMA BuyKeeps == ASSUME FolioAssumption, FolioIInv, Buy PROVE FolioIInv'
  <1>1. PICK p \in inputs :
          /\ Acceptable(p)
          /\ purchases' = Append(purchases, computePurchase(p))
          /\ lots' = lots \cup LotsBought(Len(purchases) + 1, computePurchase(p))
    BY DEF Buy
  <1>2. UNCHANGED <<inputs, snapshots, prices, chartIn>>
    BY DEF Buy
  <1>3. PICK q : q = computePurchase(p)
    OBVIOUS
  <1>4. q \in PurchaseRecords /\ CostsAreRight(q)
    BY <1>1, <1>3, CostsAreAllocated DEF FolioIInv
  <1>5. PICK k : k = Len(purchases)
    OBVIOUS
  <1>6. /\ purchases \in Seq(PurchaseRecords) /\ k \in Nat /\ DOMAIN purchases = 1 .. k
        /\ purchases' = Append(purchases, q)
    BY <1>1, <1>3, <1>5 DEF FolioIInv, FolioTypeOK
  <1>7. /\ purchases' \in Seq(PurchaseRecords) /\ DOMAIN purchases' = 1 .. (k + 1)
        /\ purchases'[k + 1] = q /\ \A n \in 1 .. k : purchases'[n] = purchases[n]
    BY <1>4, <1>5, <1>6
  <1>8. \A n \in DOMAIN purchases' : CostsAreRight(purchases'[n])
    <2>1. ASSUME NEW n \in 1 .. (k + 1) PROVE CostsAreRight(purchases'[n])
      <3>1. CASE n = k + 1
        BY <1>4, <1>7, <3>1
      <3>2. CASE n # k + 1
        <4>1. n \in 1 .. k
          BY <1>6, <3>2
        <4>2. purchases'[n] = purchases[n]
          BY <1>7, <4>1
        <4>3. CostsAreRight(purchases[n])
          BY <1>6, <4>1 DEF FolioIInv
        <4> QED
          BY <4>2, <4>3
      <3> QED
        BY <3>1, <3>2
    <2> QED
      BY <1>7, <2>1
  <1>9. LotsBought(k + 1, q) \subseteq LotRecords
    <2>1. ASSUME NEW i \in DOMAIN q.items
          PROVE  [id |-> <<k + 1, i>>, metal |-> q.items[i].item.metal, currency |-> q.currency,
                  quantity |-> q.items[i].item.quantity, fine |-> q.items[i].item.fine,
                  cost |-> q.items[i].cost, status |-> "HELD", pnl |-> NoFigure] \in LotRecords
      <3>1. q.items \in Seq([item : ItemRecords, cost : Nat]) /\ q.currency \in STRING
        BY <1>4 DEF PurchaseRecords
      <3>2. i \in Nat /\ q.items[i] \in [item : ItemRecords, cost : Nat]
        <4>1. PICK z, R : z = q.items /\ R = [item : ItemRecords, cost : Nat]
          OBVIOUS
        <4>2. z \in Seq(R) /\ i \in DOMAIN z
          BY <3>1, <4>1
        <4>3. i \in Nat /\ z[i] \in R
          BY <4>2
        <4> QED
          BY <4>1, <4>3
      <3>3. /\ q.items[i].item.metal \in Codes /\ q.items[i].item.quantity \in Nat \ {0}
            /\ q.items[i].item.fine \in Nat /\ q.items[i].cost \in Nat
        BY <3>2 DEF ItemRecords
      <3>4. <<k + 1, i>> \in Nat \X Nat
        BY <1>6, <3>2
      <3> QED
        BY <3>1, <3>3, <3>4 DEF LotRecords
    <2> QED
      BY <2>1 DEF LotsBought
  <1>10. lots' \subseteq LotRecords
    BY <1>1, <1>3, <1>5, <1>9 DEF FolioIInv, FolioTypeOK
  <1>11. ASSUME NEW s \in snapshots'
         PROVE  /\ s.purchase \in DOMAIN purchases' /\ s.premium \in Int
                /\ s.metal \in MetalsOf(s.purchase)'
    <2>1. /\ s.purchase \in 1 .. k /\ s.premium \in Int /\ s.metal \in MetalsOf(s.purchase)
      BY <1>2, <1>6 DEF FolioIInv, FolioTypeOK
    <2>2. s.purchase \in 1 .. (k + 1) /\ purchases'[s.purchase] = purchases[s.purchase]
      BY <1>6, <1>7, <2>1
    <2> QED
      BY <1>7, <2>1, <2>2 DEF MetalsOf
  <1> QED
    BY <1>2, <1>7, <1>8, <1>10, <1>11 DEF FolioIInv, FolioTypeOK

LEMMA SellKeeps == ASSUME FolioIInv, FolioAssumption, Sell PROVE FolioIInv'
  <1>1. PICK l \in lots, proceeds \in Prices :
          lots' = (lots \ {l}) \cup {[l EXCEPT !.status = "SOLD", !.pnl = proceeds - l.cost]}
    BY DEF Sell
  <1>2. UNCHANGED <<inputs, purchases, snapshots, prices, chartIn>>
    BY DEF Sell
  <1>3. l \in LotRecords /\ proceeds \in Nat
    BY DEF FolioIInv, FolioTypeOK, FolioAssumption
  <1>4. proceeds - l.cost \in Int
    BY <1>3 DEF LotRecords
  <1>5. [l EXCEPT !.status = "SOLD", !.pnl = proceeds - l.cost] \in LotRecords
    BY <1>3, <1>4 DEF LotRecords
  <1>6. lots' \subseteq LotRecords
    BY <1>1, <1>5 DEF FolioIInv, FolioTypeOK
  <1> QED
    BY <1>2, <1>6 DEF FolioIInv, FolioTypeOK, MetalsOf

\* The figures of a purchase's metal.
LEMMA MetalHasFigures ==
    ASSUME FolioTypeOK, NEW n \in DOMAIN purchases, NEW m
    PROVE  CostOf(n, m) \in Nat /\ FineOf(n, m) \in Nat
  <1>1. PICK q, R : q = purchases[n] /\ R = [item : ItemRecords, cost : Nat]
    OBVIOUS
  <1>2. q \in PurchaseRecords
    BY <1>1 DEF FolioTypeOK
  <1>3. PICK I, z : I = ItemsOf(n, m) /\ z = q.items
    OBVIOUS
  <1>4. z \in Seq(R)
    BY <1>1, <1>2, <1>3 DEF PurchaseRecords
  <1>5. I \in SUBSET (1 .. Len(z)) /\ Len(z) \in Nat
    BY <1>1, <1>3, <1>4 DEF ItemsOf
  <1>6. IsFiniteSet(I)
    <2>1. IsFiniteSet(1 .. Len(z))
      BY <1>5, FS_Interval
    <2> QED
      BY <1>5, <2>1, FS_Subset
  <1>7. ASSUME NEW i \in I PROVE z[i].cost \in Nat /\ z[i].item.fine \in Nat
    <2>1. PICK v : v = z[i]
      OBVIOUS
    <2>2. v \in R
      BY <1>4, <1>5, <2>1
    <2>3. v.cost \in Nat /\ v.item.fine \in Nat
      BY <1>1, <2>2 DEF ItemRecords
    <2> QED
      BY <2>1, <2>3
  <1>8. PICK c, f : c = [i \in I |-> z[i].cost] /\ f = [i \in I |-> z[i].item.fine]
    OBVIOUS
  <1>9. /\ c \in [I -> Int] /\ f \in [I -> Int]
        /\ \A i \in I : c[i] \in Nat /\ f[i] \in Nat
    BY <1>7, <1>8
  <1>10. Total(c) \in Nat /\ Total(f) \in Nat
    BY <1>6, <1>9, TotalIs, SumIsNatural
  <1> QED
    BY <1>1, <1>3, <1>8, <1>10 DEF CostOf, FineOf

LEMMA CaptureKeeps == ASSUME FolioIInv, FolioAssumption, Capture PROVE FolioIInv'
  <1>1. PICK n, price, m :
          /\ n \in DOMAIN purchases /\ price \in Prices /\ m \in MetalsOf(n)
          /\ snapshots' = snapshots \cup
             {[purchase |-> n, metal |-> m, price |-> price,
               premium |-> CostOf(n, m) - intrinsicValue(FineOf(n, m), price)]}
    BY DEF Capture
  <1>2. UNCHANGED <<inputs, purchases, lots, prices, chartIn>>
    BY DEF Capture
  <1>3. CostOf(n, m) \in Nat /\ FineOf(n, m) \in Nat
    BY <1>1, MetalHasFigures DEF FolioIInv
  <1>4. intrinsicValue(FineOf(n, m), price) \in Int
    <2>1. PICK w, a : w = FineOf(n, m) /\ a = w * price
      OBVIOUS
    <2>2. a \in Nat /\ PriceScale \in Nat \ {0}
      BY <1>1, <1>3, <2>1 DEF FolioAssumption
    <2> QED
      BY <2>1, <2>2, EvenRounding DEF intrinsicValue
  <1>5. PICK x : x = CostOf(n, m) - intrinsicValue(FineOf(n, m), price)
    OBVIOUS
  <1>6. x \in Int
    BY <1>3, <1>4, <1>5
  <1>7. ASSUME NEW s \in snapshots'
        PROVE  /\ s.purchase \in DOMAIN purchases /\ s.premium \in Int
               /\ s.metal \in MetalsOf(s.purchase)
    <2>1. CASE s \in snapshots
      BY <2>1 DEF FolioIInv, FolioTypeOK
    <2>2. CASE s = [purchase |-> n, metal |-> m, price |-> price, premium |-> x]
      BY <1>1, <1>6, <2>2
    <2> QED
      BY <1>1, <1>5, <2>1, <2>2
  <1> QED
    BY <1>2, <1>7 DEF FolioIInv, FolioTypeOK, MetalsOf

LEMMA FolioStepKeeps ==
    ASSUME FolioAssumption, FolioIInv, [FolioNext]_folioVars PROVE FolioIInv'
  <1>1. CASE Buy
    BY <1>1, BuyKeeps
  <1>2. CASE Sell
    BY <1>2, SellKeeps
  <1>3. CASE Capture
    BY <1>3, CaptureKeeps
  <1>4. CASE Quote
    <2>1. UNCHANGED <<inputs, purchases, lots, snapshots, chartIn>> /\ DOMAIN prices' = DOMAIN prices
      BY <1>4 DEF Quote
    <2> QED
      BY <2>1 DEF FolioIInv, FolioTypeOK, MetalsOf
  <1>5. ASSUME UNCHANGED <<inputs, purchases, lots, snapshots, prices>>,
               chartIn' \in {chartIn, "USD", Display}
        PROVE  FolioIInv'
    BY <1>5 DEF FolioIInv, FolioTypeOK, MetalsOf
  <1>6. CASE Ask \/ (\E part \in Parts : Read(part)) \/ PricesFail \/ Answer \/ ChooseCurrency
    BY <1>5, <1>6 DEF Ask, Read, PricesFail, Answer, ChooseCurrency
  <1>7. CASE UNCHANGED folioVars
    BY <1>5, <1>7 DEF folioVars
  <1> QED
    BY <1>1, <1>2, <1>3, <1>4, <1>6, <1>7 DEF FolioNext

\* What was paid reaches the lots to the last digit and fairly, whatever the method, and no item
\* is finer than it is heavy (allocation.ts, purchase-domain.ts).
THEOREM CostsAreDivided == FolioSpec => []CostsReachTheLots
  <1>1. FolioInit => FolioIInv
    BY FolioAssumption, FolioBegins
  <1>2. FolioIInv /\ [FolioNext]_folioVars => FolioIInv'
    BY FolioAssumption, FolioStepKeeps
  <1>3. FolioIInv => CostsReachTheLots
    <2>1. SUFFICES ASSUME FolioIInv PROVE CostsReachTheLots
      OBVIOUS
    <2>2. ASSUME NEW n \in DOMAIN purchases PROVE CostsAreRight(purchases[n])
      BY <2>1 DEF FolioIInv
    <2>3. CostsAddUp
      BY <2>2 DEF CostsAreRight, CostsAddUp
    <2>4. SharesAreFair
      BY <2>2 DEF CostsAreRight, SharesAreFair
    <2>5. FineWithinGross
      BY <2>2 DEF CostsAreRight, FineWithinGross
    <2> QED
      BY <2>1, <2>3, <2>4, <2>5 DEF FolioIInv, CostsReachTheLots
  <1> QED
    BY <1>1, <1>2, <1>3, PTL DEF FolioSpec
-----------------------------------------------------------------------------
(* The figures made from the lots.  Metals and currencies divide them into     *)
(* parts, and a sum is the sum of its parts.                                   *)

LEMMA FieldsAddUp ==
    ASSUME NEW S \in SUBSET LotRecords, IsFiniteSet(S), NEW W \in SUBSET S,
           NEW field \in {"fine", "cost", "quantity"}, NEW f, \A l \in S : f[l] = l[field]
    PROVE  /\ SumOf(W, field) = SumOver(f, W) /\ SumOf(W, field) \in Nat
           /\ \A l \in S : f[l] \in Nat
  <1>1. \A l \in S : f[l] \in Nat
    BY DEF LotRecords
  <1>2. PICK g : g = [l \in W |-> l[field]]
    OBVIOUS
  <1>3. IsFiniteSet(W) /\ \A l \in W : f[l] = g[l] /\ g[l] \in Int /\ f[l] \in Nat
    BY <1>1, <1>2, FS_Subset
  <1>4. g \in [W -> Int]
    BY <1>2, <1>3
  <1>5. SumOf(W, field) = SumOver(g, W)
    BY <1>2, <1>3, <1>4, TotalIs DEF SumOf
  <1>6. SumOver(f, W) = SumOver(g, W) /\ SumOver(f, W) \in Nat
    BY <1>3, SumsSame, SumIsNatural
  <1> QED
    BY <1>1, <1>5, <1>6

OfMetal(S, m) == {l \in S : l.metal = m}
MetalsIn(S) == {l.metal : l \in S}

LEMMA MetalsDivide ==
    ASSUME NEW S \in SUBSET LotRecords, IsFiniteSet(S),
           NEW f, \A l \in S : f[l] \in Int,
           NEW g, \A m \in MetalsIn(S) : g[m] = SumOver(f, OfMetal(S, m))
    PROVE  /\ IsFiniteSet(MetalsIn(S)) /\ \A m \in MetalsIn(S) : g[m] \in Int
           /\ SumOver(g, MetalsIn(S)) = SumOver(f, S)
  <1>1. PICK key : key = [l \in S |-> l.metal]
    OBVIOUS
  <1>2. Keys(key, S) = MetalsIn(S)
    BY <1>1 DEF Keys, MetalsIn
  <1>3. \A m : Part(key, S, m) = OfMetal(S, m)
    BY <1>1 DEF Part, OfMetal
  <1>4. \A k \in Keys(key, S) : g[k] = SumOver(f, Part(key, S, k))
    BY <1>2, <1>3
  <1> QED
    BY <1>2, <1>4, SumByParts

LEMMA FieldsByMetal ==
    ASSUME NEW S \in SUBSET LotRecords, IsFiniteSet(S),
           NEW field \in {"fine", "cost", "quantity"},
           NEW g, g = [m \in MetalsIn(S) |-> SumOf(OfMetal(S, m), field)]
    PROVE  /\ Total(g) = SumOf(S, field) /\ IsFiniteSet(MetalsIn(S))
           /\ \A m \in MetalsIn(S) : g[m] \in Nat
  <1>1. PICK f : f = [l \in S |-> l[field]]
    OBVIOUS
  <1>2. \A l \in S : f[l] = l[field]
    BY <1>1
  <1>3. \A m : OfMetal(S, m) \in SUBSET S
    BY DEF OfMetal
  <1>4. ASSUME NEW m \in MetalsIn(S) PROVE g[m] = SumOver(f, OfMetal(S, m)) /\ g[m] \in Nat
    <2>1. PICK W : W = OfMetal(S, m)
      OBVIOUS
    <2>2. W \in SUBSET S
      BY <1>3, <2>1
    <2>3. SumOf(W, field) = SumOver(f, W) /\ SumOf(W, field) \in Nat
      BY <1>2, <2>2, FieldsAddUp
    <2> QED
      BY <2>1, <2>3
  <1>5. SumOf(S, field) = SumOver(f, S) /\ \A l \in S : f[l] \in Int
    <2>1. S \in SUBSET S
      OBVIOUS
    <2> QED
      BY <1>2, <2>1, FieldsAddUp
  <1>6. IsFiniteSet(MetalsIn(S)) /\ SumOver(g, MetalsIn(S)) = SumOver(f, S)
    BY <1>4, <1>5, MetalsDivide
  <1>7. g \in [MetalsIn(S) -> Int]
    BY <1>4
  <1>8. Total(g) = SumOver(g, MetalsIn(S))
    BY <1>6, <1>7, TotalIs
  <1> QED
    BY <1>4, <1>5, <1>6, <1>8

LEMMA CountsByMetal ==
    ASSUME NEW S \in SUBSET LotRecords, IsFiniteSet(S),
           NEW g, g = [m \in MetalsIn(S) |-> Cardinality(OfMetal(S, m))]
    PROVE  Total(g) = Cardinality(S)
  <1>1. PICK f : f = [l \in S |-> 1]
    OBVIOUS
  <1>2. ASSUME NEW W \in SUBSET S PROVE SumOver(f, W) = Cardinality(W) /\ Cardinality(W) \in Int
    <2>1. IsFiniteSet(W) /\ \A l \in W : f[l] = 1
      BY <1>1, FS_Subset
    <2>2. SumOver(f, W) = 1 * Cardinality(W)
      BY <2>1, SumOfConstant
    <2> QED
      BY <2>1, <2>2, FS_CardinalityType
  <1>3. \A m : OfMetal(S, m) \in SUBSET S
    BY DEF OfMetal
  <1>4. \A m \in MetalsIn(S) : g[m] = SumOver(f, OfMetal(S, m)) /\ g[m] \in Int
    BY <1>2, <1>3
  <1>5. \A l \in S : f[l] \in Int
    BY <1>1
  <1>6. IsFiniteSet(MetalsIn(S)) /\ SumOver(g, MetalsIn(S)) = SumOver(f, S)
    BY <1>4, <1>5, MetalsDivide
  <1>7. g \in [MetalsIn(S) -> Int]
    BY <1>4
  <1>8. Total(g) = SumOver(g, MetalsIn(S))
    BY <1>6, <1>7, TotalIs
  <1>9. S \in SUBSET S
    OBVIOUS
  <1> QED
    BY <1>2, <1>6, <1>8, <1>9

\* Costs added up by metal, and again by currency.
LEMMA CostsByMetal ==
    ASSUME NEW S \in SUBSET LotRecords, IsFiniteSet(S), NEW byMetal,
           byMetal = [m \in MetalsIn(S) |-> MetalSummary(S, m)]
    PROVE  aggregateCosts(byMetal) = costByCurrency(S)
  <1>1. ASSUME NEW m \in MetalsIn(S)
        PROVE  /\ DOMAIN byMetal[m].cost = CurrenciesIn(OfMetal(S, m))
               /\ \A c \in CurrenciesIn(OfMetal(S, m)) :
                     byMetal[m].cost[c] = SumOf({l \in OfMetal(S, m) : l.currency = c}, "cost")
    BY DEF MetalSummary, OfMetal, costByCurrency
  <1>2. UNION {DOMAIN byMetal[m].cost : m \in DOMAIN byMetal} = CurrenciesIn(S)
    <2>1. DOMAIN byMetal = MetalsIn(S)
      OBVIOUS
    <2>2. ASSUME NEW c \in CurrenciesIn(S)
          PROVE  \E m \in MetalsIn(S) : c \in DOMAIN byMetal[m].cost
      <3>1. PICK l \in S : l.currency = c
        BY DEF CurrenciesIn
      <3>2. l.metal \in MetalsIn(S) /\ c \in CurrenciesIn(OfMetal(S, l.metal))
        BY <3>1 DEF MetalsIn, OfMetal, CurrenciesIn
      <3> QED
        BY <1>1, <3>2
    <2>3. ASSUME NEW m \in MetalsIn(S) PROVE DOMAIN byMetal[m].cost \subseteq CurrenciesIn(S)
      <3>1. CurrenciesIn(OfMetal(S, m)) \subseteq CurrenciesIn(S)
        BY DEF OfMetal, CurrenciesIn
      <3> QED
        BY <1>1, <3>1
    <2> QED
      BY <2>1, <2>2, <2>3
  <1>3. ASSUME NEW c \in CurrenciesIn(S)
        PROVE  Total([m \in {k \in DOMAIN byMetal : c \in DOMAIN byMetal[k].cost} |->
                         byMetal[m].cost[c]])
               = SumOf({l \in S : l.currency = c}, "cost")
    <2>1. PICK W : W = {l \in S : l.currency = c}
      OBVIOUS
    <2>2. W \in SUBSET LotRecords /\ IsFiniteSet(W)
      BY <2>1, FS_Subset
    <2>3. PICK g : g = [m \in MetalsIn(W) |-> SumOf(OfMetal(W, m), "cost")]
      OBVIOUS
    <2>4. Total(g) = SumOf(W, "cost")
      BY <2>2, <2>3, FieldsByMetal
    <2>5. {k \in DOMAIN byMetal : c \in DOMAIN byMetal[k].cost} = MetalsIn(W)
      <3>1. DOMAIN byMetal = MetalsIn(S)
        OBVIOUS
      <3>2. \A k \in MetalsIn(S) : c \in CurrenciesIn(OfMetal(S, k)) <=> k \in MetalsIn(W)
        BY <2>1 DEF MetalsIn, OfMetal, CurrenciesIn
      <3>3. MetalsIn(W) \subseteq MetalsIn(S)
        BY <2>1 DEF MetalsIn
      <3> QED
        BY <1>1, <3>1, <3>2, <3>3
    <2>6. ASSUME NEW m \in MetalsIn(W) PROVE byMetal[m].cost[c] = g[m]
      <3>1. m \in MetalsIn(S) /\ c \in CurrenciesIn(OfMetal(S, m))
        BY <2>1 DEF MetalsIn, OfMetal, CurrenciesIn
      <3>2. {l \in OfMetal(S, m) : l.currency = c} = OfMetal(W, m)
        BY <2>1 DEF OfMetal
      <3> QED
        BY <1>1, <2>3, <3>1, <3>2
    <2>7. [m \in {k \in DOMAIN byMetal : c \in DOMAIN byMetal[k].cost} |-> byMetal[m].cost[c]] = g
      BY <2>3, <2>5, <2>6
    <2> QED
      BY <2>1, <2>4, <2>7
  <1> QED
    BY <1>2, <1>3 DEF aggregateCosts, costByCurrency

LEMMA WholeIsParts ==
    ASSUME NEW S \in SUBSET LotRecords, IsFiniteSet(S), NEW base, base = summarizeHeldAssets(S)
    PROVE  /\ DOMAIN base.byMetal = MetalsIn(S)
           /\ \A m \in MetalsIn(S) : base.byMetal[m] = MetalSummary(S, m)
           /\ Total([m \in MetalsIn(S) |-> base.byMetal[m]["lots"]]) = base.lots
           /\ Total([m \in MetalsIn(S) |-> base.byMetal[m]["units"]]) = base.units
           /\ Total([m \in MetalsIn(S) |-> base.byMetal[m]["fine"]]) = SumOf(S, "fine")
           /\ aggregateCosts(base.byMetal) = base.cost /\ base.cost = costByCurrency(S)
  <1>1. PICK byMetal : byMetal = [m \in MetalsIn(S) |-> MetalSummary(S, m)]
    OBVIOUS
  <1>2. /\ base.byMetal = byMetal /\ base.cost = costByCurrency(S)
        /\ base.lots = Cardinality(S) /\ base.units = SumOf(S, "quantity")
    BY <1>1 DEF summarizeHeldAssets, MetalsIn
  <1>3. DOMAIN byMetal = MetalsIn(S)
    BY <1>1
  <1>4. ASSUME NEW m \in MetalsIn(S)
        PROVE  /\ byMetal[m] = MetalSummary(S, m)
               /\ byMetal[m]["lots"] = Cardinality(OfMetal(S, m))
               /\ byMetal[m]["units"] = SumOf(OfMetal(S, m), "quantity")
               /\ byMetal[m]["fine"] = SumOf(OfMetal(S, m), "fine")
    BY <1>1 DEF MetalSummary, OfMetal
  <1>5. Total([m \in MetalsIn(S) |-> byMetal[m]["lots"]]) = Cardinality(S)
    <2>1. [m \in MetalsIn(S) |-> byMetal[m]["lots"]]
             = [m \in MetalsIn(S) |-> Cardinality(OfMetal(S, m))]
      BY <1>4
    <2> QED
      BY <2>1, CountsByMetal
  <1>6. Total([m \in MetalsIn(S) |-> byMetal[m]["units"]]) = SumOf(S, "quantity")
    <2>1. [m \in MetalsIn(S) |-> byMetal[m]["units"]]
             = [m \in MetalsIn(S) |-> SumOf(OfMetal(S, m), "quantity")]
      BY <1>4
    <2> QED
      BY <2>1, FieldsByMetal
  <1>7. Total([m \in MetalsIn(S) |-> byMetal[m]["fine"]]) = SumOf(S, "fine")
    <2>1. [m \in MetalsIn(S) |-> byMetal[m]["fine"]]
             = [m \in MetalsIn(S) |-> SumOf(OfMetal(S, m), "fine")]
      BY <1>4
    <2> QED
      BY <2>1, FieldsByMetal
  <1>8. aggregateCosts(byMetal) = costByCurrency(S)
    BY <1>1, CostsByMetal
  <1> QED
    BY <1>2, <1>3, <1>4, <1>5, <1>6, <1>7, <1>8

\* Each metal's value is rounded once.
LEMMA ValueIsNear ==
    ASSUME FolioAssumption, NEW S \in SUBSET LotRecords, IsFiniteSet(S),
           NEW quoted, \A m \in MetalsIn(S) : quoted[m] \in Nat,
           NEW h, h = [m \in MetalsIn(S) |->
                          intrinsicValue(SumOf(OfMetal(S, m), "fine"), quoted[m])],
           NEW e, e = [l \in S |-> l.fine * quoted[l.metal]]
    PROVE  /\ Total(h) \in Int /\ Total(e) \in Int
           /\ 2 * (Total(h) * PriceScale - Total(e)) <= Cardinality(MetalsIn(S)) * PriceScale
           /\ 2 * (Total(e) - Total(h) * PriceScale) <= Cardinality(MetalsIn(S)) * PriceScale
  <1>1. PICK d, M : d = PriceScale /\ M = MetalsIn(S)
    OBVIOUS
  <1>2. d \in Nat \ {0} /\ IsFiniteSet(M) /\ Cardinality(M) \in Nat
    <2>1. PICK g : g = [m \in MetalsIn(S) |-> SumOf(OfMetal(S, m), "fine")]
      OBVIOUS
    <2>2. IsFiniteSet(MetalsIn(S))
      BY <2>1, FieldsByMetal
    <2> QED
      BY <1>1, <2>2, FS_CardinalityType DEF FolioAssumption
  <1>3. PICK f : f = [l \in S |-> l.fine]
    OBVIOUS
  <1>4. PICK x : x = [m \in M |-> quoted[m] * SumOf(OfMetal(S, m), "fine")]
    OBVIOUS
  <1>5. ASSUME NEW l \in S
        PROVE  f[l] \in Nat /\ quoted[l.metal] \in Nat /\ e[l] = f[l] * quoted[l.metal] /\ e[l] \in Nat
    <2>1. l.fine \in Nat
      BY DEF LotRecords
    <2>2. quoted[l.metal] \in Nat
      BY DEF MetalsIn
    <2>3. PICK a, b : a = l.fine /\ b = quoted[l.metal]
      OBVIOUS
    <2>4. a * b \in Nat
      BY <2>1, <2>2, <2>3
    <2> QED
      BY <1>3, <2>1, <2>2, <2>3, <2>4
  <1>6. ASSUME NEW m \in M
        PROVE  x[m] = SumOver(e, OfMetal(S, m)) /\ x[m] \in Nat /\ SumOf(OfMetal(S, m), "fine") \in Nat
    <2>1. PICK W : W = OfMetal(S, m)
      OBVIOUS
    <2>2. W \in SUBSET S /\ IsFiniteSet(W) /\ \A l \in W : l.metal = m
      BY <2>1, FS_Subset DEF OfMetal
    <2>3. SumOf(W, "fine") = SumOver(f, W) /\ SumOf(W, "fine") \in Nat
      <3>1. \A l \in S : f[l] = l["fine"]
        BY <1>3
      <3> QED
        BY <2>2, <3>1, FieldsAddUp
    <2>4. PICK q : q = quoted[m]
      OBVIOUS
    <2>5. q \in Nat /\ q \in Int
      BY <1>1, <2>4
    <2>6. \A l \in W : e[l] = q * f[l] /\ f[l] \in Int
      <3>1. SUFFICES ASSUME NEW l \in W PROVE e[l] = q * f[l] /\ f[l] \in Int
        OBVIOUS
      <3>2. e[l] = f[l] * q /\ f[l] \in Nat
        BY <1>5, <2>2, <2>4
      <3> QED
        BY <2>5, <3>2
    <2>7. SumOver(e, W) = q * SumOver(f, W)
      BY ONLY <2>2, <2>5, <2>6, SumScales, SMTT(60)
    <2>8. PICK s : s = SumOver(f, W)
      OBVIOUS
    <2>9. s \in Nat /\ q * s \in Nat
      BY <2>3, <2>5, <2>8
    <2>10. x[m] = q * s
      BY <1>4, <2>1, <2>3, <2>4, <2>8
    <2> QED
      BY <2>1, <2>3, <2>7, <2>8, <2>9, <2>10
  <1>7. ASSUME NEW m \in M
        PROVE  /\ h[m] \in Nat
               /\ 2 * (d * h[m]) <= 2 * x[m] + d /\ 2 * x[m] <= 2 * (d * h[m]) + d
    <2>1. PICK w, q, a : w = SumOf(OfMetal(S, m), "fine") /\ q = quoted[m] /\ a = w * q
      OBVIOUS
    <2>2. w \in Nat /\ q \in Nat /\ a \in Nat /\ q * w = a
      <3>1. w \in Nat
        BY <1>6, <2>1
      <3>2. q \in Nat
        BY <1>1, <2>1
      <3>3. a = w * q
        BY <2>1
      <3> QED
        BY ONLY <3>1, <3>2, <3>3
    <2>3. x[m] = a /\ h[m] = HalfEven(a, d)
      BY <1>1, <1>4, <2>1, <2>2 DEF intrinsicValue
    <2>4. /\ HalfEven(a, d) \in Nat
          /\ 2 * (d * HalfEven(a, d)) <= 2 * a + d /\ 2 * a <= 2 * (d * HalfEven(a, d)) + d
      BY <1>2, <2>2, EvenRounding
    <2> QED
      BY <2>3, <2>4
  <1>8. PICK H, X, E : H = SumOver(h, M) /\ X = SumOver(x, M) /\ E = SumOver(e, S)
    OBVIOUS
  <1>9. X = E
    <2>1. \A m \in MetalsIn(S) : x[m] = SumOver(e, OfMetal(S, m))
      BY <1>1, <1>6
    <2>2. \A l \in S : e[l] \in Int
      BY <1>5
    <2> QED
      BY <1>1, <1>8, <2>1, <2>2, MetalsDivide
  <1>10. Total(h) = H /\ H \in Int
    <2>1. h \in [M -> Int]
      BY <1>1, <1>7
    <2> QED
      BY <1>2, <1>8, <2>1, TotalIs
  <1>11. Total(e) = E /\ E \in Int
    <2>1. e \in [S -> Int]
      BY <1>5
    <2> QED
      BY <1>8, <2>1, TotalIs
  <1>12. PICK off : off = [m \in M |-> 2 * (d * h[m]) - 2 * x[m]]
    OBVIOUS
  <1>13. ASSUME NEW m \in M
         PROVE  off[m] \in Int /\ off[m] <= d /\ -off[m] <= d /\ (2 * d) * h[m] = 2 * x[m] + off[m]
    <2>1. PICK a, b, y : a = h[m] /\ b = x[m] /\ y = d * a
      OBVIOUS
    <2>2. a \in Nat /\ b \in Nat /\ y \in Nat /\ 2 * y <= 2 * b + d /\ 2 * b <= 2 * y + d
      BY <1>2, <1>6, <1>7, <2>1
    <2>3. off[m] = 2 * y - 2 * b
      BY <1>12, <2>1
    <2>4. (2 * d) * a = 2 * y
      BY <1>2, <2>1, <2>2
    <2>5. 2 * y - 2 * b \in Int /\ 2 * y - 2 * b <= d /\ -(2 * y - 2 * b) <= d
          /\ 2 * y = 2 * b + (2 * y - 2 * b)
      BY <1>2, <2>2
    <2> QED
      BY <2>1, <2>3, <2>4, <2>5
  <1>14. PICK O : O = SumOver(off, M)
    OBVIOUS
  <1>15. (2 * d) * H = 2 * X + O
    <2>1. ASSUME NEW m \in M
          PROVE  /\ h[m] \in Int /\ x[m] \in Int /\ off[m] \in Int
                 /\ (2 * d) * h[m] = 2 * x[m] + off[m]
      <3>1. h[m] \in Nat /\ x[m] \in Nat
        BY <1>6, <1>7
      <3>2. off[m] \in Int /\ (2 * d) * h[m] = 2 * x[m] + off[m]
        BY <1>13
      <3>3. h[m] \in Int /\ x[m] \in Int
        BY <3>1
      <3> QED
        BY <3>2, <3>3
    <2>2. 2 * d \in Int /\ 2 \in Int
      BY <1>2
    <2> QED
      BY <1>2, <1>8, <1>14, <2>1, <2>2, SumsCombine
  <1>16. PICK c : c = d * Cardinality(M)
    OBVIOUS
  <1>17. O \in Int /\ O <= c /\ -O <= c
    <2>1. O \in Int
      BY <1>2, <1>13, <1>14, SumTakesOne
    <2>2. PICK over, under, all :
            /\ over = [m \in M |-> d - off[m]] /\ under = [m \in M |-> d + off[m]]
            /\ all = [m \in M |-> d]
      OBVIOUS
    <2>3. SumOver(all, M) = c
      <3>1. \A m \in M : all[m] = d
        BY <2>2
      <3> QED
        BY <1>2, <1>16, <3>1, SumOfConstant
    <2>4. \A m \in M : /\ over[m] \in Nat /\ under[m] \in Nat /\ all[m] \in Int
                       /\ 1 * over[m] = (-1) * off[m] + all[m]
                       /\ 1 * under[m] = 1 * off[m] + all[m]
      <3>1. SUFFICES ASSUME NEW m \in M
                     PROVE  /\ over[m] \in Nat /\ under[m] \in Nat /\ all[m] \in Int
                            /\ 1 * over[m] = (-1) * off[m] + all[m]
                            /\ 1 * under[m] = 1 * off[m] + all[m]
        OBVIOUS
      <3>2. PICK y : y = off[m]
        OBVIOUS
      <3>3. y \in Int /\ y <= d /\ -y <= d
        BY <1>13, <3>2
      <3>4. over[m] = d - y /\ under[m] = d + y /\ all[m] = d
        BY <2>2, <3>2
      <3> QED
        BY <1>2, <3>2, <3>3, <3>4
    <2>5. SumOver(over, M) \in Nat /\ SumOver(under, M) \in Nat
      BY <1>2, <2>4, SumIsNatural
    <2>6. ASSUME NEW m \in M PROVE over[m] \in Int /\ under[m] \in Int /\ off[m] \in Int
      <3>1. over[m] \in Nat /\ under[m] \in Nat
        BY <2>4
      <3>2. over[m] \in Int /\ under[m] \in Int
        BY <3>1
      <3> QED
        BY <1>13, <3>2
    <2>7. 1 * SumOver(over, M) = (-1) * SumOver(off, M) + SumOver(all, M)
      BY <1>2, <2>4, <2>6, SumsCombine
    <2>8. 1 * SumOver(under, M) = 1 * SumOver(off, M) + SumOver(all, M)
      BY <1>2, <2>4, <2>6, SumsCombine
    <2>9. c \in Int
      BY <1>2, <1>16
    <2> QED
      BY <1>14, <2>1, <2>3, <2>5, <2>7, <2>8, <2>9
  <1>18. PICK y : y = H * d
    OBVIOUS
  <1>19. y \in Int /\ 2 * y = (2 * d) * H
    BY <1>2, <1>10, <1>18
  <1>20. 2 * (y - E) <= c /\ 2 * (E - y) <= c
    BY <1>9, <1>11, <1>15, <1>17, <1>19
  <1>21. c = Cardinality(M) * d
    BY <1>2, <1>16
  <1> QED
    BY <1>1, <1>10, <1>11, <1>18, <1>20, <1>21

LEMMA ProfitsCompare ==
    ASSUME FolioAssumption, NEW S \in SUBSET LotRecords, IsFiniteSet(S),
           NEW quoted \in [Codes -> Nat \cup {NoFigure}],
           NEW valued, valued = valuePortfolio(summarizeHeldAssets(S).byMetal, quoted),
           valued.pnl # NoFigure,
           NEW e, e = [l \in S |-> l.fine * quoted[l.metal]],
           NEW told, told = (valued.pnl + SumOf(S, "cost")) * PriceScale
    PROVE  /\ \A l \in S : l.currency = Display /\ quoted[l.metal] # NoFigure
           /\ 2 * (told - Total(e)) <= Cardinality(MetalsIn(S)) * PriceScale
           /\ 2 * (Total(e) - told) <= Cardinality(MetalsIn(S)) * PriceScale
  <1>1. PICK base, byMetal : base = summarizeHeldAssets(S) /\ byMetal = base.byMetal
    OBVIOUS
  <1>2. /\ DOMAIN byMetal = MetalsIn(S)
        /\ \A m \in MetalsIn(S) : byMetal[m] = MetalSummary(S, m)
        /\ aggregateCosts(byMetal) = costByCurrency(S)
    BY <1>1, WholeIsParts
  <1>3. PICK priced : priced = {m \in DOMAIN byMetal : quoted[m] # NoFigure}
    OBVIOUS
  <1>4. PICK h : h = [m \in priced |-> intrinsicValue(byMetal[m].fine, quoted[m])]
    OBVIOUS
  <1>5. PICK cost : cost = costComparableTo(aggregateCosts(byMetal))
    OBVIOUS
  <1>6. valued.pnl = IF priced # {} /\ priced = DOMAIN byMetal /\ cost # NoFigure
                     THEN Total(h) - cost ELSE NoFigure
    BY <1>1, <1>3, <1>4, <1>5 DEF valuePortfolio
  <1>7. priced = MetalsIn(S) /\ cost # NoFigure /\ valued.pnl = Total(h) - cost
    BY <1>2, <1>6
  <1>8. DOMAIN costByCurrency(S) = CurrenciesIn(S)
    BY DEF costByCurrency
  <1>9. CurrenciesIn(S) = {Display} /\ cost = costByCurrency(S)[Display]
    BY <1>2, <1>5, <1>7, <1>8 DEF costComparableTo
  <1>10. \A l \in S : l.currency = Display /\ quoted[l.metal] # NoFigure
    <2>1. \A l \in S : l.currency \in CurrenciesIn(S) /\ l.metal \in MetalsIn(S)
      BY DEF CurrenciesIn, MetalsIn
    <2> QED
      BY <1>3, <1>7, <1>9, <2>1
  <1>11. cost = SumOf(S, "cost")
    <2>1. cost = SumOf({l \in S : l.currency = Display}, "cost")
      BY <1>9 DEF costByCurrency
    <2>2. {l \in S : l.currency = Display} = S
      BY <1>10
    <2> QED
      BY <2>1, <2>2
  <1>12. SumOf(S, "cost") \in Nat
    <2>1. PICK f : f = [l \in S |-> l["cost"]]
      OBVIOUS
    <2>2. S \in SUBSET S /\ \A l \in S : f[l] = l["cost"]
      BY <2>1
    <2> QED
      BY <2>2, FieldsAddUp
  <1>13. \A m \in MetalsIn(S) : quoted[m] \in Nat
    <2>1. \A m \in MetalsIn(S) : m \in Codes
      BY DEF MetalsIn, LotRecords
    <2> QED
      BY <1>3, <1>7, <2>1
  <1>14. h = [m \in MetalsIn(S) |-> intrinsicValue(SumOf(OfMetal(S, m), "fine"), quoted[m])]
    <2>1. ASSUME NEW m \in MetalsIn(S) PROVE byMetal[m].fine = SumOf(OfMetal(S, m), "fine")
      <3>1. byMetal[m] = MetalSummary(S, m)
        BY <1>2
      <3>2. MetalSummary(S, m).fine = SumOf(OfMetal(S, m), "fine")
        BY DEF MetalSummary, OfMetal
      <3> QED
        BY <3>1, <3>2
    <2> QED
      BY <1>4, <1>7, <2>1
  <1>15. /\ Total(h) \in Int /\ Total(e) \in Int
         /\ 2 * (Total(h) * PriceScale - Total(e)) <= Cardinality(MetalsIn(S)) * PriceScale
         /\ 2 * (Total(e) - Total(h) * PriceScale) <= Cardinality(MetalsIn(S)) * PriceScale
    BY <1>13, <1>14, ValueIsNear
  <1>16. valued.pnl + SumOf(S, "cost") = Total(h)
    BY <1>7, <1>11, <1>12, <1>15
  <1>17. told = Total(h) * PriceScale
    BY <1>16
  <1> QED
    BY <1>10, <1>15, <1>17

\* What half-even rounding reaches: half a unit below an even number, more below an odd one.
\* Fractions that reach h have a mediant that does, and fractions that do not one that does not.
Reaches(a, d, h) ==
    IF h % 2 = 0 THEN 2 * a >= d * (2 * h - 1) ELSE 2 * a > d * (2 * h - 1)

LEMMA RoundingReaches ==
    ASSUME NEW a \in Nat, NEW d \in Nat \ {0}, NEW h \in Nat
    PROVE  HalfEven(a, d) >= h <=> Reaches(a, d, h)
  <1> DEFINE q == a \div d
             r == a % d
             e == HalfEven(a, d)
  <1>1. q \in Nat /\ r \in 0 .. (d - 1) /\ a = d * q + r
    BY DivisionLeaves
  <1>2. e = IF 2 * r < d \/ (2 * r = d /\ q % 2 = 0) THEN q ELSE q + 1
    BY DEF HalfEven
  <1> HIDE DEF q, r, e
  <1>3. PICK y, z : y = d * q /\ z = d * (2 * h - 1)
    OBVIOUS
  <1>4. y \in Nat /\ z \in Int /\ a = y + r
    BY <1>1, <1>3
  <1>5. CASE h <= q
    <2>1. z <= d * (2 * q - 1)
      BY <1>1, <1>3, <1>5
    <2>2. d * (2 * q - 1) = 2 * y - d
      BY <1>1, <1>3
    <2>3. 2 * a > z
      BY <1>1, <1>4, <2>1, <2>2
    <2>4. Reaches(a, d, h)
      BY <1>3, <1>4, <2>3 DEF Reaches
    <2>5. e >= h
      BY <1>1, <1>2, <1>5
    <2> QED
      BY <2>4, <2>5 DEF e
  <1>6. CASE h = q + 1
    <2>1. z = 2 * y + d
      <3>1. d * (2 * (q + 1) - 1) = 2 * (d * q) + d
        BY <1>1
      <3> QED
        BY <1>3, <1>6, <3>1
    <2>2. h % 2 = 0 <=> q % 2 # 0
      BY <1>1, <1>6
    <2>3. Reaches(a, d, h) <=> IF h % 2 = 0 THEN 2 * r >= d ELSE 2 * r > d
      BY <1>1, <1>3, <1>4, <2>1 DEF Reaches
    <2>4. e >= h <=> ~(2 * r < d \/ (2 * r = d /\ q % 2 = 0))
      BY <1>1, <1>2, <1>6
    <2>5. e >= h <=> Reaches(a, d, h)
      BY <1>1, <2>2, <2>3, <2>4
    <2> QED
      BY <2>5 DEF e
  <1>7. CASE h >= q + 2
    <2>1. z >= d * (2 * q + 3)
      BY <1>1, <1>3, <1>7
    <2>2. d * (2 * q + 3) = 2 * y + 3 * d
      BY <1>1, <1>3
    <2>3. 2 * a < z
      BY <1>1, <1>4, <2>1, <2>2
    <2>4. ~Reaches(a, d, h)
      BY <1>3, <1>4, <2>3 DEF Reaches
    <2>5. ~(e >= h)
      BY <1>1, <1>2, <1>7
    <2> QED
      BY <2>4, <2>5 DEF e
  <1> QED
    BY <1>1, <1>5, <1>6, <1>7

LEMMA MediantsReach ==
    ASSUME NEW S, IsFiniteSet(S), S # {}, NEW n, NEW d, NEW h \in Nat,
           \A k \in S : n[k] \in Nat /\ d[k] \in Nat
    PROVE  /\ (\A k \in S : Reaches(n[k], d[k], h)) => Reaches(SumOver(n, S), SumOver(d, S), h)
           /\ (\A k \in S : ~Reaches(n[k], d[k], h)) => ~Reaches(SumOver(n, S), SumOver(d, S), h)
  <1>1. PICK c : c = 2 * h - 1
    OBVIOUS
  <1>2. PICK v : v = [k \in S |-> 2 * n[k] - d[k] * c]
    OBVIOUS
  <1>3. c \in Int
    BY <1>1
  <1>4. ASSUME NEW k \in S
        PROVE  /\ v[k] \in Int /\ n[k] \in Int /\ d[k] \in Int
               /\ 2 * n[k] = c * d[k] + v[k]
               /\ Reaches(n[k], d[k], h) <=> IF h % 2 = 0 THEN v[k] >= 0 ELSE v[k] > 0
    <2>1. PICK a, b, w : a = n[k] /\ b = d[k] /\ w = b * c
      OBVIOUS
    <2>2. a \in Nat /\ b \in Nat /\ w \in Int /\ v[k] = 2 * a - w /\ c * b = w
      BY <1>2, <1>3, <2>1
    <2>3. Reaches(a, b, h) <=> IF h % 2 = 0 THEN 2 * a >= w ELSE 2 * a > w
      BY <1>1, <2>1 DEF Reaches
    <2>4. /\ 2 * a - w \in Int /\ 2 * a = w + (2 * a - w)
          /\ (2 * a >= w <=> 2 * a - w >= 0) /\ (2 * a > w <=> 2 * a - w > 0)
      BY <2>2
    <2>5. a \in Int /\ b \in Int
      BY <2>2
    <2> QED
      BY <2>1, <2>2, <2>3, <2>4, <2>5
  <1>5. PICK N, D, V : N = SumOver(n, S) /\ D = SumOver(d, S) /\ V = SumOver(v, S)
    OBVIOUS
  <1>6. 2 * N = c * D + V
    <2>1. \A k \in S : /\ n[k] \in Int /\ d[k] \in Int /\ v[k] \in Int
                       /\ 2 * n[k] = c * d[k] + v[k]
      BY <1>4
    <2>2. 2 \in Int
      OBVIOUS
    <2> QED
      BY ONLY IsFiniteSet(S), <1>3, <1>5, <2>1, <2>2, SumsCombine
  <1>7. /\ N \in Int /\ D \in Int /\ V \in Int
        /\ (\A k \in S : v[k] >= 0) => V >= 0
        /\ (\A k \in S : v[k] > 0) => V > 0
        /\ (\A k \in S : v[k] <= 0) => V <= 0
        /\ (\A k \in S : v[k] < 0) => V < 0
    BY <1>4, <1>5, SumHasTheSign
  <1>8. Reaches(N, D, h) <=> IF h % 2 = 0 THEN V >= 0 ELSE V > 0
    <2>1. PICK w : w = D * c
      OBVIOUS
    <2>2. w \in Int /\ 2 * N = w + V
      BY <1>3, <1>6, <1>7, <2>1
    <2>3. Reaches(N, D, h) <=> IF h % 2 = 0 THEN 2 * N >= w ELSE 2 * N > w
      BY <1>1, <2>1 DEF Reaches
    <2> QED
      BY <1>7, <2>2, <2>3
  <1>9. ASSUME \A k \in S : Reaches(n[k], d[k], h) PROVE Reaches(N, D, h)
    BY <1>4, <1>7, <1>8, <1>9
  <1>10. ASSUME \A k \in S : ~Reaches(n[k], d[k], h) PROVE ~Reaches(N, D, h)
    <2>1. CASE h % 2 = 0
      <3>1. \A k \in S : v[k] < 0
        BY <1>4, <1>10, <2>1
      <3> QED
        BY <1>7, <1>8, <2>1, <3>1
    <2>2. CASE h % 2 # 0
      <3>1. \A k \in S : v[k] <= 0
        BY <1>4, <1>10, <2>2
      <3> QED
        BY <1>7, <1>8, <2>2, <3>1
    <2> QED
      BY <2>1, <2>2
  <1> QED
    BY <1>5, <1>9, <1>10

LEMMA AverageLiesBetween ==
    ASSUME FolioAssumption, NEW S, IsFiniteSet(S), S # {},
           \A k \in S : k.fine \in Nat \ {0} /\ k.cost \in Nat,
           NEW average, average = HalfEven(SumOf(S, "cost") * PriceScale, SumOf(S, "fine"))
    PROVE  /\ \E k \in S : perGram(k.cost, k.fine) <= average
           /\ \E k \in S : perGram(k.cost, k.fine) >= average
  <1>1. PICK p : p = PriceScale
    OBVIOUS
  <1>2. p \in Nat \ {0}
    BY <1>1 DEF FolioAssumption
  <1>3. PICK n, d, c : /\ n = [k \in S |-> k.cost * p] /\ d = [k \in S |-> k.fine]
                       /\ c = [k \in S |-> k.cost]
    OBVIOUS
  <1>4. ASSUME NEW k \in S
        PROVE  /\ n[k] \in Nat /\ d[k] \in Nat \ {0} /\ c[k] \in Nat /\ n[k] = p * c[k]
               /\ perGram(k.cost, k.fine) = HalfEven(n[k], d[k])
    <2>1. PICK a, b, w : a = k.cost /\ b = k.fine /\ w = a * p
      OBVIOUS
    <2>2. a \in Nat /\ b \in Nat \ {0} /\ w \in Nat /\ w = p * a
      BY <1>2, <2>1
    <2>3. n[k] = w /\ d[k] = b /\ c[k] = a
      BY <1>3, <2>1
    <2>4. perGram(a, b) = HalfEven(w, b)
      BY <1>1, <2>1, <2>2 DEF perGram
    <2> QED
      BY <2>1, <2>2, <2>3, <2>4
  <1>5. PICK N, D, C : N = SumOver(n, S) /\ D = SumOver(d, S) /\ C = SumOver(c, S)
    OBVIOUS
  <1>6. N \in Nat /\ C \in Nat /\ D \in Nat \ {0}
    <2>1. \A k \in S : /\ n[k] \in Nat /\ c[k] \in Nat /\ d[k] \in Nat
                       /\ d[k] \in Int /\ d[k] > 0
      BY <1>4
    <2>2. N \in Nat /\ C \in Nat /\ D \in Nat
      BY <1>5, <2>1, SumIsNatural
    <2>3. D > 0
      BY <1>5, <2>1, SumHasTheSign
    <2> QED
      BY <2>2, <2>3
  <1>7. N = p * C
    <2>1. \A k \in S : n[k] = p * c[k] /\ c[k] \in Int
      BY <1>4
    <2>2. p \in Int
      BY <1>2
    <2> QED
      BY ONLY IsFiniteSet(S), <1>5, <2>1, <2>2, SumScales
  <1>8. SumOf(S, "cost") = C /\ SumOf(S, "fine") = D
    <2>1. c \in [S -> Int] /\ d \in [S -> Int]
      <3>1. \A k \in S : c[k] \in Int /\ d[k] \in Int
        BY <1>4
      <3> QED
        BY <1>3, <3>1
    <2>2. Total(c) = C /\ Total(d) = D
      BY <1>5, <2>1, TotalIs
    <2>3. c = [k \in S |-> k["cost"]] /\ d = [k \in S |-> k["fine"]]
      BY <1>3
    <2> QED
      BY <2>2, <2>3 DEF SumOf
  <1>9. average = HalfEven(N, D)
    <2>1. C * p = N
      BY <1>2, <1>6, <1>7
    <2> QED
      BY <1>1, <1>8, <2>1
  <1>10. average \in Nat
    BY <1>6, <1>9, EvenRounding
  <1>11. \A k \in S : n[k] \in Nat /\ d[k] \in Nat
    BY <1>4
  <1>12. ASSUME NEW h \in Nat, NEW k \in S
         PROVE  perGram(k.cost, k.fine) \in Nat /\ (perGram(k.cost, k.fine) >= h <=> Reaches(n[k], d[k], h))
    <2>1. PICK a, b : a = n[k] /\ b = d[k]
      OBVIOUS
    <2>2. a \in Nat /\ b \in Nat \ {0} /\ perGram(k.cost, k.fine) = HalfEven(a, b)
      BY <1>4, <2>1
    <2> QED
      BY <2>1, <2>2, RoundingReaches, EvenRounding
  <1>13. ASSUME \A k \in S : ~(perGram(k.cost, k.fine) <= average) PROVE FALSE
    <2>1. average + 1 \in Nat
      BY <1>10
    <2>2. \A k \in S : perGram(k.cost, k.fine) >= average + 1
      BY <1>10, <1>12, <1>13
    <2>3. \A k \in S : Reaches(n[k], d[k], average + 1)
      BY <1>12, <2>1, <2>2
    <2>4. Reaches(N, D, average + 1)
      BY <1>5, <1>11, <2>1, <2>3, MediantsReach
    <2>5. HalfEven(N, D) >= average + 1
      BY <1>6, <2>1, <2>4, RoundingReaches
    <2> QED
      BY <1>9, <1>10, <2>5
  <1>14. ASSUME \A k \in S : ~(perGram(k.cost, k.fine) >= average) PROVE FALSE
    <2>1. \A k \in S : ~Reaches(n[k], d[k], average)
      BY <1>10, <1>12, <1>14
    <2>2. ~Reaches(N, D, average)
      BY <1>5, <1>10, <1>11, <2>1, MediantsReach
    <2>3. ~(HalfEven(N, D) >= average)
      BY <1>6, <1>10, <2>2, RoundingReaches
    <2> QED
      BY <1>9, <1>10, <2>3
  <1> QED
    BY <1>13, <1>14

-----------------------------------------------------------------------------
(* The markers of the chart. *)

LEMMA ImageIsFinite ==
    ASSUME NEW D, IsFiniteSet(D), NEW f, NEW T, T = {f[x] : x \in D}
    PROVE  IsFiniteSet(T)
  <1>1. PICK m : m = [x \in D |-> f[x]]
    OBVIOUS
  <1>2. m \in Surjection(D, T)
    BY <1>1 DEF Surjection
  <1> QED
    BY <1>2, FS_Surjection

LEMMA MarkersAreFigures ==
    ASSUME FolioTypeOK, NEW m
    PROVE  /\ IsFiniteSet(forMetal(m))
           /\ \A k \in forMetal(m) : k.fine \in Nat /\ k.cost \in Nat
  <1>1. PICK D, f : /\ D = {k \in DOMAIN purchases : m \in MetalsOf(k)}
                    /\ f = [n \in D |-> Marker(n, m)]
    OBVIOUS
  <1>2. IsFiniteSet(D)
    <2>1. D \in SUBSET (1 .. Len(purchases)) /\ Len(purchases) \in Nat
      BY <1>1 DEF FolioTypeOK
    <2>2. IsFiniteSet(1 .. Len(purchases))
      BY <2>1, FS_Interval
    <2> QED
      BY <2>1, <2>2, FS_Subset
  <1>3. forMetal(m) = {f[n] : n \in D}
    BY <1>1 DEF forMetal
  <1>4. ASSUME NEW k \in forMetal(m) PROVE k.fine \in Nat /\ k.cost \in Nat
    <2>1. PICK n \in DOMAIN purchases : k = Marker(n, m)
      BY <1>1, <1>3
    <2> QED
      BY <2>1, MetalHasFigures DEF Marker
  <1> QED
    BY <1>2, <1>3, <1>4, ImageIsFinite

LEMMA AveragesHold == ASSUME FolioAssumption, FolioTypeOK PROVE AveragesLieBetween
  <1>1. SUFFICES ASSUME NEW m \in Codes,
                        \A k \in forMetal(m) : k.fine > 0,
                        computeCostLines(forMetal(m)).average # NoFigure
                 PROVE  LET average == computeCostLines(forMetal(m)).average
                        IN  /\ \E k \in forMetal(m) : perGram(k.cost, k.fine) <= average
                            /\ \E k \in forMetal(m) : perGram(k.cost, k.fine) >= average
    BY DEF AveragesLieBetween
  <1>2. PICK S, average : S = forMetal(m) /\ average = computeCostLines(S).average
    OBVIOUS
  <1>3. IsFiniteSet(S) /\ \A k \in S : k.fine \in Nat \ {0} /\ k.cost \in Nat
    BY <1>1, <1>2, MarkersAreFigures
  <1>4. Cardinality(CurrenciesIn(S)) = 1 /\ average = averageCost(S)
    BY <1>1, <1>2 DEF computeCostLines
  <1>5. S # {}
    <2>1. SUFFICES ASSUME S = {} PROVE FALSE
      OBVIOUS
    <2>2. CurrenciesIn(S) = {}
      BY <2>1 DEF CurrenciesIn
    <2> QED
      BY <1>4, <2>2, FS_EmptySet
  <1>6. average = HalfEven(SumOf(S, "cost") * PriceScale, SumOf(S, "fine"))
    BY <1>1, <1>2, <1>4 DEF averageCost
  <1> QED
    BY <1>2, <1>3, <1>5, <1>6, AverageLiesBetween

\* The average is rounded once, so that it times the weight comes back as what was paid.
LEMMA AveragesWeigh == ASSUME FolioAssumption, FolioTypeOK PROVE AveragesAreWeighted
  <1>1. SUFFICES ASSUME NEW m \in Codes, computeCostLines(forMetal(m)).average # NoFigure
                 PROVE  LET average == computeCostLines(forMetal(m)).average
                            fine    == SumOf(forMetal(m), "fine")
                            paid    == SumOf(forMetal(m), "cost") * PriceScale
                        IN  /\ 2 * (average * fine - paid) <= fine
                            /\ 2 * (paid - average * fine) <= fine
    BY DEF AveragesAreWeighted
  <1>2. PICK S, average, D, C :
          /\ S = forMetal(m) /\ average = computeCostLines(S).average
          /\ D = SumOf(S, "fine") /\ C = SumOf(S, "cost")
    OBVIOUS
  <1>3. IsFiniteSet(S) /\ \A k \in S : k.fine \in Nat /\ k.cost \in Nat
    BY <1>2, MarkersAreFigures
  <1>4. average = averageCost(S) /\ average # NoFigure
    BY <1>1, <1>2 DEF computeCostLines
  <1>5. D # 0 /\ average = HalfEven(C * PriceScale, D)
    BY <1>2, <1>4 DEF averageCost
  <1>6. C \in Nat /\ D \in Nat \ {0}
    <2>1. PICK c, d : c = [k \in S |-> k.cost] /\ d = [k \in S |-> k.fine]
      OBVIOUS
    <2>2. \A k \in S : c[k] \in Nat /\ d[k] \in Nat
      BY <1>3, <2>1
    <2>3. SumOver(c, S) \in Nat /\ SumOver(d, S) \in Nat
      BY <1>3, <2>2, SumIsNatural
    <2>4. c \in [S -> Int] /\ d \in [S -> Int]
      BY <2>1, <2>2
    <2>5. Total(c) = SumOver(c, S) /\ Total(d) = SumOver(d, S)
      BY <1>3, <2>4, TotalIs
    <2>6. c = [k \in S |-> k["cost"]] /\ d = [k \in S |-> k["fine"]]
      BY <2>1
    <2>7. C = SumOver(c, S) /\ D = SumOver(d, S)
      BY <1>2, <2>5, <2>6 DEF SumOf
    <2> QED
      BY <1>5, <2>3, <2>7
  <1>7. PICK w : w = C * PriceScale
    OBVIOUS
  <1>8. w \in Nat
    BY <1>6, <1>7 DEF FolioAssumption
  <1>9. /\ average \in Nat
        /\ 2 * (D * average) <= 2 * w + D /\ 2 * w <= 2 * (D * average) + D
    BY <1>5, <1>6, <1>7, <1>8, EvenRounding
  <1>10. PICK x : x = D * average
    OBVIOUS
  <1>11. x \in Nat /\ x = average * D
    BY <1>6, <1>9, <1>10
  <1>12. 2 * (x - w) <= D /\ 2 * (w - x) <= D
    <2>1. 2 * x <= 2 * w + D /\ 2 * w <= 2 * x + D
      BY <1>9, <1>10
    <2> QED
      BY ONLY <1>6, <1>8, <1>11, <2>1
  <1> QED
    BY <1>2, <1>7, <1>11, <1>12

LEMMA ConvertedIsKnown ==
    ASSUME NEW from, NEW to, to \in {"USD", Display}, convertPrice(from, to) # "no point",
           from # to, {from, to} # {"USD", Display}
    PROVE  to = "USD"
  BY DEF convertPrice

LEMMA MarkersAddUp == ASSUME FolioIInv PROVE MarkersMatchThePurchases
  <1>1. SUFFICES ASSUME NEW n \in DOMAIN purchases
                 PROVE  Total([m \in MetalsOf(n) |->
                                  (CHOOSE k \in forMetal(m) : k.purchase = n).cost])
                        = purchases[n].total
    BY DEF MarkersMatchThePurchases
  <1>2. FolioTypeOK /\ CostsAreRight(purchases[n])
    BY DEF FolioIInv
  <1>3. PICK z, R : z = purchases[n].items /\ R = [item : ItemRecords, cost : Nat]
    OBVIOUS
  <1>4. z \in Seq(R)
    <2>1. purchases[n] \in PurchaseRecords
      BY <1>2 DEF FolioTypeOK
    <2> QED
      BY <1>3, <2>1 DEF PurchaseRecords
  <1>5. PICK I : I = DOMAIN z
    OBVIOUS
  <1>6. IsFiniteSet(I)
    <2>1. I = 1 .. Len(z) /\ Len(z) \in Nat
      BY <1>4, <1>5
    <2> QED
      BY <2>1, FS_Interval
  <1>7. PICK f, key : f = [i \in I |-> z[i].cost] /\ key = [i \in I |-> z[i].item.metal]
    OBVIOUS
  <1>8. ASSUME NEW i \in I PROVE f[i] \in Int
    <2>1. PICK v : v = z[i]
      OBVIOUS
    <2>2. v \in R
      BY <1>4, <1>5, <2>1
    <2>3. v.cost \in Int
      BY <1>3, <2>2
    <2> QED
      BY <1>7, <2>1, <2>3
  <1>9. Keys(key, I) = MetalsOf(n)
    BY <1>3, <1>5, <1>7 DEF Keys, MetalsOf
  <1>10. PICK g : g = [m \in MetalsOf(n) |->
                          (CHOOSE k \in forMetal(m) : k.purchase = n).cost]
    OBVIOUS
  <1>11. ASSUME NEW m \in MetalsOf(n) PROVE g[m] = SumOver(f, Part(key, I, m))
    <2>1. PICK c : c = CHOOSE k \in forMetal(m) : k.purchase = n
      OBVIOUS
    <2>2. Marker(n, m) \in forMetal(m) /\ Marker(n, m).purchase = n
      BY <1>11 DEF forMetal, Marker
    <2>3. c \in forMetal(m) /\ c.purchase = n
      BY <2>1, <2>2
    <2>4. PICK j \in DOMAIN purchases : c = Marker(j, m)
      BY <2>3 DEF forMetal
    <2>5. j = n
      BY <2>3, <2>4 DEF Marker
    <2>6. g[m] = CostOf(n, m)
      BY <1>10, <2>1, <2>4, <2>5 DEF Marker
    <2>7. PICK W, h : W = ItemsOf(n, m) /\ h = [i \in W |-> z[i].cost]
      OBVIOUS
    <2>8. W = Part(key, I, m) /\ W \in SUBSET I /\ IsFiniteSet(W)
      <3>1. W = Part(key, I, m) /\ W \in SUBSET I
        BY <1>3, <1>5, <1>7, <2>7 DEF ItemsOf, Part
      <3> QED
        BY <1>6, <3>1, FS_Subset
    <2>9. \A i \in W : f[i] = h[i] /\ h[i] \in Int
      BY <1>7, <1>8, <2>7, <2>8
    <2>10. h \in [W -> Int]
      BY <2>7, <2>9
    <2>11. Total(h) = SumOver(h, W) /\ SumOver(f, W) = SumOver(h, W)
      BY <2>8, <2>9, <2>10, TotalIs, SumsSame
    <2>12. CostOf(n, m) = Total(h)
      BY <1>3, <2>7 DEF CostOf
    <2> QED
      BY <2>6, <2>8, <2>11, <2>12
  <1>12. /\ IsFiniteSet(MetalsOf(n)) /\ SumOver(g, MetalsOf(n)) = SumOver(f, I)
         /\ \A m \in MetalsOf(n) : g[m] \in Int
    <2>1. \A k \in Keys(key, I) : g[k] = SumOver(f, Part(key, I, k))
      BY <1>9, <1>11
    <2> QED
      BY <1>6, <1>8, <1>9, <2>1, SumByParts
  <1>13. Total(g) = SumOver(g, MetalsOf(n))
    <2>1. g \in [MetalsOf(n) -> Int]
      BY <1>10, <1>12
    <2> QED
      BY <1>12, <2>1, TotalIs
  <1>14. Total(f) = SumOver(f, I)
    <2>1. f \in [I -> Int]
      BY <1>7, <1>8
    <2> QED
      BY <1>6, <2>1, TotalIs
  <1>15. Total(f) = purchases[n].total
    BY <1>2, <1>3, <1>5, <1>7 DEF CostsAreRight
  <1> QED
    BY <1>10, <1>12, <1>13, <1>14, <1>15

-----------------------------------------------------------------------------
(* What the Dashboard shows is made from one reading of the held lots and one  *)
(* of the prices, and stays so when they change.                               *)

ReadSoundly(S) == S \in SUBSET LotRecords /\ IsFiniteSet(S)
QuotedSoundly(q) == q \in [Codes -> Nat \cup {NoFigure}]

AskedSoundly(a) ==
    /\ DOMAIN a = Parts
    /\ a["assets"] # NotRead => ReadSoundly(a["assets"])
    /\ a["prices"] # NotRead => QuotedSoundly(a["prices"])

ShownSoundly(s) ==
    /\ ReadSoundly(s.read["assets"]) /\ QuotedSoundly(s.read["prices"])
    /\ s.base = summarizeHeldAssets(s.read["assets"])
    /\ s.valued = valuePortfolio(s.base.byMetal, s.read["prices"])

FiguresIInv ==
    /\ FolioIInv /\ IsFiniteSet(lots) /\ QuotedSoundly(prices)
    /\ asking # NotRead => AskedSoundly(asking)
    /\ shown # NotRead => ShownSoundly(shown)

LEMMA FiguresBegin == ASSUME FolioAssumption, FolioInit PROVE FiguresIInv
  <1>1. FolioIInv
    BY FolioBegins
  <1>2. IsFiniteSet(lots)
    BY FS_EmptySet DEF FolioInit
  <1>3. QuotedSoundly(prices)
    BY DEF FolioInit, FolioAssumption, QuotedSoundly
  <1>4. asking = NotRead /\ shown = NotRead
    BY DEF FolioInit
  <1> QED
    BY <1>1, <1>2, <1>3, <1>4 DEF FiguresIInv

LEMMA LotsStayFinite ==
    ASSUME FolioAssumption, FiguresIInv, Buy \/ Sell PROVE IsFiniteSet(lots')
  <1>1. IsFiniteSet(lots)
    BY DEF FiguresIInv
  <1>2. CASE Buy
    <2>1. PICK p \in inputs :
            /\ Acceptable(p)
            /\ lots' = lots \cup LotsBought(Len(purchases) + 1, computePurchase(p))
      BY <1>2 DEF Buy
    <2>2. PICK q, n : q = computePurchase(p) /\ n = Len(purchases) + 1
      OBVIOUS
    <2>3. q \in PurchaseRecords
      BY <2>1, <2>2, CostsAreAllocated DEF FiguresIInv, FolioIInv
    <2>4. PICK z, R : z = q.items /\ R = [item : ItemRecords, cost : Nat]
      OBVIOUS
    <2>5. z \in Seq(R)
      BY <2>3, <2>4 DEF PurchaseRecords
    <2>6. IsFiniteSet(DOMAIN z)
      <3>1. DOMAIN z = 1 .. Len(z) /\ Len(z) \in Nat
        BY <2>5
      <3> QED
        BY <3>1, FS_Interval
    <2>7. PICK f : f = [i \in DOMAIN z |->
             [id |-> <<n, i>>, metal |-> z[i].item.metal, currency |-> q.currency,
              quantity |-> z[i].item.quantity, fine |-> z[i].item.fine,
              cost |-> z[i].cost, status |-> "HELD", pnl |-> NoFigure]]
      OBVIOUS
    <2>8. LotsBought(n, q) = {f[i] : i \in DOMAIN z}
      BY <2>4, <2>7 DEF LotsBought
    <2>9. IsFiniteSet(LotsBought(n, q))
      BY <2>6, <2>8, ImageIsFinite
    <2> QED
      BY <1>1, <2>1, <2>2, <2>9, FS_Union
  <1>3. CASE Sell
    <2>1. PICK l, k : lots' = (lots \ {l}) \cup {k}
      BY <1>3 DEF Sell
    <2>2. IsFiniteSet(lots \ {l})
      BY <1>1, FS_Subset
    <2> QED
      BY <2>1, <2>2, FS_AddElement
  <1> QED
    BY <1>2, <1>3

LEMMA PartIsReadSoundly ==
    ASSUME FiguresIInv, NEW part \in Parts, Read(part) PROVE AskedSoundly(asking')
  <1>1. asking # NotRead /\ AskedSoundly(asking)
    BY DEF Read, FiguresIInv
  <1>2. PICK v : /\ asking' = [asking EXCEPT ![part] = v]
                 /\ part = "assets" => v = HeldLots
                 /\ part = "prices" => v = prices
    BY DEF Read
  <1>3. ReadSoundly(HeldLots)
    <2>1. HeldLots \in SUBSET lots /\ lots \in SUBSET LotRecords /\ IsFiniteSet(lots)
      BY DEF HeldLots, FiguresIInv, FolioIInv, FolioTypeOK
    <2> QED
      BY <2>1, FS_Subset DEF ReadSoundly
  <1>4. QuotedSoundly(prices)
    BY DEF FiguresIInv
  <1>5. /\ DOMAIN asking' = Parts /\ "assets" \in Parts /\ "prices" \in Parts
        /\ asking'["assets"] = IF part = "assets" THEN v ELSE asking["assets"]
        /\ asking'["prices"] = IF part = "prices" THEN v ELSE asking["prices"]
    BY <1>1, <1>2 DEF AskedSoundly, Parts
  <1>6. asking'["assets"] # NotRead => ReadSoundly(asking'["assets"])
    BY <1>1, <1>2, <1>3, <1>5 DEF AskedSoundly
  <1>7. asking'["prices"] # NotRead => QuotedSoundly(asking'["prices"])
    BY <1>1, <1>2, <1>4, <1>5 DEF AskedSoundly
  <1> QED
    BY <1>5, <1>6, <1>7 DEF AskedSoundly

LEMMA AnswerIsSound == ASSUME FiguresIInv, Answer PROVE ShownSoundly(shown')
  <1>1. AskedSoundly(asking) /\ asking["assets"] # NotRead /\ asking["prices"] # NotRead
    BY DEF Answer, FiguresIInv, Parts
  <1>2. ReadSoundly(asking["assets"]) /\ QuotedSoundly(asking["prices"])
    BY <1>1 DEF AskedSoundly
  <1>3. PICK base, valued :
          /\ base = summarizeHeldAssets(asking["assets"])
          /\ valued = valuePortfolio(base.byMetal, asking["prices"])
          /\ shown' = [base |-> base, valued |-> valued, read |-> asking]
    BY DEF Answer
  <1>4. shown'.base = base /\ shown'.valued = valued /\ shown'.read = asking
    BY <1>3
  <1> QED
    BY <1>2, <1>3, <1>4 DEF ShownSoundly

LEMMA FiguresStepKeeps ==
    ASSUME FolioAssumption, FiguresIInv, [FolioNext]_folioVars PROVE FiguresIInv'
  <1>1. FolioIInv'
    BY FolioStepKeeps DEF FiguresIInv
  <1>2. ASSUME UNCHANGED <<prices, asking, shown>>, IsFiniteSet(lots') PROVE FiguresIInv'
    BY <1>1, <1>2 DEF FiguresIInv
  <1>3. CASE Buy \/ Sell
    BY <1>2, <1>3, LotsStayFinite DEF Buy, Sell
  <1>4. CASE Capture \/ ChooseCurrency \/ UNCHANGED folioVars
    BY <1>2, <1>4 DEF Capture, ChooseCurrency, folioVars, FiguresIInv
  <1>5. CASE Quote
    <2>1. PICK m \in Codes, p \in Prices \cup {NoFigure} : prices' = [prices EXCEPT ![m] = p]
      BY <1>5 DEF Quote
    <2>2. p \in Nat \cup {NoFigure}
      BY DEF FolioAssumption
    <2>3. QuotedSoundly(prices')
      BY <2>1, <2>2 DEF QuotedSoundly, FiguresIInv
    <2>4. UNCHANGED <<lots, asking, shown>>
      BY <1>5 DEF Quote
    <2> QED
      BY <1>1, <2>3, <2>4 DEF FiguresIInv
  <1>6. ASSUME UNCHANGED <<lots, prices, shown>>, asking' # NotRead => AskedSoundly(asking')
        PROVE  FiguresIInv'
    BY <1>1, <1>6 DEF FiguresIInv
  <1>7. CASE Ask
    <2>1. asking' = [part \in Parts |-> NotRead] /\ UNCHANGED <<lots, prices, shown>>
      BY <1>7 DEF Ask
    <2>2. AskedSoundly(asking')
      BY <2>1 DEF AskedSoundly, Parts
    <2> QED
      BY <1>6, <2>1, <2>2
  <1>8. CASE \E part \in Parts : Read(part)
    <2>1. PICK part \in Parts : Read(part)
      BY <1>8
    <2>2. AskedSoundly(asking')
      BY <2>1, PartIsReadSoundly
    <2>3. UNCHANGED <<lots, prices, shown>>
      BY <2>1 DEF Read
    <2> QED
      BY <1>6, <2>2, <2>3
  <1>9. CASE PricesFail
    <2>1. /\ asking # NotRead /\ asking' = [asking EXCEPT !["prices"] = [m \in Codes |-> NoFigure]]
          /\ UNCHANGED <<lots, prices, shown>>
      BY <1>9 DEF PricesFail
    <2>2. AskedSoundly(asking)
      BY <2>1 DEF FiguresIInv
    <2>3. /\ DOMAIN asking' = Parts /\ asking'["assets"] = asking["assets"]
          /\ asking'["prices"] = [m \in Codes |-> NoFigure]
      BY <2>1, <2>2 DEF AskedSoundly, Parts
    <2>4. QuotedSoundly(asking'["prices"])
      BY <2>3 DEF QuotedSoundly
    <2>5. AskedSoundly(asking')
      BY <2>2, <2>3, <2>4 DEF AskedSoundly
    <2> QED
      BY <1>6, <2>1, <2>5
  <1>10. CASE Answer
    <2>1. ShownSoundly(shown')
      BY <1>10, AnswerIsSound
    <2>2. asking' = NotRead /\ UNCHANGED <<lots, prices>>
      BY <1>10 DEF Answer
    <2> QED
      BY <1>1, <2>1, <2>2 DEF FiguresIInv
  <1> QED
    BY <1>3, <1>4, <1>5, <1>7, <1>8, <1>9, <1>10 DEF FolioNext

LEMMA FiguresCompare == ASSUME FolioAssumption, FiguresIInv PROVE FiguresAreComparable
  <1>1. FolioIInv /\ FolioTypeOK
    BY DEF FiguresIInv, FolioIInv
  <1>2. ASSUME shown # NotRead
        PROVE  /\ ReadSoundly(shown.read["assets"]) /\ QuotedSoundly(shown.read["prices"])
               /\ shown.base = summarizeHeldAssets(shown.read["assets"])
               /\ shown.valued = valuePortfolio(shown.base.byMetal, shown.read["prices"])
    BY <1>2 DEF FiguresIInv, ShownSoundly
  <1>3. PartsMakeTheWhole
    <2>1. SUFFICES ASSUME shown # NotRead PROVE PartsMakeTheWhole
      BY DEF PartsMakeTheWhole
    <2>2. PICK S, base : S = shown.read["assets"] /\ base = shown.base
      OBVIOUS
    <2>3. S \in SUBSET LotRecords /\ IsFiniteSet(S) /\ base = summarizeHeldAssets(S)
      BY <1>2, <2>1, <2>2 DEF ReadSoundly
    <2>4. /\ DOMAIN base.byMetal = MetalsIn(S)
          /\ Total([m \in MetalsIn(S) |-> base.byMetal[m]["lots"]]) = base.lots
          /\ Total([m \in MetalsIn(S) |-> base.byMetal[m]["units"]]) = base.units
          /\ Total([m \in MetalsIn(S) |-> base.byMetal[m]["fine"]]) = SumOf(S, "fine")
          /\ aggregateCosts(base.byMetal) = base.cost
      BY <2>3, WholeIsParts
    <2> QED
      BY <2>2, <2>4 DEF PartsMakeTheWhole
  <1>4. PnlIsComparable
    <2>1. SUFFICES ASSUME shown # NotRead, shown.valued.pnl # NoFigure PROVE PnlIsComparable
      BY DEF PnlIsComparable
    <2>2. PICK S, quoted, valued :
            /\ S = shown.read["assets"] /\ quoted = shown.read["prices"] /\ valued = shown.valued
      OBVIOUS
    <2>3. /\ S \in SUBSET LotRecords /\ IsFiniteSet(S)
          /\ quoted \in [Codes -> Nat \cup {NoFigure}]
          /\ valued = valuePortfolio(summarizeHeldAssets(S).byMetal, quoted)
          /\ valued.pnl # NoFigure
      BY <1>2, <2>1, <2>2 DEF ReadSoundly, QuotedSoundly
    <2>4. PICK e, told : /\ e = [l \in S |-> l.fine * quoted[l.metal]]
                         /\ told = (valued.pnl + SumOf(S, "cost")) * PriceScale
      OBVIOUS
    <2>5. /\ \A l \in S : l.currency = Display /\ quoted[l.metal] # NoFigure
          /\ 2 * (told - Total(e)) <= Cardinality(MetalsIn(S)) * PriceScale
          /\ 2 * (Total(e) - told) <= Cardinality(MetalsIn(S)) * PriceScale
      BY <2>3, <2>4, ProfitsCompare
    <2>6. MetalsIn(S) = {l.metal : l \in S}
      BY DEF MetalsIn
    <2> QED
      BY <2>2, <2>4, <2>5, <2>6 DEF PnlIsComparable
  <1>5. MarkersMatchThePurchases
    BY <1>1, MarkersAddUp
  <1>6. AveragesLieBetween
    BY <1>1, AveragesHold
  <1>7. AveragesAreWeighted
    BY <1>1, AveragesWeigh
  <1>8. ThirdCurrenciesOnlyInUsd
    BY <1>1, ConvertedIsKnown DEF ThirdCurrenciesOnlyInUsd, toMarkerSeries, FolioTypeOK
  <1> QED
    BY <1>3, <1>4, <1>5, <1>6, <1>7, <1>8 DEF FiguresAreComparable

\* Metals and currencies divide the Dashboard's totals, a profit is shown only where every cost
\* and value compares and is then off by the rounding of each metal's value at most, a
\* purchase's markers add up to what was paid, and the average-cost line runs between the
\* cheapest and the dearest (valuation.ts, purchase-summary.ts, market-markers.service.ts).
THEOREM FiguresAlwaysCompare == FolioSpec => []FiguresAreComparable
  <1>1. FolioInit => FiguresIInv
    BY FolioAssumption, FiguresBegin
  <1>2. FiguresIInv /\ [FolioNext]_folioVars => FiguresIInv'
    BY FolioAssumption, FiguresStepKeeps
  <1>3. FiguresIInv => FiguresAreComparable
    BY FolioAssumption, FiguresCompare
  <1> QED
    BY <1>1, <1>2, <1>3, PTL DEF FolioSpec
=============================================================================
