----------------------------- MODULE LedgerRows -----------------------------
(***************************************************************************)
(* The rows of the holding ledger - Asset, AssetMovement and the audit     *)
(* row of an asset edit - and what one service call computes from the row  *)
(* it read: how a disposal splits a holding's balance, the movement it     *)
(* books, the row a disposal, a transfer or an edit writes.                *)
(*                                                                         *)
(* A weight or an amount of money is a natural number of the smallest unit *)
(* its column stores (1e-9 g, 1e-4 of the currency).  `weight' stands for  *)
(* the gross and the fine weight, which a disposal splits alike; an edit   *)
(* of the purity, which changes the fine weight only, is a weight edit.    *)
(***************************************************************************)
EXTENDS Integers, FiniteSets

CONSTANTS
    Requests,       \* the service calls of a behaviour, each handled once
    Lots,           \* Asset ids
    Purchases,      \* Purchase ids
    PurchaseOf,     \* Asset.purchaseId: a purchase, or NoPurchase for a gift
    Currencies,     \* ISO codes
    Locations,      \* Asset.storageLocation values
    NoPurchase, NoCurrency, NoLocation, NoRow, NoMovement, NoEdit,
    Keep            \* a field an edit leaves out

ASSUME RowsAssumption ==
    /\ PurchaseOf \in [Lots -> Purchases \cup {NoPurchase}]
    /\ NoPurchase \notin Purchases
    /\ NoCurrency \notin Currencies
    /\ NoLocation \notin Locations
    /\ Keep \notin Currencies \cup Locations

-----------------------------------------------------------------------------
(* Rows *)

DisposalKinds == {"SALE", "GIFT_OUT", "LOST", "DAMAGED"}
MovementKinds == DisposalKinds \cup {"GIFT_IN", "STORAGE_TRANSFER"}
Statuses == {"HELD", "SOLD", "GIFTED", "LOST", "DAMAGED"}

\* The balance a lot carries, and the part of it a movement carries out.
Figures == [quantity : Nat, weight : Nat, cost : Nat]
Nothing == [quantity |-> 0, weight |-> 0, cost |-> 0]

Rows == [status : Statuses, figures : Figures, currency : Currencies,
         location : Locations, version : Nat]

Movements == [kind : MovementKinds, lot : Lots, figures : Figures,
              currency : Currencies \cup {NoCurrency},
              from : Locations \cup {NoLocation},
              to : Locations \cup {NoLocation}]

\* The audit row of an edit: summarizeAsset of the row before and after.
Edits == [lot : Lots, before : Figures, after : Figures]

LotsOf(p) == {l \in Lots : PurchaseOf[l] = p}
GiftLots == LotsOf(NoPurchase)

-----------------------------------------------------------------------------
(* Disposal arithmetic (movement-domain.ts) *)

\* The integers nearest to num/den.  The code divides first, at twenty digits,
\* and rounds half-even last; an exact tie may therefore go either way.
Nearest(num, den) ==
    {k \in 0..num : 2 * (den * k - num) <= den /\ 2 * (num - den * k) <= den}

\* Fault: the remainder is a second rounded multiplication.
SplitsRoundedTwice(balance, quantity) ==
    IF quantity = balance.quantity
    THEN {[out |-> balance, left |-> Nothing]}
    ELSE LET rest == balance.quantity - quantity
         IN  {[out  |-> [quantity |-> quantity, weight |-> w, cost |-> c],
               left |-> [quantity |-> rest, weight |-> v, cost |-> d]] :
                w \in Nearest(balance.weight * quantity, balance.quantity),
                c \in Nearest(balance.cost * quantity, balance.quantity),
                v \in Nearest(balance.weight * rest, balance.quantity),
                d \in Nearest(balance.cost * rest, balance.quantity)}

\* splitForDisposal: the whole remainder takes the stored balance as it is; a
\* part takes its rounded share and leaves the difference.
Splits(balance, quantity) ==
    IF quantity = balance.quantity
    THEN {[out |-> balance, left |-> Nothing]}
    ELSE {[out  |-> [quantity |-> quantity, weight |-> w, cost |-> c],
           left |-> [quantity |-> balance.quantity - quantity,
                     weight   |-> balance.weight - w,
                     cost     |-> balance.cost - c]] :
             w \in Nearest(balance.weight * quantity, balance.quantity),
             c \in Nearest(balance.cost * quantity, balance.quantity)}

BooksRealizedPnl(kind) == kind \in {"SALE", "LOST", "DAMAGED"}

\* Fault: one kind is missing from the switch.
StatusForgettingGifts(kind, remaining) ==
    IF remaining > 0 THEN "HELD"
    ELSE CASE kind = "SALE"     -> "SOLD"
           [] kind = "LOST"     -> "LOST"
           [] kind = "DAMAGED"  -> "DAMAGED"
           [] OTHER             -> "HELD"

StatusAfterDisposal(kind, remaining) ==
    IF remaining > 0 THEN "HELD"
    ELSE CASE kind = "SALE"     -> "SOLD"
           [] kind = "GIFT_OUT" -> "GIFTED"
           [] kind = "LOST"     -> "LOST"
           [] kind = "DAMAGED"  -> "DAMAGED"
           [] OTHER             -> "HELD"

-----------------------------------------------------------------------------
(* What a call writes.  `row' is the row the call read; the AfterX operators *)
(* update the stored row with the columns that call's updateMany sets.       *)

DisposalMovement(l, row, kind, split) ==
    [kind |-> kind, lot |-> l, figures |-> split.out,
     currency |-> IF BooksRealizedPnl(kind) THEN row.currency ELSE NoCurrency,
     from |-> row.location, to |-> NoLocation]

AfterDisposal(stored, kind, split) ==
    [status |-> StatusAfterDisposal(kind, split.left.quantity),
     figures |-> split.left, currency |-> stored.currency,
     location |-> stored.location, version |-> stored.version + 1]

TransferMovement(l, row, to) ==
    [kind |-> "STORAGE_TRANSFER", lot |-> l, figures |-> Nothing,
     currency |-> NoCurrency, from |-> row.location, to |-> to]

\* Fault: a transfer leaves the version alone.
TransferWithoutBump(stored, to) == [stored EXCEPT !.location = to]

AfterTransfer(stored, to) ==
    [status |-> stored.status, figures |-> stored.figures,
     currency |-> stored.currency, location |-> to,
     version |-> stored.version + 1]

\* An edit names new values for some of a lot's columns.  A new quantity with
\* no new weight rescales the weight by the old weight per unit.
Corrections == [quantity : Nat \cup {Keep}, weight : Nat \cup {Keep},
                cost : Nat \cup {Keep}, currency : Currencies \cup {Keep},
                location : Locations \cup {Keep}]

Over(value, stored) == IF value = Keep THEN stored ELSE value

CorrectedFigures(old, edit) ==
    IF edit.quantity = Keep /\ edit.weight = Keep /\ edit.cost = Keep
    THEN {Keep}
    ELSE {[quantity |-> Over(edit.quantity, old.quantity), weight |-> w,
           cost |-> Over(edit.cost, old.cost)] :
             w \in IF edit.weight # Keep THEN {edit.weight}
                   ELSE IF edit.quantity = Keep THEN {old.weight}
                   ELSE Nearest(old.weight * edit.quantity, old.quantity)}

AfterCorrection(stored, edit, figures) ==
    [status |-> stored.status, figures |-> Over(figures, stored.figures),
     currency |-> Over(edit.currency, stored.currency),
     location |-> Over(edit.location, stored.location),
     version |-> stored.version + 1]

\* Fault: the correction leaves the version alone.
RelabelWithoutBump(stored, c) == [stored EXCEPT !.currency = c]

\* purchases.update on one lot of a purchase whose currency was corrected.
AfterRelabel(stored, c) ==
    [status |-> stored.status, figures |-> stored.figures, currency |-> c,
     location |-> stored.location, version |-> stored.version + 1]

GiftMovement(l, figures) ==
    [kind |-> "GIFT_IN", lot |-> l, figures |-> figures,
     currency |-> NoCurrency, from |-> NoLocation, to |-> NoLocation]

GiftRow(figures, c, location) ==
    [status |-> "HELD", figures |-> figures, currency |-> c,
     location |-> location, version |-> 1]
=============================================================================
