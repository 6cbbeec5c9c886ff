-------------------------- MODULE MCHoldingLedger --------------------------
(***************************************************************************)
(* Small instances of HoldingLedger: one purchase with two lots and one    *)
(* gift; figures that do not divide evenly, so that rounding happens.      *)
(***************************************************************************)
EXTENDS HoldingLedger, TLC

CONSTANTS r1, r2, r3, lotA, lotB, gift, p1, TWD, USD, home, bank

MCPurchaseOf ==
    [l \in Lots |-> IF l = gift THEN NoPurchase ELSE p1]

MCOpening == [l \in Lots \ {gift} |->
    [status |-> "HELD", currency |-> TWD, location |-> home, version |-> 1,
     figures |-> IF l = lotA THEN [quantity |-> 3, weight |-> 4, cost |-> 5]
                             ELSE [quantity |-> 1, weight |-> 2, cost |-> 0]]]

Edit0 == [quantity |-> Keep, weight |-> Keep, cost |-> Keep,
          currency |-> Keep, location |-> Keep]

MCEdits == {Edit0,
            [Edit0 EXCEPT !.quantity = 2],
            [Edit0 EXCEPT !.weight = 3, !.cost = 1, !.location = bank],
            [Edit0 EXCEPT !.currency = USD]}

MCGifts == {[quantity |-> 2, weight |-> 1, cost |-> 0]}

MCSymmetry == Permutations(Requests)
=============================================================================
