------------------------ MODULE MCPurchaseSnapshots ------------------------
(***************************************************************************)
(* Small instances of PurchaseSnapshots: one purchase of two metals with   *)
(* two workers, or an older and a newer purchase of one metal each.        *)
(***************************************************************************)
EXTENDS PurchaseSnapshots, TLC

CONSTANTS gold, silver, w1, w2, u1, u2, TWD, USD, EUR

MCAllMetals == [p \in Purchases |-> Metals]

MCSymmetry == Permutations(Workers) \cup Permutations(Updates)
=============================================================================
