-------------------------- MODULE MCPurchaseIntake --------------------------
(***************************************************************************)
(* Small instances of PurchaseIntake: two drafts and keys that may be      *)
(* reused between them, or one draft that already holds a file.            *)
(***************************************************************************)
EXTENDS PurchaseIntake, TLC

CONSTANTS c1, c2, c3, d1, d2, k1, k2, b1, b2, item, u1, x1, x2, old

\* b1 has a line for the draft item, b2 has none.
MCItemsOf == [b \in Bodies |-> IF b = b1 THEN Items ELSE {}]

\* The file old: awaiting review, with or without a derivative, or confirmed.
MCOldRow == [f \in OldFiles |->
    {[owner |-> d1, item |-> item, mode |-> "OBJECT_CROP",
      confirmed |-> done, derivatives |-> n, deleted |-> FALSE, version |-> 1,
      key |-> NoKey, content |-> NoKey] :
        <<done, n>> \in {<<FALSE, 0>>, <<FALSE, 1>>, <<TRUE, 1>>}}]

\* Two drafts and keys that may be reused between them, and one draft with a file.
MCDesks ==
    {[operations |-> {"finalize", "create", "save", "cancel"},
      intakes |-> {d1, d2}, keys |-> {k1, k2}, files |-> {}],
     [operations |-> {"finalize", "upload", "variant", "review", "delete"},
      intakes |-> {d1}, keys |-> {k1}, files |-> {old}]}

MCSymmetry == Permutations(Calls)
=============================================================================
