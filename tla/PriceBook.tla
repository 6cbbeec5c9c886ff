----------------------------- MODULE PriceBook -----------------------------
(***************************************************************************)
(* What the stored market data promises its readers: a book of dated       *)
(* prices in which an entry, once published, changes by hand only.         *)
(***************************************************************************)
CONSTANTS Entries, Rows, ByHand(_)  \* the keys of the book, its rows, whose they are

VARIABLE book   \* a function on the entries published so far

TypeOK == \E E \in SUBSET Entries : book \in [E -> Rows]

Init == book = [e \in {} |-> {}]

Publish(e, row) ==
    /\ e \notin DOMAIN book
    /\ book' = [x \in DOMAIN book \cup {e} |-> IF x = e THEN row ELSE book[x]]

Correct(e, row) ==
    /\ e \in DOMAIN book /\ ByHand(row)
    /\ book' = [book EXCEPT ![e] = row]

Next == \E e \in Entries, row \in Rows : Publish(e, row) \/ Correct(e, row)

Spec == Init /\ [][Next]_book
=============================================================================
