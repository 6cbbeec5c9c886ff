----------------------------- MODULE SingleUse -----------------------------
(***************************************************************************)
(* What the accounts promise of every proof they hand out (a challenge, a  *)
(* step-up verification): it is redeemed at most once, and stays redeemed. *)
(***************************************************************************)
EXTENDS Naturals

CONSTANT Tokens

VARIABLE uses   \* uses[t]: how often t has been redeemed

Init == uses = [t \in Tokens |-> 0]

Redeem(t) == uses[t] = 0 /\ uses' = [uses EXCEPT ![t] = 1]

Next == \E t \in Tokens : Redeem(t)

Spec == Init /\ [][Next]_uses
=============================================================================
