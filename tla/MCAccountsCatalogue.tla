------------------------- MODULE MCAccountsCatalogue --------------------------
(* Instances of Accounts and ProductEditing for TLC: a behaviour is about one of them, and the
   module it is not about stays where it starts. *)
EXTENDS Accounts, ProductEditing, TLC

-----------------------------------------------------------------------------
(* The account: who logs in, and from where *)

CONSTANTS account, other, address, passkeyAccount

MCKeys == {account, other, address, passkeyAccount}
\* With an address and without one.
MCBuckets == {<<account, address>>, <<other>>}
MCPasskeyBuckets == <<passkeyAccount, address>>

\* What one behaviour starts from and asks for.
CONSTANTS s1, s2, k1
Mix(kinds, live, passkeysThere, lapses, ticks, stops) ==
    [kinds |-> kinds, live |-> live, passkeys |-> passkeysThere,
     lapses |-> lapses, ticks |-> ticks, restarts |-> stops]
MCMixes ==
    {Mix({"Initialize", "Login"}, {}, {}, TRUE, 0, 1),
     Mix({"Login"}, {}, {}, FALSE, 4, 1),
     Mix({"BeginLogin", "PasskeyLogin"}, {}, {k1}, FALSE, 2, 0),
     Mix({"Login", "ChangePassword"}, {s1}, {}, FALSE, 0, 0),
     Mix({"Logout", "LogoutOthers", "ChangePassword"}, {s1, s2}, {}, TRUE, 0, 0),
     Mix({"BeginRegister", "Register", "RemovePasskey", "Logout"}, {s1}, {}, FALSE, 0, 0),
     Mix({"BeginStepUp", "StepUp", "ChangeUsername"}, {s1, s2}, {k1}, TRUE, 0, 0)}

Symmetry == Permutations(Callers) \cup Permutations(Challenges)

-----------------------------------------------------------------------------
(* A product with a brand that is only text, and one made by its brand's organization *)

MCNum == [g |-> 1, oz |-> 31]
MCDen == [g |-> 1, oz |-> 10]

Row(brand, assigned) ==
    [version |-> 1, name |-> "n1", active |-> TRUE, brand |-> brand, weight |-> 100,
     unit |-> "oz", parties |-> assigned]
Party(org, role, primary) == [org |-> org, role |-> role, primary |-> primary]
MCInitially == {Row("text", {}), Row("A", {Party("A", "BRAND", TRUE), Party("B", "MINT", FALSE)})}
MCBounds == [others |-> 1, edits |-> 2, saves |-> 2, reads |-> 1, faults |-> 1]

-----------------------------------------------------------------------------
VARIABLE about     \* "accounts" or "products"

ComponentInit ==
    /\ Init /\ ProductInit
    /\ about \in {"accounts", "products"}
    /\ about # "accounts" => mix = CHOOSE m \in Mixes : TRUE
    /\ about # "products" => product = CHOOSE r \in Initially : TRUE

ComponentNext ==
    /\ UNCHANGED about
    /\ \/ about = "accounts" /\ Next /\ UNCHANGED prodVars
       \/ about = "products" /\ ProductNext /\ UNCHANGED vars

ComponentSpec == ComponentInit /\ [][ComponentNext]_<<vars, prodVars, about>>
===============================================================================
