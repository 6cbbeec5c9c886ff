--------------------------- MODULE MCLedgerScreens ----------------------------
(* Instances of Backup, Portfolio, DisposalDialog and HoldingForm for TLC: a behaviour is about one
   of them, and the modules it is not about stay where they start. *)
EXTENDS Backup, Portfolio, DisposalDialog, HoldingForm

-----------------------------------------------------------------------------
(* Backup: one row of each table that matters to a purchase, its draft and its photo, and the
   rows another request, the worker and a later deployment may write *)

MCTable == [u |-> "appUser", u2 |-> "appUser", s |-> "userSession", h |-> "webAuthnChallenge", d |-> "purchaseIntake",
            g |-> "metal", o |-> "organization", b |-> "purchase", i |-> "purchaseItem",
            a |-> "asset", f |-> "attachment", c |-> "attachmentVariant",
            df |-> "attachment", x |-> "fxRateSnapshot", a2 |-> "asset",
            f2 |-> "attachment"]

MCRow == DOMAIN MCTable

MCRefs == [u |-> {}, u2 |-> {}, s |-> {"u"}, h |-> {}, d |-> {"u"}, g |-> {}, o |-> {}, b |-> {"d"},
           i |-> {"b", "g"}, a |-> {"i", "b", "g"}, f |-> {"a", "u"}, c |-> {"f"},
           df |-> {"d", "u"}, x |-> {}, a2 |-> {"g"},
           f2 |-> {"a2"}]

MCInitially == {"u", "s", "d", "g", "b", "i", "a", "f", "c"}
MCFresh == {"u2", "g", "o"}

MCOldRows == {"u", "g", "b", "i", "a", "f", "df"}

MCOldFiles ==
    <<[rows |-> [r \in MCOldRows |-> MCRefs[r]], objects |-> {"f", "df"}, intakes |-> FALSE,
       readable |-> TRUE],
      [rows |-> <<>>, objects |-> {}, intakes |-> TRUE, readable |-> FALSE]>>

Scenario(writes, exports, restores, faults, reloads, disasters) ==
    [writes |-> writes, exports |-> exports, restores |-> restores, faults |-> faults,
     reloads |-> reloads, disasters |-> disasters]

MCScenarios == {Scenario(2, 1, 0, 0, 0, 0), Scenario(1, 1, 1, 1, 0, 1), Scenario(2, 0, 1, 0, 0, 0),
                Scenario(0, 0, 2, 1, 1, 1),
                Scenario(1, 1, 2, 0, 0, 0), Scenario(0, 1, 2, 1, 0, 1)}

-----------------------------------------------------------------------------
(* Figures *)

\* Grams, and a unit of 3.1 grams.
MCNum == [g |-> 1, oz |-> 31]
MCDen == [g |-> 1, oz |-> 10]

Line(metal, q, w, u, purity, subtotal, manual) ==
    [metal |-> metal, quantity |-> q, weight |-> w, unit |-> u, purity |-> purity,
     subtotal |-> subtotal, manual |-> manual]
Paid(currency, lines, charges, discount, method) ==
    [currency |-> currency, lines |-> lines, charges |-> charges, discount |-> discount,
     method |-> method]
Gold(w, subtotal) == Line("XAU", 1, w, "g", 9, subtotal, 0)

\* Three items, by every method, with weights and prices that do not divide evenly; and two
\* whose costs are entered.
MCAllocations ==
    {Paid("TWD", <<Line("XAU", q, w, u, purity, a, 0), Gold(2, b), Gold(w, c)>>, charges, less, method) :
        q \in {1, 2}, w \in {1, 3}, u \in {"g", "oz"}, purity \in {3, 10},
        a \in {0, 3}, b \in {0, 4}, c \in {0, 1, 5}, charges \in {0, 2}, less \in {0, 1},
        method \in {"SUBTOTAL_PROPORTIONAL", "WEIGHT_PROPORTIONAL", "EQUAL"}}
    \cup {Paid("TWD", <<Line("XAU", 1, 1, "g", 9, 3, a), Line("XAG", 1, 2, "g", 9, 4, b)>>, 1, 0, "MANUAL") :
        a, b \in 0 .. 8}

\* Two metals, two lines of one metal, and a purchase in another currency.
MCPurchases ==
    {Paid("TWD", <<Gold(2, 3), Line("XAG", 2, 5, "g", 9, 4, 0)>>, 1, 0, "EQUAL"),
     Paid("TWD", <<Gold(5, 18), Gold(1, 2)>>, 0, 0, "SUBTOTAL_PROPORTIONAL"),
     Paid("EUR", <<Gold(2, 3)>>, 1, 0, "WEIGHT_PROPORTIONAL")}

Effort(b, s, q, c, a, f, v) ==
    [buys |-> b, sells |-> s, quotes |-> q, captures |-> c, asks |-> a, faults |-> f, views |-> v]
MCFolios ==
    {[inputs |-> MCAllocations, quota |-> Effort(1, 0, 0, 0, 0, 0, 0)]}
    \cup {[inputs |-> MCPurchases, quota |-> e] :
            e \in {Effort(2, 1, 0, 0, 1, 0, 0), Effort(2, 0, 1, 0, 1, 1, 0),
                   Effort(2, 0, 0, 1, 1, 0, 0), Effort(3, 0, 0, 2, 0, 0, 1)}}

-----------------------------------------------------------------------------
(* Disposals: a lot of three that cost 25, which does not divide evenly *)

MCOpening == [l \in Holdings |-> [quantity |-> 3, cost |-> 25]]
MCAmended == {[quantity |-> 2, cost |-> 5]}

Trial(actions, typings, dialogs, faults, edits, loads, moves) ==
    [actions |-> actions, typings |-> typings, dialogs |-> dialogs, faults |-> faults,
     edits |-> edits, loads |-> loads, moves |-> moves]
MCTrials == {Trial({"SALE"}, 2, 2, 1, 0, 1, 0), Trial({"SALE"}, 2, 1, 1, 0, 1, 2),
             Trial({"SALE"}, 2, 1, 0, 1, 1, 0), Trial({"GIFT_OUT", "LOST"}, 1, 2, 1, 1, 0, 1)}

-----------------------------------------------------------------------------
(* Holding forms: two lots of a purchase, one with a name of its own, and a gift *)

FormLot(quantity, gross, override) ==
    [status |-> "HELD", version |-> 1, quantity |-> quantity, gross |-> gross, cost |-> 1,
     currency |-> "TWD", serial |-> "a", packaging |-> "", override |-> override]
MCFormLots == [p1 |-> FormLot(2, 7, ""), p2 |-> FormLot(1, 5, "b"), g1 |-> FormLot(3, 10, "b")]

MCEntries ==
    [quantity |-> {0, 3}, weight |-> {0, 5}, cost |-> {2}, currency |-> {"TWD", "USD"},
     serial |-> {"", "b"}, packaging |-> {"b"}, name |-> {"", "a", "b"}, dealer |-> {"b"}]

World(typings, saves, faults, loads, renamings, leavings) ==
    [typings |-> typings, saves |-> saves, faults |-> faults, loads |-> loads,
     renamings |-> renamings, leavings |-> leavings]
MCFormWorlds == {World(2, 2, 1, 0, 0, 0), World(2, 1, 0, 1, 0, 0), World(1, 2, 0, 1, 1, 0),
                 World(1, 2, 1, 1, 0, 1)}

MCSymmetry == Permutations(Screens) \cup Permutations(Editors)

-----------------------------------------------------------------------------
VARIABLE about     \* the module a behaviour is about

ScreensInit ==
    /\ BackupInit /\ FolioInit /\ DialogInit /\ FormInit
    /\ about \in {"backups", "figures", "disposals", "forms"}
    /\ about = "backups" \/ left = CHOOSE s \in Scenarios : TRUE
    /\ about = "figures" \/ /\ prices = [m \in Codes |-> NoFigure]
                            /\ [inputs |-> inputs, quota |-> quota] = CHOOSE f \in Folios : TRUE
    /\ about = "disposals" \/ trial = CHOOSE t \in Trials : TRUE
    /\ about = "forms" \/ quotas = CHOOSE q \in FormWorlds : TRUE

ScreensNext ==
    \/ about = "backups" /\ BackupNext /\ UNCHANGED <<folioVars, dialogVars, formVars, about>>
    \/ about = "figures" /\ FolioNext /\ UNCHANGED <<backupVars, dialogVars, formVars, about>>
    \/ about = "disposals" /\ DialogNext /\ UNCHANGED <<backupVars, folioVars, formVars, about>>
    \/ about = "forms" /\ FormNext /\ UNCHANGED <<backupVars, folioVars, dialogVars, about>>

screensVars == <<backupVars, folioVars, dialogVars, formVars, about>>

ScreensSpec == ScreensInit /\ [][ScreensNext]_screensVars
===============================================================================
