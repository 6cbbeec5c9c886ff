---------------------------- MODULE MCWizardDraft ----------------------------
(* Instances of WizardDraft, OrganizationSearch, Pickers and AccountPages for TLC: a behaviour is
   about one of them, and the modules it is not about stay where they start. *)
EXTENDS WizardDraft, OrganizationSearch, Pickers, AccountPages

CONSTANTS g1, g2, w1, w2, w3, b1, b2

Desk(topics, start, next, edits, loads, saves, faults, revisions) ==
    [topics |-> topics, start |-> start, nextId |-> next, edits |-> edits, loads |-> loads,
     saves |-> saves, faults |-> faults, revisions |-> revisions]

\* A draft that was filled in before, with one item and with two.
Filled(id) == [Item(id) EXCEPT !.named = TRUE, !.price = 1]
Made(id, p) == [Filled(id) EXCEPT !.product = p, !.version = 1, !.spec = [of |-> p, at |-> 1]]
Full(items) == [NewDraft EXCEPT !.items = items, !.step = ReviewStep, !.furthest = ReviewStep]

\* The same, opened where the edits of a topic are made.
At(step, items) == [Full(items) EXCEPT !.step = step]

\* Two photos of the first item, of which the first is its main one.
Pictured(d, id) ==
    [d EXCEPT !.photos = <<[Photo(id, 1) EXCEPT !.primary = TRUE], Photo(id + 1, 1)>>]
TwoItems == Pictured(At(PhotosStep, <<Filled(1), Filled(2)>>), 3)

MCDesks == {
    Desk({"products", "costs", "review"}, NewDraft, 2, 2, 0, 0, 0, 0),
    Desk({"items", "photos"}, TwoItems, 5, 2, 1, 0, 0, 0),
    Desk({"items", "photos"}, TwoItems, 5, 2, 0, 1, 0, 0),
    Desk({"items", "photos"}, TwoItems, 5, 1, 1, 1, 1, 0),
    Desk({"photos", "review"}, Pictured(At(PhotosStep, <<Filled(1)>>), 3), 5, 1, 1, 0, 0, 0),
    Desk({"items", "costs", "review"}, At(CostsStep, <<Filled(1)>>), 2, 3, 0, 0, 0, 0),
    Desk({"products", "review"}, At(ItemsStep, <<Made(1, g1), Made(2, g2)>>), 3, 0, 0, 0, 1, 2),
    Desk({"products", "review"}, At(ItemsStep, <<Filled(1)>>), 2, 1, 0, 0, 0, 2) }
-----------------------------------------------------------------------------
(* Organizations whose names and aliases contain each other *)

MCRoles == {"BRAND", "MINT"}
Org(id, name, aliases, verified, capable) ==
    [id |-> id, name |-> name, aliases |-> aliases, verified |-> verified, active |-> TRUE,
     capable |-> capable]
MCSeeded ==
    {Org(1, <<"b", "a">>, {}, TRUE, MCRoles),
     Org(2, <<"a", "b">>, {<<"b", "b">>}, TRUE, {"BRAND"}),
     Org(4, <<"a">>, {<<"b">>}, FALSE, MCRoles)}
MCProposals ==
    {Org(3, <<"a", "a">>, {<<"a", "b", "a">>}, FALSE, MCRoles),
     Org(5, <<"b", "b", "a">>, {<<"a", "a">>}, FALSE, {})}
MCQueries == {<<>>, <<"a">>, <<"b", "a">>}
MCDrafts ==
    {{},
     {[org |-> 1, name |-> <<"b", "a">>, role |-> "BRAND", primary |-> TRUE],
      [org |-> 0, name |-> <<"a">>, role |-> "BRAND", primary |-> FALSE]}}

Effort(types, opens, picks, faults, creates) ==
    [types |-> types, opens |-> opens, picks |-> picks, faults |-> faults, creates |-> creates]
MCEfforts == {Effort(2, 1, 1, 0, 0), Effort(2, 1, 0, 0, 1), Effort(1, 1, 1, 1, 1),
              Effort(0, 0, 0, 0, 2), Effort(1, 2, 3, 0, 0)}

-----------------------------------------------------------------------------
(* Lists with options that cannot be chosen, and dealers named a, A and ab *)

Option(value) == [value |-> value, disabled |-> FALSE]
Grey(value) == [value |-> value, disabled |-> TRUE]
MCCatalogue ==
    [select |-> {<<Option("x"), Grey("y"), Option("z")>>, <<Grey("x"), Option("y")>>,
                 <<Grey("y"), Grey("z")>>, <<>>},
     search |-> {<<Option("x"), Option("y"), Option("z")>>, <<Option("z"), Option("x")>>, <<>>},
     rows |-> {<<Option("x"), Option("y"), Option("z")>>, <<Grey("x"), Option("y"), Grey("z")>>,
               <<Grey("x"), Grey("y"), Grey("z")>>}]
MCCurrentValues == [select |-> {"", "z", "old"}, search |-> {"", "y", "old"}, rows |-> {""}]
MCSearches == {"", "o", "z"}
MCRankOf == [o |-> [x |-> 3, y |-> 2, z |-> 4, old |-> 0], z |-> [x |-> 4, y |-> 4, z |-> 0, old |-> 4]]

MCFolded == [t \in 0..3 |-> IF t = 2 THEN 1 ELSE t]
MCTrimmed == [t \in 0..3 |-> t]
MCWithin == {<<0, 1>>, <<0, 3>>, <<1, 1>>, <<1, 3>>, <<3, 3>>}
Bought(d, branch) == [dealer |-> d, branch |-> branch]
MCPurchased == {Bought(1, 1), Bought(1, 3), Bought(3, 1), Bought(3, 2), Bought(0, 1)}
MCOthers == {Bought(2, 2)}

-----------------------------------------------------------------------------
(* Two windows of a browser, and one of another *)

MCJarOf(w) == IF w = w3 THEN b2 ELSE b1
Visit(windows, start, keys, presses, moves, faults, lapses) ==
    [windows |-> windows, start |-> start, keys |-> keys, presses |-> presses, moves |-> moves,
     faults |-> faults, lapses |-> lapses]
MCVisits ==
    {Visit({w1}, "in", 1, 2, 0, 0, 0),        \* two cards at once
     Visit({w1}, "in", 1, 1, 2, 0, 0),        \* a card that is left, and reads of other origin
     Visit({w1}, "in", 1, 1, 1, 1, 0),        \* a bad network
     Visit({w1}, "in", 0, 2, 0, 1, 0),
     Visit({w1, w2}, "in", 0, 2, 0, 0, 0),    \* two windows of one session
     Visit({w1, w3}, "in", 0, 2, 0, 0, 0),    \* two devices
     Visit({w1}, "in", 1, 1, 0, 1, 1),        \* a session that ends by itself
     Visit({w1, w2}, "out", 1, 2, 0, 0, 0),
     Visit({w1}, "new", 0, 2, 1, 1, 0)}

-----------------------------------------------------------------------------
VARIABLE about     \* "draft", "organizations", "lists", "dealers" or "account"

WizardsInit ==
    /\ DraftInit /\ OrgInit /\ PickersInit /\ PagesInit
    /\ about \in {"draft", "organizations", "lists", "dealers", "account"}
    /\ about # "draft" => desk = CHOOSE d \in Desks : TRUE
    /\ about # "organizations" => parties = {} /\ effort = CHOOSE e \in Efforts : TRUE
    /\ about # "lists" => list = InitialList("rows", CHOOSE o \in Catalogue["rows"] : TRUE, "")
    /\ about # "account" =>
           visit = (CHOOSE v \in Visits : v.start = "out") /\ jar = [b \in Jars |-> 0]

WizardsNext ==
    /\ UNCHANGED about
    /\ \/ about = "draft" /\ DraftNext /\ UNCHANGED <<orgVars, pickVars, pageVars>>
       \/ about = "organizations" /\ OrgNext /\ UNCHANGED <<draftVars, pickVars, pageVars>>
       \/ /\ about = "lists" /\ ListNext
          /\ UNCHANGED <<draftVars, orgVars, dealer, purchased, pageVars>>
       \/ /\ about = "dealers" /\ DealerNext
          /\ UNCHANGED <<draftVars, orgVars, list, pageVars>>
       \/ about = "account" /\ PagesNext /\ UNCHANGED <<draftVars, orgVars, pickVars>>

WizardsSpec ==
    WizardsInit /\ [][WizardsNext]_<<draftVars, orgVars, pickVars, pageVars, about>>
        /\ DraftFairness

\* Drafts stay readable and consistent, organizations keep one name each and are found by what was
\* asked last, and the account's pages show who is logged in and what the user was told.
WizardsStaySound == DraftsStayWhole /\ OrganizationsAreSound /\ AccountPagesAreTrue
=============================================================================
