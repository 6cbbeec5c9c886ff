------------------------------- MODULE Pickers --------------------------------
(* What the web client's values are picked with: CustomSelect ("select"), SearchableSelect
   ("search"), the menu of a row's actions RowActionsMenu ("rows"), and the wizard's
   DealerCombobox with the search behind it.

   The screen may give a list other options, or disable it, at any moment.  React renders them
   first and runs the effects later: `due` names the effects still to run, and clicks and keys may
   come before them.  A click on an option and Enter on the highlighted one do the same.  Indexes
   are the code's plus one, 0 is the code's -1 (no highlight, or the focus outside the menu).

   The combobox shows what the query cache holds for the typed text, or, until that has come,
   what it held for the text before.  DealerTexts are numbers in the order the database sorts them. *)
EXTENDS Naturals, FiniteSets, SequencesExt

CONSTANTS
    Catalogue,     \* per kind of list, the sequences of options [value, disabled] it may show
    CurrentValues, \* per kind, the values it may start with; "" is none
    Searches,      \* texts typed into a searchable list; "" is none
    RankOf,        \* RankOf[text][value]: matchRank, or Unmatched
    Unmatched,
    DealerTexts,         \* dealers' names and what is typed for one; 0 is the empty text
    Folded,        \* a text in lower case
    Trimmed,       \* a text without the blanks around it
    Within,        \* the pairs <<t, u>> of lower case texts with t contained in u
    Purchased,     \* [dealer, branch]: the purchases recorded
    Others,        \* those another page may record meanwhile
    TypedBranches,
    MaxTyped,      \* texts typed for a dealer in one behaviour
    NoBranch,      \* sorted last, as the database sorts NULL
    MaxRows,       \* take: 50
    FirstShown,    \* how many are shown before anything is typed: 20
    NoData, SearchFailed

ASSUME PickersAssumption ==
    /\ 0 \in DealerTexts /\ DealerTexts \subseteq Nat /\ MaxRows \in Nat \ {0} /\ FirstShown \in Nat
    /\ Folded \in [DealerTexts -> DealerTexts] /\ Trimmed \in [DealerTexts -> DealerTexts]

VARIABLES
    list,          \* one list
    dealer,        \* the combobox and the two fields of the transaction it fills
    purchased      \* the purchases recorded by now

pickVars == <<list, dealer, purchased>>

-----------------------------------------------------------------------------
(* Lists *)

Choosable(options) == {i \in DOMAIN options : ~options[i].disabled}
FirstChoosable(options) == IF Choosable(options) = {} THEN 0 ELSE Min(Choosable(options))
LastChoosable(options) == IF Choosable(options) = {} THEN 0 ELSE Max(Choosable(options))
Clamped(i, n) == IF i > n THEN Max({n, 1}) ELSE Max({i, 1})

\* The value a list holds stays selectable though its catalogue lacks it.
WithCurrentOption(options, value) ==
    IF value = "" \/ \E i \in DOMAIN options : options[i].value = value
    THEN options
    ELSE <<[value |-> value, disabled |-> FALSE]>> \o options
WithCurrentReference(options, value) == WithCurrentOption(options, value)

\* Those that match the text, best match first and otherwise in the catalogue's order.
FilteredOptions(options, text) ==
    LET Better(i, j) == \/ RankOf[text][options[i].value] < RankOf[text][options[j].value]
                        \/ /\ RankOf[text][options[i].value] = RankOf[text][options[j].value]
                           /\ i < j
        matching == {i \in DOMAIN options : RankOf[text][options[i].value] # Unmatched}
    IN IF text = "" THEN options
       ELSE [k \in 1..Cardinality(matching) |-> options[SetToSortSeq(matching, Better)[k]]]

ResolvedOptions(l) ==
    CASE l.kind = "select" -> WithCurrentOption(l.options, l.value)
      [] l.kind = "search" -> WithCurrentReference(l.options, l.value)
      [] OTHER -> l.options
ShownOptions(l) ==
    IF l.kind = "search" THEN FilteredOptions(ResolvedOptions(l), l.query) ELSE ResolvedOptions(l)

\* The selected option when it can be chosen, the first that can otherwise.
SelectedOrFirst(l) ==
    LET selected == {i \in DOMAIN ResolvedOptions(l) : ResolvedOptions(l)[i].value = l.value}
    IN IF selected \cap Choosable(ResolvedOptions(l)) # {} THEN Min(selected)
       ELSE FirstChoosable(ResolvedOptions(l))

\* The next option of a select that can be chosen; at an end the highlight stays.
NextInSelect(options, i, up) ==
    LET n == Len(options)
        from == Clamped(IF up THEN i + 1 ELSE IF i = 0 THEN 0 ELSE i - 1, n)
        ahead == {j \in Choosable(options) : IF up THEN j >= from ELSE j <= from}
        stuck == from \in {1, n} /\ options[from].disabled
    IN IF Choosable(options) = {} THEN 0
       ELSE IF ahead # {} /\ ~stuck THEN (IF up THEN Min(ahead) ELSE Max(ahead))
       ELSE IF i > n \/ i \in Choosable(options) THEN i ELSE FirstChoosable(options)

NextInSearch(n, i, up) == IF n = 0 THEN 1 ELSE Clamped(IF up THEN i + 1 ELSE i - 1, n)

\* The next of a row's actions, round and round.
NextInMenu(options, i, up) ==
    LET ahead == {j \in Choosable(options) : IF up THEN j > i ELSE j < i}
    IN IF i \notin Choosable(options) \/ ahead = {}
       THEN IF up THEN FirstChoosable(options) ELSE LastChoosable(options)
       ELSE IF up THEN Min(ahead) ELSE Max(ahead)

InitialList(kind, options, value) ==
    [kind |-> kind, options |-> options, value |-> value, disabled |-> FALSE, open |-> FALSE,
     query |-> "", active |-> IF kind = "search" THEN 1 ELSE 0, due |-> {}]

-----------------------------------------------------------------------------
(* The screen around a list *)

\* A row whose focused action is disabled may lose the focus with it.
OptionsChange ==
    \E options \in Catalogue[list.kind] \ {list.options} :
    \E active \in {list.active, IF list.kind = "rows" THEN 0 ELSE list.active} :
        /\ active = 0 => list.active \notin Choosable(options)
        /\ list' = [list EXCEPT !.options = options, !.active = active, !.due = @ \cup {"options"}]

DisabledChange ==
    /\ list.kind # "rows"
    /\ list' = [list EXCEPT !.disabled = ~@, !.due = @ \cup {"disabled"}]

\* Fault: the highlight outlives the options it was for.
SelectForgetsHighlight ==
    /\ list.kind = "select" /\ list.due # {}
    /\ list' = [list EXCEPT !.due = {},
                            !.open = @ /\ ~("disabled" \in list.due /\ list.disabled)]

\* The effects of the three lists.  Only the select closes when it is disabled.
SelectEffects ==
    /\ list.kind = "select" /\ list.due # {}
    /\ list' = [list EXCEPT
           !.due = {},
           !.open = @ /\ ~("disabled" \in list.due /\ list.disabled),
           !.active = IF list.open /\ "options" \in list.due THEN SelectedOrFirst(list) ELSE @]

SearchEffects ==
    /\ list.kind = "search" /\ list.due # {}
    /\ list' = [list EXCEPT !.due = {}, !.active = Clamped(@, Len(ShownOptions(list)))]

MenuEffects ==
    /\ list.kind = "rows" /\ list.due # {}
    /\ LET open == list.open /\ Choosable(list.options) # {}
       IN list' = [list EXCEPT !.due = {}, !.open = open, !.active = IF open THEN @ ELSE 0]

-----------------------------------------------------------------------------
(* The three lists in the user's hands *)

OpenSelect ==
    /\ list.kind = "select" /\ ~list.open /\ ~list.disabled
    /\ list' = [list EXCEPT !.open = TRUE, !.active = SelectedOrFirst(list)]

SelectKeys ==
    /\ list.kind = "select" /\ list.open /\ ~list.disabled
    /\ \E active \in {NextInSelect(ShownOptions(list), list.active, TRUE),
                      NextInSelect(ShownOptions(list), list.active, FALSE),
                      FirstChoosable(ShownOptions(list)), LastChoosable(ShownOptions(list))}
                     \cup Choosable(ShownOptions(list)) :         \* the pointer over an option
           list' = [list EXCEPT !.active = active]

\* Fault: an option that became unavailable is taken nevertheless.
ChooseAnything(i) ==
    /\ list.kind = "select" /\ list.open /\ i \in DOMAIN ShownOptions(list)
    /\ list' = [list EXCEPT !.open = FALSE, !.value = ShownOptions(list)[i].value]

ChooseInSelect(i) ==
    /\ list.kind = "select" /\ list.open /\ i \in Choosable(ShownOptions(list))
    /\ list' = [list EXCEPT !.open = FALSE, !.value = ShownOptions(list)[i].value]

OpenSearch ==
    /\ list.kind = "search" /\ ~list.open /\ ~list.disabled
    /\ LET at == {i \in DOMAIN ResolvedOptions(list) : ResolvedOptions(list)[i].value = list.value}
       IN list' = [list EXCEPT !.open = TRUE, !.query = "",
                               !.active = IF at = {} THEN 1 ELSE Min(at)]

SearchKeys ==
    /\ list.kind = "search" /\ ~list.disabled
    /\ \/ \E text \in Searches :
              list' = [list EXCEPT !.query = text, !.open = TRUE, !.active = 1]
       \/ /\ list.open
          /\ \E active \in {NextInSearch(Len(ShownOptions(list)), list.active, TRUE),
                            NextInSearch(Len(ShownOptions(list)), list.active, FALSE),
                            1, Max({Len(ShownOptions(list)), 1})} :
                 list' = [list EXCEPT !.active = active]

\* Neither asks whether the field is disabled: its list may still be open.
PointInSearch(i) ==
    /\ list.kind = "search" /\ list.open /\ i \in DOMAIN ShownOptions(list)
    /\ \/ list' = [list EXCEPT !.active = i]
       \/ list' = [list EXCEPT !.open = FALSE, !.query = "", !.value = ShownOptions(list)[i].value]

OpenMenu ==
    /\ list.kind = "rows" /\ ~list.open /\ Choosable(list.options) # {}
    /\ \E active \in {FirstChoosable(list.options), LastChoosable(list.options)} :
           list' = [list EXCEPT !.open = TRUE, !.active = active]

MenuKeys ==
    /\ list.kind = "rows" /\ list.open /\ list.active # 0 /\ Choosable(list.options) # {}
    /\ \E active \in {NextInMenu(list.options, list.active, TRUE),
                      NextInMenu(list.options, list.active, FALSE),
                      FirstChoosable(list.options), LastChoosable(list.options)} :
           list' = [list EXCEPT !.active = active]

\* A disabled button answers no click.
RunAction(i) ==
    /\ list.kind = "rows" /\ list.open /\ i \in Choosable(list.options)
    /\ list' = [list EXCEPT !.open = FALSE, !.active = 0, !.value = list.options[i].value]

\* Escape, Tab, a press elsewhere, the focus going elsewhere, the button pressed again.
CloseList ==
    /\ list.open
    /\ list' = [list EXCEPT !.open = FALSE, !.query = "",
                            !.active = IF list.kind = "rows" THEN 0 ELSE @]

ListNext ==
    \/ OptionsChange \/ DisabledChange \/ SelectEffects \/ SearchEffects \/ MenuEffects
    \/ OpenSelect \/ SelectKeys \/ OpenSearch \/ SearchKeys \/ OpenMenu \/ MenuKeys \/ CloseList
    \/ \E i \in DOMAIN ShownOptions(list) :
           ChooseInSelect(i) \/ PointInSearch(i) \/ RunAction(i)

-----------------------------------------------------------------------------
(* GET /dealers: the distinct pairs of dealer and branch, grouped by dealer *)

\* Fault: the rows are read in the order of their branches.
BranchFirst(r, s) == r.branch < s.branch \/ (r.branch = s.branch /\ r.dealer < s.dealer)

RowBefore(r, s) == r.dealer < s.dealer \/ (r.dealer = s.dealer /\ r.branch < s.branch)
\* Fault: dealers are searched by case.
RowsInCase(text, rows) == {r \in rows : r.dealer # 0 /\ <<text, r.dealer>> \in Within}

MatchingRows(text, rows) ==
    {r \in rows : r.dealer # 0 /\ <<Folded[text], Folded[r.dealer]>> \in Within}

DealersFound(text, rows) ==
    LET sorted == SetToSortSeq(MatchingRows(text, rows), RowBefore)
        taken == {sorted[i] : i \in 1..Min({MaxRows, Len(sorted)})}
        names == SetToSortSeq({r.dealer : r \in taken}, LAMBDA a, b : a < b)
    IN [i \in DOMAIN names |->
           [name |-> names[i],
            branches |-> {r.branch : r \in {s \in taken : s.dealer = names[i]}} \ {NoBranch}]]

-----------------------------------------------------------------------------
(* The combobox *)

HasData(d, text) == d.cache[text] \notin {NoData, SearchFailed}

\* Until an answer has come the last one shown stands in for it; a failed search shows nothing.
DealerOptions(d) ==
    IF HasData(d, d.query) THEN d.cache[d.query].found
    ELSE IF d.cache[d.query] = NoData /\ HasData(d, d.last) THEN d.cache[d.last].found
    ELSE <<>>
DealersShown(d) ==
    IF d.query # 0 THEN DealerOptions(d)
    ELSE SubSeq(DealerOptions(d), 1, Min({FirstShown, Len(DealerOptions(d))}))
OfferedAsNew(d) ==
    /\ d.query # 0
    /\ \A i \in DOMAIN DealerOptions(d) : Folded[DealerOptions(d)[i].name] # Folded[d.query]

\* Another text is another query, asked again if it failed before.
Querying(d, text) ==
    [d EXCEPT !.query = text,
              !.cache = IF d.cache[text] = SearchFailed THEN [@ EXCEPT ![text] = NoData] ELSE @,
              !.last = IF HasData(d, text) THEN text ELSE @]

SearchAnswers ==
    /\ HasData(dealer, dealer.query) => dealer.cache[dealer.query].read # purchased
    /\ dealer' = [dealer EXCEPT
           !.cache[dealer.query] = [found |-> DealersFound(dealer.query, purchased),
                                    read |-> purchased],
           !.last = dealer.query]
SearchFails ==
    /\ dealer.cache[dealer.query] = NoData
    /\ dealer' = [dealer EXCEPT !.cache[dealer.query] = SearchFailed]

FocusDealer == dealer' = [Querying(dealer, 0) EXCEPT !.open = TRUE]
TypeDealer ==
    /\ dealer.typed < MaxTyped
    /\ \E text \in DealerTexts :
           dealer' = [Querying(dealer, text) EXCEPT
                          !.open = TRUE, !.active = 1, !.name = text, !.typed = @ + 1]
DealerKeys ==
    /\ dealer.open
    /\ LET n == Len(DealersShown(dealer)) + (IF OfferedAsNew(dealer) THEN 1 ELSE 0)
       IN \E active \in {Clamped(dealer.active + 1, n), Clamped(dealer.active - 1, n)}
                        \cup 1..n :                   \* the ends, or the pointer over an option
              dealer' = [dealer EXCEPT !.active = active]
EscapeDealer == dealer' = [Querying(dealer, 0) EXCEPT !.open = FALSE]
\* The list closes 160 ms after the focus has gone, wherever the focus is by then.
BlurDealer == dealer' = [dealer EXCEPT !.timer = TRUE]
BlurTimer ==
    /\ dealer.timer
    /\ dealer' = [dealer EXCEPT !.timer = FALSE, !.open = FALSE]

\* Fault: a branch that was typed is overwritten.
TakeDealerAndBranch(d, option) ==
    [Querying(d, 0) EXCEPT
        !.open = FALSE, !.hint = option.branches, !.name = option.name,
        !.branch = IF Cardinality(option.branches) = 1
                   THEN CHOOSE b \in option.branches : TRUE ELSE @]

\* Both fields are patched onto the transaction of the last render, so filling the branch in
\* puts the dealer's name back to what it was.
TakeDealer(d, option) ==
    LET single == Cardinality(option.branches) = 1 /\ d.branch = NoBranch
    IN [Querying(d, 0) EXCEPT
           !.open = FALSE, !.hint = option.branches,
           !.name = IF single THEN @ ELSE option.name,
           !.branch = IF single THEN CHOOSE b \in option.branches : TRUE ELSE @]
TakeNew(d) ==
    [Querying(d, 0) EXCEPT !.open = FALSE, !.hint = {}, !.name = Trimmed[d.query]]

EnterDealer ==
    /\ dealer.open
    /\ IF OfferedAsNew(dealer) /\ dealer.active > Len(DealersShown(dealer))
       THEN dealer' = TakeNew(dealer)
       ELSE /\ dealer.active \in DOMAIN DealersShown(dealer)
            /\ dealer' = TakeDealer(dealer, DealersShown(dealer)[dealer.active])
ClickDealer ==
    /\ dealer.open
    /\ \/ \E i \in DOMAIN DealersShown(dealer) :
              dealer' = TakeDealer(dealer, DealersShown(dealer)[i])
       \/ OfferedAsNew(dealer) /\ dealer' = TakeNew(dealer)

TypeBranch ==
    \E branch \in TypedBranches :
        dealer' = [dealer EXCEPT !.branch = branch]

\* Another step of the wizard and back: the combobox starts afresh, the fields and cache stay.
Remount ==
    dealer' = [Querying(dealer, 0) EXCEPT !.open = FALSE, !.active = 1, !.hint = {},
                                          !.timer = FALSE, !.last = 0]

DealerNext ==
    \/ /\ UNCHANGED purchased
       /\ \/ SearchAnswers \/ SearchFails \/ FocusDealer \/ TypeDealer \/ DealerKeys \/ EscapeDealer
          \/ BlurDealer \/ BlurTimer \/ EnterDealer \/ ClickDealer \/ TypeBranch \/ Remount
    \/ \E r \in Others : purchased' = purchased \cup {r} /\ UNCHANGED dealer

-----------------------------------------------------------------------------
PickersInit ==
    /\ \E kind \in DOMAIN Catalogue : \E options \in Catalogue[kind] :
       \E value \in CurrentValues[kind] : list = InitialList(kind, options, value)
    /\ dealer = [open |-> FALSE, query |-> 0, active |-> 1, name |-> 0, branch |-> NoBranch,
                 hint |-> {}, cache |-> [t \in DealerTexts |-> NoData], last |-> 0, timer |-> FALSE,
                 typed |-> 0]
    /\ purchased = Purchased

-----------------------------------------------------------------------------
(* Properties *)

\* Once its effects have run, an open select highlights an option that can be chosen unless it has
\* none and is not left open disabled; a search highlights an option it shows unless it shows
\* none; and the menu of a row is never left open with nothing in it to do, whatever options were
\* exchanged under the user's keys.
HighlightIsChoosable ==
    list.open /\ list.due = {} =>
        CASE list.kind = "select" ->
                /\ ~list.disabled
                /\ list.active \in Choosable(ShownOptions(list)) \cup
                       (IF Choosable(ShownOptions(list)) = {} THEN {0} ELSE {})
          [] list.kind = "search" ->
                list.active \in DOMAIN ShownOptions(list) \/ ShownOptions(list) = <<>>
          [] OTHER -> Choosable(list.options) # {}

\* What a list hands to its screen is an option it showed at that moment, open, and one that could
\* be chosen: also between the arrival of other options and the effect that follows them.
OnlyShownIsChosen ==
    list'.value # list.value =>
        /\ list.open /\ ~list'.open
        /\ \E i \in Choosable(ShownOptions(list)) : ShownOptions(list)[i].value = list'.value

\* An answered search never offers as new a dealer that was on record, in whatever case, when it
\* ran, unless the rows it may read were not enough.
NewDealersAreNew ==
    HasData(dealer, dealer.query) /\ OfferedAsNew(dealer) =>
        LET rows == dealer.cache[dealer.query].read
        IN \/ \A r \in rows : r.dealer = 0 \/ Folded[r.dealer] # Folded[dealer.query]
           \/ Cardinality(MatchingRows(dealer.query, rows)) > MaxRows

\* Of the dealers of an answer only the last can lack some of its branches.
CutsFallOnTheLast ==
    \A text \in DealerTexts : HasData(dealer, text) =>
        LET answer == dealer.cache[text]
        IN \A i \in 1..Len(answer.found) - 1 :
               answer.found[i].branches =
                   {r.branch : r \in {s \in answer.read : s.dealer = answer.found[i].name}}
                   \ {NoBranch}

\* A branch that was typed is replaced only by typing; one filled in is the only branch of the
\* dealer that was chosen from the list.
BranchesAreFilledInOnce ==
    dealer'.branch # dealer.branch =>
        \/ TypeBranch
        \/ /\ dealer.branch = NoBranch /\ dealer'.hint = {dealer'.branch}
           /\ \E i \in DOMAIN DealersShown(dealer) :
                  DealersShown(dealer)[i].branches = dealer'.hint

\* The lists together: what is highlighted and chosen, which dealers are offered and which branch
\* they bring.
ListsChooseWhatTheyShow ==
    /\ []HighlightIsChoosable /\ []NewDealersAreNew /\ []CutsFallOnTheLast
    /\ [][OnlyShownIsChosen]_list
    /\ [][BranchesAreFilledInOnce]_dealer
===============================================================================
