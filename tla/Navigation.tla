------------------------------ MODULE Navigation ------------------------------
(* What the web client shows, and the address it shows it under.

   Four parts of the client write one browser history: the shell (App, screen-navigation.ts), the
   inventory (Assets.tsx, inventory-route.ts), the catalogue (Products.tsx, products-route.ts) and
   the purchase wizard (PurchaseWizard.tsx, history.ts).  Each writes its own parameters over
   whatever the address holds, and each follows the browser's buttons by a listener of its own.
   Requests end when they end: the page that began one may have been left by then.

   React keeps an editor's component, and the form in it, when another holding's editor takes its
   place, and drops it in every other case.  A wizard covers the navigation but leaves it in the
   document, where keys reach it. *)
EXTENDS Naturals, FiniteSets, Sequences

CONSTANTS
    LotNames,      \* the holdings the list starts with
    ProductNames,  \* the products of the catalogue, and "new" for one being created
    EditorSteps,   \* how many steps an editor has
    WizardSteps,   \* how many the purchase wizard has; the last one submits
    ItemsStep,     \* the one a refused purchase goes back to
    Itineraries    \* [screens, moves]: which screens a behaviour visits, and how long it is

ASSUME NavigationAssumption ==
    /\ EditorSteps \in Nat \ {0} /\ WizardSteps \in Nat \ {0} /\ ItemsStep \in 1 .. WizardSteps
    /\ "none" \notin LotNames \cup ProductNames

VARIABLES
    history,       \* [entries, at]: the browser's
    current,       \* the screen the shell shows
    session,       \* "in" or "out"
    place,         \* what the shown screen's component holds
    stored,        \* the purchase draft in the browser's storage; whether it was booked unheard
    requests,      \* requests under way
    listed,        \* the holdings in the list
    loose,         \* the entries written by a page that had been left
    itinerary      \* what the behaviour may still do

navVars == <<history, current, session, place, stored, requests, listed, loose, itinerary>>

-----------------------------------------------------------------------------
(* Addresses *)

Blank == [screen |-> "none", purchaseStep |-> 0, asset |-> "none", assetStep |-> 0,
          product |-> "none", productStep |-> 0]
Location == history.entries[history.at]

\* An address without a screen but with a wizard's step is an old link to the wizard.
ReadScreen(url) ==
    IF url.screen # "none" THEN url.screen
    ELSE IF url.purchaseStep # 0 THEN "purchase" ELSE "dashboard"

\* Fault: the parameters of the catalogue are forgotten.
UrlForgetsProduct(url, screen) ==
    [url EXCEPT !.screen = IF screen = "dashboard" THEN "none" ELSE screen,
                !.purchaseStep = IF screen = "purchase" THEN @ ELSE 0,
                !.asset = IF screen = "inventory" THEN @ ELSE "none",
                !.assetStep = IF screen = "inventory" THEN @ ELSE 0]

UrlForScreen(url, screen) ==
    [screen |-> IF screen = "dashboard" THEN "none" ELSE screen,
     purchaseStep |-> IF screen = "purchase" THEN url.purchaseStep ELSE 0,
     asset |-> IF screen = "inventory" THEN url.asset ELSE "none",
     assetStep |-> IF screen = "inventory" THEN url.assetStep ELSE 0,
     product |-> IF screen = "products" THEN url.product ELSE "none",
     productStep |-> IF screen = "products" THEN url.productStep ELSE 0]

\* Step 0 of a holding is its detail page.
TopView == [of |-> "none", step |-> 0]
Detail(l) == [of |-> l, step |-> 0]
ReadInventoryView(url) ==
    IF url.asset = "none" THEN TopView ELSE [of |-> url.asset, step |-> url.assetStep]
UrlForInventoryView(url, view) == [url EXCEPT !.asset = view.of, !.assetStep = view.step]
ReadProductsView(url) ==
    IF url.product = "none" THEN TopView
    ELSE [of |-> url.product, step |-> IF url.productStep = 0 THEN 1 ELSE url.productStep]
UrlForProductsView(url, view) == [url EXCEPT !.product = view.of, !.productStep = view.step]
UrlForWizardStep(url, step) == [url EXCEPT !.purchaseStep = step]

ReadView(screen, url) ==
    IF screen = "inventory" THEN ReadInventoryView(url)
    ELSE IF screen = "products" THEN ReadProductsView(url) ELSE TopView

-----------------------------------------------------------------------------
(* Pages.  A page's `form` names what the open editor's form was filled from; `wizard` is the
   mounted purchase wizard's draft; `deaf` says the wizard shows another step than was asked for. *)

NoWizard == [step |-> 0, furthest |-> 0]
NewWizard == [step |-> 1, furthest |-> 1]

EditorOf(screen, view, lots) ==
    IF view.step > 0 /\ (screen = "inventory" => view.of \in lots) THEN view.of ELSE "none"

\* Fault: the form outlives the editor it was opened in.
FormOutlives(screen, view, lots, same) ==
    LET editor == EditorOf(screen, view, lots)
    IN  [view |-> view, wizard |-> IF same THEN place.wizard ELSE NoWizard,
         form |-> IF same /\ place.form # "none" THEN place.form ELSE editor,
         deaf |-> same /\ place.deaf]

\* The page after its view or the list changed; `same` says its component stays mounted.
RenderedAs(screen, view, lots, same) ==
    LET editor == EditorOf(screen, view, lots)
        stays == same /\ place.form # "none" /\ editor # "none"
    IN  [view |-> view, form |-> IF stays THEN place.form ELSE editor,
         wizard |-> IF same THEN place.wizard ELSE NoWizard, deaf |-> same /\ place.deaf]

NothingMounted == [view |-> TopView, form |-> "none", wizard |-> NoWizard, deaf |-> FALSE]

\* What is left of the page each pending request was sent from, and the holding its editor last
\* showed.
SavesAfter(new, same, pending) ==
    LET closes(s) == s.at = "editor" /\ s.from # "purchase" /\ new.form = "none"
        shows(s) == same /\ s.at = "editor" /\ new.form # "none"
    IN  {[s EXCEPT !.at = IF ~same THEN "left" ELSE IF closes(s) THEN "screen" ELSE s.at,
                   !.of = IF shows(s) THEN new.view.of ELSE s.of] : s \in pending}

Sending == \E s \in requests : s.at = "editor"

\* The shown page's component takes a view; nothing happens when it is not mounted.
SetView(view, pending) ==
    LET new == RenderedAs(current, view, listed, TRUE)
    IN  place' = new /\ requests' = SavesAfter(new, TRUE, pending)

\* Fault: the component is not mounted afresh, and keeps the view it had.
SetScreenKeeps(screen, url, pending) ==
    /\ current' = screen /\ UNCHANGED place /\ requests' = pending

\* The shell shows a screen: another one than before is mounted afresh from its address.
SetScreen(screen, url, pending) ==
    LET same == screen = current
        new == IF session = "in" /\ ~same
               THEN RenderedAs(screen, ReadView(screen, url), listed, FALSE) ELSE place
    IN  /\ current' = screen /\ place' = new
        /\ requests' = SavesAfter(new, same, pending)

-----------------------------------------------------------------------------
(* The browser's history *)

ReplaceEntry(url) == history' = [history EXCEPT !.entries[history.at] = url]
PushEntry(url) ==
    history' = [entries |-> Append(SubSeq(history.entries, 1, history.at), url),
                at |-> history.at + 1]

\* A page's own write is built on the present address, so it inherits what is wrong with it.
LooseAfter(pushed) ==
    IF pushed THEN {i \in loose : i <= history.at}
                   \cup (IF history.at \in loose THEN {history.at + 1} ELSE {})
    ELSE loose

\* createBrowserScreenHistory.write, under navigateScreen
NavigateScreen(next, mode, pending) ==
    LET url == UrlForScreen(Location, next)
        replaces == mode = "replace" \/ ReadScreen(Location) = next
    IN  /\ IF replaces THEN ReplaceEntry(url) ELSE PushEntry(url)
        /\ loose' = {i \in loose : \/ i < history.at
                                   \/ i = history.at /\ (replaces => next = current)
                                   \/ i > history.at /\ replaces}
        /\ SetScreen(next, url, pending)

\* The inventory's navigate, from the page when it is mounted and from one that was left when not.
GoInventory(view, mode, mounted, pending) ==
    LET url == UrlForInventoryView(Location, view)
        replaces == mode = "replace" \/ ReadInventoryView(Location) = view
    IN  /\ IF replaces THEN ReplaceEntry(url) ELSE PushEntry(url)
        /\ loose' = LooseAfter(~replaces) \cup (IF mounted THEN {} ELSE {history.at})
        /\ IF mounted THEN SetView(view, pending) ELSE requests' = pending /\ UNCHANGED place

\* The catalogue's navigate.
GoProducts(view, mode, mounted, pending) ==
    LET url == UrlForProductsView(Location, view)
    IN  /\ IF mode = "replace" THEN ReplaceEntry(url) ELSE PushEntry(url)
        /\ loose' = LooseAfter(mode = "push") \cup (IF mounted THEN {} ELSE {history.at})
        /\ IF mounted THEN SetView(view, pending) ELSE requests' = pending /\ UNCHANGED place

\* The wizard's navigate: a draft remembers how far it has come.
StepTo(step) ==
    place' = [place EXCEPT !.deaf = FALSE,
                           !.wizard = [step |-> step,
                                       furthest |-> IF step > @.furthest THEN step
                                                    ELSE @.furthest]]

-----------------------------------------------------------------------------
(* The shell *)

Move == itinerary.moves > 0 /\ itinerary' = [itinerary EXCEPT !.moves = @ - 1]
SignedIn == session = "in"
Visits(screen) == screen \in itinerary.screens

\* A button of the navigation, or of the inventory for a new purchase.
ClickScreen(next) ==
    /\ SignedIn /\ Visits(next) /\ Move
    /\ NavigateScreen(next, "push", requests)
    /\ UNCHANGED <<session, stored, listed>>

\* Back, forward, or further along the list of entries: both listeners are told of it.  A wizard
\* does not follow while it submits, and never to a step its draft has not reached.
Traverse(i) ==
    LET url == history.entries[i]
        screen == ReadScreen(url)
        step == url.purchaseStep
        mounted == SignedIn /\ screen = current
        follows == step # 0 /\ step <= place.wizard.furthest /\ ~Sending
    IN  /\ i \in DOMAIN history.entries \ {history.at} /\ Move
        /\ history' = [history EXCEPT !.at = i]
        /\ IF ~mounted THEN SetScreen(screen, url, requests)
           ELSE /\ UNCHANGED current
                /\ IF screen \in {"inventory", "products"}
                   THEN SetView(ReadView(screen, url), requests)
                   ELSE IF place.wizard = NoWizard THEN UNCHANGED <<place, requests>>
                   ELSE IF follows THEN StepTo(step) /\ UNCHANGED requests
                   ELSE place' = [place EXCEPT !.deaf = TRUE] /\ UNCHANGED requests
        /\ UNCHANGED <<session, stored, listed, loose>>

\* The browser loads the page again: requests are given up, and the shell writes its own address.
ReloadPage ==
    /\ Move
    /\ LET screen == ReadScreen(Location)
           url == UrlForScreen(Location, screen)
       IN  /\ ReplaceEntry(url) /\ current' = screen
           /\ place' = IF SignedIn THEN RenderedAs(screen, ReadView(screen, url), listed, FALSE)
                      ELSE NothingMounted
    /\ requests' = {} /\ loose' = loose \ {history.at}
    /\ UNCHANGED <<session, stored, listed>>

\* The session's end, however it is learnt: the login form, over the dashboard's address.
LeaveSession(pending) ==
    /\ ReplaceEntry(UrlForScreen(Location, "dashboard"))
    /\ loose' = loose \ {history.at}
    /\ session' = "out" /\ current' = "dashboard" /\ place' = NothingMounted
    /\ requests' = {[s EXCEPT !.at = "left", !.old = TRUE] : s \in pending}

SignOut == SignedIn /\ Move /\ LeaveSession(requests) /\ UNCHANGED <<stored, listed>>

SignIn ==
    /\ ~SignedIn /\ Move
    /\ session' = "in"
    /\ ReplaceEntry(UrlForScreen(Location, "dashboard"))
    /\ loose' = loose \ {history.at}
    /\ current' = "dashboard" /\ place' = NothingMounted
    /\ UNCHANGED <<stored, requests, listed>>

-----------------------------------------------------------------------------
(* The inventory and the catalogue *)

On(screen) == SignedIn /\ current = screen
Idle(screen) == On(screen) /\ ~Sending

OpenHolding(l) ==
    /\ On("inventory") /\ place.form = "none" /\ l \in listed /\ Move
    /\ place.view.of \notin listed
    /\ GoInventory(Detail(l), "push", TRUE, requests)
    /\ UNCHANGED <<current, session, stored, listed>>

EditHolding(l) ==
    /\ On("inventory") /\ place.form = "none" /\ l \in listed /\ Move
    /\ place.view.of \in listed => place.view.of = l
    /\ GoInventory([of |-> l, step |-> 1], "push", TRUE, requests)
    /\ UNCHANGED <<current, session, stored, listed>>

BackToList ==
    /\ On("inventory") /\ place.view.of \in listed /\ place.view.step = 0 /\ Move
    /\ GoInventory(TopView, "push", TRUE, requests)
    /\ UNCHANGED <<current, session, stored, listed>>

StepEditor(n) ==
    /\ Idle("inventory") /\ place.form # "none" /\ Move
    /\ n \in 1 .. EditorSteps \ {place.view.step}
    /\ GoInventory([place.view EXCEPT !.step = n], "push", TRUE, requests)
    /\ UNCHANGED <<current, session, stored, listed>>

CancelEditor ==
    /\ Idle("inventory") /\ place.form # "none" /\ Move
    /\ GoInventory(Detail(place.view.of), "replace", TRUE, requests)
    /\ UNCHANGED <<current, session, stored, listed>>

\* A holding is sold elsewhere and the list loaded again; an editor of it is gone at once.
HoldingGoes(l) ==
    /\ l \in listed /\ Move
    /\ listed' = listed \ {l}
    /\ LET new == RenderedAs(current, place.view, listed', TRUE)
       IN  IF On("inventory") THEN place' = new /\ requests' = SavesAfter(new, TRUE, requests)
           ELSE UNCHANGED <<place, requests>>
    /\ UNCHANGED <<history, current, session, stored, loose>>

\* The effect that takes a page of a lost holding back to the list.
FallBack ==
    /\ On("inventory") /\ place.view # TopView /\ place.view.of \notin listed
    /\ GoInventory(TopView, "replace", TRUE, requests)
    /\ UNCHANGED <<current, session, stored, listed, itinerary>>

OpenProduct(p) ==
    /\ On("products") /\ place.form = "none" /\ Move
    /\ GoProducts([of |-> p, step |-> 1], "push", TRUE, requests)
    /\ UNCHANGED <<current, session, stored, listed>>

StepProduct(n) ==
    /\ Idle("products") /\ place.form # "none" /\ n \in 1 .. EditorSteps
    /\ n \in {place.view.step - 1, place.view.step + 1} /\ Move
    /\ GoProducts([place.view EXCEPT !.step = n], "push", TRUE, requests)
    /\ UNCHANGED <<current, session, stored, listed>>

CancelProduct ==
    /\ Idle("products") /\ place.form # "none" /\ Move
    /\ GoProducts(TopView, "replace", TRUE, requests)
    /\ UNCHANGED <<current, session, stored, listed>>

\* Both editors are saved from their last step.
SaveEditor ==
    /\ Idle("inventory") \/ Idle("products")
    /\ place.form # "none" /\ place.view.step = EditorSteps /\ Move
    /\ requests' = requests \cup
                {[from |-> current, of |-> place.view.of, at |-> "editor", old |-> FALSE]}
    /\ UNCHANGED <<history, current, session, place, stored, listed, loose>>

-----------------------------------------------------------------------------
(* The purchase wizard *)

\* PurchaseScreen's finishScreen: the shell is sent to the dashboard, whatever it shows.
FinishScreen(pending) ==
    /\ NavigateScreen("dashboard", "replace", pending)
    /\ stored' = [draft |-> NewWizard, booked |-> FALSE]

\* The drafts have been read: the wizard opens at the step the address asks for if its draft has
\* come that far, and a draft that turns out to be booked closes the screen.
MountWizard ==
    /\ On("purchase") /\ place.wizard = NoWizard
    /\ IF stored.booked THEN FinishScreen(requests)
       ELSE LET asked == Location.purchaseStep
                draft == IF asked # 0 /\ asked <= stored.draft.furthest
                         THEN [stored.draft EXCEPT !.step = asked] ELSE stored.draft
            IN  /\ ReplaceEntry(UrlForWizardStep(Location, draft.step))
                /\ place' = [place EXCEPT !.wizard = draft, !.deaf = FALSE]
                /\ UNCHANGED <<current, stored, requests, loose>>
    /\ UNCHANGED <<session, listed, itinerary>>

WizardOpen == On("purchase") /\ place.wizard # NoWizard

\* Next, back, a step the draft has reached, or the step a submission is sent back to for what is
\* wrong there.
StepWizard(n) ==
    /\ WizardOpen /\ ~Sending /\ Move
    /\ n \in 1 .. WizardSteps \ {place.wizard.step}
    /\ n <= place.wizard.furthest \/ n = place.wizard.step + 1
    /\ PushEntry(UrlForWizardStep(Location, n)) /\ loose' = LooseAfter(TRUE)
    /\ StepTo(n)
    /\ UNCHANGED <<current, session, stored, requests, listed>>

\* The draft reaches the browser's storage; one found booked by then closes the screen.
Autosave ==
    /\ WizardOpen
    /\ IF stored.booked THEN FinishScreen(requests) /\ UNCHANGED <<session, listed, itinerary>>
       ELSE /\ stored' = [stored EXCEPT !.draft = place.wizard]
            /\ UNCHANGED <<history, current, session, place, requests, listed, loose, itinerary>>

LeaveWizard ==
    /\ WizardOpen /\ ~Sending /\ Move
    /\ NavigateScreen("dashboard", "replace", requests)
    /\ UNCHANGED <<session, stored, listed>>

Submit ==
    /\ WizardOpen /\ ~Sending /\ place.wizard.step = WizardSteps /\ Move
    /\ requests' = requests \cup
                   {[from |-> "purchase", of |-> "none", at |-> "editor", old |-> FALSE]}
    /\ UNCHANGED <<history, current, session, place, stored, listed, loose>>

-----------------------------------------------------------------------------
(* Answers *)

\* The editor's page goes to what was saved; so it does when the editor has been left.
EditSaved(s) ==
    /\ s.from = "inventory"
    /\ GoInventory(Detail(s.of), "replace", s.at # "left", requests \ {s})
    /\ UNCHANGED <<current, stored>>

ProductSaved(s) ==
    /\ s.from = "products"
    /\ GoProducts(TopView, "replace", s.at # "left", requests \ {s})
    /\ UNCHANGED <<current, stored>>

\* Fault: the wizard's navigate tells the shell as well.
RefusedTellsShell(s) ==
    /\ s.from = "purchase"
    /\ NavigateScreen("purchase", "push", requests \ {s})
    /\ UNCHANGED stored

PurchaseBooked(s) == s.from = "purchase" /\ FinishScreen(requests \ {s})

\* The catalogue has moved on: the wizard goes to its items.
PurchaseRefused(s) ==
    /\ s.from = "purchase"
    /\ PushEntry(UrlForWizardStep(Location, ItemsStep))
    /\ loose' = LooseAfter(TRUE) \cup (IF s.at = "left" THEN {history.at + 1} ELSE {})
    /\ IF s.at = "left" THEN UNCHANGED place ELSE StepTo(ItemsStep)
    /\ requests' = requests \ {s}
    /\ UNCHANGED <<current, stored>>

SaveSucceeds(s) ==
    /\ s \in requests
    /\ EditSaved(s) \/ ProductSaved(s) \/ PurchaseBooked(s) \/ PurchaseRefused(s)
    /\ UNCHANGED <<session, listed, itinerary>>

\* An error the page shows, if it is still there; a purchase may have been booked all the same.
SaveFails(s) ==
    /\ s \in requests
    /\ requests' = requests \ {s}
    /\ \E booked \in IF s.from = "purchase" THEN BOOLEAN ELSE {FALSE} :
          stored' = [stored EXCEPT !.booked = @ \/ booked]
    /\ UNCHANGED <<history, current, session, place, listed, loose, itinerary>>

\* A request of a session that has ended is told so, and ends whichever session there is now.
SaveUnauthorized(s) ==
    /\ s \in requests /\ s.old
    /\ LeaveSession(requests \ {s})
    /\ UNCHANGED <<stored, listed, itinerary>>

-----------------------------------------------------------------------------
NavInit ==
    /\ itinerary \in Itineraries
    /\ history = [entries |-> <<Blank>>, at |-> 1]
    /\ current = "dashboard" /\ session = "in" /\ place = NothingMounted
    /\ stored = [draft |-> NewWizard, booked |-> FALSE]
    /\ requests = {} /\ listed = LotNames /\ loose = {}

NavNext ==
    \/ \E screen \in itinerary.screens : ClickScreen(screen)
    \/ \E i \in DOMAIN history.entries : Traverse(i)
    \/ ReloadPage \/ SignOut \/ SignIn
    \/ \E l \in LotNames : OpenHolding(l) \/ EditHolding(l) \/ HoldingGoes(l)
    \/ \E n \in 1 .. EditorSteps : StepEditor(n) \/ StepProduct(n)
    \/ BackToList \/ CancelEditor \/ FallBack \/ CancelProduct \/ SaveEditor
    \/ \E p \in ProductNames : OpenProduct(p)
    \/ MountWizard \/ Autosave \/ LeaveWizard \/ Submit
    \/ \E n \in 1 .. WizardSteps : StepWizard(n)
    \/ \E s \in requests : SaveSucceeds(s) \/ SaveFails(s) \/ SaveUnauthorized(s)

NavSpec == NavInit /\ [][NavNext]_navVars

-----------------------------------------------------------------------------
(* Properties *)

\* An address carries the parameters of its own screen alone (screen-navigation.ts:29-33), except
\* where an answer has written its own over the address of another page.
EntriesAreClean ==
    \A i \in DOMAIN history.entries \ loose :
        history.entries[i] = UrlForScreen(history.entries[i], ReadScreen(history.entries[i]))

\* With the same exception, what is shown is what the address names: the screen, the holding or
\* product and its step, and the wizard's step unless the wizard could not follow the browser.  So
\* a reload or a shared link shows the same (inventory-route.ts:1-5).
ShownAsAddressed ==
    history.at \notin loose =>
        /\ ReadScreen(Location) = current
        /\ SignedIn => place.view = ReadView(current, Location)
        /\ WizardOpen /\ ~place.deaf => place.wizard.step = Location.purchaseStep

\* A screen that is navigated to opens at its list, not at what an earlier visit had open.
OpensAtTheTop ==
    /\ current' # current /\ history'.at = history.at + 1 /\ history'.entries # history.entries
    /\ history.at \notin loose
    => place'.view = TopView

\* The answer to a page that was left changes nothing the user looks at, unless it says that a
\* purchase was booked: that leads to the dashboard from wherever the user is by then.
LeftPagesAreQuiet ==
    \A s \in requests :
        /\ s.at = "left" /\ s \notin requests'
        /\ SignedIn /\ session' = session /\ itinerary' = itinerary
        =>
            \/ place' = place /\ current' = current
            \/ s.from = "purchase" /\ current' = "dashboard"

\* An editor's form is that of the holding or product it says it edits, unless the user jumps over
\* other entries of the history from one editor straight into another.
FormElsewhere == place.form \notin {"none", place.view.of}
FormsAreCarriedByJumps ==
    ~FormElsewhere /\ FormElsewhere' =>
        /\ history'.entries = history.entries
        /\ history'.at \notin {history.at - 1, history.at, history.at + 1}

\* What is shown and the address it is shown under agree.
AddressesTellTheTruth ==
    /\ []EntriesAreClean
    /\ []ShownAsAddressed
    /\ [][OpensAtTheTop]_navVars
    /\ [][LeftPagesAreQuiet]_navVars
    /\ [][FormsAreCarriedByJumps]_navVars
===============================================================================
