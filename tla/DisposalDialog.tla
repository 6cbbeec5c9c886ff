--------------------------- MODULE DisposalDialog ---------------------------
(***************************************************************************)
(* The inventory screen and the dialog that sells, gives away or writes    *)
(* off a holding (Assets.tsx, AssetDisposalDialog.tsx), against the server *)
(* that books it (MovementsService.dispose).  A dialog shows the holding   *)
(* as the list last loaded it; it may be closed, or unmounted and mounted  *)
(* again by the browser's back button, while its request is under way, and *)
(* the request's callbacks run all the same.                               *)
(*                                                                         *)
(* A request is sent, served and answered in separate steps and may fail   *)
(* on either way.  Loading the list is one step.  Amounts are in the       *)
(* smallest unit the ledger keeps.                                         *)
(***************************************************************************)
EXTENDS Measures, Sequences, TLC

CONSTANTS
    Screens,        \* browser tabs that show the inventory
    Holdings,
    Opening,        \* what each lot held, and cost, when it was entered
    Amended,        \* bound: quantities and costs an edit elsewhere may leave
    Quantities, Amounts,    \* bound: what is typed
    Trials,         \* bounds: the actions, typings, dialogs, faults, ... of a behaviour
    NoRow, NoDisposal, NoDialog, Untyped, Garbled

ASSUME DisposalDialogAssumption ==
    /\ Opening \in [Holdings -> [quantity : Nat \ {0}, cost : Nat]]
    /\ Amended \subseteq [quantity : Nat \ {0}, cost : Nat] /\ Quantities \cup Amounts \subseteq Nat
    /\ \A t \in Trials : /\ t.actions \subseteq {"SALE", "GIFT_OUT", "LOST"}
                         /\ {t.typings, t.dialogs, t.faults, t.edits, t.loads, t.moves} \subseteq Nat

VARIABLES
    holding,        \* server: the lots
    booked,         \* server: the movements, with what the screen showed when asking
    screen,
    trial           \* what is left of the bounds

dialogVars == <<holding, booked, screen, trial>>

ListView == [kind |-> "list"]
Views == {ListView} \cup [kind : {"detail", "edit"}, lot : Holdings]

DialogInit ==
    /\ holding = [l \in Holdings |-> [status |-> "HELD", version |-> 1,
                                  quantity |-> Opening[l].quantity, cost |-> Opening[l].cost]]
    /\ booked = {}
    /\ screen = [s \in Screens |->
                   [list |-> holding, failed |-> FALSE, history |-> <<ListView>>, at |-> 1,
                    disposal |-> NoDisposal, dialog |-> NoDialog, opened |-> 0, tasks |-> {}]]
    /\ trial \in Trials

-----------------------------------------------------------------------------
(* The screen *)

\* Bound: trial.
Try(what) == trial[what] > 0 /\ trial' = [trial EXCEPT ![what] = @ - 1]

ViewOf(r) == r.history[r.at]

\* Which of the screen's branches is rendered.
Branch(r) == IF r.failed THEN "error"
             ELSE IF ViewOf(r).kind # "list" /\ r.list[ViewOf(r).lot] # NoRow
                  THEN ViewOf(r).kind ELSE "list"

\* disposal && disposalAsset, in the list and under a holding's details.
Renders(r) == /\ r.disposal # NoDisposal /\ r.list[r.disposal.lot] # NoRow
              /\ Branch(r) \in {"list", "detail"}

\* disposalTarget: the row as the list has it now, not as it was when the dialog opened.
Target(r) == r.list[r.disposal.lot]

\* What a dialog starts with.
FreshDialog(r) == [n |-> r.opened + 1, occurredAt |-> "now", quantity |-> Target(r).quantity,
                   proceeds |-> Untyped, fees |-> 0,
                   error |-> FALSE, conflict |-> FALSE, recovering |-> FALSE]

\* The effect that falls back to the list when the open holding is gone.
Landed(r) == IF ~r.failed /\ ViewOf(r).kind # "list" /\ r.list[ViewOf(r).lot] = NoRow
             THEN [r EXCEPT !.history[r.at] = ListView] ELSE r

\* What rendering makes of the dialog: kept where it stays in place, fresh where it does not.
Rendered(old, r) ==
    IF ~Renders(r) THEN [r EXCEPT !.dialog = NoDialog]
    ELSE IF old.dialog # NoDialog /\ old.disposal = r.disposal /\ Branch(old) = Branch(r)
         THEN r
         ELSE [r EXCEPT !.dialog = FreshDialog(r), !.opened = @ + 1]

Show(s, r) == screen' = [screen EXCEPT ![s] = Rendered(@, Landed(r))]

\* GET /assets: the held lots.  A failed load leaves the rows and shows an error instead of them.
Loaded(r) == [r EXCEPT !.list = [l \in Holdings |-> IF holding[l].status = "HELD" THEN holding[l]
                                                ELSE NoRow],
                       !.failed = FALSE]
LoadOrFail(s, r) == \/ Show(s, Loaded(r)) /\ UNCHANGED trial
                    \/ Try("faults") /\ Show(s, [r EXCEPT !.failed = TRUE])

\* A load nobody here asked for: the connection returned, or the error's retry button.
Reconnect(s) ==
    /\ trial.loads > 0
    /\ \/ Try("loads") /\ Show(s, Loaded(screen[s]))
       \/ Try("faults") /\ Show(s, [screen[s] EXCEPT !.failed = TRUE])
    /\ UNCHANGED <<holding, booked>>

\* navigate: a new entry unless the view is the same; what lay ahead is forgotten.
Pushed(r, view) == IF ViewOf(r) = view THEN r
                   ELSE [r EXCEPT !.history = Append(SubSeq(@, 1, r.at), view), !.at = @ + 1]
Replaced(r, view) == [r EXCEPT !.history[r.at] = view]

\* The rows, the detail page's buttons and the editor's; an open dialog covers them.
Navigate(s) ==
    /\ Try("moves")
    /\ LET r == screen[s] IN
       /\ r.dialog = NoDialog
       /\ \/ /\ Branch(r) = "list"
             /\ \E l \in Holdings : r.list[l] # NoRow /\ Show(s, Pushed(r, [kind |-> "detail", lot |-> l]))
          \/ /\ Branch(r) = "detail"
             /\ \E view \in {ListView, [kind |-> "edit", lot |-> ViewOf(r).lot]} : Show(s, Pushed(r, view))
          \/ Branch(r) = "edit" /\ Show(s, Replaced(r, [kind |-> "detail", lot |-> ViewOf(r).lot]))
    /\ UNCHANGED <<holding, booked>>

\* popstate, whatever is open.
PopState(s) ==
    /\ Try("moves")
    /\ \E to \in {screen[s].at - 1, screen[s].at + 1} \cap DOMAIN screen[s].history :
          Show(s, [screen[s] EXCEPT !.at = to])
    /\ UNCHANGED <<holding, booked>>

\* A row's menu, or the detail page's: its entries are disabled while a disposal is chosen.
ChooseAction(s) ==
    /\ Try("dialogs")
    /\ LET r == screen[s] IN
       /\ r.disposal = NoDisposal
       /\ \E l \in Holdings, a \in trial.actions :
            /\ r.list[l] # NoRow
            /\ \/ Branch(r) = "list"
               \/ Branch(r) = "detail" /\ ViewOf(r).lot = l
            /\ Show(s, [r EXCEPT !.disposal = [action |-> a, lot |-> l]])
    /\ UNCHANGED <<holding, booked>>

\* Another screen and back, or a reload: the screen starts anew at its view, and what is under
\* way has no dialog to return to.
Remount(s) ==
    /\ Try("loads")
    /\ LET r == [screen[s] EXCEPT !.disposal = NoDisposal,
                                  !.tasks = {[t EXCEPT !.n = 0] : t \in @}]
       IN Show(s, r) \/ Show(s, Loaded(r))
    /\ UNCHANGED <<holding, booked>>

-----------------------------------------------------------------------------
(* The dialog *)

Pending(r) == r.dialog # NoDialog /\ \E t \in r.tasks : t.n = r.dialog.n /\ t.kind = "post"

\* The fieldset is enabled, and so is its submit button.
Enabled(r) == r.dialog # NoDialog /\ ~Pending(r) /\ ~r.dialog.conflict /\ ~r.dialog.recovering

\* A keystroke in a field; it clears the error.
Type(s) ==
    /\ Try("typings") /\ Enabled(screen[s])
    /\ \E d \in {[screen[s].dialog EXCEPT !.quantity = q] : q \in {Garbled} \cup Quantities}
            \cup {[screen[s].dialog EXCEPT !.proceeds = a] : a \in {Untyped, Garbled} \cup Amounts}
            \cup {[screen[s].dialog EXCEPT !.fees = a] : a \in {Garbled} \cup Amounts}
            \cup {[screen[s].dialog EXCEPT !.occurredAt = Untyped]} :
          screen' = [screen EXCEPT ![s].dialog = [d EXCEPT !.error = FALSE]]
    /\ UNCHANGED <<holding, booked>>

\* isValidMoneyInput, and an optional amount left empty
IsMoney(a) == a \in Nat

\* validateAssetDisposal: the limit of a million is out of the model's range.
ValidDisposal(r) ==
    LET d == r.dialog IN
    /\ d.occurredAt # Untyped
    /\ d.quantity \in 1 .. Target(r).quantity
    /\ r.disposal.action = "SALE" => IsMoney(d.proceeds) /\ IsMoney(d.fees)

\* toDecimalPlaces: halves go up in the browser, to the even neighbour on the server.
HalfUp(n, d) == (2 * n + d) \div (2 * d)

\* Fault: a full disposal is given a share too, of one more than what remains.
SaleOfMore(quantity, row, proceeds, fees) ==
    LET cost == HalfUp(row.cost * quantity, row.quantity + 1)
    IN [quantity |-> quantity, left |-> row.quantity - quantity, cost |-> cost,
        net |-> proceeds - fees, pnl |-> proceeds - fees - cost]

\* previewSale
PreviewSale(quantity, row, proceeds, fees) ==
    LET cost == IF quantity = row.quantity THEN row.cost
                ELSE HalfUp(row.cost * quantity, row.quantity)
    IN [quantity |-> quantity, left |-> row.quantity - quantity, cost |-> cost,
        net |-> proceeds - fees, pnl |-> proceeds - fees - cost]

\* What the user saw on pressing the button: the preview of a sale, the quantities otherwise.
Shown(r) ==
    IF r.disposal.action = "SALE"
    THEN PreviewSale(r.dialog.quantity, Target(r), r.dialog.proceeds, r.dialog.fees)
    ELSE [quantity |-> r.dialog.quantity, left |-> Target(r).quantity - r.dialog.quantity]

\* Fault: the request does not say which version was shown.
AnyVersion(r) == 0

ShownVersion(r) == Target(r).version

Task(kind, stage, r, version) ==
    [kind |-> kind, stage |-> stage, n |-> r.dialog.n, lot |-> r.disposal.lot,
     action |-> r.disposal.action, read |-> Target(r).version, version |-> version,
     proceeds |-> r.dialog.proceeds, fees |-> r.dialog.fees,
     shown |-> IF kind = "post" THEN Shown(r) ELSE <<>>]

\* handleSubmit
SubmitDisposal(s) ==
    /\ Enabled(screen[s])
    /\ LET r == screen[s] IN
       IF ValidDisposal(r)
       THEN screen' = [screen EXCEPT ![s].dialog.error = FALSE,
                                     ![s].tasks = @ \cup {Task("post", "sent", r, ShownVersion(r))}]
       ELSE ~r.dialog.error /\ screen' = [screen EXCEPT ![s].dialog.error = TRUE]
    /\ UNCHANGED <<holding, booked, trial>>

\* closeIfIdle: the button, Escape and the backdrop.
CloseIfIdle(s) ==
    /\ screen[s].dialog # NoDialog /\ ~Pending(screen[s]) /\ ~screen[s].dialog.recovering
    /\ Show(s, [screen[s] EXCEPT !.disposal = NoDisposal])
    /\ UNCHANGED <<holding, booked, trial>>

-----------------------------------------------------------------------------
(* The request *)

Advance(s, t, stage) == screen' = [screen EXCEPT ![s].tasks = (@ \ {t}) \cup {[t EXCEPT !.stage = stage]}]

\* What the server answers, and the movement it books.
Verdict(t) ==
    LET row == holding[t.lot] IN
    IF row.status # "HELD" THEN "conflict"
    ELSE IF t.version # 0 /\ t.version # row.version THEN "conflict"
    ELSE IF t.shown.quantity > row.quantity THEN "refused" ELSE "booked"

StatusAfter(action, left) ==
    IF left > 0 THEN "HELD"
    ELSE IF action = "SALE" THEN "SOLD" ELSE IF action = "LOST" THEN "LOST" ELSE "GIFTED"

BookedSale(t) ==
    LET row  == holding[t.lot]
        cost == IF t.shown.quantity = row.quantity THEN row.cost
                ELSE HalfEven(row.cost * t.shown.quantity, row.quantity)
        left == row.quantity - t.shown.quantity
    IN IF t.action # "SALE" THEN [quantity |-> t.shown.quantity, left |-> left, cost |-> cost]
       ELSE [quantity |-> t.shown.quantity, left |-> left, cost |-> cost,
             net |-> t.proceeds - t.fees, pnl |-> t.proceeds - t.fees - cost]

\* POST /assets/:id/sell, gift-out or lost; the answer may be lost on its way, or the request.
Serve(s, t) ==
    /\ t \in screen[s].tasks /\ t.stage = "sent"
    /\ \/ /\ Verdict(t) = "booked"
          /\ LET sale == BookedSale(t) IN
             /\ booked' = booked \cup {[lot |-> t.lot, read |-> t.read, was |-> holding[t.lot].version,
                                        shown |-> t.shown, sale |-> sale]}
             /\ holding' = [holding EXCEPT ![t.lot] =
                   [status |-> StatusAfter(t.action, sale.left), version |-> @.version + 1,
                    quantity |-> sale.left, cost |-> @.cost - sale.cost]]
       \/ Verdict(t) # "booked" /\ UNCHANGED <<holding, booked>>
    /\ \/ Advance(s, t, Verdict(t)) /\ UNCHANGED trial
       \/ Try("faults") /\ Advance(s, t, "refused")

NeverSent(s, t) ==
    /\ t \in screen[s].tasks /\ t.stage = "sent" /\ Try("faults")
    /\ Advance(s, t, "refused")
    /\ UNCHANGED <<holding, booked>>

Without(s, t) == [screen[s] EXCEPT !.tasks = @ \ {t}]
IsOpen(s, t) == screen[s].dialog # NoDialog /\ screen[s].dialog.n = t.n

\* onError: a message, or for 409 a dialog that can only be closed.
FailDisposal(s, t) ==
    /\ t \in screen[s].tasks /\ t.stage \in {"conflict", "refused"}
    /\ LET r == Without(s, t) IN
       screen' = [screen EXCEPT ![s] =
          IF ~IsOpen(s, t) THEN r
          ELSE IF t.stage = "conflict" THEN [r EXCEPT !.dialog.conflict = TRUE, !.dialog.error = FALSE]
          ELSE [r EXCEPT !.dialog.error = TRUE]]
    /\ UNCHANGED <<holding, booked, trial>>

\* handleConflictRecovery
Recover(s) ==
    /\ screen[s].dialog # NoDialog /\ screen[s].dialog.conflict /\ ~screen[s].dialog.recovering
    /\ screen' = [screen EXCEPT ![s].dialog.recovering = TRUE,
                                ![s].tasks = @ \cup {Task("recovery", "booked", screen[s], 0)}]
    /\ UNCHANGED <<holding, booked, trial>>

\* onSuccess, or a recovery: the list is loaded again, or cannot be.
Refresh(s, t) ==
    /\ t \in screen[s].tasks /\ t.stage = "booked"
    /\ \/ LoadOrFail(s, [Without(s, t) EXCEPT !.tasks = @ \cup {[t EXCEPT !.stage = "refreshed"]}])
       \/ t.n = 0 /\ screen' = [screen EXCEPT ![s] = Without(s, t)] /\ UNCHANGED trial
    /\ UNCHANGED <<holding, booked>>

\* ... and onClose closes whatever dialog is open by then.
Close(s, t) ==
    /\ t \in screen[s].tasks /\ t.stage = "refreshed"
    /\ LET r == Without(s, t) IN
       Show(s, IF t.n = 0 THEN r ELSE [r EXCEPT !.disposal = NoDisposal])
    /\ UNCHANGED <<holding, booked, trial>>

\* Another client's edit of a lot.
Amend(l) ==
    /\ Try("edits") /\ holding[l].status = "HELD"
    /\ \E a \in Amended :
          holding' = [holding EXCEPT ![l].quantity = a.quantity, ![l].cost = a.cost,
                                     ![l].version = @ + 1]
    /\ UNCHANGED <<booked, screen>>

DialogNext ==
    \/ \E s \in Screens :
         \/ Reconnect(s) \/ Navigate(s) \/ PopState(s) \/ ChooseAction(s) \/ Remount(s)
         \/ Type(s) \/ SubmitDisposal(s) \/ CloseIfIdle(s) \/ Recover(s)
         \/ \E t \in screen[s].tasks :
              Serve(s, t) \/ NeverSent(s, t) \/ FailDisposal(s, t) \/ Refresh(s, t) \/ Close(s, t)
    \/ \E l \in Holdings : Amend(l)

DialogSpec == DialogInit /\ [][DialogNext]_dialogVars

-----------------------------------------------------------------------------
(* Properties *)

WithinAUnit(a, b) == a - b \in {-1, 0, 1}

\* What a dialog books is what it showed when its button was pressed, the cost and the profit
\* within one unit of the ledger's last digit and all else exactly, although the list may have
\* been loaded again, the holding edited elsewhere or the dialog reopened since; and pressing
\* again after an answer that never came does not dispose of the lot a second time: no two
\* movements come of one reading of a lot.
DisposalsAreBookedAsShown ==
    /\ \A m \in booked :
         /\ m.sale.quantity = m.shown.quantity /\ m.sale.left = m.shown.left
         /\ "net" \in DOMAIN m.shown =>
              m.sale.net = m.shown.net /\ WithinAUnit(m.sale.cost, m.shown.cost) /\ WithinAUnit(m.sale.pnl, m.shown.pnl)
    /\ \A m, k \in booked : m.lot = k.lot /\ m.read = k.read => m = k

-----------------------------------------------------------------------------
(* Why they hold: the inductive invariant *)

LotRows == [status : {"HELD", "SOLD", "LOST", "GIFTED"}, version : Nat \ {0},
            quantity : Nat, cost : Int]

\* A row a list shows is the lot's own for as long as their versions agree.
Copied(rows, row, l) ==
    row # NoRow => /\ row \in LotRows /\ row.version <= rows[l].version
                   /\ row.version = rows[l].version => row = rows[l]

\* What a request says was shown is what its dialog makes of this row.
ShownOf(t, row) ==
    IF t.action = "SALE" THEN PreviewSale(t.shown.quantity, row, t.proceeds, t.fees)
    ELSE [quantity |-> t.shown.quantity, left |-> row.quantity - t.shown.quantity]

TaskFields == {"kind", "stage", "n", "lot", "action", "read", "version", "proceeds", "fees", "shown"}
IsTask(t)  == t = [f \in TaskFields |-> t[f]]

\* A request under way names the version its dialog showed, and shows the lot as that version is.
Asked(rows, t) ==
    t.stage = "sent" =>
      /\ t.lot \in Holdings /\ t.version \in Nat \ {0} /\ t.read = t.version
      /\ t.version <= rows[t.lot].version
      /\ t.shown.quantity \in Nat \ {0}
      /\ t.action = "SALE" => t.proceeds \in Nat /\ t.fees \in Nat
      /\ t.version = rows[t.lot].version => t.shown = ShownOf(t, rows[t.lot])

ScreenFields == {"list", "failed", "history", "at", "disposal", "dialog", "opened", "tasks"}
IsScreen(r)  == r = [f \in ScreenFields |-> r[f]]

\* A dialog is over a lot the list has.
IsWhole(rows, r) ==
    /\ IsScreen(r)
    /\ \A l \in Holdings : Copied(rows, r.list[l], l)
    /\ r.disposal # NoDisposal => r.disposal.lot \in Holdings
    /\ r.dialog # NoDialog => r.disposal # NoDisposal /\ Target(r) # NoRow
    /\ \A t \in r.tasks : IsTask(t) /\ Asked(rows, t)

DialogIInv ==
    /\ holding \in [Holdings -> LotRows]
    /\ screen = [s \in Screens |-> screen[s]]
    /\ \A s \in Screens : IsWhole(holding, screen[s])
    /\ \A m \in booked : m.lot \in Holdings /\ m.read \in Nat /\ m.read < holding[m.lot].version
    /\ DisposalsAreBookedAsShown
=============================================================================
