----------------------------- MODULE HoldingForm -----------------------------
(***************************************************************************)
(* The fields of the holding editor (AssetEditWizard.tsx,                  *)
(* asset-edit-model.ts): a form filled once from the list, compared with   *)
(* the list again when it is saved, and the two updates a save ends with,  *)
(* of the holding (AssetsService.update) and of its purchase               *)
(* (PurchasesService.update).  The list may be loaded again while the form *)
(* is open, other pages save the same lots, and the catalogue a lot        *)
(* inherits its name from changes.                                         *)
(*                                                                         *)
(* One text stands for each kind of column: a serial (the lot's own), a    *)
(* packaging state (the purchased item's), a name (an override of the      *)
(* catalogue's) and a dealer (the purchase's).  Weights are counted in the *)
(* smallest part of a gram kept.  The files of a save are HoldingEditor's. *)
(***************************************************************************)
EXTENDS Measures, Sequences, TLC

CONSTANTS
    Editors, FormRows,
    Purchased,          \* the lots of the one purchase; the others were received
    FormLots,           \* the rows as they were entered
    Entries,            \* bound: what may be typed, by field
    FormWorlds,         \* bounds: typings, saves, faults, loads, renamings, leavings
    NoLot, NoForm, NoSave

NoText == ""
LotFields  == {"quantity", "weight", "cost", "currency", "serial", "packaging", "name"}
DealFields == {"dealer", "currency"}

RowFields == {"status", "version", "quantity", "gross", "cost", "currency", "serial", "packaging",
              "override"}
IsLotRow(a) == /\ a = [f \in RowFields |-> a[f]]
               /\ a.version \in Nat /\ a.quantity \in Nat \ {0} /\ a.gross \in Int

\* The lots of a purchase are entered in its currency.
ASSUME HoldingFormAssumption ==
    /\ Purchased \subseteq FormRows
    /\ FormLots = [l \in FormRows |-> FormLots[l]] /\ \A l \in FormRows : IsLotRow(FormLots[l])
    /\ \A l \in Purchased : FormLots[l].currency = "TWD"
    /\ Num \in [DOMAIN Num -> Nat \ {0}] /\ Den \in [DOMAIN Num -> Nat \ {0}]
    /\ "g" \in DOMAIN Num /\ Num["g"] = 1 /\ Den["g"] = 1
    /\ DOMAIN Entries = {"quantity", "weight", "cost", "currency", "serial", "packaging", "name", "dealer"}
    /\ Entries["quantity"] \cup Entries["weight"] \subseteq Nat

VARIABLES
    lotRow,         \* server: the assets
    deal,           \* server: the purchase
    catalogue,      \* server: the name of the product the purchased lots follow
    editor,
    kept,           \* what each accepted update of a holding was asked, and did
    quotas

formVars == <<lotRow, deal, catalogue, editor, kept, quotas>>

-----------------------------------------------------------------------------
(* What the list shows: presentHeldAsset *)

Inherited(l) == IF l \in Purchased THEN catalogue ELSE NoText

Presented(l) ==
    LET a == lotRow[l] IN
    [version |-> a.version, quantity |-> a.quantity, weight |-> HalfEven(a.gross, a.quantity),
     gross |-> a.gross, cost |-> a.cost, currency |-> a.currency, serial |-> a.serial,
     packaging |-> a.packaging, inherited |-> Inherited(l),
     name |-> IF a.override # NoText THEN a.override
              ELSE IF Inherited(l) # NoText THEN Inherited(l) ELSE "unnamed",
     dealer |-> IF l \in Purchased THEN deal.dealer ELSE NoText]

Listing == [l \in FormRows |-> IF lotRow[l].status = "HELD" THEN Presented(l) ELSE NoLot]

FormInit ==
    /\ lotRow = FormLots
    /\ deal = [dealer |-> "a", currency |-> "TWD"]
    /\ catalogue = "a"
    /\ editor = [e \in Editors |-> [list |-> Listing, lot |-> NoLot, form |-> NoForm,
                                    base |-> NoLot, save |-> NoSave]]
    /\ kept = {}
    /\ quotas \in FormWorlds

Quota(what) == quotas[what] > 0 /\ quotas' = [quotas EXCEPT ![what] = @ - 1]
SetPage(e, r) == editor' = [editor EXCEPT ![e] = r]
IsEditing(e) == editor[e].form # NoForm
Shut(r) == [r EXCEPT !.lot = NoLot, !.form = NoForm, !.base = NoLot]
RowOf(e) == editor[e].list[editor[e].lot]

-----------------------------------------------------------------------------
(* The form *)

\* initialAssetForm, initialPurchaseForm
InitialForm(row) == [f \in (LotFields \cup DealFields) \cup {"unit"} |->
                       IF f = "unit" THEN "g" ELSE row[f]]

\* From the list as it is cached.  Bound: one save of a page is under way at a time.
OpenEditor(e, l) ==
    /\ ~IsEditing(e) /\ editor[e].save = NoSave /\ editor[e].list[l] # NoLot
    /\ SetPage(e, [editor[e] EXCEPT !.lot = l, !.base = editor[e].list[l],
                                !.form = InitialForm(editor[e].list[l])])
    /\ UNCHANGED <<lotRow, deal, catalogue, kept, quotas>>

\* The busy editor disables its fields.
Editable(e) == IsEditing(e) /\ editor[e].save = NoSave

Filled(e, form) == SetPage(e, [editor[e] EXCEPT !.form = form])

\* unitWeightGrams, and what the unit menu makes of the stored weight: a weight typed before is dropped.
InGrams(form) == ToGrams(form.weight, form.unit)

\* The panels' fields; the purchase's only where there is one.
TypeIn(e, field) ==
    /\ Editable(e) /\ Quota("typings")
    /\ field = "dealer" => editor[e].lot \in Purchased
    /\ \E v \in Entries[field] : Filled(e, [editor[e].form EXCEPT ![field] = v])
    /\ UNCHANGED <<lotRow, deal, catalogue, kept>>

SelectUnit(e) ==
    /\ Editable(e) /\ Quota("typings")
    /\ \E u \in DOMAIN Num :
          Filled(e, [editor[e].form EXCEPT !.weight = FromGrams(RowOf(e).weight, u), !.unit = u])
    /\ UNCHANGED <<lotRow, deal, catalogue, kept>>

\* OverrideField's restore button.
RestoreInherited(e) ==
    /\ Editable(e) /\ Quota("typings")
    /\ RowOf(e).inherited # NoText /\ editor[e].form.name # RowOf(e).inherited
    /\ Filled(e, [editor[e].form EXCEPT !.name = RowOf(e).inherited])
    /\ UNCHANGED <<lotRow, deal, catalogue, kept>>

\* Cancel, Escape or the browser's back button; only the last leaves a save behind.
LeaveEditor(e) ==
    /\ IsEditing(e) /\ Quota("leavings")
    /\ SetPage(e, Shut(editor[e]))
    /\ UNCHANGED <<lotRow, deal, catalogue, kept>>

\* The list is loaded again; a lot that left the holding takes its editor with it.  A load that
\* fails shows an error instead of the editor, whose edits are gone.
LoadList(e) ==
    /\ Quota("loads")
    /\ LET r == [editor[e] EXCEPT !.list = Listing] IN
       \/ SetPage(e, IF IsEditing(e) /\ r.list[r.lot] = NoLot THEN Shut(r) ELSE r)
       \/ quotas.faults > 0 /\ SetPage(e, Shut(editor[e]))
    /\ UNCHANGED <<lotRow, deal, catalogue, kept>>

-----------------------------------------------------------------------------
(* A save *)

ValidForm(form) == form.quantity >= 1 /\ InGrams(form) > 0

FormValue(form, field) == IF field = "weight" THEN InGrams(form) ELSE form[field]

\* Fault: the whole form is sent.
WholeForm(lot, row, form) == LotFields \ (IF lot \in Purchased THEN {"currency"} ELSE {})

\* buildAssetPatch: what differs from the list as it is now; a purchased lot's currency is its purchase's.
AssetPatch(lot, row, form) ==
    {f \in LotFields \ (IF lot \in Purchased THEN {"currency"} ELSE {}) : FormValue(form, f) # row[f]}

\* buildPurchasePatch
DealPatch(lot, row, form) ==
    IF lot \in Purchased THEN {f \in DealFields : form[f] # row[f]} ELSE {}

\* The review step's button.  An entry that does not make sense is an error at once.
SaveForm(e) ==
    /\ Editable(e) /\ Quota("saves") /\ ValidForm(editor[e].form)
    /\ LET r == editor[e] IN
       SetPage(e, [r EXCEPT !.save = [stage |-> "files", lot |-> r.lot, row |-> RowOf(e), base |-> r.base,
                                  form |-> r.form, patch |-> AssetPatch(r.lot, RowOf(e), r.form),
                                  deal |-> DealPatch(r.lot, RowOf(e), r.form)]])
    /\ UNCHANGED <<lotRow, deal, catalogue, kept>>

\* The requests that are left; the last one ends the save and leaves the editor.
Stages(save) == SelectSeq(<<"files", "asset", "deal", "done">>,
                          LAMBDA s : \/ s \in {"files", "done"}
                                     \/ s = "asset" /\ save.patch # {}
                                     \/ s = "deal" /\ save.deal # {})
After(save) == LET s == Stages(save)
               IN s[1 + CHOOSE i \in DOMAIN s : s[i] = save.stage]

\* onDone, or on to the next request; an error leaves the form and the list as they are.
Proceed(e) == LET r == editor[e] IN
              SetPage(e, IF After(r.save) = "done" THEN [Shut(r) EXCEPT !.save = NoSave]
                     ELSE [r EXCEPT !.save.stage = After(r.save)])
GiveUp(e) == SetPage(e, [editor[e] EXCEPT !.save = NoSave])

At(e, stage) == editor[e].save # NoSave /\ editor[e].save.stage = stage

\* Bound: quotas.faults.  The files' requests may fail; an update may be unsent or unheard.
SaveFiles(e) ==
    /\ At(e, "files")
    /\ \/ Proceed(e) /\ UNCHANGED quotas
       \/ Quota("faults") /\ GiveUp(e)
    /\ UNCHANGED <<lotRow, deal, catalogue, kept>>

\* The row an update leaves: columns the patch names, the gross weight from the weight that was
\* sent or else in proportion, an override only where it differs from what is inherited.
Revised(l, save) ==
    LET a == lotRow[l]
        Sent(f) == f \in save.patch
        To(f, old) == IF Sent(f) THEN save.form[f] ELSE old
        quantity == To("quantity", a.quantity)
    IN [a EXCEPT
          !.quantity = quantity,
          !.gross = IF Sent("weight") THEN InGrams(save.form) * quantity
                    ELSE IF Sent("quantity") THEN HalfEven(a.gross * quantity, a.quantity) ELSE a.gross,
          !.cost = To("cost", @), !.currency = To("currency", @), !.serial = To("serial", @),
          !.packaging = IF l \in Purchased THEN To("packaging", @) ELSE @,
          !.override = IF ~Sent("name") THEN @
                       ELSE IF save.form.name = Inherited(l) THEN NoText ELSE save.form.name]

\* Fault: the version is not compared.
AcceptsAny(l, save) == lotRow[l].status = "HELD" /\ Revised(l, save) # lotRow[l]

\* The version, the status, and a change at all.
Accepts(l, save) == /\ lotRow[l].version = save.row.version /\ lotRow[l].status = "HELD"
                    /\ Revised(l, save) # lotRow[l]

UpdateLot(l, save) ==
    /\ lotRow' = [lotRow EXCEPT ![l] = [Revised(l, save) EXCEPT !.version = @ + 1]]
    /\ kept' = kept \cup {[lot |-> l, save |-> save, was |-> lotRow[l], is |-> lotRow'[l],
                           inherited |-> Inherited(l)]}

PatchAsset(e) ==
    /\ At(e, "asset")
    /\ LET save == editor[e].save IN
       \/ /\ Accepts(save.lot, save) /\ UpdateLot(save.lot, save)
          /\ \/ Proceed(e) /\ UNCHANGED quotas
             \/ Quota("faults") /\ GiveUp(e)
       \/ /\ ~Accepts(save.lot, save) \/ quotas.faults > 0
          /\ IF Accepts(save.lot, save) THEN Quota("faults") ELSE UNCHANGED quotas
          /\ GiveUp(e) /\ UNCHANGED <<lotRow, kept>>
    /\ UNCHANGED <<deal, catalogue>>

\* The purchase has no version: its update is refused only when it would change nothing.
RevisedDeal(save) == [f \in DealFields |-> IF f \in save.deal THEN save.form[f] ELSE deal[f]]

\* A new currency is every lot's, each of which is a new version by it.
Relabelled == [l \in FormRows |-> IF l \in Purchased /\ deal'.currency # deal.currency
                              THEN [lotRow[l] EXCEPT !.currency = deal'.currency, !.version = @ + 1]
                              ELSE lotRow[l]]

PatchDeal(e) ==
    /\ At(e, "deal")
    /\ LET save == editor[e].save IN
       \/ /\ RevisedDeal(save) # deal /\ deal' = RevisedDeal(save) /\ lotRow' = Relabelled
          /\ \/ Proceed(e) /\ UNCHANGED quotas
             \/ Quota("faults") /\ GiveUp(e)
       \/ /\ IF RevisedDeal(save) # deal THEN Quota("faults") ELSE UNCHANGED quotas
          /\ GiveUp(e) /\ UNCHANGED <<deal, lotRow>>
    /\ UNCHANGED <<catalogue, kept>>

-----------------------------------------------------------------------------
(* Others *)

\* ProductsService.update: the lots that follow the product do not move.
RenameProduct ==
    /\ Quota("renamings")
    /\ \E n \in Entries["name"] \ {NoText} : catalogue' = n
    /\ UNCHANGED <<lotRow, deal, editor, kept>>

DisposeLot(l) ==
    /\ Quota("renamings") /\ lotRow[l].status = "HELD"
    /\ lotRow' = [lotRow EXCEPT ![l].status = "SOLD", ![l].version = @ + 1]
    /\ UNCHANGED <<deal, catalogue, editor, kept>>

FormNext ==
    \/ \E e \in Editors :
         \/ \E l \in FormRows : OpenEditor(e, l)
         \/ \E f \in DOMAIN Entries : TypeIn(e, f)
         \/ SelectUnit(e) \/ RestoreInherited(e) \/ LeaveEditor(e) \/ LoadList(e)
         \/ SaveForm(e) \/ SaveFiles(e) \/ PatchAsset(e) \/ PatchDeal(e)
    \/ RenameProduct
    \/ \E l \in FormRows : DisposeLot(l)

FormSpec == FormInit /\ [][FormNext]_formVars

-----------------------------------------------------------------------------
(* Properties *)

DigitApart(a, b) == a - b \in {-1, 0, 1}

\* The row an accepted save leaves is what the form shows: but for a name that was cleared, which
\* is inherited again, or inherited and changed in the catalogue since; a packaging state of a
\* lot that has no purchased item to keep it; and the last digit of a weight per piece.
LeavesWhatWasShown(k) ==
    LET form == k.save.form IN
    /\ k.is.quantity = form.quantity /\ k.is.cost = form.cost /\ k.is.serial = form.serial
    /\ k.lot \in Purchased => k.is.packaging = form.packaging
    /\ k.lot \notin Purchased => k.is.currency = form.currency
    /\ DigitApart(HalfEven(k.is.gross, k.is.quantity), InGrams(form))
    /\ \/ form.name = NoText \/ k.inherited # k.save.row.inherited
       \/ form.name = (IF k.is.override # NoText THEN k.is.override
                       ELSE IF k.inherited # NoText THEN k.inherited ELSE "unnamed")

\* What the user left as the form was filled stays as it is stored: unless the list was loaded
\* again in between with another value, which such a save takes back.
Untouched(k, f) == FormValue(k.save.form, f) = k.save.base[f] /\ k.save.row[f] = k.save.base[f]
RewritesNothingElse(k) ==
    /\ \A f \in {"quantity", "cost", "serial", "packaging", "currency"} :
          Untouched(k, f) => k.is[f] = k.was[f]
    /\ Untouched(k, "name") => k.is.override = k.was.override
    /\ Untouched(k, "weight") /\ Untouched(k, "quantity") => k.is.gross = k.was.gross

\* A save of the holding editor leaves the lot as its form shows it and rewrites nothing the user
\* did not touch, whatever was saved by others, reloaded, refused or tried again in between; and
\* the lots of a purchase keep its currency.
EditsAreExact ==
    /\ \A k \in kept : LeavesWhatWasShown(k) /\ RewritesNothingElse(k)
    /\ \A l \in Purchased : lotRow[l].currency = deal.currency

-----------------------------------------------------------------------------
(* Why they hold: the inductive invariant *)

\* A row of the list has, for as long as its version is the lot's, what the lot has; the name it
\* inherits is the catalogue's as it was loaded.
Presents(rows, p, l) ==
    p # NoLot =>
      /\ p.version \in Nat /\ p.version <= rows[l].version
      /\ p.quantity \in Nat \ {0} /\ p.weight \in Int
      /\ p.version = rows[l].version =>
           /\ \A f \in {"quantity", "gross", "cost", "currency", "serial", "packaging"} :
                 p[f] = rows[l][f]
           /\ p.weight = HalfEven(rows[l].gross, rows[l].quantity)
           /\ p.name = IF rows[l].override # NoText THEN rows[l].override
                       ELSE IF p.inherited # NoText THEN p.inherited ELSE "unnamed"

FormFields == LotFields \cup DealFields \cup {"unit"}
IsForm(form) == /\ form = [f \in FormFields |-> form[f]]
                /\ form.quantity \in Nat /\ form.weight \in Int /\ form.unit \in DOMAIN Num

\* A save sends what its form changed of the row it was compared with.
SaveFields == {"stage", "lot", "row", "base", "form", "patch", "deal"}
IsSave(rows, save) ==
    /\ save = [f \in SaveFields |-> save[f]]
    /\ save.lot \in FormRows /\ save.row # NoLot /\ Presents(rows, save.row, save.lot)
    /\ IsForm(save.form) /\ ValidForm(save.form)
    /\ save.patch = AssetPatch(save.lot, save.row, save.form)

PageFields == {"list", "lot", "form", "base", "save"}
IsPage(rows, r) ==
    /\ r = [f \in PageFields |-> r[f]]
    /\ \A l \in FormRows : Presents(rows, r.list[l], l)
    /\ r.form # NoForm => r.lot \in FormRows /\ r.list[r.lot] # NoLot /\ IsForm(r.form)
    /\ r.save # NoSave => IsSave(rows, r.save)

FormIInv ==
    /\ lotRow = [l \in FormRows |-> lotRow[l]] /\ \A l \in FormRows : IsLotRow(lotRow[l])
    /\ editor = [e \in Editors |-> editor[e]] /\ \A e \in Editors : IsPage(lotRow, editor[e])
    /\ EditsAreExact
=============================================================================
