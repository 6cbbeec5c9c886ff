---------------------------- MODULE ProductEditing ----------------------------
(***************************************************************************)
(* One product of the catalogue: ProductsService.update, whose transaction *)
(* reads the row, checks it, and writes with a compare-and-set on the      *)
(* version, and the ProductWizard of one page, whose form was filled from  *)
(* the product as it was when the wizard opened, while the page's list of  *)
(* products is read again and other clients edit the same product.         *)
(*                                                                         *)
(* Weights are whole multiples of the smallest one stored; a magnitude in  *)
(* another unit is rounded to the same number of decimals, half to even.   *)
(* Country, year and purity behave as the name does and are left out.      *)
(***************************************************************************)
EXTENDS Measures, FiniteSets, Sequences

CONSTANTS
    Orgs,          \* organizations; an organization is its canonical name
    Inactive,      \* those that may no longer be assigned
    Names,         \* product names
    Weights,       \* weights an owner types, in the unit shown; 0 is not valid
    Units,         \* weight units
    Texts,         \* brands that are only text
    Initially,     \* bound: the rows the product may have at first
    Bounds,        \* bound: [others, edits, saves, reads, faults]
    NoUpdate

\* The factors are positive, that of a gram is one, and the units are far enough apart for
\* their last digits not to be taken for each other's: 3.75, 31.1 and 1000 grams.
ASSUME UnitsAreApart ==
    /\ IsFiniteSet(Units)
    /\ \A u \in Units : Num[u] \in Nat \ {0} /\ Den[u] \in Nat \ {0}
    /\ \E g \in Units :
          /\ Num[g] = 1 /\ Den[g] = 1
          /\ \A u \in Units \ {g} : 3 * Den[u] <= Num[u]
          /\ \A u, v \in Units \ {g} : \/ u = v
                                      \/ 4 * (Num[u] * Den[v]) <= Num[v] * Den[u]
                                      \/ 4 * (Num[v] * Den[u]) <= Num[u] * Den[v]

NoBrand == "none"
PartyRoles == {"BRAND", "MINT"}
PartyRows == [org : Orgs, role : PartyRoles, primary : BOOLEAN]

Rows == [version : Nat \ {0}, name : Names, active : BOOLEAN,
         brand : Texts \cup Orgs \cup {NoBrand}, weight : Nat \ {0}, unit : Units,
         parties : SUBSET PartyRows]

VARIABLES
    product,   \* the row of the product, its parties with it
    page,      \* the page of the catalogue and its wizard
    request,   \* the requests the server works on: the page's, and another client's
    accepted,  \* ghost: the last update that was accepted, and what it came from
    allowance  \* what is left of Bounds

prodVars == <<product, page, request, accepted, allowance>>

\* A patch: weight 0, no tuple of parties and Same are fields it does not name.
Same == "same"
Nothing(version) == [version |-> version, name |-> Same, active |-> Same, brand |-> Same,
                     weight |-> 0, unit |-> Same, parties |-> <<>>]

Steps == <<"basics", "origin", "spec", "review">>

Brandings == Texts \cup Orgs \cup {NoBrand}
Patches == [version : Nat \ {0}, name : Names \cup {Same}, active : {"yes", "no", Same},
            brand : Brandings \cup {Same}, weight : Nat, unit : Units \cup {Same},
            parties : {<<>>} \cup {<<ps>> : ps \in SUBSET PartyRows}]
Forms == [name : Names, active : BOOLEAN, brand : Brandings, weight : Nat, unit : Units,
          dirty : BOOLEAN, typed : BOOLEAN, toggled : BOOLEAN]
Wizards == [at : 0 .. Len(Steps), seen : Rows, opened : Rows, form : Forms,
            brand : Orgs \cup {NoBrand}, saving : BOOLEAN]
Updates == [patch : Patches, checked : BOOLEAN, fresh : BOOLEAN]
Accepted == [by : {"page", "other"}, patch : Patches, before : Rows, fresh : BOOLEAN,
             opened : Rows, form : Forms, brand : Orgs \cup {NoBrand}]

ProductTypeOK ==
    /\ product \in Rows /\ page \in Wizards
    /\ request \in [{"page", "other"} -> Updates \cup {NoUpdate}]
    /\ accepted \in Accepted \cup {NoUpdate}
    /\ allowance \in [{"others", "edits", "saves", "reads", "faults"} -> Nat]

Consume(what) == allowance[what] > 0 /\ allowance' = [allowance EXCEPT ![what] = @ - 1]

-----------------------------------------------------------------------------
(* ProductsService.update *)

Brands(parties) == {p \in parties : p.role = "BRAND"}

\* The primary brand, or else any.
BrandOf(parties) ==
    LET primary == {p \in Brands(parties) : p.primary}
    IN  IF primary # {} THEN (CHOOSE p \in primary : TRUE).org
        ELSE (CHOOSE p \in Brands(parties) : TRUE).org

\* The product's brand is the name of the brand organization assigned to it, if one is.
BrandAgrees(row) == Brands(row.parties) # {} => row.brand = BrandOf(row.parties)

ASSUME ProductAssumption ==
    /\ Weights \subseteq Nat /\ Same \notin Units
    /\ \A row \in Initially : row \in Rows /\ BrandAgrees(row)
    /\ Bounds \in [{"others", "edits", "saves", "reads", "faults"} -> Nat]

\* resolveParties: one primary for each role, and active organizations only.
Resolvable(parties) ==
    /\ \A r \in PartyRoles : Cardinality({p \in parties : p.role = r /\ p.primary}) <= 1
    /\ \A p, q \in parties : p.org = q.org /\ p.role = q.role => p = q
    /\ \A p \in parties : p.org \notin Inactive

\* Fault: the brand's text is left as it was when the parties change.
BrandUntouched(row, patch) == IF patch.brand # Same THEN patch.brand ELSE row.brand

NewBrand(row, patch) ==
    CASE patch.parties # <<>> /\ Brands(patch.parties[1]) # {} -> BrandOf(patch.parties[1])
      [] patch.parties # <<>> /\ Brands(patch.parties[1]) = {} ->
            IF patch.brand # Same THEN patch.brand ELSE NoBrand
      [] OTHER -> IF patch.brand # Same THEN patch.brand ELSE row.brand

\* Fault: a patch without a weight is converted as well.
AlwaysConverted(row, patch) ==
    [row EXCEPT !.version = @ + 1, !.weight = ToGrams(patch.weight, row.unit)]

\* The row after the patch; the unit alone leaves the stored grams as they are.
Patched(row, patch) ==
    LET unit == IF patch.unit # Same THEN patch.unit ELSE row.unit IN
    [version |-> row.version + 1,
     name    |-> IF patch.name # Same THEN patch.name ELSE row.name,
     active  |-> IF patch.active # Same THEN patch.active = "yes" ELSE row.active,
     brand   |-> NewBrand(row, patch),
     weight  |-> IF patch.weight > 0 THEN ToGrams(patch.weight, unit) ELSE row.weight,
     unit    |-> unit,
     parties |-> IF patch.parties # <<>> THEN patch.parties[1] ELSE row.parties]

\* A scalar brand may not be set beside a BRAND organization.
ScalarBesideBrand(row, patch) ==
    patch.brand # Same /\ Brands(row.parties) # {} /\ patch.parties = <<>>

Acceptable(row, patch) ==
    /\ row.version = patch.version
    /\ ~ScalarBesideBrand(row, patch)
    /\ patch.parties # <<>> => Resolvable(patch.parties[1])
    /\ patch.weight > 0 => Patched(row, patch).weight > 0
    /\ Patched(row, patch) # [row EXCEPT !.version = @ + 1]

\* Fault: the write does not compare the version.
NoCompare(c) == TRUE

\* updateMany where id and the version that was read.
StillCurrent(c) == product.version = request[c].patch.version

UpdateAnswered(c) == request' = [request EXCEPT ![c] = NoUpdate]

\* A refused save leaves the wizard as it is.
Unsaved == page' = [page EXCEPT !.saving = FALSE]

\* onDone: back to the list, which is read again.
PageSaved == page' = [page EXCEPT !.saving = FALSE, !.at = 0, !.seen = product']

\* The transaction's reads: the row, its version, what the patch makes of it.
Check(c) ==
    /\ request[c] # NoUpdate /\ ~request[c].checked
    /\ IF Acceptable(product, request[c].patch)
       THEN request' = [request EXCEPT ![c].checked = TRUE] /\ UNCHANGED page
       ELSE /\ UpdateAnswered(c)
            /\ IF c = "page" THEN Unsaved ELSE UNCHANGED page
    /\ UNCHANGED <<product, accepted, allowance>>

\* Its writes: the row by compare-and-set, and the parties, replaced when supplied.
Write(c) ==
    /\ request[c] # NoUpdate /\ request[c].checked /\ StillCurrent(c)
    /\ product' = Patched(product, request[c].patch)
    /\ accepted' = [by |-> c, patch |-> request[c].patch, before |-> product,
                    fresh |-> request[c].fresh, opened |-> page.opened, form |-> page.form,
                    brand |-> page.brand]
    /\ UpdateAnswered(c)
    /\ \/ /\ c = "page" /\ PageSaved
          /\ UNCHANGED allowance
       \/ /\ c = "page" /\ Consume("faults") /\ Unsaved   \* the answer is lost
       \/ /\ c # "page"
          /\ UNCHANGED <<page, allowance>>

Collide(c) ==
    /\ request[c] # NoUpdate /\ request[c].checked /\ ~StillCurrent(c)
    /\ UpdateAnswered(c)
    /\ IF c = "page" THEN Unsaved ELSE UNCHANGED page
    /\ UNCHANGED <<product, accepted, allowance>>

SendUpdate(c, patch, fresh) ==
    /\ request[c] = NoUpdate
    /\ request' = [request EXCEPT ![c] = [patch |-> patch, checked |-> FALSE, fresh |-> fresh]]

\* Another client sends a patch made from the current row, or an older one.
OtherPatches ==
    LET version == product.version IN
    {[Nothing(version) EXCEPT !.name = n] : n \in Names}
    \cup {[Nothing(version) EXCEPT !.brand = t] : t \in Texts}
    \cup {[Nothing(version) EXCEPT !.parties = <<{[org |-> o, role |-> r, primary |-> TRUE]}>>] :
              o \in Orgs, r \in PartyRoles}

OtherSends ==
    /\ Consume("others")
    /\ \E patch \in OtherPatches : SendUpdate("other", patch, TRUE)
    /\ UNCHANGED <<product, page, accepted>>

-----------------------------------------------------------------------------
(* The wizard *)

\* The brand party the wizard shows.
OriginalBrand(row) == IF Brands(row.parties) = {} THEN NoBrand ELSE BrandOf(row.parties)

\* productWizardFormFrom, as the wizard opens.
FormFrom(row) ==
    [name |-> row.name, active |-> row.active, brand |-> row.brand,
     weight |-> FromGrams(row.weight, row.unit), unit |-> row.unit, dirty |-> FALSE,
     typed |-> FALSE, toggled |-> FALSE]

OpenedAt(step, row) ==
    [at |-> step, seen |-> row, opened |-> row, form |-> FormFrom(row),
     brand |-> OriginalBrand(row), saving |-> FALSE]

ProductInit ==
    /\ product \in Initially
    /\ page = OpenedAt(0, product)
    /\ request = [c \in {"page", "other"} |-> NoUpdate]
    /\ accepted = NoUpdate
    /\ allowance = Bounds

OnStep(step) == page.at > 0 /\ Steps[page.at] = step /\ ~page.saving
Shows(new) == page' = new /\ UNCHANGED <<product, request, accepted>>

OpenWizard ==
    /\ page.at = 0
    /\ Shows(OpenedAt(1, page.seen)) /\ UNCHANGED allowance

\* The list is read again; the wizard takes the product from it, its form stays.
RefetchProduct ==
    /\ page.seen # product /\ Consume("reads")
    /\ Shows([page EXCEPT !.seen = product])

\* The step is in the URL and survives a reload, the form does not.
Reload ==
    /\ page.at > 0 /\ ~page.saving /\ Consume("reads")
    /\ Shows(OpenedAt(page.at, product))

Cancel ==
    /\ page.at > 0 /\ ~page.saving
    /\ Shows(OpenedAt(0, page.seen)) /\ UNCHANGED allowance

ValidStep(step) == step = "spec" => page.form.weight > 0

NextStep ==
    /\ page.at \in 1 .. Len(Steps) - 1 /\ ~page.saving /\ ValidStep(Steps[page.at])
    /\ Shows([page EXCEPT !.at = @ + 1]) /\ UNCHANGED allowance

PreviousStep ==
    /\ page.at > 1 /\ ~page.saving
    /\ Shows([page EXCEPT !.at = @ - 1]) /\ UNCHANGED allowance

EditForm(new) == Consume("edits") /\ Shows(new)

EditBasics ==
    /\ OnStep("basics")
    /\ \/ \E n \in Names \ {page.form.name} : EditForm([page EXCEPT !.form.name = n])
       \/ EditForm([page EXCEPT !.form.active = ~@])

ChooseBrand ==
    /\ OnStep("origin")
    /\ \E b \in (Orgs \cup {NoBrand}) \ {page.brand} : EditForm([page EXCEPT !.brand = b])

TypeWeight ==
    /\ OnStep("spec")
    /\ \E w \in Weights \ {page.form.weight} :
          EditForm([page EXCEPT !.form.weight = w, !.form.dirty = TRUE, !.form.typed = TRUE])

\* The magnitude shown is converted with the unit.
ChooseUnit ==
    /\ OnStep("spec")
    /\ \E u \in Units \ {page.form.unit} :
          EditForm([page EXCEPT !.form.weight = convertWeightDisplay(@, page.form.unit, u),
                                !.form.unit = u, !.form.dirty = TRUE, !.form.toggled = TRUE])

Changed(old, new) == IF new # old THEN new ELSE Same

\* Every other party is kept; the brand is replaced, or cleared.
productPartiesWithBrand(row, org) ==
    (row.parties \ Brands(row.parties))
        \cup (IF org = NoBrand THEN {} ELSE {[org |-> org, role |-> "BRAND", primary |-> TRUE]})

\* Fault: the weight shown is sent even when nobody touched it.
AlwaysWeight(row, form) == form.weight

\* A weight is sent when it was touched and is not what the catalogue has, in that unit.
WeightPatch(row, form) ==
    IF form.dirty /\ form.weight # FromGrams(row.weight, form.unit) THEN form.weight ELSE 0

buildProductPatch(row, form) ==
    [Nothing(row.version) EXCEPT
        !.name = Changed(row.name, form.name),
        !.active = IF form.active = row.active THEN Same ELSE IF form.active THEN "yes" ELSE "no",
        !.brand = Changed(row.brand, form.brand),
        !.weight = WeightPatch(row, form),
        !.unit = Changed(row.unit, form.unit)]

PatchFor(row, form, brand) ==
    LET patch == buildProductPatch(row, form) IN
    IF OriginalBrand(row) = brand THEN patch
    ELSE [patch EXCEPT !.brand = brand, !.parties = <<productPartiesWithBrand(row, brand)>>]

\* What the page sends is made from the product it has by now.
Body == PatchFor(page.seen, page.form, page.brand)

\* A product that moved on under the wizard is told of, and yet may be saved.
Stale == page.seen.version # page.opened.version

Submit ==
    /\ OnStep("review") /\ ValidStep("spec") /\ Consume("saves")
    /\ IF Body = Nothing(page.seen.version)
       THEN page' = [page EXCEPT !.at = 0] /\ UNCHANGED request
       ELSE page' = [page EXCEPT !.saving = TRUE] /\ SendUpdate("page", Body, ~Stale)
    /\ UNCHANGED <<product, accepted>>

ProductNext ==
    \/ \E c \in {"page", "other"} : Check(c) \/ Write(c) \/ Collide(c)
    \/ OtherSends
    \/ OpenWizard \/ RefetchProduct \/ Reload \/ Cancel \/ NextStep \/ PreviousStep
    \/ EditBasics \/ ChooseBrand \/ TypeWeight \/ ChooseUnit \/ Submit

ProductSpec == ProductInit /\ [][ProductNext]_prodVars

-----------------------------------------------------------------------------
(* Properties *)

\* Two requests made from one version cannot both succeed: an update is applied to the
\* very row it was made from.
UpdatesAreMadeFromTheRow ==
    accepted # NoUpdate => accepted.before.version = accepted.patch.version

\* The product's brand is the name of the brand organization assigned to it, whenever one
\* is, whichever of the two an update names.
BrandIsTheAssignedOne == BrandAgrees(product)

Distance(a, b) == IF a > b THEN a - b ELSE b - a

\* Changing the unit there and back moves a weight by one last digit of a unit at most.
Rounded(a, b) == \E u \in Units : Distance(a, b) * Den[u] <= Num[u]

\* A save changes what its owner changed in the form and nothing else, unless the page had
\* already said that the product had moved on; a weight may be off by the rounding of a
\* change of units.
OnlyOwnChanges ==
    accepted # NoUpdate /\ accepted.by = "page" /\ accepted.fresh =>
        LET after == Patched(accepted.before, accepted.patch)
            a     == accepted
        IN  /\ after.name # a.before.name => a.form.name # a.opened.name
            /\ after.active # a.before.active => a.form.active # a.opened.active
            /\ after.brand # a.before.brand => a.brand # OriginalBrand(a.opened)
            /\ after.parties # a.before.parties => a.brand # OriginalBrand(a.opened)
            /\ after.unit # a.before.unit => a.form.toggled
            /\ after.weight # a.before.weight =>
                  a.form.typed \/ (a.form.toggled /\ Rounded(after.weight, a.before.weight))

\* Concurrent updates of a product: none is lost, none changes what its owner did not, and the
\* brand named is the brand assigned (products.service.ts:114).
ProductsAreEditedSoundly ==
    ProductTypeOK /\ UpdatesAreMadeFromTheRow /\ BrandIsTheAssignedOne /\ OnlyOwnChanges

-----------------------------------------------------------------------------
(* The inductive invariant *)

\* A version names one content of the row: what was read earlier is the row or older.
Precedes(old, new) == old.version <= new.version /\ (old.version = new.version => old = new)
PageFollowsTheProduct == Precedes(page.opened, page.seen) /\ Precedes(page.seen, product)

\* The brand as text and, but for a choice, the unit are those the wizard opened with; a weight
\* was touched by typing it or by choosing its unit.
FormIsOf(row, form) ==
    /\ form.brand = row.brand /\ (~form.toggled => form.unit = row.unit)
    /\ form.dirty => form.typed \/ form.toggled

\* A checked update may still be written to the row that was checked, and the page keeps what
\* it sent until the answer.
UpdateIsSound(c) ==
    /\ request[c].patch.version <= product.version
    /\ request[c].checked /\ StillCurrent(c) => Acceptable(product, request[c].patch)
    /\ c = "page" => /\ page.saving /\ page.at > 0
                     /\ request[c].fresh =>
                           request[c].patch = PatchFor(page.opened, page.form, page.brand)
UpdatesAreSound == \A c \in {"page", "other"} : request[c] # NoUpdate => UpdateIsSound(c)

AcceptedIsSound ==
    accepted # NoUpdate =>
        /\ accepted.before.version = accepted.patch.version
        /\ accepted.by = "page" /\ accepted.fresh =>
              /\ accepted.before = accepted.opened
              /\ accepted.patch = PatchFor(accepted.opened, accepted.form, accepted.brand)
              /\ FormIsOf(accepted.opened, accepted.form)

ProductIInv ==
    /\ ProductTypeOK /\ BrandAgrees(product) /\ PageFollowsTheProduct
    /\ FormIsOf(page.opened, page.form) /\ UpdatesAreSound /\ AcceptedIsSound
===============================================================================
