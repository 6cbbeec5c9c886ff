----------------------------- MODULE WizardDraft -----------------------------
(***************************************************************************)
(* The draft of one purchase wizard (PurchaseWizard.tsx, steps.tsx,        *)
(* media.tsx, model.ts): its items, costs and photos, the edits of each    *)
(* step, the decoding and detection that finish later on the photos they   *)
(* began with, the copy in local storage and what reading it back accepts, *)
(* and the submission, against a product catalogue others edit.            *)
(***************************************************************************)
EXTENDS Integers, Sequences, FiniteSets, SequencesExt

CONSTANTS
    Products, NoProduct,
    Prices,             \* amounts a line, a charge or the shipping can be given
    MAX_ITEMS,          \* MAX_ALLOCATION_ITEMS
    MAX_MEDIA,          \* MAX_WIZARD_MEDIA_PER_KIND
    Works,              \* decodings and detections that may overlap
    Desks,              \* bounds: the draft a behaviour begins with, the topics
                        \*         of its edits, and how many
    NoDraft, NoWork

ASSUME WizardDraftAssumption ==
    /\ Prices \subseteq Nat /\ MAX_ITEMS \in Nat \ {0} /\ MAX_MEDIA \in Nat \ {0}
    /\ NoProduct \notin Products
    /\ \A d \in Desks : d.topics \subseteq {"items", "photos", "costs", "products", "review"}
                        /\ d.edits \in Nat /\ d.loads \in Nat /\ d.saves \in Nat /\ d.faults \in Nat /\ d.revisions \in Nat

VARIABLES
    draft, work, stored,
    cache,              \* the page's products query: a version, 0 when not listed
    catalog,            \* ProductDefinition rows
    phase, post, notice,
    bought,           \* what was created, NoDraft before
    nextId, allowance, desk,
    settled,            \* the user only wants to get this purchase through
    refreshing,         \* the products are fetched again after a conflict
    shown,              \* ghost: the costs that the costs step showed last, beside the lines
    spoiled             \* ghost: an edit the parser does not allow for was stored

draftVars == <<draft, work, stored, cache, catalog, phase, post, notice, bought,
          nextId, allowance, desk, settled, refreshing, shown, spoiled>>

\* A line subtotal that is an empty input.
Blank == -1
Ids   == 0 .. 6
\* Where an item's name, metal, weight and purity come from.
Own   == [of |-> NoProduct, at |-> 0]
Versions == 0 .. 3

Item(id) == [id |-> id, product |-> NoProduct, version |-> 0, spec |-> Own,
             named |-> FALSE, price |-> 0, manual |-> Blank]
\* target 0 is the whole purchase.
Photo(id, target) == [id |-> id, target |-> target, primary |-> FALSE, file |-> TRUE, crop |-> "default"]

Steps == 1 .. 6         \* transaction, items, costs, photos, documents, review
ItemsStep  == 2
CostsStep  == 3
PhotosStep == 4
ReviewStep     == 6

NewDraft == [step |-> 1, furthest |-> 1, items |-> <<Item(1)>>, photos |-> <<>>,
             mode |-> "SIMPLE", charges |-> 0, shipping |-> 0, discount |-> 0,
             method |-> "SUBTOTAL_PROPORTIONAL"]

ItemIds(d)  == {d.items[i].id : i \in DOMAIN d.items}
PhotoIds(s) == {s[i].id : i \in DOMAIN s}

DraftTypeOK ==
    /\ draft.step \in Steps /\ draft.furthest \in Steps /\ draft.step <= draft.furthest
    /\ Len(draft.items) >= 1 /\ Cardinality(ItemIds(draft)) = Len(draft.items)
    /\ Cardinality(PhotoIds(draft.photos)) = Len(draft.photos)
    /\ \A i \in DOMAIN draft.items :
          draft.items[i] \in [id : Ids, product : Products \cup {NoProduct}, version : Versions,
                              spec : [of : Products \cup {NoProduct}, at : Versions],
                              named : BOOLEAN, price : Prices \cup {Blank, 0}, manual : Prices \cup {Blank, 0}]
    /\ \A i \in DOMAIN draft.photos :
          draft.photos[i] \in [id : Ids, target : Ids, primary : BOOLEAN, file : BOOLEAN,
                               crop : {"default", "found", "hand"}]
    /\ draft.mode \in {"SIMPLE", "ITEMIZED"} /\ draft.method \in {"SUBTOTAL_PROPORTIONAL", "MANUAL"}
    /\ \A w \in Works : work[w] = NoWork \/ work[w].kind \in {"pick", "reselect", "detect"}
    /\ cache \in [Products -> Versions]
    /\ catalog \in [Products -> [version : Versions, active : BOOLEAN]]
    /\ phase \in {"editing", "posting", "answered", "done", "closed"}
    /\ notice \in {"none", "conflict", "inactive", "failed"} /\ refreshing \in BOOLEAN
    /\ shown = NoDraft \/ shown \in Int

-----------------------------------------------------------------------------
(* The photos of a draft.                                                  *)

Mains(photos, t) == {i \in DOMAIN photos : photos[i].target = t /\ photos[i].primary}
Of(photos, t)    == {i \in DOMAIN photos : photos[i].target = t}

\* The first photo of each target that is marked, or else its first.
ChosenFor(photos, t) ==
    IF Mains(photos, t) # {} THEN Min(Mains(photos, t)) ELSE Min(Of(photos, t))

normalizePrimaryWizardPhotos(photos) ==
    [i \in DOMAIN photos |->
        [photos[i] EXCEPT !.primary = ChosenFor(photos, photos[i].target) = i]]

PatchedPhotos(photos, id, next) ==
    [i \in DOMAIN photos |-> IF photos[i].id = id THEN next @@ photos[i] ELSE photos[i]]

TargetOf(photos, id) == photos[CHOOSE i \in DOMAIN photos : photos[i].id = id].target
IsMain(photos, id)   == \E i \in DOMAIN photos : photos[i].id = id /\ photos[i].primary

setPrimaryWizardPhoto(photos, id) ==
    normalizePrimaryWizardPhotos(
        [i \in DOMAIN photos |->
            IF photos[i].target = TargetOf(photos, id)
            THEN [photos[i] EXCEPT !.primary = photos[i].id = id] ELSE photos[i]])

retargetWizardPhoto(photos, id, target) ==
    LET updated == PatchedPhotos(photos, id, [target |-> target])
    IN  IF IsMain(photos, id) THEN setPrimaryWizardPhoto(updated, id)
        ELSE normalizePrimaryWizardPhotos(updated)

\* Mutants of Released: the marks are not put right; the targets are kept.
OnlyReleased(photos, ids) ==
    [i \in DOMAIN photos |-> IF photos[i].target \notin ids THEN [photos[i] EXCEPT !.target = 0] ELSE photos[i]]
NeverReleased(photos, ids) == photos

\* PurchaseWizard: photos of an item that is no longer there become the purchase's.
Released(photos, ids) ==
    normalizePrimaryWizardPhotos(
        [i \in DOMAIN photos |->
            IF photos[i].target # 0 /\ photos[i].target \notin ids
            THEN [photos[i] EXCEPT !.target = 0] ELSE photos[i]])

-----------------------------------------------------------------------------
(* The costs of a draft.                                                   *)

Amount(input) == IF input = Blank THEN 0 ELSE input
Lines(d)  == FoldSeq(LAMBDA item, sum : sum + Amount(item.price), 0, d.items)
Manual(d) == FoldSeq(LAMBDA item, sum : sum + Amount(item.manual), 0, d.items)

\* Mutant of resolveCosts: the charges of the itemized view stay.
UnpinnedCosts(d) ==
    [subtotal |-> Lines(d), shipping |-> d.shipping, discount |-> d.discount, charges |-> d.charges]

\* model.ts: what is submitted.
resolveCosts(d) ==
    [subtotal |-> Lines(d), shipping |-> d.shipping, discount |-> d.discount,
     charges  |-> IF d.mode = "SIMPLE" THEN 0 ELSE d.charges]

\* steps.tsx: what the costs step shows.
resolveCostsFor(d, derivedSubtotal) ==
    [subtotal |-> derivedSubtotal, shipping |-> d.shipping, discount |-> d.discount,
     charges  |-> IF d.mode = "ITEMIZED" THEN d.charges ELSE 0]

purchaseTotalPreview(costs) == costs.subtotal + costs.charges + costs.shipping - costs.discount

\* What the user saw last of the total, without the prices of the lines: on the costs step.
LookingAt(d, before) ==
    IF d.step = CostsStep
    THEN purchaseTotalPreview(resolveCostsFor(d, Lines(d))) - Lines(d) ELSE before

-----------------------------------------------------------------------------
(* Validation, and reading a stored draft back.                            *)

validateItemsStep(d) ==
    /\ Len(d.items) <= MAX_ITEMS
    /\ \A i \in DOMAIN d.items : d.items[i].named

validateCostsStep(d) ==
    LET total == purchaseTotalPreview(resolveCosts(d))
    IN  /\ \A i \in DOMAIN d.items : d.items[i].price # Blank
        /\ total > 0
        /\ d.method = "SUBTOTAL_PROPORTIONAL" => Lines(d) > 0
        /\ d.method = "MANUAL" => /\ \A i \in DOMAIN d.items : d.items[i].manual # Blank
                                  /\ Manual(d) = total

validateWizardStep(d, step) ==
    CASE step = ItemsStep -> validateItemsStep(d)
      [] step = CostsStep -> validateCostsStep(d)
      [] step = ReviewStep    -> validateItemsStep(d) /\ validateCostsStep(d)
      [] OTHER            -> TRUE

firstInvalidStep(d) == Min({s \in Steps : ~validateWizardStep(d, s)})

parsePurchaseWizardDraft(d) ==
    /\ d.step <= d.furthest
    /\ Len(d.items) \in 1 .. MAX_ITEMS
    /\ Len(d.photos) <= MAX_MEDIA
    /\ Cardinality(ItemIds(d)) = Len(d.items)
    /\ Cardinality(PhotoIds(d.photos)) = Len(d.photos)
    /\ \A i \in DOMAIN d.photos : d.photos[i].target \in ItemIds(d) \cup {0}

\* The original file is not stored.
Serialized(d) == [d EXCEPT !.photos = [i \in DOMAIN d.photos |-> [d.photos[i] EXCEPT !.file = FALSE]]]

-----------------------------------------------------------------------------
DraftInit ==
    /\ desk \in Desks
    /\ draft = desk.start
    /\ work = [w \in Works |-> NoWork] /\ stored = NoDraft
    /\ catalog = [p \in Products |-> [version |-> 1, active |-> TRUE]]
    /\ cache = [p \in Products |-> 1]
    /\ phase = "editing" /\ post = NoDraft /\ notice = "none" /\ bought = NoDraft
    /\ nextId = desk.nextId
    /\ settled = FALSE
    /\ allowance = [edits |-> desk.edits, loads |-> desk.loads, saves |-> desk.saves, faults |-> desk.faults,
                  revisions |-> desk.revisions]
    /\ refreshing = FALSE /\ shown = LookingAt(draft, NoDraft) /\ spoiled = FALSE

Can(topic) == topic \in desk.topics

\* PurchaseWizard: updateDraft does nothing while the purchase is being sent.
Updates(d) ==
    /\ phase = "editing" /\ draft' = d /\ notice' = "none" /\ shown' = LookingAt(d, shown)
    /\ UNCHANGED <<stored, cache, catalog, phase, post, bought, desk, settled, refreshing>>

Edits(step, d) ==
    /\ draft.step = step /\ allowance.edits > 0 /\ ~settled
    /\ allowance' = [allowance EXCEPT !.edits = @ - 1]
    /\ Updates(d)

\* ItemsStep: every change of the items releases the photos of those that left.
EditItems(items) ==
    Edits(ItemsStep, LET d == [draft EXCEPT !.items = items]
                     IN  [d EXCEPT !.photos = Released(draft.photos, ItemIds(d))])

-----------------------------------------------------------------------------
(* The items.                                                              *)

Fresh == nextId \in Ids /\ nextId' = nextId + 1

AddItem ==
    /\ Can("items") /\ Len(draft.items) < MAX_ITEMS /\ Fresh
    /\ EditItems(Append(draft.items, Item(nextId)))
    /\ UNCHANGED <<work, spoiled>>

\* The copy button has no limit.
DuplicateItem(i) ==
    /\ Can("items") /\ Len(draft.items) <= MAX_ITEMS /\ Fresh
    /\ EditItems(InsertAt(draft.items, i + 1, [draft.items[i] EXCEPT !.id = nextId]))
    /\ spoiled' = (spoiled \/ Len(draft.items) >= MAX_ITEMS)
    /\ UNCHANGED work

\* Mutant of RemoveItem: also the last one.
RemoveAnyItem(i) ==
    /\ Can("items") /\ EditItems(RemoveAt(draft.items, i)) /\ UNCHANGED <<work, spoiled, nextId>>

RemoveItem(i) ==
    /\ Can("items") /\ Len(draft.items) > 1
    /\ EditItems(RemoveAt(draft.items, i))
    /\ UNCHANGED <<work, spoiled, nextId>>

MoveItem(i) ==
    /\ Can("items") /\ i < Len(draft.items)
    /\ EditItems([draft.items EXCEPT ![i] = draft.items[i + 1], ![i + 1] = draft.items[i]])
    /\ UNCHANGED <<work, spoiled, nextId>>

applyProductToItem(item, p) ==
    [item EXCEPT !.product = p, !.version = cache[p], !.named = TRUE,
                 !.spec = [of |-> p, at |-> cache[p]]]

ChooseProduct(i, p) ==
    /\ Can("products") /\ cache[p] > 0
    /\ EditItems([draft.items EXCEPT ![i] = applyProductToItem(draft.items[i], p)])
    /\ UNCHANGED <<work, spoiled, nextId>>

\* Mutant of Customize: the item keeps its product.
PatchProduct(i, named) ==
    /\ Can("products")
    /\ EditItems([draft.items EXCEPT ![i].spec = Own, ![i].named = named])
    /\ UNCHANGED <<work, spoiled, nextId>>

\* A change of the name, form, metal, weight, purity, year or country.
Customize(i, named) ==
    /\ Can("products")
    /\ EditItems([draft.items EXCEPT ![i].product = NoProduct, ![i].version = 0,
                                     ![i].spec = Own, ![i].named = named])
    /\ UNCHANGED <<work, spoiled, nextId>>

StaleItems(d) == {i \in DOMAIN d.items : /\ d.items[i].product # NoProduct
                                        /\ cache[d.items[i].product] # d.items[i].version}

\* The two buttons of a warning; they are pressed as often as it takes.
Resolve(i) ==
    /\ draft.step = ItemsStep /\ i \in StaleItems(draft)
    /\ \/ /\ cache[draft.items[i].product] > 0
          /\ Updates([draft EXCEPT !.items[i] = applyProductToItem(@, @.product)])
       \/ Updates([draft EXCEPT !.items[i].product = NoProduct, !.items[i].version = 0,
                                !.items[i].spec = Own])
    /\ UNCHANGED <<work, spoiled, nextId, allowance>>

-----------------------------------------------------------------------------
(* The costs.                                                              *)

EditCosts(d) == Can("costs") /\ Edits(CostsStep, d) /\ UNCHANGED <<work, spoiled, nextId>>

SetPrice(i, price)  == EditCosts([draft EXCEPT !.items[i].price = price])
ToggleMode          == EditCosts([draft EXCEPT !.mode = IF @ = "SIMPLE" THEN "ITEMIZED" ELSE "SIMPLE"])
SetCharges(amount)  == draft.mode = "ITEMIZED" /\ EditCosts([draft EXCEPT !.charges = amount])
SetShipping(amount) == EditCosts([draft EXCEPT !.shipping = amount])
SetDiscount(amount) == EditCosts([draft EXCEPT !.discount = amount])

\* The method and the manual amounts are only offered for several items.
SetMethod ==
    /\ Len(draft.items) > 1
    /\ EditCosts([draft EXCEPT !.method = IF @ = "MANUAL" THEN "SUBTOTAL_PROPORTIONAL" ELSE "MANUAL"])
SetManual(i, amount) ==
    /\ Len(draft.items) > 1 /\ draft.method = "MANUAL"
    /\ EditCosts([draft EXCEPT !.items[i].manual = amount])

-----------------------------------------------------------------------------
(* The photos.  What finishes later is applied to the photos of the render *)
(* it began in, and from whatever step the page shows by then.             *)

EditPhotos(photos) ==
    Can("photos") /\ Edits(PhotosStep, [draft EXCEPT !.photos = photos]) /\ UNCHANGED <<work, spoiled, nextId>>

SetPrimary(id)       == EditPhotos(setPrimaryWizardPhoto(draft.photos, id))
Retarget(id, target) == EditPhotos(retargetWizardPhoto(draft.photos, id, target))
RemovePhoto(id)      == EditPhotos(normalizePrimaryWizardPhotos(SelectSeq(draft.photos, LAMBDA ph : ph.id # id)))
Crop(id)             == EditPhotos(PatchedPhotos(draft.photos, id, [crop |-> "hand"]))

Begins(w, kind, id) ==
    /\ Can("photos") /\ phase = "editing" /\ draft.step = PhotosStep /\ ~settled /\ work[w] = NoWork
    /\ work' = [work EXCEPT ![w] = [kind |-> kind, id |-> id, new |-> nextId, base |-> draft.photos,
                                    target |-> draft.items[1].id]]
    /\ UNCHANGED <<draft, stored, cache, catalog, phase, post, notice, bought, desk, settled, refreshing, shown, spoiled>>

Taken == allowance.edits > 0 /\ allowance' = [allowance EXCEPT !.edits = @ - 1]

BeginPick(w) ==
    /\ Len(draft.photos) < MAX_MEDIA /\ Fresh /\ Taken
    /\ Begins(w, "pick", 0)

\* The photo is given a new id: it is a new original.
BeginReselect(w, i) ==
    /\ ~draft.photos[i].file /\ Fresh /\ Taken
    /\ Begins(w, "reselect", draft.photos[i].id)

\* A preview that is loaded or reloaded, and the button under it.
BeginDetect(w, i) ==
    /\ draft.photos[i].file
    /\ \A v \in Works : work[v] # NoWork => <<work[v].kind, work[v].id>> # <<"detect", draft.photos[i].id>>
    /\ allowance.loads > 0 /\ allowance' = [allowance EXCEPT !.loads = @ - 1]
    /\ Begins(w, "detect", draft.photos[i].id) /\ UNCHANGED nextId

Finished(job) ==
    CASE job.kind = "pick"     -> normalizePrimaryWizardPhotos(Append(job.base, Photo(job.new, job.target)))
      [] job.kind = "reselect" ->
            PatchedPhotos(job.base, job.id, [id |-> job.new, file |-> TRUE, crop |-> "default"])
      [] job.kind = "detect"   -> PatchedPhotos(job.base, job.id, [crop |-> "found"])

\* What is finished while the purchase is sent is dropped.
Finish(w) ==
    /\ work[w] # NoWork
    /\ work' = [work EXCEPT ![w] = NoWork]
    /\ IF phase = "editing"
       THEN /\ draft' = [draft EXCEPT !.photos = Finished(work[w])]
            /\ spoiled' = (spoiled \/ \E i \in DOMAIN draft'.photos :
                                         draft'.photos[i].target \notin ItemIds(draft) \cup {0})
       ELSE UNCHANGED <<draft, spoiled>>
    /\ notice' = IF phase = "editing" THEN "none" ELSE notice
    /\ UNCHANGED <<stored, cache, catalog, phase, post, bought, nextId, allowance, desk, settled, refreshing, shown>>

-----------------------------------------------------------------------------
(* The steps of the wizard, its autosave and its return.                   *)

setWizardStep(d, step) ==
    [d EXCEPT !.step = step, !.furthest = IF step > @ THEN step ELSE @]

Navigates(step) == Updates(setWizardStep(draft, step)) /\ UNCHANGED <<work, spoiled, nextId, allowance>>

NextStep ==
    /\ draft.step < ReviewStep /\ (draft.step = ReviewStep - 1 => Can("review")) /\ validateWizardStep(draft, draft.step)
    /\ Navigates(draft.step + 1)

\* The back button, the step menu and the browser's history.
Select(step) ==
    /\ step <= draft.furthest /\ step # draft.step /\ ~settled
    /\ step = ReviewStep => Can("review")
    /\ Navigates(step)

Settle ==
    /\ phase = "editing" /\ draft.step = ReviewStep /\ ~settled /\ validateWizardStep(draft, ReviewStep)
    /\ settled' = TRUE
    /\ UNCHANGED <<draft, work, stored, cache, catalog, phase, post, notice, bought, nextId, allowance, desk, refreshing, shown, spoiled>>

Save ==
    /\ phase = "editing" /\ stored' = Serialized(draft) /\ stored' # stored
    /\ allowance.saves > 0 /\ allowance' = [allowance EXCEPT !.saves = @ - 1]
    /\ UNCHANGED <<draft, work, cache, catalog, phase, post, notice, bought, nextId, desk, settled, refreshing, shown, spoiled>>

ListedProducts == [p \in Products |-> IF catalog[p].active THEN catalog[p].version ELSE 0]

\* The page is left and opened again; a copy that cannot be read is removed.
Reopen ==
    /\ phase = "editing" /\ stored # NoDraft /\ allowance.faults > 0
    /\ allowance' = [allowance EXCEPT !.faults = @ - 1]
    /\ IF parsePurchaseWizardDraft(stored)
       THEN /\ \E step \in 1 .. stored.furthest :
                   draft' = [stored EXCEPT !.photos = normalizePrimaryWizardPhotos(@), !.step = step]
            /\ UNCHANGED <<stored, nextId>>
       ELSE /\ draft' = [NewDraft EXCEPT !.items = <<Item(nextId)>>]
            /\ stored' = NoDraft
            /\ Fresh
    /\ work' = [w \in Works |-> NoWork] /\ cache' = ListedProducts /\ notice' = "none" /\ settled' = FALSE
    /\ refreshing' = FALSE /\ shown' = LookingAt(draft', NoDraft)
    /\ UNCHANGED <<catalog, phase, post, bought, desk, spoiled>>

-----------------------------------------------------------------------------
(* The submission.                                                         *)

buildWizardPurchasePayload(d) ==
    [lines |-> [i \in DOMAIN d.items |-> [product |-> d.items[i].product, version |-> d.items[i].version,
                                         spec |-> d.items[i].spec]],
     mode  |-> d.mode, total |-> purchaseTotalPreview(resolveCosts(d))]

SubmitStale ==
    /\ draft.step = ReviewStep /\ StaleItems(draft) # {}
    /\ Navigates(ItemsStep)

SubmitInvalid ==
    /\ draft.step = ReviewStep /\ StaleItems(draft) = {} /\ ~validateWizardStep(draft, ReviewStep)
    /\ Navigates(firstInvalidStep(draft))

Submit ==
    /\ phase = "editing" /\ draft.step = ReviewStep
    /\ StaleItems(draft) = {} /\ validateWizardStep(draft, ReviewStep)
    /\ phase' = "posting" /\ notice' = "none"
    /\ stored' = Serialized(draft)
    /\ post' = buildWizardPurchasePayload(draft)
    /\ UNCHANGED <<draft, work, cache, catalog, bought, nextId, allowance, desk, settled, refreshing, shown, spoiled>>

\* Mutant of Refused: the observed version is not looked at.
RefusedInactive(lines) == {i \in DOMAIN lines : /\ lines[i].product # NoProduct
                                                /\ ~catalog[lines[i].product].active}

\* purchases.service: the first line the catalogue does not agree with decides.
Refused(lines) == {i \in DOMAIN lines : /\ lines[i].product # NoProduct
                                        /\ \/ ~catalog[lines[i].product].active
                                           \/ catalog[lines[i].product].version # lines[i].version}

Accept ==
    /\ phase = "posting" /\ Refused(post.lines) = {}
    /\ bought' = post /\ phase' = "done" /\ stored' = NoDraft
    /\ UNCHANGED <<draft, work, cache, catalog, post, notice, nextId, allowance, desk, settled, refreshing, shown, spoiled>>

\* The page may be used again as soon as the answer is there, and the products are fetched.
Conflict ==
    /\ phase = "posting" /\ Refused(post.lines) # {}
    /\ catalog[post.lines[Min(Refused(post.lines))].product].active
    /\ phase' = "editing" /\ refreshing' = TRUE
    /\ UNCHANGED <<draft, work, stored, cache, catalog, post, notice, bought, nextId, allowance, desk, settled, shown, spoiled>>

\* navigate('items') does nothing when the purchase is being sent again.
BackToItems ==
    /\ draft' = IF phase = "editing" THEN setWizardStep(draft, ItemsStep) ELSE draft
    /\ notice' = IF phase = "done" THEN notice ELSE "conflict"

\* Mutant of Refresh: the catalogue is not fetched.
NoRefresh ==
    /\ refreshing /\ refreshing' = FALSE /\ BackToItems
    /\ UNCHANGED <<work, stored, cache, catalog, phase, post, bought, nextId, allowance, desk, settled, shown, spoiled>>

\* onCatalogConflict, which may fail, and what follows it.
Refresh ==
    /\ refreshing /\ refreshing' = FALSE /\ BackToItems
    /\ \/ cache' = ListedProducts /\ UNCHANGED allowance
       \/ /\ allowance.faults > 0 /\ allowance' = [allowance EXCEPT !.faults = @ - 1]
          /\ UNCHANGED cache
    /\ UNCHANGED <<work, stored, catalog, phase, post, bought, nextId, desk, settled, shown, spoiled>>

Withdrawn ==
    /\ phase = "posting" /\ Refused(post.lines) # {}
    /\ ~catalog[post.lines[Min(Refused(post.lines))].product].active
    /\ phase' = "editing" /\ notice' = "inactive"
    /\ UNCHANGED <<draft, work, stored, cache, catalog, post, bought, nextId, allowance, desk, settled, refreshing, shown, spoiled>>

Unsent ==
    /\ phase = "posting" /\ allowance.faults > 0
    /\ allowance' = [allowance EXCEPT !.faults = @ - 1]
    /\ phase' = "editing" /\ notice' = "failed"
    /\ UNCHANGED <<draft, work, stored, cache, catalog, post, bought, nextId, desk, settled, refreshing, shown, spoiled>>

\* Somebody corrects a product, or withdraws it.
Revise(p, active) ==
    /\ allowance.revisions > 0 /\ catalog[p].version + 1 \in Versions
    /\ allowance' = [allowance EXCEPT !.revisions = @ - 1]
    /\ catalog' = [catalog EXCEPT ![p] = [version |-> @.version + 1, active |-> active]]
    /\ UNCHANGED <<draft, work, stored, cache, phase, post, notice, bought, nextId, desk, settled, refreshing, shown, spoiled>>

-----------------------------------------------------------------------------
EditAnItem == \E i \in DOMAIN draft.items :
    \/ DuplicateItem(i) \/ RemoveItem(i) \/ MoveItem(i) \/ Resolve(i)
    \/ \E p \in Products : ChooseProduct(i, p)
    \/ \E named \in BOOLEAN : Customize(i, named)

EditTheCosts ==
    \/ ToggleMode \/ SetMethod
    \/ \E amount \in Prices \cup {0} :
          \/ SetCharges(amount) \/ SetShipping(amount) \/ SetDiscount(amount)
          \/ \E i \in DOMAIN draft.items : SetManual(i, amount)
    \/ \E i \in DOMAIN draft.items, price \in Prices \cup {Blank} : SetPrice(i, price)

EditAPhoto == \E i \in DOMAIN draft.photos :
    \/ SetPrimary(draft.photos[i].id) \/ RemovePhoto(draft.photos[i].id) \/ Crop(draft.photos[i].id)
    \/ \E t \in ItemIds(draft) \cup {0} : Retarget(draft.photos[i].id, t)

Work == \E w \in Works :
    \/ BeginPick(w) \/ Finish(w)
    \/ \E i \in DOMAIN draft.photos : BeginReselect(w, i) \/ BeginDetect(w, i)

DraftNext ==
    \/ AddItem \/ EditAnItem \/ EditTheCosts \/ EditAPhoto \/ Work
    \/ NextStep \/ Settle \/ Save \/ Reopen
    \/ \E step \in Steps : Select(step)
    \/ SubmitStale \/ SubmitInvalid \/ Submit
    \/ Accept \/ Conflict \/ Refresh \/ Withdrawn \/ Unsent
    \/ \E p \in Products, active \in BOOLEAN : Revise(p, active)

\* The server answers; a user who wants the purchase through goes on, presses
\* the button of the last step, and takes what a warning offers.
DraftFairness ==
    /\ WF_draftVars(Accept \/ Conflict \/ Withdrawn) /\ WF_draftVars(Refresh)
    /\ WF_draftVars(settled /\ NextStep)
    /\ SF_draftVars(settled /\ (Submit \/ SubmitStale \/ SubmitInvalid))
    /\ SF_draftVars(settled /\ \E i \in DOMAIN draft.items : Resolve(i))

DraftSpec == DraftInit /\ [][DraftNext]_draftVars /\ DraftFairness

-----------------------------------------------------------------------------
(* Properties.                                                             *)

\* Every item, and the purchase itself, has exactly one main photo as soon as
\* it has any, whatever finished late and whatever was restored.
OneMainPhoto ==
    \A i \in DOMAIN draft.photos : Cardinality(Mains(draft.photos, draft.photos[i].target)) = 1

\* A stored draft can be read back, unless a decoding that began before an item
\* was removed brought its photo back, or an item was copied at the limit.
DraftsReadBack == stored # NoDraft /\ ~spoiled => parsePurchaseWizardDraft(stored)

\* What is posted is what the user last saw on the costs step: its total, but for the prices of
\* items that came or went since; and the charges once entered for an itemized receipt are not in
\* a simple one.
TheCostsShownArePosted ==
    phase = "posting" =>
        /\ shown # NoDraft => post.total = Lines(draft) + shown
        /\ post.mode = "SIMPLE" => post.total = Lines(draft) + draft.shipping - draft.discount

\* An item that names a product has the specification of the version it names:
\* no edit leaves the two apart, in the form, in storage or in a purchase.
TemplatesAreUnedited ==
    /\ \A i \in DOMAIN draft.items : draft.items[i].product # NoProduct =>
          draft.items[i].spec = [of |-> draft.items[i].product, at |-> draft.items[i].version]
    /\ bought # NoDraft => \A i \in DOMAIN bought.lines : bought.lines[i].product # NoProduct =>
          bought.lines[i].spec = [of |-> bought.lines[i].product, at |-> bought.lines[i].version]

\* A purchase is made with the catalogue as it is, not as the page last saw it.
PurchasesUseTheCatalogue ==
    [][bought' # bought =>
          \A i \in DOMAIN bought'.lines : bought'.lines[i].product # NoProduct =>
              catalog[bought'.lines[i].product] = [version |-> bought'.lines[i].version, active |-> TRUE]]_draftVars

\* However often the catalogue changes under it, a purchase its user insists on
\* is made, or refused because a product was withdrawn, or its page is left.
InsistingGetsThrough == settled ~> (phase = "done" \/ notice = "inactive" \/ ~settled)

\* The draft stays one the wizard can open, show and post: one main photo for each item, the
\* costs that were shown, and no edits under a template's name (media.tsx:204, steps.tsx:295,
\* 347, 794).
DraftsStayWhole ==
    DraftTypeOK /\ OneMainPhoto /\ DraftsReadBack /\ TheCostsShownArePosted /\ TemplatesAreUnedited

\* An owner who insists gets the purchase, of products as the catalogue has them then
\* (PurchaseWizard.tsx:209).
InsistingBuysTheCatalogue == InsistingGetsThrough /\ PurchasesUseTheCatalogue

-----------------------------------------------------------------------------
(* What the source says and the page does not do                           *)

\* ReviewStep: the total of the costs as the draft stores them, whose subtotal no step ever sets
\* and whose charges are not those of the mode.
ReviewTotal(d) ==
    purchaseTotalPreview([subtotal |-> 0, shipping |-> d.shipping, discount |-> d.discount,
                          charges |-> d.charges])

\* steps.tsx:791, the costs "as they will actually be submitted, for preview purposes"; model.ts:
\* 296, the sum of the lines is "the single source of truth for the transaction subtotal": the
\* total the user confirms on the last step is the one that is posted.
ReviewShowsWhatIsPosted == phase = "posting" => post.total = ReviewTotal(draft)
=============================================================================
