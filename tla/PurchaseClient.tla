--------------------------- MODULE PurchaseClient ---------------------------
(***************************************************************************)
(* The purchase wizard's pages (Purchase.tsx, PurchaseWizard.tsx and the   *)
(* autosave of storage.ts) and the drafts they share: one copy in each     *)
(* browser's local storage, one on the server, and those the query cache   *)
(* of a window keeps of the server's (main.tsx).  A page saves half a      *)
(* second after an edit, first locally and then through a queue of         *)
(* synchronizations; finalizing flushes the draft, uploads its files and   *)
(* posts the purchase.  Every request is one step, and may fail before or  *)
(* after the server acted.                                                 *)
(***************************************************************************)
EXTENDS Integers, Sequences, FiniteSets

CONSTANTS
    Pages,          \* instances of the wizard, each opened once
    Browsers, BrowserOf(_),
    Windows, WindowOf(_),   \* tabs of a browser; a wizard's pages follow each other in one
    Drafts, Media, Pdfs,
    Worlds,         \* bounds: the pages of a behaviour in their order, and its stamps, faults,
                    \*         submissions, leavings, refreshes and picked files
    NoCopy, NoPage

Budgets == [pages : Seq(Pages), together : BOOLEAN, stamps : Nat, submits : Nat,
            faults : Nat, leavings : Nat, refreshes : Nat, media : SUBSET Media]
Copies == [id : Drafts, at : Nat, media : SUBSET Media]
Entries == [kind : {"auto", "flush", "final"}, copy : Copies]

\* A draft as the server sends it: its copy, its version, and the versions of its
\* attachments, 0 for a file that is not attached.
Rows == [copy : Copies, version : Nat, refs : [Media -> Nat], ready : SUBSET Media]

ASSUME PurchaseClientAssumption ==
    /\ Pdfs \subseteq Media
    /\ \A p \in Pages : BrowserOf(p) \in Browsers /\ WindowOf(p) \in Windows
    /\ Worlds \subseteq Budgets
    /\ NoPage \notin Pages /\ NoCopy \notin Copies /\ NoCopy \notin Drafts

VARIABLES
    intake,         \* server: the purchase intakes
    purchase,       \* server: what an intake was finalized with
    files,          \* server: a draft's attachments; ghost: the page that deleted one
    local,          \* localStorage, by browser
    listCache,      \* the list of drafts a window fetched last, or NoCopy
    exactCache,     \* ... and the drafts it looked up by their id
    page,
    stamp,          \* the clock: every edit has a later updatedAt
    budget

server == <<intake, purchase, files>>
cache  == <<listCache, exactCache>>
vars   == <<server, local, cache, page, stamp, budget>>

NewPage == [phase |-> "new", form |-> NoCopy, held |-> {}, timer |-> FALSE,
            ref |-> 0, refs |-> [m \in Media |-> 0], ready |-> {},
            queue |-> <<>>, step |-> "idle", saved |-> "saving",
            fin |-> "no", todo |-> {}, outcome |-> "none"]

Intakes == [status : {"none", "DRAFT", "COMPLETED"}, version : Nat,
            copy : Copies \cup {NoCopy}, by : Pages \cup {NoPage}]
Purchases == [copy : Copies \cup {NoCopy}, by : Pages \cup {NoPage}, files : SUBSET Media]
Files == [of : Drafts \cup {NoCopy}, version : Nat, variant : BOOLEAN, ready : BOOLEAN,
          by : Pages \cup {NoPage}]
Wizards == [phase : {"new", "loading", "open", "left", "done", "gone"},
            form : Copies \cup {NoCopy}, held : SUBSET Media, timer : BOOLEAN,
            ref : Nat, refs : [Media -> Nat], ready : SUBSET Media, queue : Seq(Entries),
            step : {"idle", "carry", "answer", "conflict", "lost", "refetch", "repatch"},
            saved : {"saving", "saved", "error"},
            fin : {"no", "flush", "sync", "upload", "variant", "review", "lookup"},
            todo : SUBSET Media, outcome : {"none", "answer", "recovered"}]

TypeOK ==
    /\ intake \in [Drafts -> Intakes]
    /\ purchase \in [Drafts -> Purchases]
    /\ files \in [Media -> Files]
    /\ local \in [Browsers -> Copies \cup {NoCopy}]
    /\ listCache \in [Windows -> (SUBSET Rows) \cup {NoCopy}]
    /\ exactCache \in [Windows -> SUBSET Rows]
    /\ page \in [Pages -> Wizards]
    /\ \A p \in Pages : /\ page[p].phase = "open" => page[p].form # NoCopy
                                                  /\ page[p].held \subseteq page[p].form.media
                        /\ page[p].step # "idle" => page[p].queue # <<>>
    /\ budget \in Budgets
    /\ stamp \in 0 .. budget.stamps

Init ==
    /\ intake = [d \in Drafts |-> [status |-> "none", version |-> 0, copy |-> NoCopy, by |-> NoPage]]
    /\ purchase = [d \in Drafts |-> [copy |-> NoCopy, by |-> NoPage, files |-> {}]]
    /\ files = [m \in Media |-> [of |-> NoCopy, version |-> 0, variant |-> FALSE, ready |-> FALSE,
                            by |-> NoPage]]
    /\ local = [b \in Browsers |-> NoCopy]
    /\ listCache = [w \in Windows |-> NoCopy]
    /\ exactCache = [w \in Windows |-> {}]
    /\ page = [p \in Pages |-> NewPage]
    /\ stamp = 0
    /\ budget \in Worlds

-----------------------------------------------------------------------------
(* Requests *)

\* What becomes of a request: the server acts and answers, the server does not
\* get to it, or its answer is lost.  Bound: budget.faults.
Fates == {"answered"} \cup (IF budget.faults > 0 THEN {"unsent", "unheard"} ELSE {})
Charge(fate) ==
    budget' = IF fate = "answered" THEN budget ELSE [budget EXCEPT !.faults = @ - 1]
Sent(fate)  == fate # "unsent"
Heard(fate) == fate = "answered"

\* What becomes of a page nobody looks at any more.
Ended(p, phase, outcome) ==
    [NewPage EXCEPT !.phase = phase, !.form = page[p].form, !.outcome = outcome]

Set(p, r) == page' = [page EXCEPT ![p] = r]
Working(p) == page[p].phase \in {"open", "left"}

\* update: WHERE status = DRAFT AND version = the version sent
Accepts(d, version) == intake[d].status = "DRAFT" /\ intake[d].version = version

Patched(d, copy, p) ==
    [intake EXCEPT ![d].version = @ + 1, ![d].copy = copy, ![d].by = p]

-----------------------------------------------------------------------------
(* Opening: loadLocalDraft, the queries, selectInitialDraft *)

FilesOf(d) == {m \in Media : files[m].of = d}
Uploaded(d) == [m \in Media |-> IF m \in FilesOf(d) THEN files[m].version ELSE 0]

\* The rows of drafts, with the attachments the server lists.
Row(d) == [copy |-> intake[d].copy, version |-> intake[d].version, refs |-> Uploaded(d),
           ready |-> {m \in FilesOf(d) : files[m].ready}]
RowsNow(ids) == {Row(d) : d \in {e \in ids : intake[e].status = "DRAFT"}}

CopiesOf(rows) == {r.copy : r \in rows}
Listed == CopiesOf(RowsNow(Drafts))

\* Bounds: budget.pages, and pages that are open together.  In a window there is one at a time.
Open(p) ==
    /\ page[p].phase = "new"
    /\ budget.pages # <<>> /\ p = Head(budget.pages) /\ budget' = [budget EXCEPT !.pages = Tail(@)]
    /\ \A q \in Pages : WindowOf(q) = WindowOf(p) \/ ~budget.together
                            => page[q].phase \notin {"loading", "open"}
    /\ Set(p, [page[p] EXCEPT !.phase = "loading", !.form = local[BrowserOf(p)]])
    /\ UNCHANGED <<server, local, cache, stamp>>

\* Fault: the server's copy is preferred whatever its timestamp.
ServerFirst(copies, mine) ==
    IF copies # {} THEN copies ELSE IF mine = NoCopy THEN {} ELSE {mine}

\* One candidate for each draft: the newer copy, the server's on a tie.
Candidates(copies, mine) ==
    IF mine = NoCopy THEN copies
    ELSE {c \in copies : c.id # mine.id \/ c.at >= mine.at}
         \cup (IF \E c \in copies : c.id = mine.id /\ c.at >= mine.at THEN {} ELSE {mine})

Unused(d) == /\ intake[d].status = "none"
             /\ \A b \in Browsers : local[b] = NoCopy \/ local[b].id # d
             /\ \A p \in Pages : page[p].form = NoCopy \/ page[p].form.id # d

\* createPurchaseWizardDraft
FreshDraft == {[id |-> d, at |-> stamp, media |-> {}] : d \in {e \in Drafts : Unused(e)}}

InitialDrafts(copies, mine) ==
    LET candidates == Candidates(copies, mine)
    IN IF candidates = {} THEN FreshDraft
       ELSE {c \in candidates : \A other \in candidates : other.at <= c.at}

\* What useQuery finds of the list and of the page's local draft: data a window has
\* is shown whatever its age, and is asked for only where there is none.
ListAtHand(w) == IF listCache[w] = NoCopy THEN RowsNow(Drafts) ELSE listCache[w]
LookedUp(p) == {r \in exactCache[WindowOf(p)] : page[p].form # NoCopy /\ r.copy.id = page[p].form.id}
MustAsk(p) == page[p].form # NoCopy /\ LookedUp(p) = {}

\* availableDrafts
Available(list, exact) == list \cup {r \in exact : \A l \in list : l.copy.id # r.copy.id}

\* The intake of the selected draft, if it is among the rows.
Unknown == [copy |-> NoCopy, version |-> 0, refs |-> [m \in Media |-> 0], ready |-> {}]
KnownAs(rows, d) == LET known == {r \in rows : r.copy.id = d}
                    IN IF known = {} THEN {Unknown} ELSE known

\* Fault: the first save waits for an edit.
MountedQuietly(p, draft, row) ==
    [page[p] EXCEPT !.phase = "open", !.form = draft,
                    !.ref = row.version, !.refs = row.refs, !.ready = row.ready]

Mounted(p, draft, row) ==
    [page[p] EXCEPT !.phase = "open", !.form = draft, !.timer = TRUE,
                    !.ref = row.version, !.refs = row.refs, !.ready = row.ready]

\* Fault: the queries are only invalidated.
OnlyInvalidated(w, d) == UNCHANGED cache

\* evictCompletedIntakeQueries
Evicted(w, d) ==
    /\ listCache' = [listCache EXCEPT ![w] = IF @ = NoCopy THEN @ ELSE {r \in @ : r.copy.id # d}]
    /\ exactCache' = [exactCache EXCEPT ![w] = {r \in @ : r.copy.id # d}]

LocalCompleted(p) == MustAsk(p) /\ intake[page[p].form.id].status = "COMPLETED"

\* The exact lookup finds the local draft completed: clearLocalDraft, and done.
LoadCompleted(p) ==
    /\ page[p].phase = "loading"
    /\ LocalCompleted(p)
    /\ Set(p, Ended(p, "done", "recovered"))
    /\ local' = [local EXCEPT ![BrowserOf(p)] = NoCopy]
    /\ Evicted(WindowOf(p), page[p].form.id)
    /\ UNCHANGED <<server, stamp, budget>>

\* There must be a list for the wizard to open; the exact lookup may fail, and a
\* completed local draft then opens as if the server did not know it.
Load(p) ==
    LET w == WindowOf(p)
        list == ListAtHand(w)
    IN /\ page[p].phase = "loading"
       /\ \E fate \in Fates \ {"unheard"} :
             LET exact == IF MustAsk(p) /\ Heard(fate) THEN RowsNow({page[p].form.id}) ELSE LookedUp(p)
                 rows == Available(list, exact)
             IN /\ Charge(fate)
                /\ LocalCompleted(p) => ~Heard(fate)
                /\ ~MustAsk(p) => Heard(fate)
                /\ \E draft \in InitialDrafts(CopiesOf(rows), page[p].form) :
                      \E row \in KnownAs(rows, draft.id) : Set(p, Mounted(p, draft, row))
                /\ exactCache' = [exactCache EXCEPT ![w] = @ \cup exact]
       /\ listCache' = [listCache EXCEPT ![w] = list]
       /\ UNCHANGED <<server, local, stamp>>

\* A window's list is fetched again, behind a mounted wizard or after one was
\* completed.  Bound: budget.refreshes.
Refresh(w) ==
    /\ listCache[w] # NoCopy
    /\ budget.refreshes > 0 /\ budget' = [budget EXCEPT !.refreshes = @ - 1]
    /\ listCache' = [listCache EXCEPT ![w] = RowsNow(Drafts)]
    /\ UNCHANGED <<server, local, exactCache, page, stamp>>

-----------------------------------------------------------------------------
(* Editing and autosaving *)

Editable(p) == /\ page[p].phase = "open" /\ page[p].fin = "no"
               /\ stamp < budget.stamps

\* Fault: a removed item's original is kept.
EditedKeepingFiles(p, media) ==
    [page[p] EXCEPT !.form = [@ EXCEPT !.at = stamp + 1, !.media = media],
                    !.timer = TRUE, !.saved = "saving"]

\* updateDraft: touchWizardDraft, and the timer starts again.
Edited(p, media) ==
    [page[p] EXCEPT !.form = [@ EXCEPT !.at = stamp + 1, !.media = media],
                    !.held = @ \cap media, !.timer = TRUE, !.saved = "saving"]

Edit(p) ==
    /\ Editable(p) /\ stamp' = stamp + 1
    /\ Set(p, Edited(p, page[p].form.media))
    /\ UNCHANGED <<server, local, cache, budget>>

RemoveMedia(p, m) ==
    /\ Editable(p) /\ stamp' = stamp + 1
    /\ m \in page[p].form.media
    /\ Set(p, Edited(p, page[p].form.media \ {m}))
    /\ UNCHANGED <<server, local, cache, budget>>

\* A picked file: of a new item, or in place of one whose original is gone
\* (replaceWizardMediaFile gives it a new id).  Bound: budget.media.
PickFile(p, m) ==
    /\ Editable(p) /\ stamp' = stamp + 1
    /\ m \in budget.media
    /\ \E replaced \in SUBSET (page[p].form.media \ page[p].held) :
          /\ Cardinality(replaced) <= 1
          /\ LET edited == Edited(p, (page[p].form.media \ replaced) \cup {m})
             IN Set(p, [edited EXCEPT !.held = @ \cup {m}])
    /\ budget' = [budget EXCEPT !.media = @ \ {m}]
    /\ UNCHANGED <<server, local, cache>>

\* Fault: the newest save goes first.
EnqueueFirst(queue, entry) == IF queue = <<>> THEN <<entry>>
                              ELSE <<Head(queue), entry>> \o Tail(queue)

\* saveQueue.current.then(...)
Enqueue(queue, entry) == Append(queue, entry)

\* persist: the local copy at once, the system's through the queue.
Persisted(p, kind) ==
    [page[p] EXCEPT !.queue = Enqueue(@, [kind |-> kind, copy |-> page[p].form]), !.saved = "saving"]
SaveLocally(p) == local' = [local EXCEPT ![BrowserOf(p)] = page[p].form]

Autosave(p) ==
    /\ page[p].phase = "open" /\ page[p].timer
    /\ SaveLocally(p)
    /\ Set(p, [Persisted(p, "auto") EXCEPT !.timer = FALSE])
    /\ UNCHANGED <<server, cache, stamp, budget>>

\* goNext: the step changes and the draft of before the change is flushed.
GoNext(p) ==
    /\ Editable(p) /\ stamp' = stamp + 1
    /\ SaveLocally(p)
    /\ Set(p, [Persisted(p, "auto") EXCEPT !.form.at = stamp + 1, !.timer = TRUE])
    /\ UNCHANGED <<server, cache, budget>>

\* Bound: budget.leavings.
Leaving == budget.leavings > 0 /\ budget' = [budget EXCEPT !.leavings = @ - 1]

\* A window is closed, reloaded or lost, with what runs in it and what it cached.
WindowEnds(w) ==
    /\ page' = [q \in Pages |-> IF WindowOf(q) = w /\ page[q].phase \in {"loading", "open", "left"}
                               THEN Ended(q, "gone", "none") ELSE page[q]]
    /\ listCache' = [listCache EXCEPT ![w] = NoCopy]
    /\ exactCache' = [exactCache EXCEPT ![w] = {}]

\* pagehide
Close(p) ==
    /\ page[p].phase = "open" /\ Leaving
    /\ SaveLocally(p)
    /\ WindowEnds(WindowOf(p))
    /\ UNCHANGED <<server, stamp>>

Crash(p) ==
    /\ Working(p) /\ Leaving
    /\ WindowEnds(WindowOf(p))
    /\ UNCHANGED <<server, local, stamp>>

\* onCancel: the screen is unmounted, the timer with it; the queue drains.
Leave(p) ==
    /\ page[p].phase = "open" /\ page[p].fin = "no" /\ Leaving
    /\ Set(p, [page[p] EXCEPT !.phase = "left", !.timer = FALSE])
    /\ UNCHANGED <<server, local, cache, stamp>>

-----------------------------------------------------------------------------
(* Synchronizing: the head of the queue *)

\* Fault: a finalization goes on though its synchronization failed.
NextStageAnyway(kind, ok) == CASE kind = "flush" -> "sync"
                               [] kind = "final" -> "upload"

NextStage(kind, ok) == CASE kind = "flush" -> "sync"
                         [] kind = "final" -> IF ok THEN "upload" ELSE "no"

\* The entry is answered.  Only the newest persist moves the page's status; a
\* flush is followed by the finalization's own synchronization.
Settled(r, ok) ==
    LET entry  == Head(r.queue)
        rest   == Tail(r.queue)
        newest == entry.kind # "final" /\ \A i \in DOMAIN rest : rest[i].kind = "final"
    IN [r EXCEPT
          !.step = "idle",
          !.queue = IF entry.kind = "flush"
                    THEN Append(rest, [kind |-> "final", copy |-> entry.copy]) ELSE rest,
          !.saved = IF newest THEN IF ok THEN "saved" ELSE "error" ELSE @,
          !.fin = IF entry.kind = "auto" THEN @ ELSE NextStage(entry.kind, ok),
          !.todo = IF entry.kind = "final" THEN r.form.media ELSE @]

\* rememberCompletedIntake: an open page clears the local draft and is done; one
\* that was left only stops saving.
Recover(p) ==
    LET r == page[p]
    IN /\ Set(p, Ended(p, IF r.phase = "open" THEN "done" ELSE "gone", "recovered"))
       /\ IF r.phase = "open"
          THEN /\ local' = [local EXCEPT ![BrowserOf(p)] = NoCopy]
               /\ Evicted(WindowOf(p), r.form.id)
          ELSE UNCHANGED <<local, cache>>

Saving(p, step) == /\ Working(p) /\ page[p].queue # <<>> /\ page[p].step = step

\* POST /purchase-intakes: creates the draft, or returns what there is.
Created(d, entry, p) ==
    IF intake[d].status = "none"
    THEN [intake EXCEPT ![d] = [status |-> "DRAFT", version |-> 1, copy |-> entry.copy, by |-> p]]
    ELSE intake

\* An older copy is brought forward.
AfterCreate(r, entry, found) ==
    IF found.copy.at = entry.copy.at
    THEN Settled([r EXCEPT !.ref = found.version], TRUE)
    ELSE [r EXCEPT !.ref = found.version, !.step = "carry"]

\* Fault: the answer's status is not looked at.
Known(found) == found.status # "none"

\* completedIntakeForDraft
Completed(found) == found.status = "COMPLETED"

Create(p) ==
    LET r == page[p]
        entry == Head(r.queue)
        d == entry.copy.id
    IN /\ Saving(p, "idle") /\ r.ref = 0
       /\ \E fate \in Fates :
             /\ Charge(fate)
             /\ intake' = IF Sent(fate) THEN Created(d, entry, p) ELSE intake
             /\ IF Heard(fate) /\ Completed(intake'[d]) THEN Recover(p)
                ELSE /\ Set(p, IF Heard(fate) THEN AfterCreate(r, entry, intake'[d])
                               ELSE Settled(r, FALSE))
                     /\ UNCHANGED <<local, cache>>
       /\ UNCHANGED <<purchase, files, stamp>>

\* The first save looks up what became of the draft; the others give up.
Unsaved(r, step, refused) ==
    IF step = "idle" THEN [r EXCEPT !.step = IF refused THEN "conflict" ELSE "lost"] ELSE Settled(r, FALSE)

Patch(p, step) ==
    LET r == page[p]
        d == Head(r.queue).copy.id
    IN /\ Saving(p, step) /\ r.ref # 0
       /\ \E fate \in Fates :
             LET done == Sent(fate) /\ Accepts(d, r.ref)
             IN /\ Charge(fate)
                /\ intake' = IF done THEN Patched(d, Head(r.queue).copy, p) ELSE intake
                /\ Set(p, IF done /\ Heard(fate) THEN [r EXCEPT !.step = "answer"]
                          ELSE Unsaved(r, step, Heard(fate)))
       /\ UNCHANGED <<purchase, files, local, cache, stamp>>

Synchronize(p)  == Patch(p, "idle")
CarryForward(p) == Patch(p, "carry")
PatchAgain(p)   == Patch(p, "repatch")

\* update answers with the intake as a second statement finds it.
Answered(p) ==
    /\ Saving(p, "answer")
    /\ Set(p, Settled([page[p] EXCEPT !.ref = intake[Head(page[p].queue).copy.id].version], TRUE))
    /\ UNCHANGED <<server, local, cache, stamp, budget>>

\* lookupCompletedIntake, then a conflict is looked into.
LookUp(p) ==
    \E why \in {"conflict", "lost"} :
       /\ Saving(p, why)
       /\ \E fate \in Fates \ {"unheard"} :
             /\ Charge(fate)
             /\ IF Heard(fate) /\ Completed(intake[Head(page[p].queue).copy.id])
                THEN Recover(p)
                ELSE /\ Set(p, IF why = "conflict" THEN [page[p] EXCEPT !.step = "refetch"]
                               ELSE Settled(page[p], FALSE))
                     /\ UNCHANGED <<local, cache>>
       /\ UNCHANGED <<server, stamp>>

Refetch(p) ==
    LET d == Head(page[p].queue).copy.id
    IN /\ Saving(p, "refetch")
       /\ \E fate \in Fates \ {"unheard"} :
             /\ Charge(fate)
             /\ Set(p, IF Heard(fate) /\ intake[d].status = "DRAFT"
                       THEN [page[p] EXCEPT !.ref = intake[d].version, !.step = "repatch"]
                       ELSE Settled(page[p], FALSE))
       /\ UNCHANGED <<server, local, cache, stamp>>

-----------------------------------------------------------------------------
(* Finalizing *)

\* Bound: budget.submits.
Finalize(p) ==
    /\ page[p].phase = "open" /\ page[p].fin = "no"
    /\ budget.submits > 0 /\ budget' = [budget EXCEPT !.submits = @ - 1]
    /\ SaveLocally(p)
    /\ Set(p, [Persisted(p, "flush") EXCEPT !.fin = "flush"])
    /\ UNCHANGED <<server, cache, stamp>>

\* Fault: finalizingRef stays set.
StaysBusy(p) == Set(p, [page[p] EXCEPT !.fin = "sync"])

GivesUp(p) == Set(p, [page[p] EXCEPT !.fin = "no"])
Sending(p, stage) == page[p].phase = "open" /\ page[p].fin = stage

\* uploadDraftMedia: files the form no longer shows are deleted first.
Dropped(p) == {m \in Media : page[p].refs[m] # 0 /\ m \notin page[p].form.media}
Mutable(m) == files[m].of # NoCopy

DeleteDropped(p) ==
    /\ Sending(p, "upload")
    /\ \E m \in Dropped(p), fate \in Fates :
          /\ Charge(fate)
          /\ files' = IF Sent(fate) /\ Mutable(m)
                      THEN [files EXCEPT ![m].of = NoCopy, ![m].by = p] ELSE files
          /\ IF Heard(fate) THEN Set(p, [page[p] EXCEPT !.refs[m] = 0]) ELSE GivesUp(p)
    /\ UNCHANGED <<intake, purchase, local, cache, stamp>>

\* The item being processed: the first that is not done.
Current(p) == CHOOSE m \in page[p].todo : TRUE
Uploading(p) == Sending(p, "upload") /\ Dropped(p) = {} /\ page[p].todo # {}

Processing(p, m) == [page[p] EXCEPT !.fin = IF m \in page[p].held \ Pdfs THEN "variant" ELSE "review"]

\* An original is gone with the page that picked it.
NeedsReselection(p) ==
    LET m == Current(p)
    IN /\ Uploading(p) /\ m \notin page[p].held
       /\ page[p].refs[m] = 0 \/ m \notin page[p].ready
       /\ GivesUp(p)
       /\ UNCHANGED <<server, local, cache, stamp, budget>>

AlreadyUploaded(p) ==
    LET m == Current(p)
    IN /\ Uploading(p) /\ page[p].refs[m] # 0 /\ (m \in page[p].held \/ m \in page[p].ready)
       /\ Set(p, Processing(p, m))
       /\ UNCHANGED <<server, local, cache, stamp, budget>>

\* The upload is idempotent by its key; a PDF needs no processing.
Upload(p) ==
    LET m == Current(p)
    IN /\ Uploading(p) /\ page[p].refs[m] = 0 /\ m \in page[p].held
       /\ \E fate \in Fates :
             LET admitted == intake[page[p].form.id].status = "DRAFT"
             IN /\ Charge(fate)
                /\ files' = IF Sent(fate) /\ admitted /\ files[m].version = 0
                            THEN [files EXCEPT ![m] = [of |-> page[p].form.id, version |-> 1,
                                                       variant |-> FALSE, ready |-> m \in Pdfs,
                                                       by |-> NoPage]]
                            ELSE files
                /\ IF Heard(fate) /\ admitted
                   THEN Set(p, [Processing(p, m) EXCEPT
                                  !.refs[m] = files'[m].version,
                                  !.ready = IF files'[m].ready THEN @ \cup {m} ELSE @])
                   ELSE GivesUp(p)
       /\ UNCHANGED <<intake, purchase, local, cache, stamp>>

\* A derivative that is there already is answered with the parent's version.
UploadVariant(p) ==
    LET m == Current(p)
    IN /\ Sending(p, "variant")
       /\ \E fate \in Fates :
             /\ Charge(fate)
             /\ files' = IF Sent(fate) /\ Mutable(m) /\ ~files[m].variant
                         THEN [files EXCEPT ![m].variant = TRUE, ![m].version = @ + 1]
                         ELSE files
             /\ IF Heard(fate) /\ Mutable(m)
                THEN Set(p, [page[p] EXCEPT !.refs[m] = files'[m].version, !.fin = "review"])
                ELSE GivesUp(p)
       /\ UNCHANGED <<intake, purchase, local, cache, stamp>>

Review(p) ==
    LET m == Current(p)
        admitted == Mutable(m) /\ files[m].version = page[p].refs[m]
    IN /\ Sending(p, "review")
       /\ \E fate \in Fates :
             /\ Charge(fate)
             /\ files' = IF Sent(fate) /\ admitted
                         THEN [files EXCEPT ![m].version = @ + 1, ![m].ready = TRUE] ELSE files
             /\ IF Heard(fate) /\ admitted
                THEN Set(p, [page[p] EXCEPT !.refs[m] = files'[m].version, !.ready = @ \cup {m},
                                            !.todo = @ \ {m}, !.fin = "upload"])
                ELSE GivesUp(p)
       /\ UNCHANGED <<intake, purchase, local, cache, stamp>>

\* createFromIntake: a completed intake is answered with its purchase.
Finalizable(d) == intake[d].status = "DRAFT" /\ \A m \in FilesOf(d) : files[m].ready

\* The answer ends the page: autosave.clear and finishScreen.
Post(p) ==
    LET d == page[p].form.id
    IN /\ Sending(p, "upload") /\ Dropped(p) = {} /\ page[p].todo = {}
       /\ \E fate \in Fates :
             LET acts == Sent(fate) /\ Finalizable(d)
             IN /\ Charge(fate)
                /\ intake' = IF acts THEN [intake EXCEPT ![d].status = "COMPLETED", ![d].version = @ + 1]
                             ELSE intake
                /\ purchase' = IF acts
                               THEN [purchase EXCEPT ![d] = [copy |-> page[p].form, by |-> p, files |-> FilesOf(d)]]
                               ELSE purchase
                /\ files' = IF acts THEN [m \in Media |-> IF m \in FilesOf(d) THEN [files[m] EXCEPT !.of = NoCopy]
                                                         ELSE files[m]]
                            ELSE files
                /\ IF Heard(fate) /\ intake'[d].status = "COMPLETED"
                   THEN /\ Set(p, Ended(p, "done", "answer"))
                        /\ local' = [local EXCEPT ![BrowserOf(p)] = NoCopy]
                        /\ Evicted(WindowOf(p), d)
                   ELSE /\ Set(p, [page[p] EXCEPT !.fin = "lookup"]) /\ UNCHANGED <<local, cache>>
       /\ UNCHANGED stamp

PostLookUp(p) ==
    /\ Sending(p, "lookup")
    /\ \E fate \in Fates \ {"unheard"} :
          /\ Charge(fate)
          /\ IF Heard(fate) /\ Completed(intake[page[p].form.id]) THEN Recover(p)
             ELSE GivesUp(p) /\ UNCHANGED <<local, cache>>
    /\ UNCHANGED <<server, stamp>>

-----------------------------------------------------------------------------

Users(p) ==
    \/ Open(p) \/ Edit(p) \/ GoNext(p) \/ Close(p) \/ Crash(p) \/ Leave(p) \/ Finalize(p)
    \/ \E m \in Media : PickFile(p, m) \/ RemoveMedia(p, m)

Saves(p) ==
    \/ Create(p) \/ CarryForward(p) \/ Synchronize(p) \/ Answered(p)
    \/ LookUp(p) \/ Refetch(p) \/ PatchAgain(p)

Uploads(p) ==
    \/ DeleteDropped(p) \/ NeedsReselection(p) \/ AlreadyUploaded(p)
    \/ Upload(p) \/ UploadVariant(p) \/ Review(p)
    \/ Post(p) \/ PostLookUp(p)

Loads(p) == Load(p) \/ LoadCompleted(p)

Next ==
    \/ \E p \in Pages : Users(p) \/ Loads(p) \/ Autosave(p) \/ Saves(p) \/ Uploads(p)
    \/ \E w \in Windows : Refresh(w)

\* The page's timers fire and its requests are answered or fail.
Fairness ==
    \A p \in Pages : /\ WF_vars(Loads(p)) /\ WF_vars(Autosave(p))
                     /\ WF_vars(Saves(p)) /\ WF_vars(Uploads(p))

Spec == Init /\ [][Next]_vars /\ Fairness
-----------------------------------------------------------------------------
(* Properties *)

\* A page tells its user that the purchase was booked, and leaves, only when it
\* was: whichever of the answer, a recovery while saving, a recovery after a
\* failed post and a recovery when the wizard opens brought it there.
DoneMeansPurchased ==
    \A p \in Pages : page[p].phase = "done" =>
        intake[page[p].form.id].status = "COMPLETED" /\ purchase[page[p].form.id].copy # NoCopy

\* Files of this page's form that another page deleted.
DeletedElsewhere(p) == {m \in Media : files[m].by \notin {NoPage, p}}

\* A page whose own post booked the purchase and that is answered shows what was
\* booked: a post that acted unheard is found before an edited form is posted,
\* because the server answers any post for a completed intake with its purchase.
\* The post does not name its files: one that another page deletes between its
\* review and the post is missing, and the page is not told.
AnswersAreForThisForm ==
    \A p \in Pages :
        page[p].outcome = "answer" /\ purchase[page[p].form.id].by = p =>
            /\ purchase[page[p].form.id].copy = page[p].form
            /\ page[p].form.media \subseteq purchase[page[p].form.id].files \cup DeletedElsewhere(p)

\* A page with no edit and no save outstanding that says its draft is saved on the
\* system is right, unless another page wrote the draft after it: saves arrive in
\* the order they were made, and a draft POST finds is brought forward.
SavedMeansStored ==
    \A p \in Pages :
        LET r == page[p] IN
        r.phase = "open" /\ r.saved = "saved" /\ ~r.timer /\ r.queue = <<>>
            => \/ intake[r.form.id].copy = r.form
               \/ intake[r.form.id].by # p

\* A wizard opens the newest copy it can see.  It never puts older work before what its
\* browser kept, and before what the server lists only where the window fetched its list
\* before that was saved: a wizard mounted again is shown the cached list (main.tsx).
NewestCopyOpens ==
    [][\A p \in Pages : page[p].phase = "loading" /\ page'[p].phase = "open" =>
          /\ page[p].form # NoCopy => page[p].form.at <= page'[p].form.at
          /\ \A c \in Listed : page'[p].form.at < c.at =>
                listCache[WindowOf(p)] # NoCopy /\ c \notin CopiesOf(listCache[WindowOf(p)])]_vars

\* A wizard that is done takes its draft out of the window's cache, and none that is
\* mounted in the window later opens it as a live draft: "a plain invalidation can expose
\* the old DRAFT value" (purchase-intake-recovery.ts).  Only what the browser itself still
\* holds of it, saved by another window since, is opened again.
CompletedDraftsStayAway ==
    [][\A p, q \in Pages :
          page[p].phase = "loading" /\ page'[p].phase = "open"
              /\ page[q].phase = "done" /\ WindowOf(q) = WindowOf(p)
              /\ (page[p].form # NoCopy => page[p].form.id # page[q].form.id)
            => page'[p].form.id # page[q].form.id]_vars

\* A finalization ends: the page is done or may be edited and submitted again.
FinalizingEnds ==
    \A p \in Pages : (page[p].phase = "open" /\ page[p].fin # "no")
                        ~> (page[p].phase # "open" \/ page[p].fin = "no")

\* A page that is open on a draft which was purchased elsewhere, or by a post of
\* its own it was not told of, finds out with its next save, or shows an error.
CompletedDraftsAreNoticed ==
    \A p \in Pages : (page[p].phase = "open" /\ page[p].saved = "saving" /\ page[p].queue = <<>>
                           /\ intake[page[p].form.id].status = "COMPLETED")
                        ~> (page[p].phase # "open" \/ page[p].saved = "error")

\* The wizard tells the truth: done is purchased, an answer is about the form it is shown
\* with, and a draft said to be saved is stored (Purchase.tsx).
PagesTellTheTruth == TypeOK /\ DoneMeansPurchased /\ AnswersAreForThisForm /\ SavedMeansStored

\* A page opens the newest copy of a draft that it is shown, and none its window completed;
\* it learns that its draft was completed, and its finalization ends.
PagesCatchUp ==
    NewestCopyOpens /\ CompletedDraftsStayAway /\ FinalizingEnds /\ CompletedDraftsAreNoticed

-----------------------------------------------------------------------------
(* The inductive invariant *)

CachedRows(w) == exactCache[w] \cup (IF listCache[w] = NoCopy THEN {} ELSE listCache[w])

AllCopies ==
    ({local[b] : b \in Browsers} \cup {page[p].form : p \in Pages}
        \cup {intake[d].copy : d \in Drafts}
        \cup (UNION {{page[p].queue[i].copy : i \in DOMAIN page[p].queue} : p \in Pages})
        \cup (UNION {CopiesOf(CachedRows(w)) : w \in Windows})) \ {NoCopy}

\* An edit is stamped, so that a draft's timestamp names one content of it; a file is picked once,
\* for one draft.
CopiesAreNamed ==
    \A c \in AllCopies :
        /\ c.at <= stamp
        /\ \A e \in AllCopies : c.id = e.id /\ c.at = e.at => c = e
        /\ \A m \in c.media : /\ m \notin budget.media /\ files[m].of \in {NoCopy, c.id}
                              /\ \A e \in AllCopies : m \in e.media => c.id = e.id

\* A draft is its own copy's; it is completed with its purchase.
IntakesAreSound ==
    \A d \in Drafts :
        /\ intake[d].status = "none" <=> intake[d].copy = NoCopy
        /\ intake[d].copy # NoCopy => intake[d].copy.id = d
        /\ intake[d].status = "none" => intake[d].by = NoPage
        /\ IF intake[d].status = "COMPLETED" THEN purchase[d].copy # NoCopy
                                            ELSE purchase[d].by = NoPage

\* The draft of a cached row was saved; a page that is done left none of its own.
CacheIsSound ==
    /\ \A w \in Windows : \A r \in CachedRows(w) : intake[r.copy.id].status # "none"
    /\ \A p \in Pages : page[p].phase = "done" =>
           \A r \in CachedRows(WindowOf(p)) : r.copy.id # page[p].form.id

\* A page deletes no file its form shows.
FilesAreSound ==
    \A m \in Media :
        /\ m \in budget.media => files[m].version = 0
        /\ files[m].version = 0 => files[m].of = NoCopy /\ files[m].by = NoPage
        /\ files[m].by # NoPage =>
              /\ files[m].of = NoCopy
              /\ page[files[m].by].phase \notin {"new", "loading"}
              /\ m \notin page[files[m].by].form.media

\* A page that does not work has nothing to save and holds no file.  Of a finalization the queue has
\* the flush or its own save, of the form as it is until the finalization ends.
QueueIsSound(p) ==
    LET r == page[p]
        q == r.queue
    IN  /\ IF Working(p) THEN r.form # NoCopy ELSE q = <<>> /\ r.held = {}
        /\ r.phase # "open" => r.fin = "no"
        /\ \A i \in DOMAIN q :
              /\ q[i].copy.id = r.form.id
              /\ q[i].kind = "flush" => r.fin = "flush"
              /\ q[i].kind = "final" => r.fin = "sync"
              /\ q[i].kind # "auto" =>
                    /\ q[i].copy = r.form
                    /\ \A j \in DOMAIN q : q[j].kind # "auto" => i = j

\* The form was saved when no timer runs: its save is the last that waits, or is stored.
Stored(p, copy) == intake[page[p].form.id].copy = copy \/ intake[page[p].form.id].by # p
SaveIsSound(p) ==
    LET r == page[p]
        q == r.queue
    IN  r.phase = "open" =>
        /\ r.step = "answer" => Stored(p, Head(q).copy)
        /\ ~r.timer => \A i \in DOMAIN q :
               q[i].kind # "final" /\ (\A j \in DOMAIN q : i < j => q[j].kind = "final")
                   => q[i].copy = r.form
        /\ r.saved = "saved" =>
               /\ \A i \in DOMAIN q : q[i].kind = "final"
               /\ ~r.timer => Stored(p, r.form)

\* A page whose post acted does not come to another; while files are uploaded, those that are
\* done are the draft's, unless another page deletes them.
PostIsSound(p) ==
    LET r == page[p] IN
    r.phase = "open" =>
        /\ purchase[r.form.id].by = p =>
               /\ r.fin \notin {"upload", "variant", "review"}
               /\ r.step = "answer" => Head(r.queue).kind # "final"
        /\ r.fin \in {"upload", "variant", "review"} =>
               /\ r.todo \subseteq r.form.media
               /\ r.fin # "upload" => r.todo # {}
               /\ intake[r.form.id].status # "COMPLETED" =>
                     \A m \in r.form.media \ r.todo :
                         files[m].of = r.form.id \/ m \in DeletedElsewhere(p)

EndIsSound(p) ==
    LET r == page[p] IN
    /\ r.phase = "done" => r.form # NoCopy /\ intake[r.form.id].status = "COMPLETED"
    /\ r.outcome = "answer" =>
          /\ r.phase = "done"
          /\ purchase[r.form.id].by = p =>
                /\ purchase[r.form.id].copy = r.form
                /\ r.form.media \subseteq purchase[r.form.id].files \cup DeletedElsewhere(p)

ClientIInv ==
    /\ TypeOK /\ CopiesAreNamed /\ IntakesAreSound /\ CacheIsSound /\ FilesAreSound
    /\ \A p \in Pages : QueueIsSound(p) /\ SaveIsSound(p) /\ PostIsSound(p) /\ EndIsSound(p)
=============================================================================
