------------------------- MODULE PurchaseClientProofs -------------------------
EXTENDS PurchaseClient, TLAPS

-----------------------------------------------------------------------------
(* The pages of the purchase wizard: what others see of a step *)

PageIsSound(p) == QueueIsSound(p) /\ SaveIsSound(p) /\ PostIsSound(p) /\ EndIsSound(p)

\* What a request of p changes on the server, as other pages see it.
Serves(p) ==
    /\ \A d \in Drafts :
          /\ \/ intake'[d].copy = intake[d].copy /\ intake'[d].by = intake[d].by
             \/ intake'[d].by = p
          /\ intake[d].status = "COMPLETED" => intake'[d].status = "COMPLETED"
          /\ \/ purchase'[d] = purchase[d]
             \/ purchase'[d].by = p /\ intake[d].status # "COMPLETED"
    /\ \A m \in Media :
          /\ files'[m].by \in {files[m].by, p}
          /\ \/ files'[m].of = files[m].of \/ files[m].version = 0 \/ files'[m].by = p
             \/ intake'[files[m].of].status = "COMPLETED"

\* Nothing but the page of p changes.
OnlyPage(p) == \A q \in Pages : q # p => page'[q] = page[q]

LEMMA OthersStay ==
    ASSUME ClientIInv, NEW p \in Pages, NEW q \in Pages, q # p, page'[q] = page[q], Serves(p)
    PROVE  PageIsSound(q)'
<1>1. TypeOK /\ QueueIsSound(q) /\ SaveIsSound(q) /\ PostIsSound(q) /\ EndIsSound(q)
      /\ IntakesAreSound /\ FilesAreSound
    BY DEF ClientIInv
<1>2. page[q].phase \in {"open", "done"} => page[q].form # NoCopy /\ page[q].form.id \in Drafts
    BY <1>1 DEF TypeOK, Wizards, Copies, EndIsSound
<1>3. ASSUME NEW copy, Stored(q, copy), page[q].phase = "open" PROVE Stored(q, copy)'
    BY <1>2, <1>3 DEF Stored, Serves
<1>4. ASSUME NEW m \in Media, m \in DeletedElsewhere(q) PROVE m \in DeletedElsewhere(q)'
    BY <1>4, PurchaseClientAssumption DEF DeletedElsewhere, Serves
<1>5. QueueIsSound(q)'
    BY <1>1 DEF QueueIsSound, Working
<1>6. SaveIsSound(q)'
    BY <1>1, <1>3 DEF SaveIsSound
<1>7. ASSUME page[q].phase \in {"open", "done"}, purchase'[page[q].form.id].by = q
      PROVE  purchase'[page[q].form.id] = purchase[page[q].form.id]
    BY <1>2, <1>7 DEF Serves
<1>8. PostIsSound(q)'
    <2> SUFFICES ASSUME page[q].phase = "open"
                 PROVE  PostIsSound(q)'
        BY DEF PostIsSound
    <2> DEFINE r == page[q]
               d == r.form.id
    <2>1. d \in Drafts /\ r.form.media \subseteq Media
        BY <1>1, <1>2 DEF TypeOK, Wizards, Copies
    <2>2. purchase'[d].by = q => /\ r.fin \notin {"upload", "variant", "review"}
                                 /\ r.step = "answer" => Head(r.queue).kind # "final"
        BY <1>1, <1>7 DEF PostIsSound
    <2>3. ASSUME r.fin \in {"upload", "variant", "review"}, intake'[d].status # "COMPLETED",
                 NEW m \in r.form.media \ r.todo
          PROVE  files'[m].of = d \/ m \in DeletedElsewhere(q)'
        <3>1. intake[d].status # "COMPLETED" /\ m \in Media
            BY <2>1, <2>3 DEF Serves
        <3>2. files[m].of = d \/ m \in DeletedElsewhere(q)
            BY <1>1, <2>3, <3>1 DEF PostIsSound
        <3>3. CASE m \in DeletedElsewhere(q)
            BY <1>4, <3>1, <3>3
        <3>4. CASE files[m].of = d
            <4>1. files[m].version # 0
                BY <1>1, <2>1, <3>1, <3>4, PurchaseClientAssumption DEF FilesAreSound
            <4>2. files'[m].of = d \/ files'[m].by = p
                BY <2>3, <3>1, <3>4, <4>1 DEF Serves
            <4> QED
                BY <3>1, <4>2, PurchaseClientAssumption DEF DeletedElsewhere
        <3> QED
            BY <3>2, <3>3, <3>4
    <2> QED
        BY <1>1, <2>2, <2>3 DEF PostIsSound
<1>9. EndIsSound(q)'
    <2> SUFFICES ASSUME page[q].phase = "done"
                 PROVE  EndIsSound(q)'
        BY <1>1 DEF EndIsSound
    <2> DEFINE r == page[q]
               d == r.form.id
    <2>1. d \in Drafts /\ r.form.media \subseteq Media /\ r.form # NoCopy
          /\ intake[d].status = "COMPLETED"
        BY <1>1, <1>2 DEF TypeOK, Wizards, Copies, EndIsSound
    <2>2. intake'[d].status = "COMPLETED"
        BY <2>1 DEF Serves
    <2>3. ASSUME r.outcome = "answer", purchase'[d].by = q
          PROVE  /\ purchase'[d].copy = r.form
                 /\ r.form.media \subseteq purchase'[d].files \cup DeletedElsewhere(q)'
        <3>1. /\ purchase'[d] = purchase[d] /\ purchase[d].copy = r.form
              /\ r.form.media \subseteq purchase[d].files \cup DeletedElsewhere(q)
            BY <1>1, <1>7, <2>3 DEF EndIsSound
        <3> QED
            BY <1>4, <2>1, <3>1
    <2> QED
        BY <2>1, <2>2, <2>3 DEF EndIsSound
<1> QED
    BY <1>5, <1>6, <1>8, <1>9 DEF PageIsSound

\* One page's step keeps the invariant if it keeps what is about that page and the server.
LEMMA StepIsSound ==
    ASSUME ClientIInv, NEW p \in Pages, OnlyPage(p), Serves(p), TypeOK', CopiesAreNamed',
           IntakesAreSound', CacheIsSound', FilesAreSound', PageIsSound(p)'
    PROVE  ClientIInv'
<1>1. ASSUME NEW q \in Pages PROVE PageIsSound(q)'
    BY <1>1, OthersStay DEF OnlyPage
<1> QED
    BY <1>1 DEF ClientIInv, PageIsSound

LEMMA WizardColumns ==
    ASSUME TypeOK, NEW p \in Pages
    PROVE  /\ page[p] \in Wizards
           /\ page[p].phase \in {"new", "loading", "open", "left", "done", "gone"}
           /\ page[p].form \in Copies \cup {NoCopy} /\ page[p].held \subseteq Media
           /\ page[p].timer \in BOOLEAN /\ page[p].ref \in Nat /\ page[p].refs \in [Media -> Nat]
           /\ page[p].ready \subseteq Media /\ page[p].queue \in Seq(Entries)
           /\ page[p].todo \subseteq Media
           /\ page[p].form # NoCopy => /\ page[p].form \in Copies
                                       /\ page[p].form.id \in Drafts /\ page[p].form.at \in Nat
                                       /\ page[p].form.media \subseteq Media
BY DEF TypeOK, Wizards, Copies

LEMMA CachedRowsAreRows ==
    ASSUME TypeOK, NEW w \in Windows, NEW r \in CachedRows(w)
    PROVE  r \in Rows /\ r.copy \in Copies /\ r.copy.id \in Drafts
<1>1. r \in Rows
    BY DEF TypeOK, CachedRows
<1> QED
    BY <1>1 DEF Rows, Copies

LEMMA CopiesThereAre ==
    ASSUME TypeOK
    PROVE  /\ AllCopies \subseteq Copies
           /\ \A b \in Browsers : local[b] \in AllCopies \cup {NoCopy}
           /\ \A d \in Drafts : intake[d].copy \in AllCopies \cup {NoCopy}
           /\ \A p \in Pages : page[p].form \in AllCopies \cup {NoCopy}
           /\ \A p \in Pages : \A i \in DOMAIN page[p].queue :
                 page[p].queue[i] \in Entries /\ page[p].queue[i].copy \in AllCopies
           /\ \A w \in Windows : \A r \in CachedRows(w) : r \in Rows /\ r.copy \in AllCopies
<1>1. \A p \in Pages : \A i \in DOMAIN page[p].queue : page[p].queue[i] \in Entries
    BY WizardColumns
<1>2. \A p \in Pages : \A i \in DOMAIN page[p].queue : page[p].queue[i].copy \in Copies
    BY <1>1 DEF Entries
<1>3. ASSUME NEW c \in AllCopies PROVE c \in Copies
    <2>1. CASE \E b \in Browsers : c = local[b]
        BY <1>3, <2>1 DEF AllCopies, TypeOK
    <2>2. CASE \E p \in Pages : c = page[p].form
        BY <1>3, <2>2, WizardColumns DEF AllCopies
    <2>3. CASE \E d \in Drafts : c = intake[d].copy
        BY <1>3, <2>3 DEF AllCopies, TypeOK, Intakes
    <2>4. CASE \E p \in Pages : \E i \in DOMAIN page[p].queue : c = page[p].queue[i].copy
        BY <1>2, <2>4
    <2>5. CASE \E w \in Windows : \E r \in CachedRows(w) : c = r.copy
        BY <2>5, CachedRowsAreRows
    <2> QED
        BY <1>3, <2>1, <2>2, <2>3, <2>4, <2>5 DEF AllCopies, CopiesOf
<1>4. \A p \in Pages : \A i \in DOMAIN page[p].queue : page[p].queue[i].copy # NoCopy
    BY <1>2, PurchaseClientAssumption
<1>5. ASSUME NEW w \in Windows, NEW r \in CachedRows(w)
      PROVE  r \in Rows /\ r.copy \in AllCopies
    <2>1. r \in Rows /\ r.copy \in Copies /\ r.copy # NoCopy
        BY CachedRowsAreRows, PurchaseClientAssumption
    <2> QED
        BY <2>1 DEF AllCopies, CopiesOf
<1> QED
    BY <1>1, <1>3, <1>4, <1>5 DEF AllCopies

\* Where the copies of a step come from.
LEMMA CopiesComeFrom ==
    ASSUME NEW p \in Pages, OnlyPage(p), NEW S,
           \A c \in AllCopies : c \in S,
           \A b \in Browsers : local'[b] \in S \cup {local[b], NoCopy},
           page'[p].form \in S \cup {NoCopy},
           \A i \in DOMAIN page'[p].queue : page'[p].queue[i].copy \in S \cup {NoCopy},
           \A d \in Drafts : intake'[d].copy \in S \cup {intake[d].copy, NoCopy},
           \A w \in Windows : \A row \in CachedRows(w)' : row.copy \in S,
           NEW c \in AllCopies'
    PROVE  c \in S
<1>1. c # NoCopy
    BY DEF AllCopies
<1>2. CASE \E b \in Browsers : c = local'[b]
    BY <1>1, <1>2 DEF AllCopies
<1>3. CASE \E q \in Pages : c = page'[q].form
    <2>1. PICK q \in Pages : c = page'[q].form
        BY <1>3
    <2>2. CASE q = p
        BY <1>1, <2>1, <2>2
    <2>3. CASE q # p
        BY <1>1, <2>1, <2>3 DEF AllCopies, OnlyPage
    <2> QED
        BY <2>2, <2>3
<1>4. CASE \E d \in Drafts : c = intake'[d].copy
    BY <1>1, <1>4 DEF AllCopies
<1>5. CASE \E q \in Pages : \E i \in DOMAIN page'[q].queue : c = page'[q].queue[i].copy
    <2>1. PICK q \in Pages : \E i \in DOMAIN page'[q].queue : c = page'[q].queue[i].copy
        BY <1>5
    <2>2. CASE q = p
        BY <1>1, <2>1, <2>2
    <2>3. CASE q # p
        <3>1. PICK i \in DOMAIN page[q].queue : c = page[q].queue[i].copy
            BY <2>1, <2>3 DEF OnlyPage
        <3> QED
            BY <1>1, <3>1 DEF AllCopies
    <2> QED
        BY <2>2, <2>3
<1>6. CASE \E w \in Windows : \E row \in CachedRows(w)' : c = row.copy
    BY <1>6
<1> QED
    BY <1>2, <1>3, <1>4, <1>5, <1>6 DEF AllCopies, CopiesOf

\* What a window caches is a copy there was.
CachedCopiesStay == \A w \in Windows : \A row \in CachedRows(w)' : row.copy \in AllCopies

\* No copy is new.
LEMMA CopiesStay ==
    ASSUME ClientIInv, NEW p \in Pages, OnlyPage(p), CachedCopiesStay,
           \A b \in Browsers : local'[b] \in AllCopies \cup {local[b], NoCopy},
           page'[p].form \in AllCopies \cup {NoCopy},
           \A i \in DOMAIN page'[p].queue : page'[p].queue[i].copy \in AllCopies \cup {NoCopy},
           \A d \in Drafts : intake'[d].copy \in AllCopies \cup {intake[d].copy, NoCopy},
           stamp' = stamp, budget'.media \subseteq budget.media,
           \A m \in Media : \/ files'[m].of \in {files[m].of, NoCopy}
                            \/ \E c \in AllCopies : m \in c.media /\ files'[m].of = c.id
    PROVE  CopiesAreNamed'
<1>1. PICK S : S = AllCopies
    OBVIOUS
<1>2. ASSUME NEW c \in AllCopies' PROVE c \in AllCopies
    <2>1. /\ \A b \in Browsers : local'[b] \in S \cup {local[b], NoCopy}
          /\ page'[p].form \in S \cup {NoCopy}
          /\ \A i \in DOMAIN page'[p].queue : page'[p].queue[i].copy \in S \cup {NoCopy}
          /\ \A d \in Drafts : intake'[d].copy \in S \cup {intake[d].copy, NoCopy}
          /\ \A e \in AllCopies : e \in S
          /\ \A w \in Windows : \A row \in CachedRows(w)' : row.copy \in S
        BY <1>1 DEF CachedCopiesStay
    <2> QED
        BY <1>1, <1>2, <2>1, CopiesComeFrom
<1>3. CopiesAreNamed
    BY DEF ClientIInv
<1>4. \A c \in AllCopies : c.media \subseteq Media
    BY CopiesThereAre DEF ClientIInv, Copies
<1> QED
    BY <1>2, <1>3, <1>4 DEF CopiesAreNamed

\* A page makes a copy: an edit, later than all there are, or a draft nobody has.
LEMMA CopyIsMade ==
    ASSUME ClientIInv, NEW p \in Pages, OnlyPage(p), CachedCopiesStay, NEW n \in Copies,
           \A b \in Browsers : local'[b] \in AllCopies \cup {n, NoCopy},
           page'[p].form \in AllCopies \cup {n, NoCopy},
           \A i \in DOMAIN page'[p].queue : page'[p].queue[i].copy \in AllCopies \cup {n, NoCopy},
           UNCHANGED server, stamp' \in Nat, stamp <= stamp', n.at = stamp',
           \A c \in AllCopies : c.id = n.id => stamp < stamp',
           \/ n.media = {}
           \/ /\ page[p].form \in AllCopies /\ n.id = page[p].form.id
              /\ n.media \subseteq page[p].form.media \cup (budget.media \ budget'.media),
           budget'.media \subseteq budget.media, budget.media \subseteq Media
    PROVE  CopiesAreNamed'
<1>1. PICK S : S = AllCopies \cup {n}
    OBVIOUS
<1>2. ASSUME NEW c \in AllCopies' PROVE c \in AllCopies \cup {n}
    <2>1. /\ \A b \in Browsers : local'[b] \in S \cup {local[b], NoCopy}
          /\ page'[p].form \in S \cup {NoCopy}
          /\ \A i \in DOMAIN page'[p].queue : page'[p].queue[i].copy \in S \cup {NoCopy}
          /\ \A d \in Drafts : intake'[d].copy \in S \cup {intake[d].copy, NoCopy}
          /\ \A e \in AllCopies : e \in S
          /\ \A w \in Windows : \A row \in CachedRows(w)' : row.copy \in S
        BY <1>1 DEF server, CachedCopiesStay
    <2> QED
        BY <1>1, <1>2, <2>1, CopiesComeFrom
<1>3. CopiesAreNamed /\ TypeOK /\ FilesAreSound
    BY DEF ClientIInv
<1>4. \A c \in AllCopies : c.at \in Nat /\ c.media \subseteq Media
    BY <1>3, CopiesThereAre DEF Copies
<1>5. stamp \in Nat
    BY <1>3 DEF TypeOK, Budgets
<1>6. \A c \in AllCopies \cup {n} : c.at <= stamp'
    BY <1>3, <1>4, <1>5 DEF CopiesAreNamed
<1>7. \A c \in AllCopies \cup {n} : \A e \in AllCopies \cup {n} : c.id = e.id /\ c.at = e.at => c = e
    BY <1>3, <1>4, <1>5 DEF CopiesAreNamed
<1>8. ASSUME NEW m \in n.media
      PROVE  /\ m \notin budget'.media /\ files[m].of \in {NoCopy, n.id}
             /\ \A e \in AllCopies : m \in e.media => n.id = e.id
    <2>1. CASE m \in page[p].form.media /\ page[p].form \in AllCopies /\ n.id = page[p].form.id
        BY <1>3, <2>1 DEF CopiesAreNamed
    <2>2. CASE m \in budget.media /\ m \notin budget'.media
        BY <1>3, <2>2 DEF CopiesAreNamed, FilesAreSound
    <2> QED
        BY <1>8, <2>1, <2>2
<1>9. \A c \in AllCopies \cup {n} : \A m \in c.media :
          /\ m \notin budget'.media /\ files[m].of \in {NoCopy, c.id}
          /\ \A e \in AllCopies \cup {n} : m \in e.media => c.id = e.id
    BY <1>3, <1>8 DEF CopiesAreNamed
<1>10. files' = files
    BY DEF server
<1> QED
    BY <1>2, <1>6, <1>7, <1>9, <1>10 DEF CopiesAreNamed

LEMMA FilesStay ==
    ASSUME ClientIInv, NEW p \in Pages, OnlyPage(p),
           budget'.media \subseteq budget.media,
           page'[p].phase \in {"new", "loading"} => page[p].phase \in {"new", "loading"},
           page[p].phase \notin {"new", "loading"} =>
               page'[p].form.media \subseteq page[p].form.media \cup budget.media,
           \A m \in Media :
               \/ files'[m].version = files[m].version /\ files'[m].of \in {files[m].of, NoCopy}
                     /\ files'[m].by = files[m].by
               \/ files'[m].version # 0 /\ m \notin budget.media /\ files'[m].by = NoPage
               \/ /\ files[m].version # 0 /\ files'[m].version = files[m].version
                  /\ files'[m].by = p /\ files'[m].of = NoCopy
                  /\ page'[p].phase \notin {"new", "loading"} /\ m \notin page'[p].form.media
    PROVE  FilesAreSound'
<1>1. FilesAreSound /\ TypeOK
    BY DEF ClientIInv
<1>2. ASSUME NEW m \in Media
      PROVE  /\ m \in budget'.media => files'[m].version = 0
             /\ files'[m].version = 0 => files'[m].of = NoCopy /\ files'[m].by = NoPage
             /\ files'[m].by # NoPage =>
                   /\ files'[m].of = NoCopy
                   /\ page'[files'[m].by].phase \notin {"new", "loading"}
                   /\ m \notin page'[files'[m].by].form.media
    <2>1. CASE /\ files'[m].version = files[m].version /\ files'[m].of \in {files[m].of, NoCopy}
               /\ files'[m].by = files[m].by
        <3>1. files[m].by # NoPage => files[m].by \in Pages /\ m \notin budget.media
            BY <1>1 DEF TypeOK, Files, FilesAreSound
        <3> QED
            BY <1>1, <2>1, <3>1 DEF FilesAreSound, OnlyPage
    <2>2. CASE files'[m].version # 0 /\ m \notin budget.media /\ files'[m].by = NoPage
        BY <2>2
    <2>3. CASE /\ files[m].version # 0 /\ files'[m].version = files[m].version
               /\ files'[m].by = p /\ files'[m].of = NoCopy
               /\ page'[p].phase \notin {"new", "loading"} /\ m \notin page'[p].form.media
        BY <1>1, <2>3 DEF FilesAreSound
    <2> QED
        BY <2>1, <2>2, <2>3
<1> QED
    BY <1>2 DEF FilesAreSound

-----------------------------------------------------------------------------
(* What all steps have in common *)

LEMMA Charged ==
    ASSUME TypeOK, NEW fate \in Fates, Charge(fate)
    PROVE  budget' \in Budgets /\ budget'.media = budget.media /\ budget'.stamps = budget.stamps
<1>1. CASE fate = "answered"
    BY <1>1 DEF TypeOK, Charge
<1>2. CASE fate # "answered"
    <2>1. budget.faults > 0 /\ budget \in Budgets
        BY <1>2 DEF Fates, TypeOK
    <2>2. PICK n : n = budget.faults - 1
        OBVIOUS
    <2>3. n \in Nat /\ budget' = [budget EXCEPT !.faults = n]
        BY <1>2, <2>1, <2>2 DEF Budgets, Charge
    <2> QED
        BY <2>1, <2>3 DEF Budgets
<1> QED
    BY <1>1, <1>2

LEMMA PageIsSet ==
    ASSUME TypeOK, NEW p \in Pages, NEW r, Set(p, r)
    PROVE  page'[p] = r /\ OnlyPage(p) /\ (r \in Wizards => page' \in [Pages -> Wizards])
BY DEF TypeOK, Set, OnlyPage

LEMMA ServerStays ==
    ASSUME TypeOK, IntakesAreSound, NEW p \in Pages, UNCHANGED server
    PROVE  Serves(p) /\ IntakesAreSound'
BY DEF server, Serves, TypeOK, Files, IntakesAreSound

\* What a step leaves in the windows' caches.
CacheServed ==
    /\ listCache' \in [Windows -> (SUBSET Rows) \cup {NoCopy}] /\ exactCache' \in [Windows -> SUBSET Rows]
    /\ CachedCopiesStay /\ CacheIsSound'

LEMMA DraftsStay ==
    ASSUME IntakesAreSound, IntakesAreSound', NEW p \in Pages, Serves(p),
           NEW d \in Drafts, intake[d].status # "none"
    PROVE  intake'[d].status # "none"
BY PurchaseClientAssumption DEF IntakesAreSound, Serves

\* A cache that keeps some of its rows, with the drafts of the pages that are done taken out.
LEMMA CacheShrinks ==
    ASSUME ClientIInv, NEW p \in Pages, OnlyPage(p), Serves(p), IntakesAreSound',
           listCache' \in [Windows -> (SUBSET Rows) \cup {NoCopy}],
           exactCache' \in [Windows -> SUBSET Rows],
           \A w \in Windows : CachedRows(w)' \subseteq CachedRows(w),
           page'[p].phase = "done" =>
               /\ page'[p].form = page[p].form
               /\ \A row \in CachedRows(WindowOf(p))' : row.copy.id # page[p].form.id
    PROVE  CacheServed
<1>1. TypeOK /\ IntakesAreSound /\ CacheIsSound
    BY DEF ClientIInv
<1>2. CachedCopiesStay
    BY <1>1, CopiesThereAre DEF CachedCopiesStay
<1>3. ASSUME NEW w \in Windows, NEW row \in CachedRows(w)'
      PROVE  intake'[row.copy.id].status # "none"
    <2>1. row \in CachedRows(w)
        OBVIOUS
    <2>2. row.copy.id \in Drafts /\ intake[row.copy.id].status # "none"
        BY <1>1, <2>1, CachedRowsAreRows DEF CacheIsSound
    <2> QED
        BY <1>1, <2>2, DraftsStay
<1>4. ASSUME NEW q \in Pages, page'[q].phase = "done", NEW row \in CachedRows(WindowOf(q))'
      PROVE  row.copy.id # page'[q].form.id
    <2>1. CASE q = p
        BY <1>4, <2>1
    <2>2. CASE q # p
        <3>1. page'[q] = page[q] /\ WindowOf(q) \in Windows
            BY <2>2, PurchaseClientAssumption DEF OnlyPage
        <3>2. row \in CachedRows(WindowOf(q))
            BY <3>1
        <3> QED
            BY <1>1, <1>4, <3>1, <3>2 DEF CacheIsSound
    <2> QED
        BY <2>1, <2>2
<1> QED
    BY <1>2, <1>3, <1>4 DEF CacheServed, CacheIsSound

LEMMA CacheStays ==
    ASSUME ClientIInv, NEW p \in Pages, OnlyPage(p), Serves(p), IntakesAreSound', UNCHANGED cache,
           page'[p].phase # "done"
    PROVE  CacheServed
<1>1. listCache' = listCache /\ exactCache' = exactCache
    BY DEF cache
<1>2. \A w \in Windows : CachedRows(w)' = CachedRows(w)
    BY <1>1 DEF CachedRows
<1>3. /\ listCache' \in [Windows -> (SUBSET Rows) \cup {NoCopy}]
      /\ exactCache' \in [Windows -> SUBSET Rows]
    BY <1>1 DEF ClientIInv, TypeOK
<1> QED
    BY <1>2, <1>3, CacheShrinks

\* A page that is done takes its draft out.
LEMMA CacheWithout ==
    ASSUME TypeOK, NEW w \in Windows, NEW d, Evicted(w, d)
    PROVE  /\ listCache' \in [Windows -> (SUBSET Rows) \cup {NoCopy}]
           /\ exactCache' \in [Windows -> SUBSET Rows]
           /\ \A v \in Windows : CachedRows(v)' \subseteq CachedRows(v)
           /\ \A row \in CachedRows(w)' : row.copy.id # d
<1>1. /\ listCache \in [Windows -> (SUBSET Rows) \cup {NoCopy}]
      /\ exactCache \in [Windows -> SUBSET Rows]
    BY DEF TypeOK
<1>2. PICK list : list = IF listCache[w] = NoCopy THEN NoCopy ELSE {r \in listCache[w] : r.copy.id # d}
    OBVIOUS
<1>3. PICK exact : exact = {r \in exactCache[w] : r.copy.id # d}
    OBVIOUS
<1>4. listCache' = [listCache EXCEPT ![w] = list] /\ exactCache' = [exactCache EXCEPT ![w] = exact]
    BY <1>1, <1>2, <1>3 DEF Evicted
<1>5. list \in (SUBSET Rows) \cup {NoCopy} /\ exact \in SUBSET Rows
    BY <1>1, <1>2, <1>3
<1>6. /\ listCache'[w] = list /\ exactCache'[w] = exact
      /\ \A v \in Windows : v # w => listCache'[v] = listCache[v] /\ exactCache'[v] = exactCache[v]
    BY <1>1, <1>4
<1>7. CachedRows(w)' \subseteq CachedRows(w) /\ \A row \in CachedRows(w)' : row.copy.id # d
    BY <1>2, <1>3, <1>6 DEF CachedRows
<1>8. \A v \in Windows : v # w => CachedRows(v)' = CachedRows(v)
    BY <1>6 DEF CachedRows
<1> QED
    BY <1>1, <1>4, <1>5, <1>7, <1>8

\* A step that makes no copy.
LEMMA StepWithoutCopies ==
    ASSUME ClientIInv, NEW p \in Pages, NEW r, Set(p, r), r \in Wizards,
           r.phase = "open" => r.form # NoCopy /\ r.held \subseteq r.form.media,
           r.step # "idle" => r.queue # <<>>,
           r.form \in AllCopies \cup {NoCopy},
           \A i \in DOMAIN r.queue : r.queue[i].copy \in AllCopies \cup {NoCopy},
           r.phase \in {"new", "loading"} => page[p].phase \in {"new", "loading"},
           page[p].phase \notin {"new", "loading"} => r.form = page[p].form,
           local' \in [Browsers -> Copies \cup {NoCopy}],
           \A b \in Browsers : local'[b] \in AllCopies \cup {local[b], NoCopy},
           budget' \in Budgets, budget'.media = budget.media, budget'.stamps = budget.stamps,
           stamp' = stamp,
           Serves(p), IntakesAreSound', CacheServed \/ (UNCHANGED cache /\ r.phase # "done"),
           intake' \in [Drafts -> Intakes], purchase' \in [Drafts -> Purchases],
           files' \in [Media -> Files],
           \A d \in Drafts : intake'[d].copy \in AllCopies \cup {intake[d].copy, NoCopy},
           \A m \in Media :
               \/ files'[m] = files[m]
               \/ files'[m].version = files[m].version /\ files'[m].of = NoCopy
                     /\ files'[m].by = files[m].by
               \/ /\ files'[m].version # 0 /\ m \notin budget.media /\ files'[m].by = NoPage
                  /\ \/ files'[m].of \in {files[m].of, NoCopy}
                     \/ \E c \in AllCopies : m \in c.media /\ files'[m].of = c.id
               \/ /\ files[m].version # 0 /\ files'[m].version = files[m].version
                  /\ files'[m].by = p /\ files'[m].of = NoCopy
                  /\ r.phase \notin {"new", "loading"} /\ m \notin r.form.media,
           PageIsSound(p)'
    PROVE  ClientIInv'
<1>1. TypeOK
    BY DEF ClientIInv
<1>2. page'[p] = r /\ OnlyPage(p) /\ page' \in [Pages -> Wizards]
    BY <1>1, PageIsSet
<1>3. CacheServed
    BY <1>2, CacheStays
<1>4. TypeOK'
    BY <1>1, <1>2, <1>3 DEF TypeOK, OnlyPage, CacheServed
<1>5. \A m \in Media : \/ files'[m].of \in {files[m].of, NoCopy}
                       \/ \E c \in AllCopies : m \in c.media /\ files'[m].of = c.id
    OBVIOUS
<1>6. CopiesAreNamed'
    BY <1>2, <1>5, <1>3, CopiesStay DEF CacheServed
<1>7. FilesAreSound'
    <2>1. /\ budget'.media \subseteq budget.media
          /\ page'[p].phase \in {"new", "loading"} => page[p].phase \in {"new", "loading"}
          /\ page[p].phase \notin {"new", "loading"} =>
                page'[p].form.media \subseteq page[p].form.media \cup budget.media
        BY <1>2
    <2>2. ASSUME NEW m \in Media
          PROVE  \/ files'[m].version = files[m].version /\ files'[m].of \in {files[m].of, NoCopy}
                       /\ files'[m].by = files[m].by
                 \/ files'[m].version # 0 /\ m \notin budget.media /\ files'[m].by = NoPage
                 \/ /\ files[m].version # 0 /\ files'[m].version = files[m].version
                    /\ files'[m].by = p /\ files'[m].of = NoCopy
                    /\ page'[p].phase \notin {"new", "loading"} /\ m \notin page'[p].form.media
        BY <1>2
    <2> QED
        BY <1>2, <2>1, <2>2, FilesStay
<1> QED
    BY <1>2, <1>4, <1>6, <1>7, <1>3, StepIsSound DEF CacheServed

\* ... nor changes the server.
LEMMA PageSteps ==
    ASSUME ClientIInv, NEW p \in Pages, NEW r, Set(p, r), r \in Wizards,
           r.phase = "open" => r.form # NoCopy /\ r.held \subseteq r.form.media,
           r.step # "idle" => r.queue # <<>>,
           r.form \in AllCopies \cup {NoCopy},
           \A i \in DOMAIN r.queue : r.queue[i].copy \in AllCopies \cup {NoCopy},
           r.phase \in {"new", "loading"} => page[p].phase \in {"new", "loading"},
           page[p].phase \notin {"new", "loading"} => r.form = page[p].form,
           local' \in [Browsers -> Copies \cup {NoCopy}],
           \A b \in Browsers : local'[b] \in AllCopies \cup {local[b], NoCopy},
           budget' \in Budgets, budget'.media = budget.media, budget'.stamps = budget.stamps,
           stamp' = stamp, UNCHANGED server,
           CacheServed \/ (UNCHANGED cache /\ r.phase # "done"),
           PageIsSound(p)'
    PROVE  ClientIInv'
<1>1. TypeOK /\ IntakesAreSound
    BY DEF ClientIInv
<1>2. Serves(p) /\ IntakesAreSound'
    BY <1>1, ServerStays
<1>3. /\ intake' \in [Drafts -> Intakes] /\ purchase' \in [Drafts -> Purchases]
      /\ files' \in [Media -> Files]
      /\ \A d \in Drafts : intake'[d].copy \in AllCopies \cup {intake[d].copy, NoCopy}
      /\ \A m \in Media : files'[m] = files[m]
    BY <1>1 DEF TypeOK, server
<1> QED
    BY <1>2, <1>3, StepWithoutCopies

-----------------------------------------------------------------------------
(* Opening, leaving and ending *)

\* What ends a page: an answer about its form, or the completed intake.
LEMMA EndsSoundly ==
    ASSUME TypeOK, NEW p \in Pages, NEW phase \in {"done", "gone"},
           NEW outcome \in {"none", "answer", "recovered"},
           page'[p] = Ended(p, phase, outcome),
           phase = "done" => /\ page[p].form # NoCopy
                             /\ intake'[page[p].form.id].status = "COMPLETED",
           outcome = "answer" =>
               /\ phase = "done"
               /\ purchase'[page[p].form.id].by = p =>
                     /\ purchase'[page[p].form.id].copy = page[p].form
                     /\ page[p].form.media \subseteq
                            purchase'[page[p].form.id].files \cup DeletedElsewhere(p)'
    PROVE  /\ Ended(p, phase, outcome) \in Wizards
           /\ Ended(p, phase, outcome).phase = phase
           /\ Ended(p, phase, outcome).form = page[p].form
           /\ Ended(p, phase, outcome).queue = <<>> /\ Ended(p, phase, outcome).step = "idle"
           /\ PageIsSound(p)'
<1> DEFINE r == Ended(p, phase, outcome)
<1>1. /\ r.phase = phase /\ r.form = page[p].form /\ r.held = {} /\ r.timer = FALSE /\ r.ref = 0
      /\ r.refs = [m \in Media |-> 0] /\ r.ready = {} /\ r.queue = <<>> /\ r.step = "idle"
      /\ r.saved = "saving" /\ r.fin = "no" /\ r.todo = {} /\ r.outcome = outcome
    BY DEF Ended, NewPage
<1>2. r \in Wizards
    <2>1. page[p].form \in Copies \cup {NoCopy}
        BY WizardColumns
    <2>2. <<>> \in Seq(Entries)
        OBVIOUS
    <2> QED
        BY <2>1, <2>2 DEF Ended, NewPage, Wizards
<1> HIDE DEF r
<1>3. page'[p] = r
    BY DEF r
<1>4. QueueIsSound(p)'
    BY <1>1, <1>3 DEF QueueIsSound, Working
<1>5. SaveIsSound(p)' /\ PostIsSound(p)'
    BY <1>1, <1>3 DEF SaveIsSound, PostIsSound
<1>6. EndIsSound(p)'
    BY <1>1, <1>3 DEF EndIsSound
<1> QED
    BY <1>1, <1>2, <1>3, <1>4, <1>5, <1>6 DEF PageIsSound, r

\* A page ends without a word to the server.
LEMMA EndingSteps ==
    ASSUME ClientIInv, NEW p \in Pages, NEW phase \in {"done", "gone"},
           NEW outcome \in {"none", "recovered"}, Set(p, Ended(p, phase, outcome)),
           phase = "done" => /\ page[p].form # NoCopy
                             /\ intake[page[p].form.id].status = "COMPLETED",
           local' \in [Browsers -> Copies \cup {NoCopy}],
           \A b \in Browsers : local'[b] \in AllCopies \cup {local[b], NoCopy},
           budget' \in Budgets, budget'.media = budget.media, budget'.stamps = budget.stamps,
           stamp' = stamp, UNCHANGED server,
           CacheServed \/ (UNCHANGED cache /\ phase # "done")
    PROVE  ClientIInv'
<1> DEFINE r == Ended(p, phase, outcome)
<1>1. TypeOK
    BY DEF ClientIInv
<1>2. page'[p] = r
    BY <1>1, PageIsSet
<1>3. /\ r \in Wizards /\ r.phase = phase /\ r.form = page[p].form
      /\ r.queue = <<>> /\ r.step = "idle" /\ PageIsSound(p)'
    BY <1>1, <1>2, EndsSoundly DEF server
<1>4. page[p].form \in AllCopies \cup {NoCopy}
    BY <1>1, CopiesThereAre
<1> HIDE DEF r
<1>5. Set(p, r)
    BY DEF r
<1>6. /\ r.phase = "open" => r.form # NoCopy /\ r.held \subseteq r.form.media
      /\ r.step # "idle" => r.queue # <<>>
      /\ r.form \in AllCopies \cup {NoCopy}
      /\ \A i \in DOMAIN r.queue : r.queue[i].copy \in AllCopies \cup {NoCopy}
      /\ r.phase \in {"new", "loading"} => page[p].phase \in {"new", "loading"}
      /\ page[p].phase \notin {"new", "loading"} => r.form = page[p].form
    BY <1>3, <1>4
<1> QED
    BY <1>3, <1>5, <1>6, PageSteps

LEMMA LocalCopies ==
    ASSUME TypeOK, NEW p \in Pages
    PROVE  /\ SaveLocally(p) =>
                 /\ local' \in [Browsers -> Copies \cup {NoCopy}]
                 /\ \A b \in Browsers : local'[b] \in AllCopies \cup {local[b], NoCopy}
           /\ local' = [local EXCEPT ![BrowserOf(p)] = NoCopy] =>
                 /\ local' \in [Browsers -> Copies \cup {NoCopy}]
                 /\ \A b \in Browsers : local'[b] \in AllCopies \cup {local[b], NoCopy}
           /\ local' = local =>
                 /\ local' \in [Browsers -> Copies \cup {NoCopy}]
                 /\ \A b \in Browsers : local'[b] \in AllCopies \cup {local[b], NoCopy}
<1>1. page[p].form \in AllCopies \cup {NoCopy} /\ page[p].form \in Copies \cup {NoCopy}
    BY CopiesThereAre, WizardColumns
<1>2. local \in [Browsers -> Copies \cup {NoCopy}]
    BY DEF TypeOK
<1> QED
    BY <1>1, <1>2 DEF SaveLocally

LEMMA BudgetStays ==
    ASSUME TypeOK
    PROVE  /\ Leaving => /\ budget' \in Budgets /\ budget'.media = budget.media
                         /\ budget'.stamps = budget.stamps
           /\ budget.submits > 0 /\ budget' = [budget EXCEPT !.submits = @ - 1] =>
                 /\ budget' \in Budgets /\ budget'.media = budget.media
                 /\ budget'.stamps = budget.stamps
           /\ budget' = budget => /\ budget' \in Budgets /\ budget'.media = budget.media
                                  /\ budget'.stamps = budget.stamps
<1>1. budget \in Budgets
    BY DEF TypeOK
<1>2. ASSUME Leaving
      PROVE  budget' \in Budgets /\ budget'.media = budget.media /\ budget'.stamps = budget.stamps
    <2>1. PICK n : n = budget.leavings - 1
        OBVIOUS
    <2>2. n \in Nat /\ budget' = [budget EXCEPT !.leavings = n]
        BY <1>1, <1>2, <2>1 DEF Budgets, Leaving
    <2> QED
        BY <1>1, <2>2 DEF Budgets
<1>3. ASSUME budget.submits > 0, budget' = [budget EXCEPT !.submits = @ - 1]
      PROVE  budget' \in Budgets /\ budget'.media = budget.media /\ budget'.stamps = budget.stamps
    <2>1. PICK n : n = budget.submits - 1
        OBVIOUS
    <2>2. n \in Nat /\ budget' = [budget EXCEPT !.submits = n]
        BY <1>1, <1>3, <2>1 DEF Budgets
    <2> QED
        BY <1>1, <2>2 DEF Budgets
<1> QED
    BY <1>1, <1>2, <1>3

\* A page that is done is not found in the cache again.
LEMMA CacheEvicts ==
    ASSUME ClientIInv, NEW p \in Pages, OnlyPage(p), Serves(p), IntakesAreSound',
           Evicted(WindowOf(p), page[p].form.id), page'[p].form = page[p].form
    PROVE  CacheServed
<1>1. TypeOK /\ WindowOf(p) \in Windows
    BY PurchaseClientAssumption DEF ClientIInv
<1>2. /\ listCache' \in [Windows -> (SUBSET Rows) \cup {NoCopy}]
      /\ exactCache' \in [Windows -> SUBSET Rows]
      /\ \A v \in Windows : CachedRows(v)' \subseteq CachedRows(v)
      /\ \A row \in CachedRows(WindowOf(p))' : row.copy.id # page[p].form.id
    BY <1>1, CacheWithout
<1> QED
    BY <1>2, CacheShrinks

\* A page whose draft was purchased is done: its copies are dropped.
LEMMA CompletedSteps ==
    ASSUME ClientIInv, NEW p \in Pages, Set(p, Ended(p, "done", "recovered")),
           local' = [local EXCEPT ![BrowserOf(p)] = NoCopy], Evicted(WindowOf(p), page[p].form.id),
           page[p].form # NoCopy, intake[page[p].form.id].status = "COMPLETED",
           budget' \in Budgets, budget'.media = budget.media, budget'.stamps = budget.stamps,
           stamp' = stamp, UNCHANGED server
    PROVE  ClientIInv'
<1>1. TypeOK /\ IntakesAreSound
    BY DEF ClientIInv
<1>2. /\ page'[p].form = page[p].form /\ OnlyPage(p)
    <2>1. page'[p] = Ended(p, "done", "recovered") /\ OnlyPage(p)
        BY <1>1, PageIsSet
    <2>2. Ended(p, "done", "recovered").form = page[p].form
        BY DEF Ended, NewPage
    <2> QED
        BY <2>1, <2>2
<1>3. Serves(p) /\ IntakesAreSound'
    BY <1>1, ServerStays
<1>4. CacheServed
    BY <1>2, <1>3, CacheEvicts
<1>5. /\ local' \in [Browsers -> Copies \cup {NoCopy}]
      /\ \A b \in Browsers : local'[b] \in AllCopies \cup {local[b], NoCopy}
    BY <1>1, LocalCopies
<1> QED
    BY <1>4, <1>5, EndingSteps

\* A window ends, and all its pages with it.
LEMMA WindowEndSteps ==
    ASSUME ClientIInv, NEW w \in Windows, WindowEnds(w), UNCHANGED server, stamp' = stamp,
           local' \in [Browsers -> Copies \cup {NoCopy}],
           \A b \in Browsers : local'[b] \in AllCopies \cup {local[b], NoCopy},
           budget' \in Budgets, budget'.media = budget.media, budget'.stamps = budget.stamps
    PROVE  ClientIInv'
<1>1. TypeOK /\ CopiesAreNamed /\ IntakesAreSound /\ CacheIsSound /\ FilesAreSound
    BY DEF ClientIInv
<1>2. intake' = intake /\ purchase' = purchase /\ files' = files
    BY DEF server
<1>3. ASSUME NEW q \in Pages
      PROVE  \/ page'[q] = page[q]
             \/ /\ page'[q] = Ended(q, "gone", "none")
                /\ page[q].phase \in {"loading", "open", "left"}
    BY <1>1 DEF WindowEnds, TypeOK
<1>4. ASSUME NEW q \in Pages, page'[q] # page[q]
      PROVE  /\ page'[q] \in Wizards /\ page'[q].phase = "gone" /\ page'[q].form = page[q].form
             /\ page'[q].queue = <<>> /\ page'[q].step = "idle" /\ PageIsSound(q)'
    BY <1>1, <1>3, <1>4, EndsSoundly
<1>5. ASSUME NEW q \in Pages, page'[q] = page[q] PROVE PageIsSound(q)'
    <2>1. QueueIsSound(q) /\ SaveIsSound(q) /\ PostIsSound(q) /\ EndIsSound(q)
        BY DEF ClientIInv
    <2>2. DeletedElsewhere(q)' = DeletedElsewhere(q)
        BY <1>2 DEF DeletedElsewhere
    <2>3. QueueIsSound(q)'
        BY <1>5, <2>1 DEF QueueIsSound, Working
    <2>4. SaveIsSound(q)'
        BY <1>2, <1>5, <2>1 DEF SaveIsSound, Stored
    <2>5. PostIsSound(q)'
        BY <1>2, <1>5, <2>1, <2>2 DEF PostIsSound
    <2>6. EndIsSound(q)'
        BY <1>2, <1>5, <2>1, <2>2 DEF EndIsSound
    <2> QED
        BY <2>3, <2>4, <2>5, <2>6 DEF PageIsSound
<1>6. \A q \in Pages : /\ page'[q].form = page[q].form
                       /\ page'[q].phase \in {page[q].phase, "gone"}
                       /\ page[q].phase \in {"new", "loading"} \/ page'[q].phase \notin {"new", "loading"}
    BY <1>4
<1>7. /\ listCache' \in [Windows -> (SUBSET Rows) \cup {NoCopy}]
      /\ exactCache' \in [Windows -> SUBSET Rows]
      /\ \A v \in Windows : CachedRows(v)' \subseteq CachedRows(v)
    <2>1. /\ listCache' = [listCache EXCEPT ![w] = NoCopy] /\ exactCache' = [exactCache EXCEPT ![w] = {}]
          /\ listCache \in [Windows -> (SUBSET Rows) \cup {NoCopy}]
          /\ exactCache \in [Windows -> SUBSET Rows]
        BY <1>1 DEF WindowEnds, TypeOK
    <2> QED
        BY <2>1 DEF CachedRows
<1>8. TypeOK'
    <2>1. page' \in [Pages -> Wizards]
        <3>1. \A q \in Pages : page'[q] \in Wizards
            BY <1>1, <1>4 DEF TypeOK
        <3>2. page' = [q \in Pages |-> page'[q]]
            BY DEF WindowEnds
        <3> QED
            BY <3>1, <3>2
    <2>2. ASSUME NEW q \in Pages
          PROVE  /\ page'[q].phase = "open" => page'[q].form # NoCopy
                                               /\ page'[q].held \subseteq page'[q].form.media
                 /\ page'[q].step # "idle" => page'[q].queue # <<>>
        BY <1>1, <1>4 DEF TypeOK
    <2> QED
        BY <1>1, <1>2, <1>7, <2>1, <2>2 DEF TypeOK
<1>9. ASSUME NEW c \in AllCopies' PROVE c \in AllCopies
    <2>1. c # NoCopy
        BY <1>9 DEF AllCopies
    <2>2. CASE \E b \in Browsers : c = local'[b]
        BY <2>1, <2>2 DEF AllCopies
    <2>3. CASE \E q \in Pages : c = page'[q].form
        BY <1>6, <2>1, <2>3 DEF AllCopies
    <2>4. CASE \E d \in Drafts : c = intake'[d].copy
        BY <1>2, <2>1, <2>4 DEF AllCopies
    <2>5. CASE \E q \in Pages : \E i \in DOMAIN page'[q].queue : c = page'[q].queue[i].copy
        <3>1. PICK q \in Pages : \E i \in DOMAIN page'[q].queue : c = page'[q].queue[i].copy
            BY <2>5
        <3>2. page'[q].queue = page[q].queue
            BY <1>4, <3>1
        <3>3. PICK i \in DOMAIN page[q].queue : c = page[q].queue[i].copy
            BY <3>1, <3>2
        <3> QED
            BY <2>1, <3>3 DEF AllCopies
    <2>6. CASE \E v \in Windows : \E row \in CachedRows(v)' : c = row.copy
        BY <1>1, <1>7, <2>6, CopiesThereAre
    <2> QED
        BY <1>9, <2>2, <2>3, <2>4, <2>5, <2>6 DEF AllCopies, CopiesOf
<1>10. CopiesAreNamed'
    BY <1>1, <1>2, <1>9 DEF CopiesAreNamed
<1>11. IntakesAreSound'
    BY <1>1, <1>2 DEF IntakesAreSound
<1>12. CacheIsSound'
    <2>1. ASSUME NEW v \in Windows, NEW row \in CachedRows(v)'
          PROVE  intake'[row.copy.id].status # "none"
        BY <1>1, <1>2, <1>7 DEF CacheIsSound
    <2>2. ASSUME NEW q \in Pages, page'[q].phase = "done", NEW row \in CachedRows(WindowOf(q))'
          PROVE  row.copy.id # page'[q].form.id
        <3>1. page[q].phase = "done" /\ page'[q].form = page[q].form /\ WindowOf(q) \in Windows
            BY <1>6, <2>2, PurchaseClientAssumption
        <3> QED
            BY <1>1, <1>7, <3>1 DEF CacheIsSound
    <2> QED
        BY <2>1, <2>2 DEF CacheIsSound
<1>13. FilesAreSound'
    <2>1. \A m \in Media : files[m].by # NoPage => files[m].by \in Pages
        BY <1>1 DEF TypeOK, Files
    <2> QED
        BY <1>1, <1>2, <1>6, <2>1 DEF FilesAreSound
<1>14. \A q \in Pages : PageIsSound(q)'
    BY <1>4, <1>5
<1> QED
    BY <1>8, <1>10, <1>11, <1>12, <1>13, <1>14 DEF ClientIInv, PageIsSound

LEMMA CloseStep ==
    ASSUME ClientIInv, NEW p \in Pages, Close(p) \/ Crash(p) \/ LoadCompleted(p)
    PROVE  ClientIInv'
<1>1. TypeOK /\ WindowOf(p) \in Windows
    BY PurchaseClientAssumption DEF ClientIInv
<1>2. CASE Close(p)
    BY <1>1, <1>2, LocalCopies, BudgetStays, WindowEndSteps DEF Close
<1>3. CASE Crash(p)
    BY <1>1, <1>3, LocalCopies, BudgetStays, WindowEndSteps DEF Crash
<1>4. CASE LoadCompleted(p)
    <2>1. page[p].form # NoCopy /\ intake[page[p].form.id].status = "COMPLETED"
        BY <1>4 DEF LoadCompleted, LocalCompleted, MustAsk
    <2> QED
        BY <1>1, <1>4, <2>1, BudgetStays, CompletedSteps DEF LoadCompleted
<1> QED
    BY <1>2, <1>3, <1>4

LEMMA RecoverStep ==
    ASSUME ClientIInv, NEW p \in Pages, Recover(p), UNCHANGED server, stamp' = stamp,
           budget' \in Budgets, budget'.media = budget.media, budget'.stamps = budget.stamps,
           page[p].phase = "open" => /\ page[p].form # NoCopy
                                     /\ intake[page[p].form.id].status = "COMPLETED"
    PROVE  ClientIInv'
<1>1. TypeOK
    BY DEF ClientIInv
<1>2. CASE page[p].phase = "open"
    BY <1>2, CompletedSteps DEF Recover
<1>3. CASE page[p].phase # "open"
    <2>1. Set(p, Ended(p, "gone", "recovered")) /\ local' = local /\ UNCHANGED cache
        BY <1>3 DEF Recover
    <2>2. /\ local' \in [Browsers -> Copies \cup {NoCopy}]
          /\ \A b \in Browsers : local'[b] \in AllCopies \cup {local[b], NoCopy}
        BY <1>1, <2>1, LocalCopies
    <2> QED
        BY <2>1, <2>2, EndingSteps
<1> QED
    BY <1>2, <1>3

LEMMA OpenStep ==
    ASSUME ClientIInv, NEW p \in Pages, Open(p)
    PROVE  ClientIInv'
<1> DEFINE r == [page[p] EXCEPT !.phase = "loading", !.form = local[BrowserOf(p)]]
<1>1. TypeOK /\ QueueIsSound(p) /\ EndIsSound(p)
    BY DEF ClientIInv
<1>2. page[p] \in Wizards /\ page[p].phase = "new"
    BY <1>1, WizardColumns DEF Open
<1>3. /\ page[p].queue = <<>> /\ page[p].held = {} /\ page[p].step = "idle" /\ page[p].fin = "no"
      /\ page[p].outcome # "answer"
    BY <1>1, <1>2 DEF QueueIsSound, EndIsSound, Working, TypeOK
<1>4. BrowserOf(p) \in Browsers
    BY PurchaseClientAssumption
<1>5. local[BrowserOf(p)] \in AllCopies \cup {NoCopy} /\ local[BrowserOf(p)] \in Copies \cup {NoCopy}
    BY <1>1, <1>4, CopiesThereAre DEF TypeOK
<1>6. r \in Wizards
    BY <1>2, <1>5 DEF Wizards
<1>7. /\ r.phase = "loading" /\ r.form = local[BrowserOf(p)] /\ r.queue = <<>> /\ r.held = {}
      /\ r.step = "idle" /\ r.fin = "no" /\ r.outcome # "answer"
    BY <1>2, <1>3 DEF Wizards
<1>8. Set(p, r) /\ UNCHANGED <<server, local, cache, stamp>>
    BY DEF Open
<1> HIDE DEF r
<1>9. page'[p] = r
    BY <1>1, <1>8, PageIsSet
<1>10. PageIsSound(p)'
    BY <1>7, <1>9 DEF PageIsSound, QueueIsSound, SaveIsSound, PostIsSound, EndIsSound, Working
<1>11. /\ \A i \in DOMAIN r.queue : r.queue[i].copy \in AllCopies \cup {NoCopy}
       /\ r.form \in AllCopies \cup {NoCopy}
    BY <1>5, <1>7
<1>12. budget' \in Budgets /\ budget'.media = budget.media /\ budget'.stamps = budget.stamps
    <2>1. PICK rest : rest = Tail(budget.pages)
        OBVIOUS
    <2>2. budget \in Budgets /\ budget' = [budget EXCEPT !.pages = rest] /\ budget.pages # <<>>
        BY <1>1, <2>1 DEF Open, TypeOK
    <2>3. rest \in Seq(Pages)
        BY <2>1, <2>2 DEF Budgets
    <2> QED
        BY <2>2, <2>3 DEF Budgets
<1> QED
    BY <1>1, <1>2, <1>6, <1>7, <1>8, <1>10, <1>11, <1>12, LocalCopies, PageSteps

-----------------------------------------------------------------------------
(* Editing and autosaving *)

LEMMA Enqueued ==
    ASSUME NEW q \in Seq(Entries), NEW e \in Entries, NEW longer, longer = Append(q, e)
    PROVE  /\ longer \in Seq(Entries) /\ longer # <<>> /\ Len(longer) = Len(q) + 1
           /\ DOMAIN longer = 1 .. Len(q) + 1 /\ DOMAIN q = 1 .. Len(q) /\ Len(q) \in Nat
           /\ \A i \in DOMAIN q : longer[i] = q[i]
           /\ longer[Len(q) + 1] = e
           /\ Head(longer) = longer[1]
           /\ q # <<>> => Head(longer) = Head(q) /\ Head(q) = q[1] /\ 1 \in DOMAIN q
OBVIOUS

\* A save is queued, of the form or of the form before it is stamped anew.
LEMMA PersistIsSound ==
    ASSUME ClientIInv, NEW p \in Pages, page[p].phase = "open", UNCHANGED server,
           NEW kind \in {"auto", "flush"}, NEW r, page'[p] = r,
           r.phase = "open", r.step = page[p].step, r.saved = "saving",
           r.queue = Append(page[p].queue, [kind |-> kind, copy |-> page[p].form]),
           r.todo = page[p].todo, r.outcome = page[p].outcome,
           kind = "auto" => r.fin = page[p].fin,
           kind = "flush" => r.fin = "flush" /\ page[p].fin = "no",
           \/ r.form = page[p].form
           \/ /\ kind = "auto" /\ page[p].fin = "no" /\ r.timer = TRUE
              /\ r.form # NoCopy /\ r.form.id = page[p].form.id
    PROVE  PageIsSound(p)' /\ r.queue \in Seq(Entries) /\ r.queue # <<>>
           /\ \A i \in DOMAIN r.queue : r.queue[i].copy \in AllCopies
<1> DEFINE q == page[p].queue
           e == [kind |-> kind, copy |-> page[p].form]
<1>1. TypeOK /\ QueueIsSound(p) /\ SaveIsSound(p) /\ PostIsSound(p) /\ EndIsSound(p)
    BY DEF ClientIInv
<1>2. page[p].form # NoCopy /\ page[p].form \in Copies /\ q \in Seq(Entries) /\ e \in Entries
    BY <1>1, WizardColumns DEF TypeOK, Entries
<1>3. /\ r.queue \in Seq(Entries) /\ r.queue # <<>> /\ Len(r.queue) = Len(q) + 1
      /\ DOMAIN r.queue = 1 .. Len(q) + 1 /\ DOMAIN q = 1 .. Len(q) /\ Len(q) \in Nat
      /\ \A i \in DOMAIN q : r.queue[i] = q[i]
      /\ r.queue[Len(q) + 1] = e
      /\ Head(r.queue) = r.queue[1]
      /\ q # <<>> => Head(r.queue) = Head(q) /\ Head(q) = q[1] /\ 1 \in DOMAIN q
    <2>1. PICK before : before = q
        OBVIOUS
    <2>2. PICK entry : entry = e
        OBVIOUS
    <2>3. PICK longer : longer = r.queue
        OBVIOUS
    <2>4. longer = Append(before, entry)
        BY <2>1, <2>2, <2>3
    <2> HIDE DEF q, e
    <2>5. before \in Seq(Entries) /\ entry \in Entries
        BY <1>2, <2>1, <2>2
    <2>6. /\ longer \in Seq(Entries) /\ longer # <<>> /\ Len(longer) = Len(before) + 1
          /\ DOMAIN longer = 1 .. Len(before) + 1 /\ DOMAIN before = 1 .. Len(before)
          /\ Len(before) \in Nat
          /\ \A i \in DOMAIN before : longer[i] = before[i]
          /\ longer[Len(before) + 1] = entry
          /\ Head(longer) = longer[1]
          /\ before # <<>> =>
                Head(longer) = Head(before) /\ Head(before) = before[1] /\ 1 \in DOMAIN before
        BY <2>4, <2>5, Enqueued
    <2> QED
        BY <2>1, <2>2, <2>3, <2>6
<1>4. \A i \in DOMAIN q : q[i] \in Entries /\ q[i].copy \in AllCopies
    BY <1>1, CopiesThereAre
<1>5. page[p].form \in AllCopies
    BY <1>1, <1>2, CopiesThereAre
<1>6. page[p].step # "idle" => q # <<>>
    BY <1>1 DEF TypeOK
<1>7. e.kind = kind /\ e.copy = page[p].form
    OBVIOUS
<1> HIDE DEF e, q
<1>8. \A i \in DOMAIN r.queue : \/ i \in DOMAIN q /\ r.queue[i] = q[i] /\ i < Len(q) + 1
                                \/ i = Len(q) + 1 /\ r.queue[i] = e
    BY <1>3
<1>9. \A i \in DOMAIN q :
          /\ q[i].copy.id = page[p].form.id
          /\ q[i].kind = "flush" => page[p].fin = "flush"
          /\ q[i].kind = "final" => page[p].fin = "sync"
          /\ q[i].kind # "auto" =>
                /\ q[i].copy = page[p].form
                /\ \A j \in DOMAIN q : q[j].kind # "auto" => i = j
    BY <1>1 DEF QueueIsSound, q
<1>10. \A i \in DOMAIN q : q[i].kind \in {"auto", "flush", "final"}
    BY <1>4 DEF Entries
<1>11. QueueIsSound(p)'
    <2>1. r.form # NoCopy /\ r.form.id = page[p].form.id
        BY <1>2
    <2>2. ASSUME NEW i \in DOMAIN r.queue
          PROVE  /\ r.queue[i].copy.id = r.form.id
                 /\ r.queue[i].kind = "flush" => r.fin = "flush"
                 /\ r.queue[i].kind = "final" => r.fin = "sync"
                 /\ r.queue[i].kind # "auto" =>
                      /\ r.queue[i].copy = r.form
                      /\ \A j \in DOMAIN r.queue : r.queue[j].kind # "auto" => i = j
        <3>1. CASE kind = "auto"
            BY <1>7, <1>8, <1>9, <1>10, <2>1, <3>1
        <3>2. CASE kind = "flush"
            <4>1. \A j \in DOMAIN q : q[j].kind = "auto"
                BY <1>9, <1>10, <3>2
            <4> QED
                BY SMTT(60), ZenonT(60), <1>7, <1>8, <1>9, <2>1, <3>2, <4>1
        <3> QED
            BY <3>1, <3>2
    <2> QED
        BY <2>1, <2>2 DEF QueueIsSound, Working
<1>12. SaveIsSound(p)'
    <2>1. r.step = "answer" => Stored(p, Head(r.queue).copy)'
        <3>1. r.form.id = page[p].form.id
            BY <1>2
        <3>2. r.step = "answer" => Stored(p, Head(q).copy) /\ Head(r.queue) = Head(q)
            BY <1>1, <1>3, <1>6 DEF SaveIsSound, q
        <3> QED
            BY <3>1, <3>2 DEF Stored, server
    <2>2. ASSUME ~r.timer, NEW i \in DOMAIN r.queue, r.queue[i].kind # "final",
                 \A j \in DOMAIN r.queue : i < j => r.queue[j].kind = "final"
          PROVE  r.queue[i].copy = r.form
        <3>1. Len(q) + 1 \in DOMAIN r.queue /\ r.queue[Len(q) + 1].kind # "final"
            BY <1>3, <1>7
        <3>2. i = Len(q) + 1
            BY <1>3, <1>8, <2>2, <3>1
        <3> QED
            BY <1>3, <1>7, <2>2, <3>2
    <2> QED
        BY <2>1, <2>2 DEF SaveIsSound
<1>13. PostIsSound(p)'
    <2>1. r.form.id = page[p].form.id
        BY <1>2
    <2>2. /\ intake' = intake /\ purchase' = purchase /\ files' = files
          /\ DeletedElsewhere(p)' = DeletedElsewhere(p)
        BY DEF server, DeletedElsewhere
    <2>3. r.step = "answer" => Head(r.queue) = Head(q)
        BY <1>3, <1>6
    <2>4. r.fin \in {"upload", "variant", "review"} => r.fin = page[p].fin /\ r.form = page[p].form
        BY <1>3
    <2> QED
        BY <1>1, <2>1, <2>2, <2>3, <2>4 DEF PostIsSound, q
<1>14. EndIsSound(p)'
    BY <1>1 DEF EndIsSound
<1>15. \A i \in DOMAIN r.queue : r.queue[i].copy \in AllCopies
    BY <1>4, <1>5, <1>7, <1>8
<1> QED
    BY <1>3, <1>11, <1>12, <1>13, <1>14, <1>15 DEF PageIsSound

LEMMA AutosaveStep ==
    ASSUME ClientIInv, NEW p \in Pages, Autosave(p)
    PROVE  ClientIInv'
<1> DEFINE r == [Persisted(p, "auto") EXCEPT !.timer = FALSE]
<1>1. TypeOK
    BY DEF ClientIInv
<1>2. page[p] \in Wizards /\ page[p].phase = "open" /\ page[p].form # NoCopy
      /\ page[p].held \subseteq page[p].form.media
    BY <1>1, WizardColumns DEF Autosave, TypeOK
<1>3. /\ r.phase = "open" /\ r.step = page[p].step /\ r.saved = "saving"
      /\ r.queue = Append(page[p].queue, [kind |-> "auto", copy |-> page[p].form])
      /\ r.todo = page[p].todo /\ r.outcome = page[p].outcome /\ r.fin = page[p].fin
      /\ r.form = page[p].form /\ r.held = page[p].held
    BY <1>2 DEF Persisted, Enqueue, Wizards
<1>4. r.queue \in Seq(Entries) => r \in Wizards
    <2>1. r = [page[p] EXCEPT !.queue = r.queue, !.saved = "saving", !.timer = FALSE]
        BY <1>2 DEF Persisted, Enqueue, Wizards
    <2> HIDE DEF r
    <2> QED
        BY <1>2, <2>1 DEF Wizards
<1>5. Set(p, r) /\ SaveLocally(p) /\ UNCHANGED <<server, cache, stamp, budget>>
    BY DEF Autosave
<1> HIDE DEF r
<1>6. page'[p] = r /\ page[p].form \in AllCopies
    BY <1>1, <1>2, <1>5, PageIsSet, CopiesThereAre
<1>7. PageIsSound(p)' /\ r.queue \in Seq(Entries) /\ r.queue # <<>>
      /\ \A i \in DOMAIN r.queue : r.queue[i].copy \in AllCopies
    BY <1>2, <1>3, <1>5, <1>6, PersistIsSound
<1> QED
    BY <1>1, <1>2, <1>3, <1>4, <1>5, <1>6, <1>7, LocalCopies, BudgetStays, PageSteps

LEMMA FinalizeStep ==
    ASSUME ClientIInv, NEW p \in Pages, Finalize(p)
    PROVE  ClientIInv'
<1> DEFINE r == [Persisted(p, "flush") EXCEPT !.fin = "flush"]
<1>1. TypeOK
    BY DEF ClientIInv
<1>2. page[p] \in Wizards /\ page[p].phase = "open" /\ page[p].form # NoCopy
      /\ page[p].held \subseteq page[p].form.media /\ page[p].fin = "no"
    BY <1>1, WizardColumns DEF Finalize, TypeOK
<1>3. /\ r.phase = "open" /\ r.step = page[p].step /\ r.saved = "saving"
      /\ r.queue = Append(page[p].queue, [kind |-> "flush", copy |-> page[p].form])
      /\ r.todo = page[p].todo /\ r.outcome = page[p].outcome /\ r.fin = "flush"
      /\ r.form = page[p].form /\ r.held = page[p].held
    BY <1>2 DEF Persisted, Enqueue, Wizards
<1>4. r.queue \in Seq(Entries) => r \in Wizards
    <2>1. r = [page[p] EXCEPT !.queue = r.queue, !.saved = "saving", !.fin = "flush"]
        BY <1>2 DEF Persisted, Enqueue, Wizards
    <2> HIDE DEF r
    <2> QED
        BY <1>2, <2>1 DEF Wizards
<1>5. Set(p, r) /\ SaveLocally(p) /\ UNCHANGED <<server, cache, stamp>> /\ budget.submits > 0
      /\ budget' = [budget EXCEPT !.submits = @ - 1]
    BY DEF Finalize
<1> HIDE DEF r
<1>6. page'[p] = r /\ page[p].form \in AllCopies
    BY <1>1, <1>2, <1>5, PageIsSet, CopiesThereAre
<1>7. PageIsSound(p)' /\ r.queue \in Seq(Entries) /\ r.queue # <<>>
      /\ \A i \in DOMAIN r.queue : r.queue[i].copy \in AllCopies
    BY <1>2, <1>3, <1>5, <1>6, PersistIsSound
<1> QED
    BY <1>1, <1>2, <1>3, <1>4, <1>5, <1>6, <1>7, LocalCopies, BudgetStays, PageSteps

LEMMA LeaveStep ==
    ASSUME ClientIInv, NEW p \in Pages, Leave(p)
    PROVE  ClientIInv'
<1> DEFINE r == [page[p] EXCEPT !.phase = "left", !.timer = FALSE]
<1>1. TypeOK /\ QueueIsSound(p) /\ EndIsSound(p)
    BY DEF ClientIInv
<1>2. page[p] \in Wizards /\ page[p].phase = "open" /\ page[p].form # NoCopy /\ page[p].fin = "no"
    BY <1>1, WizardColumns DEF Leave, TypeOK
<1>3. /\ r \in Wizards /\ r.phase = "left" /\ r.step = page[p].step /\ r.queue = page[p].queue
      /\ r.fin = "no" /\ r.form = page[p].form /\ r.outcome = page[p].outcome
    BY <1>2 DEF Wizards
<1>4. Set(p, r) /\ UNCHANGED <<server, local, cache, stamp>> /\ Leaving
    BY DEF Leave
<1> HIDE DEF r
<1>5. page'[p] = r /\ page[p].form \in AllCopies
      /\ \A i \in DOMAIN page[p].queue : page[p].queue[i].copy \in AllCopies
    BY <1>1, <1>2, <1>4, PageIsSet, CopiesThereAre
<1>6. QueueIsSound(p)'
    BY <1>1, <1>2, <1>3, <1>5 DEF QueueIsSound, Working
<1>7. PageIsSound(p)'
    BY <1>1, <1>2, <1>3, <1>5, <1>6
        DEF PageIsSound, SaveIsSound, PostIsSound, EndIsSound
<1>8. page[p].step # "idle" => page[p].queue # <<>>
    BY <1>1 DEF TypeOK
<1> QED
    BY <1>1, <1>2, <1>3, <1>4, <1>5, <1>7, <1>8, LocalCopies, BudgetStays, PageSteps

\* An edit: a later copy of the form, with files that were picked for it.
LEMMA EditSteps ==
    ASSUME ClientIInv, NEW p \in Pages, Editable(p), stamp' = stamp + 1,
           NEW r, Set(p, r), r \in Wizards, NEW n \in Copies, r.form = n,
           n.at = stamp', n.id = page[p].form.id,
           n.media \subseteq page[p].form.media \cup (budget.media \ budget'.media),
           r.phase = "open", r.held \subseteq n.media, r.step # "idle" => r.queue # <<>>,
           \A i \in DOMAIN r.queue : r.queue[i].copy \in AllCopies,
           local' \in [Browsers -> Copies \cup {NoCopy}],
           \A b \in Browsers : local'[b] \in AllCopies \cup {local[b], NoCopy},
           UNCHANGED <<server, cache>>, budget' \in Budgets, budget'.media \subseteq budget.media,
           budget'.stamps = budget.stamps, PageIsSound(p)'
    PROVE  ClientIInv'
<1>1. TypeOK /\ IntakesAreSound
    BY DEF ClientIInv
<1>2. page'[p] = r /\ OnlyPage(p) /\ page' \in [Pages -> Wizards]
    BY <1>1, PageIsSet
<1>3. page[p].phase = "open" /\ page[p].form # NoCopy /\ page[p].form \in AllCopies
      /\ stamp < budget.stamps /\ stamp \in Nat /\ budget.stamps \in Nat
    BY <1>1, CopiesThereAre DEF Editable, TypeOK, Budgets
<1>4. stamp' \in 0 .. budget'.stamps
    BY <1>3
<1>5. Serves(p) /\ IntakesAreSound'
    BY <1>1, ServerStays
<1>6. CacheServed
    BY <1>2, <1>5, CacheStays
<1>7. TypeOK'
    <2>1. n # NoCopy
        BY PurchaseClientAssumption
    <2>2. /\ intake' \in [Drafts -> Intakes] /\ purchase' \in [Drafts -> Purchases]
          /\ files' \in [Media -> Files]
        BY <1>1 DEF TypeOK, server
    <2>3. ASSUME NEW q \in Pages
          PROVE  /\ page'[q].phase = "open" => /\ page'[q].form # NoCopy
                                               /\ page'[q].held \subseteq page'[q].form.media
                 /\ page'[q].step # "idle" => page'[q].queue # <<>>
        BY <1>1, <1>2, <2>1 DEF TypeOK, OnlyPage
    <2> QED
        BY <1>2, <1>4, <1>6, <2>2, <2>3 DEF TypeOK, CacheServed
<1>8. CopiesAreNamed'
    <2>1. stamp' \in Nat /\ stamp <= stamp' /\ stamp < stamp'
        BY <1>3
    <2>2. \A b \in Browsers : local'[b] \in AllCopies \cup {n, NoCopy}
        BY <1>1, CopiesThereAre
    <2>3. \A i \in DOMAIN page'[p].queue : page'[p].queue[i].copy \in AllCopies \cup {n, NoCopy}
        BY <1>2
    <2>4. page'[p].form \in AllCopies \cup {n, NoCopy}
        BY <1>2
    <2>5. budget.media \subseteq Media
        BY <1>1 DEF TypeOK, Budgets
    <2> QED
        BY <1>2, <1>3, <1>6, <2>1, <2>2, <2>3, <2>4, <2>5, CopyIsMade DEF CacheServed
<1>9. FilesAreSound'
    <2>1. /\ page'[p].phase \in {"new", "loading"} => page[p].phase \in {"new", "loading"}
          /\ page[p].phase \notin {"new", "loading"} =>
                page'[p].form.media \subseteq page[p].form.media \cup budget.media
        BY <1>2
    <2>2. \A m \in Media : files'[m] = files[m]
        BY DEF server
    <2> QED
        BY <1>2, <2>1, <2>2, FilesStay
<1> QED
    BY <1>2, <1>5, <1>6, <1>7, <1>8, <1>9, StepIsSound DEF CacheServed

\* Until the timer fires nothing is said of the edited form.
LEMMA EditIsSound ==
    ASSUME ClientIInv, NEW p \in Pages, Editable(p), UNCHANGED server,
           NEW r, page'[p] = r,
           r.phase = "open", r.fin = "no", r.timer = TRUE, r.saved = "saving",
           r.form # NoCopy, r.form.id = page[p].form.id,
           r.queue = page[p].queue, r.step = page[p].step, r.outcome = page[p].outcome
    PROVE  PageIsSound(p)'
<1>1. QueueIsSound(p) /\ SaveIsSound(p) /\ PostIsSound(p) /\ EndIsSound(p) /\ TypeOK
    BY DEF ClientIInv
<1>2. page[p].phase = "open" /\ page[p].fin = "no"
    BY DEF Editable
<1>3. \A i \in DOMAIN r.queue : r.queue[i].kind \in {"auto", "flush", "final"}
    BY <1>1, CopiesThereAre DEF Entries
<1>4. QueueIsSound(p)'
    BY <1>1, <1>2, <1>3 DEF QueueIsSound, Working
<1>5. SaveIsSound(p)'
    BY <1>1, <1>2 DEF SaveIsSound, Stored, server
<1>6. PostIsSound(p)'
    BY <1>1, <1>2 DEF PostIsSound, server
<1>7. EndIsSound(p)'
    BY <1>1, <1>2 DEF EndIsSound
<1> QED
    BY <1>4, <1>5, <1>6, <1>7 DEF PageIsSound

\* Edit, RemoveMedia and PickFile.
LEMMA EditedStep ==
    ASSUME ClientIInv, NEW p \in Pages, Editable(p), stamp' = stamp + 1,
           NEW media, media \subseteq Media,
           media \subseteq page[p].form.media \cup (budget.media \ budget'.media),
           NEW held, held \subseteq media,
           Set(p, [Edited(p, media) EXCEPT !.held = held]),
           UNCHANGED <<server, local, cache>>, budget' \in Budgets,
           budget'.media \subseteq budget.media, budget'.stamps = budget.stamps
    PROVE  ClientIInv'
<1> DEFINE n == [page[p].form EXCEPT !.at = stamp + 1, !.media = media]
           r == [Edited(p, media) EXCEPT !.held = held]
<1>1. TypeOK
    BY DEF ClientIInv
<1>2. /\ page[p] \in Wizards /\ page[p].phase = "open" /\ page[p].form # NoCopy
      /\ page[p].form \in Copies /\ page[p].fin = "no"
    BY <1>1, WizardColumns DEF Editable, TypeOK
<1>3. stamp + 1 \in Nat
    BY <1>1 DEF TypeOK, Budgets
<1>4. n \in Copies /\ n.id = page[p].form.id /\ n.at = stamp' /\ n.media = media
    BY <1>2, <1>3 DEF Copies
<1>5. r = [page[p] EXCEPT !.form = n, !.held = held, !.timer = TRUE, !.saved = "saving"]
    BY <1>2 DEF Edited, Wizards
<1>6. Set(p, r)
    OBVIOUS
<1> HIDE DEF n, r
<1>7. /\ r \in Wizards /\ r.phase = "open" /\ r.fin = "no" /\ r.timer = TRUE /\ r.saved = "saving"
      /\ r.form = n /\ r.held = held /\ r.queue = page[p].queue /\ r.step = page[p].step
      /\ r.outcome = page[p].outcome
    BY <1>2, <1>4, <1>5 DEF Wizards
<1>8. n # NoCopy
    BY <1>4, PurchaseClientAssumption
<1>9. page'[p] = r /\ \A i \in DOMAIN r.queue : r.queue[i].copy \in AllCopies
    BY <1>1, <1>6, <1>7, PageIsSet, CopiesThereAre
<1>10. PageIsSound(p)'
    BY <1>4, <1>7, <1>8, <1>9, EditIsSound
<1>11. r.step # "idle" => r.queue # <<>>
    BY <1>1, <1>7 DEF TypeOK
<1> QED
    BY <1>1, <1>4, <1>6, <1>7, <1>9, <1>10, <1>11, LocalCopies, EditSteps

LEMMA EditStep ==
    ASSUME ClientIInv, NEW p \in Pages, Edit(p) \/ \E m \in Media : RemoveMedia(p, m)
    PROVE  ClientIInv'
<1>1. TypeOK
    BY DEF ClientIInv
<1>2. PICK media : /\ media \subseteq page[p].form.media
                   /\ Editable(p) /\ stamp' = stamp + 1 /\ Set(p, Edited(p, media))
                   /\ UNCHANGED <<server, local, cache, budget>>
    BY DEF Edit, RemoveMedia
<1>3. /\ page[p] \in Wizards /\ page[p].form.media \subseteq Media
    BY <1>1, <1>2, WizardColumns DEF Editable, TypeOK
<1>4. PICK held : held = page[p].held \cap media
    OBVIOUS
<1>5. Edited(p, media) = [Edited(p, media) EXCEPT !.held = held]
    BY <1>3, <1>4 DEF Edited, Wizards
<1>6. Set(p, [Edited(p, media) EXCEPT !.held = held])
    BY <1>2, <1>5
<1>7. held \subseteq media /\ media \subseteq Media
      /\ media \subseteq page[p].form.media \cup (budget.media \ budget'.media)
    BY <1>2, <1>3, <1>4
<1> QED
    BY <1>1, <1>2, <1>6, <1>7, BudgetStays, EditedStep

LEMMA PickFileStep ==
    ASSUME ClientIInv, NEW p \in Pages, NEW m \in Media, PickFile(p, m)
    PROVE  ClientIInv'
<1>1. TypeOK
    BY DEF ClientIInv
<1>2. PICK replaced \in SUBSET (page[p].form.media \ page[p].held) :
          LET edited == Edited(p, (page[p].form.media \ replaced) \cup {m})
          IN Set(p, [edited EXCEPT !.held = @ \cup {m}])
    BY DEF PickFile
<1>3. PICK media : media = (page[p].form.media \ replaced) \cup {m}
    OBVIOUS
<1>4. page[p] \in Wizards /\ page[p].form.media \subseteq Media
    BY <1>1, WizardColumns DEF PickFile, Editable, TypeOK
<1>5. PICK held : held = (page[p].held \cap media) \cup {m}
    OBVIOUS
<1>6. [Edited(p, media) EXCEPT !.held = @ \cup {m}] = [Edited(p, media) EXCEPT !.held = held]
    BY <1>4, <1>5 DEF Edited, Wizards
<1>7. Set(p, [Edited(p, media) EXCEPT !.held = held])
    BY <1>2, <1>3, <1>6
<1>8. /\ budget' \in Budgets /\ budget'.media = budget.media \ {m} /\ m \in budget.media
      /\ budget'.stamps = budget.stamps
    BY <1>1 DEF PickFile, TypeOK, Budgets
<1>9. /\ held \subseteq media /\ media \subseteq Media
      /\ media \subseteq page[p].form.media \cup (budget.media \ budget'.media)
    BY <1>3, <1>4, <1>5, <1>8
<1>10. Editable(p) /\ stamp' = stamp + 1 /\ UNCHANGED <<server, local, cache>>
    BY DEF PickFile
<1> QED
    BY <1>7, <1>8, <1>9, <1>10, EditedStep

LEMMA GoNextStep ==
    ASSUME ClientIInv, NEW p \in Pages, GoNext(p)
    PROVE  ClientIInv'
<1> DEFINE n == [page[p].form EXCEPT !.at = stamp + 1]
           r == [Persisted(p, "auto") EXCEPT !.form.at = stamp + 1, !.timer = TRUE]
<1>1. TypeOK
    BY DEF ClientIInv
<1>2. /\ page[p] \in Wizards /\ page[p].phase = "open" /\ page[p].form # NoCopy
      /\ page[p].form \in Copies /\ page[p].fin = "no"
      /\ page[p].held \subseteq page[p].form.media
    BY <1>1, WizardColumns DEF GoNext, Editable, TypeOK
<1>3. stamp + 1 \in Nat
    BY <1>1 DEF TypeOK, Budgets
<1>4. stamp' = stamp + 1
    BY DEF GoNext
<1>5. n \in Copies /\ n.id = page[p].form.id /\ n.at = stamp' /\ n.media = page[p].form.media
    BY <1>2, <1>3, <1>4 DEF Copies
<1>6. /\ r.phase = "open" /\ r.step = page[p].step /\ r.saved = "saving"
      /\ r.queue = Append(page[p].queue, [kind |-> "auto", copy |-> page[p].form])
      /\ r.todo = page[p].todo /\ r.outcome = page[p].outcome /\ r.fin = page[p].fin
      /\ r.timer = TRUE /\ r.held = page[p].held
    BY <1>2 DEF Persisted, Enqueue, Wizards
<1>7. r = [page[p] EXCEPT !.form = n, !.queue = r.queue, !.saved = "saving", !.timer = TRUE]
    BY <1>2 DEF Persisted, Enqueue, Wizards
<1>8. Set(p, r) /\ SaveLocally(p) /\ UNCHANGED <<server, cache, budget>> /\ Editable(p)
    BY DEF GoNext
<1> HIDE DEF n, r
<1>9. r.form = n
    BY <1>2, <1>7 DEF Wizards
<1>10. page'[p] = r /\ page[p].form \in AllCopies /\ n # NoCopy
    BY <1>1, <1>2, <1>5, <1>8, PageIsSet, CopiesThereAre, PurchaseClientAssumption
<1>11. PageIsSound(p)' /\ r.queue \in Seq(Entries) /\ r.queue # <<>>
       /\ \A i \in DOMAIN r.queue : r.queue[i].copy \in AllCopies
    BY <1>2, <1>5, <1>6, <1>8, <1>9, <1>10, PersistIsSound
<1>12. r \in Wizards
    BY <1>2, <1>5, <1>7, <1>11 DEF Wizards
<1> QED
    BY <1>1, <1>2, <1>4, <1>5, <1>6, <1>8, <1>9, <1>10, <1>11, <1>12, LocalCopies, BudgetStays,
       EditSteps

-----------------------------------------------------------------------------
(* The wizard opens *)

LEMMA UnusedDrafts ==
    ASSUME ClientIInv, NEW d \in Drafts, Unused(d)
    PROVE  \A c \in AllCopies : c.id # d
<1>1. TypeOK /\ IntakesAreSound /\ CacheIsSound
    BY DEF ClientIInv
<1>2. ASSUME NEW c \in AllCopies PROVE c.id # d
    <2>1. c # NoCopy
        BY DEF AllCopies
    <2>2. CASE \E b \in Browsers : c = local[b]
        BY <2>1, <2>2 DEF Unused
    <2>3. CASE \E p \in Pages : c = page[p].form
        BY <2>1, <2>3 DEF Unused
    <2>4. CASE \E e \in Drafts : c = intake[e].copy
        BY <1>1, <2>1, <2>4 DEF Unused, IntakesAreSound
    <2>5. CASE \E p \in Pages : \E i \in DOMAIN page[p].queue : c = page[p].queue[i].copy
        <3>1. PICK p \in Pages : \E i \in DOMAIN page[p].queue : c = page[p].queue[i].copy
            BY <2>5
        <3>2. PICK i \in DOMAIN page[p].queue : c = page[p].queue[i].copy
            BY <3>1
        <3>3. QueueIsSound(p)
            BY DEF ClientIInv
        <3>4. page[p].queue # <<>>
            BY <3>2
        <3>5. c.id = page[p].form.id /\ page[p].form # NoCopy
            BY <3>2, <3>3, <3>4 DEF QueueIsSound
        <3> QED
            BY <3>5 DEF Unused
    <2>6. CASE \E w \in Windows : \E row \in CachedRows(w) : c = row.copy
        BY <1>1, <2>6 DEF Unused, CacheIsSound
    <2> QED
        BY <1>2, <2>2, <2>3, <2>4, <2>5, <2>6 DEF AllCopies, CopiesOf
<1> QED
    BY <1>2

\* What a window may show of a draft that was saved: nothing of those its pages completed.
KnownRow(w, r) ==
    /\ r \in Rows /\ r.copy \in AllCopies /\ intake[r.copy.id].status # "none"
    /\ \A q \in Pages : page[q].phase = "done" /\ WindowOf(q) = w => r.copy.id # page[q].form.id

LEMMA RowsAreKnown ==
    ASSUME ClientIInv, NEW w \in Windows, NEW r \in CachedRows(w) \cup RowsNow(Drafts)
    PROVE  KnownRow(w, r)
<1>1. TypeOK /\ IntakesAreSound /\ CacheIsSound /\ \A q \in Pages : EndIsSound(q)
    BY DEF ClientIInv
<1>2. CASE r \in CachedRows(w)
    BY <1>1, <1>2, CopiesThereAre DEF KnownRow, CacheIsSound
<1>3. CASE r \in RowsNow(Drafts)
    <2>1. PICK d \in Drafts : intake[d].status = "DRAFT" /\ r = Row(d)
        BY <1>3 DEF RowsNow
    <2>2. /\ r.copy = intake[d].copy /\ r.version = intake[d].version /\ r.refs = Uploaded(d)
          /\ r.ready = {m \in FilesOf(d) : files[m].ready}
          /\ r = [copy |-> r.copy, version |-> r.version, refs |-> r.refs, ready |-> r.ready]
        BY <2>1 DEF Row
    <2>3. r.copy # NoCopy /\ r.copy.id = d /\ r.copy \in AllCopies /\ r.copy \in Copies
        BY <1>1, <2>1, <2>2, CopiesThereAre DEF IntakesAreSound
    <2>4. r.version \in Nat
        BY <1>1, <2>2 DEF TypeOK, Intakes
    <2>5. r.refs \in [Media -> Nat]
        BY <1>1, <2>2 DEF TypeOK, Files, Uploaded
    <2>6. r.ready \subseteq Media
        BY <2>2 DEF FilesOf
    <2>7. r \in Rows
        BY <2>2, <2>3, <2>4, <2>5, <2>6 DEF Rows
    <2>8. \A q \in Pages : page[q].phase = "done" => page[q].form.id # d
        BY <1>1, <2>1 DEF EndIsSound
    <2> QED
        BY <2>1, <2>3, <2>7, <2>8 DEF KnownRow
<1> QED
    BY <1>2, <1>3

\* The wizard is mounted on a copy there is, or on a draft nobody has.
LEMMA DraftsToOpen ==
    ASSUME ClientIInv, NEW p \in Pages, NEW S, S \subseteq AllCopies,
           NEW draft \in InitialDrafts(S, page[p].form)
    PROVE  \/ draft \in AllCopies
           \/ \E d \in Drafts : Unused(d) /\ draft = [id |-> d, at |-> stamp, media |-> {}]
<1>1. page[p].form \in AllCopies \cup {NoCopy}
    BY CopiesThereAre DEF ClientIInv
<1>2. Candidates(S, page[p].form) \subseteq AllCopies
    BY <1>1 DEF Candidates
<1>3. draft \in Candidates(S, page[p].form) \/ draft \in FreshDraft
    BY DEF InitialDrafts
<1> QED
    BY <1>2, <1>3 DEF FreshDraft

\* What a wizard finds of the drafts, and what it is mounted on.
Loaded(p, list, exact, draft, row) ==
    LET w == WindowOf(p)
        rows == Available(list, exact)
    IN /\ \A r \in list \cup exact : KnownRow(w, r)
       /\ draft \in InitialDrafts(CopiesOf(rows), page[p].form)
       /\ row \in KnownAs(rows, draft.id)
       /\ list = ListAtHand(w)
       /\ Set(p, Mounted(p, draft, row))
       /\ listCache' = [listCache EXCEPT ![w] = list]
       /\ exactCache' = [exactCache EXCEPT ![w] = @ \cup exact]

LEMMA LoadFinds ==
    ASSUME ClientIInv, NEW p \in Pages, Load(p)
    PROVE  /\ \E list, exact, draft, row : Loaded(p, list, exact, draft, row)
           /\ budget' \in Budgets /\ budget'.media = budget.media /\ budget'.stamps = budget.stamps
<1>1. TypeOK /\ WindowOf(p) \in Windows
    BY PurchaseClientAssumption DEF ClientIInv
<1>2. PICK w : w = WindowOf(p)
    OBVIOUS
<1>3. PICK list : list = ListAtHand(w)
    OBVIOUS
<1>4. PICK fate \in Fates :
          LET exact == IF MustAsk(p) /\ Heard(fate) THEN RowsNow({page[p].form.id}) ELSE LookedUp(p)
              rows == Available(list, exact)
          IN /\ Charge(fate)
             /\ \E draft \in InitialDrafts(CopiesOf(rows), page[p].form) :
                   \E row \in KnownAs(rows, draft.id) : Set(p, Mounted(p, draft, row))
             /\ exactCache' = [exactCache EXCEPT ![w] = @ \cup exact]
    BY <1>2, <1>3 DEF Load
<1>5. PICK exact : exact = IF MustAsk(p) /\ Heard(fate) THEN RowsNow({page[p].form.id})
                           ELSE LookedUp(p)
    OBVIOUS
<1>6. PICK draft \in InitialDrafts(CopiesOf(Available(list, exact)), page[p].form) :
          \E row \in KnownAs(Available(list, exact), draft.id) : Set(p, Mounted(p, draft, row))
    BY <1>4, <1>5
<1>7. PICK row \in KnownAs(Available(list, exact), draft.id) : Set(p, Mounted(p, draft, row))
    BY <1>6
<1>8. exactCache' = [exactCache EXCEPT ![w] = @ \cup exact]
    BY <1>4, <1>5
<1>9. listCache' = [listCache EXCEPT ![w] = list]
    BY <1>2, <1>3 DEF Load
<1>10. list \subseteq CachedRows(w) \cup RowsNow(Drafts)
    BY <1>3 DEF ListAtHand, CachedRows
<1>11. exact \subseteq CachedRows(w) \cup RowsNow(Drafts)
    <2>1. CASE MustAsk(p)
        <3>1. page[p].form.id \in Drafts
            BY <1>1, <2>1, WizardColumns DEF MustAsk
        <3> QED
            BY <1>2, <1>5, <3>1 DEF RowsNow, LookedUp, CachedRows
    <2>2. CASE ~MustAsk(p)
        BY <1>2, <1>5, <2>2 DEF LookedUp, CachedRows
    <2> QED
        BY <2>1, <2>2
<1>12. \A r \in list \cup exact : KnownRow(w, r)
    BY <1>1, <1>2, <1>10, <1>11, RowsAreKnown
<1>13. Loaded(p, list, exact, draft, row)
    BY <1>2, <1>3, <1>6, <1>7, <1>8, <1>9, <1>12 DEF Loaded
<1> QED
    BY <1>1, <1>4, <1>13, Charged

\* What is cached when a wizard was mounted: what there was, and what it found.
LEMMA LoadCaches ==
    ASSUME ClientIInv, NEW p \in Pages, OnlyPage(p), UNCHANGED server, page'[p].phase # "done",
           NEW list, NEW exact, NEW draft, NEW row, Loaded(p, list, exact, draft, row)
    PROVE  CacheServed
<1>1. TypeOK /\ CacheIsSound /\ WindowOf(p) \in Windows
    BY PurchaseClientAssumption DEF ClientIInv
<1>2. PICK w : w = WindowOf(p)
    OBVIOUS
<1>3. /\ listCache' = [listCache EXCEPT ![w] = list]
      /\ exactCache' = [exactCache EXCEPT ![w] = exactCache[w] \cup exact]
      /\ \A r \in list \cup exact : KnownRow(w, r)
    BY <1>2 DEF Loaded
<1>4. list \subseteq Rows /\ exact \subseteq Rows
    BY <1>3 DEF KnownRow
<1>5. /\ listCache \in [Windows -> (SUBSET Rows) \cup {NoCopy}]
      /\ exactCache \in [Windows -> SUBSET Rows]
    BY <1>1 DEF TypeOK
<1>6. /\ listCache' \in [Windows -> (SUBSET Rows) \cup {NoCopy}]
      /\ exactCache' \in [Windows -> SUBSET Rows]
    BY <1>3, <1>4, <1>5
<1>7. ASSUME NEW v \in Windows, NEW r \in CachedRows(v)' PROVE KnownRow(v, r)
    <2>1. CASE v = w
        <3>1. r \in CachedRows(w) \cup list \cup exact
            BY <1>1, <1>2, <1>3, <1>5, <1>7, <2>1 DEF CachedRows
        <3> QED
            BY <1>1, <1>2, <1>3, <2>1, <3>1, RowsAreKnown
    <2>2. CASE v # w
        <3>1. r \in CachedRows(v)
            BY <1>3, <1>5, <1>7, <2>2 DEF CachedRows
        <3> QED
            BY <3>1, RowsAreKnown
    <2> QED
        BY <2>1, <2>2
<1>8. CachedCopiesStay
    BY <1>7 DEF CachedCopiesStay, KnownRow
<1>9. CacheIsSound'
    <2>1. intake' = intake
        BY DEF server
    <2>2. \A v \in Windows : \A r \in CachedRows(v)' : intake'[r.copy.id].status # "none"
        BY <1>7, <2>1 DEF KnownRow
    <2>3. ASSUME NEW q \in Pages, page'[q].phase = "done", NEW r \in CachedRows(WindowOf(q))'
          PROVE  r.copy.id # page'[q].form.id
        <3>1. page'[q] = page[q] /\ WindowOf(q) \in Windows
            BY <2>3, PurchaseClientAssumption DEF OnlyPage
        <3>2. KnownRow(WindowOf(q), r)
            BY <1>7, <3>1
        <3> QED
            BY <2>3, <3>1, <3>2 DEF KnownRow
    <2> QED
        BY <2>2, <2>3 DEF CacheIsSound
<1> QED
    BY <1>6, <1>8, <1>9 DEF CacheServed

LEMMA LoadStep ==
    ASSUME ClientIInv, NEW p \in Pages, Load(p)
    PROVE  ClientIInv'
<1>1. TypeOK /\ IntakesAreSound /\ QueueIsSound(p) /\ EndIsSound(p)
    BY DEF ClientIInv
<1>2. PICK list, exact, draft, row : Loaded(p, list, exact, draft, row)
    BY LoadFinds
<1>3. /\ page[p] \in Wizards /\ page[p].phase = "loading" /\ page[p].queue = <<>>
      /\ page[p].held = {} /\ page[p].step = "idle" /\ page[p].fin = "no"
      /\ page[p].outcome # "answer"
    BY <1>1, WizardColumns DEF Load, QueueIsSound, EndIsSound, Working, TypeOK
<1>4. \/ draft \in AllCopies
      \/ \E d \in Drafts : Unused(d) /\ draft = [id |-> d, at |-> stamp, media |-> {}]
    <2>1. PICK S : S = CopiesOf(Available(list, exact))
        OBVIOUS
    <2>2. S \subseteq AllCopies /\ draft \in InitialDrafts(S, page[p].form)
        BY <1>2, <2>1 DEF Loaded, KnownRow, CopiesOf, Available
    <2> QED
        BY <2>2, DraftsToOpen
<1>5. draft \in Copies
    <2>1. \A d \in Drafts : [id |-> d, at |-> stamp, media |-> {}] \in Copies
        BY <1>1 DEF TypeOK, Copies, Budgets
    <2> QED
        BY <1>1, <1>4, <2>1, CopiesThereAre
<1>6. PICK r : r = Mounted(p, draft, row)
    OBVIOUS
<1>7. r \in Wizards
    <2>1. row \in Rows \/ row = Unknown
        BY <1>2 DEF Loaded, KnownRow, KnownAs, Available
    <2>2. row.version \in Nat /\ row.refs \in [Media -> Nat] /\ row.ready \subseteq Media
        BY <2>1 DEF Rows, Unknown
    <2> QED
        BY <1>3, <1>5, <1>6, <2>2 DEF Mounted, Wizards
<1>8. /\ r.phase = "open" /\ r.form = draft /\ r.timer = TRUE /\ r.queue = <<>> /\ r.held = {}
      /\ r.step = "idle" /\ r.fin = "no" /\ r.outcome # "answer"
    BY <1>3, <1>6 DEF Mounted, Wizards
<1>9. Set(p, r) /\ UNCHANGED <<server, local, stamp>>
    BY <1>2, <1>6 DEF Load, Loaded
<1>10. budget' \in Budgets /\ budget'.media = budget.media /\ budget'.stamps = budget.stamps
    BY LoadFinds
<1>11. page'[p] = r /\ OnlyPage(p) /\ page' \in [Pages -> Wizards] /\ draft # NoCopy
    BY <1>1, <1>5, <1>7, <1>9, PageIsSet, PurchaseClientAssumption
<1>12. CacheServed
    BY <1>2, <1>8, <1>9, <1>11, LoadCaches
<1>13. PageIsSound(p)'
    BY <1>8, <1>11 DEF PageIsSound, QueueIsSound, SaveIsSound, PostIsSound, EndIsSound, Working
<1>14. CASE draft \in AllCopies
    BY <1>1, <1>3, <1>7, <1>8, <1>9, <1>10, <1>11, <1>13, <1>14, <1>12, LocalCopies, PageSteps
<1>15. CASE \E d \in Drafts : Unused(d) /\ draft = [id |-> d, at |-> stamp, media |-> {}]
    <2>1. PICK d \in Drafts : Unused(d) /\ draft = [id |-> d, at |-> stamp, media |-> {}]
        BY <1>15
    <2>2. draft.id = d /\ draft.at = stamp /\ draft.media = {}
        BY <2>1
    <2>3. \A c \in AllCopies : c.id # d
        BY <2>1, UnusedDrafts
    <2>4. stamp \in Nat /\ stamp' = stamp /\ stamp' \in 0 .. budget'.stamps
          /\ budget.media \subseteq Media
        BY <1>1, <1>9, <1>10 DEF TypeOK, Budgets
    <2>5. CopiesAreNamed'
        <3>1. /\ \A b \in Browsers : local'[b] \in AllCopies \cup {draft, NoCopy}
              /\ page'[p].form \in AllCopies \cup {draft, NoCopy}
              /\ \A i \in DOMAIN page'[p].queue :
                    page'[p].queue[i].copy \in AllCopies \cup {draft, NoCopy}
            BY <1>1, <1>8, <1>9, <1>11, CopiesThereAre
        <3>2. UNCHANGED server
            BY <1>9
        <3> QED
            BY <1>5, <1>10, <1>11, <1>12, <2>2, <2>3, <2>4, <3>1, <3>2, CopyIsMade DEF CacheServed
    <2>6. FilesAreSound'
        <3>1. /\ page'[p].phase \notin {"new", "loading"} /\ page[p].phase = "loading"
              /\ \A m \in Media : files'[m] = files[m]
            BY <1>3, <1>8, <1>9, <1>11 DEF server
        <3> QED
            BY <1>10, <1>11, <3>1, FilesStay
    <2>7. TypeOK'
        <3>1. /\ intake' \in [Drafts -> Intakes] /\ purchase' \in [Drafts -> Purchases]
              /\ files' \in [Media -> Files] /\ local' \in [Browsers -> Copies \cup {NoCopy}]
            BY <1>1, <1>9 DEF TypeOK, server
        <3>2. ASSUME NEW q \in Pages
              PROVE  /\ page'[q].phase = "open" => /\ page'[q].form # NoCopy
                                                   /\ page'[q].held \subseteq page'[q].form.media
                     /\ page'[q].step # "idle" => page'[q].queue # <<>>
            BY <1>1, <1>8, <1>11 DEF TypeOK, OnlyPage
        <3> QED
            BY <1>10, <1>11, <1>12, <2>4, <3>1, <3>2 DEF TypeOK, CacheServed
    <2>8. Serves(p) /\ IntakesAreSound'
        BY <1>1, <1>9, ServerStays
    <2> QED
        BY <1>11, <1>13, <1>12, <2>5, <2>6, <2>7, <2>8, StepIsSound DEF CacheServed
<1> QED
    BY <1>14, <1>15, <1>4

\* A list is fetched again.
LEMMA RefreshStep ==
    ASSUME ClientIInv, NEW w \in Windows, Refresh(w)
    PROVE  ClientIInv'
<1>1. TypeOK /\ CopiesAreNamed /\ IntakesAreSound /\ CacheIsSound /\ FilesAreSound
    BY DEF ClientIInv
<1>2. /\ intake' = intake /\ purchase' = purchase /\ files' = files /\ local' = local
      /\ page' = page /\ stamp' = stamp /\ exactCache' = exactCache
    BY DEF Refresh, server
<1>3. PICK list : list = RowsNow(Drafts)
    OBVIOUS
<1>4. listCache' = [listCache EXCEPT ![w] = list] /\ listCache[w] # NoCopy
    BY <1>3 DEF Refresh
<1>5. /\ listCache \in [Windows -> (SUBSET Rows) \cup {NoCopy}]
      /\ exactCache \in [Windows -> SUBSET Rows]
    BY <1>1 DEF TypeOK
<1>6. \A r \in list : KnownRow(w, r)
    BY <1>3, RowsAreKnown
<1>7. list \subseteq Rows
    BY <1>6 DEF KnownRow
<1>8. listCache' \in [Windows -> (SUBSET Rows) \cup {NoCopy}]
    BY <1>4, <1>5, <1>7
<1>9. budget' \in Budgets /\ budget'.media = budget.media /\ budget'.stamps = budget.stamps
    <2>1. PICK n : n = budget.refreshes - 1
        OBVIOUS
    <2>2. budget \in Budgets /\ n \in Nat /\ budget' = [budget EXCEPT !.refreshes = n]
        BY <1>1, <2>1 DEF Refresh, TypeOK, Budgets
    <2> QED
        BY <2>2 DEF Budgets
<1>10. ASSUME NEW v \in Windows, NEW r \in CachedRows(v)' PROVE KnownRow(v, r)
    <2>1. CASE v = w
        <3>1. r \in CachedRows(w) \cup list
            BY <1>2, <1>4, <1>5, <1>10, <2>1 DEF CachedRows
        <3> QED
            BY <1>6, <2>1, <3>1, RowsAreKnown
    <2>2. CASE v # w
        <3>1. r \in CachedRows(v)
            BY <1>2, <1>4, <1>5, <1>10, <2>2 DEF CachedRows
        <3> QED
            BY <3>1, RowsAreKnown
    <2> QED
        BY <2>1, <2>2
<1>11. TypeOK'
    BY <1>1, <1>2, <1>8, <1>9 DEF TypeOK
<1>12. ASSUME NEW c \in AllCopies' PROVE c \in AllCopies
    <2>1. CASE \E v \in Windows : \E r \in CachedRows(v)' : c = r.copy
        BY <1>10, <2>1 DEF KnownRow
    <2>2. CASE ~\E v \in Windows : \E r \in CachedRows(v)' : c = r.copy
        BY <1>2, <1>12, <2>2 DEF AllCopies, CopiesOf
    <2> QED
        BY <2>1, <2>2
<1>13. CopiesAreNamed'
    BY <1>1, <1>2, <1>9, <1>12 DEF CopiesAreNamed
<1>14. IntakesAreSound'
    BY <1>1, <1>2 DEF IntakesAreSound
<1>15. CacheIsSound'
    <2>1. \A q \in Pages : WindowOf(q) \in Windows
        BY PurchaseClientAssumption
    <2> QED
        BY <1>2, <1>10, <2>1 DEF CacheIsSound, KnownRow
<1>16. FilesAreSound'
    BY <1>1, <1>2, <1>9 DEF FilesAreSound
<1>17. ASSUME NEW q \in Pages PROVE PageIsSound(q)'
    <2>1. QueueIsSound(q) /\ SaveIsSound(q) /\ PostIsSound(q) /\ EndIsSound(q)
        BY DEF ClientIInv
    <2>2. DeletedElsewhere(q)' = DeletedElsewhere(q)
        BY <1>2 DEF DeletedElsewhere
    <2>3. QueueIsSound(q)' /\ SaveIsSound(q)'
        BY <1>2, <2>1 DEF QueueIsSound, Working, SaveIsSound, Stored
    <2>4. PostIsSound(q)' /\ EndIsSound(q)'
        BY <1>2, <2>1, <2>2 DEF PostIsSound, EndIsSound
    <2> QED
        BY <2>3, <2>4 DEF PageIsSound
<1> QED
    BY <1>11, <1>13, <1>14, <1>15, <1>16, <1>17 DEF ClientIInv, PageIsSound

-----------------------------------------------------------------------------
(* A save is answered *)

\* What the answer of a save makes of the page w, whose queue is q.
SettledAs(w, q, ok, r) ==
    /\ r \in Wizards /\ r.phase = w.phase /\ r.form = w.form /\ r.held = w.held
    /\ r.timer = w.timer /\ r.step = "idle" /\ r.outcome = w.outcome
    /\ q \in Seq(Entries) /\ Len(q) \in Nat \ {0} /\ DOMAIN q = 1 .. Len(q) /\ 1 \in DOMAIN q
    /\ Head(q) = q[1] /\ q[1].kind \in {"auto", "flush", "final"}
    /\ DOMAIN r.queue = 1 .. (IF q[1].kind = "flush" THEN Len(q) ELSE Len(q) - 1)
    /\ \A i \in 1 .. Len(q) - 1 : r.queue[i] = q[i + 1]
    /\ q[1].kind = "flush" => r.queue[Len(q)] = [kind |-> "final", copy |-> q[1].copy]
    /\ r.saved = IF q[1].kind # "final" /\ \A i \in 2 .. Len(q) : q[i].kind = "final"
                 THEN IF ok THEN "saved" ELSE "error" ELSE w.saved
    /\ q[1].kind = "auto" => r.fin = w.fin
    /\ q[1].kind = "flush" => r.fin = "sync"
    /\ q[1].kind = "final" => r.fin = IF ok THEN "upload" ELSE "no"
    /\ r.todo = IF q[1].kind = "final" THEN w.form.media ELSE w.todo

LEMMA SettledColumns ==
    ASSUME NEW w \in Wizards, w.form \in Copies, NEW ref \in Nat, NEW ok \in BOOLEAN, w.queue # <<>>,
           NEW r, r = Settled([w EXCEPT !.ref = ref], ok),
           NEW q, q = w.queue
    PROVE  SettledAs(w, q, ok, r)
<1>1. /\ q \in Seq(Entries) /\ Len(q) \in Nat \ {0} /\ DOMAIN q = 1 .. Len(q) /\ 1 \in DOMAIN q
      /\ Head(q) = q[1] /\ q[1] \in Entries
    BY DEF Wizards
<1>2. PICK rest : rest = Tail(q)
    OBVIOUS
<1>3. /\ rest \in Seq(Entries) /\ Len(rest) = Len(q) - 1 /\ DOMAIN rest = 1 .. Len(q) - 1
      /\ \A i \in 1 .. Len(q) - 1 : rest[i] = q[i + 1]
    BY <1>1, <1>2
<1>4. q[1].kind \in {"auto", "flush", "final"} /\ q[1].copy \in Copies
    BY <1>1 DEF Entries
<1>5. PICK last : last = [kind |-> "final", copy |-> q[1].copy]
    OBVIOUS
<1>6. last \in Entries
    BY <1>4, <1>5 DEF Entries
<1>7. PICK longer : longer = Append(rest, last)
    OBVIOUS
<1>8. /\ longer \in Seq(Entries) /\ DOMAIN longer = 1 .. Len(q)
      /\ \A i \in 1 .. Len(q) - 1 : longer[i] = q[i + 1]
      /\ longer[Len(q)] = last
    BY <1>1, <1>3, <1>6, <1>7
<1>9. PICK queue : queue = IF q[1].kind = "flush" THEN longer ELSE rest
    OBVIOUS
<1>10. PICK newest \in BOOLEAN :
           newest = (q[1].kind # "final" /\ \A i \in DOMAIN rest : rest[i].kind = "final")
    OBVIOUS
<1>11. PICK saved : saved = IF newest THEN IF ok THEN "saved" ELSE "error" ELSE w.saved
    OBVIOUS
<1>12. PICK fin : fin = IF q[1].kind = "auto" THEN w.fin ELSE NextStage(q[1].kind, ok)
    OBVIOUS
<1>13. PICK todo : todo = IF q[1].kind = "final" THEN w.form.media ELSE w.todo
    OBVIOUS
<1>14. /\ q[1].kind = "auto" => fin = w.fin
       /\ q[1].kind = "flush" => fin = "sync"
       /\ q[1].kind = "final" => fin = IF ok THEN "upload" ELSE "no"
    BY <1>12 DEF NextStage
<1>15. PICK v : v = [w EXCEPT !.ref = ref]
    OBVIOUS
<1>16. /\ v \in Wizards /\ v.queue = q /\ v.phase = w.phase /\ v.form = w.form /\ v.held = w.held
       /\ v.timer = w.timer /\ v.outcome = w.outcome /\ v.saved = w.saved /\ v.fin = w.fin
       /\ v.todo = w.todo
    BY <1>15 DEF Wizards
<1>17. r = [v EXCEPT !.step = "idle", !.queue = queue, !.saved = saved, !.fin = fin, !.todo = todo]
    <2>1. r = Settled(v, ok)
        BY <1>15
    <2>2. PICK e1 : e1 = IF Head(v.queue).kind = "flush"
                         THEN Append(Tail(v.queue), [kind |-> "final", copy |-> Head(v.queue).copy])
                         ELSE Tail(v.queue)
        OBVIOUS
    <2>3. PICK e2 : e2 = IF /\ Head(v.queue).kind # "final"
                            /\ \A i \in DOMAIN Tail(v.queue) : Tail(v.queue)[i].kind = "final"
                         THEN IF ok THEN "saved" ELSE "error" ELSE v.saved
        OBVIOUS
    <2>4. PICK e3 : e3 = IF Head(v.queue).kind = "auto" THEN v.fin
                         ELSE NextStage(Head(v.queue).kind, ok)
        OBVIOUS
    <2>5. PICK e4 : e4 = IF Head(v.queue).kind = "final" THEN v.form.media ELSE v.todo
        OBVIOUS
    <2>6. r = [v EXCEPT !.step = "idle", !.queue = e1, !.saved = e2, !.fin = e3, !.todo = e4]
        BY <2>1, <2>2, <2>3, <2>4, <2>5, <1>16 DEF Settled, Wizards
    <2>7. Head(v.queue) = q[1] /\ Tail(v.queue) = rest
        BY <1>1, <1>2, <1>16
    <2>8. e1 = queue
        BY <2>2, <2>7, <1>5, <1>7, <1>9
    <2>9. e2 = saved
        BY <2>3, <2>7, <1>10, <1>11, <1>16
    <2>10. e3 = fin
        BY <2>4, <2>7, <1>12, <1>16
    <2>11. e4 = todo
        BY <2>5, <2>7, <1>13, <1>16
    <2> QED
        BY <2>6, <2>8, <2>9, <2>10, <2>11
<1>18. queue \in Seq(Entries)
    BY <1>3, <1>8, <1>9
<1>19. saved \in {"saving", "saved", "error"}
    <2>1. w.saved \in {"saving", "saved", "error"}
        BY DEF Wizards
    <2> QED
        BY <1>11, <2>1
<1>20. fin \in {"no", "flush", "sync", "upload", "variant", "review", "lookup"}
    <2>1. w.fin \in {"no", "flush", "sync", "upload", "variant", "review", "lookup"}
        BY DEF Wizards
    <2> QED
        BY <1>4, <1>14, <2>1
<1>21. todo \subseteq Media
    BY <1>13 DEF Wizards, Copies
<1>22. v \in Wizards
    BY <1>16
<1>23. /\ r.phase = v.phase /\ r.form = v.form /\ r.held = v.held /\ r.timer = v.timer
       /\ r.step = "idle" /\ r.outcome = v.outcome /\ r.queue = queue /\ r.saved = saved
       /\ r.fin = fin /\ r.todo = todo
    BY ZenonT(30), <1>17, <1>22 DEF Wizards
<1>24. r \in Wizards
    <2>1. PICK v1 : v1 = [v EXCEPT !.step = "idle"]
        OBVIOUS
    <2>2. v1 \in Wizards
        BY <1>22, <2>1 DEF Wizards
    <2>3. PICK v2 : v2 = [v1 EXCEPT !.queue = queue]
        OBVIOUS
    <2>4. v2 \in Wizards
        BY <1>18, <2>2, <2>3 DEF Wizards
    <2>5. PICK v3 : v3 = [v2 EXCEPT !.saved = saved]
        OBVIOUS
    <2>6. v3 \in Wizards
        BY <1>19, <2>4, <2>5 DEF Wizards
    <2>7. PICK v4 : v4 = [v3 EXCEPT !.fin = fin]
        OBVIOUS
    <2>8. v4 \in Wizards
        BY <1>20, <2>6, <2>7 DEF Wizards
    <2>9. [v4 EXCEPT !.todo = todo] \in Wizards
        BY <1>21, <2>8 DEF Wizards
    <2>10. r = [v4 EXCEPT !.todo = todo]
        BY <1>17, <1>22, <2>1, <2>3, <2>5, <2>7 DEF Wizards
    <2> QED
        BY <2>9, <2>10
<1>25. r.saved = IF q[1].kind # "final" /\ \A i \in 2 .. Len(q) : q[i].kind = "final"
                 THEN IF ok THEN "saved" ELSE "error" ELSE w.saved
    <2>1. newest <=> q[1].kind # "final" /\ \A i \in 2 .. Len(q) : q[i].kind = "final"
        <3>1. ASSUME NEW i \in 2 .. Len(q), \A j \in DOMAIN rest : rest[j].kind = "final"
              PROVE  q[i].kind = "final"
            <4>1. i - 1 \in 1 .. Len(q) - 1 /\ (i - 1) + 1 = i
                BY <1>1
            <4> QED
                BY <1>3, <3>1, <4>1
        <3>2. ASSUME NEW i \in DOMAIN rest, \A j \in 2 .. Len(q) : q[j].kind = "final"
              PROVE  rest[i].kind = "final"
            <4>1. i + 1 \in 2 .. Len(q)
                BY <1>1, <1>3
            <4> QED
                BY <1>3, <3>2, <4>1
        <3> QED
            BY <1>10, <3>1, <3>2
    <2> QED
        BY <1>11, <1>23, <2>1
<1>26. /\ DOMAIN r.queue = 1 .. (IF q[1].kind = "flush" THEN Len(q) ELSE Len(q) - 1)
       /\ \A i \in 1 .. Len(q) - 1 : r.queue[i] = q[i + 1]
       /\ q[1].kind = "flush" => r.queue[Len(q)] = [kind |-> "final", copy |-> q[1].copy]
    BY ZenonT(30), <1>3, <1>5, <1>8, <1>9, <1>23
<1> QED
    BY <1>1, <1>4, <1>13, <1>14, <1>16, <1>23, <1>24, <1>25, <1>26 DEF SettledAs

\* The answer of a save: if it was stored, the draft is the saved copy or another page's.
LEMMA SettledIsSound ==
    ASSUME ClientIInv, NEW p \in Pages, Working(p), page[p].queue # <<>>,
           NEW ref \in Nat, NEW ok \in BOOLEAN, NEW r,
           r = Settled([page[p] EXCEPT !.ref = ref], ok), page'[p] = r,
           UNCHANGED <<purchase, files>>,
           NEW copy, copy = Head(page[p].queue).copy,
           page[p].phase = "open" /\ ok =>
               /\ Stored(p, copy)'
               /\ Head(page[p].queue).kind = "final" => purchase[page[p].form.id].by # p,
           \/ intake'[page[p].form.id].copy = Head(page[p].queue).copy
              /\ intake'[page[p].form.id].by = p
           \/ intake'[page[p].form.id].copy = intake[page[p].form.id].copy
              /\ intake'[page[p].form.id].by = intake[page[p].form.id].by,
           intake[page[p].form.id].status = "COMPLETED" =>
               intake'[page[p].form.id].status = "COMPLETED"
    PROVE  /\ r \in Wizards /\ r.phase = page[p].phase /\ r.form = page[p].form
           /\ r.held = page[p].held /\ r.step = "idle"
           /\ \A i \in DOMAIN r.queue : r.queue[i].copy \in AllCopies
           /\ PageIsSound(p)'
<1>1. TypeOK /\ QueueIsSound(p) /\ SaveIsSound(p) /\ PostIsSound(p) /\ EndIsSound(p)
    BY DEF ClientIInv
<1>2. PICK w : w = page[p]
    OBVIOUS
<1>3. PICK q : q = w.queue
    OBVIOUS
<1>4. w \in Wizards /\ w.form # NoCopy /\ w.form \in Copies /\ w.queue # <<>>
      /\ r = Settled([w EXCEPT !.ref = ref], ok)
    BY <1>1, <1>2, <1>3, WizardColumns DEF QueueIsSound
<1>5. /\ r \in Wizards /\ r.phase = w.phase /\ r.form = w.form /\ r.held = w.held
      /\ r.timer = w.timer /\ r.step = "idle" /\ r.outcome = w.outcome
      /\ q \in Seq(Entries) /\ Len(q) \in Nat \ {0} /\ DOMAIN q = 1 .. Len(q) /\ 1 \in DOMAIN q
      /\ Head(q) = q[1] /\ q[1].kind \in {"auto", "flush", "final"}
      /\ DOMAIN r.queue = 1 .. (IF q[1].kind = "flush" THEN Len(q) ELSE Len(q) - 1)
      /\ \A i \in 1 .. Len(q) - 1 : r.queue[i] = q[i + 1]
      /\ q[1].kind = "flush" => r.queue[Len(q)] = [kind |-> "final", copy |-> q[1].copy]
      /\ r.saved = IF q[1].kind # "final" /\ \A i \in 2 .. Len(q) : q[i].kind = "final"
                   THEN IF ok THEN "saved" ELSE "error" ELSE w.saved
      /\ q[1].kind = "auto" => r.fin = w.fin
      /\ q[1].kind = "flush" => r.fin = "sync"
      /\ q[1].kind = "final" => r.fin = IF ok THEN "upload" ELSE "no"
      /\ r.todo = IF q[1].kind = "final" THEN w.form.media ELSE w.todo
    <2>1. SettledAs(w, q, ok, r)
        BY <1>3, <1>4, SettledColumns
    <2> QED
        BY <2>1 DEF SettledAs
<1>16. /\ Len(q) \in Nat \ {0} /\ DOMAIN q = 1 .. Len(q) /\ 1 \in DOMAIN q
       /\ DOMAIN r.queue = 1 .. (IF q[1].kind = "flush" THEN Len(q) ELSE Len(q) - 1)
       /\ \A i \in 1 .. Len(q) - 1 : r.queue[i] = q[i + 1]
    BY <1>5
<1>17. r.phase = w.phase /\ r.form = w.form /\ r.timer = w.timer /\ r.step = "idle"
    BY <1>5
<1>6. \A i \in DOMAIN q :
          /\ q[i].copy.id = w.form.id
          /\ q[i].kind = "flush" => w.fin = "flush"
          /\ q[i].kind = "final" => w.fin = "sync"
          /\ q[i].kind # "auto" =>
                /\ q[i].copy = w.form
                /\ \A j \in DOMAIN q : q[j].kind # "auto" => i = j
    BY <1>1, <1>2, <1>3 DEF QueueIsSound
<1>7. \A i \in DOMAIN q : q[i].kind \in {"auto", "flush", "final"} /\ q[i].copy \in AllCopies
    BY <1>1, <1>2, <1>3, CopiesThereAre DEF Entries
<1>8. ASSUME NEW i \in DOMAIN r.queue
      PROVE  \/ /\ i \in 1 .. Len(q) - 1 /\ i + 1 \in DOMAIN q /\ r.queue[i] = q[i + 1]
                /\ (q[1].kind # "auto" => q[i + 1].kind = "auto")
             \/ /\ q[1].kind = "flush" /\ i = Len(q)
                /\ r.queue[i].kind = "final" /\ r.queue[i].copy = w.form
    <2>1. CASE i \in 1 .. Len(q) - 1
        <3>1. i + 1 \in DOMAIN q /\ i + 1 # 1 /\ r.queue[i] = q[i + 1]
            BY <1>16, <2>1
        <3>2. q[1].kind # "auto" => q[i + 1].kind = "auto"
            BY <1>5, <1>6, <3>1
        <3> QED
            BY <2>1, <3>1, <3>2
    <2>2. CASE i \notin 1 .. Len(q) - 1
        <3>1. q[1].kind = "flush" /\ i = Len(q)
            BY <1>5, <1>8, <2>2
        <3>2. q[1].copy = w.form
            BY <1>5, <1>6, <3>1
        <3> QED
            BY <1>5, <3>1, <3>2
    <2> QED
        BY <2>1, <2>2
<1>9. \A i \in DOMAIN r.queue : r.queue[i].copy \in AllCopies
    <2>1. w.form \in AllCopies
        BY <1>1, <1>2, <1>4, CopiesThereAre
    <2> QED
        BY <1>7, <1>8, <2>1
<1>10. w.phase \in {"open", "left"} /\ (w.phase # "open" => w.fin = "no")
    BY <1>1, <1>2 DEF Working, QueueIsSound
<1>11. QueueIsSound(p)'
    <2>1. r.phase # "open" => r.fin = "no"
        BY <1>5, <1>6, <1>10
    <2>2. ASSUME NEW i \in DOMAIN r.queue
          PROVE  /\ r.queue[i].copy.id = r.form.id
                 /\ r.queue[i].kind = "flush" => r.fin = "flush"
                 /\ r.queue[i].kind = "final" => r.fin = "sync"
                 /\ r.queue[i].kind # "auto" =>
                      /\ r.queue[i].copy = r.form
                      /\ \A j \in DOMAIN r.queue : r.queue[j].kind # "auto" => i = j
        <3>1. CASE q[1].kind = "auto"
            <4>1. i \in 1 .. Len(q) - 1 /\ i + 1 \in DOMAIN q /\ r.queue[i] = q[i + 1]
                BY <1>8, <3>1
            <4>2. ASSUME NEW j \in DOMAIN r.queue, r.queue[j].kind # "auto", r.queue[i].kind # "auto"
                  PROVE  i = j
                <5>1. j \in 1 .. Len(q) - 1 /\ j + 1 \in DOMAIN q /\ r.queue[j] = q[j + 1]
                    BY <1>8, <3>1
                <5>2. i + 1 = j + 1
                    BY <1>6, <4>1, <4>2, <5>1
                <5> QED
                    BY <4>1, <5>1, <5>2
            <4>3. r.fin = w.fin
                BY <1>5, <3>1
            <4> QED
                BY <1>6, <1>17, <4>1, <4>2, <4>3
        <3>2. CASE q[1].kind # "auto"
            <4>1. CASE i \in 1 .. Len(q) - 1 /\ r.queue[i].kind = "auto" /\ i + 1 \in DOMAIN q
                       /\ r.queue[i] = q[i + 1]
                BY SMTT(60), ZenonT(60), <1>5, <1>6, <4>1
            <4>2. CASE q[1].kind = "flush" /\ i = Len(q) /\ r.queue[i].kind = "final"
                       /\ r.queue[i].copy = w.form
                <5>1. \A j \in DOMAIN r.queue : r.queue[j].kind # "auto" => j = Len(q)
                    BY <1>8, <3>2
                <5> QED
                    BY <1>5, <4>2, <5>1
            <4> QED
                BY <1>8, <3>2, <4>1, <4>2
        <3> QED
            BY <3>1, <3>2
    <2> QED
        <3>1. Working(p)' /\ r.form # NoCopy
            BY <1>4, <1>10, <1>17 DEF Working
        <3> QED
            BY ZenonT(60), SMTT(60), <2>1, <2>2, <3>1 DEF QueueIsSound
<1>12. ASSUME w.phase = "open"
       PROVE  /\ w.saved = "saved" => /\ \A i \in DOMAIN q : q[i].kind = "final"
                                      /\ ~w.timer => Stored(p, w.form)
              /\ ~w.timer => \A i \in DOMAIN q :
                    q[i].kind # "final" /\ (\A j \in DOMAIN q : i < j => q[j].kind = "final")
                        => q[i].copy = w.form
    BY <1>1, <1>2, <1>3, <1>12 DEF SaveIsSound
<1>13. SaveIsSound(p)'
    <2> SUFFICES ASSUME w.phase = "open" PROVE SaveIsSound(p)'
        BY <1>5 DEF SaveIsSound
    <2>1. ASSUME ~w.timer, NEW i \in DOMAIN r.queue, r.queue[i].kind # "final",
                 \A j \in DOMAIN r.queue : i < j => r.queue[j].kind = "final"
          PROVE  r.queue[i].copy = w.form
        <3>1. i \in 1 .. Len(q) - 1 /\ i + 1 \in DOMAIN q /\ r.queue[i] = q[i + 1]
            BY <1>8, <2>1
        <3>2. ASSUME NEW j \in DOMAIN q, i + 1 < j PROVE q[j].kind = "final"
            <4>1. j - 1 \in DOMAIN r.queue /\ i < j - 1 /\ r.queue[j - 1] = q[(j - 1) + 1]
                  /\ (j - 1) + 1 = j
                <5>1. j - 1 \in 1 .. Len(q) - 1 /\ i < j - 1 /\ (j - 1) + 1 = j
                    BY <1>16, <3>1, <3>2
                <5> QED
                    BY SMTT(60), <1>16, <5>1
            <4> QED
                BY <2>1, <4>1
        <3> QED
            BY <1>12, <2>1, <3>1, <3>2
    <2>2. ASSUME r.saved = "saved"
          PROVE  /\ \A i \in DOMAIN r.queue : r.queue[i].kind = "final"
                 /\ ~w.timer => Stored(p, w.form)'
        <3>1. CASE q[1].kind # "final" /\ \A i \in 2 .. Len(q) : q[i].kind = "final"
            <4>1. ok
                BY <1>5, <2>2, <3>1
            <4>2. \A i \in DOMAIN r.queue : r.queue[i].kind = "final"
                BY SMTT(60), <1>5, <1>8, <3>1
            <4>3. ~w.timer => q[1].copy = w.form
                BY <1>5, <1>12, <3>1
            <4>4. Stored(p, copy)' /\ copy = q[1].copy
                BY <1>2, <1>3, <1>5, <4>1
            <4>5. ~w.timer => Stored(p, w.form)'
                BY <4>3, <4>4
            <4> QED
                BY <4>2, <4>5
        <3>2. CASE ~(q[1].kind # "final" /\ \A i \in 2 .. Len(q) : q[i].kind = "final")
            <4>1. w.saved = "saved"
                BY <1>5, <2>2, <3>2
            <4>2. /\ \A i \in DOMAIN q : q[i].kind = "final"
                  /\ ~w.timer => Stored(p, w.form)
                BY <1>12, <4>1
            <4>3. q[1].kind = "final" /\ q[1].copy = w.form
                BY <1>5, <1>6, <4>2
            <4>4. \A i \in DOMAIN r.queue : r.queue[i].kind = "final"
                BY <1>8, <4>2, <4>3
            <4>5. Head(page[p].queue).copy = w.form
                BY <1>2, <1>3, <1>5, <4>3
            <4>6. ~w.timer => Stored(p, w.form)'
                BY <1>2, <1>5, <4>2, <4>5 DEF Stored
            <4> QED
                BY <4>4, <4>6
        <3> QED
            BY <3>1, <3>2
    <2> QED
        BY <1>17, <2>1, <2>2 DEF SaveIsSound
<1>14. PostIsSound(p)'
    <2> SUFFICES ASSUME w.phase = "open" PROVE PostIsSound(p)'
        BY <1>5 DEF PostIsSound
    <2>1. /\ purchase' = purchase /\ files' = files
          /\ DeletedElsewhere(p)' = DeletedElsewhere(p)
        BY DEF DeletedElsewhere
    <2>2. CASE q[1].kind = "auto"
        BY SMTT(60), <1>1, <1>2, <1>5, <2>1, <2>2 DEF PostIsSound
    <2>3. CASE q[1].kind = "flush"
        BY <1>5, <2>3 DEF PostIsSound
    <2>4. CASE q[1].kind = "final"
        <3>1. ok => purchase'[w.form.id].by # p
            BY <1>2, <1>3, <1>5, <2>1, <2>4
        <3>2. r.todo = r.form.media /\ r.fin \in {"upload", "no"} /\ (r.fin = "upload" => ok)
            BY <1>5, <2>4
        <3> QED
            BY <1>5, <3>1, <3>2 DEF PostIsSound
    <2> QED
        BY <1>5, <2>2, <2>3, <2>4
<1>15. EndIsSound(p)'
    BY <1>1, <1>2, <1>5, <1>10 DEF EndIsSound
<1> QED
    BY <1>2, <1>5, <1>9, <1>11, <1>13, <1>14, <1>15 DEF PageIsSound

-----------------------------------------------------------------------------
(* Saving *)

\* What a save may do to the draft on the server.
IntakeSaved(d, copy, p) ==
    \/ intake' = intake
    \/ /\ intake[d].status = "none"
       /\ intake' = [intake EXCEPT ![d] = [status |-> "DRAFT", version |-> 1, copy |-> copy, by |-> p]]
    \/ intake[d].status = "DRAFT" /\ intake' = Patched(d, copy, p)

LEMMA IntakesSaved ==
    ASSUME TypeOK, IntakesAreSound, NEW p \in Pages, NEW d \in Drafts, NEW copy \in Copies,
           copy.id = d, IntakeSaved(d, copy, p), UNCHANGED <<purchase, files>>
    PROVE  /\ Serves(p) /\ IntakesAreSound' /\ intake' \in [Drafts -> Intakes]
           /\ \A e \in Drafts : intake'[e].copy \in {copy, intake[e].copy}
           /\ intake[d].status = "COMPLETED" => intake' = intake
           /\ \/ intake'[d].copy = copy /\ intake'[d].by = p /\ intake'[d].status = "DRAFT"
                 /\ intake[d].status # "COMPLETED"
              \/ intake' = intake
<1>1. intake \in [Drafts -> Intakes] /\ copy # NoCopy /\ p # NoPage
    BY PurchaseClientAssumption DEF TypeOK
<1>2. intake[d] \in Intakes
    BY <1>1
<1>3. CASE intake' = intake
    BY <1>1, <1>3 DEF Serves, IntakesAreSound, TypeOK, Files
<1>4. ASSUME NEW rec, rec \in Intakes, rec.copy = copy, rec.by = p, rec.status = "DRAFT",
             intake[d].status \in {"none", "DRAFT"}, intake' = [intake EXCEPT ![d] = rec]
      PROVE  /\ Serves(p) /\ IntakesAreSound' /\ intake' \in [Drafts -> Intakes]
             /\ \A e \in Drafts : intake'[e].copy \in {copy, intake[e].copy}
             /\ intake'[d].copy = copy /\ intake'[d].by = p /\ intake'[d].status = "DRAFT"
             /\ intake[d].status # "COMPLETED"
    <2>1. intake'[d] = rec /\ intake' \in [Drafts -> Intakes]
          /\ \A e \in Drafts : e # d => intake'[e] = intake[e]
        BY <1>1, <1>4
    <2>2. Serves(p)
        BY <1>1, <1>4, <2>1 DEF Serves, TypeOK, Files
    <2>3. IntakesAreSound'
        BY <1>1, <1>4, <2>1 DEF IntakesAreSound
    <2> QED
        BY <1>4, <2>1, <2>2, <2>3
<1>5. CASE /\ intake[d].status = "none"
           /\ intake' = [intake EXCEPT ![d] = [status |-> "DRAFT", version |-> 1, copy |-> copy,
                                              by |-> p]]
    <2>1. PICK rec : rec = [status |-> "DRAFT", version |-> 1, copy |-> copy, by |-> p]
        OBVIOUS
    <2>2. rec \in Intakes /\ rec.copy = copy /\ rec.by = p /\ rec.status = "DRAFT"
        BY <2>1 DEF Intakes
    <2>3. intake' = [intake EXCEPT ![d] = rec]
        BY <1>5, <2>1
    <2> QED
        BY <1>4, <1>5, <2>2, <2>3
<1>6. CASE intake[d].status = "DRAFT" /\ intake' = Patched(d, copy, p)
    <2>1. PICK rec : rec = [intake[d] EXCEPT !.version = @ + 1, !.copy = copy, !.by = p]
        OBVIOUS
    <2>2. rec \in Intakes /\ rec.copy = copy /\ rec.by = p /\ rec.status = "DRAFT"
        <3>1. intake[d].version + 1 \in Nat /\ copy \in Copies \cup {NoCopy} /\ p \in Pages \cup {NoPage}
            BY <1>2 DEF Intakes
        <3>2. PICK version \in Nat : version = intake[d].version + 1
            BY <3>1
        <3>3. rec = [intake[d] EXCEPT !.version = version, !.copy = copy, !.by = p]
            BY <2>1, <3>2
        <3> QED
            BY <1>2, <1>6, <3>1, <3>3 DEF Intakes
    <2>3. intake' = [intake EXCEPT ![d] = rec]
        BY <1>1, <1>2, <1>6, <2>1 DEF Patched, Intakes
    <2> QED
        BY <1>4, <1>6, <2>2, <2>3
<1> QED
    BY <1>3, <1>5, <1>6 DEF IntakeSaved

\* The save at the head of the queue.
LEMMA SavingColumns ==
    ASSUME ClientIInv, NEW p \in Pages, Working(p), page[p].queue # <<>>
    PROVE  /\ page[p] \in Wizards /\ page[p].form # NoCopy /\ page[p].form.id \in Drafts
           /\ Head(page[p].queue).copy \in Copies /\ Head(page[p].queue).copy \in AllCopies
           /\ Head(page[p].queue).copy.id = page[p].form.id
           /\ Head(page[p].queue) = page[p].queue[1] /\ 1 \in DOMAIN page[p].queue
           /\ page[p].phase \notin {"new", "loading"}
<1>1. TypeOK /\ QueueIsSound(p)
    BY DEF ClientIInv
<1>2. page[p].queue \in Seq(Entries) /\ page[p] \in Wizards
    BY <1>1, WizardColumns
<1>3. Head(page[p].queue) = page[p].queue[1] /\ 1 \in DOMAIN page[p].queue
    BY <1>2
<1>4. page[p].form # NoCopy /\ page[p].form.id \in Drafts
    BY <1>1, WizardColumns DEF QueueIsSound
<1>5. page[p].queue[1].copy \in AllCopies /\ page[p].queue[1].copy \in Copies
    BY <1>1, <1>3, CopiesThereAre
<1>6. page[p].queue[1].copy.id = page[p].form.id
    BY <1>1, <1>3 DEF QueueIsSound
<1> QED
    BY <1>2, <1>3, <1>4, <1>5, <1>6 DEF Working

LEMMA SaveSteps ==
    ASSUME ClientIInv, NEW p \in Pages, Working(p), page[p].queue # <<>>,
           NEW r, Set(p, r), r \in Wizards, r.phase = page[p].phase, r.form = page[p].form,
           r.held = page[p].held, r.step # "idle" => r.queue # <<>>,
           \A i \in DOMAIN r.queue : r.queue[i].copy \in AllCopies,
           UNCHANGED <<purchase, files, local, cache, stamp>>,
           budget' \in Budgets, budget'.media = budget.media, budget'.stamps = budget.stamps,
           IntakeSaved(page[p].form.id, Head(page[p].queue).copy, p),
           PageIsSound(p)'
    PROVE  ClientIInv'
<1>1. TypeOK /\ IntakesAreSound
    BY DEF ClientIInv
<1>2. PICK copy : copy = Head(page[p].queue).copy
    OBVIOUS
<1>3. PICK d : d = page[p].form.id
    OBVIOUS
<1>4. d \in Drafts /\ copy \in Copies /\ copy \in AllCopies /\ copy.id = d
      /\ page[p].form # NoCopy /\ page[p].phase \notin {"new", "loading"}
    BY <1>2, <1>3, SavingColumns
<1>5. IntakeSaved(d, copy, p)
    BY <1>2, <1>3
<1>6. /\ Serves(p) /\ IntakesAreSound' /\ intake' \in [Drafts -> Intakes]
      /\ \A e \in Drafts : intake'[e].copy \in {copy, intake[e].copy}
    BY <1>1, <1>4, <1>5, IntakesSaved
<1>7. page[p].form \in AllCopies
      /\ (page[p].phase = "open" => page[p].held \subseteq page[p].form.media)
    BY <1>1, <1>4, CopiesThereAre DEF TypeOK
<1>8. /\ purchase' \in [Drafts -> Purchases] /\ files' \in [Media -> Files]
      /\ \A m \in Media : files'[m] = files[m]
      /\ \A e \in Drafts : intake'[e].copy \in AllCopies \cup {intake[e].copy, NoCopy}
    BY <1>1, <1>4, <1>6 DEF TypeOK
<1>9. r.phase # "done" /\ UNCHANGED cache
    BY DEF Working
<1> QED
    BY <1>1, <1>4, <1>6, <1>7, <1>8, <1>9, LocalCopies, StepWithoutCopies

\* A request of the save was sent, or its answer read; the save goes on.
LEMMA GoesOnSoundly ==
    ASSUME ClientIInv, NEW p \in Pages, Working(p), page[p].queue # <<>>,
           NEW ref \in Nat,
           NEW step \in {"carry", "answer", "conflict", "lost", "refetch", "repatch"},
           NEW r, r = [page[p] EXCEPT !.ref = ref, !.step = step], page'[p] = r,
           UNCHANGED <<purchase, files>>,
           NEW copy, copy = Head(page[p].queue).copy,
           IntakeSaved(page[p].form.id, copy, p),
           step = "answer" => Stored(p, copy)' /\ purchase[page[p].form.id].by # p
    PROVE  /\ r \in Wizards /\ r.phase = page[p].phase /\ r.form = page[p].form
           /\ r.held = page[p].held /\ (r.step # "idle" => r.queue # <<>>)
           /\ \A i \in DOMAIN r.queue : r.queue[i].copy \in AllCopies
           /\ PageIsSound(p)'
<1>1. TypeOK /\ IntakesAreSound /\ QueueIsSound(p) /\ SaveIsSound(p) /\ PostIsSound(p)
      /\ EndIsSound(p)
    BY DEF ClientIInv
<1>2. PICK d : d = page[p].form.id
    OBVIOUS
<1>3. PICK q : q = page[p].queue
    OBVIOUS
<1>4. /\ page[p] \in Wizards /\ page[p].form # NoCopy /\ d \in Drafts
      /\ copy \in Copies /\ copy.id = d /\ Head(q) = q[1] /\ 1 \in DOMAIN q /\ copy = Head(q).copy
    BY <1>2, <1>3, SavingColumns
<1>5. \/ intake'[d].copy = copy /\ intake'[d].by = p /\ intake[d].status # "COMPLETED"
      \/ intake' = intake
    BY <1>1, <1>2, <1>4, IntakesSaved
<1>6. /\ r \in Wizards /\ r.phase = page[p].phase /\ r.form = page[p].form /\ r.held = page[p].held
      /\ r.timer = page[p].timer /\ r.queue = q /\ r.saved = page[p].saved /\ r.fin = page[p].fin
      /\ r.todo = page[p].todo /\ r.outcome = page[p].outcome /\ r.step = step
    BY ZenonT(30), <1>3, <1>4 DEF Wizards
<1>7. \A i \in DOMAIN r.queue : r.queue[i].copy \in AllCopies
    BY <1>1, <1>3, <1>6, CopiesThereAre
<1>8. QueueIsSound(p)'
    BY SMTT(30), <1>1, <1>3, <1>6 DEF QueueIsSound, Working
<1>9. SaveIsSound(p)'
    <2> SUFFICES ASSUME page[p].phase = "open" PROVE SaveIsSound(p)'
        BY <1>6 DEF SaveIsSound
    <2>1. r.step = "answer" => Stored(p, Head(r.queue).copy)'
        BY <1>4, <1>6 DEF Stored
    <2>2. ~r.timer => \A i \in DOMAIN q :
              q[i].kind # "final" /\ (\A j \in DOMAIN q : i < j => q[j].kind = "final")
                  => q[i].copy = r.form
        BY <1>1, <1>3, <1>6 DEF SaveIsSound
    <2>3. ASSUME r.saved = "saved", ~r.timer
          PROVE  Stored(p, r.form)'
        <3>1. Stored(p, r.form) /\ \A i \in DOMAIN q : q[i].kind = "final"
            BY <1>1, <1>3, <1>6, <2>3 DEF SaveIsSound
        <3>2. q[1].kind = "final" /\ 1 \in DOMAIN q
            BY <1>4, <3>1
        <3>3. copy = r.form
            BY <1>1, <1>3, <1>4, <1>6, <3>2 DEF QueueIsSound
        <3> QED
            BY <1>2, <1>5, <1>6, <3>1, <3>3 DEF Stored
    <2>4. r.saved = "saved" => \A i \in DOMAIN q : q[i].kind = "final"
        BY <1>1, <1>3, <1>6 DEF SaveIsSound
    <2> QED
        BY <1>6, <2>1, <2>2, <2>3, <2>4 DEF SaveIsSound
<1>10. PostIsSound(p)'
    <2>1. /\ purchase' = purchase /\ files' = files
          /\ DeletedElsewhere(p)' = DeletedElsewhere(p)
        BY DEF DeletedElsewhere
    <2>2. intake'[d].status # "COMPLETED" => intake[d].status # "COMPLETED"
        BY <1>5
    <2> QED
        BY <1>1, <1>2, <1>3, <1>6, <2>1, <2>2 DEF PostIsSound
<1>11. EndIsSound(p)'
    <2>1. page[p].phase \in {"open", "left"}
        BY DEF Working
    <2> QED
        BY <1>1, <1>6, <2>1 DEF EndIsSound
<1>12. r.queue # <<>>
    BY <1>3, <1>6
<1> QED
    BY <1>6, <1>7, <1>8, <1>9, <1>10, <1>11, <1>12 DEF PageIsSound

\* The save is answered, or given up.
LEMMA SettlingSteps ==
    ASSUME ClientIInv, NEW p \in Pages, Working(p), page[p].queue # <<>>,
           NEW ref \in Nat, NEW ok \in BOOLEAN,
           Set(p, Settled([page[p] EXCEPT !.ref = ref], ok)),
           UNCHANGED <<purchase, files, local, cache, stamp>>,
           budget' \in Budgets, budget'.media = budget.media, budget'.stamps = budget.stamps,
           NEW copy, copy = Head(page[p].queue).copy, IntakeSaved(page[p].form.id, copy, p),
           page[p].phase = "open" /\ ok =>
               /\ intake'[page[p].form.id].copy = copy \/ intake'[page[p].form.id].by # p
               /\ Head(page[p].queue).kind = "final" => purchase[page[p].form.id].by # p
    PROVE  ClientIInv'
<1>1. TypeOK /\ IntakesAreSound
    BY DEF ClientIInv
<1>2. PICK r : r = Settled([page[p] EXCEPT !.ref = ref], ok)
    OBVIOUS
<1>3. PICK d : d = page[p].form.id
    OBVIOUS
<1>4. d \in Drafts /\ copy \in Copies /\ copy.id = d /\ page[p].form # NoCopy /\ page[p] \in Wizards
    BY <1>3, SavingColumns
<1>5. /\ intake[d].status = "COMPLETED" => intake' = intake
      /\ \/ intake'[d].copy = copy /\ intake'[d].by = p
         \/ intake' = intake
    BY <1>1, <1>3, <1>4, IntakesSaved
<1>6. Set(p, r)
    BY <1>2
<1>7. page'[p] = r
    BY <1>1, <1>6, PageIsSet
<1>8. page'[p].form = page[p].form
    <2>1. PICK w : w = page[p]
        OBVIOUS
    <2>2. w \in Wizards /\ r = Settled([w EXCEPT !.ref = ref], ok)
        BY <1>2, <1>4, <2>1
    <2>3. PICK q : q = w.queue
        OBVIOUS
    <2>4. w.form \in Copies /\ w.queue # <<>>
        BY <1>4, <2>1 DEF Wizards
    <2>5. SettledAs(w, q, ok, r)
        BY <2>2, <2>3, <2>4, SettledColumns
    <2> QED
        BY <1>7, <2>1, <2>5 DEF SettledAs
<1>9. page[p].phase = "open" /\ ok => Stored(p, copy)'
    BY <1>3, <1>8 DEF Stored
<1>10. /\ r \in Wizards /\ r.phase = page[p].phase /\ r.form = page[p].form
       /\ r.held = page[p].held /\ r.step = "idle"
       /\ \A i \in DOMAIN r.queue : r.queue[i].copy \in AllCopies
       /\ PageIsSound(p)'
    BY ZenonT(60), <1>2, <1>3, <1>5, <1>7, <1>9, SettledIsSound
<1>11. IntakeSaved(page[p].form.id, Head(page[p].queue).copy, p)
    OBVIOUS
<1> QED
    BY <1>6, <1>10, <1>11, SaveSteps

LEMMA GoingOnSteps ==
    ASSUME ClientIInv, NEW p \in Pages, Working(p), page[p].queue # <<>>,
           NEW ref \in Nat,
           NEW step \in {"carry", "answer", "conflict", "lost", "refetch", "repatch"},
           Set(p, [page[p] EXCEPT !.ref = ref, !.step = step]),
           UNCHANGED <<purchase, files, local, cache, stamp>>,
           budget' \in Budgets, budget'.media = budget.media, budget'.stamps = budget.stamps,
           NEW copy, copy = Head(page[p].queue).copy, IntakeSaved(page[p].form.id, copy, p),
           step = "answer" => /\ intake'[page[p].form.id].copy = copy
                              /\ purchase[page[p].form.id].by # p
    PROVE  ClientIInv'
<1>1. TypeOK
    BY DEF ClientIInv
<1>2. PICK r : r = [page[p] EXCEPT !.ref = ref, !.step = step]
    OBVIOUS
<1>3. page[p] \in Wizards
    BY <1>1, WizardColumns
<1>4. Set(p, r)
    BY <1>2
<1>5. page'[p] = r /\ r.form = page[p].form
    BY <1>1, <1>2, <1>3, <1>4, PageIsSet DEF Wizards
<1>6. step = "answer" => Stored(p, copy)' /\ purchase[page[p].form.id].by # p
    BY <1>5 DEF Stored
<1>7. /\ r \in Wizards /\ r.phase = page[p].phase /\ r.form = page[p].form
      /\ r.held = page[p].held /\ (r.step # "idle" => r.queue # <<>>)
      /\ \A i \in DOMAIN r.queue : r.queue[i].copy \in AllCopies
      /\ PageIsSound(p)'
    BY ZenonT(30), <1>2, <1>5, <1>6, GoesOnSoundly
<1>8. IntakeSaved(page[p].form.id, Head(page[p].queue).copy, p)
    OBVIOUS
<1> QED
    BY <1>4, <1>7, <1>8, SaveSteps

LEMMA SameRef ==
    ASSUME NEW w \in Wizards, NEW step, NEW ok
    PROVE  /\ w.ref \in Nat /\ [w EXCEPT !.ref = w.ref, !.step = step] = [w EXCEPT !.step = step]
           /\ Settled([w EXCEPT !.ref = w.ref], ok) = Settled(w, ok)
<1>1. [w EXCEPT !.ref = w.ref] = w /\ w.ref \in Nat
    BY DEF Wizards
<1>2. [w EXCEPT !.ref = w.ref, !.step = step] = [w EXCEPT !.step = step]
    BY DEF Wizards
<1> QED
    BY <1>1, <1>2

\* The draft a save is about is not the page's purchase as long as it is not completed.
LEMMA NotYetPurchased ==
    ASSUME IntakesAreSound, NEW p \in Pages, NEW d \in Drafts, intake[d].status # "COMPLETED"
    PROVE  purchase[d].by # p
BY PurchaseClientAssumption DEF IntakesAreSound

LEMMA PatchStep ==
    ASSUME ClientIInv, NEW p \in Pages, NEW step \in {"idle", "carry", "repatch"}, Patch(p, step)
    PROVE  ClientIInv'
<1>1. TypeOK /\ IntakesAreSound
    BY DEF ClientIInv
<1>2. PICK d : d = Head(page[p].queue).copy.id
    OBVIOUS
<1>3. PICK copy : copy = Head(page[p].queue).copy
    OBVIOUS
<1>4. Working(p) /\ page[p].queue # <<>>
    BY DEF Patch, Saving
<1>5. /\ page[p] \in Wizards /\ d = page[p].form.id /\ d \in Drafts
    BY <1>2, <1>4, SavingColumns
<1>6. UNCHANGED <<purchase, files, local, cache, stamp>>
    BY DEF Patch
<1>7. PICK fate \in Fates : LET done == Sent(fate) /\ Accepts(d, page[p].ref) IN
          /\ Charge(fate)
          /\ intake' = IF done THEN Patched(d, copy, p) ELSE intake
          /\ Set(p, IF done /\ Heard(fate) THEN [page[p] EXCEPT !.step = "answer"]
                    ELSE Unsaved(page[p], step, Heard(fate)))
    BY <1>2, <1>3 DEF Patch
<1>8. budget' \in Budgets /\ budget'.media = budget.media /\ budget'.stamps = budget.stamps
    BY <1>1, <1>7, Charged
<1>9. IntakeSaved(d, copy, p)
    BY <1>7 DEF IntakeSaved, Accepts
<1>10. PICK ref \in Nat : ref = page[p].ref
    BY <1>1, WizardColumns
<1>11. /\ \A to : [page[p] EXCEPT !.step = to] = [page[p] EXCEPT !.ref = ref, !.step = to]
       /\ Settled(page[p], FALSE) = Settled([page[p] EXCEPT !.ref = ref], FALSE)
    <2>1. PICK w : w = page[p]
        OBVIOUS
    <2>2. w \in Wizards /\ w.ref = ref
        BY <1>5, <1>10, <2>1
    <2>3. /\ \A to : [w EXCEPT !.step = to] = [w EXCEPT !.ref = ref, !.step = to]
          /\ Settled(w, FALSE) = Settled([w EXCEPT !.ref = ref], FALSE)
        BY <2>2, SameRef
    <2> QED
        BY <2>1, <2>3
<1>12. CASE Sent(fate) /\ Accepts(d, page[p].ref) /\ Heard(fate)
    <2>1. Set(p, [page[p] EXCEPT !.ref = ref, !.step = "answer"])
        BY <1>7, <1>11, <1>12
    <2>2. intake'[d].copy = copy
        BY <1>1, <1>5, <1>7, <1>12 DEF Patched, TypeOK, Intakes
    <2>3. purchase[d].by # p
        BY <1>1, <1>5, <1>12, NotYetPurchased DEF Accepts
    <2> QED
        BY <1>3, <1>4, <1>5, <1>6, <1>8, <1>9, <2>1, <2>2, <2>3, GoingOnSteps
<1>13. CASE ~(Sent(fate) /\ Accepts(d, page[p].ref) /\ Heard(fate))
    <2>1. Set(p, Unsaved(page[p], step, Heard(fate)))
        BY <1>7, <1>13
    <2>2. CASE step = "idle"
        <3>1. PICK to \in {"conflict", "lost"} : to = IF Heard(fate) THEN "conflict" ELSE "lost"
            OBVIOUS
        <3>2. Set(p, [page[p] EXCEPT !.step = to])
            BY <2>1, <2>2, <3>1 DEF Unsaved
        <3>3. Set(p, [page[p] EXCEPT !.ref = ref, !.step = to])
            BY <1>11, <3>2
        <3> QED
            BY <1>3, <1>4, <1>5, <1>6, <1>8, <1>9, <3>3, GoingOnSteps
    <2>3. CASE step # "idle"
        <3>1. Set(p, Settled([page[p] EXCEPT !.ref = ref], FALSE))
            BY <1>11, <2>1, <2>3 DEF Unsaved
        <3> QED
            BY <1>3, <1>4, <1>5, <1>6, <1>8, <1>9, <3>1, SettlingSteps
    <2> QED
        BY <2>2, <2>3
<1> QED
    BY <1>12, <1>13

LEMMA AnsweredStep ==
    ASSUME ClientIInv, NEW p \in Pages, Answered(p)
    PROVE  ClientIInv'
<1>1. TypeOK /\ SaveIsSound(p) /\ PostIsSound(p)
    BY DEF ClientIInv
<1>2. PICK d : d = Head(page[p].queue).copy.id
    OBVIOUS
<1>3. PICK copy : copy = Head(page[p].queue).copy
    OBVIOUS
<1>4. Working(p) /\ page[p].queue # <<>> /\ page[p].step = "answer"
    BY DEF Answered, Saving
<1>5. d = page[p].form.id /\ d \in Drafts
    BY <1>2, <1>4, SavingColumns
<1>6. PICK ref \in Nat : ref = intake[d].version
    BY <1>1, <1>5 DEF TypeOK, Intakes
<1>7. Set(p, Settled([page[p] EXCEPT !.ref = ref], TRUE)) /\ UNCHANGED <<server, local, cache, stamp, budget>>
    BY <1>2, <1>6 DEF Answered
<1>8. IntakeSaved(d, copy, p) /\ UNCHANGED <<purchase, files, local, cache, stamp>> /\ intake' = intake
    BY <1>7 DEF IntakeSaved, server
<1>9. page[p].phase = "open" =>
          /\ intake'[d].copy = copy \/ intake'[d].by # p
          /\ Head(page[p].queue).kind = "final" => purchase[d].by # p
    BY <1>1, <1>3, <1>4, <1>5, <1>8 DEF SaveIsSound, PostIsSound, Stored
<1> QED
    BY <1>1, <1>3, <1>4, <1>5, <1>7, <1>8, <1>9, BudgetStays, SettlingSteps

\* A save gives up.
LEMMA GivingUpSteps ==
    ASSUME ClientIInv, NEW p \in Pages, Working(p), page[p].queue # <<>>,
           Set(p, Settled(page[p], FALSE)),
           UNCHANGED <<purchase, files, local, cache, stamp>>,
           budget' \in Budgets, budget'.media = budget.media, budget'.stamps = budget.stamps,
           NEW copy, copy = Head(page[p].queue).copy, IntakeSaved(page[p].form.id, copy, p)
    PROVE  ClientIInv'
<1>1. PICK w : w = page[p]
    OBVIOUS
<1>2. w \in Wizards
    BY <1>1, SavingColumns
<1>3. PICK ref \in Nat : ref = w.ref
    BY <1>2 DEF Wizards
<1>4. Settled(w, FALSE) = Settled([w EXCEPT !.ref = ref], FALSE)
    BY <1>2, <1>3, SameRef
<1>5. Set(p, Settled([page[p] EXCEPT !.ref = ref], FALSE))
    BY <1>1, <1>4
<1> QED
    BY <1>5, SettlingSteps

LEMMA RefetchStep ==
    ASSUME ClientIInv, NEW p \in Pages, Refetch(p)
    PROVE  ClientIInv'
<1>1. TypeOK
    BY DEF ClientIInv
<1>2. PICK d : d = Head(page[p].queue).copy.id
    OBVIOUS
<1>3. PICK copy : copy = Head(page[p].queue).copy
    OBVIOUS
<1>4. Working(p) /\ page[p].queue # <<>> /\ UNCHANGED <<server, local, cache, stamp>>
    BY DEF Refetch, Saving
<1>5. d = page[p].form.id /\ d \in Drafts
    BY <1>2, <1>4, SavingColumns
<1>6. PICK fate \in Fates :
          /\ Charge(fate)
          /\ Set(p, IF Heard(fate) /\ intake[d].status = "DRAFT"
                    THEN [page[p] EXCEPT !.ref = intake[d].version, !.step = "repatch"]
                    ELSE Settled(page[p], FALSE))
    BY <1>2 DEF Refetch
<1>7. budget' \in Budgets /\ budget'.media = budget.media /\ budget'.stamps = budget.stamps
    BY <1>1, <1>6, Charged
<1>8. IntakeSaved(d, copy, p) /\ UNCHANGED <<purchase, files, local, cache, stamp>>
    BY <1>4 DEF IntakeSaved, server
<1>9. CASE Heard(fate) /\ intake[d].status = "DRAFT"
    <2>1. PICK ref \in Nat : ref = intake[d].version
        BY <1>1, <1>5 DEF TypeOK, Intakes
    <2>2. Set(p, [page[p] EXCEPT !.ref = ref, !.step = "repatch"])
        BY <1>6, <1>9, <2>1
    <2> QED
        BY <1>3, <1>4, <1>5, <1>7, <1>8, <2>2, GoingOnSteps
<1>10. CASE ~(Heard(fate) /\ intake[d].status = "DRAFT")
    BY <1>3, <1>4, <1>5, <1>6, <1>7, <1>8, <1>10, GivingUpSteps
<1> QED
    BY <1>9, <1>10

LEMMA LookUpStep ==
    ASSUME ClientIInv, NEW p \in Pages, LookUp(p)
    PROVE  ClientIInv'
<1>1. TypeOK
    BY DEF ClientIInv
<1>2. PICK d : d = Head(page[p].queue).copy.id
    OBVIOUS
<1>3. PICK copy : copy = Head(page[p].queue).copy
    OBVIOUS
<1>4. Working(p) /\ page[p].queue # <<>> /\ UNCHANGED <<server, stamp>>
    BY DEF LookUp, Saving
<1>5. d = page[p].form.id /\ d \in Drafts /\ page[p].form # NoCopy /\ page[p] \in Wizards
    BY <1>2, <1>4, SavingColumns
<1>6. PICK why \in {"conflict", "lost"}, fate \in Fates :
          /\ Charge(fate)
          /\ IF Heard(fate) /\ Completed(intake[d])
             THEN Recover(p)
             ELSE /\ Set(p, IF why = "conflict" THEN [page[p] EXCEPT !.step = "refetch"]
                            ELSE Settled(page[p], FALSE))
                  /\ UNCHANGED <<local, cache>>
    BY <1>2 DEF LookUp
<1>7. budget' \in Budgets /\ budget'.media = budget.media /\ budget'.stamps = budget.stamps
    BY <1>1, <1>6, Charged
<1>8. IntakeSaved(d, copy, p) /\ UNCHANGED <<purchase, files, stamp>>
    BY <1>4 DEF IntakeSaved, server
<1>9. CASE Heard(fate) /\ Completed(intake[d])
    BY <1>4, <1>5, <1>6, <1>7, <1>9, RecoverStep DEF Completed
<1>10. CASE ~(Heard(fate) /\ Completed(intake[d])) /\ why = "conflict"
    <2>1. PICK w : w = page[p]
        OBVIOUS
    <2>2. PICK ref \in Nat : ref = w.ref
        BY <1>5, <2>1 DEF Wizards
    <2>3. [w EXCEPT !.step = "refetch"] = [w EXCEPT !.ref = ref, !.step = "refetch"]
        BY <1>5, <2>1, <2>2, SameRef
    <2>4. Set(p, [page[p] EXCEPT !.ref = ref, !.step = "refetch"]) /\ UNCHANGED <<local, cache>>
        BY <1>6, <1>10, <2>1, <2>3
    <2> QED
        BY <1>3, <1>4, <1>5, <1>7, <1>8, <2>4, GoingOnSteps
<1>11. CASE ~(Heard(fate) /\ Completed(intake[d])) /\ why # "conflict"
    BY <1>3, <1>4, <1>5, <1>6, <1>7, <1>8, <1>11, GivingUpSteps
<1> QED
    BY <1>9, <1>10, <1>11

LEMMA CreateStep ==
    ASSUME ClientIInv, NEW p \in Pages, Create(p)
    PROVE  ClientIInv'
<1>1. TypeOK /\ IntakesAreSound /\ CopiesAreNamed
    BY DEF ClientIInv
<1>2. PICK entry : entry = Head(page[p].queue)
    OBVIOUS
<1>3. PICK copy : copy = entry.copy
    OBVIOUS
<1>4. PICK d : d = copy.id
    OBVIOUS
<1>5. Working(p) /\ page[p].queue # <<>> /\ UNCHANGED <<purchase, files, stamp>>
    BY DEF Create, Saving
<1>6. /\ d = page[p].form.id /\ d \in Drafts /\ page[p].form # NoCopy /\ page[p] \in Wizards
      /\ copy \in AllCopies /\ copy \in Copies
    BY <1>2, <1>3, <1>4, <1>5, SavingColumns
<1>7. PICK fate \in Fates :
          /\ Charge(fate)
          /\ intake' = IF Sent(fate) THEN Created(d, entry, p) ELSE intake
          /\ IF Heard(fate) /\ Completed(intake'[d]) THEN Recover(p)
             ELSE /\ Set(p, IF Heard(fate) THEN AfterCreate(page[p], entry, intake'[d])
                            ELSE Settled(page[p], FALSE))
                  /\ UNCHANGED <<local, cache>>
    BY <1>2, <1>3, <1>4 DEF Create
<1>8. budget' \in Budgets /\ budget'.media = budget.media /\ budget'.stamps = budget.stamps
    BY <1>1, <1>7, Charged
<1>9. IntakeSaved(d, copy, p)
    BY <1>3, <1>7 DEF IntakeSaved, Created
<1>10. /\ intake' \in [Drafts -> Intakes]
       /\ intake[d].status = "COMPLETED" => intake' = intake
       /\ \/ intake'[d].copy = copy /\ intake'[d].by = p /\ intake'[d].status = "DRAFT"
             /\ intake[d].status # "COMPLETED"
          \/ intake' = intake
    BY <1>1, <1>4, <1>5, <1>6, <1>9, IntakesSaved
<1>11. CASE Heard(fate) /\ Completed(intake'[d])
    <2>1. intake' = intake
        BY <1>10, <1>11 DEF Completed
    <2>2. UNCHANGED server
        BY <1>5, <2>1 DEF server
    <2> QED
        BY <1>5, <1>6, <1>7, <1>8, <1>11, <2>1, <2>2, RecoverStep DEF Completed
<1>12. CASE ~Heard(fate)
    BY <1>2, <1>3, <1>5, <1>6, <1>7, <1>8, <1>9, <1>12, GivingUpSteps
<1>13. CASE Heard(fate) /\ ~Completed(intake'[d])
    <2>1. PICK found : found = intake'[d]
        OBVIOUS
    <2>2. PICK ref \in Nat : ref = found.version
        BY <1>6, <1>10, <2>1 DEF Intakes
    <2>3. Set(p, AfterCreate(page[p], entry, found)) /\ UNCHANGED <<local, cache>>
        BY <1>7, <1>13, <2>1
    <2>4. CASE found.copy.at = copy.at
        <3>1. Set(p, Settled([page[p] EXCEPT !.ref = ref], TRUE))
            BY <1>3, <2>2, <2>3, <2>4 DEF AfterCreate
        <3>2. intake[d].status # "COMPLETED"
            BY <1>10, <1>13 DEF Completed
        <3>3. purchase[d].by # p
            BY <1>1, <1>6, <3>2, NotYetPurchased
        <3>4. intake'[d].copy = copy
            <4>1. CASE intake' = intake
                <5>1. intake[d].status # "none"
                    BY <1>1, <1>6, <1>7, <1>13, <4>1 DEF Created, Heard, Sent, TypeOK
                <5>2. intake[d].copy \in AllCopies /\ intake[d].copy.id = d
                    BY <1>1, <1>6, <5>1, CopiesThereAre DEF IntakesAreSound
                <5> QED
                    BY <1>1, <1>4, <1>6, <2>1, <2>4, <4>1, <5>2 DEF CopiesAreNamed
            <4> QED
                BY <1>10, <4>1
        <3> QED
            BY <1>2, <1>3, <1>5, <1>6, <1>8, <1>9, <2>3, <3>1, <3>3, <3>4, SettlingSteps
    <2>5. CASE found.copy.at # copy.at
        <3>1. Set(p, [page[p] EXCEPT !.ref = ref, !.step = "carry"])
            BY <1>3, <2>2, <2>3, <2>5 DEF AfterCreate
        <3> QED
            BY <1>2, <1>3, <1>5, <1>6, <1>8, <1>9, <2>3, <3>1, GoingOnSteps
    <2> QED
        BY <2>4, <2>5
<1> QED
    BY <1>11, <1>12, <1>13

-----------------------------------------------------------------------------
(* Finalizing *)

\* A finalization has its own save done when it uploads files, and posts.
LEMMA UploadIsSound ==
    ASSUME ClientIInv, NEW p \in Pages, page[p].phase = "open",
           page[p].fin \in {"upload", "variant", "review", "lookup"},
           NEW r, page'[p] = r, r.phase = "open", r.form = page[p].form, r.timer = page[p].timer,
           r.queue = page[p].queue, r.step = page[p].step, r.saved = page[p].saved,
           r.outcome = page[p].outcome,
           r.fin \in {"no", "upload", "variant", "review", "lookup"},
           intake'[page[p].form.id].copy = intake[page[p].form.id].copy,
           intake'[page[p].form.id].by = intake[page[p].form.id].by,
           r.fin \in {"upload", "variant", "review"} =>
               /\ purchase'[page[p].form.id].by # p
               /\ r.todo \subseteq page[p].form.media
               /\ r.fin # "upload" => r.todo # {}
               /\ intake'[page[p].form.id].status # "COMPLETED" =>
                     \A m \in page[p].form.media \ r.todo :
                        files'[m].of = page[p].form.id \/ m \in DeletedElsewhere(p)'
    PROVE  PageIsSound(p)'
<1>1. TypeOK /\ QueueIsSound(p) /\ SaveIsSound(p) /\ PostIsSound(p) /\ EndIsSound(p)
    BY DEF ClientIInv
<1>2. PICK q : q = page[p].queue
    OBVIOUS
<1>3. \A i \in DOMAIN q : q[i].kind = "auto"
    <2>1. \A i \in DOMAIN q : q[i].kind \in {"auto", "flush", "final"}
        BY <1>1, <1>2, CopiesThereAre DEF Entries
    <2> QED
        BY <1>1, <1>2, <2>1 DEF QueueIsSound
<1>4. QueueIsSound(p)'
    BY SMTT(60), <1>1, <1>2, <1>3 DEF QueueIsSound, Working
<1>5. SaveIsSound(p)'
    BY SMTT(60), <1>1 DEF SaveIsSound, Stored
<1>6. r.step = "answer" => Head(r.queue).kind # "final"
    <2>1. r.step = "answer" => Head(q) = q[1] /\ 1 \in DOMAIN q
        <3>1. q \in Seq(Entries)
            BY <1>1, <1>2, WizardColumns
        <3>2. r.step = "answer" => q # <<>>
            BY <1>1, <1>2 DEF TypeOK
        <3>3. q # <<>> => Head(q) = q[1] /\ 1 \in DOMAIN q
            BY <3>1
        <3> QED
            BY <3>2, <3>3
    <2> QED
        BY <1>2, <1>3, <2>1
<1>7. PostIsSound(p)'
    BY <1>6 DEF PostIsSound
<1>8. EndIsSound(p)'
    BY <1>1 DEF EndIsSound
<1> QED
    BY <1>4, <1>5, <1>7, <1>8 DEF PageIsSound

\* What a request of p about a file may do to it.
FileServed(p, m) ==
    \/ files'[m] = files[m]
    \/ /\ files[m].of # NoCopy /\ m \notin page[p].form.media
       /\ files'[m].version = files[m].version /\ files'[m].by = p /\ files'[m].of = NoCopy
    \/ /\ files[m].version = 0 /\ m \in page[p].form.media
       /\ files'[m].version # 0 /\ files'[m].by = NoPage /\ files'[m].of = page[p].form.id
    \/ /\ files[m].of # NoCopy
       /\ files'[m].version # 0 /\ files'[m].by = files[m].by /\ files'[m].of = files[m].of

LEMMA UploadSteps ==
    ASSUME ClientIInv, NEW p \in Pages, page[p].phase = "open",
           page[p].fin \in {"upload", "variant", "review", "lookup"},
           NEW r, Set(p, r), r \in Wizards,
           r.phase = "open", r.form = page[p].form, r.timer = page[p].timer,
           r.queue = page[p].queue, r.step = page[p].step, r.saved = page[p].saved,
           r.outcome = page[p].outcome, r.held = page[p].held,
           r.fin \in {"no", "upload", "variant", "review", "lookup"},
           UNCHANGED <<intake, purchase, local, cache, stamp>>, files' \in [Media -> Files],
           budget' \in Budgets, budget'.media = budget.media, budget'.stamps = budget.stamps,
           \A m \in Media : FileServed(p, m),
           page[p].fin = "lookup" => r.fin \in {"no", "lookup"},
           r.fin \in {"upload", "variant", "review"} =>
               /\ r.todo \subseteq page[p].form.media
               /\ r.fin # "upload" => r.todo # {}
               /\ \A m \in page[p].todo \ r.todo : files'[m].of = page[p].form.id
    PROVE  ClientIInv'
<1>1. TypeOK /\ CopiesAreNamed /\ IntakesAreSound /\ FilesAreSound /\ PostIsSound(p)
    BY DEF ClientIInv
<1>2. page'[p] = r
    BY <1>1, PageIsSet
<1>3. page[p].form # NoCopy /\ page[p].form \in AllCopies /\ page[p].form.id \in Drafts
      /\ page[p].held \subseteq page[p].form.media /\ page[p].form.media \subseteq Media
      /\ (page[p].step # "idle" => page[p].queue # <<>>)
      /\ \A i \in DOMAIN page[p].queue : page[p].queue[i].copy \in AllCopies
    BY <1>1, WizardColumns, CopiesThereAre DEF TypeOK
<1>4. \A m \in Media : /\ files[m].of # NoCopy => files[m].version # 0 /\ files[m].by = NoPage
                       /\ files[m].version # 0 => m \notin budget.media
                       /\ files[m].version = 0 => files[m].by = NoPage
                       /\ m \in page[p].form.media => m \notin budget.media
    BY <1>1, <1>3 DEF FilesAreSound, CopiesAreNamed
<1>5. Serves(p) /\ IntakesAreSound'
    <2>1. ASSUME NEW m \in Media
          PROVE  /\ files'[m].by \in {files[m].by, p}
                 /\ \/ files'[m].of = files[m].of \/ files[m].version = 0 \/ files'[m].by = p
        BY <1>4 DEF FileServed
    <2> QED
        BY <1>1, <2>1 DEF Serves, IntakesAreSound
<1>6. ASSUME NEW m \in Media
      PROVE  \/ files'[m] = files[m]
             \/ files'[m].version = files[m].version /\ files'[m].of = NoCopy
                   /\ files'[m].by = files[m].by
             \/ /\ files'[m].version # 0 /\ m \notin budget.media /\ files'[m].by = NoPage
                /\ \/ files'[m].of \in {files[m].of, NoCopy}
                   \/ \E c \in AllCopies : m \in c.media /\ files'[m].of = c.id
             \/ /\ files[m].version # 0 /\ files'[m].version = files[m].version
                /\ files'[m].by = p /\ files'[m].of = NoCopy
                /\ r.phase \notin {"new", "loading"} /\ m \notin r.form.media
    BY <1>3, <1>4 DEF FileServed
<1>7. PageIsSound(p)'
    <2>1. ASSUME r.fin \in {"upload", "variant", "review"}
          PROVE  purchase'[page[p].form.id].by # p
        BY <1>1, <2>1 DEF PostIsSound
    <2>2. ASSUME r.fin \in {"upload", "variant", "review"},
                 intake'[page[p].form.id].status # "COMPLETED",
                 NEW m \in page[p].form.media \ r.todo
          PROVE  files'[m].of = page[p].form.id \/ m \in DeletedElsewhere(p)'
        <3>1. CASE m \in page[p].todo
            BY <2>2, <3>1
        <3>2. CASE m \notin page[p].todo
            <4>1. m \in Media /\ (files[m].of = page[p].form.id \/ m \in DeletedElsewhere(p))
                BY <1>1, <1>3, <2>2, <3>2 DEF PostIsSound
            <4>2. m \in page[p].form.media
                BY <2>2
            <4>3. FileServed(p, m)
                BY <4>1
            <4>4. m \in DeletedElsewhere(p) => files[m].version # 0 /\ files[m].of = NoCopy
                BY <1>1, <4>1 DEF DeletedElsewhere, FilesAreSound
            <4>5. \/ files'[m] = files[m]
                  \/ files'[m].of = page[p].form.id
                  \/ files[m].of # NoCopy /\ files'[m].of = files[m].of
                BY <4>2, <4>3 DEF FileServed
            <4> QED
                BY <4>1, <4>4, <4>5 DEF DeletedElsewhere
        <3> QED
            BY <3>1, <3>2
    <2> QED
        BY <1>2, <2>1, <2>2, UploadIsSound
<1>8. /\ intake' \in [Drafts -> Intakes] /\ purchase' \in [Drafts -> Purchases]
      /\ \A d \in Drafts : intake'[d].copy \in AllCopies \cup {intake[d].copy, NoCopy}
    BY <1>1 DEF TypeOK
<1> QED
    BY <1>1, <1>3, <1>5, <1>6, <1>7, <1>8, LocalCopies, StepWithoutCopies

\* The finalization gives up, and the form may be edited.
LEMMA GivesUpColumns ==
    ASSUME NEW w \in Wizards, NEW r, r = [w EXCEPT !.fin = "no"]
    PROVE  /\ r \in Wizards /\ r.phase = w.phase /\ r.form = w.form /\ r.timer = w.timer
           /\ r.queue = w.queue /\ r.step = w.step /\ r.saved = w.saved /\ r.outcome = w.outcome
           /\ r.held = w.held /\ r.fin = "no"
BY DEF Wizards

LEMMA GivesUpSteps ==
    ASSUME ClientIInv, NEW p \in Pages, page[p].phase = "open",
           page[p].fin \in {"upload", "variant", "review", "lookup"}, GivesUp(p),
           UNCHANGED <<intake, purchase, local, cache, stamp>>, files' \in [Media -> Files],
           budget' \in Budgets, budget'.media = budget.media, budget'.stamps = budget.stamps,
           \A m \in Media : FileServed(p, m)
    PROVE  ClientIInv'
<1>1. PICK w : w = page[p]
    OBVIOUS
<1>2. w \in Wizards
    BY <1>1, WizardColumns DEF ClientIInv
<1>3. PICK r : r = [w EXCEPT !.fin = "no"]
    OBVIOUS
<1>4. /\ r \in Wizards /\ r.phase = w.phase /\ r.form = w.form /\ r.timer = w.timer
      /\ r.queue = w.queue /\ r.step = w.step /\ r.saved = w.saved /\ r.outcome = w.outcome
      /\ r.held = w.held /\ r.fin = "no"
    BY <1>2, <1>3, GivesUpColumns
<1>5. Set(p, r)
    BY <1>1, <1>3 DEF GivesUp
<1> QED
    BY <1>1, <1>4, <1>5, UploadSteps

LEMMA Uploader ==
    ASSUME ClientIInv, NEW p \in Pages, page[p].phase = "open"
    PROVE  /\ page[p] \in Wizards /\ page[p].form \in Copies /\ page[p].form.id \in Drafts
           /\ page[p].form.media \subseteq Media
           /\ page[p].fin \in {"upload", "variant", "review"} => page[p].todo \subseteq page[p].form.media
           /\ page[p].fin \in {"variant", "review"} => page[p].todo # {}
           /\ page[p].todo # {} => Current(p) \in page[p].todo
           /\ page[p].todo \subseteq Media
<1>1. TypeOK /\ PostIsSound(p)
    BY DEF ClientIInv
<1>2. /\ page[p] \in Wizards /\ page[p].form \in Copies /\ page[p].form.id \in Drafts
      /\ page[p].form.media \subseteq Media /\ page[p].todo \subseteq Media
    BY <1>1, WizardColumns DEF TypeOK
<1> QED
    BY <1>1, <1>2 DEF PostIsSound, Current

LEMMA DeleteDroppedStep ==
    ASSUME ClientIInv, NEW p \in Pages, DeleteDropped(p)
    PROVE  ClientIInv'
<1>1. TypeOK
    BY DEF ClientIInv
<1>2. page[p].phase = "open" /\ page[p].fin = "upload" /\ UNCHANGED <<intake, purchase, local, cache, stamp>>
    BY DEF DeleteDropped, Sending
<1>3. PICK m \in Dropped(p), fate \in Fates :
          /\ Charge(fate)
          /\ files' = IF Sent(fate) /\ Mutable(m)
                      THEN [files EXCEPT ![m].of = NoCopy, ![m].by = p] ELSE files
          /\ IF Heard(fate) THEN Set(p, [page[p] EXCEPT !.refs[m] = 0]) ELSE GivesUp(p)
    BY DEF DeleteDropped
<1>4. m \in Media /\ m \notin page[p].form.media
    BY <1>3 DEF Dropped
<1>5. budget' \in Budgets /\ budget'.media = budget.media /\ budget'.stamps = budget.stamps
    BY <1>1, <1>3, Charged
<1>6. files \in [Media -> Files] /\ files[m] \in Files
    BY <1>1, <1>4 DEF TypeOK
<1>7. files' \in [Media -> Files] /\ \A k \in Media : FileServed(p, k)
    <2>1. CASE files' = files
        BY <1>6, <2>1 DEF FileServed
    <2>2. CASE Mutable(m) /\ files' = [files EXCEPT ![m].of = NoCopy, ![m].by = p]
        <3>1. PICK rec : rec = [files[m] EXCEPT !.of = NoCopy, !.by = p]
            OBVIOUS
        <3>2. rec \in Files /\ rec.of = NoCopy /\ rec.by = p /\ rec.version = files[m].version
            BY <1>6, <3>1 DEF Files
        <3>3. files' = [files EXCEPT ![m] = rec]
            BY <1>6, <2>2, <3>1 DEF Files
        <3>4. files'[m] = rec /\ \A k \in Media : k # m => files'[k] = files[k]
            BY <1>4, <1>6, <3>3
        <3>5. files' \in [Media -> Files]
            BY <1>6, <3>2, <3>3
        <3>6. files[m].of # NoCopy
            BY <2>2 DEF Mutable
        <3> QED
            BY <1>4, <3>2, <3>4, <3>5, <3>6 DEF FileServed
    <2> QED
        BY <1>3, <2>1, <2>2
<1>8. CASE ~Heard(fate)
    BY <1>2, <1>3, <1>5, <1>7, <1>8, GivesUpSteps
<1>9. CASE Heard(fate)
    <2>1. PICK w : w = page[p]
        OBVIOUS
    <2>2. PICK r : r = [w EXCEPT !.refs[m] = 0]
        OBVIOUS
    <2>3. w \in Wizards /\ w.todo \subseteq w.form.media
        BY <1>2, <2>1, Uploader
    <2>4. PICK refs : refs = [w.refs EXCEPT ![m] = 0]
        OBVIOUS
    <2>5. refs \in [Media -> Nat]
        BY <2>3, <2>4 DEF Wizards
    <2>6. r = [w EXCEPT !.refs = refs]
        BY <2>2, <2>3, <2>4 DEF Wizards
    <2>7. /\ r \in Wizards /\ r.phase = w.phase /\ r.form = w.form /\ r.timer = w.timer
          /\ r.queue = w.queue /\ r.step = w.step /\ r.saved = w.saved /\ r.outcome = w.outcome
          /\ r.held = w.held /\ r.fin = w.fin /\ r.todo = w.todo
        BY <2>3, <2>5, <2>6 DEF Wizards
    <2>8. Set(p, r)
        BY <1>3, <1>9, <2>1, <2>2
    <2> QED
        BY <1>2, <1>5, <1>7, <2>1, <2>3, <2>7, <2>8, UploadSteps
<1> QED
    BY <1>8, <1>9

\* The item goes on to be processed.
LEMMA ProcessingSteps ==
    ASSUME ClientIInv, NEW p \in Pages, page[p].phase = "open",
           page[p].fin \in {"upload", "variant", "review"}, page[p].todo # {},
           NEW refs \in [Media -> Nat], NEW ready, ready \subseteq Media,
           NEW fin \in {"upload", "variant", "review"}, NEW todo, todo \subseteq page[p].todo,
           fin # "upload" => todo # {},
           Set(p, [page[p] EXCEPT !.refs = refs, !.ready = ready, !.todo = todo, !.fin = fin]),
           \A m \in page[p].todo \ todo : files'[m].of = page[p].form.id,
           UNCHANGED <<intake, purchase, local, cache, stamp>>, files' \in [Media -> Files],
           budget' \in Budgets, budget'.media = budget.media, budget'.stamps = budget.stamps,
           \A m \in Media : FileServed(p, m)
    PROVE  ClientIInv'
<1>1. PICK w : w = page[p]
    OBVIOUS
<1>2. w \in Wizards /\ w.todo \subseteq w.form.media /\ w.todo \subseteq Media
    BY <1>1, Uploader
<1>3. PICK r : r = [w EXCEPT !.refs = refs, !.ready = ready, !.todo = todo, !.fin = fin]
    OBVIOUS
<1>4. todo \subseteq Media /\ todo \subseteq w.form.media
    BY <1>1, <1>2
<1>5. /\ r \in Wizards /\ r.phase = w.phase /\ r.form = w.form /\ r.timer = w.timer
      /\ r.queue = w.queue /\ r.step = w.step /\ r.saved = w.saved /\ r.outcome = w.outcome
      /\ r.held = w.held /\ r.fin = fin /\ r.todo = todo
    BY <1>2, <1>3, <1>4 DEF Wizards
<1>6. Set(p, r)
    BY <1>1, <1>3
<1> QED
    BY <1>1, <1>4, <1>5, <1>6, UploadSteps

LEMMA FilesAsTheyAre ==
    ASSUME TypeOK, NEW p \in Pages, files' = files
    PROVE  files' \in [Media -> Files] /\ \A m \in Media : FileServed(p, m)
BY DEF TypeOK, FileServed

\* One file is served.
LEMMA OneFileIsServed ==
    ASSUME TypeOK, NEW p \in Pages, NEW m \in Media, NEW rec \in Files,
           files' = [files EXCEPT ![m] = rec],
           \/ files[m].version = 0 /\ m \in page[p].form.media
                /\ rec.version # 0 /\ rec.by = NoPage /\ rec.of = page[p].form.id
           \/ files[m].of # NoCopy
                /\ rec.version # 0 /\ rec.by = files[m].by /\ rec.of = files[m].of
    PROVE  files' \in [Media -> Files] /\ (\A k \in Media : FileServed(p, k)) /\ files'[m] = rec
<1>1. files \in [Media -> Files]
    BY DEF TypeOK
<1>2. files'[m] = rec /\ (\A k \in Media : k # m => files'[k] = files[k]) /\ files' \in [Media -> Files]
    BY <1>1
<1> QED
    BY <1>2 DEF FileServed

LEMMA ReselectionStep ==
    ASSUME ClientIInv, NEW p \in Pages, NeedsReselection(p)
    PROVE  ClientIInv'
<1>1. TypeOK
    BY DEF ClientIInv
<1>2. /\ page[p].phase = "open" /\ page[p].fin = "upload" /\ GivesUp(p)
      /\ UNCHANGED <<server, local, cache, stamp, budget>>
    BY DEF NeedsReselection, Uploading, Sending
<1>3. UNCHANGED <<intake, purchase, local, cache, stamp>> /\ files' = files
    BY <1>2 DEF server
<1> QED
    BY <1>1, <1>2, <1>3, FilesAsTheyAre, BudgetStays, GivesUpSteps

LEMMA AlreadyUploadedStep ==
    ASSUME ClientIInv, NEW p \in Pages, AlreadyUploaded(p)
    PROVE  ClientIInv'
<1>1. TypeOK
    BY DEF ClientIInv
<1>2. PICK m : m = Current(p)
    OBVIOUS
<1>3. /\ page[p].phase = "open" /\ page[p].fin = "upload" /\ page[p].todo # {}
      /\ Set(p, Processing(p, m)) /\ UNCHANGED <<server, local, cache, stamp, budget>>
    BY <1>2 DEF AlreadyUploaded, Uploading, Sending
<1>4. UNCHANGED <<intake, purchase, local, cache, stamp>> /\ files' = files
    BY <1>3 DEF server
<1>5. PICK w : w = page[p]
    OBVIOUS
<1>6. w \in Wizards
    BY <1>1, <1>5, WizardColumns
<1>7. PICK fin \in {"variant", "review"} : fin = IF m \in w.held \ Pdfs THEN "variant" ELSE "review"
    OBVIOUS
<1>8. PICK refs \in [Media -> Nat] : refs = w.refs
    BY <1>6 DEF Wizards
<1>9. PICK ready : ready = w.ready /\ ready \subseteq Media
    BY <1>6 DEF Wizards
<1>10. PICK todo : todo = w.todo
    OBVIOUS
<1>11. Processing(p, m) = [w EXCEPT !.fin = fin]
    BY <1>5, <1>7 DEF Processing
<1>12. [w EXCEPT !.fin = fin]
           = [w EXCEPT !.refs = refs, !.ready = ready, !.todo = todo, !.fin = fin]
    BY <1>6, <1>8, <1>9, <1>10 DEF Wizards
<1>13. Set(p, [page[p] EXCEPT !.refs = refs, !.ready = ready, !.todo = todo, !.fin = fin])
    BY <1>3, <1>5, <1>11, <1>12
<1>14. todo \subseteq page[p].todo /\ todo # {} /\ page[p].todo \ todo = {}
    BY <1>3, <1>5, <1>10
<1> QED
    BY <1>1, <1>3, <1>4, <1>9, <1>13, <1>14, FilesAsTheyAre, BudgetStays, ProcessingSteps

LEMMA UploadStep ==
    ASSUME ClientIInv, NEW p \in Pages, Upload(p)
    PROVE  ClientIInv'
<1>1. TypeOK
    BY DEF ClientIInv
<1>2. PICK m : m = Current(p)
    OBVIOUS
<1>3. /\ page[p].phase = "open" /\ page[p].fin = "upload" /\ page[p].todo # {}
      /\ UNCHANGED <<intake, purchase, local, cache, stamp>>
    BY DEF Upload, Uploading, Sending
<1>4. PICK fate \in Fates : LET admitted == intake[page[p].form.id].status = "DRAFT" IN
          /\ Charge(fate)
          /\ files' = IF Sent(fate) /\ admitted /\ files[m].version = 0
                      THEN [files EXCEPT ![m] = [of |-> page[p].form.id, version |-> 1,
                                                 variant |-> FALSE, ready |-> m \in Pdfs,
                                                 by |-> NoPage]]
                      ELSE files
          /\ IF Heard(fate) /\ admitted
             THEN Set(p, [Processing(p, m) EXCEPT
                            !.refs[m] = files'[m].version,
                            !.ready = IF files'[m].ready THEN @ \cup {m} ELSE @])
             ELSE GivesUp(p)
    BY <1>2 DEF Upload
<1>5. budget' \in Budgets /\ budget'.media = budget.media /\ budget'.stamps = budget.stamps
    BY <1>1, <1>4, Charged
<1>6. PICK w : w = page[p]
    OBVIOUS
<1>7. w \in Wizards /\ m \in w.todo /\ m \in w.form.media /\ m \in Media /\ w.form.id \in Drafts
    BY <1>2, <1>3, <1>6, Uploader
<1>8. files' \in [Media -> Files] /\ \A k \in Media : FileServed(p, k)
    <2>1. CASE files' = files
        BY <1>1, <2>1, FilesAsTheyAre
    <2>2. CASE files[m].version = 0
               /\ files' = [files EXCEPT ![m] = [of |-> page[p].form.id, version |-> 1,
                                                 variant |-> FALSE, ready |-> m \in Pdfs,
                                                 by |-> NoPage]]
        <3>1. PICK rec : rec = [of |-> w.form.id, version |-> 1, variant |-> FALSE,
                                ready |-> m \in Pdfs, by |-> NoPage]
            OBVIOUS
        <3>2. rec \in Files
            <4>1. (m \in Pdfs) \in BOOLEAN /\ w.form.id \in Drafts \cup {NoCopy}
                BY <1>7
            <4> QED
                BY <3>1, <4>1 DEF Files
        <3>3. rec.version # 0 /\ rec.by = NoPage /\ rec.of = page[p].form.id
            BY <1>6, <3>1
        <3>4. files' = [files EXCEPT ![m] = rec]
            BY <1>6, <2>2, <3>1
        <3>5. m \in page[p].form.media /\ m \in Media
            BY <1>6, <1>7
        <3> QED
            BY ZenonT(30), <1>1, <2>2, <3>2, <3>3, <3>4, <3>5, OneFileIsServed
    <2> QED
        BY <1>4, <2>1, <2>2
<1>9. CASE GivesUp(p)
    BY <1>3, <1>5, <1>8, <1>9, GivesUpSteps
<1>10. CASE Set(p, [Processing(p, m) EXCEPT
                      !.refs[m] = files'[m].version,
                      !.ready = IF files'[m].ready THEN @ \cup {m} ELSE @])
    <2>1. PICK fin \in {"variant", "review"} :
              fin = IF m \in w.held \ Pdfs THEN "variant" ELSE "review"
        OBVIOUS
    <2>2. PICK version : version = files'[m].version
        OBVIOUS
    <2>3. version \in Nat
        BY <1>7, <1>8, <2>2 DEF Files
    <2>4. PICK refs : refs = [w.refs EXCEPT ![m] = version]
        OBVIOUS
    <2>5. refs \in [Media -> Nat]
        BY <1>7, <2>3, <2>4 DEF Wizards
    <2>6. PICK ready : ready = IF files'[m].ready THEN w.ready \cup {m} ELSE w.ready
        OBVIOUS
    <2>7. ready \subseteq Media
        BY <1>7, <2>6 DEF Wizards
    <2>8. PICK todo : todo = w.todo
        OBVIOUS
    <2>9. Processing(p, m) = [w EXCEPT !.fin = fin]
        BY <1>6, <2>1 DEF Processing
    <2>10. PICK v : v = [w EXCEPT !.fin = fin]
        OBVIOUS
    <2>11. v.refs = w.refs /\ v.ready = w.ready
        BY <1>7, <2>10 DEF Wizards
    <2>12. [v EXCEPT !.refs[m] = files'[m].version,
                     !.ready = IF files'[m].ready THEN @ \cup {m} ELSE @]
               = [v EXCEPT !.refs = refs, !.ready = ready]
        BY <1>7, <2>2, <2>4, <2>6, <2>10, <2>11 DEF Wizards
    <2>13. [v EXCEPT !.refs = refs, !.ready = ready]
               = [w EXCEPT !.refs = refs, !.ready = ready, !.todo = todo, !.fin = fin]
        BY <1>7, <2>8, <2>10 DEF Wizards
    <2>14. Set(p, [page[p] EXCEPT !.refs = refs, !.ready = ready, !.todo = todo, !.fin = fin])
        BY <1>6, <1>10, <2>9, <2>10, <2>12, <2>13
    <2>15. todo \subseteq page[p].todo /\ todo # {} /\ page[p].todo \ todo = {}
        BY <1>3, <1>6, <2>8
    <2> QED
        BY <1>3, <1>5, <1>8, <2>5, <2>7, <2>14, <2>15, ProcessingSteps
<1> QED
    BY <1>4, <1>9, <1>10

LEMMA UploadVariantStep ==
    ASSUME ClientIInv, NEW p \in Pages, UploadVariant(p)
    PROVE  ClientIInv'
<1>1. TypeOK /\ FilesAreSound
    BY DEF ClientIInv
<1>2. PICK m : m = Current(p)
    OBVIOUS
<1>3. /\ page[p].phase = "open" /\ page[p].fin = "variant"
      /\ UNCHANGED <<intake, purchase, local, cache, stamp>>
    BY DEF UploadVariant, Sending
<1>4. PICK fate \in Fates :
          /\ Charge(fate)
          /\ files' = IF Sent(fate) /\ Mutable(m) /\ ~files[m].variant
                      THEN [files EXCEPT ![m].variant = TRUE, ![m].version = @ + 1]
                      ELSE files
          /\ IF Heard(fate) /\ Mutable(m)
             THEN Set(p, [page[p] EXCEPT !.refs[m] = files'[m].version, !.fin = "review"])
             ELSE GivesUp(p)
    BY <1>2 DEF UploadVariant
<1>5. budget' \in Budgets /\ budget'.media = budget.media /\ budget'.stamps = budget.stamps
    BY <1>1, <1>4, Charged
<1>6. PICK w : w = page[p]
    OBVIOUS
<1>7. w \in Wizards /\ w.todo # {} /\ m \in Media
    BY <1>2, <1>3, <1>6, Uploader
<1>8. files' \in [Media -> Files] /\ \A k \in Media : FileServed(p, k)
    <2>1. CASE files' = files
        BY <1>1, <2>1, FilesAsTheyAre
    <2>2. CASE Mutable(m) /\ files' = [files EXCEPT ![m].variant = TRUE, ![m].version = @ + 1]
        <3>1. PICK f : f = files[m]
            OBVIOUS
        <3>2. PICK version : version = f.version + 1
            OBVIOUS
        <3>3. f \in Files /\ version \in Nat /\ version # 0
            BY <1>1, <1>7, <3>1, <3>2 DEF TypeOK, Files
        <3>4. PICK rec : rec = [f EXCEPT !.variant = TRUE, !.version = version]
            OBVIOUS
        <3>5. rec \in Files /\ rec.version = version /\ rec.by = f.by /\ rec.of = f.of
            BY <3>3, <3>4 DEF Files
        <3>6. files' = [files EXCEPT ![m] = rec]
            BY <1>1, <1>7, <2>2, <3>1, <3>2, <3>3, <3>4 DEF TypeOK, Files
        <3>7. f.of # NoCopy
            BY <2>2, <3>1 DEF Mutable
        <3> QED
            BY <1>1, <1>7, <3>1, <3>3, <3>5, <3>6, <3>7, OneFileIsServed
    <2> QED
        BY <1>4, <2>1, <2>2
<1>9. CASE GivesUp(p)
    BY <1>3, <1>5, <1>8, <1>9, GivesUpSteps
<1>10. CASE Set(p, [page[p] EXCEPT !.refs[m] = files'[m].version, !.fin = "review"])
    <2>1. PICK version : version = files'[m].version
        OBVIOUS
    <2>2. version \in Nat
        BY <1>7, <1>8, <2>1 DEF Files
    <2>3. PICK refs : refs = [w.refs EXCEPT ![m] = version]
        OBVIOUS
    <2>4. refs \in [Media -> Nat]
        BY <1>7, <2>2, <2>3 DEF Wizards
    <2>5. PICK ready : ready = w.ready
        OBVIOUS
    <2>6. ready \subseteq Media
        BY <1>7, <2>5 DEF Wizards
    <2>7. PICK todo : todo = w.todo
        OBVIOUS
    <2>8. [w EXCEPT !.refs[m] = files'[m].version, !.fin = "review"]
              = [w EXCEPT !.refs = refs, !.ready = ready, !.todo = todo, !.fin = "review"]
        BY <1>7, <2>1, <2>3, <2>5, <2>7 DEF Wizards
    <2>9. Set(p, [page[p] EXCEPT !.refs = refs, !.ready = ready, !.todo = todo, !.fin = "review"])
        BY <1>6, <1>10, <2>8
    <2>10. todo \subseteq page[p].todo /\ todo # {} /\ page[p].todo \ todo = {} /\ page[p].todo # {}
        BY <1>6, <1>7, <2>7
    <2> QED
        BY <1>3, <1>5, <1>8, <2>4, <2>6, <2>9, <2>10, ProcessingSteps
<1> QED
    BY <1>4, <1>9, <1>10

LEMMA ReviewStep ==
    ASSUME ClientIInv, NEW p \in Pages, Review(p)
    PROVE  ClientIInv'
<1>1. TypeOK /\ FilesAreSound /\ CopiesAreNamed
    BY DEF ClientIInv
<1>2. PICK m : m = Current(p)
    OBVIOUS
<1>3. /\ page[p].phase = "open" /\ page[p].fin = "review"
      /\ UNCHANGED <<intake, purchase, local, cache, stamp>>
    BY DEF Review, Sending
<1>4. PICK fate \in Fates : LET admitted == Mutable(m) /\ files[m].version = page[p].refs[m] IN
          /\ Charge(fate)
          /\ files' = IF Sent(fate) /\ admitted
                      THEN [files EXCEPT ![m].version = @ + 1, ![m].ready = TRUE] ELSE files
          /\ IF Heard(fate) /\ admitted
             THEN Set(p, [page[p] EXCEPT !.refs[m] = files'[m].version, !.ready = @ \cup {m},
                                         !.todo = @ \ {m}, !.fin = "upload"])
             ELSE GivesUp(p)
    BY <1>2 DEF Review
<1>5. budget' \in Budgets /\ budget'.media = budget.media /\ budget'.stamps = budget.stamps
    BY <1>1, <1>4, Charged
<1>6. PICK w : w = page[p]
    OBVIOUS
<1>7. w \in Wizards /\ w.todo # {} /\ m \in Media /\ m \in w.todo /\ m \in w.form.media
      /\ w.form \in Copies
    BY <1>2, <1>3, <1>6, Uploader
<1>8. PICK f : f = files[m]
    OBVIOUS
<1>9. PICK version : version = f.version + 1
    OBVIOUS
<1>10. f \in Files /\ version \in Nat /\ version # 0
    BY <1>1, <1>7, <1>8, <1>9 DEF TypeOK, Files
<1>11. PICK rec : rec = [f EXCEPT !.version = version, !.ready = TRUE]
    OBVIOUS
<1>12. rec \in Files /\ rec.version = version /\ rec.by = f.by /\ rec.of = f.of
    BY <1>10, <1>11 DEF Files
<1>13. [files EXCEPT ![m].version = @ + 1, ![m].ready = TRUE] = [files EXCEPT ![m] = rec]
    BY <1>1, <1>7, <1>8, <1>9, <1>10, <1>11 DEF TypeOK, Files
<1>14. files' \in [Media -> Files] /\ \A k \in Media : FileServed(p, k)
    <2>1. CASE files' = files
        BY <1>1, <2>1, FilesAsTheyAre
    <2>2. CASE Mutable(m) /\ files' = [files EXCEPT ![m] = rec]
        <3>1. f.of # NoCopy
            BY <1>8, <2>2 DEF Mutable
        <3> QED
            BY <1>1, <1>7, <1>8, <1>10, <1>12, <2>2, <3>1, OneFileIsServed
    <2> QED
        BY <1>4, <1>13, <2>1, <2>2
<1>15. CASE ~(Heard(fate) /\ Mutable(m) /\ files[m].version = page[p].refs[m])
    BY <1>3, <1>4, <1>5, <1>14, <1>15, GivesUpSteps
<1>16. CASE Heard(fate) /\ Mutable(m) /\ files[m].version = page[p].refs[m]
    <2>1. files' = [files EXCEPT ![m] = rec]
        BY <1>4, <1>13, <1>16 DEF Heard, Sent
    <2>2. files'[m] = rec
        BY <1>1, <1>7, <2>1 DEF TypeOK
    <2>3. rec.of = w.form.id
        <3>1. f.of # NoCopy
            BY <1>8, <1>16 DEF Mutable
        <3>2. w.form \in AllCopies
            BY <1>1, <1>6, <1>7, CopiesThereAre, PurchaseClientAssumption
        <3> QED
            BY <1>1, <1>7, <1>8, <1>12, <3>1, <3>2 DEF CopiesAreNamed
    <2>4. PICK refs : refs = [w.refs EXCEPT ![m] = version]
        OBVIOUS
    <2>5. refs \in [Media -> Nat]
        BY <1>7, <1>10, <2>4 DEF Wizards
    <2>6. PICK ready : ready = w.ready \cup {m}
        OBVIOUS
    <2>7. ready \subseteq Media
        BY <1>7, <2>6 DEF Wizards
    <2>8. PICK todo : todo = w.todo \ {m}
        OBVIOUS
    <2>9. [w EXCEPT !.refs[m] = files'[m].version, !.ready = @ \cup {m}, !.todo = @ \ {m},
                    !.fin = "upload"]
              = [w EXCEPT !.refs = refs, !.ready = ready, !.todo = todo, !.fin = "upload"]
        BY <1>7, <1>12, <2>2, <2>4, <2>6, <2>8 DEF Wizards
    <2>10. Set(p, [page[p] EXCEPT !.refs = refs, !.ready = ready, !.todo = todo, !.fin = "upload"])
        BY <1>4, <1>6, <1>16, <2>9
    <2>11. todo \subseteq page[p].todo /\ page[p].todo # {} /\ page[p].todo \ todo \subseteq {m}
        BY <1>6, <1>7, <2>8
    <2>12. \A k \in page[p].todo \ todo : files'[k].of = page[p].form.id
        BY <1>6, <2>2, <2>3, <2>11
    <2> QED
        BY <1>3, <1>5, <1>14, <2>5, <2>7, <2>10, <2>11, <2>12, ProcessingSteps
<1> QED
    BY <1>15, <1>16

LEMMA PostLookUpStep ==
    ASSUME ClientIInv, NEW p \in Pages, PostLookUp(p)
    PROVE  ClientIInv'
<1>1. TypeOK
    BY DEF ClientIInv
<1>2. page[p].phase = "open" /\ page[p].fin = "lookup" /\ UNCHANGED <<server, stamp>>
    BY DEF PostLookUp, Sending
<1>3. PICK fate \in Fates :
          /\ Charge(fate)
          /\ IF Heard(fate) /\ Completed(intake[page[p].form.id]) THEN Recover(p)
             ELSE GivesUp(p) /\ UNCHANGED <<local, cache>>
    BY DEF PostLookUp
<1>4. budget' \in Budgets /\ budget'.media = budget.media /\ budget'.stamps = budget.stamps
    BY <1>1, <1>3, Charged
<1>5. page[p].form # NoCopy
    BY <1>1, <1>2 DEF TypeOK
<1>6. CASE Heard(fate) /\ Completed(intake[page[p].form.id])
    BY <1>2, <1>3, <1>4, <1>5, <1>6, RecoverStep DEF Completed
<1>7. CASE ~(Heard(fate) /\ Completed(intake[page[p].form.id]))
    <2>1. GivesUp(p) /\ UNCHANGED <<intake, purchase, local, cache, stamp>> /\ files' = files
        BY <1>2, <1>3, <1>7 DEF server
    <2> QED
        BY <1>1, <1>2, <1>4, <2>1, FilesAsTheyAre, GivesUpSteps
<1> QED
    BY <1>6, <1>7

\* The post acts: the draft is completed with the page's form and all its files.
Posted(p, d) ==
    /\ intake' \in [Drafts -> Intakes] /\ purchase' \in [Drafts -> Purchases]
    /\ files' \in [Media -> Files] /\ IntakesAreSound' /\ Serves(p)
    /\ \A e \in Drafts : intake'[e].copy = intake[e].copy /\ intake'[e].by = intake[e].by
    /\ intake'[d].status = "COMPLETED"
    /\ purchase'[d].copy = page[p].form /\ purchase'[d].files = FilesOf(d)
    /\ \A m \in Media : /\ files'[m].version = files[m].version
                        /\ files'[m].of \in {files[m].of, NoCopy}
                        /\ files'[m].by = files[m].by
    /\ DeletedElsewhere(p)' = DeletedElsewhere(p)

LEMMA PostActs ==
    ASSUME ClientIInv, NEW p \in Pages, page[p].phase = "open",
           NEW d \in Drafts, d = page[p].form.id, intake[d].status = "DRAFT",
           intake' = [intake EXCEPT ![d].status = "COMPLETED", ![d].version = @ + 1],
           purchase' = [purchase EXCEPT ![d] = [copy |-> page[p].form, by |-> p, files |-> FilesOf(d)]],
           files' = [m \in Media |-> IF m \in FilesOf(d) THEN [files[m] EXCEPT !.of = NoCopy]
                                     ELSE files[m]]
    PROVE  Posted(p, d)
<1>1. TypeOK /\ IntakesAreSound
    BY DEF ClientIInv
<1>2. PICK old : old = intake[d]
    OBVIOUS
<1>3. PICK version : version = old.version + 1
    OBVIOUS
<1>4. old \in Intakes /\ version \in Nat
    BY <1>1, <1>2, <1>3 DEF TypeOK, Intakes
<1>5. PICK new : new = [old EXCEPT !.status = "COMPLETED", !.version = version]
    OBVIOUS
<1>6. new \in Intakes /\ new.status = "COMPLETED" /\ new.copy = old.copy /\ new.by = old.by
    BY <1>4, <1>5 DEF Intakes
<1>7. intake' = [intake EXCEPT ![d] = new]
    BY <1>1, <1>2, <1>3, <1>4, <1>5 DEF TypeOK, Intakes
<1>8. intake' \in [Drafts -> Intakes] /\ intake'[d] = new
      /\ \A e \in Drafts : e # d => intake'[e] = intake[e]
    <2>1. intake \in [Drafts -> Intakes]
        BY <1>1 DEF TypeOK
    <2> QED
        BY ZenonT(30), <1>6, <1>7, <2>1
<1>9. PICK bought : bought = [copy |-> page[p].form, by |-> p, files |-> FilesOf(d)]
    OBVIOUS
<1>10. page[p].form \in Copies /\ page[p].form # NoCopy
    BY <1>1, WizardColumns DEF TypeOK
<1>11. bought \in Purchases /\ bought.copy = page[p].form /\ bought.by = p
       /\ bought.files = FilesOf(d)
    BY <1>9, <1>10 DEF Purchases, FilesOf
<1>12. purchase' \in [Drafts -> Purchases] /\ purchase'[d] = bought
       /\ \A e \in Drafts : e # d => purchase'[e] = purchase[e]
    BY <1>1, <1>9, <1>11 DEF TypeOK
<1>13. \A m \in Media : /\ [files[m] EXCEPT !.of = NoCopy] \in Files
                        /\ [files[m] EXCEPT !.of = NoCopy].version = files[m].version
                        /\ [files[m] EXCEPT !.of = NoCopy].of = NoCopy
                        /\ [files[m] EXCEPT !.of = NoCopy].by = files[m].by
    BY <1>1 DEF TypeOK, Files
<1>14. files' \in [Media -> Files]
       /\ \A m \in Media : /\ files'[m].version = files[m].version
                           /\ files'[m].by = files[m].by
                           /\ \/ files'[m] = files[m]
                              \/ files'[m].of = NoCopy /\ files[m].of = d
    BY <1>1, <1>13 DEF TypeOK, FilesOf
<1>15. IntakesAreSound'
    <2>1. old.copy # NoCopy /\ old.copy.id = d
        BY <1>1, <1>2 DEF IntakesAreSound
    <2>2. ASSUME NEW e \in Drafts
          PROVE  /\ intake'[e].status = "none" <=> intake'[e].copy = NoCopy
                 /\ intake'[e].copy # NoCopy => intake'[e].copy.id = e
                 /\ intake'[e].status = "none" => intake'[e].by = NoPage
                 /\ IF intake'[e].status = "COMPLETED" THEN purchase'[e].copy # NoCopy
                                                       ELSE purchase'[e].by = NoPage
        <3>1. CASE e = d
            BY <1>6, <1>8, <1>10, <1>11, <1>12, <2>1, <3>1
        <3>2. CASE e # d
            BY <1>1, <1>8, <1>12, <3>2 DEF IntakesAreSound
        <3> QED
            BY <3>1, <3>2
    <2> QED
        BY <2>2 DEF IntakesAreSound
<1>16. Serves(p)
    <2>1. ASSUME NEW e \in Drafts
          PROVE  /\ \/ intake'[e].copy = intake[e].copy /\ intake'[e].by = intake[e].by
                    \/ intake'[e].by = p
                 /\ intake[e].status = "COMPLETED" => intake'[e].status = "COMPLETED"
                 /\ \/ purchase'[e] = purchase[e]
                    \/ purchase'[e].by = p /\ intake[e].status # "COMPLETED"
        BY <1>2, <1>6, <1>8, <1>11, <1>12
    <2>2. ASSUME NEW m \in Media
          PROVE  /\ files'[m].by \in {files[m].by, p}
                 /\ \/ files'[m].of = files[m].of \/ files[m].version = 0 \/ files'[m].by = p
                    \/ intake'[files[m].of].status = "COMPLETED"
        BY <1>6, <1>8, <1>14
    <2> QED
        BY <2>1, <2>2 DEF Serves
<1>17. DeletedElsewhere(p)' = DeletedElsewhere(p)
    BY <1>14 DEF DeletedElsewhere
<1> QED
    BY <1>2, <1>6, <1>8, <1>11, <1>12, <1>14, <1>15, <1>16, <1>17 DEF Posted

LEMMA PostStep ==
    ASSUME ClientIInv, NEW p \in Pages, Post(p)
    PROVE  ClientIInv'
<1>1. TypeOK /\ IntakesAreSound /\ PostIsSound(p) /\ FilesAreSound
    BY DEF ClientIInv
<1>2. PICK d : d = page[p].form.id
    OBVIOUS
<1>3. /\ page[p].phase = "open" /\ page[p].fin = "upload" /\ page[p].todo = {} /\ stamp' = stamp
    BY DEF Post, Sending
<1>4. PICK fate \in Fates : LET acts == Sent(fate) /\ Finalizable(d) IN
          /\ Charge(fate)
          /\ intake' = IF acts THEN [intake EXCEPT ![d].status = "COMPLETED", ![d].version = @ + 1]
                       ELSE intake
          /\ purchase' = IF acts
                         THEN [purchase EXCEPT ![d] = [copy |-> page[p].form, by |-> p, files |-> FilesOf(d)]]
                         ELSE purchase
          /\ files' = IF acts THEN [m \in Media |-> IF m \in FilesOf(d) THEN [files[m] EXCEPT !.of = NoCopy]
                                                   ELSE files[m]]
                      ELSE files
          /\ IF Heard(fate) /\ intake'[d].status = "COMPLETED"
             THEN /\ Set(p, Ended(p, "done", "answer"))
                  /\ local' = [local EXCEPT ![BrowserOf(p)] = NoCopy]
                  /\ Evicted(WindowOf(p), d)
             ELSE /\ Set(p, [page[p] EXCEPT !.fin = "lookup"]) /\ UNCHANGED <<local, cache>>
    BY <1>2 DEF Post
<1>5. budget' \in Budgets /\ budget'.media = budget.media /\ budget'.stamps = budget.stamps
    BY <1>1, <1>4, Charged
<1>6. PICK w : w = page[p]
    OBVIOUS
<1>7. /\ w \in Wizards /\ w.form \in Copies /\ d \in Drafts /\ w.form # NoCopy
      /\ w.form.media \subseteq Media /\ w.form \in AllCopies /\ w.held \subseteq w.form.media
      /\ (w.step # "idle" => w.queue # <<>>)
      /\ \A i \in DOMAIN w.queue : w.queue[i].copy \in AllCopies
    BY <1>1, <1>2, <1>3, <1>6, WizardColumns, CopiesThereAre DEF TypeOK
<1>8. /\ intake[d].status # "COMPLETED" =>
            w.form.media \subseteq FilesOf(d) \cup DeletedElsewhere(p)
      /\ purchase[d].by # p
    BY <1>1, <1>2, <1>3, <1>6, <1>7 DEF PostIsSound, FilesOf
\* What holds whether the post acts or not.
<1>9. /\ intake' \in [Drafts -> Intakes] /\ purchase' \in [Drafts -> Purchases]
      /\ files' \in [Media -> Files] /\ IntakesAreSound' /\ Serves(p)
      /\ \A e \in Drafts : intake'[e].copy = intake[e].copy /\ intake'[e].by = intake[e].by
      /\ \A m \in Media : \/ files'[m] = files[m]
                          \/ /\ files'[m].version = files[m].version
                             /\ files'[m].of \in {files[m].of, NoCopy}
                             /\ files'[m].by = files[m].by
      /\ intake'[d].status = "COMPLETED" /\ purchase'[d].by = p =>
            /\ purchase'[d].copy = w.form
            /\ w.form.media \subseteq purchase'[d].files \cup DeletedElsewhere(p)'
    <2>1. CASE Sent(fate) /\ Finalizable(d)
        <3>1. intake[d].status = "DRAFT"
            BY <2>1 DEF Finalizable
        <3>2. /\ intake' = [intake EXCEPT ![d].status = "COMPLETED", ![d].version = @ + 1]
              /\ purchase' = [purchase EXCEPT ![d] = [copy |-> page[p].form, by |-> p, files |-> FilesOf(d)]]
              /\ files' = [m \in Media |-> IF m \in FilesOf(d) THEN [files[m] EXCEPT !.of = NoCopy]
                                           ELSE files[m]]
            BY <1>4, <2>1
        <3>3. /\ intake' \in [Drafts -> Intakes] /\ purchase' \in [Drafts -> Purchases]
              /\ files' \in [Media -> Files] /\ IntakesAreSound' /\ Serves(p)
              /\ \A e \in Drafts : intake'[e].copy = intake[e].copy /\ intake'[e].by = intake[e].by
              /\ purchase'[d].copy = page[p].form /\ purchase'[d].files = FilesOf(d)
              /\ \A m \in Media : /\ files'[m].version = files[m].version
                                  /\ files'[m].of \in {files[m].of, NoCopy}
                                  /\ files'[m].by = files[m].by
              /\ DeletedElsewhere(p)' = DeletedElsewhere(p)
            <4>1. Posted(p, d)
                BY <1>2, <1>3, <1>7, <3>1, <3>2, PostActs
            <4> QED
                BY <4>1 DEF Posted
        <3>4. w.form.media \subseteq FilesOf(d) \cup DeletedElsewhere(p)
            BY <1>8, <3>1
        <3> QED
            BY <1>6, <3>3, <3>4
    <2>2. CASE ~(Sent(fate) /\ Finalizable(d))
        <3>1. UNCHANGED server
            BY <1>4, <2>2 DEF server
        <3>2. Serves(p) /\ IntakesAreSound'
            BY <1>1, <3>1, ServerStays
        <3>3. purchase'[d].by # p
            BY <1>8, <3>1 DEF server
        <3> QED
            BY <1>1, <3>1, <3>2, <3>3 DEF server, TypeOK
    <2> QED
        BY <2>1, <2>2
<1>10. \A m \in Media : \/ files'[m] = files[m]
                        \/ files'[m].version = files[m].version /\ files'[m].of = NoCopy
                              /\ files'[m].by = files[m].by
                        \/ /\ files'[m].version # 0 /\ m \notin budget.media
                           /\ files'[m].by = NoPage /\ files'[m].of \in {files[m].of, NoCopy}
    <2>1. ASSUME NEW m \in Media, files'[m].of = files[m].of, files'[m].of # NoCopy,
                 files'[m].version = files[m].version, files'[m].by = files[m].by
          PROVE  files'[m].version # 0 /\ m \notin budget.media /\ files'[m].by = NoPage
        BY <1>1, <2>1 DEF FilesAreSound
    <2> QED
        BY <1>9, <2>1
<1>11. \A e \in Drafts : intake'[e].copy \in AllCopies \cup {intake[e].copy, NoCopy}
    BY <1>9
<1>12. ASSUME Heard(fate), intake'[d].status = "COMPLETED" PROVE ClientIInv'
    <2>1. Set(p, Ended(p, "done", "answer")) /\ local' = [local EXCEPT ![BrowserOf(p)] = NoCopy]
          /\ Evicted(WindowOf(p), page[p].form.id)
        BY <1>2, <1>4, <1>12
    <2>2. PICK r : r = Ended(p, "done", "answer")
        OBVIOUS
    <2>3. Set(p, r)
        BY <2>1, <2>2
    <2>4. page'[p] = Ended(p, "done", "answer")
        BY <1>1, <2>2, <2>3, PageIsSet
    <2>5. /\ Ended(p, "done", "answer") \in Wizards
          /\ Ended(p, "done", "answer").phase = "done"
          /\ Ended(p, "done", "answer").form = page[p].form
          /\ Ended(p, "done", "answer").queue = <<>> /\ Ended(p, "done", "answer").step = "idle"
          /\ PageIsSound(p)'
        BY <1>1, <1>2, <1>6, <1>7, <1>9, <1>12, <2>4, EndsSoundly
    <2>6. r \in Wizards /\ r.phase = "done" /\ r.form = page[p].form /\ r.queue = <<>> /\ r.step = "idle"
        BY <2>2, <2>5
    <2>7. /\ r.form \in AllCopies \cup {NoCopy}
          /\ \A i \in DOMAIN r.queue : r.queue[i].copy \in AllCopies \cup {NoCopy}
        BY <1>6, <1>7, <2>6
    <2>8. CacheServed
        <3>1. page'[p].form = page[p].form /\ OnlyPage(p)
            BY <1>1, <2>3, <2>4, <2>5, PageIsSet
        <3> QED
            BY <1>9, <2>1, <3>1, CacheEvicts
    <2> QED
        BY <1>1, <1>3, <1>5, <1>9, <1>10, <1>11, <2>1, <2>3, <2>5, <2>6, <2>7, <2>8, LocalCopies,
           StepWithoutCopies
<1>13. ASSUME ~(Heard(fate) /\ intake'[d].status = "COMPLETED") PROVE ClientIInv'
    <2>1. PICK r : r = [w EXCEPT !.fin = "lookup"]
        OBVIOUS
    <2>2. /\ r \in Wizards /\ r.phase = w.phase /\ r.form = w.form /\ r.timer = w.timer
          /\ r.queue = w.queue /\ r.step = w.step /\ r.saved = w.saved /\ r.outcome = w.outcome
          /\ r.held = w.held /\ r.fin = "lookup"
        BY <1>7, <2>1 DEF Wizards
    <2>3. Set(p, r) /\ local' = local /\ UNCHANGED cache
        BY <1>4, <1>6, <1>13, <2>1
    <2>4. page'[p] = r
        BY <1>1, <2>3, PageIsSet
    <2>5. PageIsSound(p)'
        BY <1>2, <1>3, <1>6, <1>7, <1>9, <2>2, <2>4, UploadIsSound
    <2> QED
        BY <1>1, <1>3, <1>5, <1>6, <1>7, <1>9, <1>10, <1>11, <2>2, <2>3, <2>5, LocalCopies,
           StepWithoutCopies
<1> QED
    BY <1>12, <1>13

-----------------------------------------------------------------------------
(* The theorems *)

LEMMA PagesStart == Init => ClientIInv
<1> SUFFICES ASSUME Init PROVE ClientIInv
    OBVIOUS
<1>1. NewPage \in Wizards
    <2>1. <<>> \in Seq(Entries) /\ [m \in Media |-> 0] \in [Media -> Nat]
        OBVIOUS
    <2> QED
        BY <2>1 DEF NewPage, Wizards
<1>2. /\ NewPage.phase = "new" /\ NewPage.form = NoCopy /\ NewPage.queue = <<>> /\ NewPage.held = {}
      /\ NewPage.step = "idle" /\ NewPage.fin = "no" /\ NewPage.outcome = "none"
    BY DEF NewPage
<1>3. budget \in Budgets /\ budget.stamps \in Nat
    BY PurchaseClientAssumption DEF Init, Budgets
<1>4. TypeOK
    <2>1. stamp \in 0 .. budget.stamps
        BY <1>3 DEF Init
    <2>2. intake \in [Drafts -> Intakes] /\ purchase \in [Drafts -> Purchases]
          /\ files \in [Media -> Files] /\ local \in [Browsers -> Copies \cup {NoCopy}]
        BY DEF Init, Intakes, Purchases, Files
    <2>3. /\ \A p \in Pages : page[p] = NewPage
          /\ listCache \in [Windows -> (SUBSET Rows) \cup {NoCopy}]
          /\ exactCache \in [Windows -> SUBSET Rows]
        BY DEF Init
    <2>4. page \in [Pages -> Wizards]
        BY <1>1 DEF Init
    <2> QED
        BY <1>2, <1>3, <2>1, <2>2, <2>3, <2>4 DEF TypeOK
<1>5. CopiesAreNamed
    <2>1. \A w \in Windows : CachedRows(w) = {}
        BY DEF CachedRows, Init
    <2>2. AllCopies = {}
        BY <1>2, <2>1 DEF AllCopies, CopiesOf, Init
    <2> QED
        BY <2>2 DEF CopiesAreNamed
<1>6. IntakesAreSound /\ FilesAreSound /\ CacheIsSound
    <2>1. \A w \in Windows : CachedRows(w) = {}
        BY DEF CachedRows, Init
    <2>2. \A p \in Pages : page[p].phase = "new"
        BY <1>2 DEF Init
    <2> QED
        BY <2>1, <2>2 DEF Init, IntakesAreSound, FilesAreSound, CacheIsSound
<1>7. ASSUME NEW p \in Pages
      PROVE  QueueIsSound(p) /\ SaveIsSound(p) /\ PostIsSound(p) /\ EndIsSound(p)
    <2>1. page[p] = NewPage
        BY DEF Init
    <2> QED
        BY <1>2, <2>1 DEF QueueIsSound, SaveIsSound, PostIsSound, EndIsSound, Working
<1> QED
    BY <1>4, <1>5, <1>6, <1>7 DEF ClientIInv

LEMMA PagesStutter ==
    ASSUME ClientIInv, UNCHANGED vars
    PROVE  ClientIInv'
<1>1. /\ intake' = intake /\ purchase' = purchase /\ files' = files /\ local' = local
      /\ page' = page /\ stamp' = stamp /\ budget' = budget
      /\ listCache' = listCache /\ exactCache' = exactCache
    BY DEF vars, server, cache
<1>2. TypeOK'
    BY <1>1 DEF ClientIInv, TypeOK
<1>3. CopiesAreNamed'
    <2>1. AllCopies' = AllCopies
        BY <1>1 DEF AllCopies, CachedRows
    <2> QED
        BY <1>1, <2>1 DEF ClientIInv, CopiesAreNamed
<1>4. IntakesAreSound' /\ FilesAreSound' /\ CacheIsSound'
    BY <1>1 DEF ClientIInv, IntakesAreSound, FilesAreSound, CacheIsSound, CachedRows
<1>5. ASSUME NEW p \in Pages
      PROVE  QueueIsSound(p)' /\ SaveIsSound(p)' /\ PostIsSound(p)' /\ EndIsSound(p)'
    <2>1. QueueIsSound(p)'
        BY <1>1 DEF ClientIInv, QueueIsSound, Working
    <2>2. SaveIsSound(p)'
        BY <1>1 DEF ClientIInv, SaveIsSound, Stored
    <2>3. PostIsSound(p)'
        BY <1>1 DEF ClientIInv, PostIsSound, DeletedElsewhere
    <2>4. EndIsSound(p)'
        BY <1>1 DEF ClientIInv, EndIsSound, DeletedElsewhere
    <2> QED
        BY <2>1, <2>2, <2>3, <2>4
<1> QED
    BY <1>2, <1>3, <1>4, <1>5 DEF ClientIInv

LEMMA PagesStep ==
    ASSUME ClientIInv, Next
    PROVE  ClientIInv'
<1> SUFFICES ASSUME NEW p \in Pages,
                    Users(p) \/ Loads(p) \/ Autosave(p) \/ Saves(p) \/ Uploads(p)
             PROVE  ClientIInv'
    BY RefreshStep DEF Next
<1>1. CASE Users(p)
    BY <1>1, OpenStep, EditStep, GoNextStep, CloseStep, LeaveStep, FinalizeStep, PickFileStep
        DEF Users
<1>2. CASE Loads(p)
    BY <1>2, LoadStep, CloseStep DEF Loads
<1>3. CASE Autosave(p)
    BY <1>3, AutosaveStep
<1>4. CASE Saves(p)
    BY <1>4, CreateStep, PatchStep, AnsweredStep, LookUpStep, RefetchStep
        DEF Saves, CarryForward, Synchronize, PatchAgain
<1>5. CASE Uploads(p)
    BY <1>5, DeleteDroppedStep, ReselectionStep, AlreadyUploadedStep, UploadStep,
       UploadVariantStep, ReviewStep, PostStep, PostLookUpStep DEF Uploads
<1> QED
    BY <1>1, <1>2, <1>3, <1>4, <1>5

LEMMA PagesAreTruthful == ClientIInv => PagesTellTheTruth
<1> SUFFICES ASSUME ClientIInv PROVE PagesTellTheTruth
    OBVIOUS
<1>1. TypeOK /\ IntakesAreSound
    BY DEF ClientIInv
<1>2. ASSUME NEW p \in Pages
      PROVE  /\ SaveIsSound(p) /\ EndIsSound(p)
             /\ page[p].form # NoCopy => page[p].form.id \in Drafts
    BY <1>1, WizardColumns DEF ClientIInv
<1>3. DoneMeansPurchased
    BY <1>1, <1>2 DEF DoneMeansPurchased, EndIsSound, IntakesAreSound
<1>4. AnswersAreForThisForm
    BY <1>2 DEF AnswersAreForThisForm, EndIsSound
<1>5. SavedMeansStored
    BY <1>2 DEF SavedMeansStored, SaveIsSound, Stored
<1> QED
    BY <1>1, <1>3, <1>4, <1>5 DEF PagesTellTheTruth

\* Whatever the pages, browsers, drafts and files, and however many faults, edits and submissions
\* there are: a page that is done was purchased, an answer to its own post is about the form it
\* shows, with all the form's files unless another page deleted one, and a draft said to be saved is
\* on the server unless another page wrote it since (Purchase.tsx, PurchaseWizard.tsx, storage.ts).
THEOREM PagesAlwaysTellTheTruth == Spec => []PagesTellTheTruth
<1>1. ClientIInv /\ [Next]_vars => ClientIInv'
    BY PagesStep, PagesStutter
<1> QED
    BY <1>1, PagesStart, PagesAreTruthful, PTL DEF Spec

\* Only loading opens a wizard.
LEMMA OnlyLoadingOpens ==
    ASSUME TypeOK, Next, NEW p \in Pages, page[p].phase = "loading", page'[p].phase = "open"
    PROVE  Load(p)
<1>1. PICK q \in Pages : Users(q) \/ Loads(q) \/ Autosave(q) \/ Saves(q) \/ Uploads(q)
    BY DEF Next, Refresh
<1>2. ASSUME NEW r, Set(q, r), q # p PROVE FALSE
    BY <1>2, PageIsSet DEF OnlyPage
<1>3. ASSUME NEW phase, NEW outcome, phase # "open", Set(p, Ended(p, phase, outcome)) PROVE FALSE
    <2>1. Ended(p, phase, outcome).phase = phase
        BY DEF Ended, NewPage
    <2> QED
        BY <1>3, <2>1, PageIsSet
<1>4. CASE q = p
    <2>1. CASE Users(p)
        <3>1. Open(p) \/ Close(p) \/ Crash(p) \/ Leave(p) \/ Finalize(p) \/ Editable(p)
            BY <2>1 DEF Users, Edit, GoNext, PickFile, RemoveMedia
        <3> QED
            BY <3>1 DEF Open, Close, Crash, Leave, Finalize, Editable, Working
    <2>2. CASE Loads(p)
        BY <1>3, <2>2 DEF Loads, LoadCompleted
    <2>3. CASE Autosave(p)
        BY <2>3 DEF Autosave
    <2>4. CASE Saves(p)
        <3>1. Working(p)
            BY <2>4 DEF Saves, Create, CarryForward, Synchronize, Answered, LookUp, Refetch,
                        PatchAgain, Patch, Saving
        <3> QED
            BY <3>1 DEF Working
    <2>5. CASE Uploads(p)
        BY <2>5 DEF Uploads, DeleteDropped, NeedsReselection, AlreadyUploaded, Upload,
                    UploadVariant, Review, Post, PostLookUp, Uploading, Sending
    <2> QED
        BY <1>1, <1>4, <2>1, <2>2, <2>3, <2>4, <2>5
<1>5. CASE q # p
    <2>1. FALSE
        <3>1. CASE Users(q)
            <4>1. CASE Close(q) \/ Crash(q)
                <5>1. PICK w \in Windows : WindowEnds(w)
                    BY <4>1, PurchaseClientAssumption DEF Close, Crash
                <5>2. page'[p] = Ended(p, "gone", "none")
                    BY <5>1 DEF WindowEnds
                <5>3. Ended(p, "gone", "none").phase = "gone"
                    BY DEF Ended, NewPage
                <5> QED
                    BY <5>2, <5>3
            <4>2. CASE ~(Close(q) \/ Crash(q))
                BY <1>2, <1>5, <3>1, <4>2 DEF Users, Open, Edit, GoNext, Leave, Finalize, PickFile,
                                 RemoveMedia
            <4> QED
                BY <4>1, <4>2
        <3>2. CASE Loads(q)
            BY <1>2, <1>5, <3>2 DEF Loads, Load, LoadCompleted
        <3>3. CASE Autosave(q)
            BY <1>2, <1>5, <3>3 DEF Autosave
        <3>4. CASE Saves(q)
            BY <1>2, <1>5, <3>4 DEF Saves, Create, CarryForward, Synchronize, Answered, LookUp,
                Refetch, PatchAgain, Patch, Recover
        <3>5. CASE Uploads(q)
            BY <1>2, <1>5, <3>5 DEF Uploads, DeleteDropped, NeedsReselection, AlreadyUploaded,
                Upload, UploadVariant, Review, Post, PostLookUp, GivesUp, Recover
        <3> QED
            BY <1>1, <3>1, <3>2, <3>3, <3>4, <3>5
    <2> QED
        BY <2>1
<1> QED
    BY <1>4, <1>5

\* What a wizard opens is at least as new as all that it is shown, and its browser's own copy.
LEMMA NewestOfCandidates ==
    ASSUME TypeOK, NEW p \in Pages, NEW S, S \subseteq AllCopies,
           NEW draft \in InitialDrafts(S, page[p].form)
    PROVE  \A c \in S \cup ({page[p].form} \ {NoCopy}) : c.at <= draft.at
<1>1. PICK mine : mine = page[p].form
    OBVIOUS
<1>2. \A c \in S : c \in Copies
    BY CopiesThereAre
<1>3. mine # NoCopy => mine \in Copies
    BY <1>1, WizardColumns
<1>4. \A c \in Copies : c.at \in Nat
    BY DEF Copies
<1>5. PICK candidates : candidates = Candidates(S, mine)
    OBVIOUS
<1>6. \A c \in candidates : c \in Copies
    BY <1>2, <1>3, <1>5 DEF Candidates
<1>7. \A c \in S \cup ({mine} \ {NoCopy}) : \E e \in candidates : c.at <= e.at
    <2>1. CASE mine = NoCopy
        BY <1>2, <1>4, <1>5, <2>1 DEF Candidates
    <2>2. CASE mine # NoCopy
        <3>1. \E e \in candidates : mine.at <= e.at
            <4>1. CASE \E c \in S : c.id = mine.id /\ c.at >= mine.at
                BY <1>2, <1>3, <1>4, <1>5, <2>2, <4>1 DEF Candidates
            <4>2. CASE ~\E c \in S : c.id = mine.id /\ c.at >= mine.at
                BY <1>3, <1>4, <1>5, <2>2, <4>2 DEF Candidates
            <4> QED
                BY <4>1, <4>2
        <3>2. ASSUME NEW c \in S PROVE \E e \in candidates : c.at <= e.at
            <4>1. CASE c.id # mine.id \/ c.at >= mine.at
                BY <1>2, <1>4, <1>5, <2>2, <4>1 DEF Candidates
            <4>2. CASE ~(c.id # mine.id \/ c.at >= mine.at)
                BY <1>2, <1>3, <1>4, <1>6, <2>2, <3>1, <4>2
            <4> QED
                BY <4>1, <4>2
        <3> QED
            BY <3>1, <3>2
    <2> QED
        BY <2>1, <2>2
<1>8. ASSUME NEW c \in S \cup ({mine} \ {NoCopy}) PROVE c.at <= draft.at
    <2>1. PICK e \in candidates : c.at <= e.at
        BY <1>7
    <2>2. draft \in candidates /\ e.at <= draft.at
        BY <1>1, <1>5, <2>1 DEF InitialDrafts
    <2> QED
        BY <1>2, <1>3, <1>4, <1>6, <2>1, <2>2
<1> QED
    BY <1>1, <1>8

\* A wizard that opens was mounted on one of the drafts it found.
LEMMA OpensOnWhatItFinds ==
    ASSUME ClientIInv, [Next]_vars, NEW p \in Pages, page[p].phase = "loading",
           page'[p].phase = "open"
    PROVE  \E list, exact, draft, row :
               Loaded(p, list, exact, draft, row) /\ page'[p].form = draft
<1>1. TypeOK
    BY DEF ClientIInv
<1>2. Load(p)
    BY <1>1, OnlyLoadingOpens DEF vars
<1>3. PICK list, exact, draft, row : Loaded(p, list, exact, draft, row)
    BY <1>2, LoadFinds
<1>4. page'[p] = Mounted(p, draft, row) /\ page[p] \in Wizards
    BY <1>1, <1>3, PageIsSet, WizardColumns DEF Loaded
<1>5. page'[p].form = draft
    BY <1>4 DEF Mounted, Wizards
<1> QED
    BY <1>3, <1>5

\* A wizard opens a copy no older than the one its browser kept, nor than any the server lists that
\* the list of its window shows; without a list it asks for one. However many pages, windows and
\* faults there are (Purchase.tsx, selectInitialDraft; main.tsx).
THEOREM NewestCopiesOpen == Spec => NewestCopyOpens
<1>1. ClientIInv /\ [Next]_vars => ClientIInv'
    BY PagesStep, PagesStutter
<1>2. ASSUME ClientIInv, [Next]_vars,
             NEW p \in Pages, page[p].phase = "loading", page'[p].phase = "open"
      PROVE  /\ page[p].form # NoCopy => page[p].form.at <= page'[p].form.at
             /\ \A c \in Listed : page'[p].form.at < c.at =>
                   listCache[WindowOf(p)] # NoCopy /\ c \notin CopiesOf(listCache[WindowOf(p)])
    <2>1. TypeOK
        BY <1>2 DEF ClientIInv
    <2>2. PICK list, exact, draft, row : Loaded(p, list, exact, draft, row) /\ page'[p].form = draft
        BY <1>2, OpensOnWhatItFinds
    <2>3. PICK S : S = CopiesOf(Available(list, exact))
        OBVIOUS
    <2>4. S \subseteq AllCopies /\ draft \in InitialDrafts(S, page[p].form)
        BY <2>2, <2>3 DEF Loaded, KnownRow, CopiesOf, Available
    <2>5. \A c \in S \cup ({page[p].form} \ {NoCopy}) : c.at <= draft.at
        BY <2>1, <2>4, NewestOfCandidates
    <2>6. S \subseteq Copies /\ draft \in Copies
        <3>1. AllCopies \subseteq Copies
            BY <2>1, CopiesThereAre
        <3>2. \A d \in Drafts : [id |-> d, at |-> stamp, media |-> {}] \in Copies
            BY <2>1 DEF TypeOK, Copies, Budgets
        <3> QED
            BY <1>2, <2>4, <3>1, <3>2, DraftsToOpen
    <2>7. \A c \in S : ~(draft.at < c.at)
        BY <2>5, <2>6 DEF Copies
    <2>8. ASSUME NEW c \in Listed, draft.at < c.at
          PROVE  listCache[WindowOf(p)] # NoCopy /\ c \notin CopiesOf(listCache[WindowOf(p)])
        <3>1. c \notin CopiesOf(list)
            BY <2>3, <2>7, <2>8 DEF CopiesOf, Available
        <3> QED
            BY <2>2, <2>8, <3>1 DEF Loaded, ListAtHand, Listed
    <2> QED
        BY <2>2, <2>5, <2>8
<1>3. ClientIInv /\ [Next]_vars =>
          [\A p \in Pages : page[p].phase = "loading" /\ page'[p].phase = "open" =>
              /\ page[p].form # NoCopy => page[p].form.at <= page'[p].form.at
              /\ \A c \in Listed : page'[p].form.at < c.at =>
                    listCache[WindowOf(p)] # NoCopy /\ c \notin CopiesOf(listCache[WindowOf(p)])]_vars
    BY <1>2
<1> QED
    BY <1>1, <1>3, PagesStart, PTL DEF Spec, NewestCopyOpens

\* A draft that was completed in a window is not opened there again from what the window cached, by
\* no wizard whose browser did not keep a copy of it itself (purchase-intake-recovery.ts).
THEOREM CompletedDraftsAlwaysStayAway == Spec => CompletedDraftsStayAway
<1>1. ClientIInv /\ [Next]_vars => ClientIInv'
    BY PagesStep, PagesStutter
<1>2. ASSUME ClientIInv, [Next]_vars, NEW p \in Pages, NEW q \in Pages,
             page[p].phase = "loading", page'[p].phase = "open",
             page[q].phase = "done", WindowOf(q) = WindowOf(p),
             page[p].form # NoCopy => page[p].form.id # page[q].form.id
      PROVE  page'[p].form.id # page[q].form.id
    <2>1. PICK list, exact, draft, row : Loaded(p, list, exact, draft, row) /\ page'[p].form = draft
        BY <1>2, OpensOnWhatItFinds
    <2>2. PICK S : S = CopiesOf(Available(list, exact))
        OBVIOUS
    <2>3. \A c \in S : c.id # page[q].form.id
        BY <1>2, <2>1, <2>2 DEF Loaded, KnownRow, CopiesOf, Available
    <2>4. draft \in InitialDrafts(S, page[p].form)
        BY <2>1, <2>2 DEF Loaded
    <2>5. CASE draft \in Candidates(S, page[p].form)
        BY <1>2, <2>1, <2>3, <2>5 DEF Candidates
    <2>6. CASE draft \in FreshDraft
        <3>1. PICK d \in Drafts : Unused(d) /\ draft = [id |-> d, at |-> stamp, media |-> {}]
            BY <2>6 DEF FreshDraft
        <3>2. page[q].form # NoCopy
            BY <1>2 DEF ClientIInv, EndIsSound
        <3> QED
            BY <2>1, <3>1, <3>2 DEF Unused
    <2> QED
        BY <2>4, <2>5, <2>6 DEF InitialDrafts
<1>3. ClientIInv /\ [Next]_vars =>
          [\A p, q \in Pages :
              page[p].phase = "loading" /\ page'[p].phase = "open"
                  /\ page[q].phase = "done" /\ WindowOf(q) = WindowOf(p)
                  /\ (page[p].form # NoCopy => page[p].form.id # page[q].form.id)
                => page'[p].form.id # page[q].form.id]_vars
    BY <1>2
<1> QED
    BY <1>1, <1>3, PagesStart, PTL DEF Spec, CompletedDraftsStayAway

=============================================================================
