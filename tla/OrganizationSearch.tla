------------------------- MODULE OrganizationSearch -------------------------
(***************************************************************************)
(* The organizations of the catalogue: OrganizationsService.create under   *)
(* its advisory lock, OrganizationsService.search, and the search box of   *)
(* the wizards: its debounce, its searches in flight, whose answers come   *)
(* in any order, and the organizations chosen for one item.                *)
(*                                                                         *)
(* A name is a sequence of letters, already normalized.  The item's brand  *)
(* box and the box of its other roles are one box here, whose role moves.  *)
(***************************************************************************)
EXTENDS Integers, FiniteSets, SequencesExt

CONSTANTS
    Seeded,       \* the organizations there are at first
    Proposals,    \* those other clients ask to create; all in canonical order of id
    Queries,      \* what an owner types
    Roles,        \* the roles the boxes offer, "BRAND" among them
    MaxResults,   \* bound: results a search returns (20)
    Take,         \* bound: rows a search reads (100)
    Drafts,       \* the parties an item may have at first
    Efforts,      \* bound: [types, opens, picks, faults, creates]
    NoChoice

VARIABLES
    orgs,      \* the rows, aliases and capabilities with them
    creating,  \* the creations under way: [what, checked]
    box,       \* the search box
    searches,  \* the searches in flight
    parties,   \* the item's organizations; org 0 is one known by name only
    chosen,    \* ghost: the last choice, and what the list it was made from was
    effort     \* what is left of one of Efforts

orgVars == <<orgs, creating, box, searches, parties, chosen, effort>>

OrgTypeOK ==
    /\ orgs \subseteq Seeded \cup Proposals
    /\ \A c \in creating : c.what \in Proposals /\ c.checked \in BOOLEAN
    /\ box.query \in Queries /\ box.role \in Roles /\ box.open \in BOOLEAN
    /\ box.loading \in BOOLEAN /\ box.timer \in BOOLEAN
    /\ Len(box.results) <= MaxResults /\ box.active \in 0 .. MaxResults
    /\ \A s \in searches : s.seq <= box.seq
    /\ \A p \in parties : p.role \in Roles /\ p.primary \in BOOLEAN

Spent(what) == effort[what] > 0 /\ effort' = [effort EXCEPT ![what] = @ - 1]

-----------------------------------------------------------------------------
(* OrganizationsService *)

Has(name, q) == \E i \in 0 .. Len(name) - Len(q) : SubSeq(name, i + 1, i + Len(q)) = q
NamesOf(o) == {o.name} \cup o.aliases

\* findMany's WHERE.
Matching(q, role) ==
    {o \in orgs : o.active /\ role \in o.capable /\ \E n \in NamesOf(o) : Has(n, q)}

\* Verified ones first, then by canonical name.
Listed(o, p) == (o.verified /\ ~p.verified) \/ (o.verified = p.verified /\ o.id < p.id)

rank(o, q) ==
    CASE q = <<>>                                -> IF o.verified THEN 0 ELSE 1
      [] q # <<>> /\ o.name = q                  -> 0
      [] q # <<>> /\ o.name # q /\ q \in o.aliases -> 1
      [] q # <<>> /\ q \notin NamesOf(o) /\ IsPrefix(q, o.name) -> 2
      [] q # <<>> /\ q \notin NamesOf(o) /\ ~IsPrefix(q, o.name)
            /\ \E n \in o.aliases : IsPrefix(q, n) -> 3
      [] OTHER                                   -> IF o.verified THEN 4 ELSE 5

\* Fault: the best match does not come first.
Unranked(o, q) == IF o.name = q THEN 6 ELSE 0

\* Fault: nothing is cut off.
Uncut(s, n) == s

Firsts(s, n) == SubSeq(s, 1, IF Len(s) < n THEN Len(s) ELSE n)

\* The rows read are cut before they are ranked; the sort keeps equals in order.
search(q, role) ==
    LET rows   == Firsts(SetToSortSeq(Matching(q, role), Listed), Take)
        before(o, p) == rank(o, q) < rank(p, q) \/ (rank(o, q) = rank(p, q) /\ Listed(o, p))
    IN  Firsts(SetToSortSeq(ToSet(rows), before), MaxResults)

NameTaken(o) == \E p \in orgs : NamesOf(p) \cap NamesOf(o) # {}

\* Fault: the check runs outside the lock.
NoLock == TRUE

\* pg_advisory_xact_lock is held by the creation that has checked.
LockFree == \A c \in creating : ~c.checked

AskToCreate ==
    /\ Spent("creates")
    /\ \E o \in Proposals :
          /\ o \notin orgs /\ \A c \in creating : c.what # o
          /\ creating' = creating \cup {[what |-> o, checked |-> FALSE]}
    /\ UNCHANGED <<orgs, box, searches, parties, chosen>>

\* The lock, and the look for a duplicate under it.
CheckNames ==
    /\ \E c \in creating :
          /\ ~c.checked /\ LockFree
          /\ creating' = (creating \ {c})
                \cup (IF NameTaken(c.what) THEN {} ELSE {[c EXCEPT !.checked = TRUE]})
    /\ UNCHANGED <<orgs, box, searches, parties, chosen, effort>>

\* normalizedName is unique; an alias is so only among one organization's own.
Insert ==
    /\ \E c \in creating :
          /\ c.checked
          /\ orgs' = IF \E p \in orgs : p.name = c.what.name THEN orgs ELSE orgs \cup {c.what}
          /\ creating' = creating \ {c}
    /\ UNCHANGED <<box, searches, parties, chosen, effort>>

-----------------------------------------------------------------------------
(* The search box *)

OrgInit ==
    /\ orgs = Seeded /\ creating = {} /\ searches = {}
    /\ box = [query |-> <<>>, role |-> "BRAND", open |-> FALSE, loading |-> FALSE,
              timer |-> FALSE, results |-> <<>>, active |-> 1, seq |-> 0, live |-> 0,
              of |-> [query |-> <<>>, role |-> "BRAND", failed |-> TRUE, among |-> {}]]
    /\ parties \in Drafts
    /\ chosen = NoChoice
    /\ effort \in Efforts

BoxOnly == UNCHANGED <<orgs, creating, searches, parties, chosen>>

\* The effect runs again whenever the text, the role or whether it is open changes: the search
\* before it is aborted, and while it is open a new one is timed.
Effect(b) ==
    IF b.open
    THEN [b EXCEPT !.seq = @ + 1, !.live = b.seq + 1, !.loading = TRUE, !.timer = TRUE]
    ELSE [b EXCEPT !.live = 0, !.loading = FALSE, !.timer = FALSE]

Open ==
    /\ ~box.open /\ Spent("opens")
    /\ box' = Effect([box EXCEPT !.open = TRUE]) /\ BoxOnly

\* Escape, Tab, or a pointer elsewhere.
Close ==
    /\ box.open
    /\ box' = Effect([box EXCEPT !.open = FALSE]) /\ BoxOnly /\ UNCHANGED effort

Type ==
    /\ Spent("types")
    /\ \E q \in Queries \ {box.query} :
          box' = Effect([box EXCEPT !.query = q, !.open = TRUE])
    /\ BoxOnly

ChooseRole ==
    /\ Spent("opens")
    /\ \E r \in Roles \ {box.role} : box' = Effect([box EXCEPT !.role = r])
    /\ BoxOnly

\* 220 ms after the last letter.
TimerFires ==
    /\ box.timer
    /\ box' = [box EXCEPT !.timer = FALSE]
    /\ searches' = searches \cup {[seq |-> box.seq, query |-> box.query, role |-> box.role,
                                   answered |-> FALSE, answer |-> <<>>, among |-> {}]}
    /\ UNCHANGED <<orgs, creating, parties, chosen, effort>>

ServeSearch ==
    /\ \E s \in searches :
          /\ ~s.answered
          /\ searches' = (searches \ {s}) \cup
                {[s EXCEPT !.answered = TRUE, !.answer = search(s.query, s.role),
                           !.among = Matching(s.query, s.role)]}
    /\ UNCHANGED <<orgs, creating, box, parties, chosen, effort>>

\* Fault: any answer is shown.
AnyAnswer(s) == TRUE

\* The answer of the latest search, which was not aborted.
Wanted(s) == s.seq = box.seq /\ s.seq = box.live

\* The end of a search: what it brings is shown if it is wanted; the latest one, aborted or
\* not, is no longer loading.
Ended(s, results, failed) ==
    LET shown == IF Wanted(s)
                 THEN [box EXCEPT !.results = results, !.active = IF failed THEN @ ELSE 1,
                                  !.of = [query |-> s.query, role |-> s.role, failed |-> failed,
                                          among |-> s.among]]
                 ELSE box
    IN  /\ box' = IF s.seq = box.seq THEN [shown EXCEPT !.loading = FALSE] ELSE shown
        /\ searches' = searches \ {s}
        /\ UNCHANGED <<orgs, creating, parties, chosen>>

ResultsArrive == \E s \in searches : s.answered /\ Ended(s, s.answer, FALSE) /\ UNCHANGED effort
Fail == Spent("faults") /\ \E s \in searches : Ended(s, <<>>, TRUE)

\* Arrow keys and the pointer.
Move ==
    /\ box.open
    /\ \E i \in DOMAIN box.results \ {box.active} : box' = [box EXCEPT !.active = i]
    /\ BoxOnly /\ UNCHANGED effort

-----------------------------------------------------------------------------
(* What is chosen *)

PartyFor(o, role, primary) == [org |-> o.id, name |-> o.name, role |-> role, primary |-> primary]

\* Fault: the new brand joins the others.
JoinBrands(ps, p) == ps \cup {p}

replacePrimaryBrandAssignment(ps, p) == {q \in ps : q.role # "BRAND"} \cup {p}

\* An organization already in the role, by its id or its name, is not added again.
add(ps, p) ==
    IF \E q \in ps : q.role = p.role /\ ((q.org # 0 /\ q.org = p.org) \/ q.name = p.name)
    THEN ps ELSE ps \cup {p}

WithParty(ps, p) ==
    IF p.role = "BRAND" THEN replacePrimaryBrandAssignment(ps, [p EXCEPT !.primary = TRUE])
    ELSE add(ps, p)

Chosen(o, custom) ==
    [name |-> o.name, org |-> o, custom |-> custom, query |-> box.query, role |-> box.role,
     listed |-> box.open /\ ~box.loading, of |-> box.of]

Choose(o, custom) ==
    /\ Spent("picks")
    /\ parties' = WithParty(parties, PartyFor(o, box.role, FALSE))
    /\ chosen' = Chosen(o, custom)
    /\ box' = Effect([box EXCEPT !.query = <<>>, !.open = FALSE])
    /\ UNCHANGED <<orgs, creating, searches>>

\* Enter, or a click: the active one of the results there are, searching or not, open or not.
Pick == box.active \in DOMAIN box.results /\ Choose(box.results[box.active], FALSE)

exactMatch == \E i \in DOMAIN box.results : box.query \in NamesOf(box.results[i])

UseCustom ==
    /\ box.open /\ ~box.loading /\ box.query # <<>> /\ ~exactMatch
    /\ Choose([id |-> 0, name |-> box.query, aliases |-> {}], TRUE)

RemoveParty ==
    /\ Spent("picks")
    /\ \E p \in parties :
          parties' = IF p.role = "BRAND" THEN {q \in parties : q.role # "BRAND"}
                     ELSE parties \ {p}
    /\ UNCHANGED <<orgs, creating, box, searches, chosen>>

OrgNext ==
    \/ AskToCreate \/ CheckNames \/ Insert
    \/ Open \/ Close \/ Type \/ ChooseRole \/ TimerFires \/ ServeSearch \/ ResultsArrive \/ Fail
    \/ Move \/ Pick \/ UseCustom \/ RemoveParty

-----------------------------------------------------------------------------
(* Properties *)

\* No two organizations share a name or an alias, although nothing but the lock keeps aliases
\* apart from other organizations' names.
NamesAreUnique ==
    \A o, p \in orgs : o # p => NamesOf(o) \cap NamesOf(p) = {}

\* A list that is open and no longer loading is the one for the text and the role shown,
\* whatever order the answers came in.
ListIsForTheText ==
    box.open /\ ~box.loading => box.of.query = box.query /\ box.of.role = box.role

\* What is chosen from such a list bears the text that was typed.
ChoiceBearsTheText ==
    chosen # NoChoice /\ chosen.listed /\ ~chosen.custom =>
        \E n \in NamesOf(chosen.org) : Has(n, chosen.query)

\* A custom name is no name of an organization the search found, unless more matched than a
\* search reads.
CustomNamesAreNew ==
    chosen # NoChoice /\ chosen.custom /\ ~chosen.of.failed
        /\ Cardinality(chosen.of.among) <= Take =>
            \A o \in chosen.of.among : chosen.name \notin NamesOf(o)

\* PurchasesService.customSnapshots accepts the item's parties: no party twice, and one
\* primary party for a role.
PartiesAreAcceptable ==
    /\ \A p, q \in parties : p.org = q.org /\ p.role = q.role /\ p.name = q.name => p = q
    /\ \A p, q \in parties : p.primary /\ q.primary /\ p.role = q.role => p = q

\* What an item is given: organizations whose names are unique, chosen from the list for the
\* text shown, or a new name that none of them bears (organization-search.tsx).
OrganizationsAreSound ==
    /\ OrgTypeOK /\ NamesAreUnique /\ ListIsForTheText /\ ChoiceBearsTheText
    /\ CustomNamesAreNew /\ PartiesAreAcceptable
===============================================================================
