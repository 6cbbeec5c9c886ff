--------------------------- MODULE MCHoldingEditor ---------------------------
(* Instances of HoldingEditor and of Navigation for TLC: a behaviour is about the files of a lot or
   about the addresses of the pages, and the other module stays where it starts. *)
EXTENDS HoldingEditor, Navigation

CONSTANTS f1, f2, k1, k2

MCOtherDtos ==
    { [Request("review", f) EXCEPT !.cover = "yes"] : f \in {f1, f2} } \cup
    { [Request("review", f2) EXCEPT !.caption = "b"],
      Request("delete", f1),
      [Request("upload", NoFile) EXCEPT !.key = k2, !.caption = "a", !.cover = "yes"] }

MCSession(e, s, o, f) == [edits |-> e, saves |-> s, others |-> o, faults |-> f]
MCSessions == {MCSession(2, 2, 0, 1), MCSession(1, 1, 1, 0), MCSession(0, 0, 3, 1)}
MCInitialLots == {[files |-> {f1}, covers |-> {f1}], [files |-> {f1, f2}, covers |-> {}],
                  [files |-> {f1, f2}, covers |-> {f1, f2}]}

\* Visits long enough to leave an editor or a submission, go elsewhere, and be caught up by its
\* answer.
MCItineraries ==
    {[screens |-> {"dashboard", "inventory", "market"}, moves |-> 6],
     [screens |-> {"inventory", "products"}, moves |-> 7],
     [screens |-> {"purchase", "inventory"}, moves |-> 7]}

-----------------------------------------------------------------------------
VARIABLE about     \* "files" or "addresses"

PagesInit ==
    /\ Init /\ NavInit
    /\ \/ about = "files" /\ itinerary = CHOOSE i \in Itineraries : TRUE
       \/ /\ about = "addresses" /\ left = CHOOSE s \in Sessions : TRUE
          /\ DOMAIN base = {f1}

PagesNext ==
    \/ about = "files" /\ Next /\ UNCHANGED <<navVars, about>>
    \/ about = "addresses" /\ NavNext /\ UNCHANGED <<vars, about>>

pagesVars == <<vars, navVars, about>>

\* What FairSpec asks for, of the behaviours that are about the files.
OfFiles(step) == about = "files" /\ step /\ UNCHANGED <<navVars, about>>

PagesSpec ==
    /\ PagesInit /\ [][PagesNext]_pagesVars
    /\ WF_pagesVars(OfFiles(Saved))
    /\ WF_pagesVars(OfFiles(\E s \in Slots : Send(s)))
    /\ \A s \in Slots : WF_pagesVars(OfFiles(Serve(s)))
=============================================================================
