---------------------------- MODULE ScreensProofs -----------------------------
(***************************************************************************)
(* Theorems about three forms of the client and the server that books what *)
(* they send: the disposal dialog, the holding editor and the product      *)
(* wizard.  Each shows a row of a list that may be outdated, and rests on  *)
(* the same fact: a version names one content of a row, so what is         *)
(* accepted under the version shown is done to what was shown.             *)
(***************************************************************************)
EXTENDS DisposalDialog, HoldingForm, ProductEditing, FiniteSetTheorems, WellFoundedInduction, TLAPS

-----------------------------------------------------------------------------
(* Rounding *)

\* Rounding to the even neighbour gives the quotient or the one after it (toDecimalPlaces).
LEMMA EvenIsNear ==
    ASSUME NEW n \in Int, NEW d \in Nat \ {0}
    PROVE  HalfEven(n, d) \in {n \div d, n \div d + 1} /\ n \div d \in Int
<1>1. n \div d \in Int
    OBVIOUS
<1> QED
    BY <1>1 DEF HalfEven

\* And so does rounding halves up (previewSale).
LEMMA UpIsNear ==
    ASSUME NEW n \in Int, NEW d \in Nat \ {0}
    PROVE  HalfUp(n, d) \in {n \div d, n \div d + 1}
<1> DEFINE q == n \div d
           r == n % d
<1>1. q \in Int /\ r \in 0..(d - 1) /\ n = d * q + r
    OBVIOUS
<1>2. HalfUp(n, d) = (2 * d * q + (2 * r + d)) \div (2 * d)
    BY <1>1 DEF HalfUp
<1> QED
    BY <1>1, <1>2

LEMMA RoundingsAreNear ==
    ASSUME NEW n \in Int, NEW d \in Nat \ {0}
    PROVE  /\ HalfEven(n, d) \in Int /\ HalfUp(n, d) \in Int
           /\ HalfEven(n, d) - HalfUp(n, d) \in {-1, 0, 1}
BY EvenIsNear, UpIsNear

\* It is half a unit away at most.
LEMMA EvenIsWithinHalf ==
    ASSUME NEW n \in Int, NEW d \in Nat \ {0}
    PROVE  LET h == HalfEven(n, d) IN h \in Int /\ 2 * (d * h) - 2 * n \in (-d)..d
<1> DEFINE q == n \div d
           r == n % d
           h == HalfEven(n, d)
<1>1. q \in Int /\ r \in 0..(d - 1) /\ n = d * q + r
    OBVIOUS
<1>2. \/ h = q /\ 2 * r <= d
      \/ h = q + 1 /\ 2 * r >= d
    BY <1>1 DEF HalfEven
<1>3. d * (q + 1) = d * q + d /\ d * q \in Int
    BY <1>1
<1> HIDE DEF q, r, h
<1>4. h \in Int /\ 2 * (d * h) - 2 * n \in (-d)..d
    <2>1. CASE h = q /\ 2 * r <= d
        BY <1>1, <1>3, <2>1
    <2>2. CASE h = q + 1 /\ 2 * r >= d
        BY <1>1, <1>3, <2>2
    <2> QED
        BY <1>2, <2>1, <2>2
<1> QED
    BY <1>4 DEF h

\* A whole number of units is one of them each.
LEMMA WholeUnits ==
    ASSUME NEW w \in Int, NEW q \in Nat \ {0}
    PROVE  HalfEven(w * q, q) = w
<1>1. w * q \in Int /\ (w * q) \div q = w /\ (w * q) % q = 0
    OBVIOUS
<1> QED
    BY <1>1 DEF HalfEven

\* A weight kept in proportion and divided again differs by a unit at most
\* (AssetsService.update, presentHeldAsset).
LEMMA ProportionsAreNear ==
    ASSUME NEW g \in Int, NEW a \in Nat \ {0}, NEW b \in Nat \ {0}
    PROVE  DigitApart(HalfEven(HalfEven(g * b, a), b), HalfEven(g, a))
<1> DEFINE w == HalfEven(g, a)
           u == HalfEven(g * b, a)
           v == HalfEven(u, b)
<1>1. w \in Int /\ 2 * (a * w) - 2 * g \in (-a)..a
    BY EvenIsWithinHalf
<1>2. u \in Int /\ 2 * (a * u) - 2 * (g * b) \in (-a)..a
    <2>1. g * b \in Int
        OBVIOUS
    <2> QED
        BY <2>1, EvenIsWithinHalf
<1>3. v \in Int /\ 2 * (b * v) - 2 * u \in (-b)..b
    BY <1>2, EvenIsWithinHalf
<1> HIDE DEF w, u, v
<1> DEFINE x == a * b
           k == v - w
<1>4. x \in Nat /\ a <= x /\ x # 0
    OBVIOUS
<1>5. 2 * (x * w) - 2 * (g * b) \in (-x)..x
    <2>1. b * (2 * (a * w) - 2 * g) = 2 * (x * w) - 2 * (g * b) /\ b * a = x /\ b * (-a) = -x
        BY <1>1
    <2>2. \A i \in (-a)..a : b * i \in (b * (-a))..(b * a)
        OBVIOUS
    <2> QED
        BY <1>1, <2>1, <2>2
<1>6. 2 * (x * v) - 2 * (a * u) \in (-x)..x
    <2>1. a * (2 * (b * v) - 2 * u) = 2 * (x * v) - 2 * (a * u) /\ a * b = x /\ a * (-b) = -x
        BY <1>2, <1>3
    <2>2. \A i \in (-b)..b : a * i \in (a * (-b))..(a * b)
        OBVIOUS
    <2> QED
        BY <1>3, <2>1, <2>2
<1>7. x * v - x * w = x * k /\ x * v \in Int /\ x * w \in Int /\ k \in Int
    BY <1>1, <1>3
<1>8. 2 * (x * k) \in (-(3 * x))..(3 * x)
    <2>1. a * u \in Int /\ g * b \in Int
        BY <1>2
    <2> HIDE DEF x, k
    <2> QED
        BY <1>2, <1>4, <1>5, <1>6, <1>7, <2>1
<1>9. k \in {-1, 0, 1}
    <2> HIDE DEF x, k
    <2>1. CASE k >= 2
        <3>1. x * k >= x * 2
            BY <1>4, <1>7, <2>1
        <3> QED
            BY <1>4, <1>7, <1>8, <3>1
    <2>2. CASE k <= -2
        <3>1. x * k <= x * (-2)
            BY <1>4, <1>7, <2>2
        <3> QED
            BY <1>4, <1>7, <1>8, <3>1
    <2> QED
        BY <1>7, <2>1, <2>2
<1> QED
    BY <1>9 DEF DigitApart, w, u, v

-----------------------------------------------------------------------------
(* The disposal dialog: what a screen keeps *)

\* What may be rendered: rows of the list, requests and a disposal that make sense.
IsUsable(rows, r) ==
    /\ IsScreen(r)
    /\ \A l \in Holdings : Copied(rows, r.list[l], l)
    /\ r.disposal # NoDisposal => r.disposal.lot \in Holdings
    /\ \A t \in r.tasks : IsTask(t) /\ Asked(rows, t)

\* An action that moves no lot makes one screen another whole one.
Turns(s, r) == screen' = [screen EXCEPT ![s] = r] /\ IsWhole(holding, r)

\* What is rendered has a dialog only over a listed lot, and all else of what was to be shown.
LEMMA RenderedIsWhole ==
    ASSUME NEW rows, NEW old, NEW r, IsUsable(rows, r)
    PROVE  IsWhole(rows, Rendered(old, Landed(r)))
<1> DEFINE q == Landed(r)
           p == Rendered(old, q)
<1>1. /\ IsScreen(q) /\ q.list = r.list /\ q.disposal = r.disposal /\ q.tasks = r.tasks
    BY DEF IsUsable, IsScreen, ScreenFields, Landed
<1> HIDE DEF q
<1>2. /\ IsScreen(p) /\ p.list = q.list /\ p.disposal = q.disposal /\ p.tasks = q.tasks
      /\ p.dialog # NoDialog => Renders(q)
    BY <1>1 DEF Rendered, IsScreen, ScreenFields
<1> HIDE DEF p
<1>3. p.dialog # NoDialog => p.disposal # NoDisposal /\ Target(p) # NoRow
    BY <1>2 DEF Renders, Target
<1>4. IsWhole(rows, p)
    BY <1>1, <1>2, <1>3 DEF IsWhole, IsUsable
<1> QED
    BY <1>4 DEF p, q

LEMMA ShowTurns ==
    ASSUME DialogIInv, NEW s \in Screens, NEW r, IsUsable(holding, r), Show(s, r)
    PROVE  \E q : Turns(s, q)
<1>1. /\ screen' = [screen EXCEPT ![s] = Rendered(screen[s], Landed(r))]
      /\ IsWhole(holding, Rendered(screen[s], Landed(r)))
    BY RenderedIsWhole DEF Show, DialogIInv
<1> QED
    BY <1>1 DEF Turns

LEMMA ScreensAreUsable ==
    ASSUME DialogIInv, NEW s \in Screens
    PROVE  IsUsable(holding, screen[s]) /\ IsScreen(screen[s])
BY DEF DialogIInv, IsWhole, IsUsable

\* A load takes the rows as they are.
LEMMA LoadsAreUsable ==
    ASSUME DialogIInv, NEW r, IsUsable(holding, r)
    PROVE  IsUsable(holding, Loaded(r))
<1>1. \A l \in Holdings : Loaded(r).list[l] \in {holding[l], NoRow}
    BY DEF Loaded, IsUsable, IsScreen, ScreenFields
<1>2. \A l \in Holdings : Copied(holding, Loaded(r).list[l], l)
    BY <1>1 DEF Copied, DialogIInv, LotRows
<1>3. IsScreen(r)
    BY DEF IsUsable
<1>4. IsScreen(Loaded(r)) /\ Loaded(r).tasks = r.tasks /\ Loaded(r).disposal = r.disposal
    BY <1>3 DEF Loaded, IsScreen, ScreenFields
<1> QED
    BY <1>2, <1>4 DEF IsUsable

\* The parts of a screen that only say what is rendered may be anything.
LEMMA ViewsDoNotMatter ==
    ASSUME NEW rows, NEW r, IsUsable(rows, r), NEW q, IsScreen(q),
           q.list = r.list, q.tasks = r.tasks, q.disposal \in {r.disposal, NoDisposal}
    PROVE  IsUsable(rows, q)
BY DEF IsUsable

-----------------------------------------------------------------------------
(* ... and its actions *)

LEMMA ReconnectTurns ==
    ASSUME DialogIInv, NEW s \in Screens, Reconnect(s)
    PROVE  \E r : Turns(s, r)
<1> DEFINE failed == [screen[s] EXCEPT !.failed = TRUE]
<1>1. IsUsable(holding, Loaded(screen[s])) /\ IsUsable(holding, failed)
    <2>1. IsScreen(failed) /\ failed.list = screen[s].list /\ failed.tasks = screen[s].tasks
          /\ failed.disposal = screen[s].disposal
        BY ScreensAreUsable DEF IsScreen, ScreenFields
    <2> QED
        BY <2>1, ScreensAreUsable, LoadsAreUsable, ViewsDoNotMatter
<1>2. Show(s, Loaded(screen[s])) \/ Show(s, failed)
    BY DEF Reconnect
<1> QED
    BY <1>1, <1>2, ShowTurns

LEMMA NavigateTurns ==
    ASSUME DialogIInv, NEW s \in Screens, Navigate(s) \/ PopState(s)
    PROVE  \E r : Turns(s, r)
<1> DEFINE o == screen[s]
<1>1. \A view : IsUsable(holding, Pushed(o, view)) /\ IsUsable(holding, Replaced(o, view))
    <2> TAKE view
    <2>1. ASSUME NEW q, q \in {Pushed(o, view), Replaced(o, view)}
          PROVE  IsScreen(q) /\ q.list = o.list /\ q.tasks = o.tasks /\ q.disposal = o.disposal
        BY <2>1, ScreensAreUsable DEF IsScreen, ScreenFields, Pushed, Replaced
    <2> QED
        BY <2>1, ScreensAreUsable, ViewsDoNotMatter
<1>2. \A to : IsUsable(holding, [o EXCEPT !.at = to])
    <2> TAKE to
    <2>1. LET q == [o EXCEPT !.at = to] IN
          IsScreen(q) /\ q.list = o.list /\ q.tasks = o.tasks /\ q.disposal = o.disposal
        BY ScreensAreUsable DEF IsScreen, ScreenFields
    <2> QED
        BY <2>1, ScreensAreUsable, ViewsDoNotMatter
<1>3. \/ \E view : Show(s, Pushed(o, view)) \/ Show(s, Replaced(o, view))
      \/ \E to : Show(s, [o EXCEPT !.at = to])
    BY DEF Navigate, PopState
<1> QED
    BY <1>1, <1>2, <1>3, ShowTurns

LEMMA ChooseActionTurns ==
    ASSUME DialogIInv, NEW s \in Screens, ChooseAction(s)
    PROVE  \E r : Turns(s, r)
<1>1. PICK l \in Holdings, a \in trial.actions : Show(s, [screen[s] EXCEPT !.disposal = [action |-> a, lot |-> l]])
    BY DEF ChooseAction
<1>2. IsUsable(holding, [screen[s] EXCEPT !.disposal = [action |-> a, lot |-> l]])
    <2> DEFINE q == [screen[s] EXCEPT !.disposal = [action |-> a, lot |-> l]]
    <2>1. IsScreen(q) /\ q.list = screen[s].list /\ q.tasks = screen[s].tasks /\ q.disposal.lot = l
        BY ScreensAreUsable DEF IsScreen, ScreenFields
    <2> HIDE DEF q
    <2>2. IsUsable(holding, q)
        BY <2>1, ScreensAreUsable DEF IsUsable
    <2> QED
        BY <2>2 DEF q
<1> QED
    BY <1>1, <1>2, ShowTurns

\* What is under way stays so, with no dialog to return to.
LEMMA RemountTurns ==
    ASSUME DialogIInv, NEW s \in Screens, Remount(s)
    PROVE  \E r : Turns(s, r)
<1> DEFINE o == screen[s]
           rest == {[t EXCEPT !.n = 0] : t \in o.tasks}
           r == [o EXCEPT !.disposal = NoDisposal, !.tasks = rest]
<1>1. \A t \in rest : IsTask(t) /\ Asked(holding, t)
    <2> SUFFICES ASSUME NEW u \in o.tasks
                 PROVE  IsTask([u EXCEPT !.n = 0]) /\ Asked(holding, [u EXCEPT !.n = 0])
        OBVIOUS
    <2>1. IsTask(u) /\ Asked(holding, u)
        BY ScreensAreUsable DEF IsUsable
    <2> QED
        BY <2>1 DEF IsTask, TaskFields, Asked, ShownOf
<1>2. IsUsable(holding, r)
    <2> HIDE DEF rest
    <2>1. IsScreen(r) /\ r.list = o.list /\ r.tasks = rest /\ r.disposal = NoDisposal
        BY ScreensAreUsable DEF IsScreen, ScreenFields
    <2> HIDE DEF r
    <2> QED
        BY <1>1, <2>1, ScreensAreUsable DEF IsUsable
<1>3. Show(s, r) \/ Show(s, Loaded(r))
    BY DEF Remount
<1> QED
    BY <1>2, <1>3, ShowTurns, LoadsAreUsable

\* An open dialog may say anything, as long as the requests make sense.
LEMMA DialogsDoNotMatter ==
    ASSUME DialogIInv, NEW s \in Screens, screen[s].dialog # NoDialog, NEW r, IsScreen(r),
           r.list = screen[s].list, r.disposal = screen[s].disposal,
           \A t \in r.tasks : IsTask(t) /\ Asked(holding, t)
    PROVE  IsWhole(holding, r)
BY DEF DialogIInv, IsWhole, Target

LEMMA TypeTurns ==
    ASSUME DialogIInv, NEW s \in Screens, Type(s)
    PROVE  \E r : Turns(s, r)
<1>1. screen[s].dialog # NoDialog
    BY DEF Type, Enabled
<1>2. PICK d : screen' = [screen EXCEPT ![s].dialog = d]
    BY DEF Type
<1> DEFINE r == [screen[s] EXCEPT !.dialog = d]
<1>3. /\ IsScreen(r) /\ r.list = screen[s].list /\ r.disposal = screen[s].disposal
      /\ r.tasks = screen[s].tasks
    BY ScreensAreUsable DEF IsScreen, ScreenFields
<1>4. IsWhole(holding, r)
    <2> HIDE DEF r
    <2> QED
        BY <1>1, <1>3, ScreensAreUsable, DialogsDoNotMatter DEF IsUsable
<1>5. screen' = [screen EXCEPT ![s] = r]
    BY <1>2
<1> QED
    BY <1>4, <1>5 DEF Turns

\* What is sent is what the dialog shows of the row the list has (handleSubmit).
LEMMA SubmittedIsAsked ==
    ASSUME DialogIInv, NEW s \in Screens, screen[s].dialog # NoDialog, ValidDisposal(screen[s])
    PROVE  LET t == Task("post", "sent", screen[s], ShownVersion(screen[s]))
           IN  IsTask(t) /\ Asked(holding, t)
<1> DEFINE o == screen[s]
           l == o.disposal.lot
           row == Target(o)
           t == Task("post", "sent", o, ShownVersion(o))
<1>1. /\ l \in Holdings /\ row \in LotRows /\ row.version <= holding[l].version
      /\ row.version = holding[l].version => row = holding[l]
    BY DEF DialogIInv, IsWhole, Copied, Target
<1>2. /\ row.version \in Nat \ {0} /\ row.quantity \in Nat
    BY <1>1 DEF LotRows
<1>3. /\ o.dialog.quantity \in Nat \ {0}
      /\ o.disposal.action = "SALE" => o.dialog.proceeds \in Nat /\ o.dialog.fees \in Nat
    BY <1>2 DEF ValidDisposal, IsMoney
<1>4. /\ IsTask(t) /\ t.stage = "sent" /\ t.lot = l /\ t.action = o.disposal.action
      /\ t.read = row.version /\ t.version = row.version
      /\ t.proceeds = o.dialog.proceeds /\ t.fees = o.dialog.fees /\ t.shown = Shown(o)
    BY DEF Task, IsTask, TaskFields, ShownVersion
<1>5. t.shown.quantity = o.dialog.quantity /\ t.shown = ShownOf(t, row)
    BY <1>4 DEF Shown, ShownOf, PreviewSale
<1> HIDE DEF t, row, l
<1>6. IsTask(t) /\ Asked(holding, t)
    BY <1>1, <1>2, <1>3, <1>4, <1>5 DEF Asked
<1> QED
    BY <1>6 DEF t

LEMMA SubmitTurns ==
    ASSUME DialogIInv, NEW s \in Screens, SubmitDisposal(s)
    PROVE  \E r : Turns(s, r)
<1> DEFINE o == screen[s]
           t == Task("post", "sent", o, ShownVersion(o))
<1>1. o.dialog # NoDialog
    BY DEF SubmitDisposal, Enabled
<1>2. CASE ValidDisposal(o)
    <2> DEFINE r == [o EXCEPT !.dialog = [o.dialog EXCEPT !.error = FALSE], !.tasks = @ \cup {t}]
    <2>1. screen' = [screen EXCEPT ![s] = r]
        BY <1>2 DEF SubmitDisposal, DialogIInv
    <2>2. IsTask(t) /\ Asked(holding, t)
        BY <1>1, <1>2, SubmittedIsAsked
    <2> HIDE DEF t
    <2>3. /\ IsScreen(r) /\ r.list = o.list /\ r.disposal = o.disposal
          /\ r.tasks = o.tasks \cup {t}
        BY ScreensAreUsable DEF IsScreen, ScreenFields
    <2> HIDE DEF r
    <2>4. IsWhole(holding, r)
        BY <1>1, <2>2, <2>3, ScreensAreUsable, DialogsDoNotMatter DEF IsUsable
    <2> QED
        BY <2>1, <2>4 DEF Turns
<1>3. CASE ~ValidDisposal(o)
    <2> DEFINE r == [o EXCEPT !.dialog = [o.dialog EXCEPT !.error = TRUE]]
    <2>1. screen' = [screen EXCEPT ![s] = r]
        BY <1>3 DEF SubmitDisposal, DialogIInv
    <2>2. /\ IsScreen(r) /\ r.list = o.list /\ r.disposal = o.disposal
          /\ r.tasks = o.tasks
        BY ScreensAreUsable DEF IsScreen, ScreenFields
    <2> HIDE DEF r
    <2>3. IsWhole(holding, r)
        BY <1>1, <2>2, ScreensAreUsable, DialogsDoNotMatter DEF IsUsable
    <2> QED
        BY <2>1, <2>3 DEF Turns
<1> QED
    BY <1>2, <1>3

LEMMA CloseIfIdleTurns ==
    ASSUME DialogIInv, NEW s \in Screens, CloseIfIdle(s)
    PROVE  \E r : Turns(s, r)
<1> DEFINE r == [screen[s] EXCEPT !.disposal = NoDisposal]
<1>1. IsScreen(r) /\ r.list = screen[s].list /\ r.tasks = screen[s].tasks /\ r.disposal = NoDisposal
    BY ScreensAreUsable DEF IsScreen, ScreenFields
<1>2. Show(s, r)
    BY DEF CloseIfIdle
<1> HIDE DEF r
<1> QED
    BY <1>1, <1>2, ScreensAreUsable, ViewsDoNotMatter, ShowTurns

LEMMA RecoverTurns ==
    ASSUME DialogIInv, NEW s \in Screens, Recover(s)
    PROVE  \E r : Turns(s, r)
<1> DEFINE o == screen[s]
           t == Task("recovery", "booked", o, 0)
           r == [o EXCEPT !.dialog = [o.dialog EXCEPT !.recovering = TRUE], !.tasks = @ \cup {t}]
<1>1. o.dialog # NoDialog /\ screen' = [screen EXCEPT ![s] = r]
    BY DEF Recover, DialogIInv
<1>2. IsTask(t) /\ Asked(holding, t)
    BY DEF Task, IsTask, TaskFields, Asked
<1> HIDE DEF t
<1>3. IsScreen(r) /\ r.list = o.list /\ r.disposal = o.disposal /\ r.tasks = o.tasks \cup {t}
    BY ScreensAreUsable DEF IsScreen, ScreenFields
<1> HIDE DEF r
<1>4. IsWhole(holding, r)
    BY <1>1, <1>2, <1>3, ScreensAreUsable, DialogsDoNotMatter DEF IsUsable
<1> QED
    BY <1>1, <1>4 DEF Turns

\* Requests come, go on and go as they like.
LEMMA TasksTurn ==
    ASSUME DialogIInv, NEW s \in Screens, NEW tasks, \A t \in tasks : IsTask(t) /\ Asked(holding, t)
    PROVE  LET r == [screen[s] EXCEPT !.tasks = tasks]
           IN  IsUsable(holding, r) /\ IsWhole(holding, r) /\ r.dialog = screen[s].dialog
<1> DEFINE r == [screen[s] EXCEPT !.tasks = tasks]
<1>1. /\ IsScreen(r) /\ r.list = screen[s].list /\ r.disposal = screen[s].disposal
      /\ r.dialog = screen[s].dialog /\ r.tasks = tasks
    BY ScreensAreUsable DEF IsScreen, ScreenFields
<1> HIDE DEF r
<1>2. IsUsable(holding, r)
    BY <1>1, ScreensAreUsable DEF IsUsable
<1>3. IsWhole(holding, r)
    BY <1>1 DEF DialogIInv, IsWhole, Target
<1> QED
    BY <1>1, <1>2, <1>3 DEF r

\* A request that was served or refused is no longer asked.
LEMMA TasksMoveOn ==
    ASSUME DialogIInv, NEW s \in Screens, NEW t \in screen[s].tasks, NEW stage, stage # "sent"
    PROVE  LET tasks == (screen[s].tasks \ {t}) \cup {[t EXCEPT !.stage = stage]}
           IN  \A u \in tasks : IsTask(u) /\ Asked(holding, u)
<1>1. IsTask(t)
    BY ScreensAreUsable DEF IsUsable
<1>2. IsTask([t EXCEPT !.stage = stage]) /\ [t EXCEPT !.stage = stage].stage = stage
    BY <1>1 DEF IsTask, TaskFields
<1>3. Asked(holding, [t EXCEPT !.stage = stage])
    BY <1>2 DEF Asked
<1> QED
    BY <1>2, <1>3, ScreensAreUsable DEF IsUsable

LEMMA AdvanceTurns ==
    ASSUME DialogIInv, NEW s \in Screens, NEW t \in screen[s].tasks, NEW stage, stage # "sent",
           Advance(s, t, stage)
    PROVE  \E r : Turns(s, r)
<1> DEFINE tasks == (screen[s].tasks \ {t}) \cup {[t EXCEPT !.stage = stage]}
<1>1. \A u \in tasks : IsTask(u) /\ Asked(holding, u)
    BY TasksMoveOn
<1>2. screen' = [screen EXCEPT ![s] = [screen[s] EXCEPT !.tasks = tasks]]
    BY DEF Advance
<1> HIDE DEF tasks
<1> QED
    BY <1>1, <1>2, TasksTurn DEF Turns

LEMMA FailDisposalTurns ==
    ASSUME DialogIInv, NEW s \in Screens, NEW t \in screen[s].tasks, FailDisposal(s, t)
    PROVE  \E r : Turns(s, r)
<1> DEFINE r == Without(s, t)
           d == [r.dialog EXCEPT !.conflict = TRUE]
<1>1. /\ IsUsable(holding, r) /\ IsWhole(holding, r) /\ r.dialog = screen[s].dialog
      /\ IsScreen(r) /\ r.list = screen[s].list /\ r.disposal = screen[s].disposal
    <2>1. \A u \in screen[s].tasks \ {t} : IsTask(u) /\ Asked(holding, u)
        BY ScreensAreUsable DEF IsUsable
    <2>2. IsUsable(holding, r) /\ IsWhole(holding, r) /\ r.dialog = screen[s].dialog
        BY <2>1, TasksTurn DEF Without
    <2>3. IsScreen(r) /\ r.list = screen[s].list /\ r.disposal = screen[s].disposal
        BY ScreensAreUsable DEF IsScreen, ScreenFields, Without
    <2> QED
        BY <2>2, <2>3
<1>2. CASE ~IsOpen(s, t)
    BY <1>1, <1>2 DEF FailDisposal, Turns
<1>3. CASE IsOpen(s, t)
    <2>1. PICK e : screen' = [screen EXCEPT ![s] = [r EXCEPT !.dialog = e]]
        <3>1. CASE t.stage = "conflict"
            <4> DEFINE both == [[r EXCEPT !.dialog = d] EXCEPT !.dialog = [@ EXCEPT !.error = FALSE]]
            <4>1. screen' = [screen EXCEPT ![s] = both]
                BY <1>3, <3>1 DEF FailDisposal
            <4>2. both = [r EXCEPT !.dialog = [d EXCEPT !.error = FALSE]]
                <5> HIDE DEF r, d
                <5> QED
                    BY <1>1 DEF IsScreen, ScreenFields
            <4> QED
                BY <4>1, <4>2
        <3>2. CASE t.stage # "conflict"
            BY <1>3, <3>2 DEF FailDisposal
        <3> QED
            BY <3>1, <3>2
    <2> DEFINE q == [r EXCEPT !.dialog = e]
    <2> HIDE DEF r
    <2>2. /\ IsScreen(q) /\ q.list = r.list /\ q.disposal = r.disposal
          /\ q.tasks = r.tasks
        BY <1>1 DEF IsScreen, ScreenFields
    <2>3. screen[s].dialog # NoDialog
        BY <1>3 DEF IsOpen
    <2>4. screen' = [screen EXCEPT ![s] = q]
        BY <2>1
    <2> HIDE DEF q
    <2>5. IsWhole(holding, q)
        BY <1>1, <2>2, <2>3, DialogsDoNotMatter DEF IsUsable
    <2> QED
        BY <2>4, <2>5 DEF Turns
<1> QED
    BY <1>2, <1>3

LEMMA RefreshTurns ==
    ASSUME DialogIInv, NEW s \in Screens, NEW t \in screen[s].tasks, Refresh(s, t)
    PROVE  \E r : Turns(s, r)
<1> DEFINE gone == screen[s].tasks \ {t}
           next == gone \cup {[t EXCEPT !.stage = "refreshed"]}
           r == [screen[s] EXCEPT !.tasks = next]
           failed == [r EXCEPT !.failed = TRUE]
<1>1. IsUsable(holding, r) /\ IsScreen(r)
    <2>1. \A u \in next : IsTask(u) /\ Asked(holding, u)
        BY TasksMoveOn
    <2> HIDE DEF next
    <2> QED
        BY <2>1, TasksTurn DEF IsUsable
<1>2. IsUsable(holding, Loaded(r)) /\ IsUsable(holding, failed)
    <2> HIDE DEF r
    <2>1. IsScreen(failed) /\ failed.list = r.list /\ failed.tasks = r.tasks
          /\ failed.disposal = r.disposal
        BY <1>1 DEF IsScreen, ScreenFields
    <2> HIDE DEF failed
    <2> QED
        BY <1>1, <2>1, LoadsAreUsable, ViewsDoNotMatter
<1>3. \A u \in gone : IsTask(u) /\ Asked(holding, u)
    BY ScreensAreUsable DEF IsUsable
<1>4. IsWhole(holding, Without(s, t))
    BY <1>3, TasksTurn DEF Without
<1>5. [Without(s, t) EXCEPT !.tasks = @ \cup {[t EXCEPT !.stage = "refreshed"]}] = r
    <2>1. IsScreen(screen[s])
        BY ScreensAreUsable
    <2> QED
        BY <2>1 DEF Without, IsScreen, ScreenFields
<1>6. \/ Show(s, Loaded(r)) \/ Show(s, failed)
      \/ screen' = [screen EXCEPT ![s] = Without(s, t)]
    BY <1>5 DEF Refresh, LoadOrFail
<1> HIDE DEF r, failed
<1> QED
    BY <1>2, <1>4, <1>6, ShowTurns DEF Turns

LEMMA CloseTurns ==
    ASSUME DialogIInv, NEW s \in Screens, NEW t \in screen[s].tasks, Close(s, t)
    PROVE  \E r : Turns(s, r)
<1> DEFINE gone == screen[s].tasks \ {t}
           r == Without(s, t)
           shut == [r EXCEPT !.disposal = NoDisposal]
<1>1. \A u \in gone : IsTask(u) /\ Asked(holding, u)
    BY ScreensAreUsable DEF IsUsable
<1>2. IsUsable(holding, r) /\ IsScreen(r)
    BY <1>1, TasksTurn DEF Without, IsUsable
<1>3. Show(s, r) \/ Show(s, shut)
    BY DEF Close
<1> HIDE DEF r
<1>4. IsScreen(shut) /\ shut.list = r.list /\ shut.tasks = r.tasks /\ shut.disposal = NoDisposal
    BY <1>2 DEF IsScreen, ScreenFields
<1> HIDE DEF shut
<1> QED
    BY <1>2, <1>3, <1>4, ViewsDoNotMatter, ShowTurns

-----------------------------------------------------------------------------
(* ... and the lots *)

\* A row that changes becomes a later version of itself.
GoesOn(rows, later) ==
    \A l \in Holdings : later[l] = rows[l] \/ rows[l].version < later[l].version

\* What was shown of an older version makes no claim on a later one.
LEMMA OlderClaimsLapse ==
    ASSUME NEW rows \in [Holdings -> LotRows], NEW later \in [Holdings -> LotRows],
           GoesOn(rows, later), NEW r, IsWhole(rows, r)
    PROVE  IsWhole(later, r)
<1>0. \A l \in Holdings : /\ rows[l].version \in Nat /\ later[l].version \in Nat
                          /\ rows[l].version <= later[l].version
                          /\ rows[l].version = later[l].version => later[l] = rows[l]
    BY DEF GoesOn, LotRows
<1>1. \A l \in Holdings : Copied(later, r.list[l], l)
    <2> SUFFICES ASSUME NEW l \in Holdings, r.list[l] # NoRow
                 PROVE  Copied(later, r.list[l], l)
        BY DEF Copied
    <2>1. Copied(rows, r.list[l], l)
        BY DEF IsWhole
    <2>2. r.list[l] \in LotRows /\ r.list[l].version \in Nat
        BY <2>1 DEF Copied, LotRows
    <2>3. /\ r.list[l].version <= rows[l].version
          /\ r.list[l].version = rows[l].version => r.list[l] = rows[l]
        BY <2>1 DEF Copied
    <2>4. /\ r.list[l].version <= later[l].version
          /\ r.list[l].version = later[l].version => later[l] = rows[l]
        <3>1. /\ rows[l].version \in Nat /\ later[l].version \in Nat
              /\ rows[l].version <= later[l].version
              /\ rows[l].version = later[l].version => later[l] = rows[l]
            BY <1>0
        <3> DEFINE v == r.list[l].version
                   n == rows[l].version
                   m == later[l].version
        <3>2. v \in Nat /\ n \in Nat /\ m \in Nat /\ v <= n /\ n <= m
            BY <2>2, <2>3, <3>1
        <3> HIDE DEF v, n, m
        <3>3. v <= m /\ (v = m => n = m)
            BY <3>2
        <3> QED
            BY <3>1, <3>3 DEF v, n, m
    <2> QED
        BY <2>2, <2>3, <2>4 DEF Copied
<1>2. \A t \in r.tasks : IsTask(t) /\ Asked(later, t)
    <2> SUFFICES ASSUME NEW t \in r.tasks PROVE IsTask(t) /\ Asked(later, t)
        OBVIOUS
    <2>1. IsTask(t) /\ Asked(rows, t)
        BY DEF IsWhole
    <2>2. CASE t.stage # "sent"
        BY <2>1, <2>2 DEF Asked
    <2>3. CASE t.stage = "sent"
        <3>1. t.lot \in Holdings /\ t.version \in Nat /\ t.version <= rows[t.lot].version
            BY <2>1, <2>3 DEF Asked
        <3>0. rows[t.lot].version \in Nat /\ later[t.lot].version \in Nat
              /\ rows[t.lot].version <= later[t.lot].version
            BY <1>0, <3>1
        <3>2. t.version <= later[t.lot].version
            BY <3>0, <3>1
        <3>3. t.version = later[t.lot].version => later[t.lot] = rows[t.lot]
            <4>1. rows[t.lot].version = later[t.lot].version => later[t.lot] = rows[t.lot]
                BY <1>0, <3>1
            <4> QED
                BY <3>0, <3>1, <4>1
        <3> QED
            BY <2>1, <2>3, <3>2, <3>3 DEF Asked
    <2> QED
        BY <2>2, <2>3
<1> QED
    BY <1>1, <1>2 DEF IsWhole

\* What is booked of a request is what its dialog showed, up to the rounding of a share.
LEMMA BookedAsShown ==
    ASSUME DialogIInv, NEW s \in Screens, NEW t \in screen[s].tasks,
           t.stage = "sent", Verdict(t) = "booked"
    PROVE  LET sale == BookedSale(t)
               row  == holding[t.lot]
           IN  /\ t.lot \in Holdings /\ t.read = row.version /\ row.version \in Nat
               /\ sale.quantity = t.shown.quantity /\ sale.left = t.shown.left
               /\ sale.left \in Nat /\ sale.cost \in Int
               /\ "net" \in DOMAIN t.shown =>
                    /\ sale.net = t.shown.net /\ WithinAUnit(sale.cost, t.shown.cost)
                    /\ WithinAUnit(sale.pnl, t.shown.pnl)
<1> DEFINE row  == holding[t.lot]
           sale == BookedSale(t)
           q    == t.shown.quantity
           even == IF q = row.quantity THEN row.cost ELSE HalfEven(row.cost * q, row.quantity)
           up   == IF q = row.quantity THEN row.cost ELSE HalfUp(row.cost * q, row.quantity)
<1>1. Asked(holding, t)
    BY ScreensAreUsable DEF IsUsable
<1>2. /\ t.lot \in Holdings /\ t.version \in Nat \ {0} /\ t.read = t.version /\ q \in Nat \ {0}
      /\ t.action = "SALE" => t.proceeds \in Nat /\ t.fees \in Nat
    BY <1>1 DEF Asked
<1>3. row \in LotRows /\ row.quantity \in Nat /\ row.cost \in Int /\ row.version \in Nat
    BY <1>2 DEF DialogIInv, LotRows
<1>4. t.version = row.version /\ ~(q > row.quantity)
    BY <1>2 DEF Verdict
<1>5. t.shown = ShownOf(t, row)
    BY <1>1, <1>4 DEF Asked
<1>6. row.quantity \in Nat \ {0} /\ row.quantity - q \in Nat /\ row.cost * q \in Int
    BY <1>2, <1>3, <1>4
<1>7. even \in Int /\ up \in Int /\ even - up \in {-1, 0, 1}
    <2>1. LET n == row.cost * q
              d == row.quantity
          IN  /\ HalfEven(n, d) \in Int /\ HalfUp(n, d) \in Int
              /\ HalfEven(n, d) - HalfUp(n, d) \in {-1, 0, 1}
        BY <1>6, RoundingsAreNear
    <2> QED
        BY <1>3, <2>1
<1>8. CASE t.action # "SALE"
    <2>1. sale = [quantity |-> q, left |-> row.quantity - q, cost |-> even]
        BY <1>8 DEF BookedSale
    <2>2. t.shown = [quantity |-> q, left |-> row.quantity - q]
        BY <1>5, <1>8 DEF ShownOf
    <2>3. "net" \notin DOMAIN t.shown /\ t.shown.left = row.quantity - q
        BY <2>2
    <2> HIDE DEF even, q, row, sale
    <2> QED
        BY <1>2, <1>3, <1>4, <1>6, <1>7, <2>1, <2>3 DEF q, row, sale
<1>9. CASE t.action = "SALE"
    <2> DEFINE net == t.proceeds - t.fees
    <2>1. /\ sale.quantity = q /\ sale.left = row.quantity - q /\ sale.cost = even
          /\ sale.net = net /\ sale.pnl = net - even
        BY <1>9 DEF BookedSale
    <2>2. t.shown = [quantity |-> q, left |-> row.quantity - q, cost |-> up,
                     net |-> net, pnl |-> net - up]
        BY <1>5, <1>9 DEF ShownOf, PreviewSale
    <2>3. t.shown.left = row.quantity - q /\ t.shown.cost = up /\ t.shown.net = net
          /\ t.shown.pnl = net - up
        BY <2>2
    <2>4. net \in Int
        BY <1>2, <1>9
    <2> HIDE DEF even, up, net
    <2>5. (net - even) - (net - up) \in {-1, 0, 1}
        BY <1>7, <2>4
    <2> HIDE DEF q, row, sale
    <2> QED
        BY <1>2, <1>3, <1>4, <1>6, <1>7, <2>1, <2>3, <2>5 DEF WithinAUnit, q, row, sale
<1> QED
    BY <1>8, <1>9

\* A served request books what was shown, once, and leaves a later version of the lot.
LEMMA ServedLots ==
    ASSUME DialogIInv, NEW s \in Screens, NEW t \in screen[s].tasks, Serve(s, t)
    PROVE  /\ holding' \in [Holdings -> LotRows] /\ GoesOn(holding, holding')
           /\ \A m \in booked' : m.lot \in Holdings /\ m.read \in Nat
                                 /\ m.read < holding'[m.lot].version
           /\ DisposalsAreBookedAsShown'
<1>1. CASE Verdict(t) # "booked"
    <2>1. UNCHANGED <<holding, booked>>
        BY <1>1 DEF Serve
    <2> QED
        BY <2>1 DEF DialogIInv, GoesOn, DisposalsAreBookedAsShown
<1>2. CASE Verdict(t) = "booked"
    <2> DEFINE sale == BookedSale(t)
               l    == t.lot
               row  == holding[l]
               m    == [lot |-> l, read |-> t.read, was |-> row.version,
                        shown |-> t.shown, sale |-> sale]
               next == [status |-> StatusAfter(t.action, sale.left), version |-> row.version + 1,
                        quantity |-> sale.left, cost |-> row.cost - sale.cost]
    <2>1. /\ l \in Holdings /\ t.read = row.version /\ row.version \in Nat
          /\ sale.quantity = t.shown.quantity /\ sale.left = t.shown.left
          /\ sale.left \in Nat /\ sale.cost \in Int
          /\ "net" \in DOMAIN t.shown =>
               /\ sale.net = t.shown.net /\ WithinAUnit(sale.cost, t.shown.cost)
               /\ WithinAUnit(sale.pnl, t.shown.pnl)
        BY <1>2, BookedAsShown DEF Serve
    <2>2. booked' = booked \cup {m} /\ holding' = [holding EXCEPT ![l] = next]
        BY <1>2 DEF Serve
    <2>3. row \in LotRows /\ row.cost \in Int
        BY <2>1 DEF DialogIInv, LotRows
    <2>4. m.lot = l /\ m.read = t.read /\ m.shown = t.shown /\ m.sale = sale
        OBVIOUS
    <2>5. next \in LotRows /\ next.version = row.version + 1
        <3>1. StatusAfter(t.action, sale.left) \in {"HELD", "SOLD", "LOST", "GIFTED"}
            BY DEF StatusAfter
        <3> HIDE DEF sale, row
        <3> QED
            BY <2>1, <2>3, <3>1 DEF LotRows
    <2> HIDE DEF m, next, sale, row, l
    <2>6. holding' \in [Holdings -> LotRows]
        BY <2>1, <2>2, <2>5 DEF DialogIInv
    <2>7. \A k \in Holdings : holding'[k] = IF k = l THEN next ELSE holding[k]
        BY <2>2 DEF DialogIInv
    <2>8. GoesOn(holding, holding')
        BY <2>1, <2>5, <2>7 DEF GoesOn, row
    <2>9. \A b \in booked' : b.lot \in Holdings /\ b.read \in Nat
                             /\ b.read < holding'[b.lot].version
        <3> SUFFICES ASSUME NEW b \in booked'
                     PROVE  b.lot \in Holdings /\ b.read \in Nat
                            /\ b.read < holding'[b.lot].version
            OBVIOUS
        <3>1. CASE b = m
            BY <2>1, <2>4, <2>5, <2>7, <3>1
        <3>2. CASE b \in booked
            <4>1. b.lot \in Holdings /\ b.read \in Nat /\ b.read < holding[b.lot].version
                BY <3>2 DEF DialogIInv
            <4>2. holding[b.lot].version \in Nat /\ holding'[b.lot].version \in Nat
                BY <2>6, <4>1 DEF DialogIInv, LotRows
            <4> QED
                BY <2>8, <4>1, <4>2 DEF GoesOn
        <3> QED
            BY <2>2, <3>1, <3>2
    <2>10. DisposalsAreBookedAsShown'
        <3>1. \A b \in booked' :
                /\ b.sale.quantity = b.shown.quantity /\ b.sale.left = b.shown.left
                /\ "net" \in DOMAIN b.shown =>
                     /\ b.sale.net = b.shown.net /\ WithinAUnit(b.sale.cost, b.shown.cost)
                     /\ WithinAUnit(b.sale.pnl, b.shown.pnl)
            BY <2>1, <2>2, <2>4 DEF DialogIInv, DisposalsAreBookedAsShown
        <3>2. \A b \in booked : ~(b.lot = m.lot /\ b.read = m.read)
            <4> SUFFICES ASSUME NEW b \in booked, b.lot = m.lot, b.read = m.read PROVE FALSE
                OBVIOUS
            <4>1. b.read \in Nat /\ b.read < row.version
                BY <2>4 DEF DialogIInv, row
            <4> QED
                BY <2>1, <2>4, <4>1
        <3>3. \A b, c \in booked : b.lot = c.lot /\ b.read = c.read => b = c
            BY DEF DialogIInv, DisposalsAreBookedAsShown
        <3>4. \A b, c \in booked' : b.lot = c.lot /\ b.read = c.read => b = c
            BY <2>2, <3>2, <3>3
        <3> QED
            BY <3>1, <3>4 DEF DisposalsAreBookedAsShown
    <2> QED
        BY <2>6, <2>8, <2>9, <2>10
<1> QED
    BY <1>1, <1>2

LEMMA AmendedLots ==
    ASSUME DialogIInv, NEW l \in Holdings, Amend(l)
    PROVE  /\ holding' \in [Holdings -> LotRows] /\ GoesOn(holding, holding')
           /\ \A m \in booked : m.read < holding'[m.lot].version
<1> USE DisposalDialogAssumption
<1>1. PICK a \in Amended :
         holding' = [holding EXCEPT ![l].quantity = a.quantity, ![l].cost = a.cost,
                                    ![l].version = @ + 1]
    BY DEF Amend
<1> DEFINE row == holding[l]
           next == [status |-> row.status, version |-> row.version + 1,
                    quantity |-> a.quantity, cost |-> a.cost]
<1>2. row \in LotRows /\ row.version \in Nat /\ a.quantity \in Nat /\ a.cost \in Nat
    BY DEF DialogIInv, LotRows
<1>3. next \in LotRows /\ next.version = row.version + 1
    BY <1>2 DEF LotRows
<1>4. holding' = [holding EXCEPT ![l] = next]
    BY <1>1, <1>2 DEF DialogIInv, LotRows
<1> HIDE DEF next, row
<1>5. \A k \in Holdings : holding'[k] = IF k = l THEN next ELSE holding[k]
    BY <1>4 DEF DialogIInv
<1>6. holding' \in [Holdings -> LotRows]
    BY <1>3, <1>4 DEF DialogIInv
<1>7. GoesOn(holding, holding')
    BY <1>2, <1>3, <1>5 DEF GoesOn, row
<1>8. \A m \in booked : m.read < holding'[m.lot].version
    <2> SUFFICES ASSUME NEW m \in booked PROVE m.read < holding'[m.lot].version
        OBVIOUS
    <2>1. m.lot \in Holdings /\ m.read \in Nat /\ m.read < holding[m.lot].version
        BY DEF DialogIInv
    <2>2. holding[m.lot].version \in Nat /\ holding'[m.lot].version \in Nat
        BY <1>6, <2>1 DEF DialogIInv, LotRows
    <2> QED
        BY <1>7, <2>1, <2>2 DEF GoesOn
<1> QED
    BY <1>6, <1>7, <1>8

-----------------------------------------------------------------------------
(* ... and the theorem *)

\* Every action of a screen makes it another whole one; only an answer moves a lot.
LEMMA ScreensTurn ==
    ASSUME DialogIInv, NEW s \in Screens,
           \/ Reconnect(s) \/ Navigate(s) \/ PopState(s) \/ ChooseAction(s) \/ Remount(s)
           \/ Type(s) \/ SubmitDisposal(s) \/ CloseIfIdle(s) \/ Recover(s)
           \/ \E t \in screen[s].tasks :
                Serve(s, t) \/ NeverSent(s, t) \/ FailDisposal(s, t) \/ Refresh(s, t) \/ Close(s, t)
    PROVE  /\ \E r : Turns(s, r)
           /\ UNCHANGED <<holding, booked>> \/ \E t \in screen[s].tasks : Serve(s, t)
<1>1. ASSUME NEW t \in screen[s].tasks, Serve(s, t)
      PROVE  \E r : Turns(s, r)
    <2>1. \E stage : stage # "sent" /\ Advance(s, t, stage)
        BY <1>1 DEF Serve, Verdict
    <2> QED
        BY <2>1, AdvanceTurns
<1>2. ASSUME NEW t \in screen[s].tasks, NeverSent(s, t)
      PROVE  \E r : Turns(s, r)
    BY <1>2, AdvanceTurns DEF NeverSent
<1>3. \E r : Turns(s, r)
    BY <1>1, <1>2, ReconnectTurns, NavigateTurns, ChooseActionTurns, RemountTurns, TypeTurns,
       SubmitTurns, CloseIfIdleTurns, RecoverTurns, FailDisposalTurns, RefreshTurns, CloseTurns
<1>4. UNCHANGED <<holding, booked>> \/ \E t \in screen[s].tasks : Serve(s, t)
    BY DEF Reconnect, Navigate, PopState, ChooseAction, Remount, Type, SubmitDisposal,
           CloseIfIdle, Recover, NeverSent, FailDisposal, Refresh, Close
<1> QED
    BY <1>3, <1>4

LEMMA DialogInitially ==
    ASSUME DialogInit
    PROVE  DialogIInv
<1> USE DisposalDialogAssumption DEF DialogInit
<1>1. holding \in [Holdings -> LotRows]
    BY DEF LotRows
<1>2. ASSUME NEW s \in Screens
      PROVE  IsWhole(holding, screen[s])
    <2>1. /\ IsScreen(screen[s]) /\ screen[s].list = holding /\ screen[s].tasks = {}
          /\ screen[s].disposal = NoDisposal /\ screen[s].dialog = NoDialog
        BY DEF IsScreen, ScreenFields
    <2>2. \A l \in Holdings : Copied(holding, holding[l], l)
        BY <1>1 DEF Copied, LotRows
    <2> QED
        BY <2>1, <2>2 DEF IsWhole
<1>3. booked = {} /\ screen = [s \in Screens |-> screen[s]]
    OBVIOUS
<1> QED
    BY <1>1, <1>2, <1>3 DEF DialogIInv, DisposalsAreBookedAsShown

LEMMA DialogSteps ==
    ASSUME DialogIInv, [DialogNext]_dialogVars
    PROVE  DialogIInv'
<1>1. ASSUME NEW s \in Screens, NEW r, Turns(s, r), holding' \in [Holdings -> LotRows],
             GoesOn(holding, holding')
      PROVE  /\ screen' = [q \in Screens |-> screen'[q]]
             /\ \A q \in Screens : IsWhole(holding', screen'[q])
    <2>1. \A q \in Screens : screen'[q] = IF q = s THEN r ELSE screen[q]
        BY <1>1 DEF Turns, DialogIInv
    <2>2. \A q \in Screens : IsWhole(holding, screen'[q])
        BY <1>1, <2>1 DEF Turns, DialogIInv
    <2>3. \A x : IsWhole(holding, x) => IsWhole(holding', x)
        BY <1>1, OlderClaimsLapse DEF DialogIInv
    <2>4. screen' = [q \in Screens |-> screen'[q]]
        BY <1>1 DEF Turns, DialogIInv
    <2> QED
        BY <2>2, <2>3, <2>4
<1>2. CASE \E s \in Screens : \E t \in screen[s].tasks : Serve(s, t)
    BY <1>1, <1>2, ServedLots, ScreensTurn DEF DialogIInv
<1>3. CASE \E l \in Holdings : Amend(l)
    <2>1. PICK l \in Holdings : Amend(l)
        BY <1>3
    <2>2. /\ holding' \in [Holdings -> LotRows] /\ GoesOn(holding, holding')
          /\ \A m \in booked : m.read < holding'[m.lot].version
        BY <2>1, AmendedLots
    <2>3. booked' = booked /\ screen' = screen
        BY <2>1 DEF Amend
    <2>4. \A q \in Screens : IsWhole(holding', screen[q])
        BY <2>2, OlderClaimsLapse DEF DialogIInv
    <2> QED
        BY <2>2, <2>3, <2>4 DEF DialogIInv, DisposalsAreBookedAsShown
<1>4. CASE UNCHANGED dialogVars
    BY <1>4 DEF DialogIInv, dialogVars, DisposalsAreBookedAsShown
<1>5. ASSUME NEW s \in Screens, NEW r, Turns(s, r), UNCHANGED <<holding, booked>>
      PROVE  DialogIInv'
    <2>1. holding' \in [Holdings -> LotRows] /\ GoesOn(holding, holding')
        BY <1>5 DEF GoesOn, DialogIInv
    <2> QED
        BY <1>1, <1>5, <2>1 DEF DialogIInv, DisposalsAreBookedAsShown
<1> QED
    BY <1>2, <1>3, <1>4, <1>5, ScreensTurn DEF DialogNext

\* What the dialog books is what it showed when its button was pressed, up to the last digit of a
\* share of the cost, whatever was loaded, edited, lost or opened again in between; and one
\* reading of a lot is the reading of one movement (AssetDisposalDialog.tsx, movements.service.ts).
THEOREM BookedAsTheDialogShowed == DialogSpec => []DisposalsAreBookedAsShown
<1>1. DialogIInv => DisposalsAreBookedAsShown
    BY DEF DialogIInv
<1> QED
    BY <1>1, DialogInitially, DialogSteps, PTL DEF DialogSpec

-----------------------------------------------------------------------------
(* The holding editor: what a page keeps *)

\* An action that moves no lot makes one page another one like it.
Pages(e, r) == editor' = [editor EXCEPT ![e] = r] /\ IsPage(lotRow, r)

LEMMA PageOf ==
    ASSUME FormIInv, NEW e \in Editors
    PROVE  IsPage(lotRow, editor[e])
BY DEF FormIInv

\* What the list is loaded with presents the lots (presentHeldAsset).
LEMMA ListingPresents ==
    ASSUME FormIInv, NEW l \in FormRows
    PROVE  Presents(lotRow, Listing[l], l)
<1> DEFINE a == lotRow[l]
           p == Presented(l)
           w == HalfEven(a.gross, a.quantity)
<1>1. a.version \in Nat /\ a.quantity \in Nat \ {0} /\ a.gross \in Int
    BY DEF FormIInv, IsLotRow
<1>2. w \in Int
    BY <1>1, RoundingsAreNear
<1>3. /\ p.version = a.version /\ p.quantity = a.quantity /\ p.weight = w /\ p.gross = a.gross
      /\ p.cost = a.cost /\ p.currency = a.currency /\ p.serial = a.serial
      /\ p.packaging = a.packaging /\ p.inherited = Inherited(l)
      /\ p.name = IF a.override # NoText THEN a.override
                  ELSE IF Inherited(l) # NoText THEN Inherited(l) ELSE "unnamed"
    BY DEF Presented
<1> HIDE DEF p
<1>4. Presents(lotRow, p, l)
    BY <1>1, <1>2, <1>3 DEF Presents
<1>5. Listing[l] \in {p, NoLot}
    BY DEF Listing, p
<1> QED
    BY <1>4, <1>5 DEF Presents

LEMMA OpenEditorPages ==
    ASSUME FormIInv, NEW e \in Editors, NEW l \in FormRows, OpenEditor(e, l)
    PROVE  \E r : Pages(e, r)
<1> USE HoldingFormAssumption
<1> DEFINE o == editor[e]
           row == o.list[l]
           form == InitialForm(row)
           r == [o EXCEPT !.lot = l, !.base = row, !.form = form]
<1>1. row # NoLot /\ editor' = [editor EXCEPT ![e] = r]
    BY DEF OpenEditor, SetPage
<1>2. row.quantity \in Nat /\ row.weight \in Int
    BY <1>1, PageOf DEF IsPage, Presents
<1>3. IsForm(form)
    <2>1. form = [f \in FormFields |-> form[f]]
        BY DEF InitialForm, FormFields
    <2>2. form.quantity = row.quantity /\ form.weight = row.weight /\ form.unit = "g"
        BY DEF InitialForm, LotFields, DealFields
    <2> HIDE DEF form, row
    <2> QED
        BY <1>2, <2>1, <2>2 DEF IsForm
<1> HIDE DEF form, row
<1>4. /\ r = [f \in PageFields |-> r[f]] /\ r.list = o.list /\ r.lot = l /\ r.form = form
      /\ r.save = o.save
    <2>1. o = [f \in PageFields |-> o[f]]
        BY PageOf DEF IsPage
    <2> HIDE DEF o
    <2> QED
        BY <2>1 DEF PageFields
<1> HIDE DEF r
<1>5. IsPage(lotRow, r)
    BY <1>1, <1>3, <1>4, PageOf DEF IsPage, row
<1> QED
    BY <1>1, <1>5 DEF Pages

\* A form that is filled in differently.
LEMMA FilledPages ==
    ASSUME FormIInv, NEW e \in Editors, IsEditing(e), NEW form, IsForm(form), Filled(e, form)
    PROVE  \E r : Pages(e, r)
<1> DEFINE o == editor[e]
           r == [o EXCEPT !.form = form]
<1>1. /\ r = [f \in PageFields |-> r[f]] /\ r.list = o.list /\ r.lot = o.lot /\ r.form = form
      /\ r.save = o.save
    BY PageOf DEF IsPage, PageFields
<1>2. editor' = [editor EXCEPT ![e] = r]
    BY DEF Filled, SetPage
<1> HIDE DEF r
<1>3. IsPage(lotRow, r)
    BY <1>1, PageOf DEF IsPage, IsEditing
<1> QED
    BY <1>2, <1>3 DEF Pages

LEMMA TypeInPages ==
    ASSUME FormIInv, NEW e \in Editors, NEW field \in DOMAIN Entries, TypeIn(e, field)
    PROVE  \E r : Pages(e, r)
<1> USE HoldingFormAssumption
<1> DEFINE old == editor[e].form
<1>1. PICK v \in Entries[field] : Filled(e, [old EXCEPT ![field] = v])
    BY DEF TypeIn
<1>2. IsEditing(e) /\ IsForm(old)
    BY PageOf DEF TypeIn, Editable, IsEditing, IsPage
<1>3. IsForm([old EXCEPT ![field] = v])
    <2>1. field \in {"quantity", "weight"} => v \in Nat
        OBVIOUS
    <2>2. field # "unit"
        OBVIOUS
    <2> HIDE DEF old
    <2> QED
        BY <1>2, <2>1, <2>2 DEF IsForm, FormFields, LotFields, DealFields
<1> QED
    BY <1>1, <1>2, <1>3, FilledPages

LEMMA SelectUnitPages ==
    ASSUME FormIInv, NEW e \in Editors, SelectUnit(e)
    PROVE  \E r : Pages(e, r)
<1> USE HoldingFormAssumption
<1> DEFINE old == editor[e].form
           w == RowOf(e).weight
<1>1. PICK u \in DOMAIN Num : Filled(e, [old EXCEPT !.weight = FromGrams(w, u), !.unit = u])
    BY DEF SelectUnit
<1>2. /\ IsEditing(e) /\ IsForm(old) /\ editor[e].lot \in FormRows
      /\ editor[e].list[editor[e].lot] # NoLot
    BY PageOf DEF SelectUnit, Editable, IsEditing, IsPage
<1>3. w \in Int
    BY <1>2, PageOf DEF IsPage, Presents, RowOf
<1>4. FromGrams(w, u) \in Int
    <2>1. Den[u] \in Nat \ {0} /\ Num[u] \in Nat \ {0}
        OBVIOUS
    <2>2. w * Den[u] \in Int
        BY <1>3, <2>1
    <2> QED
        BY <2>1, <2>2, RoundingsAreNear DEF FromGrams
<1>5. IsForm([old EXCEPT !.weight = FromGrams(w, u), !.unit = u])
    <2> HIDE DEF old, w
    <2> QED
        BY <1>2, <1>4 DEF IsForm, FormFields, LotFields, DealFields
<1> QED
    BY <1>1, <1>2, <1>5, FilledPages

LEMMA RestoreInheritedPages ==
    ASSUME FormIInv, NEW e \in Editors, RestoreInherited(e)
    PROVE  \E r : Pages(e, r)
<1> DEFINE old == editor[e].form
           form == [old EXCEPT !.name = RowOf(e).inherited]
<1>1. IsEditing(e) /\ IsForm(old)
    BY PageOf DEF RestoreInherited, Editable, IsEditing, IsPage
<1>2. IsForm(form)
    <2> HIDE DEF old
    <2> QED
        BY <1>1 DEF IsForm, FormFields, LotFields, DealFields
<1> QED
    BY <1>1, <1>2, FilledPages DEF RestoreInherited

\* The editor closes; what it sent goes on.
LEMMA ShutIsAPage ==
    ASSUME NEW rows, NEW o, IsPage(rows, o)
    PROVE  /\ IsPage(rows, Shut(o))
           /\ IsPage(rows, [Shut(o) EXCEPT !.save = NoSave])
           /\ IsPage(rows, [o EXCEPT !.save = NoSave])
<1> DEFINE r == Shut(o)
           q == [r EXCEPT !.save = NoSave]
           p == [o EXCEPT !.save = NoSave]
<1>1. /\ r = [f \in PageFields |-> r[f]] /\ r.list = o.list /\ r.form = NoForm /\ r.save = o.save
      /\ p = [f \in PageFields |-> p[f]] /\ p.list = o.list /\ p.form = o.form /\ p.lot = o.lot
      /\ p.save = NoSave
    BY DEF Shut, IsPage, PageFields
<1> HIDE DEF r
<1>2. q = [f \in PageFields |-> q[f]] /\ q.list = o.list /\ q.form = NoForm /\ q.save = NoSave
    BY <1>1 DEF PageFields
<1> HIDE DEF q, p
<1>3. IsPage(rows, r) /\ IsPage(rows, q) /\ IsPage(rows, p)
    BY <1>1, <1>2 DEF IsPage
<1> QED
    BY <1>3 DEF r, q, p

LEMMA LeaveEditorPages ==
    ASSUME FormIInv, NEW e \in Editors, LeaveEditor(e)
    PROVE  \E r : Pages(e, r)
BY PageOf, ShutIsAPage DEF LeaveEditor, SetPage, Pages

LEMMA LoadListPages ==
    ASSUME FormIInv, NEW e \in Editors, LoadList(e)
    PROVE  \E r : Pages(e, r)
<1> DEFINE o == editor[e]
           r == [o EXCEPT !.list = Listing]
<1>1. /\ r = [f \in PageFields |-> r[f]] /\ r.list = Listing /\ r.form = o.form /\ r.lot = o.lot
      /\ r.save = o.save
    BY PageOf DEF IsPage, PageFields
<1>2. \A l \in FormRows : Presents(lotRow, r.list[l], l)
    BY <1>1, ListingPresents
<1>3. CASE SetPage(e, Shut(o))
    BY <1>3, PageOf, ShutIsAPage DEF SetPage, Pages
<1>4. CASE SetPage(e, r) /\ ~(IsEditing(e) /\ r.list[r.lot] = NoLot)
    <2> HIDE DEF r
    <2>1. IsPage(lotRow, r)
        BY <1>1, <1>2, <1>4, PageOf DEF IsPage, IsEditing
    <2> QED
        BY <1>4, <2>1 DEF SetPage, Pages
<1>5. CASE SetPage(e, Shut(r))
    <2> DEFINE q == Shut(r)
    <2> HIDE DEF r
    <2>1. q = [f \in PageFields |-> q[f]] /\ q.list = r.list /\ q.form = NoForm /\ q.save = r.save
        BY <1>1 DEF Shut, PageFields
    <2>2. SetPage(e, q)
        BY <1>5
    <2> HIDE DEF q
    <2>3. IsPage(lotRow, q)
        BY <1>1, <1>2, <2>1, PageOf DEF IsPage
    <2> QED
        BY <2>2, <2>3 DEF SetPage, Pages
<1> QED
    BY <1>3, <1>4, <1>5 DEF LoadList

-----------------------------------------------------------------------------
(* ... its saves *)

LEMMA SaveFormPages ==
    ASSUME FormIInv, NEW e \in Editors, SaveForm(e)
    PROVE  \E r : Pages(e, r)
<1> DEFINE o == editor[e]
           row == RowOf(e)
           patch == AssetPatch(o.lot, row, o.form)
           deals == DealPatch(o.lot, row, o.form)
           save == [stage |-> "files", lot |-> o.lot, row |-> row, base |-> o.base,
                    form |-> o.form, patch |-> patch, deal |-> deals]
           r == [o EXCEPT !.save = save]
<1>1. /\ o.lot \in FormRows /\ row # NoLot /\ Presents(lotRow, row, o.lot) /\ IsForm(o.form)
      /\ ValidForm(o.form) /\ o.form # NoForm
    BY PageOf DEF SaveForm, Editable, IsEditing, IsPage, RowOf
<1>2. editor' = [editor EXCEPT ![e] = r]
    BY DEF SaveForm, SetPage
<1>3. IsSave(lotRow, save)
    <2>1. /\ save = [f \in SaveFields |-> save[f]] /\ save.lot = o.lot /\ save.row = row
          /\ save.form = o.form /\ save.patch = patch
        BY DEF SaveFields
    <2> HIDE DEF save, row, o, patch
    <2>2. save.patch = AssetPatch(save.lot, save.row, save.form)
        BY <2>1 DEF patch
    <2> QED
        BY <1>1, <2>1, <2>2 DEF IsSave
<1> HIDE DEF save
<1>4. /\ r = [f \in PageFields |-> r[f]] /\ r.list = o.list /\ r.lot = o.lot /\ r.form = o.form
      /\ r.save = save
    BY PageOf DEF IsPage, PageFields
<1> HIDE DEF r
<1>5. IsPage(lotRow, r)
    BY <1>3, <1>4, PageOf DEF IsPage
<1> QED
    BY <1>2, <1>5 DEF Pages

\* A save goes on with its next request, or ends.
LEMMA SavesGoOn ==
    ASSUME FormIInv, NEW e \in Editors, editor[e].save # NoSave, Proceed(e) \/ GiveUp(e)
    PROVE  \E r : Pages(e, r)
<1> DEFINE o == editor[e]
           save == [o.save EXCEPT !.stage = After(o.save)]
           r == [o EXCEPT !.save = save]
<1>1. CASE GiveUp(e)
    BY <1>1, PageOf, ShutIsAPage DEF GiveUp, SetPage, Pages
<1>2. CASE Proceed(e) /\ After(o.save) = "done"
    BY <1>2, PageOf, ShutIsAPage DEF Proceed, SetPage, Pages
<1>3. CASE Proceed(e) /\ After(o.save) # "done"
    <2>1. editor' = [editor EXCEPT ![e] = r]
        BY <1>3 DEF Proceed, SetPage
    <2>2. IsSave(lotRow, save)
        <3>1. IsSave(lotRow, o.save)
            BY PageOf DEF IsPage
        <3>2. /\ save = [f \in SaveFields |-> save[f]] /\ save.lot = o.save.lot
              /\ save.row = o.save.row /\ save.form = o.save.form /\ save.patch = o.save.patch
            BY <3>1 DEF IsSave, SaveFields
        <3> HIDE DEF save
        <3> QED
            BY <3>1, <3>2 DEF IsSave
    <2> HIDE DEF save
    <2>3. /\ r = [f \in PageFields |-> r[f]] /\ r.list = o.list /\ r.lot = o.lot
          /\ r.form = o.form /\ r.save = save
        BY PageOf DEF IsPage, PageFields
    <2> HIDE DEF r
    <2>4. IsPage(lotRow, r)
        BY <2>2, <2>3, PageOf DEF IsPage
    <2> QED
        BY <2>1, <2>4 DEF Pages
<1> QED
    BY <1>1, <1>2, <1>3

\* The columns of the row an update leaves (AssetsService.update).
LEMMA RevisedColumns ==
    ASSUME FormIInv, NEW save, IsSave(lotRow, save)
    PROVE  LET l == save.lot
               a == lotRow[l]
               b == Revised(l, save)
               To(f) == IF f \in save.patch THEN save.form[f] ELSE a[f]
           IN  /\ b = [f \in RowFields |-> b[f]] /\ b.version = a.version /\ b.status = a.status
               /\ b.quantity = To("quantity") /\ b.cost = To("cost")
               /\ b.currency = To("currency") /\ b.serial = To("serial")
               /\ b.packaging = IF l \in Purchased THEN To("packaging") ELSE a.packaging
               /\ b.gross = IF "weight" \in save.patch THEN InGrams(save.form) * b.quantity
                            ELSE IF "quantity" \in save.patch
                                 THEN HalfEven(a.gross * b.quantity, a.quantity) ELSE a.gross
               /\ b.override = IF "name" \notin save.patch THEN a.override
                               ELSE IF save.form.name = Inherited(l) THEN NoText
                                    ELSE save.form.name
<1> DEFINE l == save.lot
           a == lotRow[l]
           b == Revised(l, save)
           To(f, old) == IF f \in save.patch THEN save.form[f] ELSE old
           quantity == To("quantity", a.quantity)
           gross == IF "weight" \in save.patch THEN InGrams(save.form) * quantity
                    ELSE IF "quantity" \in save.patch
                         THEN HalfEven(a.gross * quantity, a.quantity) ELSE a.gross
           cost == To("cost", a.cost)
           currency == To("currency", a.currency)
           serial == To("serial", a.serial)
           packaging == IF l \in Purchased THEN To("packaging", a.packaging) ELSE a.packaging
           override == IF "name" \notin save.patch THEN a.override
                       ELSE IF save.form.name = Inherited(l) THEN NoText ELSE save.form.name
<1>1. a = [f \in RowFields |-> a[f]]
    BY DEF FormIInv, IsSave, IsLotRow
<1>2. b = [a EXCEPT !.quantity = quantity, !.gross = gross, !.cost = cost, !.currency = currency,
                    !.serial = serial, !.packaging = packaging, !.override = override]
    <2>1. b = [a EXCEPT !.quantity = quantity, !.gross = gross, !.cost = To("cost", @),
                        !.currency = To("currency", @), !.serial = To("serial", @),
                        !.packaging = IF l \in Purchased THEN To("packaging", @) ELSE @,
                        !.override = IF "name" \notin save.patch THEN @
                                     ELSE IF save.form.name = Inherited(l) THEN NoText
                                          ELSE save.form.name]
        BY DEF Revised
    <2> HIDE DEF a, b, quantity, gross
    <2> QED
        BY <1>1, <2>1 DEF RowFields
<1>3. /\ b = [f \in RowFields |-> b[f]] /\ b.version = a.version /\ b.status = a.status
      /\ b.quantity = quantity /\ b.gross = gross /\ b.cost = cost /\ b.currency = currency
      /\ b.serial = serial /\ b.packaging = packaging /\ b.override = override
    <2> HIDE DEF a, b, quantity, gross, cost, currency, serial, packaging, override
    <2> QED
        BY <1>1, <1>2 DEF RowFields
<1> QED
    BY <1>3

\* What an accepted save leaves is what its form shows, and what it did not touch stays: the
\* version it names is the lot's, so the row the form was compared with presents the lot.
LEMMA AcceptedSavesAreExact ==
    ASSUME FormIInv, NEW save, IsSave(lotRow, save), Accepts(save.lot, save)
    PROVE  LET l == save.lot
               b == [Revised(l, save) EXCEPT !.version = @ + 1]
               k == [lot |-> l, save |-> save, was |-> lotRow[l], is |-> b,
                     inherited |-> Inherited(l)]
           IN  /\ IsLotRow(b) /\ b.version = lotRow[l].version + 1
               /\ l \in Purchased => b.currency = lotRow[l].currency
               /\ LeavesWhatWasShown(k) /\ RewritesNothingElse(k)
<1> DEFINE l == save.lot
           a == lotRow[l]
           c == Revised(l, save)
           b == [c EXCEPT !.version = @ + 1]
           k == [lot |-> l, save |-> save, was |-> a, is |-> b, inherited |-> Inherited(l)]
           form == save.form
           row == save.row
           To(f) == IF f \in save.patch THEN form[f] ELSE a[f]
           w == InGrams(form)
<1>1. /\ l \in FormRows /\ row # NoLot /\ IsForm(form) /\ ValidForm(form)
      /\ save.patch = AssetPatch(l, row, form) /\ row.version = a.version /\ IsLotRow(a)
    BY DEF IsSave, Accepts, FormIInv
<1>2. /\ \A f \in {"quantity", "gross", "cost", "currency", "serial", "packaging"} : row[f] = a[f]
      /\ row.weight = HalfEven(a.gross, a.quantity)
      /\ row.name = IF a.override # NoText THEN a.override
                    ELSE IF row.inherited # NoText THEN row.inherited ELSE "unnamed"
    <2>1. Presents(lotRow, row, l)
        BY DEF IsSave
    <2> QED
        BY <1>1, <2>1 DEF Presents
<1>3. /\ a.version \in Nat /\ a.quantity \in Nat \ {0} /\ a.gross \in Int
      /\ form.quantity \in Nat \ {0} /\ w \in Int
    <2>1. a.version \in Nat /\ a.quantity \in Nat \ {0} /\ a.gross \in Int
        BY <1>1 DEF IsLotRow
    <2>2. form.quantity \in Nat /\ form.weight \in Int /\ form.unit \in DOMAIN Num
        BY <1>1 DEF IsForm
    <2>3. Num[form.unit] \in Nat \ {0} /\ Den[form.unit] \in Nat \ {0}
        BY <2>2, HoldingFormAssumption
    <2>4. form.weight * Num[form.unit] \in Int
        BY <2>2, <2>3
    <2>5. w \in Int
        BY <2>3, <2>4, RoundingsAreNear DEF InGrams, ToGrams
    <2>6. form.quantity >= 1
        BY <1>1 DEF ValidForm
    <2> QED
        BY <2>1, <2>2, <2>5, <2>6
<1>4. /\ c = [f \in RowFields |-> c[f]] /\ c.version = a.version
      /\ c.quantity = To("quantity") /\ c.cost = To("cost")
      /\ c.currency = To("currency") /\ c.serial = To("serial")
      /\ c.packaging = IF l \in Purchased THEN To("packaging") ELSE a.packaging
      /\ c.gross = IF "weight" \in save.patch THEN w * c.quantity
                   ELSE IF "quantity" \in save.patch
                        THEN HalfEven(a.gross * c.quantity, a.quantity) ELSE a.gross
      /\ c.override = IF "name" \notin save.patch THEN a.override
                      ELSE IF form.name = Inherited(l) THEN NoText ELSE form.name
    BY RevisedColumns
<1> HIDE DEF c
<1>5. /\ b = [f \in RowFields |-> b[f]] /\ b.version = a.version + 1
      /\ \A f \in RowFields \ {"version"} : b[f] = c[f]
    BY <1>4 DEF RowFields
<1> HIDE DEF b
\* A column is sent when the form differs from the row; a purchased lot's currency never is.
<1>6. /\ \A f \in {"quantity", "cost", "serial", "packaging", "name"} :
            f \notin save.patch <=> form[f] = row[f]
      /\ "weight" \notin save.patch <=> w = row.weight
      /\ l \in Purchased => "currency" \notin save.patch
      /\ l \notin Purchased => ("currency" \notin save.patch <=> form["currency"] = row["currency"])
    <2>1. save.patch = {f \in LotFields \ (IF l \in Purchased THEN {"currency"} ELSE {}) :
                          FormValue(form, f) # row[f]}
        BY <1>1 DEF AssetPatch
    <2> HIDE DEF l, form, row, w
    <2> QED
        BY <2>1 DEF FormValue, LotFields, w
<1>7. /\ k.lot = l /\ k.save = save /\ k.was = a /\ k.is = b /\ k.inherited = Inherited(l)
    OBVIOUS
<1>8. /\ b.quantity = c.quantity /\ b.gross = c.gross /\ b.cost = c.cost /\ b.serial = c.serial
      /\ b.currency = c.currency /\ b.packaging = c.packaging /\ b.override = c.override
    BY <1>5 DEF RowFields
<1> HIDE DEF k, a, l, form, row, w
<1>9. /\ b.quantity = form.quantity /\ b.cost = form.cost /\ b.serial = form.serial
      /\ l \in Purchased => b.packaging = form.packaging /\ b.currency = a.currency
      /\ l \notin Purchased => b.currency = form.currency
    BY <1>2, <1>4, <1>6, <1>8
<1>10. b.gross \in Int
    <2>1. CASE "weight" \in save.patch
        <3>1. b.gross = w * form.quantity
            BY <1>4, <1>8, <1>9, <2>1
        <3> QED
            BY <1>3, <3>1
    <2>2. CASE "weight" \notin save.patch /\ "quantity" \in save.patch
        <3>1. b.gross = HalfEven(a.gross * form.quantity, a.quantity)
            BY <1>4, <1>8, <1>9, <2>2
        <3>2. a.gross * form.quantity \in Int
            BY <1>3
        <3> QED
            BY <1>3, <3>1, <3>2, RoundingsAreNear
    <2>3. CASE "weight" \notin save.patch /\ "quantity" \notin save.patch
        BY <1>3, <1>4, <1>8, <2>3
    <2> QED
        BY <2>1, <2>2, <2>3
<1>11. IsLotRow(b)
    BY <1>3, <1>5, <1>9, <1>10 DEF IsLotRow
<1>12. DigitApart(HalfEven(b.gross, b.quantity), w)
    <2>1. CASE "weight" \in save.patch
        <3>1. b.gross = w * form.quantity
            BY <1>4, <1>8, <1>9, <2>1
        <3>2. HalfEven(b.gross, b.quantity) = w
            BY <1>3, <1>9, <3>1, WholeUnits
        <3> QED
            BY <1>3, <3>2 DEF DigitApart
    <2>2. CASE "weight" \notin save.patch /\ "quantity" \in save.patch
        <3>1. b.gross = HalfEven(a.gross * form.quantity, a.quantity)
            BY <1>4, <1>8, <1>9, <2>2
        <3>2. w = HalfEven(a.gross, a.quantity)
            BY <1>2, <1>6, <2>2
        <3> QED
            BY <1>3, <1>9, <3>1, <3>2, ProportionsAreNear
    <2>3. CASE "weight" \notin save.patch /\ "quantity" \notin save.patch
        <3>1. w = HalfEven(a.gross, a.quantity)
            BY <1>2, <1>6, <2>3
        <3>2. b.gross = a.gross /\ b.quantity = a.quantity
            BY <1>4, <1>8, <2>3
        <3> QED
            BY <1>3, <3>1, <3>2 DEF DigitApart
    <2> QED
        BY <2>1, <2>2, <2>3
<1>13. \/ form.name = NoText \/ Inherited(l) # row.inherited
       \/ form.name = (IF b.override # NoText THEN b.override
                       ELSE IF Inherited(l) # NoText THEN Inherited(l) ELSE "unnamed")
    <2>1. CASE "name" \in save.patch
        BY <1>4, <1>8, <2>1
    <2>2. CASE "name" \notin save.patch
        <3>1. form.name = row.name /\ b.override = a.override
            BY <1>4, <1>6, <1>8, <2>2
        <3> QED
            BY <1>2, <3>1
    <2> QED
        BY <2>1, <2>2
<1>14. LeavesWhatWasShown(k)
    <2>1. k.save.form = form /\ k.save.row = row
        BY <1>7 DEF form, row
    <2> QED
        BY <1>7, <1>9, <1>12, <1>13, <2>1 DEF LeavesWhatWasShown, w
<1>15. RewritesNothingElse(k)
    <2>1. \A f \in {"quantity", "cost", "serial", "packaging", "currency", "name"} :
             Untouched(k, f) => form[f] = row[f]
        BY <1>7 DEF Untouched, FormValue, form, row
    <2>2. Untouched(k, "weight") => w = row.weight
        BY <1>7 DEF Untouched, FormValue, form, row, w
    <2>3. \A f \in {"quantity", "cost", "serial", "packaging", "currency"} :
             form[f] = row[f] => b[f] = a[f]
        BY <1>4, <1>6, <1>8
    <2>4. form["name"] = row["name"] => b.override = a.override
        BY <1>4, <1>6, <1>8
    <2>5. w = row.weight /\ form["quantity"] = row["quantity"] => b.gross = a.gross
        BY <1>4, <1>6, <1>8
    <2> QED
        BY <1>7, <2>1, <2>2, <2>3, <2>4, <2>5 DEF RewritesNothingElse
<1> QED
    BY <1>5, <1>9, <1>11, <1>14, <1>15 DEF k, a, b, c, l

-----------------------------------------------------------------------------
(* ... and the lots *)

LotsGoOn(rows, later) ==
    \A l \in FormRows : later[l] = rows[l] \/ rows[l].version < later[l].version

\* A row that was loaded of an older version makes no claim on a later one.
LEMMA OlderRowsLapse ==
    ASSUME NEW rows, NEW later, \A l \in FormRows : IsLotRow(rows[l]) /\ IsLotRow(later[l]),
           LotsGoOn(rows, later), NEW r, IsPage(rows, r)
    PROVE  IsPage(later, r)
<1>1. ASSUME NEW p, NEW l \in FormRows, Presents(rows, p, l)
      PROVE  Presents(later, p, l)
    <2> SUFFICES ASSUME p # NoLot PROVE Presents(later, p, l)
        BY DEF Presents
    <2>1. /\ p.version \in Nat /\ rows[l].version \in Nat /\ later[l].version \in Nat
          /\ p.version <= rows[l].version
        BY <1>1 DEF Presents, IsLotRow
    <2>2. later[l] = rows[l] \/ rows[l].version < later[l].version
        BY DEF LotsGoOn
    <2>3. CASE later[l] = rows[l]
        BY <1>1, <2>3 DEF Presents
    <2>4. CASE rows[l].version < later[l].version
        <3>1. p.version <= later[l].version /\ p.version # later[l].version
            BY <2>1, <2>4
        <3> QED
            BY <1>1, <3>1 DEF Presents
    <2> QED
        BY <2>2, <2>3, <2>4
<1>2. ASSUME NEW save, IsSave(rows, save)
      PROVE  IsSave(later, save)
    BY <1>1, <1>2 DEF IsSave
<1> QED
    BY <1>1, <1>2 DEF IsPage

\* What an action leaves of the lots and of what was kept.
LotsAreSound == /\ lotRow' = [l \in FormRows |-> lotRow'[l]]
                /\ \A l \in FormRows : IsLotRow(lotRow'[l])
                /\ LotsGoOn(lotRow, lotRow') /\ EditsAreExact'

LEMMA PatchedLots ==
    ASSUME FormIInv, NEW e \in Editors, PatchAsset(e)
    PROVE  LotsAreSound
<1> DEFINE save == editor[e].save
           l == save.lot
           b == [Revised(l, save) EXCEPT !.version = @ + 1]
           k == [lot |-> l, save |-> save, was |-> lotRow[l], is |-> b,
                 inherited |-> Inherited(l)]
<1>1. CASE UNCHANGED <<lotRow, kept>>
    BY <1>1 DEF PatchAsset, LotsAreSound, FormIInv, LotsGoOn, EditsAreExact
<1>2. CASE Accepts(l, save) /\ UpdateLot(l, save)
    <2>1. IsSave(lotRow, save) /\ l \in FormRows
        BY PageOf DEF PatchAsset, At, IsPage, IsSave
    <2>2. /\ IsLotRow(b) /\ b.version = lotRow[l].version + 1
          /\ l \in Purchased => b.currency = lotRow[l].currency
          /\ LeavesWhatWasShown(k) /\ RewritesNothingElse(k)
        BY <1>2, <2>1, AcceptedSavesAreExact
    <2>3. lotRow' = [lotRow EXCEPT ![l] = b]
        BY <1>2 DEF UpdateLot
    <2>4. lotRow'[l] = b
        BY <2>1, <2>3 DEF FormIInv
    <2>5. kept' = kept \cup {k}
        BY <1>2, <2>4 DEF UpdateLot
    <2>6. UNCHANGED deal
        BY DEF PatchAsset
    <2> HIDE DEF b, k, l
    <2>7. \A q \in FormRows : lotRow'[q] = IF q = l THEN b ELSE lotRow[q]
        BY <2>3 DEF FormIInv
    <2>8. lotRow' = [q \in FormRows |-> lotRow'[q]] /\ \A q \in FormRows : IsLotRow(lotRow'[q])
        BY <2>2, <2>3, <2>7 DEF FormIInv
    <2>9. LotsGoOn(lotRow, lotRow')
        <3>1. lotRow[l].version \in Nat
            BY <2>1 DEF FormIInv, IsLotRow
        <3> QED
            BY <2>2, <2>7, <3>1 DEF LotsGoOn
    <2>10. EditsAreExact'
        <3>1. \A j \in kept' : LeavesWhatWasShown(j) /\ RewritesNothingElse(j)
            BY <2>2, <2>5 DEF FormIInv, EditsAreExact
        <3>2. \A q \in Purchased : lotRow'[q].currency = deal'.currency
            BY <2>2, <2>6, <2>7, HoldingFormAssumption DEF FormIInv, EditsAreExact
        <3> QED
            BY <3>1, <3>2 DEF EditsAreExact
    <2> QED
        BY <2>8, <2>9, <2>10 DEF LotsAreSound
<1> QED
    BY <1>1, <1>2 DEF PatchAsset

\* A correction of the purchase's currency reaches every lot of it (PurchasesService.update).
LEMMA RelabelledLots ==
    ASSUME FormIInv, NEW e \in Editors, PatchDeal(e)
    PROVE  LotsAreSound
<1>1. CASE UNCHANGED <<deal, lotRow>>
    BY <1>1 DEF PatchDeal, LotsAreSound, FormIInv, LotsGoOn, EditsAreExact
<1>2. CASE lotRow' = Relabelled
    <2> DEFINE To(q) == IF q \in Purchased /\ deal'.currency # deal.currency
                        THEN [lotRow[q] EXCEPT !.currency = deal'.currency, !.version = @ + 1]
                        ELSE lotRow[q]
    <2>1. lotRow' = [q \in FormRows |-> To(q)]
        BY <1>2 DEF Relabelled
    <2>2. ASSUME NEW q \in FormRows
          PROVE  /\ IsLotRow(To(q)) /\ (To(q) = lotRow[q] \/ lotRow[q].version < To(q).version)
                 /\ q \in Purchased => To(q).currency = deal'.currency
        <3> DEFINE a == lotRow[q]
                   up == a.version + 1
                   b == [a EXCEPT !.currency = deal'.currency, !.version = up]
        <3>1. IsLotRow(a)
            BY DEF FormIInv
        <3>2. up \in Nat /\ a.version < up
            BY <3>1 DEF IsLotRow
        <3>3. To(q) \in {a, b} /\ (q \in Purchased /\ deal'.currency # deal.currency => To(q) = b)
            <4>1. b = [a EXCEPT !.currency = deal'.currency, !.version = @ + 1]
                BY <3>1 DEF IsLotRow
            <4> QED
                BY <4>1
        <3>4. IsLotRow(b) /\ b.currency = deal'.currency /\ b.version = up
            <4> HIDE DEF up, a
            <4> QED
                BY <3>1, <3>2 DEF IsLotRow, RowFields
        <3>5. q \in Purchased => a.currency = deal.currency
            BY DEF FormIInv, EditsAreExact
        <3> HIDE DEF To, b, up
        <3> QED
            BY <3>1, <3>2, <3>3, <3>4, <3>5
    <2> HIDE DEF To
    <2>3. \A q \in FormRows : lotRow'[q] = To(q)
        BY <2>1
    <2>4. lotRow' = [q \in FormRows |-> lotRow'[q]] /\ \A q \in FormRows : IsLotRow(lotRow'[q])
        BY <2>1, <2>2, <2>3
    <2>5. LotsGoOn(lotRow, lotRow')
        BY <2>2, <2>3 DEF LotsGoOn
    <2>6. kept' = kept
        BY DEF PatchDeal
    <2>7. EditsAreExact'
        BY <2>2, <2>3, <2>6, HoldingFormAssumption DEF FormIInv, EditsAreExact
    <2> QED
        BY <2>4, <2>5, <2>7 DEF LotsAreSound
<1> QED
    BY <1>1, <1>2 DEF PatchDeal

LEMMA DisposedLots ==
    ASSUME FormIInv, NEW l \in FormRows, DisposeLot(l)
    PROVE  LotsAreSound
<1> DEFINE a == lotRow[l]
           up == a.version + 1
           b == [a EXCEPT !.status = "SOLD", !.version = up]
<1>1. IsLotRow(a) /\ up \in Nat /\ a.version < up
    BY DEF FormIInv, IsLotRow
<1>2. lotRow' = [lotRow EXCEPT ![l] = b]
    <2>1. lotRow' = [lotRow EXCEPT ![l] = [[a EXCEPT !.status = "SOLD"] EXCEPT !.version = @ + 1]]
        BY DEF DisposeLot, FormIInv
    <2>2. b = [[a EXCEPT !.status = "SOLD"] EXCEPT !.version = @ + 1]
        BY <1>1 DEF IsLotRow, RowFields
    <2> QED
        BY <2>1, <2>2
<1>3. IsLotRow(b) /\ b.version = up /\ b.currency = a.currency
    <2> HIDE DEF up, a
    <2> QED
        BY <1>1 DEF IsLotRow, RowFields
<1> HIDE DEF b, up
<1>4. \A q \in FormRows : lotRow'[q] = IF q = l THEN b ELSE lotRow[q]
    BY <1>2 DEF FormIInv
<1>5. lotRow' = [q \in FormRows |-> lotRow'[q]] /\ \A q \in FormRows : IsLotRow(lotRow'[q])
    BY <1>2, <1>3, <1>4 DEF FormIInv
<1>6. LotsGoOn(lotRow, lotRow')
    BY <1>1, <1>3, <1>4 DEF LotsGoOn
<1>7. EditsAreExact'
    BY <1>3, <1>4, HoldingFormAssumption DEF DisposeLot, FormIInv, EditsAreExact
<1> QED
    BY <1>5, <1>6, <1>7 DEF LotsAreSound

-----------------------------------------------------------------------------
(* ... and the theorem *)

LEMMA FormInitially ==
    ASSUME FormInit
    PROVE  FormIInv
<1> USE HoldingFormAssumption DEF FormInit
<1>1. lotRow = [l \in FormRows |-> lotRow[l]] /\ \A l \in FormRows : IsLotRow(lotRow[l])
    OBVIOUS
<1>2. EditsAreExact
    BY DEF EditsAreExact
<1>3. \A l \in FormRows : Presents(lotRow, Listing[l], l)
    <2> TAKE l \in FormRows
    <2> DEFINE a == lotRow[l]
               p == Presented(l)
               w == HalfEven(a.gross, a.quantity)
    <2>1. a.version \in Nat /\ a.quantity \in Nat \ {0} /\ a.gross \in Int
        BY <1>1 DEF IsLotRow
    <2>2. w \in Int
        BY <2>1, RoundingsAreNear
    <2>3. /\ p.version = a.version /\ p.quantity = a.quantity /\ p.weight = w /\ p.gross = a.gross
          /\ p.cost = a.cost /\ p.currency = a.currency /\ p.serial = a.serial
          /\ p.packaging = a.packaging /\ p.inherited = Inherited(l)
          /\ p.name = IF a.override # NoText THEN a.override
                      ELSE IF Inherited(l) # NoText THEN Inherited(l) ELSE "unnamed"
        BY DEF Presented
    <2> HIDE DEF p
    <2>4. Presents(lotRow, p, l)
        BY <2>1, <2>2, <2>3 DEF Presents
    <2>5. Listing[l] \in {p, NoLot}
        BY DEF Listing, p
    <2> QED
        BY <2>4, <2>5 DEF Presents
<1>4. ASSUME NEW e \in Editors
      PROVE  IsPage(lotRow, editor[e])
    <2>1. editor[e] = [list |-> Listing, lot |-> NoLot, form |-> NoForm, base |-> NoLot,
                       save |-> NoSave]
        OBVIOUS
    <2> DEFINE listing == Listing
    <2> HIDE DEF listing
    <2>2. /\ editor[e] = [f \in PageFields |-> editor[e][f]] /\ editor[e].list = Listing
          /\ editor[e].form = NoForm /\ editor[e].save = NoSave
        BY <2>1 DEF PageFields
    <2> QED
        BY <1>3, <2>2 DEF IsPage
<1>5. editor = [e \in Editors |-> editor[e]]
    OBVIOUS
<1> QED
    BY <1>1, <1>2, <1>4, <1>5 DEF FormIInv

LEMMA FormSteps ==
    ASSUME FormIInv, [FormNext]_formVars
    PROVE  FormIInv'
<1>1. ASSUME NEW e \in Editors, NEW r, Pages(e, r), LotsAreSound
      PROVE  FormIInv'
    <2>1. \A q \in Editors : editor'[q] = IF q = e THEN r ELSE editor[q]
        BY <1>1 DEF Pages, FormIInv
    <2>2. \A q \in Editors : IsPage(lotRow, editor'[q])
        BY <1>1, <2>1 DEF Pages, FormIInv
    <2>3. \A x : IsPage(lotRow, x) => IsPage(lotRow', x)
        BY <1>1, OlderRowsLapse DEF FormIInv, LotsAreSound
    <2>4. editor' = [q \in Editors |-> editor'[q]]
        BY <1>1 DEF Pages, FormIInv
    <2> QED
        BY <1>1, <2>2, <2>3, <2>4 DEF FormIInv, LotsAreSound
<1>2. ASSUME UNCHANGED editor, LotsAreSound
      PROVE  FormIInv'
    <2>1. \A x : IsPage(lotRow, x) => IsPage(lotRow', x)
        BY <1>2, OlderRowsLapse DEF FormIInv, LotsAreSound
    <2> QED
        BY <1>2, <2>1 DEF FormIInv, LotsAreSound
<1>3. ASSUME UNCHANGED <<lotRow, deal, kept>>
      PROVE  LotsAreSound
    BY <1>3 DEF LotsAreSound, LotsGoOn, FormIInv, EditsAreExact
<1>4. ASSUME NEW e \in Editors,
             \/ \E l \in FormRows : OpenEditor(e, l)
             \/ \E f \in DOMAIN Entries : TypeIn(e, f)
             \/ SelectUnit(e) \/ RestoreInherited(e) \/ LeaveEditor(e) \/ LoadList(e)
             \/ SaveForm(e) \/ SaveFiles(e)
      PROVE  FormIInv'
    <2>1. UNCHANGED <<lotRow, deal, kept>>
        BY <1>4 DEF OpenEditor, TypeIn, SelectUnit, RestoreInherited, LeaveEditor, LoadList,
                    SaveForm, SaveFiles
    <2>2. SaveFiles(e) => \E r : Pages(e, r)
        BY SavesGoOn DEF SaveFiles, At
    <2>3. \E r : Pages(e, r)
        BY <1>4, <2>2, OpenEditorPages, TypeInPages, SelectUnitPages, RestoreInheritedPages,
           LeaveEditorPages, LoadListPages, SaveFormPages
    <2> QED
        BY <1>1, <1>3, <2>1, <2>3
<1>5. ASSUME NEW e \in Editors, PatchAsset(e) \/ PatchDeal(e)
      PROVE  FormIInv'
    <2>1. editor[e].save # NoSave /\ (Proceed(e) \/ GiveUp(e))
        BY <1>5 DEF PatchAsset, PatchDeal, At
    <2> QED
        BY <1>1, <1>5, <2>1, SavesGoOn, PatchedLots, RelabelledLots
<1>6. CASE RenameProduct
    BY <1>2, <1>3, <1>6 DEF RenameProduct
<1>7. CASE \E l \in FormRows : DisposeLot(l)
    BY <1>2, <1>7, DisposedLots DEF DisposeLot
<1>8. CASE UNCHANGED formVars
    BY <1>2, <1>3, <1>8 DEF formVars
<1> QED
    BY <1>4, <1>5, <1>6, <1>7, <1>8 DEF FormNext

\* An accepted save leaves the lot as its form shows it and rewrites nothing the user did not touch,
\* whatever was saved by others, loaded again, renamed, refused or tried again in between; and the
\* lots of a purchase keep its currency (asset-edit-model.ts, assets.service.ts).
THEOREM SavedAsTheFormShowed == FormSpec => []EditsAreExact
<1>1. FormIInv => EditsAreExact
    BY DEF FormIInv
<1> QED
    BY <1>1, FormInitially, FormSteps, PTL DEF FormSpec

-----------------------------------------------------------------------------
(* Units of weight: the sizes of their last digits, as whole numbers *)

gram == CHOOSE g \in Units :
          /\ Num[g] = 1 /\ Den[g] = 1
          /\ \A u \in Units \ {g} : 3 * Den[u] <= Num[u]
          /\ \A u, v \in Units \ {g} : \/ u = v
                                      \/ 4 * (Num[u] * Den[v]) <= Num[v] * Den[u]
                                      \/ 4 * (Num[v] * Den[u]) <= Num[u] * Den[v]

LEMMA GramIsAUnit ==
    /\ gram \in Units /\ Num[gram] = 1 /\ Den[gram] = 1
    /\ \A u \in Units \ {gram} : 3 * Den[u] <= Num[u]
    /\ \A u, v \in Units \ {gram} : \/ u = v
                                   \/ 4 * (Num[u] * Den[v]) <= Num[v] * Den[u]
                                   \/ 4 * (Num[v] * Den[u]) <= Num[u] * Den[v]
BY UnitsAreApart DEF gram

\* A number all denominators of a set of units divide.
IsCommon(P, S) == \A u \in S : \E k \in Nat \ {0} : P = k * Den[u]

LEMMA SmallestIsThere ==
    ASSUME NEW S \in SUBSET Nat, S # {}
    PROVE  \E n \in S : \A k \in S : n <= k
<1>1. IsWellFoundedOn(OpToRel(<, Nat), Nat)
    BY NatLessThanWellFounded
<1>2. PICK x \in S : \A y \in S : ~(<<y, x>> \in OpToRel(<, Nat))
    BY <1>1, WFMin
<1>3. \A y \in S : ~(y < x)
    BY <1>2 DEF OpToRel
<1> QED
    BY <1>3

LEMMA OneMoreUnit ==
    ASSUME NEW S \in SUBSET Units, NEW u \in Units, NEW P \in Nat \ {0}, IsCommon(P, S)
    PROVE  P * Den[u] \in Nat \ {0} /\ IsCommon(P * Den[u], S \cup {u})
<1>1. Den[u] \in Nat \ {0} /\ \A v \in S : Den[v] \in Nat \ {0}
    BY UnitsAreApart
<1>2. P * Den[u] \in Nat \ {0}
    BY <1>1
<1>3. \A v \in S : \E k \in Nat \ {0} : P * Den[u] = k * Den[v]
    <2> SUFFICES ASSUME NEW v \in S PROVE \E k \in Nat \ {0} : P * Den[u] = k * Den[v]
        OBVIOUS
    <2>1. PICK k \in Nat \ {0} : P = k * Den[v]
        BY DEF IsCommon
    <2>2. k * Den[u] \in Nat \ {0} /\ P * Den[u] = (k * Den[u]) * Den[v]
        BY <1>1, <2>1
    <2> QED
        BY <2>2
<1> QED
    BY <1>2, <1>3 DEF IsCommon

LEMMA CommonDenominator == \E P \in Nat \ {0} : IsCommon(P, Units)
<1> DEFINE Good == {S \in SUBSET Units : \E P \in Nat \ {0} : IsCommon(P, S)}
           Missing == {Cardinality(Units \ S) : S \in Good}
<1>1. IsFiniteSet(Units)
    BY UnitsAreApart
<1>2. \A S \in SUBSET Units : IsFiniteSet(Units \ S) /\ Cardinality(Units \ S) \in Nat
    BY <1>1, FS_Subset, FS_CardinalityType
<1>3. {} \in Good
    BY DEF IsCommon
<1>4. Missing \subseteq Nat /\ Missing # {}
    BY <1>2, <1>3
<1>5. PICK n \in Missing : \A k \in Missing : n <= k
    BY <1>4, SmallestIsThere
<1>6. PICK S \in Good : n = Cardinality(Units \ S)
    BY <1>5
<1>7. S = Units
    <2> SUFFICES ASSUME S # Units PROVE FALSE
        OBVIOUS
    <2>1. PICK u \in Units : u \notin S
        BY <1>6
    <2>2. S \cup {u} \in Good
        BY <1>6, OneMoreUnit
    <2>3. Units \ (S \cup {u}) = (Units \ S) \ {u}
        OBVIOUS
    <2>4. Cardinality((Units \ S) \ {u}) = Cardinality(Units \ S) - 1
        BY <1>2, <1>6, <2>1, FS_RemoveElement
    <2>5. n - 1 \in Missing
        BY <1>6, <2>2, <2>3, <2>4
    <2>6. n \in Nat /\ n <= n - 1
        BY <1>4, <1>5, <2>5
    <2> QED
        BY <2>6
<1> QED
    BY <1>6, <1>7

One == CHOOSE P \in Nat \ {0} : IsCommon(P, Units)
Parts(u) == CHOOSE k \in Nat \ {0} : One = k * Den[u]

\* The last digit of a unit, in parts of a gram's.
Size(u) == Num[u] * Parts(u)

LEMMA Sizes ==
    /\ One \in Nat \ {0} /\ Size(gram) = One
    /\ \A u \in Units : /\ Parts(u) \in Nat \ {0} /\ One = Parts(u) * Den[u]
                        /\ Size(u) \in Nat \ {0}
<1>1. One \in Nat \ {0} /\ IsCommon(One, Units)
    BY CommonDenominator DEF One
<1>2. \A u \in Units : Parts(u) \in Nat \ {0} /\ One = Parts(u) * Den[u]
    BY <1>1 DEF IsCommon, Parts
<1>3. \A u \in Units : Num[u] \in Nat \ {0}
    BY UnitsAreApart
<1>4. \A u \in Units : Size(u) \in Nat \ {0}
    BY <1>2, <1>3 DEF Size
<1>5. Size(gram) = One
    BY <1>2, GramIsAUnit DEF Size
<1> QED
    BY <1>1, <1>2, <1>4, <1>5

LEMMA FactorCancels ==
    ASSUME NEW k \in Nat \ {0}, NEW x \in Int, NEW y \in Int, k * x <= k * y
    PROVE  x <= y
<1> SUFFICES ASSUME x >= y + 1 PROVE FALSE
    OBVIOUS
<1>1. k * x >= k * (y + 1) /\ k * (y + 1) = k * y + k /\ k * y \in Int /\ k * x \in Int
    OBVIOUS
<1> QED
    BY <1>1

LEMMA ScaledApart ==
    ASSUME NEW u \in Units, NEW v \in Units, NEW c \in Nat,
           c * (Num[u] * Den[v]) <= Num[v] * Den[u]
    PROVE  c * Size(u) <= Size(v)
<1> DEFINE k == Parts(u) * Parts(v)
           a == Num[u] * Den[v]
           b == Num[v] * Den[u]
<1>1. /\ Num[u] \in Nat /\ Num[v] \in Nat /\ Den[u] \in Nat /\ Den[v] \in Nat
      /\ Parts(u) \in Nat /\ Parts(v) \in Nat
      /\ One = Parts(u) * Den[u] /\ One = Parts(v) * Den[v] /\ One \in Nat \ {0}
      /\ Size(u) \in Nat /\ Size(v) \in Nat
    BY Sizes, UnitsAreApart
<1>2. k * a = One * Size(u) /\ k * b = One * Size(v)
    <2>1. k * a = (Num[u] * Parts(u)) * (Parts(v) * Den[v])
        BY <1>1
    <2>2. k * b = (Num[v] * Parts(v)) * (Parts(u) * Den[u])
        BY <1>1
    <2> QED
        BY <1>1, <2>1, <2>2 DEF Size
<1>3. k \in Nat /\ a \in Nat /\ b \in Nat
    BY <1>1
<1> HIDE DEF k, a, b
<1>4. k * (c * a) <= k * b
    BY <1>3 DEF a, b
<1>5. k * (c * a) = One * (c * Size(u))
    <2>1. k * (c * a) = c * (k * a) /\ c * (One * Size(u)) = One * (c * Size(u))
        BY <1>1, <1>3
    <2> QED
        BY <1>2, <2>1
<1>6. PICK p, q : p = c * Size(u) /\ q = Size(v)
    OBVIOUS
<1>7. p \in Int /\ q \in Int /\ One * p <= One * q
    BY <1>1, <1>2, <1>4, <1>5, <1>6
<1>8. p <= q
    BY <1>1, <1>7, FactorCancels
<1> QED
    BY <1>6, <1>8

\* Nothing comes near the gram, and other units are not near each other.
LEMMA SizesAreApart ==
    /\ \A u \in Units \ {gram} : 3 * Size(gram) <= Size(u)
    /\ \A u, v \in Units \ {gram} : u = v \/ 4 * Size(u) <= Size(v) \/ 4 * Size(v) <= Size(u)
<1>1. \A u \in Units : Num[u] \in Nat /\ Den[u] \in Nat
    BY UnitsAreApart
<1>2. ASSUME NEW u \in Units \ {gram} PROVE 3 * Size(gram) <= Size(u)
    BY <1>1, <1>2, GramIsAUnit, ScaledApart
<1>3. ASSUME NEW u \in Units \ {gram}, NEW v \in Units \ {gram}
      PROVE  u = v \/ 4 * Size(u) <= Size(v) \/ 4 * Size(v) <= Size(u)
    BY GramIsAUnit, ScaledApart
<1> QED
    BY <1>2, <1>3

\* A conversion moves a weight by half of the new unit's last digit at most
\* (convertWeightDisplay).
LEMMA ConversionsAreNear ==
    ASSUME NEW u \in Units, NEW t \in Units, NEW m \in Int
    PROVE  /\ convertWeightDisplay(m, u, t) \in Int
           /\ 2 * (convertWeightDisplay(m, u, t) * Size(t) - m * Size(u)) \in (-Size(t))..Size(t)
<1> DEFINE h == convertWeightDisplay(m, u, t)
           n == m * Num[u] * Den[t]
           d == Den[u] * Num[t]
           k == Parts(u) * Parts(t)
<1>1. /\ Num[u] \in Nat \ {0} /\ Num[t] \in Nat \ {0}
      /\ Den[u] \in Nat \ {0} /\ Den[t] \in Nat \ {0}
      /\ Parts(u) \in Nat \ {0} /\ Parts(t) \in Nat \ {0}
      /\ One = Parts(u) * Den[u] /\ One = Parts(t) * Den[t] /\ One \in Nat \ {0}
      /\ Size(u) \in Nat /\ Size(t) \in Nat
    BY Sizes, UnitsAreApart
<1>2. n \in Int /\ d \in Nat \ {0} /\ k \in Nat \ {0}
    BY <1>1
<1>3. h \in Int /\ 2 * (d * h) - 2 * n \in (-d)..d
    BY <1>2, EvenIsWithinHalf DEF convertWeightDisplay
<1>4. k * d = One * Size(t) /\ k * n = One * (m * Size(u))
    <2>1. k * d = (Parts(u) * Den[u]) * (Num[t] * Parts(t))
        BY <1>1
    <2>2. k * n = m * ((Num[u] * Parts(u)) * (Parts(t) * Den[t]))
        BY <1>1
    <2>3. k * n = m * (Size(u) * One)
        BY <1>1, <2>2 DEF Size
    <2>4. m * (Size(u) * One) = One * (m * Size(u))
        BY <1>1
    <2> QED
        BY <1>1, <2>1, <2>3, <2>4 DEF Size
<1> HIDE DEF h, n, d, k
<1> DEFINE x == 2 * (h * Size(t) - m * Size(u))
<1>5. h * Size(t) \in Int /\ m * Size(u) \in Int /\ x \in Int
    BY <1>1, <1>3
<1>6. k * (2 * (d * h) - 2 * n) = One * x
    <2>1. d * h \in Int
        BY <1>2, <1>3
    <2>2. k * (2 * (d * h) - 2 * n) = 2 * ((k * d) * h) - 2 * (k * n)
        BY <1>2, <1>3, <2>1
    <2>3. (One * Size(t)) * h = One * (h * Size(t))
        BY <1>1, <1>3
    <2>4. 2 * (One * (h * Size(t))) - 2 * (One * (m * Size(u))) = One * x
        BY <1>1, <1>5
    <2> QED
        BY <1>4, <2>2, <2>3, <2>4
<1>7. k * (-d) <= One * x /\ One * x <= k * d
    <2>1. d * h \in Int
        BY <1>2, <1>3
    <2>2. PICK y : y = 2 * (d * h) - 2 * n
        OBVIOUS
    <2>3. y \in Int /\ -d <= y /\ y <= d
        BY <1>2, <1>3, <2>1, <2>2
    <2>4. k * (-d) <= k * y /\ k * y <= k * d
        BY <1>2, <2>3
    <2> QED
        BY <1>6, <2>2, <2>4
<1>8. k * (-d) = One * (-Size(t))
    <2>1. k * (-d) = -(k * d) /\ One * (-Size(t)) = -(One * Size(t))
        BY <1>1, <1>2
    <2> QED
        BY <1>4, <2>1
<1>9. -Size(t) <= x /\ x <= Size(t)
    <2> HIDE DEF x
    <2>1. PICK p, q : p = Size(t) /\ q = -Size(t)
        OBVIOUS
    <2>2. p \in Int /\ q \in Int /\ One * q <= One * x /\ One * x <= One * p
        BY <1>1, <1>4, <1>7, <1>8, <2>1
    <2>3. q <= x /\ x <= p
        BY <1>1, <1>5, <2>2, FactorCancels
    <2> QED
        BY <2>1, <2>3
<1> QED
    BY <1>1, <1>3, <1>5, <1>9 DEF h, x

-----------------------------------------------------------------------------
(* A weight whose unit is chosen again and again *)

\* A quarter of k at most between two weights, in parts of a gram's last digit.
Within(x, y, k) == x \in Int /\ y \in Int /\ 4 * (x - y) \in (-k)..k

IsCoarsest(b, D) == b \in D /\ \A c \in D : Size(c) <= Size(b)

\* The units of C come nearer and nearer to what was shown in unit v, or at first.
Below(C, v) == {c \in C : Size(c) < Size(v)}
Approaches(D, X, y) ==
    \A a \in D : \E b \in D : IsCoarsest(b, D) /\ Within(X[a], y, 4 * Size(b) - Size(a))

\* The units the weight was shown in, but for those finer than a later one, and what it was there:
\* coming back to a unit brings back the same weight.
Trail(C, X, y) ==
    /\ C \subseteq Units
    /\ Approaches(C, X, y)
    /\ \A v \in C : Approaches(Below(C, v), X, X[v])

\* What is shown of a weight of y grams, after its unit was chosen any number of times.
Turned(y, u, m) ==
    \E C \in SUBSET Units, X \in [Units -> Int] :
        /\ Trail(C, X, y * One) /\ u \in C /\ X[u] = m * Size(u)
        /\ \A a \in C : Size(u) <= Size(a) /\ \E k \in Int : X[a] = k * Size(a)

LEMMA FinestIsThere ==
    ASSUME NEW D \in SUBSET Units, D # {}
    PROVE  \E u \in D : \A c \in D : Size(u) <= Size(c)
<1> DEFINE S == {Size(c) : c \in D}
<1>1. S \subseteq Nat /\ S # {}
    BY Sizes
<1>2. PICK n \in S : \A k \in S : n <= k
    BY <1>1, SmallestIsThere
<1> QED
    BY <1>2

\* What finer units leave open is little in a coarser one.
LEMMA FinerIsLittle ==
    ASSUME NEW a \in Units, NEW b \in Units, NEW t \in Units, Size(a) <= Size(b), Size(b) < Size(t)
    PROVE  4 * Size(b) - Size(a) <= Size(t)
<1>1. Size(a) \in Nat /\ Size(b) \in Nat /\ Size(t) \in Nat /\ Size(gram) \in Nat \ {0}
    BY Sizes, GramIsAUnit
<1>2. t # gram /\ 3 * Size(gram) <= Size(t)
    BY <1>1, SizesAreApart
<1>3. CASE b = gram
    <2>1. a = gram
        BY <1>1, <1>3, SizesAreApart
    <2> QED
        BY <1>1, <1>2, <1>3, <2>1
<1>4. CASE b # gram
    BY <1>1, <1>2, <1>4, SizesAreApart
<1> QED
    BY <1>3, <1>4

LEMMA CoarserIsMuch ==
    ASSUME NEW t \in Units, NEW v \in Units, Size(t) < Size(v)
    PROVE  /\ 3 * Size(t) <= Size(v)
           /\ (\E u \in Units : Size(u) < Size(t)) => 4 * Size(t) <= Size(v)
<1>1. \A u \in Units : Size(u) \in Nat \ {0}
    BY Sizes
<1>2. v # gram
    BY <1>1, GramIsAUnit, SizesAreApart
<1>3. CASE t = gram
    <2>1. \A u \in Units : ~(Size(u) < Size(t))
        BY <1>1, <1>3, GramIsAUnit, SizesAreApart
    <2> QED
        BY <1>2, <1>3, <2>1, SizesAreApart
<1>4. CASE t # gram
    <2>1. 4 * Size(t) <= Size(v)
        BY <1>1, <1>2, <1>4, SizesAreApart
    <2> QED
        BY <1>1, <2>1
<1> QED
    BY <1>3, <1>4

LEMMA SizesDiffer ==
    ASSUME NEW u \in Units, NEW v \in Units, Size(u) = Size(v)
    PROVE  u = v
BY Sizes, GramIsAUnit, SizesAreApart

\* The next unit approaches what was shown in v, or at first, as those it follows did.
LEMMA NextApproaches ==
    ASSUME NEW C \in SUBSET Units, NEW X \in [Units -> Int], NEW D \in SUBSET C, NEW y \in Int,
           \A v \in C : Approaches(Below(C, v), X, X[v]),
           \A d \in D, c \in C : Size(c) <= Size(d) => c \in D,
           Approaches(D, X, y),
           NEW u \in D, \A a \in C : Size(u) <= Size(a),
           NEW t \in Units \ C,
           NEW x \in Int, 2 * (x - X[u]) \in (-Size(t))..Size(t)
    PROVE  \E b \in {c \in D : Size(t) < Size(c)} \cup {t} :
              /\ IsCoarsest(b, {c \in D : Size(t) < Size(c)} \cup {t})
              /\ Within(x, y, 4 * Size(b) - Size(t))
<1> DEFINE N == {c \in D : Size(t) < Size(c)}
<1>1. \A a \in Units : Size(a) \in Nat \ {0} /\ X[a] \in Int
    BY Sizes
<1>2. D \subseteq Units /\ u \in Units /\ u # t
    OBVIOUS
<1>3. \A c \in D : c \notin N => Size(c) < Size(t)
    BY <1>1, <1>2, SizesDiffer
<1>4. PICK b \in D : IsCoarsest(b, D) /\ Within(X[u], y, 4 * Size(b) - Size(u))
    BY DEF Approaches
<1>5. CASE N = {}
    <2>1. Size(b) < Size(t) /\ Size(u) <= Size(b)
        BY <1>3, <1>4, <1>5
    <2>2. 4 * Size(b) - Size(u) <= Size(t)
        BY <1>2, <2>1, FinerIsLittle
    <2>3. Within(x, y, 3 * Size(t))
        BY <1>1, <1>2, <1>4, <2>2 DEF Within
    <2>4. IsCoarsest(t, N \cup {t}) /\ 4 * Size(t) - Size(t) = 3 * Size(t)
        BY <1>1, <1>5 DEF IsCoarsest
    <2> QED
        BY <2>3, <2>4
<1>6. CASE N # {}
    <2>1. PICK v \in N : \A c \in N : Size(v) <= Size(c)
        <3>1. N \subseteq Units
            BY <1>2
        <3> QED
            BY <1>6, <3>1, FinestIsThere
    <2>2. v \in D /\ v \in C /\ v \in Units /\ Size(t) < Size(v) /\ Size(v) <= Size(b)
        BY <1>2, <1>4, <2>1 DEF IsCoarsest
    <2>3. PICK b0 \in D : IsCoarsest(b0, D) /\ Within(X[v], y, 4 * Size(b0) - Size(v))
        BY <2>2 DEF Approaches
    <2>4. Size(b0) = Size(b)
        <3>1. Size(b0) \in Nat /\ Size(b) \in Nat
            BY <1>1, <1>2
        <3>2. Size(b0) <= Size(b) /\ Size(b) <= Size(b0)
            BY <1>4, <2>3 DEF IsCoarsest
        <3> QED
            BY <3>1, <3>2
    <2>5. b \in N /\ IsCoarsest(b, N \cup {t})
        BY <1>1, <1>2, <1>4, <2>2 DEF IsCoarsest
    <2>6. PICK k \in {0, Size(t)} :
             /\ 4 * (X[u] - X[v]) \in (-k)..k
             /\ k # 0 => \E a \in Units : Size(a) < Size(t)
        <3>1. CASE u = v
            BY <1>1, <2>2, <3>1
        <3>2. CASE u # v
            <4>1. u \in Below(C, v)
                BY <1>1, <1>2, <2>2, <3>2, SizesDiffer DEF Below
            <4>2. PICK b2 \in Below(C, v) :
                     Within(X[u], X[v], 4 * Size(b2) - Size(u))
                BY <2>2, <4>1 DEF Approaches
            <4>3. b2 \in D /\ Size(b2) < Size(v) /\ Size(u) <= Size(b2)
                BY <1>1, <2>2, <4>2 DEF Below
            <4>4. b2 \notin N
                BY <1>1, <1>2, <2>1, <2>2, <4>3
            <4>5. Size(b2) < Size(t)
                BY <1>3, <4>3, <4>4
            <4>6. 4 * Size(b2) - Size(u) <= Size(t) /\ Size(u) < Size(t)
                BY <1>1, <1>2, <4>3, <4>5, FinerIsLittle
            <4>7. 4 * (X[u] - X[v]) \in (-Size(t))..Size(t)
                BY <1>1, <1>2, <2>2, <4>2, <4>3, <4>6 DEF Within
            <4> QED
                BY <1>2, <4>6, <4>7
        <3> QED
            BY <3>1, <3>2
    <2>7. 3 * Size(t) + k <= Size(v)
        BY <1>1, <2>2, <2>6, CoarserIsMuch
    <2>8. Within(x, y, 4 * Size(b) - Size(t))
        <3>1. PICK p, q, s, h, l : p = X[u] /\ q = X[v] /\ s = Size(t) /\ h = Size(v) /\ l = Size(b)
            OBVIOUS
        <3>2. p \in Int /\ q \in Int /\ s \in Nat /\ h \in Nat /\ l \in Nat /\ k \in Nat
            BY <1>1, <1>2, <2>2, <2>6, <3>1
        <3>3. 4 * (q - y) \in (-(4 * l - h))..(4 * l - h)
            BY <2>3, <2>4, <3>1 DEF Within
        <3>4. 2 * (x - p) \in (-s)..s /\ 4 * (p - q) \in (-k)..k /\ 3 * s + k <= h
            BY <2>6, <2>7, <3>1
        <3>5. 4 * (x - y) \in (-(4 * l - s))..(4 * l - s)
            BY <3>2, <3>3, <3>4
        <3> QED
            BY <3>1, <3>5 DEF Within
    <2> QED
        BY <2>5, <2>8
<1> QED
    BY <1>5, <1>6

LEMMA DigitsDiffer ==
    ASSUME NEW s \in Nat \ {0}, NEW h \in Int, NEW k \in Int,
           4 * (h * s - k * s) \in (-(3 * s))..(3 * s)
    PROVE  h = k
<1>1. h * s - k * s = s * (h - k) /\ s * (h - k) \in Int
    OBVIOUS
<1>2. CASE h - k >= 1
    <2>1. s * (h - k) >= s * 1
        BY <1>2
    <2> QED
        BY <1>1, <2>1
<1>3. CASE h - k <= -1
    <2>1. s * (h - k) <= s * (-1)
        BY <1>3
    <2> QED
        BY <1>1, <2>1
<1> QED
    BY <1>2, <1>3

LEMMA NotTurnedYet ==
    ASSUME NEW y \in Int
    PROVE  Turned(y, gram, y)
<1> DEFINE X == [u \in Units |-> y * One]
<1>1. gram \in Units /\ One \in Nat \ {0} /\ Size(gram) = One
    BY Sizes, GramIsAUnit
<1>2. y * One \in Int
    BY <1>1
<1>3. X \in [Units -> Int] /\ X[gram] = y * One
    BY <1>1, <1>2
<1> HIDE DEF X
<1>4. Below({gram}, gram) = {}
    BY <1>1 DEF Below
<1>5. Approaches({gram}, X, y * One)
    <2>1. Within(X[gram], y * One, 4 * Size(gram) - Size(gram))
        BY <1>1, <1>2, <1>3 DEF Within
    <2> QED
        BY <1>1, <2>1 DEF Approaches, IsCoarsest
<1>6. Trail({gram}, X, y * One)
    BY <1>1, <1>4, <1>5 DEF Trail, Approaches
<1>7. \E k \in Int : X[gram] = k * Size(gram)
    BY <1>1, <1>3
<1>8. {gram} \in SUBSET Units /\ \A a \in {gram} : a = gram
    BY <1>1
<1>9. PICK C \in SUBSET Units : C = {gram}
    BY <1>8
<1>10. /\ Trail(C, X, y * One) /\ gram \in C /\ X[gram] = y * Size(gram)
       /\ \A a \in C : Size(gram) <= Size(a) /\ \E k \in Int : X[a] = k * Size(a)
    BY <1>1, <1>3, <1>6, <1>7, <1>9
<1> QED
    BY <1>3, <1>10 DEF Turned

\* Back to a unit it was shown in: what was shown there is shown again.
LEMMA TurnedBack ==
    ASSUME NEW y \in Int, NEW C \in SUBSET Units, NEW X \in [Units -> Int], Trail(C, X, y),
           NEW u \in C, \A a \in C : Size(u) <= Size(a), NEW t \in C
    PROVE  Trail({c \in C : Size(t) <= Size(c)}, X, y)
           /\ 4 * (X[u] - X[t]) \in (-Size(t))..Size(t)
<1> DEFINE D == {c \in C : Size(t) <= Size(c)}
<1>1. \A a \in Units : Size(a) \in Nat \ {0} /\ X[a] \in Int
    BY Sizes
<1>2. Approaches(D, X, y)
    <2> SUFFICES ASSUME NEW a \in D
                 PROVE  \E b \in D : IsCoarsest(b, D) /\ Within(X[a], y, 4 * Size(b) - Size(a))
        BY DEF Approaches
    <2>1. PICK b \in C : IsCoarsest(b, C) /\ Within(X[a], y, 4 * Size(b) - Size(a))
        BY DEF Trail, Approaches
    <2>2. Size(t) \in Nat /\ Size(a) \in Nat /\ Size(b) \in Nat /\ Size(a) <= Size(b)
        BY <1>1, <2>1 DEF IsCoarsest
    <2>3. b \in D /\ IsCoarsest(b, D)
        BY <2>1, <2>2 DEF IsCoarsest
    <2> QED
        BY <2>1, <2>3
<1>3. ASSUME NEW v \in D PROVE Approaches(Below(D, v), X, X[v])
    <2> SUFFICES ASSUME NEW a \in Below(D, v)
                 PROVE  \E b \in Below(D, v) : /\ IsCoarsest(b, Below(D, v))
                                               /\ Within(X[a], X[v], 4 * Size(b) - Size(a))
        BY DEF Approaches
    <2>1. a \in Below(C, v) /\ v \in C
        BY DEF Below
    <2>2. PICK b \in Below(C, v) : /\ IsCoarsest(b, Below(C, v))
                                   /\ Within(X[a], X[v], 4 * Size(b) - Size(a))
        BY <2>1 DEF Trail, Approaches
    <2>3. Size(t) \in Nat /\ Size(a) \in Nat /\ Size(b) \in Nat /\ Size(a) <= Size(b) /\ b \in C
        BY <1>1, <2>1, <2>2 DEF IsCoarsest, Below
    <2>4. b \in Below(D, v) /\ IsCoarsest(b, Below(D, v))
        BY <2>2, <2>3 DEF IsCoarsest, Below
    <2> QED
        BY <2>2, <2>4
<1>4. 4 * (X[u] - X[t]) \in (-Size(t))..Size(t)
    <2>1. CASE u = t
        BY <1>1, <2>1
    <2>2. CASE u # t
        <3>1. u \in Below(C, t)
            BY <1>1, <2>2, SizesDiffer DEF Below
        <3>2. PICK b \in Below(C, t) : /\ IsCoarsest(b, Below(C, t))
                                       /\ Within(X[u], X[t], 4 * Size(b) - Size(u))
            BY <3>1 DEF Trail, Approaches
        <3>3. b \in Units /\ Size(u) <= Size(b) /\ Size(b) < Size(t)
            BY <3>1, <3>2 DEF IsCoarsest, Below
        <3>4. 4 * Size(b) - Size(u) <= Size(t)
            BY <3>3, FinerIsLittle
        <3>5. Size(b) \in Nat /\ Size(u) \in Nat /\ Size(t) \in Nat /\ X[u] \in Int /\ X[t] \in Int
            BY <1>1, <3>3
        <3> QED
            BY <3>2, <3>4, <3>5 DEF Within
    <2> QED
        BY <2>1, <2>2
<1> QED
    BY <1>2, <1>3, <1>4 DEF Trail

\* On to another unit.
LEMMA TurnedOn ==
    ASSUME NEW y \in Int, NEW C \in SUBSET Units, NEW X \in [Units -> Int], Trail(C, X, y),
           NEW u \in C, \A a \in C : Size(u) <= Size(a), NEW t \in Units \ C,
           NEW x \in Int, 2 * (x - X[u]) \in (-Size(t))..Size(t)
    PROVE  Trail({c \in C : Size(t) < Size(c)} \cup {t}, [X EXCEPT ![t] = x], y)
<1> DEFINE D == {c \in C : Size(t) < Size(c)} \cup {t}
           Y == [X EXCEPT ![t] = x]
<1>1. \A a \in Units : Size(a) \in Nat \ {0} /\ X[a] \in Int
    BY Sizes
<1>2. Y \in [Units -> Int] /\ Y[t] = x /\ \A c \in C : Y[c] = X[c]
    OBVIOUS
<1>3. D \subseteq Units /\ \A d \in D : Size(t) <= Size(d) /\ (d # t => d \in C /\ Size(t) < Size(d))
    BY <1>1
<1> HIDE DEF Y
<1>4. ASSUME NEW S \in SUBSET C, NEW z \in Int, Approaches(S, X, z), u \in S,
             \A d \in S, c \in C : Size(c) <= Size(d) => c \in S
      PROVE  Approaches({c \in S : Size(t) < Size(c)} \cup {t}, Y, z)
    <2> DEFINE N == {c \in S : Size(t) < Size(c)} \cup {t}
    <2> SUFFICES ASSUME NEW a \in N
                 PROVE  \E b \in N : IsCoarsest(b, N) /\ Within(Y[a], z, 4 * Size(b) - Size(a))
        BY DEF Approaches
    <2>1. CASE a = t
        <3>1. \A v \in C : Approaches(Below(C, v), X, X[v])
            BY DEF Trail
        <3>2. \E b \in N : IsCoarsest(b, N) /\ Within(x, z, 4 * Size(b) - Size(t))
            BY <1>4, <3>1, NextApproaches
        <3> QED
            BY <1>2, <2>1, <3>2
    <2>2. CASE a # t
        <3>1. a \in S /\ Size(t) < Size(a) /\ Y[a] = X[a]
            BY <1>2, <2>2
        <3>2. PICK b \in S : IsCoarsest(b, S) /\ Within(X[a], z, 4 * Size(b) - Size(a))
            BY <1>4, <3>1 DEF Approaches
        <3>3. Size(a) <= Size(b) /\ Size(a) \in Nat /\ Size(b) \in Nat /\ Size(t) \in Nat
            BY <1>1, <3>1, <3>2 DEF IsCoarsest
        <3>4. b \in N /\ IsCoarsest(b, N)
            BY <3>1, <3>2, <3>3 DEF IsCoarsest
        <3> QED
            BY <3>1, <3>2, <3>4
    <2> QED
        BY <2>1, <2>2
<1>5. Approaches(D, Y, y)
    BY <1>4 DEF Trail
<1>6. ASSUME NEW v \in D PROVE Approaches(Below(D, v), Y, Y[v])
    <2>1. CASE v = t
        <3>1. Below(D, v) = {}
            BY <1>1, <1>3, <2>1 DEF Below
        <3> QED
            BY <3>1 DEF Approaches
    <2>2. CASE v # t
        <3>1. v \in C /\ Size(t) < Size(v) /\ Y[v] = X[v] /\ X[v] \in Int /\ v \in Units
            BY <1>1, <1>2, <1>3, <2>2
        <3>2. Approaches(Below(C, v), X, X[v]) /\ Below(C, v) \subseteq C
            BY <3>1 DEF Trail, Below
        <3>3. Below(D, v) = {c \in Below(C, v) : Size(t) < Size(c)} \cup {t}
            BY <1>1, <3>1 DEF Below
        <3>4. \A d \in Below(C, v), c \in C : Size(c) <= Size(d) => c \in Below(C, v)
            BY <1>1, <3>1 DEF Below
        <3>5. CASE u \in Below(C, v)
            BY <1>4, <3>1, <3>2, <3>3, <3>4, <3>5
        <3>6. CASE u \notin Below(C, v)
            <4>1. u = v /\ Below(C, v) = {}
                BY <1>1, <3>1, <3>6, SizesDiffer DEF Below
            <4>2. Below(D, v) = {t}
                BY <3>3, <4>1
            <4>3. Within(Y[t], Y[v], 4 * Size(t) - Size(t))
                BY <1>1, <1>2, <3>1, <4>1 DEF Within
            <4> QED
                BY <1>1, <4>2, <4>3 DEF Approaches, IsCoarsest
        <3> QED
            BY <3>5, <3>6
    <2> QED
        BY <2>1, <2>2
<1> QED
    BY <1>3, <1>5, <1>6 DEF Trail, Y

LEMMA ChosenAgain ==
    ASSUME NEW y \in Int, NEW u \in Units, NEW t \in Units, NEW m \in Int, Turned(y, u, m)
    PROVE  Turned(y, t, convertWeightDisplay(m, u, t))
<1> DEFINE h == convertWeightDisplay(m, u, t)
<1>1. h \in Int /\ 2 * (h * Size(t) - m * Size(u)) \in (-Size(t))..Size(t)
    BY ConversionsAreNear
<1> HIDE DEF h
<1>2. PICK C \in SUBSET Units, X \in [Units -> Int] :
         /\ Trail(C, X, y * One) /\ u \in C /\ X[u] = m * Size(u)
         /\ \A a \in C : Size(u) <= Size(a) /\ \E k \in Int : X[a] = k * Size(a)
    BY DEF Turned
<1>3. /\ \A a \in Units : Size(a) \in Nat \ {0} /\ X[a] \in Int
      /\ y * One \in Int /\ h * Size(t) \in Int
    BY <1>1, Sizes
<1>4. CASE t \notin C
    <2> DEFINE D == {c \in C : Size(t) < Size(c)} \cup {t}
               Y == [X EXCEPT ![t] = h * Size(t)]
    <2>1. Trail(D, Y, y * One)
        BY <1>1, <1>2, <1>3, <1>4, TurnedOn
    <2>2. D \in SUBSET Units /\ Y \in [Units -> Int] /\ t \in D /\ Y[t] = h * Size(t)
        BY <1>3
    <2>3. \A a \in D : Size(t) <= Size(a) /\ \E k \in Int : Y[a] = k * Size(a)
        BY <1>1, <1>2, <1>3, <1>4
    <2> QED
        BY <2>1, <2>2, <2>3, ZenonT(60) DEF Turned, h
<1>5. CASE t \in C
    <2> DEFINE D == {c \in C : Size(t) <= Size(c)}
    <2>1. Trail(D, X, y * One) /\ 4 * (X[u] - X[t]) \in (-Size(t))..Size(t)
        BY <1>2, <1>3, <1>5, TurnedBack
    <2>2. /\ D \in SUBSET Units /\ t \in D
          /\ \A a \in D : Size(t) <= Size(a) /\ \E k \in Int : X[a] = k * Size(a)
        BY <1>2, <1>3, <1>5
    <2>3. X[t] = h * Size(t)
        <3>1. PICK k \in Int : X[t] = k * Size(t)
            BY <1>2, <1>5
        <3>2. PICK s \in Nat \ {0} : s = Size(t)
            BY <1>3
        <3>3. PICK p, q : p = h * s /\ q = k * s
            OBVIOUS
        <3>4. p \in Int /\ q \in Int /\ X[u] \in Int
            BY <1>1, <1>2, <1>3, <3>1, <3>2, <3>3
        <3>5. 2 * (p - X[u]) \in (-s)..s /\ 4 * (X[u] - q) \in (-s)..s
            BY <1>1, <1>2, <2>1, <3>1, <3>2, <3>3
        <3>6. 4 * (p - q) \in (-(3 * s))..(3 * s)
            BY <3>4, <3>5
        <3>7. h = k
            BY <1>1, <3>3, <3>6, DigitsDiffer
        <3> QED
            BY <3>1, <3>7
    <2> QED
        BY <2>1, <2>2, <2>3 DEF Turned, h
<1> QED
    BY <1>4, <1>5

LEMMA GramsAreAUnit ==
    ASSUME NEW u \in Units, NEW m \in Int
    PROVE  /\ ToGrams(m, u) = convertWeightDisplay(m, u, gram)
           /\ FromGrams(m, u) = convertWeightDisplay(m, gram, u)
<1>1. Num[u] \in Nat /\ Den[u] \in Nat /\ Num[gram] = 1 /\ Den[gram] = 1
    BY UnitsAreApart, GramIsAUnit
<1>2. m * Num[u] * 1 = m * Num[u] /\ Den[u] * 1 = Den[u]
    BY <1>1
<1>3. m * 1 * Den[u] = m * Den[u] /\ 1 * Num[u] = Num[u]
    BY <1>1
<1> QED
    BY <1>1, <1>2, <1>3 DEF ToGrams, FromGrams, convertWeightDisplay

\* Whatever units a weight was shown in, what is stored of it is off by one last digit of a unit
\* at most.
LEMMA TurnedIsRounded ==
    ASSUME NEW y \in Int, NEW m \in Int, Turned(y, gram, m)
    PROVE  Rounded(m, y)
<1>1. PICK C \in SUBSET Units, X \in [Units -> Int] :
         Trail(C, X, y * One) /\ gram \in C /\ X[gram] = m * Size(gram)
    BY DEF Turned
<1>2. PICK b \in C : Within(X[gram], y * One, 4 * Size(b) - Size(gram))
    BY <1>1 DEF Trail, Approaches
<1>3. PICK k, n, d, D : k = Parts(b) /\ n = Num[b] /\ d = Den[b] /\ D = Distance(m, y)
    OBVIOUS
<1>4. /\ k \in Nat \ {0} /\ n \in Nat /\ d \in Nat /\ One = k * d /\ Size(b) = n * k
      /\ One \in Nat \ {0} /\ Size(gram) = One /\ D \in Nat
    BY <1>3, Sizes, UnitsAreApart DEF Size, Distance
<1>5. 4 * (m * One - y * One) \in (-(4 * (n * k) - One))..(4 * (n * k) - One)
    BY <1>1, <1>2, <1>4 DEF Within
<1>6. m * One \in Int /\ y * One \in Int /\ n * k \in Nat
    BY <1>4
<1>7. D * One \in {m * One - y * One, y * One - m * One}
    BY <1>3, <1>4 DEF Distance
<1>8. D * One <= n * k
    BY <1>4, <1>5, <1>6, <1>7
<1>9. D * One = k * (D * d) /\ n * k = k * n /\ D * d \in Int
    BY <1>4
<1>10. D * d <= n
    <2>1. PICK x : x = D * d
        OBVIOUS
    <2>2. x \in Int /\ n \in Int /\ k * x <= k * n
        BY <1>4, <1>8, <1>9, <2>1
    <2>3. x <= n
        BY <1>4, <2>2, FactorCancels
    <2> QED
        BY <2>1, <2>3
<1> QED
    BY <1>3, <1>10 DEF Rounded

-----------------------------------------------------------------------------
(* Products: what the wizard opens with, what it sends, what the server makes of it *)

\* A weight nobody typed is that of the row the wizard opened with, shown in other units.
WeightIsOf(row, form) == ~form.typed => Turned(row.weight, form.unit, form.weight)

ProductInv ==
    /\ ProductIInv /\ WeightIsOf(page.opened, page.form)
    /\ accepted # NoUpdate /\ accepted.by = "page" /\ accepted.fresh =>
           WeightIsOf(accepted.opened, accepted.form)

LEMMA RoundedIsNatural ==
    ASSUME NEW n \in Nat, NEW d \in Nat \ {0}
    PROVE  HalfEven(n, d) \in Nat
<1>1. n \div d \in Nat
    OBVIOUS
<1> QED
    BY <1>1 DEF HalfEven

LEMMA ConvertedIsNatural ==
    ASSUME NEW u \in Units, NEW t \in Units, NEW m \in Nat
    PROVE  /\ convertWeightDisplay(m, u, t) \in Nat
           /\ ToGrams(m, u) \in Nat /\ FromGrams(m, u) \in Nat
<1>1. /\ Num[u] \in Nat \ {0} /\ Num[t] \in Nat \ {0}
      /\ Den[u] \in Nat \ {0} /\ Den[t] \in Nat \ {0}
    BY UnitsAreApart
<1>2. /\ m * Num[u] * Den[t] \in Nat /\ Den[u] * Num[t] \in Nat \ {0}
      /\ m * Num[u] \in Nat /\ m * Den[u] \in Nat
    BY <1>1
<1> QED
    BY <1>1, <1>2, RoundedIsNatural DEF convertWeightDisplay, ToGrams, FromGrams

LEMMA BrandIsAnOrg ==
    ASSUME NEW ps \in SUBSET PartyRows, Brands(ps) # {}
    PROVE  BrandOf(ps) \in Orgs
<1> DEFINE primary == {p \in Brands(ps) : p.primary}
<1>1. \A p \in Brands(ps) : p.org \in Orgs
    BY DEF Brands, PartyRows
<1>2. CASE primary # {}
    <2>1. (CHOOSE p \in primary : TRUE) \in primary
        BY <1>2
    <2> QED
        BY <1>1, <1>2, <2>1 DEF BrandOf
<1>3. CASE primary = {}
    <2>1. (CHOOSE p \in Brands(ps) : TRUE) \in Brands(ps)
        OBVIOUS
    <2> QED
        BY <1>1, <1>3, <2>1 DEF BrandOf
<1> QED
    BY <1>2, <1>3

\* Columns of a row.
LEMMA RowColumns ==
    ASSUME NEW row \in Rows
    PROVE  /\ row.version \in Nat \ {0} /\ row.name \in Names /\ row.active \in BOOLEAN
           /\ row.brand \in Brandings /\ row.weight \in Nat \ {0} /\ row.unit \in Units
           /\ row.parties \in SUBSET PartyRows
           /\ OriginalBrand(row) \in Orgs \cup {NoBrand}
<1>1. row.parties \in SUBSET PartyRows
    BY DEF Rows
<1>2. OriginalBrand(row) \in Orgs \cup {NoBrand}
    BY <1>1, BrandIsAnOrg DEF OriginalBrand
<1> QED
    BY <1>1, <1>2 DEF Rows, Brandings

LEMMA OpenedPages ==
    ASSUME NEW row \in Rows, NEW step \in 0 .. Len(Steps)
    PROVE  /\ OpenedAt(step, row) \in Wizards
           /\ FormIsOf(row, FormFrom(row)) /\ WeightIsOf(row, FormFrom(row))
<1>1. FromGrams(row.weight, row.unit) \in Nat
    BY RowColumns, ConvertedIsNatural
<1>2. FormFrom(row) \in Forms
    BY <1>1, RowColumns DEF FormFrom, Forms
<1>3. OpenedAt(step, row) \in Wizards
    BY <1>2, RowColumns DEF OpenedAt, Wizards
<1>4. FormIsOf(row, FormFrom(row))
    BY DEF FormIsOf, FormFrom
<1>5. Turned(row.weight, row.unit, FromGrams(row.weight, row.unit))
    BY RowColumns, NotTurnedYet, ChosenAgain, GramsAreAUnit, GramIsAUnit
<1> QED
    BY <1>3, <1>4, <1>5 DEF WeightIsOf, FormFrom

LEMMA PatchTypes ==
    ASSUME NEW row \in Rows, NEW form \in Forms, NEW brand \in Orgs \cup {NoBrand}
    PROVE  /\ PatchFor(row, form, brand) \in Patches
           /\ PatchFor(row, form, brand).version = row.version
<1> DEFINE p == buildProductPatch(row, form)
           ps == productPartiesWithBrand(row, brand)
<1>1. PICK n, a, b, w, u :
         /\ n = Changed(row.name, form.name) /\ b = Changed(row.brand, form.brand)
         /\ a = (IF form.active = row.active THEN Same ELSE IF form.active THEN "yes" ELSE "no")
         /\ w = WeightPatch(row, form) /\ u = Changed(row.unit, form.unit)
    OBVIOUS
<1>2. /\ form.name \in Names /\ form.active \in BOOLEAN /\ form.brand \in Brandings
      /\ form.weight \in Nat /\ form.unit \in Units
    BY DEF Forms
<1>3. /\ Changed(row.name, form.name) \in Names \cup {Same}
      /\ Changed(row.brand, form.brand) \in Brandings \cup {Same}
      /\ Changed(row.unit, form.unit) \in Units \cup {Same}
      /\ WeightPatch(row, form) \in Nat
    BY <1>2, RowColumns DEF Changed, WeightPatch
<1>4. p \in Patches /\ p.version = row.version
    <2>1. p = [Nothing(row.version) EXCEPT !.name = n, !.active = a, !.brand = b, !.weight = w,
                                           !.unit = u]
        BY <1>1 DEF buildProductPatch
    <2>2. p = [version |-> row.version, name |-> n, active |-> a, brand |-> b, weight |-> w,
               unit |-> u, parties |-> <<>>]
        BY <2>1 DEF Nothing
    <2>3. a \in {"yes", "no", Same}
        BY <1>1
    <2> QED
        BY <1>1, <1>3, <2>2, <2>3, RowColumns DEF Patches
<1>5. ps \in SUBSET PartyRows
    <2>1. row.parties \ Brands(row.parties) \in SUBSET PartyRows
        BY RowColumns
    <2>2. brand # NoBrand => [org |-> brand, role |-> "BRAND", primary |-> TRUE] \in PartyRows
        BY DEF PartyRows, PartyRoles
    <2> QED
        BY <2>1, <2>2 DEF productPartiesWithBrand
<1>6. brand \in Brandings
    BY DEF Brandings
<1> HIDE DEF p, ps
<1>7. CASE OriginalBrand(row) = brand
    BY <1>4, <1>7 DEF PatchFor, p
<1>8. CASE OriginalBrand(row) # brand
    <2>1. PatchFor(row, form, brand) = [p EXCEPT !.brand = brand, !.parties = <<ps>>]
        BY <1>8 DEF PatchFor, p, ps
    <2> QED
        BY <1>4, <1>5, <1>6, <2>1 DEF Patches
<1> QED
    BY <1>7, <1>8

\* An acceptable update makes a row of a row, the next version, and keeps brand and parties
\* together (data of ProductsService.update).
LEMMA PatchedRows ==
    ASSUME NEW row \in Rows, BrandAgrees(row), NEW patch \in Patches, Acceptable(row, patch)
    PROVE  /\ Patched(row, patch) \in Rows /\ BrandAgrees(Patched(row, patch))
           /\ Patched(row, patch).version = row.version + 1
<1> DEFINE q == Patched(row, patch)
           unit == IF patch.unit # Same THEN patch.unit ELSE row.unit
<1>1. /\ patch.name \in Names \cup {Same} /\ patch.active \in {"yes", "no", Same}
      /\ patch.brand \in Brandings \cup {Same} /\ patch.weight \in Nat
      /\ patch.unit \in Units \cup {Same}
      /\ patch.parties = <<>> \/ \E ps \in SUBSET PartyRows : patch.parties = <<ps>>
    BY DEF Patches
<1>2. q = [version |-> row.version + 1,
           name    |-> IF patch.name # Same THEN patch.name ELSE row.name,
           active  |-> IF patch.active # Same THEN patch.active = "yes" ELSE row.active,
           brand   |-> NewBrand(row, patch),
           weight  |-> IF patch.weight > 0 THEN ToGrams(patch.weight, unit) ELSE row.weight,
           unit    |-> unit,
           parties |-> IF patch.parties # <<>> THEN patch.parties[1] ELSE row.parties]
    BY DEF Patched
<1>3. unit \in Units
    BY <1>1, RowColumns
<1>4. q.weight \in Nat \ {0}
    <2>1. CASE patch.weight > 0
        <3>1. q.weight > 0 /\ q.weight = ToGrams(patch.weight, unit)
            BY <1>2, <2>1 DEF Acceptable
        <3>2. PICK w, u : w = patch.weight /\ u = unit
            OBVIOUS
        <3>3. ToGrams(w, u) \in Nat
            BY <1>1, <1>3, <3>2, ConvertedIsNatural
        <3> QED
            BY <3>1, <3>2, <3>3
    <2>2. CASE ~(patch.weight > 0)
        BY <1>2, <2>2, RowColumns
    <2> QED
        BY <2>1, <2>2
<1>5. q.brand = NewBrand(row, patch) /\ q.version = row.version + 1
    BY <1>2
<1>6. /\ q.version \in Nat \ {0} /\ q.name \in Names /\ q.active \in BOOLEAN /\ q.unit \in Units
       /\ q = [version |-> q.version, name |-> q.name, active |-> q.active, brand |-> q.brand,
               weight |-> q.weight, unit |-> q.unit, parties |-> q.parties]
    <2>1. q.version \in Nat \ {0} /\ q.unit \in Units
        BY <1>2, <1>3, RowColumns
    <2>2. q.name \in Names
        BY <1>1, <1>2, RowColumns
    <2>3. q.active \in BOOLEAN
        <3>1. q.active = IF patch.active # Same THEN patch.active = "yes" ELSE row.active
            BY <1>2
        <3>2. row.active \in BOOLEAN /\ (patch.active = "yes") \in BOOLEAN
            BY RowColumns
        <3> QED
            BY <3>1, <3>2, Zenon
    <2> QED
        BY <1>2, <2>1, <2>2, <2>3
<1> HIDE DEF q
<1>7. CASE patch.parties # <<>>
    <2>1. PICK ps \in SUBSET PartyRows : patch.parties = <<ps>> /\ patch.parties[1] = ps /\ q.parties = ps
        BY <1>1, <1>2, <1>7 DEF q
    <2>2. Brands(ps) # {} => NewBrand(row, patch) = BrandOf(ps)
        BY <1>7, <2>1 DEF NewBrand
    <2>3. NewBrand(row, patch) \in Brandings
        BY <1>1, <1>7, <2>1, <2>2, BrandIsAnOrg DEF NewBrand, Brandings
    <2>4. BrandAgrees(q)
        BY <1>5, <2>1, <2>2 DEF BrandAgrees
    <2>5. q \in Rows
        BY <1>4, <1>5, <1>6, <2>1, <2>3 DEF Rows, Brandings
    <2> QED
        BY <1>5, <2>4, <2>5 DEF q
<1>8. CASE patch.parties = <<>>
    <2>1. q.parties = row.parties
        BY <1>2, <1>8 DEF q
    <2>2. NewBrand(row, patch) = IF patch.brand # Same THEN patch.brand ELSE row.brand
        BY <1>8 DEF NewBrand
    <2>3. Brands(row.parties) # {} => patch.brand = Same
        BY <1>8 DEF Acceptable, ScalarBesideBrand
    <2>4. BrandAgrees(q)
        BY <1>5, <2>1, <2>2, <2>3 DEF BrandAgrees
    <2>5. NewBrand(row, patch) \in Brandings /\ row.parties \in SUBSET PartyRows
        BY <1>1, <2>2, RowColumns
    <2>6. q \in Rows
        BY <1>4, <1>5, <1>6, <2>1, <2>5 DEF Rows, Brandings
    <2> QED
        BY <1>5, <2>4, <2>6 DEF q
<1> QED
    BY <1>7, <1>8

\* What a save made from the row the form was filled with changes of it.
LEMMA OwnChanges ==
    ASSUME NEW row \in Rows, NEW form \in Forms, NEW brand \in Orgs \cup {NoBrand},
           FormIsOf(row, form), WeightIsOf(row, form)
    PROVE  LET after == Patched(row, PatchFor(row, form, brand)) IN
           /\ after.name # row.name => form.name # row.name
           /\ after.active # row.active => form.active # row.active
           /\ after.brand # row.brand => brand # OriginalBrand(row)
           /\ after.parties # row.parties => brand # OriginalBrand(row)
           /\ after.unit # row.unit => form.toggled
           /\ after.weight # row.weight =>
                 form.typed \/ (form.toggled /\ Rounded(after.weight, row.weight))
<1> DEFINE patch == PatchFor(row, form, brand)
           after == Patched(row, patch)
<1>1. PICK n, a, b, w, u :
         /\ n = Changed(row.name, form.name) /\ b = Changed(row.brand, form.brand)
         /\ a = (IF form.active = row.active THEN Same ELSE IF form.active THEN "yes" ELSE "no")
         /\ w = WeightPatch(row, form) /\ u = Changed(row.unit, form.unit)
    OBVIOUS
<1>2. buildProductPatch(row, form) =
         [version |-> row.version, name |-> n, active |-> a, brand |-> b, weight |-> w,
          unit |-> u, parties |-> <<>>]
    <2>1. buildProductPatch(row, form) =
             [Nothing(row.version) EXCEPT !.name = n, !.active = a, !.brand = b, !.weight = w,
                                          !.unit = u]
        BY <1>1 DEF buildProductPatch
    <2> QED
        BY <2>1 DEF Nothing
<1>3. /\ patch.name = n /\ patch.active = a /\ patch.weight = w /\ patch.unit = u
      /\ brand = OriginalBrand(row) => patch.brand = b /\ patch.parties = <<>>
    <2>1. CASE OriginalBrand(row) = brand
        BY <1>2, <2>1 DEF PatchFor
    <2>2. CASE OriginalBrand(row) # brand
        BY <1>2, <2>2 DEF PatchFor
    <2> QED
        BY <2>1, <2>2
<1> HIDE DEF patch
<1> DEFINE unit == IF u # Same THEN u ELSE row.unit
<1>4. /\ after.name = IF n # Same THEN n ELSE row.name
      /\ after.active = IF a # Same THEN a = "yes" ELSE row.active
      /\ after.brand = NewBrand(row, patch)
      /\ after.weight = IF w > 0 THEN ToGrams(w, unit) ELSE row.weight
      /\ after.unit = unit
      /\ after.parties = IF patch.parties # <<>> THEN patch.parties[1] ELSE row.parties
    BY <1>3 DEF Patched
<1> HIDE DEF after
<1>5. after.name # row.name => form.name # row.name
    BY <1>1, <1>4 DEF Changed
<1>6. after.active # row.active => form.active # row.active
    BY <1>1, <1>4
<1>7. /\ after.brand # row.brand => brand # OriginalBrand(row)
      /\ after.parties # row.parties => brand # OriginalBrand(row)
    <2> SUFFICES ASSUME brand = OriginalBrand(row)
                 PROVE  after.brand = row.brand /\ after.parties = row.parties
        OBVIOUS
    <2>1. patch.parties = <<>> /\ patch.brand = b
        BY <1>3
    <2>2. b = Same
        BY <1>1 DEF FormIsOf, Changed
    <2>3. NewBrand(row, patch) = row.brand
        BY <2>1, <2>2 DEF NewBrand
    <2> QED
        BY <1>4, <2>1, <2>3
<1>8. after.unit # row.unit => form.toggled
    BY <1>1, <1>4 DEF FormIsOf, Changed
<1>9. after.weight # row.weight =>
         form.typed \/ (form.toggled /\ Rounded(after.weight, row.weight))
    <2> SUFFICES ASSUME after.weight # row.weight, ~form.typed
                 PROVE  form.toggled /\ Rounded(after.weight, row.weight)
        OBVIOUS
    <2>1. w > 0 /\ after.weight = ToGrams(w, unit)
        BY <1>4
    <2>2. form.dirty /\ w = form.weight
        BY <1>1, <2>1 DEF WeightPatch
    <2>3. form.toggled
        BY <2>2 DEF FormIsOf
    <2>4. unit = form.unit
        BY <1>1, ProductAssumption DEF Changed, Forms
    <2>5. Turned(row.weight, form.unit, form.weight)
        BY DEF WeightIsOf
    <2>6. form.unit \in Units /\ form.weight \in Nat /\ row.weight \in Nat
        BY RowColumns DEF Forms
    <2>7. PICK x : x = ToGrams(form.weight, form.unit)
        OBVIOUS
    <2>8. x = convertWeightDisplay(form.weight, form.unit, gram) /\ x \in Nat
        BY <2>6, <2>7, GramsAreAUnit, ConvertedIsNatural
    <2>9. Turned(row.weight, gram, x)
        BY <2>5, <2>6, <2>8, ChosenAgain, GramIsAUnit
    <2>10. Rounded(x, row.weight)
        BY <2>6, <2>8, <2>9, TurnedIsRounded
    <2> QED
        BY <2>1, <2>2, <2>3, <2>4, <2>7, <2>10
<1> QED
    BY <1>5, <1>6, <1>7, <1>8, <1>9 DEF after, patch

LEMMA ProductInvSuffices == ProductInv => ProductsAreEditedSoundly
<1> SUFFICES ASSUME ProductInv PROVE ProductsAreEditedSoundly
    OBVIOUS
<1>1. ProductIInv /\ ProductTypeOK /\ AcceptedIsSound
    BY DEF ProductInv, ProductIInv
<1>2. UpdatesAreMadeFromTheRow
    BY <1>1 DEF UpdatesAreMadeFromTheRow, AcceptedIsSound
<1>3. BrandIsTheAssignedOne
    BY DEF ProductInv, ProductIInv, BrandIsTheAssignedOne
<1>4. OnlyOwnChanges
    <2> SUFFICES ASSUME accepted # NoUpdate, accepted.by = "page", accepted.fresh
                 PROVE  OnlyOwnChanges
        BY DEF OnlyOwnChanges
    <2>1. /\ accepted.opened \in Rows /\ accepted.form \in Forms
          /\ accepted.brand \in Orgs \cup {NoBrand}
        BY <1>1 DEF ProductTypeOK, Accepted
    <2>2. /\ accepted.before = accepted.opened
          /\ accepted.patch = PatchFor(accepted.opened, accepted.form, accepted.brand)
          /\ FormIsOf(accepted.opened, accepted.form) /\ WeightIsOf(accepted.opened, accepted.form)
        BY <1>1 DEF AcceptedIsSound, ProductInv
    <2>3. PICK row, form, brand, after :
             /\ row = accepted.opened /\ form = accepted.form /\ brand = accepted.brand
             /\ after = Patched(row, PatchFor(row, form, brand))
        OBVIOUS
    <2>4. /\ after.name # row.name => form.name # row.name
          /\ after.active # row.active => form.active # row.active
          /\ after.brand # row.brand => brand # OriginalBrand(row)
          /\ after.parties # row.parties => brand # OriginalBrand(row)
          /\ after.unit # row.unit => form.toggled
          /\ after.weight # row.weight =>
                form.typed \/ (form.toggled /\ Rounded(after.weight, row.weight))
        BY <2>1, <2>2, <2>3, OwnChanges
    <2> QED
        BY <2>2, <2>3, <2>4 DEF OnlyOwnChanges
<1> QED
    BY <1>1, <1>2, <1>3, <1>4 DEF ProductsAreEditedSoundly

LEMMA Consumed ==
    ASSUME ProductTypeOK, NEW what \in {"others", "edits", "saves", "reads", "faults"},
           Consume(what) \/ UNCHANGED allowance
    PROVE  allowance' \in [{"others", "edits", "saves", "reads", "faults"} -> Nat]
<1>1. allowance \in [{"others", "edits", "saves", "reads", "faults"} -> Nat]
    BY DEF ProductTypeOK
<1>2. allowance[what] \in Nat
    BY <1>1
<1>3. CASE Consume(what)
    BY <1>1, <1>2, <1>3 DEF Consume
<1> QED
    BY <1>1, <1>3

\* The parts of the invariant that are about the page, and what the server has.
PageIsSound ==
    /\ page \in Wizards /\ PageFollowsTheProduct /\ FormIsOf(page.opened, page.form)
    /\ WeightIsOf(page.opened, page.form)

ServerIsSound ==
    /\ product \in Rows /\ BrandAgrees(product)
    /\ request \in [{"page", "other"} -> Updates \cup {NoUpdate}]
    /\ accepted \in Accepted \cup {NoUpdate}
    /\ AcceptedIsSound
    /\ accepted # NoUpdate /\ accepted.by = "page" /\ accepted.fresh =>
           WeightIsOf(accepted.opened, accepted.form)

AllowanceIsSound == allowance \in [{"others", "edits", "saves", "reads", "faults"} -> Nat]

LEMMA ProductParts ==
    ProductInv <=> PageIsSound /\ ServerIsSound /\ UpdatesAreSound /\ AllowanceIsSound
BY DEF ProductInv, ProductIInv, ProductTypeOK, PageIsSound, ServerIsSound, AllowanceIsSound

LEMMA NextProductParts ==
    ASSUME PageIsSound', ServerIsSound', UpdatesAreSound', AllowanceIsSound'
    PROVE  ProductInv'
BY ProductParts, PTL

\* The page shows something else: no row is written, no request answered.
LEMMA PagesTurn ==
    ASSUME ProductInv, UNCHANGED <<product, request, accepted>>,
           NEW what \in {"others", "edits", "saves", "reads", "faults"},
           Consume(what) \/ UNCHANGED allowance,
           page' \in Wizards,
           Precedes(page'.opened, page'.seen), Precedes(page'.seen, product),
           FormIsOf(page'.opened, page'.form), WeightIsOf(page'.opened, page'.form),
           request["page"] # NoUpdate =>
               /\ page'.saving /\ page'.at > 0 /\ page'.opened = page.opened
               /\ page'.form = page.form /\ page'.brand = page.brand
    PROVE  ProductInv'
<1>1. AllowanceIsSound'
    BY Consumed DEF ProductInv, ProductIInv, AllowanceIsSound
<1>2. PageIsSound'
    BY DEF PageIsSound, PageFollowsTheProduct
<1>3. ServerIsSound'
    BY ProductParts DEF ServerIsSound, AcceptedIsSound
<1>4. UpdatesAreSound'
    BY DEF ProductInv, ProductIInv, UpdatesAreSound, UpdateIsSound, StillCurrent
<1> QED
    BY <1>1, <1>2, <1>3, <1>4, NextProductParts

LEMMA WizardIsSound ==
    ASSUME ProductInv
    PROVE  /\ request["page"] # NoUpdate => page.at > 0 /\ page.saving
           /\ page.at \in 0 .. Len(Steps) /\ page.saving \in BOOLEAN
           /\ page.seen \in Rows /\ page.opened \in Rows /\ page.form \in Forms
           /\ page.brand \in Orgs \cup {NoBrand} /\ page \in Wizards /\ product \in Rows
           /\ Precedes(page.opened, page.seen) /\ Precedes(page.seen, product)
           /\ Precedes(page.opened, product)
           /\ FormIsOf(page.opened, page.form) /\ WeightIsOf(page.opened, page.form)
<1>1. /\ page \in Wizards /\ product \in Rows
      /\ Precedes(page.opened, page.seen) /\ Precedes(page.seen, product)
      /\ FormIsOf(page.opened, page.form) /\ WeightIsOf(page.opened, page.form)
    BY DEF ProductInv, ProductIInv, ProductTypeOK, PageFollowsTheProduct
<1>2. /\ page.at \in 0 .. Len(Steps) /\ page.saving \in BOOLEAN
      /\ page.seen \in Rows /\ page.opened \in Rows /\ page.form \in Forms
      /\ page.brand \in Orgs \cup {NoBrand}
    BY <1>1 DEF Wizards
<1>3. page.opened.version \in Nat /\ page.seen.version \in Nat /\ product.version \in Nat
    BY <1>1, <1>2, RowColumns
<1>4. Precedes(page.opened, product)
    BY <1>1, <1>3 DEF Precedes
<1>5. request["page"] # NoUpdate => page.saving /\ page.at > 0
    BY DEF ProductInv, ProductIInv, UpdatesAreSound, UpdateIsSound
<1> QED
    BY <1>1, <1>2, <1>4, <1>5

\* The wizard: what it shows changes while nothing of its own is on its way.
LEMMA WizardTurns ==
    ASSUME ProductInv,
           \/ OpenWizard \/ RefetchProduct \/ Reload \/ Cancel \/ NextStep \/ PreviousStep
           \/ EditBasics \/ ChooseBrand \/ TypeWeight \/ ChooseUnit
    PROVE  ProductInv'
<1>1. /\ page.at \in 0 .. Len(Steps) /\ page.saving \in BOOLEAN
      /\ page.seen \in Rows /\ page.opened \in Rows /\ page.form \in Forms
      /\ page.brand \in Orgs \cup {NoBrand} /\ page \in Wizards /\ product \in Rows
      /\ Precedes(page.opened, page.seen) /\ Precedes(page.seen, product)
      /\ Precedes(page.opened, product)
      /\ FormIsOf(page.opened, page.form) /\ WeightIsOf(page.opened, page.form)
      /\ request["page"] # NoUpdate => page.at > 0 /\ page.saving
    BY WizardIsSound
<1>2. \A row \in Rows : Precedes(row, row)
    BY RowColumns DEF Precedes
<1>3. Len(Steps) = 4
    BY DEF Steps
<1>4. ASSUME NEW step \in 0 .. Len(Steps), NEW row \in Rows, Precedes(row, product),
             request["page"] = NoUpdate, Shows(OpenedAt(step, row)),
             Consume("reads") \/ UNCHANGED allowance
      PROVE  ProductInv'
    <2>1. OpenedAt(step, row).opened = row /\ OpenedAt(step, row).seen = row
          /\ OpenedAt(step, row).form = FormFrom(row)
        BY DEF OpenedAt
    <2> QED
        BY <1>2, <1>4, <2>1, OpenedPages, PagesTurn DEF Shows
<1>5. ASSUME NEW new \in Wizards, Shows(new), new.seen = page.seen, new.opened = page.opened,
             FormIsOf(new.opened, new.form), WeightIsOf(new.opened, new.form),
             request["page"] = NoUpdate, Consume("edits") \/ UNCHANGED allowance
      PROVE  ProductInv'
    BY <1>1, <1>5, PagesTurn DEF Shows
<1>6. CASE OpenWizard
    BY <1>1, <1>3, <1>4, <1>6 DEF OpenWizard
<1>7. CASE RefetchProduct
    <2> DEFINE new == [page EXCEPT !.seen = product]
    <2>1. Shows(new) /\ Consume("reads")
        BY <1>7 DEF RefetchProduct
    <2>2. /\ new \in Wizards /\ new.seen = product /\ new.opened = page.opened
          /\ new.form = page.form /\ new.brand = page.brand /\ new.saving = page.saving
          /\ new.at = page.at
        BY <1>1 DEF Wizards
    <2> HIDE DEF new
    <2> QED
        BY <1>1, <1>2, <2>1, <2>2, PagesTurn DEF Shows
<1>8. CASE Reload
    BY <1>1, <1>2, <1>4, <1>8 DEF Reload
<1>9. CASE Cancel
    BY <1>1, <1>3, <1>4, <1>9 DEF Cancel
<1>10. CASE NextStep \/ PreviousStep
    <2>1. PICK n \in 0 .. Len(Steps) : Shows([page EXCEPT !.at = n]) /\ UNCHANGED allowance
        BY <1>1, <1>3, <1>10 DEF NextStep, PreviousStep
    <2> DEFINE new == [page EXCEPT !.at = n]
    <2>2. /\ new \in Wizards /\ new.seen = page.seen /\ new.opened = page.opened
          /\ new.form = page.form
        BY <1>1 DEF Wizards
    <2>3. request["page"] = NoUpdate
        BY <1>1, <1>10 DEF NextStep, PreviousStep
    <2> HIDE DEF new
    <2> QED
        BY <1>1, <1>5, <2>1, <2>2, <2>3 DEF new
<1>11. CASE EditBasics \/ TypeWeight \/ ChooseUnit
    <2>1. request["page"] = NoUpdate
        BY <1>1, <1>11 DEF EditBasics, TypeWeight, ChooseUnit, OnStep
    <2>2. PICK form \in Forms : /\ Shows([page EXCEPT !.form = form]) /\ Consume("edits")
                                /\ FormIsOf(page.opened, form) /\ WeightIsOf(page.opened, form)
        <3>1. CASE EditBasics
            <4>1. PICK n \in Names, a \in BOOLEAN :
                     /\ Shows([page EXCEPT !.form = [page.form EXCEPT !.name = n, !.active = a]])
                     /\ Consume("edits")
                <5>1. page.form = [page.form EXCEPT !.name = page.form.name]
                      /\ page.form.name \in Names /\ page.form.active \in BOOLEAN
                    BY <1>1 DEF Forms
                <5>2. CASE \E n \in Names : EditForm([page EXCEPT !.form.name = n])
                    <6>1. PICK n \in Names : EditForm([page EXCEPT !.form.name = n])
                        BY <5>2
                    <6>2. [page EXCEPT !.form.name = n] =
                              [page EXCEPT !.form = [page.form EXCEPT !.name = n,
                                                                      !.active = page.form.active]]
                        BY <1>1 DEF Wizards, Forms
                    <6> QED
                        BY <5>1, <6>1, <6>2 DEF EditForm
                <5>3. CASE EditForm([page EXCEPT !.form.active = ~@])
                    <6>1. [page EXCEPT !.form.active = ~@] =
                              [page EXCEPT !.form = [page.form EXCEPT !.name = page.form.name,
                                                                      !.active = ~page.form.active]]
                        BY <1>1 DEF Wizards, Forms
                    <6> QED
                        BY <5>1, <5>3, <6>1 DEF EditForm
                <5> QED
                    BY <3>1, <5>2, <5>3 DEF EditBasics
            <4> DEFINE form == [page.form EXCEPT !.name = n, !.active = a]
            <4>2. /\ form \in Forms /\ form.brand = page.form.brand /\ form.toggled = page.form.toggled
                  /\ form.unit = page.form.unit /\ form.dirty = page.form.dirty
                  /\ form.typed = page.form.typed /\ form.weight = page.form.weight
                BY <1>1 DEF Forms
            <4> HIDE DEF form
            <4>3. FormIsOf(page.opened, form) /\ WeightIsOf(page.opened, form)
                BY <1>1, <4>2 DEF FormIsOf, WeightIsOf
            <4> QED
                BY <4>1, <4>2, <4>3 DEF form
        <3>2. CASE TypeWeight
            <4>1. PICK w \in Weights :
                     EditForm([page EXCEPT !.form.weight = w, !.form.dirty = TRUE, !.form.typed = TRUE])
                BY <3>2 DEF TypeWeight
            <4> DEFINE form == [page.form EXCEPT !.weight = w, !.dirty = TRUE, !.typed = TRUE]
            <4>2. [page EXCEPT !.form.weight = w, !.form.dirty = TRUE, !.form.typed = TRUE]
                     = [page EXCEPT !.form = form]
                BY <1>1 DEF Wizards, Forms
            <4>3. w \in Nat
                BY ProductAssumption
            <4>4. /\ form \in Forms /\ form.brand = page.form.brand /\ form.toggled = page.form.toggled
                  /\ form.unit = page.form.unit /\ form.typed
                BY <1>1, <4>3 DEF Forms
            <4> HIDE DEF form
            <4>5. FormIsOf(page.opened, form) /\ WeightIsOf(page.opened, form)
                BY <1>1, <4>4 DEF FormIsOf, WeightIsOf
            <4> QED
                BY <4>1, <4>2, <4>4, <4>5 DEF EditForm
        <3>3. CASE ChooseUnit
            <4>1. PICK u \in Units :
                     EditForm([page EXCEPT
                         !.form.weight = convertWeightDisplay(@, page.form.unit, u),
                         !.form.unit = u, !.form.dirty = TRUE, !.form.toggled = TRUE])
                BY <3>3 DEF ChooseUnit
            <4>2. PICK w : w = convertWeightDisplay(page.form.weight, page.form.unit, u)
                OBVIOUS
            <4> DEFINE form == [page.form EXCEPT !.weight = w, !.unit = u, !.dirty = TRUE,
                                                 !.toggled = TRUE]
            <4>3. [page EXCEPT !.form.weight = convertWeightDisplay(@, page.form.unit, u),
                               !.form.unit = u, !.form.dirty = TRUE, !.form.toggled = TRUE]
                     = [page EXCEPT !.form = form]
                BY <1>1, <4>2 DEF Wizards, Forms
            <4>4. page.form.weight \in Nat /\ page.form.unit \in Units /\ page.opened.weight \in Nat
                BY <1>1, RowColumns DEF Forms
            <4>5. w \in Nat
                BY <4>2, <4>4, ConvertedIsNatural
            <4>6. /\ form \in Forms /\ form.brand = page.form.brand /\ form.toggled
                  /\ form.unit = u /\ form.weight = w /\ form.typed = page.form.typed
                BY <1>1, <4>5 DEF Forms
            <4> HIDE DEF form
            <4>7. FormIsOf(page.opened, form)
                BY <1>1, <4>6 DEF FormIsOf
            <4>8. WeightIsOf(page.opened, form)
                <5> SUFFICES ASSUME ~form.typed PROVE Turned(page.opened.weight, u, w)
                    BY <4>6 DEF WeightIsOf
                <5>1. Turned(page.opened.weight, page.form.unit, page.form.weight)
                    BY <1>1, <4>6 DEF WeightIsOf
                <5> QED
                    BY <4>2, <4>4, <5>1, ChosenAgain
            <4> QED
                BY <4>1, <4>3, <4>6, <4>7, <4>8 DEF EditForm
        <3> QED
            BY <1>11, <3>1, <3>2, <3>3
    <2> DEFINE new == [page EXCEPT !.form = form]
    <2>3. /\ new \in Wizards /\ new.seen = page.seen /\ new.opened = page.opened
          /\ new.form = form
        BY <1>1 DEF Wizards
    <2> HIDE DEF new
    <2> QED
        BY <1>5, <2>1, <2>2, <2>3 DEF new
<1>12. CASE ChooseBrand
    <2>1. PICK b \in Orgs \cup {NoBrand} : EditForm([page EXCEPT !.brand = b])
        BY <1>12 DEF ChooseBrand
    <2> DEFINE new == [page EXCEPT !.brand = b]
    <2>2. /\ new \in Wizards /\ new.seen = page.seen /\ new.opened = page.opened
          /\ new.form = page.form
        BY <1>1 DEF Wizards
    <2>3. request["page"] = NoUpdate
        BY <1>1, <1>12 DEF ChooseBrand, OnStep
    <2> HIDE DEF new
    <2> QED
        BY <1>1, <1>5, <2>1, <2>2, <2>3 DEF new, EditForm
<1> QED
    BY <1>6, <1>7, <1>8, <1>9, <1>10, <1>11, <1>12

-----------------------------------------------------------------------------
(* Products: the server's steps, and the theorem *)

\* A request is answered: the other goes on, and if the row was written it is no longer current.
LEMMA OthersGoOn ==
    ASSUME ProductInv, NEW c \in {"page", "other"}, UpdateAnswered(c),
           c = "page" \/ UNCHANGED page,
           product' = product \/ product'.version = product.version + 1
    PROVE  UpdatesAreSound'
<1> SUFFICES ASSUME NEW d \in {"page", "other"}, request'[d] # NoUpdate
             PROVE  UpdateIsSound(d)'
    BY DEF UpdatesAreSound
<1>1. request \in [{"page", "other"} -> Updates \cup {NoUpdate}] /\ product \in Rows
    BY DEF ProductInv, ProductIInv, ProductTypeOK
<1>2. d # c /\ request'[d] = request[d]
    BY <1>1 DEF UpdateAnswered
<1>3. UpdateIsSound(d)
    BY <1>2 DEF ProductInv, ProductIInv, UpdatesAreSound
<1>4. d = "page" => page' = page
    BY <1>2
<1>5. request[d].patch.version \in Nat /\ product.version \in Nat
    BY <1>1, <1>2, RowColumns DEF Updates, Patches
<1>6. CASE product' = product
    BY <1>2, <1>3, <1>4, <1>6 DEF UpdateIsSound, StillCurrent
<1>7. CASE product'.version = product.version + 1
    <2>1. request[d].patch.version <= product'.version /\ request[d].patch.version # product'.version
        BY <1>3, <1>5, <1>7 DEF UpdateIsSound
    <2> QED
        BY <1>2, <1>3, <1>4, <2>1 DEF UpdateIsSound, StillCurrent
<1> QED
    BY <1>6, <1>7

\* The page stays, or learns that its save has ended; the row may have been written.
LEMMA PageGoesOn ==
    ASSUME ProductInv, Unsaved \/ UNCHANGED page,
           product' = product \/ product'.version = product.version + 1
    PROVE  PageIsSound'
<1>1. /\ page \in Wizards /\ page.seen \in Rows /\ product \in Rows
      /\ Precedes(page.opened, page.seen) /\ Precedes(page.seen, product)
      /\ FormIsOf(page.opened, page.form) /\ WeightIsOf(page.opened, page.form)
    BY WizardIsSound
<1>2. /\ page' \in Wizards /\ page'.seen = page.seen /\ page'.opened = page.opened
      /\ page'.form = page.form
    BY <1>1 DEF Unsaved, Wizards
<1>3. page.seen.version \in Nat /\ product.version \in Nat
    BY <1>1, RowColumns
<1>4. Precedes(page.seen, product')
    BY <1>1, <1>3 DEF Precedes
<1> QED
    BY <1>1, <1>2, <1>4 DEF PageIsSound, PageFollowsTheProduct

\* Nothing is written: what the server has stays sound.
LEMMA NothingWritten ==
    ASSUME ProductInv, UNCHANGED <<product, accepted>>,
           request' \in [{"page", "other"} -> Updates \cup {NoUpdate}]
    PROVE  ServerIsSound'
BY ProductParts DEF ServerIsSound, AcceptedIsSound

LEMMA Refused ==
    ASSUME ProductInv, NEW c \in {"page", "other"}, UpdateAnswered(c),
           IF c = "page" THEN Unsaved ELSE UNCHANGED page,
           UNCHANGED <<product, accepted, allowance>>
    PROVE  ProductInv'
<1>1. request' \in [{"page", "other"} -> Updates \cup {NoUpdate}]
    BY DEF ProductInv, ProductIInv, ProductTypeOK, UpdateAnswered
<1>2. PageIsSound' /\ UpdatesAreSound'
    BY PageGoesOn, OthersGoOn
<1>3. ServerIsSound'
    BY <1>1, NothingWritten
<1>4. AllowanceIsSound'
    BY ProductParts DEF AllowanceIsSound
<1> QED
    BY <1>2, <1>3, <1>4, NextProductParts

LEMMA ChecksKeep ==
    ASSUME ProductInv, NEW c \in {"page", "other"}, Check(c)
    PROVE  ProductInv'
<1>1. CASE ~Acceptable(product, request[c].patch)
    BY <1>1, Refused DEF Check
<1>2. CASE Acceptable(product, request[c].patch)
    <2>1. /\ request[c] # NoUpdate /\ request' = [request EXCEPT ![c].checked = TRUE]
          /\ UNCHANGED <<product, page, accepted, allowance>>
        BY <1>2 DEF Check
    <2>2. request \in [{"page", "other"} -> Updates \cup {NoUpdate}] /\ UpdatesAreSound
        BY DEF ProductInv, ProductIInv, ProductTypeOK
    <2>3. request[c] \in Updates
        BY <2>1, <2>2
    <2>4. /\ [request[c] EXCEPT !.checked = TRUE] \in Updates
          /\ [request[c] EXCEPT !.checked = TRUE].patch = request[c].patch
          /\ [request[c] EXCEPT !.checked = TRUE].fresh = request[c].fresh
        BY <2>3 DEF Updates
    <2>5. request'[c] = [request[c] EXCEPT !.checked = TRUE]
          /\ \A d \in {"page", "other"} \ {c} : request'[d] = request[d]
          /\ request' \in [{"page", "other"} -> Updates \cup {NoUpdate}]
        BY <2>1, <2>2, <2>4
    <2>6. ASSUME NEW d \in {"page", "other"}, request'[d] # NoUpdate
          PROVE  UpdateIsSound(d)'
        <3>1. CASE d = c
            <4>1. UpdateIsSound(c)
                BY <2>1, <2>2 DEF UpdatesAreSound
            <4> QED
                BY <1>2, <2>1, <2>4, <2>5, <3>1, <4>1 DEF UpdateIsSound, StillCurrent
        <3>2. CASE d # c
            <4>1. UpdateIsSound(d) /\ request'[d] = request[d]
                BY <2>2, <2>5, <2>6, <3>2 DEF UpdatesAreSound
            <4> QED
                BY <2>1, <4>1 DEF UpdateIsSound, StillCurrent
        <3> QED
            BY <3>1, <3>2
    <2>7. UpdatesAreSound'
        BY <2>6 DEF UpdatesAreSound
    <2>8. PageIsSound' /\ ServerIsSound'
        BY <2>1, <2>5, PageGoesOn, NothingWritten
    <2>9. AllowanceIsSound'
        BY <2>1, ProductParts DEF AllowanceIsSound
    <2> QED
        BY <2>7, <2>8, <2>9, NextProductParts
<1> QED
    BY <1>1, <1>2

\* What is written was accepted for that row; if the page was fresh, it is the row the wizard
\* opened with (updateMany).
LEMMA WritesKeep ==
    ASSUME ProductInv, NEW c \in {"page", "other"}, Write(c)
    PROVE  ProductInv'
<1> DEFINE patch == request[c].patch
<1>1. /\ request[c] # NoUpdate /\ request[c].checked /\ StillCurrent(c) /\ UpdateAnswered(c)
      /\ product' = Patched(product, patch)
      /\ accepted' = [by |-> c, patch |-> patch, before |-> product,
                      fresh |-> request[c].fresh, opened |-> page.opened, form |-> page.form,
                      brand |-> page.brand]
    BY DEF Write
<1>2. /\ request \in [{"page", "other"} -> Updates \cup {NoUpdate}] /\ BrandAgrees(product)
      /\ UpdateIsSound(c)
    BY <1>1 DEF ProductInv, ProductIInv, ProductTypeOK, UpdatesAreSound
<1>3. /\ page.seen \in Rows /\ page.opened \in Rows /\ page.form \in Forms /\ product \in Rows
      /\ page.brand \in Orgs \cup {NoBrand} /\ page \in Wizards
      /\ Precedes(page.opened, product)
      /\ FormIsOf(page.opened, page.form) /\ WeightIsOf(page.opened, page.form)
    BY WizardIsSound
<1>4. patch \in Patches /\ request[c].fresh \in BOOLEAN
    BY <1>1, <1>2 DEF Updates
<1>5. Acceptable(product, patch) /\ product.version = patch.version
    BY <1>1, <1>2 DEF UpdateIsSound, StillCurrent
<1>6. product' \in Rows /\ BrandAgrees(product') /\ product'.version = product.version + 1
    BY <1>1, <1>2, <1>3, <1>4, <1>5, PatchedRows
<1>7. accepted' \in Accepted
    BY <1>1, <1>3, <1>4 DEF Accepted
<1>8. c = "page" /\ request[c].fresh => /\ patch = PatchFor(page.opened, page.form, page.brand)
                                        /\ product = page.opened
    <2> SUFFICES ASSUME c = "page", request[c].fresh
                 PROVE  /\ patch = PatchFor(page.opened, page.form, page.brand)
                        /\ product = page.opened
        OBVIOUS
    <2>1. patch = PatchFor(page.opened, page.form, page.brand)
        BY <1>2 DEF UpdateIsSound
    <2>2. patch.version = page.opened.version
        BY <1>3, <2>1, PatchTypes
    <2> QED
        BY <1>3, <1>5, <2>1, <2>2 DEF Precedes
<1>9. UpdatesAreSound'
    <2>1. c = "page" \/ UNCHANGED page
        BY DEF Write
    <2> QED
        BY <1>1, <1>6, <2>1, OthersGoOn
<1>10. ServerIsSound'
    <2>1. request' \in [{"page", "other"} -> Updates \cup {NoUpdate}]
        BY <1>1, <1>2 DEF UpdateAnswered
    <2>2. /\ accepted'.before.version = accepted'.patch.version
          /\ accepted'.by = "page" /\ accepted'.fresh =>
                /\ accepted'.before = accepted'.opened
                /\ accepted'.patch = PatchFor(accepted'.opened, accepted'.form, accepted'.brand)
                /\ FormIsOf(accepted'.opened, accepted'.form)
                /\ WeightIsOf(accepted'.opened, accepted'.form)
        BY <1>1, <1>3, <1>5, <1>8
    <2> QED
        BY <1>6, <1>7, <2>1, <2>2 DEF ServerIsSound, AcceptedIsSound
<1>11. PageIsSound'
    <2>1. CASE PageSaved
        <3>1. /\ page' \in Wizards /\ page'.seen = product' /\ page'.opened = page.opened
              /\ page'.form = page.form
            <4>1. 0 \in 0 .. Len(Steps)
                BY DEF Steps
            <4> QED
                BY <1>3, <1>6, <2>1, <4>1 DEF PageSaved, Wizards
        <3>2. Precedes(page.opened, product') /\ Precedes(product', product')
            BY <1>3, <1>6, RowColumns DEF Precedes
        <3> QED
            BY <1>3, <3>1, <3>2 DEF PageIsSound, PageFollowsTheProduct
    <2>2. CASE Unsaved \/ UNCHANGED page
        BY <1>6, <2>2, PageGoesOn
    <2> QED
        BY <2>1, <2>2 DEF Write
<1>12. AllowanceIsSound'
    <2>1. Consume("faults") \/ UNCHANGED allowance
        BY DEF Write
    <2> QED
        BY <2>1, Consumed DEF ProductInv, ProductIInv, AllowanceIsSound
<1> QED
    BY <1>9, <1>10, <1>11, <1>12, NextProductParts

LEMMA OtherPatchesAreTyped ==
    ASSUME product \in Rows, NEW patch \in OtherPatches
    PROVE  patch \in Patches /\ patch.version = product.version
<1>1. PICK v : v = product.version
    OBVIOUS
<1>2. v \in Nat \ {0}
    BY <1>1, RowColumns
<1>3. Nothing(v) = [version |-> v, name |-> Same, active |-> Same, brand |-> Same,
                    weight |-> 0, unit |-> Same, parties |-> <<>>]
    BY DEF Nothing
<1>4. Nothing(v) \in Patches
    BY <1>2, <1>3 DEF Patches
<1>5. CASE \E n \in Names : patch = [Nothing(v) EXCEPT !.name = n]
    BY <1>3, <1>4, <1>5, <1>1 DEF Patches
<1>6. CASE \E t \in Texts : patch = [Nothing(v) EXCEPT !.brand = t]
    BY <1>3, <1>4, <1>6, <1>1 DEF Patches, Brandings
<1>7. CASE \E o \in Orgs, r \in PartyRoles :
              patch = [Nothing(v) EXCEPT !.parties = <<{[org |-> o, role |-> r, primary |-> TRUE]}>>]
    <2>1. PICK o \in Orgs, r \in PartyRoles :
              patch = [Nothing(v) EXCEPT !.parties = <<{[org |-> o, role |-> r, primary |-> TRUE]}>>]
        BY <1>7
    <2>2. {[org |-> o, role |-> r, primary |-> TRUE]} \in SUBSET PartyRows
        BY DEF PartyRows
    <2>3. PICK ps \in SUBSET PartyRows : patch = [Nothing(v) EXCEPT !.parties = <<ps>>]
        BY <2>1, <2>2
    <2> QED
        BY <1>1, <1>3, <1>4, <2>3 DEF Patches
<1> QED
    BY <1>1, <1>5, <1>6, <1>7 DEF OtherPatches

\* A request is sent: it is of the row by now, or of one before it.
LEMMA SentUpdates ==
    ASSUME ProductInv, NEW c \in {"page", "other"}, NEW patch \in Patches, NEW fresh \in BOOLEAN,
           SendUpdate(c, patch, fresh), UNCHANGED <<product, accepted>>,
           patch.version <= product.version,
           c = "page" => /\ page'.saving /\ page'.at > 0
                         /\ fresh => patch = PatchFor(page'.opened, page'.form, page'.brand),
           c = "page" \/ UNCHANGED page
    PROVE  UpdatesAreSound' /\ ServerIsSound'
<1>1. request \in [{"page", "other"} -> Updates \cup {NoUpdate}] /\ UpdatesAreSound
    BY DEF ProductInv, ProductIInv, ProductTypeOK
<1>2. PICK sent : sent = [patch |-> patch, checked |-> FALSE, fresh |-> fresh]
    OBVIOUS
<1>3. /\ sent \in Updates /\ sent.patch = patch /\ sent.checked = FALSE /\ sent.fresh = fresh
      /\ request' = [request EXCEPT ![c] = sent]
    BY <1>2 DEF Updates, SendUpdate
<1>4. /\ request'[c] = sent /\ \A d \in {"page", "other"} \ {c} : request'[d] = request[d]
      /\ request' \in [{"page", "other"} -> Updates \cup {NoUpdate}]
    BY <1>1, <1>3
<1>5. ASSUME NEW d \in {"page", "other"}, request'[d] # NoUpdate
      PROVE  UpdateIsSound(d)'
    <2>1. CASE d = c
        BY <1>3, <1>4, <2>1 DEF UpdateIsSound, StillCurrent
    <2>2. CASE d # c
        <3>1. UpdateIsSound(d) /\ request'[d] = request[d]
            BY <1>1, <1>4, <1>5, <2>2 DEF UpdatesAreSound
        <3>2. d = "page" => page' = page
            BY <2>2
        <3> QED
            BY <3>1, <3>2 DEF UpdateIsSound, StillCurrent
    <2> QED
        BY <2>1, <2>2
<1>6. UpdatesAreSound'
    BY <1>5 DEF UpdatesAreSound
<1> QED
    BY <1>4, <1>6, NothingWritten

LEMMA OtherSendsKeeps ==
    ASSUME ProductInv, OtherSends
    PROVE  ProductInv'
<1>1. /\ Consume("others") /\ UNCHANGED <<product, page, accepted>>
      /\ \E patch \in OtherPatches : SendUpdate("other", patch, TRUE)
    BY DEF OtherSends
<1>2. PICK patch \in OtherPatches : SendUpdate("other", patch, TRUE)
    BY <1>1
<1>3. product \in Rows /\ product.version \in Nat
    BY WizardIsSound, RowColumns
<1>4. patch \in Patches /\ patch.version = product.version
    BY <1>3, OtherPatchesAreTyped
<1>5. UpdatesAreSound' /\ ServerIsSound'
    <2>1. "other" \in {"page", "other"} /\ "other" # "page" /\ TRUE \in BOOLEAN
        OBVIOUS
    <2>2. patch.version <= product.version
        BY <1>3, <1>4
    <2> QED
        BY <1>1, <1>2, <1>4, <2>1, <2>2, SentUpdates
<1>6. AllowanceIsSound'
    BY <1>1, Consumed DEF ProductInv, ProductIInv, AllowanceIsSound
<1>7. PageIsSound'
    BY <1>1, PageGoesOn
<1> QED
    BY <1>5, <1>6, <1>7, NextProductParts

\* What the page sends is made from the product it has by now; when that is still the one the
\* wizard opened with, it is made from the row the form was filled from.
LEMMA SubmitKeeps ==
    ASSUME ProductInv, Submit
    PROVE  ProductInv'
<1>1. /\ page.at \in 0 .. Len(Steps) /\ page.seen \in Rows /\ page.opened \in Rows
      /\ page.form \in Forms /\ page.brand \in Orgs \cup {NoBrand} /\ page \in Wizards
      /\ product \in Rows /\ Precedes(page.opened, page.seen) /\ Precedes(page.seen, product)
      /\ FormIsOf(page.opened, page.form) /\ WeightIsOf(page.opened, page.form)
      /\ request["page"] # NoUpdate => page.saving
    BY WizardIsSound
<1>2. /\ page.at > 0 /\ ~page.saving /\ Consume("saves") /\ UNCHANGED <<product, accepted>>
    BY DEF Submit, OnStep
<1>3. CASE Body = Nothing(page.seen.version)
    <2> DEFINE new == [page EXCEPT !.at = 0]
    <2>1. page' = new /\ UNCHANGED request
        BY <1>3 DEF Submit
    <2>2. 0 \in 0 .. Len(Steps)
        BY DEF Steps
    <2>3. /\ new \in Wizards /\ new.seen = page.seen /\ new.opened = page.opened
          /\ new.form = page.form
        BY <1>1, <2>2 DEF Wizards
    <2> HIDE DEF new
    <2> QED
        BY <1>1, <1>2, <2>1, <2>3, PagesTurn
<1>4. CASE Body # Nothing(page.seen.version)
    <2>1. page' = [page EXCEPT !.saving = TRUE] /\ SendUpdate("page", Body, ~Stale)
        BY <1>4 DEF Submit
    <2>2. /\ page' \in Wizards /\ page'.seen = page.seen /\ page'.opened = page.opened
          /\ page'.form = page.form /\ page'.brand = page.brand /\ page'.saving
          /\ page'.at = page.at
        BY <1>1, <2>1 DEF Wizards
    <2>3. Body \in Patches /\ Body.version = page.seen.version
        BY <1>1, PatchTypes DEF Body
    <2>4. Body.version <= product.version
        BY <1>1, <2>3 DEF Precedes
    <2>5. ~Stale => Body = PatchFor(page.opened, page.form, page.brand)
        BY <1>1 DEF Stale, Precedes, Body
    <2>6. (~Stale) \in BOOLEAN
        BY DEF Stale
    <2>7. UpdatesAreSound' /\ ServerIsSound'
        BY <1>2, <2>1, <2>2, <2>3, <2>4, <2>5, <2>6, SentUpdates
    <2>8. PageIsSound'
        BY <1>1, <1>2, <2>2 DEF PageIsSound, PageFollowsTheProduct
    <2>9. AllowanceIsSound'
        BY <1>2, Consumed DEF ProductInv, ProductIInv, AllowanceIsSound
    <2> QED
        BY <2>7, <2>8, <2>9, NextProductParts
<1> QED
    BY <1>3, <1>4

LEMMA ProductInitially == ProductInit => ProductInv
<1> SUFFICES ASSUME ProductInit PROVE ProductInv
    OBVIOUS
<1>1. /\ product \in Rows /\ BrandAgrees(product) /\ page = OpenedAt(0, product)
      /\ request = [c \in {"page", "other"} |-> NoUpdate] /\ accepted = NoUpdate
      /\ AllowanceIsSound
    BY ProductAssumption DEF ProductInit, AllowanceIsSound
<1>2. 0 \in 0 .. Len(Steps)
    BY DEF Steps
<1>3. /\ page \in Wizards /\ page.seen = product /\ page.opened = product
      /\ page.form = FormFrom(product)
    BY <1>1, <1>2, OpenedPages DEF OpenedAt
<1>4. Precedes(product, product)
    BY <1>1, RowColumns DEF Precedes
<1>5. PageIsSound
    BY <1>1, <1>3, <1>4, OpenedPages, <1>2 DEF PageIsSound, PageFollowsTheProduct
<1>6. ServerIsSound /\ UpdatesAreSound
    BY <1>1 DEF ServerIsSound, AcceptedIsSound, UpdatesAreSound
<1> QED
    BY <1>1, <1>5, <1>6, ProductParts

LEMMA ProductSteps == ProductInv /\ [ProductNext]_prodVars => ProductInv'
<1> SUFFICES ASSUME ProductInv, [ProductNext]_prodVars PROVE ProductInv'
    OBVIOUS
<1>1. ASSUME NEW c \in {"page", "other"}, Check(c) \/ Write(c) PROVE ProductInv'
    BY <1>1, ChecksKeep, WritesKeep
<1>2. ASSUME NEW c \in {"page", "other"}, Collide(c) PROVE ProductInv'
    BY <1>2, Refused DEF Collide
<1>3. CASE OtherSends
    BY <1>3, OtherSendsKeeps
<1>4. CASE Submit
    BY <1>4, SubmitKeeps
<1>5. CASE \/ OpenWizard \/ RefetchProduct \/ Reload \/ Cancel \/ NextStep \/ PreviousStep
           \/ EditBasics \/ ChooseBrand \/ TypeWeight \/ ChooseUnit
    BY <1>5, WizardTurns
<1>6. CASE UNCHANGED prodVars
    <2>1. UNCHANGED product /\ UNCHANGED page /\ UNCHANGED request /\ UNCHANGED accepted
          /\ UNCHANGED allowance
        BY <1>6 DEF prodVars
    <2>2. ServerIsSound' /\ PageIsSound'
        BY <2>1, ProductParts, PageGoesOn, NothingWritten DEF ServerIsSound
    <2>3. UpdatesAreSound'
        BY <2>1 DEF ProductInv, ProductIInv, UpdatesAreSound, UpdateIsSound, StillCurrent
    <2>4. AllowanceIsSound'
        BY <2>1, ProductParts DEF AllowanceIsSound
    <2> QED
        BY <2>2, <2>3, <2>4, NextProductParts
<1> QED
    BY <1>1, <1>2, <1>3, <1>4, <1>5, <1>6 DEF ProductNext

\* Whatever other clients do, an update is applied to the very row it was made from, the brand
\* as text is that of the organization assigned, and a save from a page that had not fallen
\* behind changes what its owner changed and nothing else: a weight that only had its unit
\* chosen, any number of times, is off by one last digit of a unit at most
\* (ProductsService.update and the ProductWizard).
THEOREM EditedAsTheWizardShowed == ProductSpec => []ProductsAreEditedSoundly
<1>1. ProductSpec => []ProductInv
    BY ProductInitially, ProductSteps, PTL DEF ProductSpec
<1> QED
    BY <1>1, ProductInvSuffices, PTL

=============================================================================
