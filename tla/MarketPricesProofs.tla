------------------------ MODULE MarketPricesProofs -------------------------
(***************************************************************************)
(* What holds of the market data for any number of workers, providers,     *)
(* backfills and days.                                                     *)
(***************************************************************************)
EXTENDS MarketPrices, WellFoundedInduction, TLAPS

-----------------------------------------------------------------------------
(* Runs of days *)

\* A range asked for holds missing days only (contiguousRanges).
LEMMA RunsStayInside ==
    ASSUME NEW days, NEW r \in ContiguousRanges(days)
    PROVE  r \in days \X days /\ r[1]..r[2] \subseteq days
BY DEF ContiguousRanges

\* Of some numbers one is the smallest.
LEMMA Smallest ==
    ASSUME NEW T \in SUBSET Nat, T # {}
    PROVE  \E x \in T : \A y \in T : x <= y
<1>1. PICK x \in T : \A y \in T : ~(<<y, x>> \in OpToRel(<, Nat))
    BY NatLessThanWellFounded, WFMin, Zenon
<1>2. ASSUME NEW y \in T PROVE ~(y < x)
    <2>1. x \in Nat /\ y \in Nat
        OBVIOUS
    <2>2. y < x => <<y, x>> \in OpToRel(<, Nat)
        BY <2>1, Zenon DEF OpToRel
    <2> QED
        BY <1>1, <2>2, Zenon
<1> QED
    BY <1>2

\* And every missing day is in one of them: the runs go from one day that is
\* not missing to the next (contiguousRanges).
LEMMA RunsCoverTheDays ==
    ASSUME NEW hi \in Nat, NEW days \in SUBSET (0..hi), NEW d \in days
    PROVE  \E r \in ContiguousRanges(days) : d \in r[1]..r[2]
<1> DEFINE Before == {a \in days : a <= d /\ a..d \subseteq days}
           After == {n \in Nat : d <= hi - n /\ d..(hi - n) \subseteq days}
<1>0. d \in Nat /\ d <= hi /\ days \subseteq Nat
    OBVIOUS
<1>1. PICK a \in Before : \A y \in Before : a <= y
    <2>1. d \in Before /\ Before \subseteq Nat
        <3>1. d..d \subseteq days /\ d <= d
            BY <1>0
        <3>2. Before \subseteq Nat
            BY <1>0
        <3> QED
            BY <3>1, <3>2
    <2> HIDE DEF Before
    <2> QED
        BY <2>1, Smallest
<1>2. PICK n \in After : \A y \in After : n <= y
    <2>1. hi - d \in After /\ After \subseteq Nat
        <3>1. hi - d \in Nat /\ hi - (hi - d) = d
            BY <1>0
        <3>2. d..d \subseteq days
            BY <1>0
        <3> QED
            BY <1>0, <3>1, <3>2
    <2> HIDE DEF After
    <2> QED
        BY <2>1, Smallest
<1> DEFINE b == hi - n
<1>3. /\ a \in Nat /\ n \in Nat /\ b \in Int /\ a \in days /\ a <= d /\ d <= b
      /\ a..d \subseteq days /\ d..b \subseteq days
    BY <1>0
<1>4. a - 1 \notin days
    <2> SUFFICES ASSUME a - 1 \in days PROVE FALSE
        OBVIOUS
    <2>1. a - 1 \in Before
        BY <1>0, <1>3
    <2> QED
        BY <1>1, <1>3, <2>1
<1>5. b + 1 \notin days
    <2> SUFFICES ASSUME b + 1 \in days PROVE FALSE
        OBVIOUS
    <2>1. n - 1 \in Nat /\ hi - (n - 1) = b + 1
        BY <1>0, <1>3
    <2>2. d..(b + 1) \subseteq days
        BY <1>0, <1>3
    <2>3. n - 1 \in After
        BY <1>3, <2>1, <2>2
    <2> QED
        BY <1>2, <1>3, <2>3
<1>6. a..b \subseteq days /\ b \in days
    BY <1>0, <1>3
<1>7. <<a, b>> \in ContiguousRanges(days)
    BY <1>0, <1>3, <1>4, <1>5, <1>6 DEF ContiguousRanges
<1>8. d \in <<a, b>>[1]..<<a, b>>[2]
    BY <1>0, <1>3
<1> HIDE DEF b
<1> QED
    BY <1>7, <1>8
-----------------------------------------------------------------------------
(* The type of the state *)

\* A provider that is asked is one of the registry's.
LEMMA SomeoneIsAsked ==
    ASSUME MarketTypeOK, TasksAreWhole, NEW t \in Tasks, task[t].kind # "none"
    PROVE  Provider(t) \in Providers
<1>1. task[t].kind \in DOMAIN Order
    BY DEF MarketTypeOK, TaskShapes, Order
<1> QED
    BY <1>1 DEF TasksAreWhole, TaskIsWhole, Provider, Providers

\* A price put into the book leaves the others there (create, upsert).
LEMMA BookGrows ==
    ASSUME MarketNext
    PROVE  DOMAIN book \subseteq DOMAIN book'
<1>1. ASSUME NEW e, NEW row, book' = With(e, row)
      PROVE  DOMAIN book \subseteq DOMAIN book'
    BY <1>1 DEF With
<1>2. ASSUME NEW e, NEW row, book' = Created(e, row)
      PROVE  DOMAIN book \subseteq DOMAIN book'
    BY <1>1, <1>2 DEF Created
<1> QED
    BY <1>1, <1>2 DEF MarketNext, TaskStep, SchedulerStep, StartSync, FetchAnswered, FetchMissed,
        StoreQuote, EndSync, RecordManual, RequestBackfill, TakeBackfill, ReadGaps, FetchRange,
        EndRange, EndBackfill, RefuseRange, Forget, TaskFails, ForgetJob, Tick, StartScheduler,
        RemoveRepeatable, AddRepeatable, Installed, StopScheduler, others

LEMMA BookIsTyped ==
    ASSUME MarketTypeOK, TasksAreWhole, MarketNext
    PROVE  DOMAIN book' \subseteq Entries /\ book' \in [DOMAIN book' -> BookRows]
<1>1. ASSUME NEW e \in Entries, NEW row \in BookRows, book' = With(e, row)
      PROVE  DOMAIN book' \subseteq Entries /\ book' \in [DOMAIN book' -> BookRows]
    BY <1>1 DEF With, MarketTypeOK
<1>2. ASSUME NEW t \in Tasks, StoreQuote(t)
      PROVE  DOMAIN book' \subseteq Entries /\ book' \in [DOMAIN book' -> BookRows]
    <2>1. PICK q \in task[t].left : book' = Created(EntryOf(q), RowOf(q, Provider(t)))
        BY <1>2 DEF StoreQuote
    <2>2. q \in Quotes
        BY <2>1 DEF MarketTypeOK, TaskShapes
    <2>3. NotAfterNow(q.at) \in Days
        BY <2>2, MarketAssumption DEF Quotes, NotAfterNow, Days, MarketTypeOK
    <2>4. EntryOf(q) \in Entries
        BY <2>2, <2>3 DEF EntryOf, Entries, Quotes
    <2>5. Provider(t) \in Providers
        BY <1>2, SomeoneIsAsked DEF StoreQuote, TasksAreWhole, TaskIsWhole
    <2>6. RowOf(q, Provider(t)) \in BookRows
        BY <2>2, <2>5 DEF RowOf, BookRows, Quotes
    <2> QED
        BY <1>1, <2>1, <2>4, <2>6 DEF Created, MarketTypeOK
<1>3. ASSUME NEW m \in Metals, NEW r \in Entered, NEW f \in Levels,
             RecordManual(m, r.at, r.source, f)
      PROVE  DOMAIN book' \subseteq Entries /\ book' \in [DOMAIN book' -> BookRows]
    <2>1. r.at \in Days
        BY <1>3, EnteredIsDated, MarketAssumption DEF RecordManual, Days, MarketTypeOK
    <2>2. [series |-> m, at |-> r.at, source |-> r.source] \in Entries
        BY <2>1, EnteredIsDated DEF Entries, Series
    <2>3. [by |-> Manual, figure |-> f] \in BookRows
        BY DEF BookRows
    <2> QED
        BY <1>1, <1>3, <2>2, <2>3 DEF RecordManual
<1>4. ASSUME book' = book
      PROVE  DOMAIN book' \subseteq Entries /\ book' \in [DOMAIN book' -> BookRows]
    BY <1>4 DEF MarketTypeOK
<1> QED
    BY <1>2, <1>3, <1>4 DEF MarketNext, TaskStep, SchedulerStep, StartSync, FetchAnswered, FetchMissed,
        EndSync, RequestBackfill, TakeBackfill, ReadGaps, FetchRange,
        EndRange, EndBackfill, RefuseRange, Forget, TaskFails, ForgetJob, Tick, StartScheduler,
        RemoveRepeatable, AddRepeatable, Installed, StopScheduler, others

\* What is asked of the clock, the queue and the schedule stays of its kind.
LEMMA TasksAreTyped ==
    ASSUME MarketTypeOK, TasksAreWhole, MarketNext
    PROVE  task' \in [Tasks -> TaskShapes]
<1>0. IdleTask \in TaskShapes
    BY DEF IdleTask, TaskShapes, NoBackfill
<1>1. ASSUME NEW t \in Tasks, NEW new \in TaskShapes, task' = [task EXCEPT ![t] = new]
      PROVE  task' \in [Tasks -> TaskShapes]
    BY <1>1 DEF MarketTypeOK
<1>2. ASSUME NEW t \in Tasks, NEW kind \in {"spot", "fx"}, StartSync(t, kind)
      PROVE  task' \in [Tasks -> TaskShapes]
    BY <1>0, <1>1, <1>2 DEF StartSync, TaskShapes
<1>3. ASSUME NEW t \in Tasks, FetchAnswered(t)
      PROVE  task' \in [Tasks -> TaskShapes]
    <2>1. PICK Q \in QuotesOf(IF task[t].kind = "fx" THEN {Fx} ELSE Metals) :
              task' = [task EXCEPT ![t].phase = "store", ![t].left = Q]
        BY <1>3 DEF FetchAnswered
    <2>2. Q \in SUBSET Quotes
        BY DEF QuotesOf, Quotes, Series
    <2> DEFINE new == [task[t] EXCEPT !.phase = "store", !.left = Q]
    <2>3. new \in TaskShapes
        <3>1. task[t] \in TaskShapes
            BY DEF MarketTypeOK
        <3> QED
            BY <2>2, <3>1 DEF TaskShapes
    <2>4. task' = [task EXCEPT ![t] = new]
        BY <2>1 DEF MarketTypeOK, TaskShapes
    <2> HIDE DEF new
    <2> QED
        BY <1>1, <2>3, <2>4
<1>4. ASSUME NEW t \in Tasks, FetchMissed(t)
      PROVE  task' \in [Tasks -> TaskShapes]
    <2> DEFINE up == task[t].next + 1
    <2>1. up \in Nat /\ task[t] \in TaskShapes
        BY DEF MarketTypeOK, TaskShapes
    <2>2. \/ task' = [task EXCEPT ![t] = IdleTask]
          \/ task' = [task EXCEPT ![t] = [task[t] EXCEPT !.next = up]]
        BY <1>4 DEF FetchMissed, MarketTypeOK
    <2> HIDE DEF up
    <2>3. [task[t] EXCEPT !.next = up] \in TaskShapes
        BY <2>1 DEF TaskShapes
    <2> QED
        BY <1>0, <1>1, <2>2, <2>3
<1>5. ASSUME NEW t \in Tasks, StoreQuote(t)
      PROVE  task' \in [Tasks -> TaskShapes]
    BY <1>5 DEF StoreQuote, MarketTypeOK, TaskShapes
<1>6. ASSUME NEW t \in Tasks, EndSync(t)
      PROVE  task' \in [Tasks -> TaskShapes]
    BY <1>0, <1>6 DEF EndSync, MarketTypeOK, TaskShapes
<1>7. ASSUME NEW t \in Tasks, NEW b \in Backfills, TakeBackfill(t, b)
      PROVE  task' \in [Tasks -> TaskShapes]
    BY <1>0, <1>7 DEF TakeBackfill, MarketTypeOK, TaskShapes
<1>8. ASSUME NEW t \in Tasks, ReadGaps(t)
      PROVE  task' \in [Tasks -> TaskShapes]
    <2>1. task[t].backfill \in Backfills
        BY <1>8 DEF ReadGaps, TasksAreWhole, TaskIsWhole, MarketTypeOK, TaskShapes
    <2> DEFINE missing == MissingDays(task[t].backfill)
    <2>2. missing \in SUBSET Days
        <3>1. \A b \in Backfills : MissingDays(b) \subseteq Days
            BY MarketAssumption DEF MissingDays, Days
        <3> QED
            BY <2>1, <3>1
    <2>3. ContiguousRanges(missing) \in SUBSET (Days \X Days)
        BY <2>2, RunsStayInside
    <2>4. task' = [task EXCEPT ![t].phase = "range", ![t].missing = missing,
                               ![t].ranges = ContiguousRanges(missing)]
        BY <1>8 DEF ReadGaps
    <2> HIDE DEF missing
    <2> DEFINE new == [task[t] EXCEPT !.phase = "range", !.missing = missing,
                                      !.ranges = ContiguousRanges(missing)]
    <2>5. new \in TaskShapes
        <3>1. task[t] \in TaskShapes
            BY DEF MarketTypeOK
        <3> QED
            BY <2>2, <2>3, <3>1 DEF TaskShapes
    <2>6. task' = [task EXCEPT ![t] = new]
        BY <2>4 DEF MarketTypeOK, TaskShapes
    <2> HIDE DEF new
    <2> QED
        BY <1>1, <2>5, <2>6
<1>9. ASSUME NEW t \in Tasks, FetchRange(t)
      PROVE  task' \in [Tasks -> TaskShapes]
    <2>0. PICK r \in NextRanges(t), figure \in Levels : \E days \in SUBSET (r[1]..r[2]) :
              task' = [task EXCEPT ![t].phase = "store", ![t].ranges = @ \ {r},
                         ![t].left = [series : {task[t].backfill.metal}, at : days,
                                      figure : {figure}],
                         ![t].absent = @ \cup ((r[1]..r[2]) \ days)]
        BY <1>9 DEF FetchRange
    <2>1. PICK days \in SUBSET (r[1]..r[2]) :
              task' = [task EXCEPT ![t].phase = "store", ![t].ranges = @ \ {r},
                         ![t].left = [series : {task[t].backfill.metal}, at : days,
                                      figure : {figure}],
                         ![t].absent = @ \cup ((r[1]..r[2]) \ days)]
        BY <2>0
    <2>2. task[t].backfill \in Backfills /\ r \in task[t].ranges /\ r \in Days \X Days
        BY <1>9 DEF FetchRange, NextRanges, TasksAreWhole, TaskIsWhole, MarketTypeOK, TaskShapes
    <2>3. r[1]..r[2] \subseteq Days
        BY <2>2, MarketAssumption DEF Days
    <2> DEFINE left == [series : {task[t].backfill.metal}, at : days, figure : {figure}]
               absent == (r[1]..r[2]) \ days
    <2>4. left \in SUBSET Quotes
        BY <2>2, <2>3, MarketAssumption DEF Quotes, Series
    <2>5. absent \in SUBSET Days
        BY <2>3
    <2>6. task' = [task EXCEPT ![t].phase = "store", ![t].ranges = @ \ {r}, ![t].left = left,
                               ![t].absent = @ \cup absent]
        BY <2>1
    <2> HIDE DEF left, absent
    <2> DEFINE new == [task[t] EXCEPT !.phase = "store", !.ranges = @ \ {r}, !.left = left,
                                      !.absent = @ \cup absent]
    <2>7. new \in TaskShapes
        <3>1. task[t] \in TaskShapes
            BY DEF MarketTypeOK
        <3> QED
            BY <2>4, <2>5, <3>1 DEF TaskShapes
    <2>8. task' = [task EXCEPT ![t] = new]
        BY <2>6 DEF MarketTypeOK, TaskShapes
    <2> HIDE DEF new
    <2> QED
        BY <1>1, <2>7, <2>8
<1>10. ASSUME NEW t \in Tasks, EndRange(t) \/ EndBackfill(t) \/ RefuseRange(t) \/ Forget(t)
                                 \/ TaskFails(t)
       PROVE  task' \in [Tasks -> TaskShapes]
    BY <1>0, <1>10 DEF EndRange, EndBackfill, RefuseRange, Forget, TaskFails, MarketTypeOK, TaskShapes
<1>11. ASSUME task' = task
       PROVE  task' \in [Tasks -> TaskShapes]
    BY <1>11 DEF MarketTypeOK
<1> QED
    BY <1>2, <1>3, <1>4, <1>5, <1>6, <1>7, <1>8, <1>9, <1>10, <1>11
    DEF MarketNext, TaskStep, SchedulerStep, RecordManual, RequestBackfill, ForgetJob, Tick, rest,
        StartScheduler, RemoveRepeatable, AddRepeatable, Installed, StopScheduler, others

LEMMA JobsAreTyped ==
    ASSUME MarketTypeOK, TasksAreWhole, BackfillsAreHeldOnce, MarketNext
    PROVE  job' \in [Backfills -> Tries]
<1>1. ASSUME NEW b \in Backfills, job[b].attemptsMade < MaxAttempts
      PROVE  Retried(job[b]) \in Tries
    BY <1>1, MarketAssumption DEF Retried, MarketTypeOK, Tries
<1>2. ASSUME NEW b \in Backfills, NEW new \in Tries, job' = [job EXCEPT ![b] = new]
      PROVE  job' \in [Backfills -> Tries]
    BY <1>2 DEF MarketTypeOK
<1>3. NoJob \in Tries
    BY MarketAssumption DEF NoJob, Tries
<1>4. ASSUME NEW t \in Tasks, task[t].kind = "history"
      PROVE  /\ task[t].backfill \in Backfills
             /\ job[task[t].backfill].attemptsMade < MaxAttempts
    BY <1>4 DEF MarketTypeOK, TaskShapes, TasksAreWhole, TaskIsWhole, BackfillsAreHeldOnce
<1>5. ASSUME NEW t \in Tasks, RefuseRange(t)
      PROVE  job' \in [Backfills -> Tries]
    <2>1. task[t].kind = "history"
        BY <1>5 DEF RefuseRange, TasksAreWhole, TaskIsWhole
    <2>2. job' = [job EXCEPT ![task[t].backfill] = Retried(job[task[t].backfill])]
        BY <1>5, <1>4, <2>1 DEF RefuseRange, MarketTypeOK
    <2> QED
        BY <1>1, <1>2, <1>4, <2>1, <2>2
<1>6. ASSUME NEW t \in Tasks, TaskFails(t)
      PROVE  job' \in [Backfills -> Tries]
    <2>1. CASE task[t].kind # "history"
        BY <1>6, <2>1 DEF TaskFails, MarketTypeOK
    <2>2. CASE task[t].kind = "history"
        <3>1. [job[task[t].backfill] EXCEPT !.state = "waiting"] \in Tries
            BY <1>4, <2>2 DEF MarketTypeOK, Tries
        <3> QED
            BY <1>1, <1>2, <1>4, <1>6, <2>2, <3>1 DEF TaskFails
    <2> QED
        BY <2>1, <2>2
<1>7. ASSUME NEW t \in Tasks, EndBackfill(t)
      PROVE  job' \in [Backfills -> Tries]
    BY <1>7, ZenonT(60) DEF EndBackfill, MarketTypeOK, Tries
<1>8. ASSUME NEW b \in Backfills,
             RequestBackfill(b) \/ ForgetJob(b) \/ \E t \in Tasks : TakeBackfill(t, b)
      PROVE  job' \in [Backfills -> Tries]
    BY <1>3, <1>8 DEF RequestBackfill, ForgetJob, TakeBackfill, MarketTypeOK, Tries
<1>9. ASSUME job' = job
      PROVE  job' \in [Backfills -> Tries]
    BY <1>9 DEF MarketTypeOK
<1> QED
    BY <1>5, <1>6, <1>7, <1>8, <1>9
    DEF MarketNext, TaskStep, SchedulerStep, RecordManual, Tick, StartSync, FetchAnswered, FetchMissed,
        StoreQuote, EndSync, ReadGaps, FetchRange, EndRange, Forget,
        StartScheduler, RemoveRepeatable, AddRepeatable, Installed, StopScheduler, others

LEMMA TheRestIsTyped ==
    ASSUME MarketTypeOK, ScheduleIsAccountedFor, MarketNext
    PROVE  /\ now' \in Start..MaxTime /\ now <= now' /\ faults' \in Nat
           /\ repeats' \subseteq Repeatables \X Cadences
           /\ scheduler' \in [phase : {"down", "installing", "up"}, cadence : Cadences \cup {0},
                              doomed : SUBSET (Repeatables \X Cadences), todo : SUBSET Repeatables]
<1>1. CASE Tick
    BY <1>1, MarketAssumption DEF Tick, MarketTypeOK
<1>2. CASE StopScheduler
    BY <1>2, MarketAssumption DEF StopScheduler, others, Down, MarketTypeOK
<1>3. CASE \E c \in Cadences : StartScheduler(c)
    BY <1>3, MarketAssumption DEF StartScheduler, Stale, others, MarketTypeOK
<1>4. CASE RemoveRepeatable
    BY <1>4, MarketAssumption DEF RemoveRepeatable, others, MarketTypeOK
<1>5. CASE Installed
    BY <1>5, MarketAssumption DEF Installed, others, MarketTypeOK
<1>6. CASE \E t \in Tasks : TaskFails(t)
    BY <1>6, MarketAssumption DEF TaskFails, rest, MarketTypeOK
<1>7. CASE AddRepeatable
    <2>1. PICK j \in scheduler.todo :
             /\ repeats' = repeats \cup {<<j, scheduler.cadence>>}
             /\ scheduler' = [scheduler EXCEPT !.todo = @ \ {j}]
        BY <1>7 DEF AddRepeatable
    <2>2. <<j, scheduler.cadence>> \in Repeatables \X Cadences
        BY <1>7, <2>1 DEF AddRepeatable, ScheduleIsAccountedFor, MarketTypeOK
    <2> QED
        BY <1>7, <2>1, <2>2, MarketAssumption DEF AddRepeatable, others, MarketTypeOK
<1>8. CASE UNCHANGED <<now, faults, repeats, scheduler>>
    BY <1>8, MarketAssumption DEF MarketTypeOK
<1> QED
    BY <1>1, <1>2, <1>3, <1>4, <1>5, <1>6, <1>7, <1>8
    DEF MarketNext, TaskStep, SchedulerStep, RecordManual, RequestBackfill, ForgetJob, TakeBackfill, rest,
        StartSync, FetchAnswered, FetchMissed, StoreQuote, EndSync, ReadGaps, FetchRange,
        EndRange, EndBackfill, RefuseRange, Forget

-----------------------------------------------------------------------------
(* Tasks *)

\* A task stays whole whatever it or another one does: the kind it began with,
\* a provider to ask, and a backfill's days.
LEMMA TasksStayWhole ==
    ASSUME MarketTypeOK, TasksAreWhole, BackfillsFetchOnlyGaps, MarketNext
    PROVE  TasksAreWhole'
<1> SUFFICES ASSUME NEW u \in Tasks PROVE TaskIsWhole(u)'
    BY DEF TasksAreWhole
<1>0. TaskIsWhole(u) /\ task[u] \in TaskShapes
    BY DEF MarketTypeOK, TasksAreWhole
<1>i. ASSUME task'[u] = IdleTask PROVE TaskIsWhole(u)'
    BY <1>i DEF TaskIsWhole, IdleTask
<1>s. ASSUME task'[u] = task[u] PROVE TaskIsWhole(u)'
    BY <1>0, <1>s DEF TaskIsWhole
<1>1. ASSUME NEW t \in Tasks, NEW kind \in {"spot", "fx"}, StartSync(t, kind)
      PROVE  TaskIsWhole(u)'
    <2>1. CASE u = t
        <3>1. 1 \in DOMAIN Order[kind]
            BY SomeoneProvides DEF Order
        <3>2. task'[u] = [IdleTask EXCEPT !.kind = kind, !.phase = "fetch"]
            BY <1>1, <2>1 DEF StartSync, MarketTypeOK
        <3> QED
            BY <3>1, <3>2 DEF TaskIsWhole, IdleTask
    <2>2. CASE u # t
        BY <1>1, <1>s, <2>2 DEF StartSync, MarketTypeOK
    <2> QED
        BY <2>1, <2>2
<1>2. ASSUME NEW t \in Tasks, FetchAnswered(t)
      PROVE  TaskIsWhole(u)'
    <2>1. PICK Q \in QuotesOf(IF task[t].kind = "fx" THEN {Fx} ELSE Metals) :
              task' = [task EXCEPT ![t].phase = "store", ![t].left = Q]
        BY <1>2 DEF FetchAnswered
    <2> QED
        BY <1>0, <1>2, <1>s, <2>1 DEF FetchAnswered, TaskIsWhole, MarketTypeOK, TaskShapes
<1>3. ASSUME NEW t \in Tasks, FetchMissed(t)
      PROVE  TaskIsWhole(u)'
    <2>1. CASE u = t /\ task[t].next < Len(Order[task[t].kind])
        <3>1. /\ task'[u].kind = task[u].kind /\ task'[u].phase = "fetch"
              /\ task'[u].next = task[u].next + 1
            BY <1>3, <2>1 DEF FetchMissed, MarketTypeOK, TaskShapes
        <3>2. task[u].kind \in {"spot", "fx"} /\ task[u].next \in DOMAIN Order[task[u].kind]
            BY <1>0, <1>3, <2>1 DEF FetchMissed, TaskIsWhole
        <3>3. Order[task[u].kind] \in Seq(Providers)
            BY <3>2, SomeoneProvides DEF Order
        <3>4. task[u].next + 1 \in DOMAIN Order[task[u].kind]
            BY <2>1, <3>2, <3>3
        <3> QED
            BY <3>1, <3>2, <3>4 DEF TaskIsWhole
    <2>2. CASE u = t /\ ~(task[t].next < Len(Order[task[t].kind]))
        BY <1>3, <1>i, <2>2 DEF FetchMissed, MarketTypeOK
    <2>3. CASE u # t
        BY <1>3, <1>s, <2>3 DEF FetchMissed, MarketTypeOK
    <2> QED
        BY <2>1, <2>2, <2>3
<1>4. ASSUME NEW t \in Tasks, StoreQuote(t)
      PROVE  TaskIsWhole(u)'
    BY <1>0, <1>4, <1>s DEF StoreQuote, TaskIsWhole, MarketTypeOK, TaskShapes
<1>5. ASSUME NEW t \in Tasks, NEW b \in Backfills, TakeBackfill(t, b)
      PROVE  TaskIsWhole(u)'
    <2>1. CASE u = t
        <3>1. 1 \in DOMAIN Order["history"]
            BY SomeoneProvides DEF Order
        <3>2. task'[u] = [IdleTask EXCEPT !.kind = "history", !.phase = "gaps", !.backfill = b]
            BY <1>5, <2>1 DEF TakeBackfill, MarketTypeOK
        <3> QED
            BY <3>1, <3>2 DEF TaskIsWhole, IdleTask
    <2>2. CASE u # t
        BY <1>5, <1>s, <2>2 DEF TakeBackfill, MarketTypeOK
    <2> QED
        BY <2>1, <2>2
<1>6. ASSUME NEW t \in Tasks, ReadGaps(t)
      PROVE  TaskIsWhole(u)'
    <2>1. CASE u = t
        <3> DEFINE missing == MissingDays(task[t].backfill)
        <3>1. task[t].kind = "history" /\ task[t].backfill \in Backfills /\ task[t].left = {}
            BY <1>0, <1>6, <2>1 DEF ReadGaps, TaskIsWhole, TaskShapes
        <3>2. missing \subseteq task[t].backfill.from..task[t].backfill.to
            BY DEF MissingDays
        <3>3. \A r \in ContiguousRanges(missing) : r[1]..r[2] \subseteq missing
            BY RunsStayInside
        <3>4. task' = [task EXCEPT ![t].phase = "range", ![t].missing = missing,
                                   ![t].ranges = ContiguousRanges(missing)]
            BY <1>6 DEF ReadGaps
        <3> HIDE DEF missing
        <3>5. /\ task'[u].kind = task[u].kind /\ task'[u].phase = "range"
              /\ task'[u].next = task[u].next /\ task'[u].backfill = task[u].backfill
              /\ task'[u].left = task[u].left /\ task'[u].missing = missing
              /\ task'[u].ranges = ContiguousRanges(missing)
            BY <1>0, <2>1, <3>4 DEF MarketTypeOK, TaskShapes
        <3> QED
            BY <1>0, <2>1, <3>1, <3>2, <3>3, <3>5 DEF TaskIsWhole
    <2>2. CASE u # t
        BY <1>6, <1>s, <2>2 DEF ReadGaps, MarketTypeOK
    <2> QED
        BY <2>1, <2>2
<1>7. ASSUME NEW t \in Tasks, FetchRange(t)
      PROVE  TaskIsWhole(u)'
    <2>0. PICK r \in NextRanges(t), figure \in Levels : \E days \in SUBSET (r[1]..r[2]) :
              task' = [task EXCEPT ![t].phase = "store", ![t].ranges = @ \ {r},
                         ![t].left = [series : {task[t].backfill.metal}, at : days,
                                      figure : {figure}],
                         ![t].absent = @ \cup ((r[1]..r[2]) \ days)]
        BY <1>7 DEF FetchRange
    <2>1. PICK days \in SUBSET (r[1]..r[2]) :
              task' = [task EXCEPT ![t].phase = "store", ![t].ranges = @ \ {r},
                         ![t].left = [series : {task[t].backfill.metal}, at : days,
                                      figure : {figure}],
                         ![t].absent = @ \cup ((r[1]..r[2]) \ days)]
        BY <2>0
    <2>2. CASE u = t
        <3> DEFINE left == [series : {task[t].backfill.metal}, at : days, figure : {figure}]
        <3>1. \A q \in left : q.at \in r[1]..r[2]
            OBVIOUS
        <3>2. task[t].kind = "history" /\ r \in task[t].ranges
            BY <1>0, <1>7, <2>2 DEF FetchRange, NextRanges, TaskIsWhole
        <3> HIDE DEF left
        <3>3. /\ task'[u].kind = task[u].kind /\ task'[u].phase = "store"
              /\ task'[u].next = task[u].next /\ task'[u].backfill = task[u].backfill
              /\ task'[u].left = left /\ task'[u].missing = task[u].missing
              /\ task'[u].ranges = task[u].ranges \ {r}
            BY <1>0, <2>1, <2>2 DEF MarketTypeOK, TaskShapes, left
        <3> QED
            BY <1>0, <2>2, <3>1, <3>2, <3>3 DEF TaskIsWhole
    <2>3. CASE u # t
        BY <1>s, <2>1, <2>3 DEF MarketTypeOK
    <2> QED
        BY <2>2, <2>3
<1>8. ASSUME NEW t \in Tasks, EndRange(t)
      PROVE  TaskIsWhole(u)'
    BY <1>0, <1>8, <1>s DEF EndRange, TaskIsWhole, MarketTypeOK, TaskShapes
<1>9. ASSUME NEW t \in Tasks, RefuseRange(t)
      PROVE  TaskIsWhole(u)'
    BY <1>9, <1>s DEF RefuseRange, IdleTask, TaskIsWhole, MarketTypeOK
<1>10. ASSUME NEW t \in Tasks, EndSync(t) \/ EndBackfill(t) \/ Forget(t) \/ TaskFails(t)
       PROVE  TaskIsWhole(u)'
    <2>1. task'[u] \in {IdleTask, task[u]}
        BY <1>10 DEF EndSync, EndBackfill, Forget, TaskFails, MarketTypeOK
    <2> QED
        BY <1>i, <1>s, <2>1
<1>11. ASSUME task' = task
       PROVE  TaskIsWhole(u)'
    BY <1>11, <1>s
<1> QED
    BY <1>1, <1>2, <1>3, <1>4, <1>5, <1>6, <1>7, <1>8, <1>9, <1>10, <1>11
    DEF MarketNext, TaskStep, SchedulerStep, RecordManual, RequestBackfill, ForgetJob, Tick, rest,
        StartScheduler, RemoveRepeatable, AddRepeatable, Installed, StopScheduler, others

\* The ranges a backfill has before it are runs of the days it found missing.
LEMMA OnlyGapsAreFetched ==
    ASSUME MarketTypeOK, TasksAreWhole, BackfillsFetchOnlyGaps, MarketNext
    PROVE  BackfillsFetchOnlyGaps'
<1> SUFFICES ASSUME NEW u \in Tasks, task'[u].kind = "history", NEW r \in task'[u].ranges
             PROVE  r[1]..r[2] \subseteq task'[u].missing
    BY DEF BackfillsFetchOnlyGaps
<1>0. task[u] \in TaskShapes
    BY DEF MarketTypeOK
<1>s. ASSUME task[u].kind = "history", task'[u].missing = task[u].missing,
             task'[u].ranges \subseteq task[u].ranges
      PROVE  r[1]..r[2] \subseteq task'[u].missing
    BY <1>s DEF BackfillsFetchOnlyGaps
<1>1. ASSUME NEW t \in Tasks, ReadGaps(t)
      PROVE  r[1]..r[2] \subseteq task'[u].missing
    <2>1. CASE u = t
        <3> DEFINE missing == MissingDays(task[t].backfill)
        <3>1. task' = [task EXCEPT ![t].phase = "range", ![t].missing = missing,
                                   ![t].ranges = ContiguousRanges(missing)]
            BY <1>1 DEF ReadGaps
        <3> HIDE DEF missing
        <3>2. task'[u].missing = missing /\ task'[u].ranges = ContiguousRanges(missing)
            BY <1>0, <2>1, <3>1 DEF MarketTypeOK, TaskShapes
        <3> QED
            BY <3>2, RunsStayInside
    <2>2. CASE u # t
        BY <1>1, <1>s, <2>2 DEF ReadGaps, MarketTypeOK
    <2> QED
        BY <2>1, <2>2
<1>2. ASSUME NEW t \in Tasks, FetchRange(t)
      PROVE  r[1]..r[2] \subseteq task'[u].missing
    <2>0. PICK s \in NextRanges(t), figure \in Levels : \E days \in SUBSET (s[1]..s[2]) :
              task' = [task EXCEPT ![t].phase = "store", ![t].ranges = @ \ {s},
                         ![t].left = [series : {task[t].backfill.metal}, at : days,
                                      figure : {figure}],
                         ![t].absent = @ \cup ((s[1]..s[2]) \ days)]
        BY <1>2 DEF FetchRange
    <2>1. /\ task'[u].kind = task[u].kind /\ task'[u].missing = task[u].missing
          /\ task'[u].ranges \subseteq task[u].ranges
        BY <1>0, <2>0 DEF MarketTypeOK, TaskShapes
    <2> QED
        BY <1>s, <2>1
<1>3. ASSUME NEW t \in Tasks, NEW b \in Backfills, TakeBackfill(t, b)
      PROVE  r[1]..r[2] \subseteq task'[u].missing
    <2>1. CASE u = t
        BY <1>3, <2>1 DEF TakeBackfill, MarketTypeOK, IdleTask
    <2>2. CASE u # t
        BY <1>3, <1>s, <2>2 DEF TakeBackfill, MarketTypeOK
    <2> QED
        BY <2>1, <2>2
<1>4. ASSUME NEW t \in Tasks,
             \/ StoreQuote(t) \/ EndRange(t) \/ FetchAnswered(t) \/ FetchMissed(t)
             \/ \E kind \in {"spot", "fx"} : StartSync(t, kind)
      PROVE  r[1]..r[2] \subseteq task'[u].missing
    <2>1. CASE StoreQuote(t) \/ EndRange(t)
        BY <1>0, <1>s, <2>1 DEF StoreQuote, EndRange, MarketTypeOK, TaskShapes
    <2>2. CASE FetchAnswered(t)
        BY <1>0, <1>s, <2>2 DEF FetchAnswered, MarketTypeOK, TaskShapes
    <2>3. CASE FetchMissed(t)
        <3>1. \/ task'[u] = IdleTask
              \/ /\ task'[u].kind = task[u].kind /\ task'[u].missing = task[u].missing
                 /\ task'[u].ranges = task[u].ranges
            <4>1. \/ task' = [task EXCEPT ![t].next = task[t].next + 1]
                  \/ task' = [task EXCEPT ![t] = IdleTask]
                BY <2>3 DEF FetchMissed, MarketTypeOK, TaskShapes
            <4> QED
                BY <1>0, <4>1 DEF MarketTypeOK, TaskShapes
        <3> QED
            BY <1>s, <3>1 DEF IdleTask
    <2>4. CASE \E kind \in {"spot", "fx"} : StartSync(t, kind)
        BY <1>0, <1>s, <2>4 DEF StartSync, IdleTask, MarketTypeOK, TaskShapes
    <2> QED
        BY <1>4, <2>1, <2>2, <2>3, <2>4
<1>5. ASSUME NEW t \in Tasks,
             EndSync(t) \/ EndBackfill(t) \/ Forget(t) \/ TaskFails(t) \/ RefuseRange(t)
      PROVE  r[1]..r[2] \subseteq task'[u].missing
    <2>1. task'[u].kind = "none" \/ task'[u] = task[u]
        BY <1>5 DEF EndSync, EndBackfill, Forget, TaskFails, RefuseRange, IdleTask, MarketTypeOK
    <2> QED
        BY <1>s, <2>1
<1>6. ASSUME task' = task
      PROVE  r[1]..r[2] \subseteq task'[u].missing
    BY <1>6, <1>s
<1> QED
    BY <1>1, <1>2, <1>3, <1>4, <1>5, <1>6
    DEF MarketNext, TaskStep, SchedulerStep, RecordManual, RequestBackfill, ForgetJob, Tick, rest,
        StartScheduler, RemoveRepeatable, AddRepeatable, Installed, StopScheduler, others

\* No two workers have the same backfill, and it has an attempt left for as long
\* as one may have it: a job is given out once until it is given back.
LEMMA BackfillsStayHeldOnce ==
    ASSUME MarketTypeOK, TasksAreWhole, BackfillsAreHeldOnce, MarketNext
    PROVE  BackfillsAreHeldOnce'
<1> DEFINE Holds(t, b) == task[t].kind = "history" /\ task[t].backfill = b
           Held(t, b) == Holds(t, b) => /\ job[b].state = "active"
                                        /\ \A u \in Tasks : Holds(u, b) => u = t
           Left(b) == job[b].state \in {"waiting", "active"} => job[b].attemptsMade < MaxAttempts
<1>0. /\ \A t \in Tasks, b \in Backfills : Held(t, b)
      /\ \A b \in Backfills : Left(b)
    BY DEF BackfillsAreHeldOnce
<1> SUFFICES /\ \A t \in Tasks, b \in Backfills : Held(t, b)'
             /\ \A b \in Backfills : Left(b)'
    BY DEF BackfillsAreHeldOnce
<1>s. ASSUME \A t \in Tasks, b \in Backfills : Holds(t, b)' => Holds(t, b), job' = job
      PROVE  /\ \A t \in Tasks, b \in Backfills : Held(t, b)'
             /\ \A b \in Backfills : Left(b)'
    BY <1>0, <1>s
\* A worker gives a backfill back.
<1>b. ASSUME NEW t \in Tasks, NEW c \in Backfills, Holds(t, c), NEW new,
             \A u \in Tasks, b \in Backfills : Holds(u, b)' => Holds(u, b) /\ u # t,
             \A b \in Backfills : job'[b] = IF b = c THEN new ELSE job[b],
             new.state \in {"waiting", "active"} => new.attemptsMade < MaxAttempts
      PROVE  /\ \A u \in Tasks, b \in Backfills : Held(u, b)'
             /\ \A b \in Backfills : Left(b)'
    <2>1. \A u \in Tasks, b \in Backfills : Holds(u, b)' => job'[b] = job[b]
        BY <1>0, <1>b
    <2> QED
        BY <1>0, <1>b, <2>1
\* A job nobody has is changed.
<1>j. ASSUME NEW c \in Backfills, \A b \in Backfills : job'[b] = IF b = c THEN job'[c] ELSE job[b],
             \A u \in Tasks, b \in Backfills : Holds(u, b)' => Holds(u, b), job[c].state # "active",
             job'[c].state \in {"waiting", "active"} => job'[c].attemptsMade < MaxAttempts
      PROVE  /\ \A u \in Tasks, b \in Backfills : Held(u, b)'
             /\ \A b \in Backfills : Left(b)'
    <2>1. \A u \in Tasks, b \in Backfills : Holds(u, b)' => job'[b] = job[b]
        BY <1>0, <1>j
    <2> QED
        BY <1>0, <1>j, <2>1
<1>1. ASSUME NEW t \in Tasks, NEW c \in Backfills, TakeBackfill(t, c)
      PROVE  /\ \A u \in Tasks, b \in Backfills : Held(u, b)'
             /\ \A b \in Backfills : Left(b)'
    <2>1. \A b \in Backfills : job'[b] = IF b = c THEN [job[c] EXCEPT !.state = "active"] ELSE job[b]
        BY <1>1 DEF TakeBackfill, MarketTypeOK
    <2>2. \A u \in Tasks, b \in Backfills :
              Holds(u, b)' <=> IF u = t THEN b = c ELSE Holds(u, b)
        BY <1>1 DEF TakeBackfill, MarketTypeOK, IdleTask
    <2>3. job[c].state = "waiting" /\ \A u \in Tasks : ~Holds(u, c)
        BY <1>0, <1>1 DEF TakeBackfill
    <2>4. \A b \in Backfills : Left(b)'
        BY <1>0, <2>1, <2>3 DEF MarketTypeOK, Tries
    <2>5. \A u \in Tasks, b \in Backfills : Held(u, b)'
        BY <1>0, <2>1, <2>2, <2>3 DEF MarketTypeOK, Tries
    <2> QED
        BY <2>4, <2>5
<1>2. ASSUME NEW t \in Tasks, EndBackfill(t) \/ RefuseRange(t)
      PROVE  /\ \A u \in Tasks, b \in Backfills : Held(u, b)'
             /\ \A b \in Backfills : Left(b)'
    <2> DEFINE c == task[t].backfill
    <2>1. c \in Backfills /\ Holds(t, c)
        BY <1>2 DEF EndBackfill, RefuseRange, TasksAreWhole, TaskIsWhole, MarketTypeOK, TaskShapes
    <2>2. \A u \in Tasks, b \in Backfills : Holds(u, b)' => Holds(u, b) /\ u # t
        BY <1>2 DEF EndBackfill, RefuseRange, MarketTypeOK, IdleTask
    <2>3. job[c] \in Tries /\ job[c].attemptsMade < MaxAttempts
        BY <1>0, <2>1 DEF MarketTypeOK
    <2>4. CASE EndBackfill(t)
        <3>1. \A b \in Backfills :
                  job'[b] = IF b = c THEN [job[c] EXCEPT !.state = "completed"] ELSE job[b]
            BY <2>4 DEF EndBackfill, MarketTypeOK
        <3>2. [job[c] EXCEPT !.state = "completed"].state = "completed"
            BY <2>3 DEF Tries
        <3> HIDE DEF c, Holds, Held, Left
        <3> QED
            BY <1>b, <2>1, <2>2, <3>1, <3>2
    <2>5. CASE RefuseRange(t)
        <3>1. \A b \in Backfills : job'[b] = IF b = c THEN Retried(job[c]) ELSE job[b]
            BY <2>1, <2>5 DEF RefuseRange, MarketTypeOK
        <3>2. Retried(job[c]).state \in {"waiting", "active"}
                  => Retried(job[c]).attemptsMade < MaxAttempts
            BY DEF Retried
        <3> HIDE DEF c, Holds, Held, Left
        <3> QED
            BY <1>b, <2>1, <2>2, <3>1, <3>2
    <2> QED
        BY <1>2, <2>4, <2>5
<1>3. ASSUME NEW t \in Tasks, TaskFails(t)
      PROVE  /\ \A u \in Tasks, b \in Backfills : Held(u, b)'
             /\ \A b \in Backfills : Left(b)'
    <2>1. \A u \in Tasks, b \in Backfills : Holds(u, b)' => Holds(u, b) /\ u # t
        BY <1>3 DEF TaskFails, MarketTypeOK, IdleTask
    <2>2. CASE task[t].kind # "history"
        BY <1>3, <1>s, <2>1, <2>2 DEF TaskFails
    <2>3. CASE task[t].kind = "history"
        <3> DEFINE c == task[t].backfill
        <3>1. c \in Backfills /\ Holds(t, c)
            BY <2>3 DEF TasksAreWhole, TaskIsWhole, MarketTypeOK, TaskShapes
        <3>2. job[c] \in Tries /\ job[c].attemptsMade < MaxAttempts
            BY <1>0, <3>1 DEF MarketTypeOK
        <3>3. PICK new \in {Retried(job[c]), [job[c] EXCEPT !.state = "waiting"]} :
                  job' = [job EXCEPT ![c] = new]
            BY <1>3, <2>3 DEF TaskFails
        <3>4. \A b \in Backfills : job'[b] = IF b = c THEN new ELSE job[b]
            BY <3>1, <3>3 DEF MarketTypeOK
        <3>5. new.state \in {"waiting", "active"} => new.attemptsMade < MaxAttempts
            BY <3>2 DEF Retried, Tries
        <3> HIDE DEF c, Holds, Held, Left
        <3> QED
            BY <1>b, <2>1, <3>1, <3>4, <3>5
    <2> QED
        BY <2>2, <2>3
<1>4. ASSUME NEW c \in Backfills, RequestBackfill(c) \/ ForgetJob(c)
      PROVE  /\ \A u \in Tasks, b \in Backfills : Held(u, b)'
             /\ \A b \in Backfills : Left(b)'
    <2>1. \A u \in Tasks, b \in Backfills : Holds(u, b)' => Holds(u, b)
        BY <1>4 DEF RequestBackfill, ForgetJob
    <2>2. \A b \in Backfills : job'[b] = IF b = c THEN job'[c] ELSE job[b]
        BY <1>4 DEF RequestBackfill, ForgetJob, MarketTypeOK
    <2>3. job[c].state # "active"
        BY <1>4 DEF RequestBackfill, ForgetJob, NoJob
    <2>4. job'[c].state \in {"waiting", "active"} => job'[c].attemptsMade < MaxAttempts
        BY <1>4, MarketAssumption DEF RequestBackfill, ForgetJob, NoJob, MarketTypeOK
    <2> HIDE DEF Holds, Held, Left
    <2> QED
        BY <1>j, <2>1, <2>2, <2>3, <2>4
<1>5. ASSUME NEW t \in Tasks,
             \/ \E kind \in {"spot", "fx"} : StartSync(t, kind)
             \/ FetchAnswered(t) \/ FetchMissed(t) \/ StoreQuote(t) \/ EndSync(t)
             \/ ReadGaps(t) \/ EndRange(t) \/ Forget(t)
      PROVE  /\ \A u \in Tasks, b \in Backfills : Held(u, b)'
             /\ \A b \in Backfills : Left(b)'
    <2>1. \A u \in Tasks, b \in Backfills : Holds(u, b)' => Holds(u, b)
        <3>1. ASSUME NEW u \in Tasks
              PROVE  \/ task'[u].kind # "history"
                     \/ task'[u].kind = task[u].kind /\ task'[u].backfill = task[u].backfill
            <4>0. task[u] \in TaskShapes
                BY DEF MarketTypeOK
            <4>1. CASE \E kind \in {"spot", "fx"} : StartSync(t, kind)
                BY <4>0, <4>1 DEF StartSync, IdleTask, MarketTypeOK
            <4>2. CASE FetchAnswered(t) \/ StoreQuote(t) \/ EndRange(t)
                BY <4>0, <4>2 DEF FetchAnswered, StoreQuote, EndRange, MarketTypeOK, TaskShapes
            <4>3. CASE FetchMissed(t) \/ EndSync(t) \/ Forget(t)
                <5>1. \/ task'[u] = IdleTask
                      \/ task'[u].kind = task[u].kind /\ task'[u].backfill = task[u].backfill
                    BY <4>0, <4>3 DEF FetchMissed, EndSync, Forget, MarketTypeOK, TaskShapes
                <5> QED
                    BY <5>1 DEF IdleTask
            <4>4. CASE ReadGaps(t)
                BY <4>0, <4>4 DEF ReadGaps, MarketTypeOK, TaskShapes
            <4> QED
                BY <1>5, <4>1, <4>2, <4>3, <4>4
        <3> QED
            BY <3>1
    <2>2. job' = job
        BY <1>5 DEF StartSync, FetchAnswered, FetchMissed, StoreQuote, EndSync, ReadGaps, EndRange,
            Forget
    <2> QED
        BY <1>s, <2>1, <2>2
<1>6. ASSUME NEW t \in Tasks, FetchRange(t)
      PROVE  /\ \A u \in Tasks, b \in Backfills : Held(u, b)'
             /\ \A b \in Backfills : Left(b)'
    <2>1. \A u \in Tasks, b \in Backfills : Holds(u, b)' => Holds(u, b)
        BY <1>6 DEF FetchRange, MarketTypeOK, TaskShapes
    <2> QED
        BY <1>6, <1>s, <2>1 DEF FetchRange
<1>7. ASSUME task' = task, job' = job
      PROVE  /\ \A u \in Tasks, b \in Backfills : Held(u, b)'
             /\ \A b \in Backfills : Left(b)'
    BY <1>7, <1>s
<1> HIDE DEF Holds, Held, Left
<1> QED
    BY <1>1, <1>2, <1>3, <1>4, <1>5, <1>6, <1>7
    DEF MarketNext, TaskStep, SchedulerStep, RecordManual, Tick, rest,
        StartScheduler, RemoveRepeatable, AddRepeatable, Installed, StopScheduler, others

\* Every day a backfill set out to fill stays accounted for: no range is dropped
\* and no quote is lost between what is asked for and what is stored.
LEMMA GapsStayAccountedFor ==
    ASSUME MarketTypeOK, TasksAreWhole, GapsAreAccountedFor, MarketNext
    PROVE  GapsAreAccountedFor'
<1> SUFFICES ASSUME NEW u \in Tasks, NEW b \in Backfills, task'[u].kind = "history",
                    task'[u].phase \in {"range", "store"}, task'[u].backfill = b,
                    NEW d \in MissingDays(b)'
             PROVE  \/ d \in task'[u].absent
                    \/ \E r \in task'[u].ranges : d \in r[1]..r[2]
                    \/ \E q \in task'[u].left : q.at = d /\ q.series = b.metal
    BY DEF GapsAreAccountedFor
<1> DEFINE Goal == \/ d \in task'[u].absent
                   \/ \E r \in task'[u].ranges : d \in r[1]..r[2]
                   \/ \E q \in task'[u].left : q.at = d /\ q.series = b.metal
<1>0. TaskIsWhole(u) /\ task[u] \in TaskShapes
    BY DEF MarketTypeOK, TasksAreWhole
<1>m. d \in MissingDays(b) /\ d \in b.from..b.to
    BY BookGrows DEF MissingDays, Covered
<1>g. ASSUME task[u].kind = "history", task[u].phase \in {"range", "store"}, task[u].backfill = b
      PROVE  \/ d \in task[u].absent
             \/ \E r \in task[u].ranges : d \in r[1]..r[2]
             \/ \E q \in task[u].left : q.at = d /\ q.series = b.metal
    BY <1>m, <1>g DEF GapsAreAccountedFor
<1>s. ASSUME task[u].kind = "history", task[u].phase \in {"range", "store"}, task[u].backfill = b,
             task'[u].absent = task[u].absent, task'[u].ranges = task[u].ranges,
             task'[u].left = task[u].left
      PROVE  Goal
    BY <1>g, <1>s
<1>1. ASSUME NEW t \in Tasks, ReadGaps(t)
      PROVE  Goal
    <2>1. CASE u = t
        <3> DEFINE missing == MissingDays(task[t].backfill)
        <3>1. task' = [task EXCEPT ![t].phase = "range", ![t].missing = missing,
                                   ![t].ranges = ContiguousRanges(missing)]
            BY <1>1 DEF ReadGaps
        <3>2. task[t].backfill = b
            BY <1>0, <1>1, <2>1, <3>1 DEF MarketTypeOK, TaskShapes, ReadGaps
        <3>3. missing \in SUBSET (0..b.to) /\ b.to \in Nat /\ d \in missing
            BY <1>m, <3>2, MarketAssumption DEF MissingDays
        <3> HIDE DEF missing
        <3>4. task'[u].ranges = ContiguousRanges(missing)
            BY <1>0, <2>1, <3>1 DEF MarketTypeOK, TaskShapes
        <3> QED
            BY <3>3, <3>4, RunsCoverTheDays
    <2>2. CASE u # t
        BY <1>1, <1>s, <2>2 DEF ReadGaps, MarketTypeOK
    <2> QED
        BY <2>1, <2>2
<1>2. ASSUME NEW t \in Tasks, FetchRange(t)
      PROVE  Goal
    <2>0. PICK r \in NextRanges(t), figure \in Levels : \E days \in SUBSET (r[1]..r[2]) :
              task' = [task EXCEPT ![t].phase = "store", ![t].ranges = @ \ {r},
                         ![t].left = [series : {task[t].backfill.metal}, at : days,
                                      figure : {figure}],
                         ![t].absent = @ \cup ((r[1]..r[2]) \ days)]
        BY <1>2 DEF FetchRange
    <2>1. PICK days \in SUBSET (r[1]..r[2]) :
              task' = [task EXCEPT ![t].phase = "store", ![t].ranges = @ \ {r},
                         ![t].left = [series : {task[t].backfill.metal}, at : days,
                                      figure : {figure}],
                         ![t].absent = @ \cup ((r[1]..r[2]) \ days)]
        BY <2>0
    <2>2. CASE u = t
        <3> DEFINE left == [series : {task[t].backfill.metal}, at : days, figure : {figure}]
                   absent == (r[1]..r[2]) \ days
        <3>1. task[u].kind = "history" /\ task[u].phase = "range" /\ task[u].left = {}
            BY <1>0, <1>2, <2>2 DEF FetchRange, TaskIsWhole
        <3>2. task' = [task EXCEPT ![t].phase = "store", ![t].ranges = @ \ {r}, ![t].left = left,
                                   ![t].absent = @ \cup absent]
            BY <2>1
        <3> HIDE DEF left, absent
        <3>3. /\ task'[u].left = left /\ task'[u].absent = task[u].absent \cup absent
              /\ task'[u].ranges = task[u].ranges \ {r} /\ task[u].backfill = b
            BY <1>0, <2>2, <3>2 DEF MarketTypeOK, TaskShapes
        <3>4. CASE d \in task[u].absent
            BY <3>3, <3>4
        <3>5. CASE \E s \in task[u].ranges : d \in s[1]..s[2] /\ s # r
            BY <3>3, <3>5
        <3>6. CASE d \in (r[1]..r[2]) /\ d \notin days
            BY <3>3, <3>6 DEF absent
        <3>7. CASE d \in days
            <4>1. [series |-> b.metal, at |-> d, figure |-> figure] \in left
                BY <2>2, <3>3, <3>7 DEF left
            <4> QED
                BY <3>3, <4>1
        <3> QED
            BY <1>g, <3>1, <3>3, <3>4, <3>5, <3>6, <3>7
    <2>3. CASE u # t
        BY <1>s, <2>1, <2>3 DEF MarketTypeOK
    <2> QED
        BY <2>2, <2>3
<1>3. ASSUME NEW t \in Tasks, StoreQuote(t)
      PROVE  Goal
    <2>1. PICK q \in task[t].left : /\ book' = Created(EntryOf(q), RowOf(q, Provider(t)))
                                    /\ task' = [task EXCEPT ![t].left = @ \ {q}]
        BY <1>3 DEF StoreQuote
    <2>2. CASE u = t
        <3>1. /\ task'[u].kind = task[u].kind /\ task'[u].phase = task[u].phase
              /\ task'[u].backfill = task[u].backfill /\ task'[u].absent = task[u].absent
              /\ task'[u].ranges = task[u].ranges /\ task'[u].left = task[u].left \ {q}
            BY <1>0, <2>1, <2>2 DEF MarketTypeOK, TaskShapes
        <3>2. EntryOf(q) \in DOMAIN book'
            BY <2>1 DEF Created, With
        <3>3. ASSUME q.at = d, q.series = b.metal PROVE FALSE
            <4>1. d <= now
                BY <1>m, MarketAssumption DEF MarketTypeOK
            <4>2. NotAfterNow(d) = d
                BY <1>m, <4>1, MarketAssumption DEF NotAfterNow, MarketTypeOK
            <4>3. EntryOf(q) = [series |-> b.metal, at |-> d, source |-> "SPOT"]
                BY <3>3, <4>2 DEF EntryOf
            <4>4. Covered(b.metal, d)'
                BY <3>2, <4>3 DEF Covered
            <4> QED
                BY <4>4 DEF MissingDays
        <3> QED
            BY <1>g, <3>1, <3>3
    <2>3. CASE u # t
        BY <1>s, <2>1, <2>3 DEF MarketTypeOK
    <2> QED
        BY <2>2, <2>3
<1>4. ASSUME NEW t \in Tasks, EndRange(t)
      PROVE  Goal
    BY <1>0, <1>4, <1>s DEF EndRange, MarketTypeOK, TaskShapes
<1>5. ASSUME NEW t \in Tasks,
             \/ \E kind \in {"spot", "fx"} : StartSync(t, kind)
             \/ \E c \in Backfills : TakeBackfill(t, c)
             \/ FetchAnswered(t) \/ FetchMissed(t) \/ EndSync(t) \/ EndBackfill(t)
             \/ RefuseRange(t) \/ Forget(t) \/ TaskFails(t)
      PROVE  Goal
    <2>0. task[t] \in TaskShapes /\ TaskIsWhole(t)
        BY DEF MarketTypeOK, TasksAreWhole
    <2>1. CASE u = t /\ \E kind \in {"spot", "fx"} : StartSync(t, kind)
        BY <2>1 DEF StartSync, IdleTask, MarketTypeOK
    <2>2. CASE u = t /\ \E c \in Backfills : TakeBackfill(t, c)
        BY <2>2 DEF TakeBackfill, IdleTask, MarketTypeOK
    <2>3. CASE u = t /\ FetchAnswered(t)
        BY <2>0, <2>3 DEF FetchAnswered, MarketTypeOK, TaskShapes, TaskIsWhole
    <2>4. CASE u = t /\ FetchMissed(t)
        <3>1. task'[u] = IdleTask \/ task'[u].phase = "fetch"
            BY <2>0, <2>4 DEF FetchMissed, MarketTypeOK, TaskShapes
        <3> QED
            BY <3>1 DEF IdleTask
    <2>5. CASE u = t /\ (EndSync(t) \/ EndBackfill(t) \/ RefuseRange(t) \/ Forget(t) \/ TaskFails(t))
        BY <2>5 DEF EndSync, EndBackfill, RefuseRange, Forget, TaskFails, IdleTask, MarketTypeOK
    <2>6. CASE u # t
        <3>1. task'[u] = task[u]
            BY <1>5, <2>6 DEF StartSync, TakeBackfill, FetchAnswered, FetchMissed, EndSync,
                EndBackfill, RefuseRange, Forget, TaskFails, MarketTypeOK
        <3> QED
            BY <1>s, <3>1
    <2> QED
        BY <1>5, <2>1, <2>2, <2>3, <2>4, <2>5, <2>6
<1>6. ASSUME task' = task
      PROVE  Goal
    BY <1>6, <1>s
<1> HIDE DEF Goal
<1>7. Goal
    BY <1>1, <1>2, <1>3, <1>4, <1>5, <1>6
    DEF MarketNext, TaskStep, SchedulerStep, RecordManual, RequestBackfill, ForgetJob, Tick, rest,
        StartScheduler, RemoveRepeatable, AddRepeatable, Installed, StopScheduler, others
<1> QED
    BY <1>7 DEF Goal

-----------------------------------------------------------------------------
(* Prices and the schedule *)

\* A row is dated by the clock as it is stored, and the clock goes on.
LEMMA NothingIsDatedAhead ==
    ASSUME MarketTypeOK, TasksAreWhole, ScheduleIsAccountedFor, NoPriceFromTheFuture, MarketNext
    PROVE  NoPriceFromTheFuture'
<1> DEFINE Sound(e) == e.at <= now + (IF book[e].by = Manual THEN Skew ELSE 0)
<1>0. now \in Nat /\ now' \in Nat /\ now <= now' /\ Skew \in Nat
    BY TheRestIsTyped, MarketAssumption DEF MarketTypeOK
<1>1. ASSUME book' = book
      PROVE  NoPriceFromTheFuture'
    <2>1. \A e \in DOMAIN book : e.at \in Nat
        BY MarketAssumption DEF MarketTypeOK, Entries, Days
    <2> QED
        BY <1>0, <1>1, <2>1 DEF NoPriceFromTheFuture
<1>2. ASSUME NEW t \in Tasks, StoreQuote(t)
      PROVE  NoPriceFromTheFuture'
    <2>1. PICK q \in task[t].left : book' = Created(EntryOf(q), RowOf(q, Provider(t)))
        BY <1>2 DEF StoreQuote
    <2>2. q.at \in Nat /\ now' = now
        BY <1>2, MarketAssumption DEF StoreQuote, rest, MarketTypeOK, TaskShapes, Quotes, Days
    <2>3. EntryOf(q).at <= now
        BY <1>0, <2>2 DEF EntryOf, NotAfterNow
    <2>4. EntryOf(q).at \in Nat
        BY <1>0, <2>2 DEF EntryOf, NotAfterNow
    <2> DEFINE en == EntryOf(q)
               row == RowOf(q, Provider(t))
    <2> HIDE DEF en, row
    <2>5. \A e \in DOMAIN book' : e = en \/ (e \in DOMAIN book /\ book'[e] = book[e])
        BY <2>1 DEF Created, With, en, row
    <2> SUFFICES ASSUME NEW e \in DOMAIN book' PROVE Sound(e)'
        BY DEF NoPriceFromTheFuture
    <2>6. CASE e = en
        BY <1>0, <2>2, <2>3, <2>4, <2>6 DEF en
    <2>7. CASE e \in DOMAIN book /\ book'[e] = book[e]
        BY <2>2, <2>7 DEF NoPriceFromTheFuture
    <2> QED
        BY <2>5, <2>6, <2>7
<1>3. ASSUME NEW m \in Metals, NEW r \in Entered, NEW f \in Levels,
             RecordManual(m, r.at, r.source, f)
      PROVE  NoPriceFromTheFuture'
    <2> DEFINE en == [series |-> m, at |-> r.at, source |-> r.source]
               row == [by |-> Manual, figure |-> f]
    <2>1. book' = With(en, row) /\ r.at <= now + Skew /\ now' = now
        BY <1>3 DEF RecordManual, rest
    <2>2. en.at = r.at /\ row.by = Manual
        OBVIOUS
    <2> HIDE DEF en, row
    <2>3. \A e \in DOMAIN book' : \/ e = en /\ book'[e] = row
                                  \/ e \in DOMAIN book /\ book'[e] = book[e]
        BY <2>1 DEF With
    <2> SUFFICES ASSUME NEW e \in DOMAIN book' PROVE Sound(e)'
        BY DEF NoPriceFromTheFuture
    <2>4. CASE e = en /\ book'[e] = row
        BY <2>1, <2>2, <2>4
    <2>5. CASE e \in DOMAIN book /\ book'[e] = book[e]
        BY <2>1, <2>5 DEF NoPriceFromTheFuture
    <2> QED
        BY <2>3, <2>4, <2>5
<1> QED
    BY <1>1, <1>2, <1>3
    DEF MarketNext, TaskStep, SchedulerStep, StartSync, FetchAnswered, FetchMissed, EndSync,
        RequestBackfill, TakeBackfill, ReadGaps, FetchRange, EndRange, EndBackfill, RefuseRange,
        Forget, TaskFails, ForgetJob, Tick, StartScheduler, RemoveRepeatable, AddRepeatable,
        Installed, StopScheduler, others

\* An installation removes what it found and then adds what is missing, whatever
\* an earlier one left half done.
LEMMA ScheduleStaysAccountedFor ==
    ASSUME MarketTypeOK, ScheduleIsAccountedFor, OneCadencePerJob, MarketNext
    PROVE  ScheduleIsAccountedFor' /\ OneCadencePerJob'
<1>1. CASE \E c \in Cadences : StartScheduler(c)
    BY <1>1 DEF StartScheduler, Stale, ScheduleIsAccountedFor, OneCadencePerJob
<1>2. CASE RemoveRepeatable
    <2>1. PICK r \in scheduler.doomed : /\ repeats' = repeats \ {r}
                                        /\ scheduler' = [scheduler EXCEPT !.doomed = @ \ {r}]
        BY <1>2 DEF RemoveRepeatable
    <2>2. /\ scheduler'.phase = "installing" /\ scheduler'.cadence = scheduler.cadence
          /\ scheduler'.todo = scheduler.todo /\ scheduler'.doomed = scheduler.doomed \ {r}
        BY <1>2, <2>1 DEF RemoveRepeatable, MarketTypeOK
    <2>3. scheduler.todo = Repeatables /\ repeats = scheduler.doomed
        BY <1>2, <2>1 DEF RemoveRepeatable, ScheduleIsAccountedFor
    <2> QED
        BY <1>2, <2>1, <2>2, <2>3 DEF RemoveRepeatable, ScheduleIsAccountedFor, OneCadencePerJob
<1>3. CASE AddRepeatable
    <2>1. PICK j \in scheduler.todo : /\ repeats' = repeats \cup {<<j, scheduler.cadence>>}
                                      /\ scheduler' = [scheduler EXCEPT !.todo = @ \ {j}]
        BY <1>3 DEF AddRepeatable
    <2>2. /\ scheduler'.phase = "installing" /\ scheduler'.cadence = scheduler.cadence
          /\ scheduler'.todo = scheduler.todo \ {j} /\ scheduler'.doomed = {} /\ j \in Repeatables
        BY <1>3, <2>1 DEF AddRepeatable, MarketTypeOK
    <2>3. repeats = (Repeatables \ scheduler.todo) \X {scheduler.cadence}
        BY <1>3 DEF AddRepeatable, ScheduleIsAccountedFor
    <2>4. (Repeatables \ (scheduler.todo \ {j})) = (Repeatables \ scheduler.todo) \cup {j}
        BY <2>1, <2>2
    <2>5. repeats' = (Repeatables \ scheduler'.todo) \X {scheduler.cadence}
        BY <2>1, <2>2, <2>3, <2>4
    <2> QED
        BY <1>3, <2>2, <2>5 DEF AddRepeatable, ScheduleIsAccountedFor, OneCadencePerJob
<1>4. CASE Installed
    BY <1>4 DEF Installed, ScheduleIsAccountedFor, OneCadencePerJob, MarketTypeOK
<1>5. CASE StopScheduler
    BY <1>5 DEF StopScheduler, Down, ScheduleIsAccountedFor, OneCadencePerJob
<1>6. CASE UNCHANGED <<repeats, scheduler>>
    BY <1>6 DEF ScheduleIsAccountedFor, OneCadencePerJob
<1> QED
    BY <1>1, <1>2, <1>3, <1>4, <1>5, <1>6
    DEF MarketNext, TaskStep, SchedulerStep, RecordManual, RequestBackfill, ForgetJob, TakeBackfill, rest,
        StartSync, FetchAnswered, FetchMissed, StoreQuote, EndSync, ReadGaps, FetchRange,
        EndRange, EndBackfill, RefuseRange, Forget, TaskFails, Tick

-----------------------------------------------------------------------------
(* The theorems *)

\* Nothing changes but by a step.
LEMMA NothingMoves ==
    ASSUME PricesAreSound, UNCHANGED marketVars
    PROVE  PricesAreSound'
<1> USE DEF marketVars
<1>1. MarketTypeOK'
    BY DEF PricesAreSound, MarketTypeOK
<1>2. TasksAreWhole' /\ NoPriceFromTheFuture'
    BY DEF PricesAreSound, TasksAreWhole, TaskIsWhole, NoPriceFromTheFuture
<1>3. BackfillsAreHeldOnce' /\ BackfillsFetchOnlyGaps'
    BY DEF PricesAreSound, BackfillsAreHeldOnce, BackfillsFetchOnlyGaps
<1>4. GapsAreAccountedFor'
    BY DEF PricesAreSound, GapsAreAccountedFor, MissingDays, Covered
<1>5. ScheduleIsAccountedFor' /\ OneCadencePerJob'
    BY DEF PricesAreSound, ScheduleIsAccountedFor, OneCadencePerJob
<1> QED
    BY <1>1, <1>2, <1>3, <1>4, <1>5 DEF PricesAreSound

\* No price is dated ahead of the clock, no two workers have the same backfill,
\* a backfill asks for days that are missing and for all of them, and the jobs
\* of the schedule have one cadence each (market-prices.service.ts,
\* price-queue.service.ts).
THEOREM PricesStaySound == MarketSpec => []PricesAreSound
<1>1. MarketInit => PricesAreSound
    <2> SUFFICES ASSUME MarketInit PROVE PricesAreSound
        OBVIOUS
    <2>0. IdleTask \in TaskShapes /\ IdleTask.kind = "none" /\ IdleTask.phase = "idle"
        BY DEF IdleTask, TaskShapes, NoBackfill
    <2>1. task = [t \in Tasks |-> IdleTask] /\ job = [b \in Backfills |-> NoJob]
        BY DEF MarketInit
    <2>2. NoJob \in Tries /\ NoJob.state = "none"
        BY MarketAssumption DEF NoJob, Tries
    <2>3. DOMAIN book = {} /\ book \in [{} -> BookRows]
        BY DEF MarketInit
    <2>4. scheduler = Down /\ repeats = {} /\ now = Start /\ faults = 0
        BY DEF MarketInit
    <2>5. MarketTypeOK
        BY <2>0, <2>1, <2>2, <2>3, <2>4, MarketAssumption DEF MarketTypeOK, Down
    <2>6. TasksAreWhole
        BY <2>0, <2>1 DEF TasksAreWhole, TaskIsWhole
    <2>7. BackfillsAreHeldOnce /\ BackfillsFetchOnlyGaps /\ GapsAreAccountedFor
        BY <2>0, <2>1, <2>2 DEF BackfillsAreHeldOnce, BackfillsFetchOnlyGaps, GapsAreAccountedFor
    <2>8. NoPriceFromTheFuture /\ ScheduleIsAccountedFor /\ OneCadencePerJob
        BY <2>3, <2>4 DEF NoPriceFromTheFuture, ScheduleIsAccountedFor, OneCadencePerJob, Down
    <2> QED
        BY <2>5, <2>6, <2>7, <2>8 DEF PricesAreSound
<1>2. PricesAreSound /\ [MarketNext]_marketVars => PricesAreSound'
    <2> SUFFICES ASSUME PricesAreSound, [MarketNext]_marketVars PROVE PricesAreSound'
        OBVIOUS
    <2>1. CASE MarketNext
        <3>1. MarketTypeOK'
            BY <2>1, BookIsTyped, TasksAreTyped, JobsAreTyped, TheRestIsTyped
            DEF PricesAreSound, MarketTypeOK
        <3>2. TasksAreWhole' /\ BackfillsAreHeldOnce' /\ BackfillsFetchOnlyGaps'
            BY <2>1, TasksStayWhole, BackfillsStayHeldOnce, OnlyGapsAreFetched DEF PricesAreSound
        <3>3. GapsAreAccountedFor' /\ NoPriceFromTheFuture'
            BY <2>1, GapsStayAccountedFor, NothingIsDatedAhead DEF PricesAreSound
        <3>4. ScheduleIsAccountedFor' /\ OneCadencePerJob'
            BY <2>1, ScheduleStaysAccountedFor DEF PricesAreSound
        <3> QED
            BY <3>1, <3>2, <3>3, <3>4 DEF PricesAreSound
    <2>2. CASE UNCHANGED marketVars
        BY <2>2, NothingMoves
    <2> QED
        BY <2>1, <2>2
<1> QED
    BY <1>1, <1>2, PTL DEF MarketSpec

\* When a backfill is said to be done, every day of its range has its price or
\* had none to be found, whatever the other workers and corrections did
\* meanwhile (backfillHistory).
THEOREM DoneBackfillsLeftNoGap == MarketSpec => CompletedBackfillsLeaveNoGap
<1> DEFINE Done(t) == task[t].phase = "range" /\ job'[task[t].backfill].state = "completed"
                      /\ job[task[t].backfill].state = "active" /\ task'[t] = IdleTask
<1>1. PricesAreSound /\ [MarketNext]_marketVars
        => [\A t \in Tasks :
              (task[t].phase = "range" /\ job'[task[t].backfill].state = "completed"
                /\ job[task[t].backfill].state = "active" /\ task'[t] = IdleTask)
              => MissingDays(task[t].backfill) \subseteq task[t].absent]_marketVars
    <2> SUFFICES ASSUME PricesAreSound, MarketNext, NEW t \in Tasks, Done(t)
                 PROVE  MissingDays(task[t].backfill) \subseteq task[t].absent
        OBVIOUS
    <2>0. task[t] \in TaskShapes /\ TaskIsWhole(t) /\ job \in [Backfills -> Tries]
        BY DEF PricesAreSound, MarketTypeOK, TasksAreWhole
    <2> DEFINE b == task[t].backfill
    <2>1. b \in Backfills /\ task[t].kind = "history" /\ task[t].left = {}
        BY <2>0 DEF TaskIsWhole, TaskShapes
    <2>2. job' # job /\ task'[t] # task[t]
        BY DEF IdleTask
    <2>3. ~TaskFails(t)
        <3> SUFFICES ASSUME TaskFails(t) PROVE FALSE
            OBVIOUS
        <3>1. PICK j \in {Retried(job[b]), [job[b] EXCEPT !.state = "waiting"]} :
                  job' = [job EXCEPT ![b] = j]
            BY <2>1 DEF TaskFails
        <3>2. j.state # "completed"
            BY <2>0, <2>1 DEF Retried, Tries
        <3> QED
            BY <2>0, <2>1, <3>1, <3>2
    <2>4. EndBackfill(t)
        <3>1. ASSUME NEW x \in Tasks, x # t,
                     \/ TaskStep(x) \/ TaskFails(x)
                     \/ \E kind \in {"spot", "fx"} : StartSync(x, kind)
              PROVE  task'[t] = task[t]
            BY <3>1 DEF TaskStep, StartSync, FetchAnswered, FetchMissed, StoreQuote, EndSync,
                TakeBackfill, ReadGaps, FetchRange, EndRange, EndBackfill, RefuseRange, Forget,
                TaskFails, PricesAreSound, MarketTypeOK
        <3>2. /\ ~FetchAnswered(t) /\ ~FetchMissed(t) /\ ~StoreQuote(t) /\ ~EndSync(t)
              /\ ~ReadGaps(t) /\ ~EndRange(t) /\ ~Forget(t)
              /\ \A c \in Backfills : ~TakeBackfill(t, c)
              /\ \A kind \in {"spot", "fx"} : ~StartSync(t, kind)
            <4>1. task[t].phase = "range" /\ task[t] # IdleTask
                BY DEF IdleTask
            <4> HIDE DEF Done
            <4>2. /\ ~FetchAnswered(t) /\ ~FetchMissed(t) /\ ~StoreQuote(t) /\ ~EndSync(t)
                  /\ ~ReadGaps(t) /\ ~EndRange(t) /\ ~Forget(t)
                BY <4>1 DEF FetchAnswered, FetchMissed, StoreQuote, EndSync, ReadGaps, EndRange,
                    Forget
            <4> QED
                BY <4>1, <4>2 DEF TakeBackfill, StartSync
        <3>3. ~RefuseRange(t)
            BY DEF RefuseRange, IdleTask, PricesAreSound, MarketTypeOK
        <3>4. ~FetchRange(t)
            BY <2>2 DEF FetchRange
        <3>5. task' # task
            BY <2>2
        <3> QED
            BY <2>2, <2>3, <3>1, <3>2, <3>3, <3>4, <3>5
            DEF MarketNext, TaskStep, SchedulerStep, RecordManual, RequestBackfill, ForgetJob, Tick, rest,
                StartScheduler, RemoveRepeatable, AddRepeatable, Installed, StopScheduler, others
    <2>5. task[t].ranges = {}
        BY <2>4 DEF EndBackfill
    <2> QED
        BY <2>1, <2>5 DEF PricesAreSound, GapsAreAccountedFor
<1> QED
    BY <1>1, PricesStaySound, PTL DEF MarketSpec, CompletedBackfillsLeaveNoGap

\* The stored prices implement a book in which an entry changes by hand only:
\* no sync and no backfill rewrites what is there (storeQuote, recordManualPrice).
THEOREM PricesAreABook == MarketSpec => ImplementsPriceBook
<1>1. MarketInit => Book!Init
    BY DEF MarketInit, Book!Init
<1>2. PricesAreSound /\ [MarketNext]_marketVars => [Book!Next]_book
    <2> SUFFICES ASSUME PricesAreSound, MarketNext, book' # book PROVE Book!Next
        BY DEF marketVars
    <2> USE DEF PricesAreSound
    <2>1. ASSUME NEW t \in Tasks, StoreQuote(t)
          PROVE  Book!Next
        <3>1. PICK q \in task[t].left : book' = Created(EntryOf(q), RowOf(q, Provider(t)))
            BY <2>1 DEF StoreQuote
        <3>2. q \in Quotes
            BY <3>1 DEF MarketTypeOK, TaskShapes
        <3>3. NotAfterNow(q.at) \in Days
            BY <3>2, MarketAssumption DEF Quotes, NotAfterNow, Days, MarketTypeOK
        <3>4. EntryOf(q) \in Entries
            BY <3>2, <3>3 DEF EntryOf, Entries, Quotes
        <3>5. RowOf(q, Provider(t)) \in BookRows
            BY <2>1, <3>2, SomeoneIsAsked DEF StoreQuote, TasksAreWhole, TaskIsWhole, RowOf, BookRows,
                Quotes
        <3>6. Book!Publish(EntryOf(q), RowOf(q, Provider(t)))
            BY <3>1 DEF Created, With, Book!Publish
        <3> QED
            BY <3>4, <3>5, <3>6 DEF Book!Next
    <2>2. ASSUME NEW m \in Metals, NEW r \in Entered, NEW f \in Levels,
                 RecordManual(m, r.at, r.source, f)
          PROVE  Book!Next
        <3> DEFINE en == [series |-> m, at |-> r.at, source |-> r.source]
                   row == [by |-> Manual, figure |-> f]
        <3>1. r.at \in Days
            BY <2>2, EnteredIsDated, MarketAssumption DEF RecordManual, Days, MarketTypeOK
        <3>2. en \in Entries /\ row \in BookRows /\ HandMade(row)
            BY <3>1, EnteredIsDated DEF Entries, Series, BookRows, HandMade
        <3>3. book' = With(en, row)
            BY <2>2 DEF RecordManual
        <3> HIDE DEF en, row
        <3>4. Book!Publish(en, row) \/ Book!Correct(en, row)
            BY <3>2, <3>3 DEF With, Book!Publish, Book!Correct, MarketTypeOK
        <3> QED
            BY <3>2, <3>4 DEF Book!Next
    <2> QED
        BY <2>1, <2>2 DEF MarketNext, TaskStep, SchedulerStep, StartSync, FetchAnswered, FetchMissed,
            EndSync, RequestBackfill, TakeBackfill, ReadGaps, FetchRange, EndRange, EndBackfill,
            RefuseRange, Forget, TaskFails, ForgetJob, Tick, StartScheduler, RemoveRepeatable,
            AddRepeatable, Installed, StopScheduler, others
<1> QED
    BY <1>1, <1>2, PricesStaySound, PTL DEF MarketSpec, ImplementsPriceBook, Book!Spec
=============================================================================
