--------------------------- MODULE MarketPrices ----------------------------
(***************************************************************************)
(* Market data: the worker's syncs and backfills, the manual prices and    *)
(* the schedule that keeps them coming.  Providers are tried in order and  *)
(* fail over; quotes are stored one by one under a unique key; a backfill  *)
(* fetches the days that are missing.  Time is counted in days.            *)
(***************************************************************************)
EXTENDS Integers, Sequences

CONSTANTS
    Metals,             \* metals with spot quotes
    Fx,                 \* the FX pair, stored like a metal of its own
    Levels,             \* bound: prices that can be quoted
    SpotOrder, FxOrder, HistoryOrder,
                        \* providers with each capability, the primary first
    Tasks,              \* bound: jobs and requests under way at once
    Start, MaxTime,     \* bound: the first and the last day of a behaviour
    Skew,               \* MANUAL_PRICE_MAX_FUTURE_MS
    MaxHistoryDays,     \* MAX_HISTORY_DAYS, in the provider and in its callers
    Backfills,          \* bound: [metal, from, to], the backfills asked for
    MaxAttempts,        \* attempts of BACKFILL_JOB_OPTIONS
    Repeatables,        \* the jobs of the schedule
    Cadences,           \* bound: the intervals the schedule is configured with
    MaxFaults,          \* bound: statements that fail, processes that stop
    Entered,            \* bound: [at, source], what is entered by hand
    Scenarios           \* bound: what a behaviour is about, of "sync", "backfill", "schedule"

Series == Metals \cup {Fx}
Order == [spot |-> SpotOrder, fx |-> FxOrder, history |-> HistoryOrder]
Manual == "manual"
Providers == UNION {{Order[kind][i] : i \in DOMAIN Order[kind]} : kind \in DOMAIN Order}
Days == 0..(MaxTime + Skew)

\* What a backfill may ask for: backfillDaysFromEnv and the controller's check.
ASSUME MarketAssumption ==
    /\ Start \in Nat /\ MaxTime \in Nat /\ Start <= MaxTime /\ Skew \in Nat
    /\ MaxHistoryDays \in Nat \ {0} /\ MaxAttempts \in Nat \ {0}
    /\ Manual \notin Providers /\ Fx \notin Metals
    /\ \A b \in Backfills : /\ b.metal \in Metals /\ b.from \in Nat /\ b.to \in Nat
                            /\ b.from <= b.to /\ b.to <= Start
                            /\ b.to - b.from <= MaxHistoryDays

\* The registry's adapters: each capability has one at least.
ASSUME SomeoneProvides ==
    \A kind \in DOMAIN Order : Order[kind] \in Seq(Providers) /\ Order[kind] # <<>>

\* The fields of a price entered by hand, as the controller validates them.
ASSUME EnteredIsDated == \A r \in Entered : r.at \in Nat /\ r.source \in {"SPOT", "MANUAL"}

\* SpotPriceSnapshot and FxRateSnapshot rows, by their unique key.
Entries == [series : Series, at : Days, source : {"SPOT", "MANUAL"}]
BookRows == [by : Providers \cup {Manual}, figure : Levels]

VARIABLES
    book,       \* the rows stored so far, a function on some Entries
    task,       \* what is under way
    job,        \* the backfill jobs of the queue
    now,
    repeats,    \* the repeatable jobs Redis holds, each with its cadence
    scheduler,  \* the scheduler process
    faults,
    scenario

marketVars == <<book, task, job, now, repeats, scheduler, faults, scenario>>
rest == <<now, repeats, scheduler, scenario>>

Quotes == [series : Series, at : Days, figure : Levels]
NoBackfill == [metal |-> Fx, from |-> 0, to |-> 0]
IdleTask == [kind |-> "none", phase |-> "idle", next |-> 1, left |-> {},
         backfill |-> NoBackfill, ranges |-> {}, missing |-> {}, absent |-> {}]
NoJob == [state |-> "none", attemptsMade |-> 0]
Down == [phase |-> "down", cadence |-> 0, doomed |-> {}, todo |-> {}]

MarketInit ==
    /\ book = [e \in {} |-> {}]
    /\ task = [t \in Tasks |-> IdleTask] /\ job = [b \in Backfills |-> NoJob]
    /\ now = Start /\ repeats = {} /\ scheduler = Down /\ faults = 0
    /\ scenario \in Scenarios

-----------------------------------------------------------------------------
(* Providers *)

Provider(t) == Order[task[t].kind][task[t].next]

StartSync(t, kind) ==
    /\ scenario = "sync" \/ (scenario = "backfill" /\ kind = "spot")
    /\ task[t] = IdleTask
    /\ task' = [task EXCEPT ![t] = [IdleTask EXCEPT !.kind = kind, !.phase = "fetch"]]
    /\ UNCHANGED <<book, job, rest, faults>>

\* A quote may be dated today or, on an upstream's clock, tomorrow.
QuotesOf(series) ==
    {Q \in SUBSET [series : series, at : {now, now + 1} \cap Days, figure : Levels] :
        \A q, r \in Q : q.series = r.series => q = r}

\* The provider answers, if only for some of the metals asked for.
FetchAnswered(t) ==
    /\ task[t].phase = "fetch" /\ task[t].kind \in {"spot", "fx"}
    /\ \E Q \in QuotesOf(IF task[t].kind = "fx" THEN {Fx} ELSE Metals) \ {{}} :
          task' = [task EXCEPT ![t].phase = "store", ![t].left = Q]
    /\ UNCHANGED <<book, job, rest, faults>>

\* It throws, or returns no quotes: the next one is tried, if there is one.
FetchMissed(t) ==
    /\ task[t].phase = "fetch" /\ task[t].kind \in {"spot", "fx"}
    /\ IF task[t].next < Len(Order[task[t].kind])
       THEN task' = [task EXCEPT ![t].next = @ + 1]
       ELSE task' = [task EXCEPT ![t] = IdleTask]
    /\ UNCHANGED <<book, job, rest, faults>>

-----------------------------------------------------------------------------
(* Storing quotes *)

\* Fault: a quote keeps the date its provider gave it.
DatedAsQuoted(at) == at

\* notAfterNow.
NotAfterNow(at) == IF at > now THEN now ELSE at

EntryOf(q) == [series |-> q.series, at |-> NotAfterNow(q.at), source |-> "SPOT"]
RowOf(q, p) == [by |-> p, figure |-> q.figure]

With(e, row) == [x \in DOMAIN book \cup {e} |-> IF x = e THEN row ELSE book[x]]

\* Fault: the newest quote replaces the row.
Overwritten(e, row) == With(e, row)

\* create, whose unique violation means that the row is there.
Created(e, row) == IF e \in DOMAIN book THEN book ELSE With(e, row)

StoreQuote(t) ==
    /\ task[t].phase = "store"
    /\ \E q \in task[t].left :
          /\ book' = Created(EntryOf(q), RowOf(q, Provider(t)))
          /\ task' = [task EXCEPT ![t].left = @ \ {q}]
    /\ UNCHANGED <<job, rest, faults>>

EndSync(t) ==
    /\ task[t].phase = "store" /\ task[t].kind # "history" /\ task[t].left = {}
    /\ task' = [task EXCEPT ![t] = IdleTask]
    /\ UNCHANGED <<book, job, rest, faults>>

\* recordManualPrice: a price entered by hand, or corrected.
RecordManual(m, at, source, figure) ==
    /\ scenario # "schedule" /\ at <= now + Skew
    /\ book' = With([series |-> m, at |-> at, source |-> source],
                    [by |-> Manual, figure |-> figure])
    /\ UNCHANGED <<task, job, rest, faults>>

-----------------------------------------------------------------------------
(* Backfills *)

Covered(m, day) ==
    \E e \in DOMAIN book : e.series = m /\ e.at = day /\ e.source = "SPOT"

\* missingHistoryDays.
MissingDays(b) == {d \in b.from..b.to : ~Covered(b.metal, d)}

\* Fault: one range over all that is missing.
BridgedRanges(days) == {r \in days \X days : \A d \in days : r[1] <= d /\ d <= r[2]}

\* Fault: the last run is not pushed.
LastRangeLost(days) ==
    {r \in days \X days :
        /\ r[1] - 1 \notin days /\ r[2] + 1 \notin days /\ r[1]..r[2] \subseteq days
        /\ \E d \in days : d > r[2]}

\* contiguousRanges: the runs of consecutive days, first to last.
ContiguousRanges(days) ==
    {r \in days \X days :
        r[1] <= r[2] /\ r[1] - 1 \notin days /\ r[2] + 1 \notin days /\ r[1]..r[2] \subseteq days}

\* requestBackfill: one job per metal and range while the queue knows one.
RequestBackfill(b) ==
    /\ scenario = "backfill" /\ job[b] = NoJob
    /\ job' = [job EXCEPT ![b].state = "waiting"]
    /\ UNCHANGED <<book, task, rest, faults>>

TakeBackfill(t, b) ==
    /\ task[t] = IdleTask /\ job[b].state = "waiting"
    /\ job' = [job EXCEPT ![b].state = "active"]
    /\ task' = [task EXCEPT ![t] = [IdleTask EXCEPT !.kind = "history", !.phase = "gaps",
                                                !.backfill = b]]
    /\ UNCHANGED <<book, rest, faults>>

ReadGaps(t) ==
    LET missing == MissingDays(task[t].backfill)
    IN  /\ task[t].phase = "gaps"
        /\ task' = [task EXCEPT ![t].phase = "range", ![t].missing = missing,
                                ![t].ranges = ContiguousRanges(missing)]
        /\ UNCHANGED <<book, job, rest, faults>>

\* The loop goes through the runs from the first day on.
NextRanges(t) == {r \in task[t].ranges : \A q \in task[t].ranges : r[1] <= q[1]}

TooLong(r) == r[2] - r[1] >= MaxHistoryDays

\* fetchHistory asks for one day after another and leaves out those that fail.
FetchRange(t) ==
    /\ task[t].phase = "range"
    /\ \E r \in NextRanges(t), figure \in Levels :
          /\ ~TooLong(r)
          /\ \E days \in SUBSET (r[1]..r[2]) :
                task' = [task EXCEPT ![t].phase = "store", ![t].ranges = @ \ {r},
                           ![t].left = [series : {task[t].backfill.metal}, at : days,
                                        figure : {figure}],
                           ![t].absent = @ \cup ((r[1]..r[2]) \ days)]
    /\ UNCHANGED <<book, job, rest, faults>>

EndRange(t) ==
    /\ task[t].phase = "store" /\ task[t].kind = "history" /\ task[t].left = {}
    /\ task' = [task EXCEPT ![t].phase = "range"]
    /\ UNCHANGED <<book, job, rest, faults>>

EndBackfill(t) ==
    /\ task[t].phase = "range" /\ task[t].ranges = {}
    /\ job' = [job EXCEPT ![task[t].backfill].state = "completed"]
    /\ task' = [task EXCEPT ![t] = IdleTask]
    /\ UNCHANGED <<book, rest, faults>>

\* Fault: the attempts are not counted out.
RetriedForever(j) == [state |-> "waiting", attemptsMade |-> j.attemptsMade + 1]

\* Fault: the job is never given back.
KeptActive(j) == [j EXCEPT !.attemptsMade = @ + 1]

\* What BullMQ makes of a job whose handler threw.
Retried(j) ==
    [state |-> IF j.attemptsMade + 1 < MaxAttempts THEN "waiting" ELSE "failed",
     attemptsMade |-> j.attemptsMade + 1]

\* No provider serves the range: the adapter refuses one that is too long.
RefuseRange(t) ==
    /\ task[t].phase = "range" /\ \E r \in NextRanges(t) : TooLong(r)
    /\ job' = [job EXCEPT ![task[t].backfill] = Retried(@)]
    /\ task' = [task EXCEPT ![t] = [IdleTask EXCEPT !.phase = "refused"]]
    /\ UNCHANGED <<book, rest, faults>>

Forget(t) ==
    /\ task[t].phase = "refused"
    /\ task' = [task EXCEPT ![t] = IdleTask]
    /\ UNCHANGED <<book, job, rest, faults>>

\* A statement fails, or the worker stops: a backfill is retried or run again.
TaskFails(t) ==
    /\ task[t].phase \in {"gaps", "store", "range"} /\ faults < MaxFaults
    /\ faults' = faults + 1 /\ task' = [task EXCEPT ![t] = IdleTask]
    /\ IF task[t].kind # "history" THEN UNCHANGED job
       ELSE \E j \in {Retried(job[task[t].backfill]),
                      [job[task[t].backfill] EXCEPT !.state = "waiting"]} :
              job' = [job EXCEPT ![task[t].backfill] = j]
    /\ UNCHANGED <<book, rest>>

\* removeOnComplete and removeOnFail: later jobs push this one out.
ForgetJob(b) ==
    /\ job[b].state \in {"completed", "failed"}
    /\ job' = [job EXCEPT ![b] = NoJob]
    /\ UNCHANGED <<book, task, rest, faults>>

Tick ==
    /\ now < MaxTime /\ scenario = "sync" /\ now' = now + 1
    /\ UNCHANGED <<book, task, job, repeats, scheduler, faults, scenario>>

-----------------------------------------------------------------------------
(* The schedule *)

others == <<book, task, job, now, scenario>>

\* Fault: the old definitions stay.
NothingStale == {}

\* getRepeatableJobs: what is to be removed.
Stale == repeats

\* The scheduler starts, with the intervals it is configured with now.
StartScheduler(cadence) ==
    /\ scenario = "schedule" /\ scheduler = Down
    /\ scheduler' = [phase |-> "installing", cadence |-> cadence, doomed |-> Stale,
                     todo |-> Repeatables]
    /\ UNCHANGED <<others, repeats, faults>>

RemoveRepeatable ==
    /\ scheduler.phase = "installing"
    /\ \E r \in scheduler.doomed :
          /\ repeats' = repeats \ {r}
          /\ scheduler' = [scheduler EXCEPT !.doomed = @ \ {r}]
    /\ UNCHANGED <<others, faults>>

AddRepeatable ==
    /\ scheduler.phase = "installing" /\ scheduler.doomed = {}
    /\ \E j \in scheduler.todo :
          /\ repeats' = repeats \cup {<<j, scheduler.cadence>>}
          /\ scheduler' = [scheduler EXCEPT !.todo = @ \ {j}]
    /\ UNCHANGED <<others, faults>>

Installed ==
    /\ scheduler.phase = "installing" /\ scheduler.doomed = {} /\ scheduler.todo = {}
    /\ scheduler' = [scheduler EXCEPT !.phase = "up"]
    /\ UNCHANGED <<others, repeats, faults>>

\* The process stops: what it installed stays in Redis.
StopScheduler ==
    /\ scheduler # Down /\ faults < MaxFaults
    /\ scheduler' = Down /\ faults' = faults + 1
    /\ UNCHANGED <<others, repeats>>

-----------------------------------------------------------------------------
TaskStep(t) ==
    \/ FetchAnswered(t) \/ FetchMissed(t) \/ StoreQuote(t) \/ EndSync(t)
    \/ \E b \in Backfills : TakeBackfill(t, b)
    \/ ReadGaps(t) \/ FetchRange(t) \/ EndRange(t) \/ EndBackfill(t)
    \/ RefuseRange(t) \/ Forget(t)

SchedulerStep ==
    \/ \E c \in Cadences : StartScheduler(c)
    \/ RemoveRepeatable \/ AddRepeatable \/ Installed

MarketNext ==
    \/ \E t \in Tasks : \/ TaskStep(t) \/ TaskFails(t)
                        \/ \E kind \in {"spot", "fx"} : StartSync(t, kind)
    \/ \E m \in Metals, r \in Entered, f \in Levels : RecordManual(m, r.at, r.source, f)
    \/ \E b \in Backfills : RequestBackfill(b) \/ ForgetJob(b)
    \/ Tick \/ SchedulerStep \/ StopScheduler

MarketSpec == MarketInit /\ [][MarketNext]_marketVars

\* Workers take jobs in the order they were queued, so that a waiting one is not
\* passed over for ever, and go on with them; the scheduler is restarted.
MarketFairness ==
    /\ WF_marketVars(SchedulerStep)
    /\ \A t \in Tasks : WF_marketVars(TaskStep(t))
    /\ \A b \in Backfills : SF_marketVars(\E t \in Tasks : TakeBackfill(t, b))

FairMarketSpec == MarketSpec /\ MarketFairness

-----------------------------------------------------------------------------
(* Properties *)

Tries == [state : {"none", "waiting", "active", "completed", "failed"},
          attemptsMade : 0..MaxAttempts]

TaskShapes ==
    [kind : {"none", "spot", "fx", "history"},
     phase : {"idle", "fetch", "store", "gaps", "range", "refused"}, next : Nat,
     left : SUBSET Quotes, backfill : Backfills \cup {NoBackfill},
     ranges : SUBSET (Days \X Days), missing : SUBSET Days, absent : SUBSET Days]

MarketTypeOK ==
    /\ DOMAIN book \subseteq Entries /\ book \in [DOMAIN book -> BookRows]
    /\ task \in [Tasks -> TaskShapes] /\ job \in [Backfills -> Tries]
    /\ now \in Start..MaxTime /\ faults \in Nat /\ repeats \subseteq Repeatables \X Cadences
    /\ scheduler \in [phase : {"down", "installing", "up"}, cadence : Cadences \cup {0},
                      doomed : SUBSET (Repeatables \X Cadences), todo : SUBSET Repeatables]

\* A task is as far as its kind goes, with a provider to ask.
TaskIsWhole(t) ==
    /\ task[t].phase = "fetch" => task[t].kind \in {"spot", "fx"}
    /\ task[t].phase = "store" => task[t].kind \in {"spot", "fx", "history"}
    /\ task[t].phase \in {"gaps", "range"} => task[t].kind = "history" /\ task[t].left = {}
    /\ task[t].kind # "none" => task[t].next \in DOMAIN Order[task[t].kind]
    /\ \A b \in Backfills \cup {NoBackfill} :
          (task[t].kind = "history" /\ task[t].backfill = b) =>
             /\ b \in Backfills /\ task[t].missing \subseteq b.from..b.to
             /\ \A q \in task[t].left : q.at \in b.from..b.to
             /\ \A r \in task[t].ranges : r[1]..r[2] \subseteq b.from..b.to

TasksAreWhole == \A t \in Tasks : TaskIsWhole(t)

\* One worker at a time has a backfill, whose job says so; a job that waits or is
\* worked on has an attempt left.
BackfillsAreHeldOnce ==
    /\ \A t \in Tasks, b \in Backfills : (task[t].kind = "history" /\ task[t].backfill = b) =>
          /\ job[b].state = "active"
          /\ \A u \in Tasks : (task[u].kind = "history" /\ task[u].backfill = b) => u = t
    /\ \A b \in Backfills : job[b].state \in {"waiting", "active"}
                               => job[b].attemptsMade < MaxAttempts

\* A backfill under way has accounted for every day of its range: it has its
\* price, is being stored, is still to be asked for, or has none.
GapsAreAccountedFor ==
    \A t \in Tasks, b \in Backfills :
        (task[t].kind = "history" /\ task[t].phase \in {"range", "store"} /\ task[t].backfill = b)
        => \A d \in MissingDays(b) :
              \/ d \in task[t].absent
              \/ \E r \in task[t].ranges : d \in r[1]..r[2]
              \/ \E q \in task[t].left : q.at = d /\ q.series = b.metal

\* While the schedule is installed, Redis holds what is still to be removed or
\* what was added since, never both.
ScheduleIsAccountedFor ==
    scheduler.phase = "installing" =>
        /\ scheduler.cadence \in Cadences
        /\ scheduler.doomed # {} => scheduler.todo = Repeatables
        /\ repeats = scheduler.doomed
                       \cup ((Repeatables \ scheduler.todo) \X {scheduler.cadence})

\* Nothing is dated ahead of the clock, but a manual price by the skew it is
\* allowed: a quote dated ahead would outrank every real one until that day
\* (market-prices.service.ts: notAfterNow, recordManualPrice).
NoPriceFromTheFuture ==
    \A e \in DOMAIN book : e.at <= now + (IF book[e].by = Manual THEN Skew ELSE 0)

\* The stored prices are a book of dated prices: whatever tasks run at once, no
\* sync or backfill changes a row that is there, corrections by hand included.
HandMade(row) == row.by = Manual
Book == INSTANCE PriceBook WITH Rows <- BookRows, ByHand <- HandMade, book <- book
ImplementsPriceBook == Book!Spec

\* No day that had its price when the backfill looked is fetched again.
BackfillsFetchOnlyGaps ==
    \A t \in Tasks : task[t].kind = "history" =>
        \A r \in task[t].ranges : r[1]..r[2] \subseteq task[t].missing

\* A backfill that completes leaves no day of its range without a price, but
\* those for which the provider had none.
CompletedBackfillsLeaveNoGap ==
    [][\A t \in Tasks :
        (task[t].phase = "range" /\ job'[task[t].backfill].state = "completed"
          /\ job[task[t].backfill].state = "active" /\ task'[t] = IdleTask)
        => MissingDays(task[t].backfill) \subseteq task[t].absent]_marketVars

\* Once the scheduler is up, every job has the cadence it is configured with
\* and no other, whatever an earlier installation left half done.
OneCadencePerJob ==
    scheduler.phase = "up" =>
        scheduler.cadence \in Cadences /\ repeats = Repeatables \X {scheduler.cadence}

\* Every backfill that is queued is carried out or given up, and the schedule is
\* installed in the end.
BackfillsSettle ==
    /\ \A b \in Backfills : job[b].state = "waiting" ~> job[b].state \in {"completed", "failed"}
    /\ (scenario = "schedule") ~> (scheduler.phase = "up")

\* No price is dated ahead of the clock, a backfill asks for no day that is stored, and each
\* repeatable job has one schedule (market-prices.service.ts:344, 484; price-queue.service.ts:82).
PricesAreSound ==
    /\ MarketTypeOK /\ TasksAreWhole /\ NoPriceFromTheFuture
    /\ BackfillsAreHeldOnce /\ BackfillsFetchOnlyGaps /\ GapsAreAccountedFor
    /\ ScheduleIsAccountedFor /\ OneCadencePerJob

\* A backfill ends, and one that is said to be done has filled every day there was a price for.
BackfillsRunToTheEnd == CompletedBackfillsLeaveNoGap /\ BackfillsSettle
=============================================================================
