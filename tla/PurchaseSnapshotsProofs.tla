---------------------- MODULE PurchaseSnapshotsProofs ----------------------
(***************************************************************************)
(* Theorems about PurchaseSnapshots, for any purchases, metals, workers,   *)
(* corrections and limits.                                                 *)
(***************************************************************************)
EXTENDS PurchaseSnapshots, TLAPS

\* The n newest of a set are members of it.
LEMMA NewestAreMembers ==
    ASSUME NEW n, NEW S, NEW p \in Newest(n, S)
    PROVE  p \in S
BY DEF Newest

\* What a capture reads when it starts is typed and current.
LEMMA ReadingIsTyped ==
    ASSUME TypeOK, NEW p \in Purchases, NEW byJob \in BOOLEAN
    PROVE  Reading(p, byJob) \in Captures
BY SnapshotAssumption DEF Reading, TypeOK, Captures

\* A failed attempt of a job that had one left leaves a well-formed job, which
\* is not active, and waits only with an attempt left.
LEMMA RetriedIsTyped ==
    ASSUME NEW j \in JobRows, j.attemptsMade < MaxAttempts
    PROVE  /\ Retried(j) \in JobRows
           /\ Retried(j).state \in {"waiting", "failed"}
           /\ Retried(j).state = "waiting" =>
                Retried(j).attemptsMade < MaxAttempts
BY SnapshotAssumption DEF Retried, JobRows

LEMMA InitInv == Init => SnapshotInv
<1> SUFFICES ASSUME Init PROVE SnapshotInv
    OBVIOUS
<1>1. TypeOK
    BY SnapshotAssumption DEF Init, TypeOK, JobRows
<1>2. JobsAreHeld
    BY DEF Init, JobsAreHeld
<1>3. CapturesKeepUp
    BY DEF Init, CapturesKeepUp
<1> QED
    BY <1>1, <1>2, <1>3 DEF SnapshotInv

\* Every step keeps the types.
LEMMA NextTypes == SnapshotInv /\ [Next]_vars => TypeOK'
<1> SUFFICES ASSUME SnapshotInv, [Next]_vars PROVE TypeOK'
    OBVIOUS
<1> USE SnapshotAssumption DEF SnapshotInv
<1>1. ASSUME NEW p \in Purchases, NEW m \in MetalsOf[p], StoreQuote(p, m)
      PROVE  TypeOK'
    BY <1>1 DEF TypeOK, StoreQuote, ledger, worker
<1>2. CASE SyncFx
    BY <1>2 DEF TypeOK, SyncFx, ledger, worker
<1>3. ASSUME NEW p \in Purchases, RecordPurchase(p)
      PROVE  TypeOK'
    BY <1>3 DEF TypeOK, RecordPurchase, market, worker
<1>4. ASSUME NEW p \in Purchases, RequestSnapshot(p)
      PROVE  TypeOK'
    BY <1>4 DEF TypeOK, RequestSnapshot, ledger, market, worker, JobRows
<1>5. ASSUME NEW p \in Purchases, LoseRequest(p)
      PROVE  TypeOK'
    BY <1>5 DEF TypeOK, LoseRequest, ledger, market, worker
<1>6. ASSUME NEW p \in Purchases, NEW u \in Updates, ReadForUpdate(u, p)
      PROVE  TypeOK'
    BY <1>6 DEF TypeOK, ReadForUpdate, market, worker
<1>7. ASSUME NEW u \in Updates, CommitUpdate(u)
      PROVE  TypeOK'
    <2> DEFINE p == update[u].purchase
               changed == update[u].changed
    <2>1. /\ p \in Purchases /\ changed \in BOOLEAN
          /\ update[u].currency \in Currencies
          /\ update' \in [Updates -> [purchase : Purchases, currency : Currencies,
                                      changed : BOOLEAN, committed : BOOLEAN]
                                     \cup {NoUpdate}]
        <3>1. /\ update[u] # NoUpdate
              /\ update' = [update EXCEPT ![u].committed = TRUE]
            BY <1>7 DEF CommitUpdate
        <3> QED
            BY <3>1, ZenonT(60) DEF TypeOK
    <2>2. /\ currency' = [currency EXCEPT ![p] = update[u].currency]
          /\ snapshot' = [snapshot EXCEPT ![p] = IF changed THEN DropSnapshots(p)
                                                 ELSE @]
          /\ requests' = [requests EXCEPT ![p] = IF changed THEN @ + 1 ELSE @]
        BY <1>7 DEF CommitUpdate
    <2>3. currency' \in [Purchases -> Currencies]
        BY <2>1, <2>2 DEF TypeOK
    <2>4. snapshot' \in [Purchases -> [Metals -> Values \cup {NoSnapshot}]]
        BY <2>1, <2>2 DEF TypeOK, DropSnapshots
    <2>5. requests' \in [Purchases -> Nat]
        <3> HIDE DEF p, changed
        <3>1. requests \in [Purchases -> Nat]
            BY DEF TypeOK
        <3>2. CASE changed
            <4>1. requests' = [requests EXCEPT ![p] = @ + 1]
                BY <3>2, <2>2
            <4> QED
                BY <4>1, <3>1, <2>1
        <3>3. CASE ~changed
            <4>1. requests' = [requests EXCEPT ![p] = @]
                BY <3>3, <2>2
            <4> QED
                BY <4>1, <3>1
        <3> QED
            BY <3>2, <3>3
    <2>6. capture' \in [Workers -> Captures \cup {NoCapture}]
        <3>1. ASSUME NEW w \in Workers, capture[w] \in Captures
              PROVE  [capture[w] EXCEPT !.outdated =
                        @ \/ changed \/ currency'[p] # currency[p]] \in Captures
            BY <3>1, <2>1 DEF Captures
        <3>2. capture' = [w \in Workers |->
                  IF capture[w] # NoCapture /\ capture[w].purchase = p
                  THEN [capture[w] EXCEPT !.outdated =
                          @ \/ changed \/ currency'[p] # currency[p]]
                  ELSE capture[w]]
            BY <1>7 DEF CommitUpdate
        <3> QED
            BY <3>1, <3>2 DEF TypeOK
    <2> QED
        BY <1>7, <2>1, <2>3, <2>4, <2>5, <2>6 DEF TypeOK, CommitUpdate, market
<1>8. ASSUME NEW w \in Workers, NEW p \in Purchases, TakeJob(w, p)
      PROVE  TypeOK'
    BY <1>8, ReadingIsTyped DEF TypeOK, TakeJob, ledger, market, JobRows
<1>9. ASSUME NEW w \in Workers, StartReconciling(w)
      PROVE  TypeOK'
    <2>1. Pending \subseteq Purchases
        BY NewestAreMembers DEF TypeOK, Pending
    <2> QED
        BY <1>9, <2>1 DEF TypeOK, StartReconciling, ledger, market
<1>10. ASSUME NEW w \in Workers, ReconcileNext(w)
       PROVE  TypeOK'
    <2>1. PICK p \in Newest(1, batch[w]) :
             /\ capture' = [capture EXCEPT ![w] = Reading(p, FALSE)]
             /\ batch' = [batch EXCEPT ![w] = @ \ {p}]
        BY <1>10 DEF ReconcileNext
    <2>2. p \in Purchases
        BY NewestAreMembers DEF TypeOK
    <2> QED
        BY <1>10, <2>1, <2>2, ReadingIsTyped
        DEF TypeOK, ReconcileNext, ledger, market
<1>11. ASSUME NEW w \in Workers, NEW m \in Metals, CaptureMetal(w, m)
       PROVE  TypeOK'
    <2>1. capture[w] \in Captures
        BY <1>11 DEF TypeOK, CaptureMetal
    <2>2. Value(w, m) \in Values
        BY <2>1 DEF Value, Values, Captures
    <2>3. snapshot' \in [Purchases -> [Metals -> Values \cup {NoSnapshot}]]
        BY <1>11, <2>1, <2>2 DEF TypeOK, CaptureMetal, Captures
    <2>4. capture' \in [Workers -> Captures \cup {NoCapture}]
        BY <1>11, <2>1 DEF TypeOK, CaptureMetal, Captures, Convertible
    <2> QED
        BY <1>11, <2>3, <2>4 DEF TypeOK, CaptureMetal, ledger, market
<1>12. ASSUME NEW w \in Workers, FinishCapture(w)
       PROVE  TypeOK'
    <2>1. capture[w] \in Captures
        BY <1>12 DEF TypeOK, FinishCapture
    <2>2. capture[w].job => Settled(capture[w]) \in JobRows
        <3> SUFFICES ASSUME capture[w].job PROVE Settled(capture[w]) \in JobRows
            OBVIOUS
        <3> DEFINE j == job[capture[w].purchase]
        <3>1. j \in JobRows
            BY <2>1 DEF TypeOK, Captures
        <3>2. j.attemptsMade < MaxAttempts
            BY <1>12, <2>1 DEF JobsAreHeld, FinishCapture, Captures
        <3>3. Retried(j) \in JobRows
            BY <3>1, <3>2, RetriedIsTyped
        <3>4. [j EXCEPT !.state = "completed"] \in JobRows
            BY <3>1 DEF JobRows
        <3> QED
            BY <3>3, <3>4 DEF Settled
    <2>3. job' \in [Purchases -> JobRows]
        BY <1>12, <2>1, <2>2 DEF TypeOK, FinishCapture, Captures
    <2> QED
        BY <1>12, <2>3 DEF TypeOK, FinishCapture, ledger, market
<1>13. ASSUME NEW w \in Workers, CaptureThrows(w)
       PROVE  TypeOK'
    <2>1. capture[w] \in Captures
        BY <1>13 DEF TypeOK, CaptureThrows
    <2>2. capture[w].job => Retried(job[capture[w].purchase]) \in JobRows
        BY <1>13, <2>1, RetriedIsTyped
        DEF JobsAreHeld, CaptureThrows, Captures, TypeOK
    <2>3. job' \in [Purchases -> JobRows]
        BY <1>13, <2>1, <2>2 DEF TypeOK, CaptureThrows, Captures
    <2> QED
        BY <1>13, <2>3 DEF TypeOK, CaptureThrows, ledger, market
<1>14. ASSUME NEW w \in Workers, WorkerDies(w)
       PROVE  TypeOK'
    <2>1. job' \in [Purchases -> JobRows]
        <3>1. CASE UNCHANGED job
            BY <3>1 DEF TypeOK
        <3>2. ASSUME NEW state \in {"waiting", "failed"},
                     capture[w] # NoCapture,
                     job' = [job EXCEPT ![capture[w].purchase].state = state]
              PROVE  job' \in [Purchases -> JobRows]
            <4>1. capture[w].purchase \in Purchases
                BY <3>2 DEF TypeOK, Captures
            <4> DEFINE j == job[capture[w].purchase]
            <4>2. j \in JobRows
                BY <4>1 DEF TypeOK
            <4>3. [j EXCEPT !.state = state] \in JobRows
                <5> HIDE DEF j
                <5> QED
                    BY <4>2, <3>2 DEF JobRows
            <4> QED
                BY <3>2, <4>1, <4>3 DEF TypeOK
        <3> QED
            BY <1>14, <3>1, <3>2 DEF WorkerDies
    <2> QED
        BY <1>14, <2>1 DEF TypeOK, WorkerDies, ledger, market
<1>15. ASSUME NEW p \in Purchases, ForgetJob(p)
       PROVE  TypeOK'
    BY <1>15 DEF TypeOK, ForgetJob, ledger, market, worker, JobRows
<1>16. CASE UNCHANGED vars
    BY <1>16 DEF TypeOK, vars, ledger, market, worker
<1> QED
    BY <1>1, <1>2, <1>3, <1>4, <1>5, <1>6, <1>7, <1>8, <1>9, <1>10, <1>11,
       <1>12, <1>13, <1>14, <1>15, <1>16
    DEF Next, ApiStep, MarketStep, WorkerStep

\* A worker's capture, when it has one, is a capture and not its absence.
LEMMA CapturesAreCaptures ==
    ASSUME TypeOK, NEW w \in Workers, capture[w] # NoCapture
    PROVE  /\ capture[w] \in Captures
           /\ capture[w].purchase \in Purchases
           /\ capture[w].currency \in Currencies
           /\ capture[w].todo \subseteq Metals
           /\ capture[w].job \in BOOLEAN /\ capture[w].skipped \in BOOLEAN
           /\ capture[w].outdated \in BOOLEAN
BY DEF TypeOK, Captures

\* No capture is the absence of one.
LEMMA NoCaptureIsNone ==
    ASSUME NEW c \in Captures
    PROVE  c # NoCapture
BY SnapshotAssumption DEF Captures

\* What a correction leaves of a capture, and what a round of its loop does.
LEMMA CommitKeepsCaptures ==
    ASSUME TypeOK, NEW u \in Updates, CommitUpdate(u),
           NEW w \in Workers
    PROVE  IF capture[w] # NoCapture /\ capture[w].purchase = update[u].purchase
           THEN /\ capture'[w] # NoCapture
                /\ capture'[w] = [capture[w] EXCEPT
                     !.outdated = @ \/ update[u].changed
                        \/ currency'[update[u].purchase]
                             # currency[update[u].purchase]]
           ELSE capture'[w] = capture[w]
<1> DEFINE p == update[u].purchase
           o == \/ capture[w].outdated
                \/ update[u].changed
                \/ currency'[p] # currency[p]
<1>1. capture'[w] = IF capture[w] # NoCapture /\ capture[w].purchase = p
                    THEN [capture[w] EXCEPT !.outdated = o]
                    ELSE capture[w]
    BY DEF CommitUpdate
<1>2. o \in BOOLEAN
    OBVIOUS
<1> HIDE DEF o
<1>3. ASSUME capture[w] # NoCapture
      PROVE  [capture[w] EXCEPT !.outdated = o] # NoCapture
    <2>1. capture[w] \in Captures
        BY <1>3, CapturesAreCaptures
    <2>2. [capture[w] EXCEPT !.outdated = o] \in Captures
        BY <2>1, <1>2 DEF Captures
    <2> QED
        BY <2>2, NoCaptureIsNone
<1>4. CASE capture[w] # NoCapture /\ capture[w].purchase = p
    <2>1. capture'[w] = [capture[w] EXCEPT !.outdated = o]
        BY <1>1, <1>4
    <2>2. capture'[w] # NoCapture
        BY <2>1, <1>3, <1>4
    <2> QED
        BY <2>1, <2>2, <1>4 DEF o
<1>5. CASE ~(capture[w] # NoCapture /\ capture[w].purchase = p)
    BY <1>1, <1>5
<1> QED
    BY <1>4, <1>5

LEMMA LoopKeepsCaptures ==
    ASSUME TypeOK, NEW w \in Workers, NEW m \in Metals, CaptureMetal(w, m)
    PROVE  /\ capture'[w] # NoCapture
           /\ \A v \in Workers \ {w} : capture'[v] = capture[v]
           /\ capture'[w].purchase = capture[w].purchase
           /\ capture'[w].currency = capture[w].currency
           /\ capture'[w].todo = capture[w].todo \ {m}
           /\ capture'[w].job = capture[w].job
           /\ capture'[w].outdated = capture[w].outdated
           /\ capture'[w].skipped =
                (\/ capture[w].skipped
                 \/ ~Convertible(quote[capture[w].purchase][m],
                                 capture[w].currency, capture[w].fx))
<1> DEFINE c == capture[w]
           skip == \/ capture[w].skipped
                   \/ ~Convertible(quote[capture[w].purchase][m],
                                   capture[w].currency, capture[w].fx)
           d == [c EXCEPT !.todo = c.todo \ {m}, !.skipped = skip]
<1>1. c \in Captures /\ skip \in BOOLEAN
    BY CapturesAreCaptures DEF CaptureMetal
<1>2. capture' = [capture EXCEPT ![w] = d]
    BY DEF CaptureMetal, TypeOK
<1> HIDE DEF c, skip
<1>3. /\ d \in Captures
      /\ d.purchase = c.purchase /\ d.currency = c.currency
      /\ d.todo = c.todo \ {m} /\ d.job = c.job
      /\ d.outdated = c.outdated /\ d.skipped = skip
    BY <1>1 DEF Captures
<1>4. d # NoCapture
    BY <1>3, NoCaptureIsNone
<1> HIDE DEF d
<1>5. capture'[w] = d /\ \A v \in Workers \ {w} : capture'[v] = capture[v]
    BY <1>2 DEF TypeOK
<1> QED
    BY <1>3, <1>4, <1>5 DEF c, skip

\* Who works on which job stays if no capture starts or ends on one.
LEMMA HeldAsBefore ==
    ASSUME JobsAreHeld, job' = job,
           \A w \in Workers :
             /\ (capture'[w] # NoCapture /\ capture'[w].job) <=>
                  (capture[w] # NoCapture /\ capture[w].job)
             /\ (capture[w] # NoCapture /\ capture[w].job) =>
                  capture'[w].purchase = capture[w].purchase
    PROVE  JobsAreHeld'
<1>1. ASSUME NEW p \in Purchases
      PROVE  /\ job'[p].state = "active" <=>
                  \E w \in Workers : /\ capture'[w] # NoCapture
                                     /\ capture'[w].job
                                     /\ capture'[w].purchase = p
             /\ job'[p].state \in {"waiting", "active"} =>
                  job'[p].attemptsMade < MaxAttempts
    <2>1. /\ job[p].state = "active" <=>
               \E w \in Workers : /\ capture[w] # NoCapture
                                  /\ capture[w].job
                                  /\ capture[w].purchase = p
          /\ job[p].state \in {"waiting", "active"} =>
               job[p].attemptsMade < MaxAttempts
        BY DEF JobsAreHeld
    <2> QED
        BY <2>1
<1>2. ASSUME NEW v \in Workers, NEW w \in Workers,
             capture'[v] # NoCapture, capture'[v].job,
             capture'[w] # NoCapture, capture'[w].job,
             capture'[v].purchase = capture'[w].purchase
      PROVE  v = w
    <2>1. /\ capture[v] # NoCapture /\ capture[v].job
          /\ capture[w] # NoCapture /\ capture[w].job
          /\ capture[v].purchase = capture[w].purchase
        BY <1>2
    <2> QED
        BY <2>1 DEF JobsAreHeld
<1> QED
    BY <1>1, <1>2 DEF JobsAreHeld

\* Every step keeps each job with at most one worker, and every active job with
\* one.
LEMMA NextJobs == SnapshotInv /\ [Next]_vars => JobsAreHeld'
<1> SUFFICES ASSUME SnapshotInv, [Next]_vars PROVE JobsAreHeld'
    OBVIOUS
<1> USE SnapshotAssumption DEF SnapshotInv
<1>1. CASE job' = job /\ capture' = capture
    BY <1>1 DEF JobsAreHeld
<1>2. ASSUME NEW u \in Updates, CommitUpdate(u)
      PROVE  JobsAreHeld'
    <2>1. ASSUME NEW w \in Workers
          PROVE  /\ capture'[w] # NoCapture <=> capture[w] # NoCapture
                 /\ capture[w] # NoCapture =>
                      /\ capture'[w].job = capture[w].job
                      /\ capture'[w].purchase = capture[w].purchase
        <3>1. CASE capture[w] # NoCapture /\ capture[w].purchase = update[u].purchase
            <4>1. capture[w] \in Captures
                BY <3>1, CapturesAreCaptures
            <4>2. \E o : capture'[w] = [capture[w] EXCEPT !.outdated = o]
                BY <1>2, <3>1, CommitKeepsCaptures
            <4>3. capture'[w] # NoCapture
                BY <1>2, <3>1, CommitKeepsCaptures
            <4> QED
                BY <3>1, <4>1, <4>2, <4>3 DEF Captures
        <3>2. CASE ~(capture[w] # NoCapture /\ capture[w].purchase = update[u].purchase)
            BY <1>2, <3>2, CommitKeepsCaptures
        <3> QED
            BY <3>1, <3>2
    <2>2. job' = job
        BY <1>2 DEF CommitUpdate
    <2> QED
        BY <2>1, <2>2 DEF JobsAreHeld
<1>3. ASSUME NEW p \in Purchases, RequestSnapshot(p)
      PROVE  JobsAreHeld'
    <2>1. capture' = capture
        BY <1>3 DEF RequestSnapshot, worker
    <2>2. job' = [job EXCEPT ![p] = IF @.state = "none"
                     THEN [state |-> "waiting", attemptsMade |-> 0] ELSE @]
        BY <1>3 DEF RequestSnapshot
    <2> QED
        BY <2>1, <2>2 DEF JobsAreHeld, TypeOK
<1>4. ASSUME NEW w \in Workers, NEW p \in Purchases, TakeJob(w, p)
      PROVE  JobsAreHeld'
    <2>1. /\ job' = [job EXCEPT ![p].state = "active"]
          /\ capture' = [capture EXCEPT ![w] = Reading(p, TRUE)]
          /\ job[p].state = "waiting" /\ capture[w] = NoCapture
        BY <1>4 DEF TakeJob, Free
    <2>2. Reading(p, TRUE).job /\ Reading(p, TRUE).purchase = p
        BY DEF Reading
    <2>3. Reading(p, TRUE) # NoCapture
        BY ReadingIsTyped, NoCaptureIsNone
    <2> DEFINE r == Reading(p, TRUE)
    <2>4. capture'[w] = r /\ \A v \in Workers \ {w} : capture'[v] = capture[v]
        BY <2>1 DEF TypeOK
    <2>5. /\ job'[p].state = "active"
          /\ job'[p].attemptsMade = job[p].attemptsMade
          /\ \A q \in Purchases \ {p} : job'[q] = job[q]
        BY <2>1 DEF TypeOK, JobRows
    <2>6. \A v \in Workers : ~(/\ capture[v] # NoCapture /\ capture[v].job
                              /\ capture[v].purchase = p)
        BY <2>1 DEF JobsAreHeld
    <2> HIDE DEF r
    <2>7. r # NoCapture /\ r.job /\ r.purchase = p
        BY <2>2, <2>3 DEF r
    <2> QED
        <3>1. ASSUME NEW q \in Purchases
              PROVE  /\ job'[q].state = "active" <=>
                          \E v \in Workers : /\ capture'[v] # NoCapture
                                             /\ capture'[v].job
                                             /\ capture'[v].purchase = q
                     /\ job'[q].state \in {"waiting", "active"} =>
                          job'[q].attemptsMade < MaxAttempts
            <4>1. /\ job[q].state = "active" <=>
                       \E v \in Workers : /\ capture[v] # NoCapture
                                          /\ capture[v].job
                                          /\ capture[v].purchase = q
                  /\ job[q].state \in {"waiting", "active"} =>
                       job[q].attemptsMade < MaxAttempts
                BY DEF JobsAreHeld
            <4>2. CASE q = p
                BY <2>1, <2>4, <2>5, <2>7, <4>1, <4>2
            <4>3. CASE q # p
                <5>1. ASSUME NEW v \in Workers
                      PROVE  (/\ capture'[v] # NoCapture /\ capture'[v].job
                              /\ capture'[v].purchase = q) <=>
                             (/\ capture[v] # NoCapture /\ capture[v].job
                              /\ capture[v].purchase = q)
                    <6>1. CASE v = w
                        BY <2>1, <2>4, <2>7, <4>3, <6>1
                    <6>2. CASE v # w
                        BY <2>4, <6>2
                    <6> QED
                        BY <6>1, <6>2
                <5>2. job'[q] = job[q]
                    BY <2>5, <4>3
                <5> QED
                    BY <5>1, <5>2, <4>1
            <4> QED
                BY <4>2, <4>3
        <3>2. ASSUME NEW v \in Workers, NEW x \in Workers, v # x,
                     capture'[v] # NoCapture, capture'[v].job,
                     capture'[x] # NoCapture, capture'[x].job
              PROVE  capture'[v].purchase # capture'[x].purchase
            <4>1. CASE v # w /\ x # w
                BY <2>4, <3>2, <4>1 DEF JobsAreHeld
            <4>2. CASE v = w
                BY <2>4, <2>6, <2>7, <3>2, <4>2
            <4>3. CASE x = w
                BY <2>4, <2>6, <2>7, <3>2, <4>3
            <4> QED
                BY <4>1, <4>2, <4>3
        <3> QED
            BY <3>1, <3>2 DEF JobsAreHeld
<1>5. ASSUME NEW w \in Workers, ReconcileNext(w)
      PROVE  JobsAreHeld'
    <2>1. PICK p \in Newest(1, batch[w]) :
             capture' = [capture EXCEPT ![w] = Reading(p, FALSE)]
        BY <1>5 DEF ReconcileNext
    <2>2. job' = job /\ capture[w] = NoCapture
        BY <1>5 DEF ReconcileNext
    <2>3. ~Reading(p, FALSE).job
        BY DEF Reading
    <2>4. ~capture'[w].job /\ \A v \in Workers \ {w} : capture'[v] = capture[v]
        BY <2>1, <2>3 DEF TypeOK
    <2> QED
        BY <2>2, <2>4, HeldAsBefore
<1>6. ASSUME NEW w \in Workers, NEW m \in Metals, CaptureMetal(w, m)
      PROVE  JobsAreHeld'
    <2>1. capture[w] # NoCapture /\ job' = job
        BY <1>6 DEF CaptureMetal
    <2>2. /\ capture'[w] # NoCapture
          /\ capture'[w].job = capture[w].job
          /\ capture'[w].purchase = capture[w].purchase
          /\ \A v \in Workers \ {w} : capture'[v] = capture[v]
        BY <1>6, LoopKeepsCaptures
    <2> QED
        BY <2>1, <2>2, HeldAsBefore
<1>7. ASSUME NEW w \in Workers, capture[w] # NoCapture, NEW j,
             capture' = [capture EXCEPT ![w] = NoCapture],
             job' = IF capture[w].job
                    THEN [job EXCEPT ![capture[w].purchase] = j] ELSE job,
             capture[w].job => /\ j.state \in {"waiting", "completed", "failed"}
                               /\ j.state = "waiting" => j.attemptsMade < MaxAttempts
      PROVE  JobsAreHeld'
    <2>1. capture[w] \in Captures
        BY <1>7 DEF TypeOK
    <2>2. CASE ~capture[w].job
        <3>1. /\ capture'[w] = NoCapture /\ job' = job
              /\ \A v \in Workers \ {w} : capture'[v] = capture[v]
            BY <1>7, <2>2 DEF TypeOK
        <3> QED
            BY <2>2, <3>1 DEF JobsAreHeld
    <2>3. CASE capture[w].job
        <3> DEFINE p == capture[w].purchase
        <3>1. /\ capture'[w] = NoCapture
              /\ \A v \in Workers \ {w} : capture'[v] = capture[v]
            BY <1>7 DEF TypeOK
        <3>2. /\ p \in Purchases /\ job'[p] = j
              /\ \A q \in Purchases \ {p} : job'[q] = job[q]
            BY <1>7, <2>1, <2>3 DEF TypeOK, Captures
        <3>3. \A v \in Workers \ {w} :
                 ~(/\ capture[v] # NoCapture /\ capture[v].job
                   /\ capture[v].purchase = p)
            BY <1>7, <2>3 DEF JobsAreHeld
        <3>4. j.state # "active" /\ (j.state = "waiting" => j.attemptsMade < MaxAttempts)
            BY <1>7, <2>3
        <3> QED
            BY <1>7, <3>1, <3>2, <3>3, <3>4 DEF JobsAreHeld
    <2> QED
        BY <2>2, <2>3
<1>8. ASSUME NEW w \in Workers, FinishCapture(w)
      PROVE  JobsAreHeld'
    <2>1. capture[w].job =>
            /\ Settled(capture[w]).state \in {"waiting", "completed", "failed"}
            /\ Settled(capture[w]).state = "waiting" =>
                 Settled(capture[w]).attemptsMade < MaxAttempts
        <3> SUFFICES ASSUME capture[w].job
                     PROVE  /\ Settled(capture[w]).state
                                 \in {"waiting", "completed", "failed"}
                            /\ Settled(capture[w]).state = "waiting" =>
                                 Settled(capture[w]).attemptsMade < MaxAttempts
            OBVIOUS
        <3> DEFINE j == job[capture[w].purchase]
        <3>1. j \in JobRows /\ j.attemptsMade < MaxAttempts
            BY <1>8 DEF JobsAreHeld, FinishCapture, Captures, TypeOK
        <3>2. [j EXCEPT !.state = "completed"].state = "completed"
            BY <3>1 DEF JobRows
        <3> QED
            BY <3>1, <3>2, RetriedIsTyped DEF Settled
    <2> QED
        BY <1>7, <1>8, <2>1 DEF FinishCapture
<1>9. ASSUME NEW w \in Workers, CaptureThrows(w)
      PROVE  JobsAreHeld'
    <2> DEFINE j == Retried(job[capture[w].purchase])
    <2>1. capture[w].job => /\ j.state \in {"waiting", "completed", "failed"}
                            /\ j.state = "waiting" => j.attemptsMade < MaxAttempts
        <3> SUFFICES ASSUME capture[w].job
                     PROVE  /\ j.state \in {"waiting", "completed", "failed"}
                            /\ j.state = "waiting" => j.attemptsMade < MaxAttempts
            OBVIOUS
        <3> DEFINE i == job[capture[w].purchase]
        <3>1. i \in JobRows /\ i.attemptsMade < MaxAttempts
            BY <1>9 DEF JobsAreHeld, CaptureThrows, Captures, TypeOK
        <3> HIDE DEF i
        <3>2. /\ Retried(i).state \in {"waiting", "failed"}
              /\ Retried(i).state = "waiting" => Retried(i).attemptsMade < MaxAttempts
            BY <3>1, RetriedIsTyped
        <3> QED
            BY <3>2 DEF i
    <2>2. job' = IF capture[w].job
                 THEN [job EXCEPT ![capture[w].purchase] = j] ELSE job
        BY <1>9 DEF CaptureThrows
    <2> HIDE DEF j
    <2> QED
        BY <1>7, <1>9, <2>1, <2>2 DEF CaptureThrows
<1>10. ASSUME NEW w \in Workers, WorkerDies(w)
       PROVE  JobsAreHeld'
    <2>1. CASE capture[w] = NoCapture
        BY <1>1, <1>10, <2>1 DEF WorkerDies, TypeOK
    <2>2. CASE capture[w] # NoCapture /\ ~capture[w].job
        <3>1. job' = job /\ capture' = [capture EXCEPT ![w] = NoCapture]
            BY <1>10, <2>2 DEF WorkerDies
        <3> QED
            BY <1>7, <2>2, <3>1
    <2>3. CASE capture[w] # NoCapture /\ capture[w].job
        <3> DEFINE p == capture[w].purchase
        <3>1. PICK state \in {"waiting", "failed"} :
                 job' = [job EXCEPT ![p].state = state]
            BY <1>10, <2>3 DEF WorkerDies
        <3>2. p \in Purchases /\ job[p] \in JobRows
              /\ job[p].attemptsMade < MaxAttempts
            BY <2>3 DEF JobsAreHeld, TypeOK, Captures
        <3> DEFINE j == [job[p] EXCEPT !.state = state]
        <3>3. job' = [job EXCEPT ![p] = j]
            BY <3>1, <3>2 DEF TypeOK
        <3>4. j.state = state /\ j.attemptsMade = job[p].attemptsMade
            BY <3>2 DEF JobRows
        <3>5. capture' = [capture EXCEPT ![w] = NoCapture]
            BY <1>10 DEF WorkerDies
        <3>6. j.state \in {"waiting", "completed", "failed"}
              /\ j.attemptsMade < MaxAttempts
            BY <3>1, <3>2, <3>4
        <3> HIDE DEF j
        <3> QED
            BY <1>7, <2>3, <3>3, <3>5, <3>6
    <2> QED
        BY <2>1, <2>2, <2>3
<1>11. ASSUME NEW p \in Purchases, ForgetJob(p)
       PROVE  JobsAreHeld'
    <2>1. /\ capture' = capture
          /\ job[p].state # "active"
          /\ job' = [job EXCEPT ![p] = [state |-> "none", attemptsMade |-> 0]]
        BY <1>11 DEF ForgetJob, worker
    <2> QED
        BY <2>1 DEF JobsAreHeld, TypeOK
<1>12. ASSUME \/ \E p \in Purchases : \/ RecordPurchase(p) \/ LoseRequest(p)
                                      \/ \E u \in Updates : ReadForUpdate(u, p)
              \/ MarketStep
              \/ \E w \in Workers : StartReconciling(w)
              \/ UNCHANGED vars
       PROVE  JobsAreHeld'
    <2>1. job' = job /\ capture' = capture
        BY <1>12 DEF RecordPurchase, LoseRequest, ReadForUpdate, MarketStep,
                     StoreQuote, SyncFx, StartReconciling, vars, worker
    <2> QED
        BY <1>1, <2>1
<1> QED
    BY <1>2, <1>3, <1>4, <1>5, <1>6, <1>8, <1>9, <1>10, <1>11, <1>12
    DEF Next, ApiStep, WorkerStep

\* What a capture writes is a snapshot, and it replaces nothing else.
LEMMA LoopOnlyAdds ==
    ASSUME TypeOK, NEW w \in Workers, NEW m \in Metals, CaptureMetal(w, m)
    PROVE  \A q \in Purchases, n \in Metals :
             \/ snapshot'[q][n] = snapshot[q][n]
             \/ /\ q = capture[w].purchase /\ n = m
                /\ snapshot'[q][n] # NoSnapshot
                /\ snapshot'[q][n].currency = capture[w].currency
<1> DEFINE p == capture[w].purchase
           usable == Convertible(quote[p][m], capture[w].currency, capture[w].fx)
<1>1. capture[w] \in Captures /\ p \in Purchases
    BY CapturesAreCaptures DEF CaptureMetal
<1>2. /\ Value(w, m) \in Values
      /\ Value(w, m).currency = capture[w].currency
    BY <1>1, SnapshotAssumption DEF Value, Values, Captures
<1>3. Value(w, m) # NoSnapshot
    BY <1>2, SnapshotAssumption DEF Values
<1>4. snapshot' = [snapshot EXCEPT ![p][m] = IF usable THEN Value(w, m) ELSE @]
    BY DEF CaptureMetal
<1> HIDE DEF p, usable
<1>5. CASE usable
    <2>1. snapshot' = [snapshot EXCEPT ![p][m] = Value(w, m)]
        BY <1>4, <1>5
    <2>2. \A q \in Purchases, n \in Metals :
             snapshot'[q][n] = IF q = p /\ n = m THEN Value(w, m)
                               ELSE snapshot[q][n]
        BY <2>1 DEF TypeOK
    <2> QED
        BY <2>2, <1>2, <1>3 DEF p
<1>6. CASE ~usable
    <2>1. snapshot' = [snapshot EXCEPT ![p][m] = @]
        BY <1>4, <1>6
    <2> QED
        BY <2>1 DEF TypeOK
<1> QED
    BY <1>5, <1>6

\* What a round of the loop was for is stored or noted as skipped.
LEMMA LoopStoresOrSkips ==
    ASSUME TypeOK, NEW w \in Workers, NEW m \in Metals, CaptureMetal(w, m)
    PROVE  snapshot'[capture[w].purchase][m] # NoSnapshot \/ capture'[w].skipped
<1> DEFINE p == capture[w].purchase
           usable == Convertible(quote[p][m], capture[w].currency, capture[w].fx)
<1>1. capture[w] \in Captures /\ p \in Purchases
    BY CapturesAreCaptures DEF CaptureMetal
<1>2. capture'[w].skipped = (capture[w].skipped \/ ~usable)
    BY LoopKeepsCaptures
<1>3. Value(w, m) # NoSnapshot
    BY <1>1, SnapshotAssumption DEF Value, Captures
<1>4. snapshot' = [snapshot EXCEPT ![p][m] = IF usable THEN Value(w, m) ELSE @]
    BY DEF CaptureMetal
<1> HIDE DEF usable
<1>5. CASE usable
    <2>1. snapshot' = [snapshot EXCEPT ![p][m] = Value(w, m)]
        BY <1>4, <1>5
    <2> QED
        BY <2>1, <1>1, <1>3 DEF TypeOK
<1> QED
    BY <1>2, <1>5

\* A capture that starts has everything still to do.
LEMMA StartedCapturesKeepUp ==
    ASSUME TypeOK, CapturesKeepUp, NEW w \in Workers, NEW p \in Purchases,
           NEW byJob \in BOOLEAN,
           capture' = [capture EXCEPT ![w] = Reading(p, byJob)],
           currency' = currency, snapshot' = snapshot
    PROVE  CapturesKeepUp'
<1>1. /\ capture'[w] = Reading(p, byJob)
      /\ \A v \in Workers \ {w} : capture'[v] = capture[v]
    BY DEF TypeOK
<1>2. /\ Reading(p, byJob).purchase = p
      /\ Reading(p, byJob).currency = currency[p]
      /\ Reading(p, byJob).todo = MetalsOf[p]
    BY DEF Reading
<1> QED
    BY <1>1, <1>2 DEF CapturesKeepUp

\* A capture that no correction has overtaken has read its purchase's currency
\* as it is, and has stored, skipped or yet to do each of its metals.
LEMMA NextCaptures == SnapshotInv /\ [Next]_vars => CapturesKeepUp'
<1> SUFFICES ASSUME SnapshotInv, [Next]_vars PROVE CapturesKeepUp'
    OBVIOUS
<1> USE SnapshotAssumption DEF SnapshotInv
<1>1. ASSUME currency' = currency, snapshot' = snapshot, capture' = capture
      PROVE  CapturesKeepUp'
    BY <1>1 DEF CapturesKeepUp
<1>2. ASSUME NEW w \in Workers, currency' = currency, snapshot' = snapshot,
             capture' = [capture EXCEPT ![w] = NoCapture]
      PROVE  CapturesKeepUp'
    <2>1. /\ capture'[w] = NoCapture
          /\ \A v \in Workers \ {w} : capture'[v] = capture[v]
        BY <1>2 DEF TypeOK
    <2> QED
        BY <1>2, <2>1 DEF CapturesKeepUp
<1>3. ASSUME NEW u \in Updates, CommitUpdate(u)
      PROVE  CapturesKeepUp'
    <2> DEFINE p == update[u].purchase
    <2>1. p \in Purchases
        BY <1>3 DEF CommitUpdate, TypeOK
    <2>2. /\ currency' = [currency EXCEPT ![p] = update[u].currency]
          /\ snapshot' = [snapshot EXCEPT ![p] = IF update[u].changed
                            THEN DropSnapshots(p) ELSE @]
        BY <1>3 DEF CommitUpdate
    <2>3. \A q \in Purchases \ {p} : /\ currency'[q] = currency[q]
                                     /\ snapshot'[q] = snapshot[q]
        BY <2>1, <2>2 DEF TypeOK
    <2>4. ~update[u].changed => snapshot'[p] = snapshot[p]
        BY <2>1, <2>2 DEF TypeOK
    <2> SUFFICES ASSUME NEW w \in Workers,
                        capture'[w] # NoCapture, ~capture'[w].outdated
                 PROVE  /\ capture'[w].currency = currency'[capture'[w].purchase]
                        /\ \A m \in MetalsOf[capture'[w].purchase] :
                             \/ m \in capture'[w].todo
                             \/ snapshot'[capture'[w].purchase][m] # NoSnapshot
                             \/ capture'[w].skipped
        BY DEF CapturesKeepUp
    <2> HIDE DEF p
    <2>5. CASE capture[w] # NoCapture /\ capture[w].purchase = p
        <3> DEFINE o == \/ capture[w].outdated
                        \/ update[u].changed
                        \/ currency'[p] # currency[p]
        <3>1. capture[w] \in Captures
            BY <2>5, CapturesAreCaptures
        <3>2. capture'[w] = [capture[w] EXCEPT !.outdated = o]
            BY <1>3, <2>5, CommitKeepsCaptures DEF p
        <3> HIDE DEF o
        <3>3. /\ capture'[w].purchase = p
              /\ capture'[w].currency = capture[w].currency
              /\ capture'[w].todo = capture[w].todo
              /\ capture'[w].skipped = capture[w].skipped
              /\ capture'[w].outdated = o
            BY <2>5, <3>1, <3>2 DEF Captures
        <3>4. /\ ~capture[w].outdated
              /\ ~update[u].changed
              /\ currency'[p] = currency[p]
            BY <3>3 DEF o
        <3>5. snapshot'[p] = snapshot[p]
            BY <2>4, <3>4
        <3> QED
            BY <2>5, <3>3, <3>4, <3>5 DEF CapturesKeepUp
    <2>6. CASE ~(capture[w] # NoCapture /\ capture[w].purchase = p)
        <3>1. capture'[w] = capture[w]
            BY <1>3, <2>6, CommitKeepsCaptures DEF p
        <3>2. capture[w].purchase \in Purchases \ {p}
            BY <2>6, <3>1, CapturesAreCaptures
        <3> QED
            BY <2>3, <3>1, <3>2 DEF CapturesKeepUp
    <2> QED
        BY <2>5, <2>6
<1>4. ASSUME NEW w \in Workers, NEW p \in Purchases, TakeJob(w, p)
      PROVE  CapturesKeepUp'
    BY <1>4, StartedCapturesKeepUp DEF TakeJob, ledger
<1>5. ASSUME NEW w \in Workers, ReconcileNext(w)
      PROVE  CapturesKeepUp'
    <2>1. PICK p \in Newest(1, batch[w]) :
             capture' = [capture EXCEPT ![w] = Reading(p, FALSE)]
        BY <1>5 DEF ReconcileNext
    <2>2. p \in Purchases
        BY NewestAreMembers DEF TypeOK
    <2>3. currency' = currency /\ snapshot' = snapshot
        BY <1>5 DEF ReconcileNext, ledger
    <2> QED
        BY <2>1, <2>2, <2>3, StartedCapturesKeepUp
<1>6. ASSUME NEW w \in Workers, NEW m \in Metals, CaptureMetal(w, m)
      PROVE  CapturesKeepUp'
    <2>1. currency' = currency
        BY <1>6 DEF CaptureMetal, ledger
    <2>2. \A q \in Purchases, n \in Metals :
             snapshot[q][n] # NoSnapshot => snapshot'[q][n] # NoSnapshot
        BY <1>6, LoopOnlyAdds
    <2>3. \A q \in Purchases : MetalsOf[q] \subseteq Metals
        OBVIOUS
    <2> SUFFICES ASSUME NEW v \in Workers,
                        capture'[v] # NoCapture, ~capture'[v].outdated
                 PROVE  /\ capture'[v].currency = currency'[capture'[v].purchase]
                        /\ \A n \in MetalsOf[capture'[v].purchase] :
                             \/ n \in capture'[v].todo
                             \/ snapshot'[capture'[v].purchase][n] # NoSnapshot
                             \/ capture'[v].skipped
        BY DEF CapturesKeepUp
    <2>4. CASE v = w
        <3>1. /\ capture[w] # NoCapture
              /\ capture[w].purchase \in Purchases
            BY <1>6, CapturesAreCaptures DEF CaptureMetal
        <3>2. /\ capture'[w].purchase = capture[w].purchase
              /\ capture'[w].currency = capture[w].currency
              /\ capture'[w].todo = capture[w].todo \ {m}
              /\ capture'[w].outdated = capture[w].outdated
              /\ capture[w].skipped => capture'[w].skipped
            BY <1>6, LoopKeepsCaptures
        <3>3. /\ capture[w].currency = currency[capture[w].purchase]
              /\ \A n \in MetalsOf[capture[w].purchase] :
                   \/ n \in capture[w].todo
                   \/ snapshot[capture[w].purchase][n] # NoSnapshot
                   \/ capture[w].skipped
            BY <2>4, <3>1, <3>2 DEF CapturesKeepUp
        <3>4. snapshot'[capture[w].purchase][m] # NoSnapshot \/ capture'[w].skipped
            BY <1>6, LoopStoresOrSkips
        <3>5. ASSUME NEW n \in MetalsOf[capture[w].purchase]
              PROVE  \/ n \in capture'[w].todo
                     \/ snapshot'[capture[w].purchase][n] # NoSnapshot
                     \/ capture'[w].skipped
            <4>1. CASE n = m
                BY <3>4, <4>1
            <4>2. CASE n # m
                BY <2>2, <2>3, <3>1, <3>2, <3>3, <4>2
            <4> QED
                BY <4>1, <4>2
        <3> QED
            BY <2>1, <2>4, <3>2, <3>3, <3>5
    <2>5. CASE v # w
        <3>1. capture'[v] = capture[v]
            <4>1. \A x \in Workers \ {w} : capture'[x] = capture[x]
                BY <1>6, LoopKeepsCaptures
            <4> QED
                BY <2>5, <4>1
        <3>2. capture[v].purchase \in Purchases
            BY <3>1, CapturesAreCaptures
        <3> QED
            BY <2>1, <2>2, <2>3, <3>1, <3>2, ZenonT(60) DEF CapturesKeepUp
    <2> QED
        BY <2>4, <2>5
<1>7. ASSUME NEW w \in Workers,
             FinishCapture(w) \/ CaptureThrows(w) \/ WorkerDies(w)
      PROVE  CapturesKeepUp'
    BY <1>2, <1>7 DEF FinishCapture, CaptureThrows, WorkerDies, ledger
<1>8. ASSUME \/ \E p \in Purchases : \/ RecordPurchase(p)
                                     \/ RequestSnapshot(p)
                                     \/ LoseRequest(p)
                                     \/ \E u \in Updates : ReadForUpdate(u, p)
                                     \/ ForgetJob(p)
             \/ MarketStep
             \/ \E w \in Workers : StartReconciling(w)
             \/ UNCHANGED vars
      PROVE  CapturesKeepUp'
    <2>1. currency' = currency /\ snapshot' = snapshot /\ capture' = capture
        BY <1>8 DEF RecordPurchase, RequestSnapshot, LoseRequest, ReadForUpdate,
                    ForgetJob, MarketStep, StoreQuote, SyncFx, StartReconciling,
                    vars, ledger, worker
    <2> QED
        BY <1>1, <2>1
<1> QED
    BY <1>3, <1>4, <1>5, <1>6, <1>7, <1>8 DEF Next, ApiStep, WorkerStep

\* Every reachable state is typed, each job of the queue is run by at most one
\* worker and each active one by one, and a capture that no correction has
\* overtaken is at the point its loop says
\* (purchase-snapshot.service.ts:47-122, price.processor.ts:58-77).
THEOREM SnapshotInvariance == Spec => []SnapshotInv
<1>1. Init => SnapshotInv
    BY InitInv
<1>2. SnapshotInv /\ [Next]_vars => SnapshotInv'
    BY NextTypes, NextJobs, NextCaptures DEF SnapshotInv
<1> QED
    BY <1>1, <1>2, PTL DEF Spec

\* A snapshot stops matching its purchase's currency only when a capture that
\* read the purchase before a correction writes after it, or when a correction
\* that read the purchase before another one puts its currency back
\* (purchases.service.ts:179-183, 197).
THEOREM StaleOnlyByRaces == Spec => SnapshotsGoStaleOnlyByRaces
<1> DEFINE Raced(p) ==
             \/ \E w \in Workers : /\ capture[w] # NoCapture
                                   /\ capture[w].purchase = p
                                   /\ capture[w].outdated
             \/ \E u \in Updates : /\ update[u] # NoUpdate /\ ~update[u].committed
                                   /\ update'[u].committed
                                   /\ ~update[u].changed
           Step == \A p \in Purchases, m \in Metals :
                     (Stale(p, m)' /\ ~Stale(p, m)) => Raced(p)
<1>1. SnapshotInv /\ [Next]_vars => [Step]_vars
    <2> SUFFICES ASSUME SnapshotInv, Next,
                        NEW p \in Purchases, NEW m \in Metals,
                        Stale(p, m)', ~Stale(p, m)
                 PROVE  Raced(p)
        OBVIOUS
    <2> USE DEF SnapshotInv
    <2>1. ASSUME currency' = currency, snapshot' = snapshot
          PROVE  FALSE
        BY <2>1 DEF Stale
    <2>2. ASSUME NEW u \in Updates, CommitUpdate(u)
          PROVE  Raced(p)
        <3> DEFINE q == update[u].purchase
        <3>1. /\ q \in Purchases /\ update[u] # NoUpdate
              /\ ~update[u].committed /\ update'[u].committed
            BY <2>2 DEF CommitUpdate, TypeOK
        <3>2. /\ currency' = [currency EXCEPT ![q] = update[u].currency]
              /\ snapshot' = [snapshot EXCEPT ![q] = IF update[u].changed
                                THEN DropSnapshots(q) ELSE @]
            BY <2>2 DEF CommitUpdate
        <3> HIDE DEF q
        <3>3. p = q
            <4>1. p # q => currency'[p] = currency[p] /\ snapshot'[p] = snapshot[p]
                BY <3>1, <3>2 DEF TypeOK
            <4> QED
                BY <4>1 DEF Stale
        <3>4. ~update[u].changed
            <4>1. update[u].changed => snapshot'[p] = DropSnapshots(q)
                BY <3>1, <3>2, <3>3 DEF TypeOK
            <4>2. DropSnapshots(q)[m] = NoSnapshot
                BY DEF DropSnapshots
            <4> QED
                BY <4>1, <4>2 DEF Stale
        <3> QED
            BY <3>1, <3>4
    <2>3. ASSUME NEW w \in Workers, NEW n \in Metals, CaptureMetal(w, n)
          PROVE  Raced(p)
        <3>1. currency' = currency /\ capture[w] # NoCapture
            BY <2>3 DEF CaptureMetal, ledger
        <3>2. snapshot'[p][m] # snapshot[p][m]
            BY <3>1 DEF Stale
        <3>3. /\ p = capture[w].purchase
              /\ snapshot'[p][m].currency = capture[w].currency
            BY <2>3, <3>2, LoopOnlyAdds
        <3>4. capture[w].currency # currency[p]
            BY <3>1, <3>3 DEF Stale
        <3>5. capture[w].outdated
            BY <3>1, <3>3, <3>4 DEF CapturesKeepUp
        <3> QED
            BY <3>1, <3>3, <3>5
    <2>4. ASSUME \/ \E r \in Purchases :
                      \/ RecordPurchase(r) \/ RequestSnapshot(r) \/ LoseRequest(r)
                      \/ \E u \in Updates : ReadForUpdate(u, r)
                      \/ \E w \in Workers : TakeJob(w, r)
                      \/ ForgetJob(r)
                 \/ MarketStep
                 \/ \E w \in Workers : \/ StartReconciling(w) \/ ReconcileNext(w)
                                       \/ FinishCapture(w) \/ CaptureThrows(w)
                                       \/ WorkerDies(w)
          PROVE  Raced(p)
        <3>1. currency' = currency /\ snapshot' = snapshot
            BY <2>4 DEF RecordPurchase, RequestSnapshot, LoseRequest,
                        ReadForUpdate, TakeJob, ForgetJob, MarketStep,
                        StoreQuote, SyncFx, StartReconciling, ReconcileNext,
                        FinishCapture, CaptureThrows, WorkerDies, ledger
        <3> QED
            BY <2>1, <3>1
    <2> QED
        BY <2>2, <2>3, <2>4 DEF Next, ApiStep, WorkerStep
<1>2. Spec => []SnapshotInv
    BY SnapshotInvariance
<1>3. Spec => [][Step]_vars
    BY <1>1, <1>2, PTL DEF Spec
<1> QED
    BY <1>3 DEF SnapshotsGoStaleOnlyByRaces

\* A job that completes leaves every metal of its purchase priced, unless a
\* correction overtook it (price.processor.ts:16-17, 72-77).
THEOREM CompletedPriced == Spec => CompletedJobsPricedEverything
<1> DEFINE Step == \A w \in Workers, p \in Purchases :
              (/\ capture[w] # NoCapture /\ capture[w].job /\ capture[w].purchase = p
               /\ job[p].state = "active" /\ job'[p].state = "completed")
                 => Captured(p)' \/ capture[w].outdated
<1>1. SnapshotInv /\ [Next]_vars => [Step]_vars
    <2> SUFFICES ASSUME SnapshotInv, Next,
                        NEW w \in Workers, NEW p \in Purchases,
                        capture[w] # NoCapture, capture[w].job,
                        capture[w].purchase = p,
                        job[p].state = "active", job'[p].state = "completed",
                        ~capture[w].outdated
                 PROVE  Captured(p)'
        OBVIOUS
    <2> USE SnapshotAssumption DEF SnapshotInv
    <2>1. ASSUME NEW v \in Workers, capture[v] # NoCapture, NEW j,
                 job' = IF capture[v].job
                        THEN [job EXCEPT ![capture[v].purchase] = j] ELSE job
          PROVE  v = w /\ j.state = "completed"
        <3>1. job'[p] # job[p]
            OBVIOUS
        <3>2. capture[v].purchase \in Purchases
            BY <2>1, CapturesAreCaptures
        <3>3. capture[v].job /\ capture[v].purchase = p /\ job'[p] = j
            BY <2>1, <3>1, <3>2 DEF TypeOK
        <3>4. v = w
            BY <2>1, <3>3 DEF JobsAreHeld
        <3> QED
            BY <3>3, <3>4
    <2>2. job[p] \in JobRows /\ job[p].attemptsMade < MaxAttempts
        BY DEF TypeOK, JobsAreHeld
    <2>3. Retried(job[p]).state # "completed"
        BY <2>2, RetriedIsTyped
    <2>4. ASSUME NEW v \in Workers, FinishCapture(v)
          PROVE  Captured(p)'
        <3>1. v = w /\ Settled(capture[v]).state = "completed"
            BY <2>1, <2>4 DEF FinishCapture
        <3>2. ~capture[w].skipped
            BY <2>3, <3>1 DEF Settled
        <3>3. capture[w].todo = {} /\ snapshot' = snapshot
            BY <2>4, <3>1 DEF FinishCapture
        <3> QED
            BY <3>2, <3>3 DEF CapturesKeepUp, Captured
    <2>5. ASSUME NEW v \in Workers, CaptureThrows(v)
          PROVE  FALSE
        <3> DEFINE j == Retried(job[capture[v].purchase])
        <3>1. /\ capture[v] # NoCapture
              /\ job' = IF capture[v].job
                        THEN [job EXCEPT ![capture[v].purchase] = j] ELSE job
            BY <2>5 DEF CaptureThrows
        <3> HIDE DEF j
        <3>2. v = w /\ j.state = "completed"
            BY <2>1, <3>1
        <3> QED
            BY <2>3, <3>2 DEF j
    <2>6. ASSUME NEW v \in Workers, WorkerDies(v)
          PROVE  FALSE
        <3>1. PICK state \in {"waiting", "failed"} :
                 /\ capture[v] # NoCapture
                 /\ job' = [job EXCEPT ![capture[v].purchase].state = state]
            BY <2>6 DEF WorkerDies
        <3>2. capture[v].purchase \in Purchases
            BY <3>1, CapturesAreCaptures
        <3>3. job'[p].state \in {job[p].state, state}
            BY <3>1, <3>2 DEF TypeOK, JobRows
        <3> QED
            BY <3>1, <3>3
    <2>7. ASSUME NEW q \in Purchases,
                 \/ RequestSnapshot(q)
                 \/ \E v \in Workers : TakeJob(v, q)
                 \/ ForgetJob(q)
          PROVE  FALSE
        <3>1. \E r : /\ job' = [job EXCEPT ![q] = r]
                     /\ r = job[q] \/ r.state # "completed"
            <4>1. CASE RequestSnapshot(q)
                BY <4>1 DEF RequestSnapshot
            <4>2. CASE \E v \in Workers : TakeJob(v, q)
                <5>1. job' = [job EXCEPT ![q] = [job[q] EXCEPT !.state = "active"]]
                    BY <4>2 DEF TakeJob, TypeOK
                <5>2. [job[q] EXCEPT !.state = "active"].state # "completed"
                    BY DEF TypeOK, JobRows
                <5> QED
                    BY <5>1, <5>2
            <4>3. CASE ForgetJob(q)
                BY <4>3 DEF ForgetJob
            <4> QED
                BY <2>7, <4>1, <4>2, <4>3
        <3> QED
            BY <3>1 DEF TypeOK
    <2>8. ASSUME \/ \E q \in Purchases :
                      \/ RecordPurchase(q) \/ LoseRequest(q)
                      \/ \E u \in Updates : ReadForUpdate(u, q)
                 \/ \E u \in Updates : CommitUpdate(u)
                 \/ MarketStep
                 \/ \E v \in Workers : \/ StartReconciling(v) \/ ReconcileNext(v)
                                       \/ \E n \in Metals : CaptureMetal(v, n)
          PROVE  FALSE
        <3>1. job' = job
            BY <2>8 DEF RecordPurchase, LoseRequest, ReadForUpdate, CommitUpdate,
                        MarketStep, StoreQuote, SyncFx, StartReconciling,
                        ReconcileNext, CaptureMetal, worker
        <3> QED
            BY <3>1
    <2> QED
        BY <2>4, <2>5, <2>6, <2>7, <2>8 DEF Next, ApiStep, WorkerStep
<1>2. Spec => []SnapshotInv
    BY SnapshotInvariance
<1>3. Spec => [][Step]_vars
    BY <1>1, <1>2, PTL DEF Spec
<1> QED
    BY <1>3 DEF CompletedJobsPricedEverything
=============================================================================
