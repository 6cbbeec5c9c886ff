------------------------ MODULE PurchaseIntakeProofs ------------------------
(***************************************************************************)
(* Theorems about PurchaseIntake, for any calls, drafts, keys, requests,   *)
(* files and limits.  Thirty actions come in a few shapes: a step that     *)
(* only reads (Moves), an end that writes no table (Ends), and the writes. *)
(* Every action is shown to have one of the shapes once, and each shape to *)
(* keep the invariant once.                                                *)
(***************************************************************************)
EXTENDS PurchaseIntake, FiniteSetTheorems, TLAPS

CreateStages == {"read", "looked", "locked", "clear", "inserted", "reassigned",
                 "keyTaken"}

\* Stages of a call that can still put something on the tables.
Ended(stage) == stage \in {"answered", "failed"}

\* A step of call c that goes on to another stage: it reads tables and locks.
\* Inside a finalization's transaction the draft does not change.
Moves(c, next, p) ==
    /\ UNCHANGED <<intake, purchase, file, intakeLock, result, desk>>
    /\ object' \in SUBSET Files
    /\ pc' = [pc EXCEPT ![c] = next]
    /\ plan' = [plan EXCEPT ![c] = p]
    /\ pc[c] \notin {"answered", "failed", "removing", "removingLoser", "reassigned"}
    /\ next \in Stages \ {"answered", "failed", "removing", "removingLoser"}
    /\ Fits(next, p) /\ p \in Plans
    /\ next = "filed" => file[p.file] # NoRow
    /\ InTransaction(c) => /\ next \in {"clear", "inserted", "reassigned"}
                           /\ p.intake = plan[c].intake
    /\ next \in {"locked", "clear", "inserted"} =>
          InTransaction(c) \/ p.intake = NoIntake
    /\ next = "reassigned" =>
          /\ InTransaction(c) /\ p.intake # NoIntake /\ p.body = plan[c].body
          /\ Acceptable(p.intake, p.body)
          /\ p.placed = [f \in LiveFiles(p.intake) |->
                           [purchase |-> c, item |-> file[f].item]]

\* A purchase that answers call c.
Names(c, q) ==
    /\ purchase[q] # NoPurchase
    /\ IF plan[c].intake # NoIntake
       THEN purchase[q].intake = plan[c].intake
       ELSE purchase[q].key = plan[c].key /\ purchase[q].body = plan[c].body

\* A stored file that answers upload c.
Stores(c, f) ==
    /\ f \in Calls /\ file[f] # NoRow
    /\ file[f].content = plan[c].content
    /\ plan[f].intake = plan[c].intake

\* An answer found in the tables.
Found(c, value) ==
    /\ value \in Results
    /\ value.op # "edit"
    /\ value.op = "purchase" => value.on \in Calls /\ Names(c, value.on)'
    /\ value.op = "upload" => Stores(c, value.on)'

\* The end of call c, or of its transaction, without a write.
Ends(c, outcome, value) ==
    /\ UNCHANGED <<intake, purchase, file, desk>>
    /\ object' \in SUBSET Files
    /\ Finish(c, outcome, value)
    /\ \/ plan' = plan
       \/ /\ pc[c] = "new" /\ outcome = "answered"
          /\ \E p \in RepeatPlans : plan' = [plan EXCEPT ![c] = p]
    /\ ~Ended(pc[c])
    /\ outcome \in {"answered", "failed", "keyTaken", "removing", "removingLoser"}
    /\ Fits(outcome, plan[c])
    /\ pc[c] = "stored" => outcome # "answered"
    /\ pc[c] = "removing" => outcome \in {"answered", "failed"}
    /\ \/ value = NoResult
       \/ outcome = "answered" /\ Found(c, value)

\* What reads and writes of a file row that keep it in its place have in common.
Rewrites(c, row, base) ==
    LET f == plan[c].file
    IN  /\ plan[c] \in FilePlans /\ pc[c] = "filed"
        /\ f \in Files /\ file[f] # NoRow /\ ~file[f].deleted
        /\ file[f].owner \in Intakes => LockDraftIntake(file[f].owner)
        /\ row \in FileRows
        /\ row.owner = file[f].owner /\ row.content = file[f].content
        /\ row.version = file[f].version + 1
        /\ base \in Nat /\ (base = file[f].version \/ base = 0)
        /\ \/ row.derivatives = file[f].derivatives
           \/ /\ row.derivatives = file[f].derivatives + 1
              /\ file[f].owner \in Intakes => RoomFor(file[f].owner)
        /\ file' = [file EXCEPT ![f] = row]
        /\ UNCHANGED <<intake, purchase, object, plan, desk>>
        /\ Answer(c, EditResult(f, base))

-----------------------------------------------------------------------------
(* What the rows, plans and results of a state look like *)

LEMMA RowTypes ==
    ASSUME TypeOK, NEW f \in Files, file[f] # NoRow
    PROVE  file[f] \in FileRows
BY DEF TypeOK

LEMMA PurchaseTypes ==
    ASSUME TypeOK, NEW q \in Calls, Committed(q)
    PROVE  purchase[q] \in PurchaseRows
BY DEF TypeOK, Committed

\* Nothing is committed or stored by a call that has not ended.
LEMMA OpenCallsShowNothing ==
    ASSUME IntakeInv, NEW c \in Calls, ~Ended(pc[c])
    PROVE  /\ result[c] = NoResult
           /\ ~Committed(c)
           /\ pc[c] # "removing" => file[c] = NoRow
BY DEF IntakeInv, OnlyTheEndShows, Ended

\* The files of a draft, live or retained, are files.
LEMMA LiveFilesAreFiles ==
    ASSUME NEW i
    PROVE  LiveFiles(i) \subseteq Files
BY DEF LiveFiles

-----------------------------------------------------------------------------
(* Every step has one of the shapes *)

LEMMA Proceeding ==
    ASSUME IntakeInv, NEW c \in Calls, NEW next, NEW p, Proceed(c, next, p),
           pc[c] = "new", next \in {"saving", "cancelling", "read", "uploading",
                                    "filed"},
           Fits(next, p), p \in Plans, next = "filed" => file[p.file] # NoRow
    PROVE  Moves(c, next, p)
BY DEF Moves, Proceed, IntakeInv, TypeOK, tables, InTransaction, Stages

LEMMA DraftShapes ==
    ASSUME IntakeInv, NEW c \in Calls, DraftStep(c)
    PROVE  \/ \E next, p : Moves(c, next, p)
           \/ \E outcome, value : Ends(c, outcome, value)
           \/ SaveDraft(c)
           \/ Cancel(c)
<1> USE DEF IntakeInv
<1>1. ASSUME NEW i \in desk.intakes, i \in Intakes, ReadForSave(c, i)
      PROVE  \E next, p : Moves(c, next, p)
    <2> DEFINE p == [op |-> "save", intake |-> i, version |-> intake[i].version]
    <2>1. p \in SavePlans
        BY <1>1 DEF SavePlans, TypeOK, IntakeRows
    <2>2. Fits("saving", p) /\ p \in Plans
        BY <2>1 DEF Fits, Plans
    <2>3. Proceed(c, "saving", p) /\ pc[c] = "new"
        BY <1>1 DEF ReadForSave
    <2> HIDE DEF p
    <2> QED
        BY <2>2, <2>3, Proceeding
<1>2. ASSUME NEW i \in desk.intakes, i \in Intakes, ReadForCancel(c, i)
      PROVE  \E next, p : Moves(c, next, p)
    <2> DEFINE p == [op |-> "cancel", intake |-> i]
    <2>1. p \in CancelPlans
        BY <1>2 DEF CancelPlans
    <2>2. Fits("cancelling", p) /\ p \in Plans
        BY <2>1 DEF Fits, Plans
    <2>3. Proceed(c, "cancelling", p) /\ pc[c] = "new"
        BY <1>2 DEF ReadForCancel
    <2> HIDE DEF p
    <2> QED
        BY <2>2, <2>3, Proceeding
<1>3. ASSUME NEW i \in Intakes, pc[c] \in {"new", "cancelling"},
             AnswerFrom(c, CancelResult(i))
      PROVE  Ends(c, "answered", CancelResult(i))
    <2>1. CancelResult(i) \in Results /\ CancelResult(i).op = "cancel"
        BY DEF CancelResult, Results
    <2>2. Found(c, CancelResult(i))
        BY <2>1 DEF Found
    <2> QED
        BY <1>3, <2>2 DEF Ends, AnswerFrom, Answer, Finish, tables, Ended, Fits, TypeOK
<1>4. ASSUME CancelRaced(c)
      PROVE  \E outcome, value : Ends(c, outcome, value)
    <2>1. plan[c].intake \in Intakes
        BY <1>4 DEF CancelRaced, PlansFitStages, Fits, CancelPlans
    <2> QED
        BY <1>3, <1>4, <2>1 DEF CancelRaced
<1>5. \A i \in desk.intakes : AlreadyCancelled(c, i) /\ i \in Intakes
        => \E outcome, value : Ends(c, outcome, value)
    BY <1>3 DEF AlreadyCancelled
<1>6. desk.intakes \subseteq Intakes
    BY IntakeAssumption DEF TypeOK
<1> QED
    BY <1>1, <1>2, <1>4, <1>5, <1>6 DEF DraftStep

LEMMA StartsFromReading ==
    ASSUME IntakeInv, NEW c \in Calls, pc[c] = "new", NEW i \in Intakes \cup {NoIntake},
           NEW k \in desk.keys, NEW b \in Bodies,
           Proceed(c, "read", [op |-> "create", intake |-> i, key |-> k,
                               body |-> b, placed |-> <<>>])
    PROVE  \E next, p : Moves(c, next, p)
<1> DEFINE p == [op |-> "create", intake |-> i, key |-> k, body |-> b, placed |-> <<>>]
<1>1. k \in Keys
    BY IntakeAssumption DEF IntakeInv, TypeOK
<1>2. <<>> \in [{} -> Placements] /\ {} \in SUBSET Files
    OBVIOUS
<1>3. <<>> \in UNION {[S -> Placements] : S \in SUBSET Files}
    BY <1>2
<1>4. p \in CreatePlans
    BY <1>1, <1>3 DEF CreatePlans
<1>5. Fits("read", p) /\ p \in Plans
    BY <1>4 DEF Fits, Plans
<1>6. Proceed(c, "read", p)
    OBVIOUS
<1> HIDE DEF p
<1> QED
    BY <1>5, <1>6, Proceeding

\* A purchase found by the draft or by the key, and matching, answers the call.
LEMMA FoundPurchase ==
    ASSUME IntakeInv, NEW c \in Calls, NEW q \in Calls, UNCHANGED purchase,
           Names(c, q), plan'[c].intake = plan[c].intake,
           plan'[c].key = plan[c].key, plan'[c].body = plan[c].body
    PROVE  Found(c, PurchaseResult(q))
<1>1. PurchaseResult(q) \in Results
    BY DEF PurchaseResult, Results
<1> QED
    BY <1>1 DEF Found, PurchaseResult, Names

LEMMA PurchaseShapes ==
    ASSUME IntakeInv, NEW c \in Calls, PurchaseStep(c)
    PROVE  \/ \E next, p : Moves(c, next, p)
           \/ \E outcome, value : Ends(c, outcome, value)
           \/ LockIntake(c)
           \/ CommitPurchase(c)
<1> USE DEF IntakeInv
<1>0. desk.intakes \subseteq Intakes
    BY IntakeAssumption DEF TypeOK
<1>1. ASSUME NEW i \in Intakes, ReadForFinalize(c, i)
      PROVE  \E next, p : Moves(c, next, p)
    BY <1>1, StartsFromReading DEF ReadForFinalize
<1>2. CASE StartCreate(c)
    BY <1>2, StartsFromReading DEF StartCreate
<1>3. ASSUME NEW i \in Intakes, AlreadyFinalized(c, i)
      PROVE  \E outcome, value : Ends(c, outcome, value)
    <2> DEFINE p == [op |-> "repeat", intake |-> i]
    <2>1. PICK q \in ByIntake(i) : Answer(c, PurchaseResult(q)) /\ plan' = [plan EXCEPT ![c] = p]
        BY <1>3 DEF AlreadyFinalized
    <2>2. p \in RepeatPlans
        BY DEF RepeatPlans
    <2>3. q \in Calls /\ Committed(q) /\ purchase[q].intake = i /\ i # NoIntake
        BY <2>1 DEF ByIntake
    <2>4. plan'[c].intake = i
        BY <2>1 DEF TypeOK
    <2>5. PurchaseResult(q) \in Results
        BY <2>3 DEF PurchaseResult, Results
    <2>6. Found(c, PurchaseResult(q))
        BY <1>3, <2>3, <2>4, <2>5
        DEF Found, Names, PurchaseResult, AlreadyFinalized, tables, Committed
    <2>7. Ends(c, "answered", PurchaseResult(q))
        <3> HIDE DEF p
        <3> QED
            BY <1>3, <2>1, <2>2, <2>6
            DEF Ends, AlreadyFinalized, Answer, Finish, tables, Ended, Fits, TypeOK
    <2> QED
        BY <2>7
<1>4. ASSUME NEW here, NEW next, <<here, next>> \in {<<"read", "looked">>, <<"locked", "clear">>},
             Lookup(c, here, next)
      PROVE  Moves(c, next, plan[c])
    BY <1>4 DEF Lookup, Proceed, Moves, tables, TypeOK, PlansFitStages, Fits,
                CreatePlans, Plans, InTransaction, Stages
<1>5. CASE BeginDirect(c)
    <2>1. Moves(c, "locked", plan[c])
        BY <1>5 DEF BeginDirect, Proceed, Moves, tables, TypeOK, PlansFitStages, Fits,
                    CreatePlans, Plans, InTransaction, Stages
    <2> QED
        BY <2>1
<1>6. CASE InsertPurchase(c)
    <2>1. Moves(c, "inserted", plan[c])
        BY <1>6 DEF InsertPurchase, Proceed, Moves, tables, TypeOK, PlansFitStages, Fits,
                    CreatePlans, Plans, InTransaction, Stages
    <2> QED
        BY <2>1
<1>7. ASSUME NEW q \in Calls, Names(c, q), AnswerFrom(c, PurchaseResult(q)),
             ~Ended(pc[c]), pc[c] # "stored"
      PROVE  Ends(c, "answered", PurchaseResult(q))
    <2>1. Found(c, PurchaseResult(q))
        BY <1>7, FoundPurchase DEF AnswerFrom, tables
    <2> QED
        BY <1>7, <2>1
        DEF Ends, AnswerFrom, Answer, Finish, tables, Ended, Fits, TypeOK
<1>8. CASE Replay(c)
    <2>1. PICK q \in ByKey(plan[c].key) : Matches(c, q) /\ AnswerFrom(c, PurchaseResult(q))
        BY <1>8 DEF Replay
    <2>2. q \in Calls /\ Names(c, q)
        BY <2>1 DEF ByKey, Names, Matches, Committed
    <2> QED
        BY <1>7, <1>8, <2>1, <2>2 DEF Replay, Ended
<1>9. CASE LoseIntake(c)
    <2>1. PICK q \in ByIntake(plan[c].intake) : AnswerFrom(c, PurchaseResult(q))
        BY <1>9 DEF LoseIntake
    <2>2. q \in Calls /\ Names(c, q)
        BY <1>9, <2>1 DEF ByIntake, Names, Committed
    <2> QED
        BY <1>7, <1>9, <2>1, <2>2 DEF LoseIntake, Ended
<1>10. CASE LoseInsert(c)
    <2>1. Ends(c, "keyTaken", NoResult)
        BY <1>10
        DEF LoseInsert, Ends, Finish, tables, Ended, Fits, TypeOK, PlansFitStages
    <2> QED
        BY <2>1
<1>11. CASE Reassign(c)
    <2> DEFINE i == plan[c].intake
               placed == [f \in LiveFiles(i) |-> [purchase |-> c, item |-> file[f].item]]
               p == [plan[c] EXCEPT !.placed = placed]
    <2>1. /\ pc[c] = "inserted" /\ i # NoIntake
          /\ Acceptable(i, plan[c].body)
          /\ Proceed(c, "reassigned", p)
        BY <1>11 DEF Reassign
    <2>2. plan[c] \in CreatePlans
        BY <2>1 DEF PlansFitStages, Fits
    <2>3. \A f \in LiveFiles(i) : [purchase |-> c, item |-> file[f].item] \in Placements
        BY RowTypes DEF LiveFiles, FileRows, Placements
    <2>4. placed \in UNION {[S -> Placements] : S \in SUBSET Files}
        BY <2>3, LiveFilesAreFiles
    <2>5. /\ p \in CreatePlans /\ p.intake = i /\ p.body = plan[c].body
          /\ p.placed = placed
        <3> HIDE DEF placed
        <3> QED
            BY <2>2, <2>4 DEF CreatePlans
    <2>6. Fits("reassigned", p) /\ p \in Plans
        BY <2>1, <2>5 DEF Fits, Plans
    <2>7. Moves(c, "reassigned", p)
        <3>1. Acceptable(p.intake, p.body)
            BY <2>1, <2>5
        <3>2. p.placed = [f \in LiveFiles(p.intake) |->
                             [purchase |-> c, item |-> file[f].item]]
            BY <2>5
        <3> HIDE DEF p, placed, i
        <3> QED
            BY <2>1, <2>5, <2>6, <3>1, <3>2
            DEF Moves, Proceed, tables, TypeOK, InTransaction, Stages, i
    <2> QED
        BY <2>7
<1> QED
    BY <1>0, <1>1, <1>2, <1>3, <1>4, <1>5, <1>6, <1>8, <1>9, <1>10, <1>11
    DEF PurchaseStep

\* A stored file of the draft and the content asked for answers an upload.
LEMMA FoundUpload ==
    ASSUME IntakeInv, NEW c \in Calls, UNCHANGED <<file, plan>>,
           NEW f \in ByUploadKey(plan[c].intake, plan[c].key), SameUpload(c, f)
    PROVE  Found(c, UploadResult(f))
<1>1. f \in Calls /\ UploadResult(f) \in Results
    BY DEF ByUploadKey, UploadResult, Results
<1>2. Stores(c, f)
    BY DEF ByUploadKey, SameUpload, Stores
<1>3. Stores(c, f)'
    BY <1>2 DEF Stores
<1> QED
    BY <1>1, <1>3 DEF Found, UploadResult

\* A row with some fields changed is a row.
LEMMA DeletedRows ==
    ASSUME NEW old \in FileRows
    PROVE  [old EXCEPT !.deleted = TRUE, !.version = @ + 1] \in FileRows
<1> DEFINE up == old.version + 1
<1>1. up \in Nat
    BY DEF FileRows
<1> HIDE DEF up
<1>2. [old EXCEPT !.deleted = TRUE, !.version = up] \in FileRows
    BY <1>1 DEF FileRows
<1> QED
    BY <1>2 DEF up

LEMMA ReviewedRows ==
    ASSUME NEW old \in FileRows, NEW mode \in Modes, NEW confirm \in BOOLEAN,
           NEW item \in Items \cup {NoItem}
    PROVE  [old EXCEPT !.mode = mode, !.confirmed = confirm, !.item = item,
                       !.version = @ + 1] \in FileRows
<1> DEFINE up == old.version + 1
<1>1. up \in Nat
    BY DEF FileRows
<1> HIDE DEF up
<1>2. [old EXCEPT !.mode = mode, !.confirmed = confirm, !.item = item,
                  !.version = up] \in FileRows
    BY <1>1 DEF FileRows
<1> QED
    BY <1>2 DEF up

LEMMA CroppedRows ==
    ASSUME NEW old \in FileRows, old.derivatives < MaxRevisions
    PROVE  [old EXCEPT !.derivatives = @ + 1, !.version = @ + 1] \in FileRows
<1> DEFINE up == old.version + 1
           more == old.derivatives + 1
<1>1. up \in Nat /\ more \in 0..MaxRevisions
    BY IntakeAssumption DEF FileRows
<1> HIDE DEF up, more
<1>2. [old EXCEPT !.derivatives = more, !.version = up] \in FileRows
    BY <1>1 DEF FileRows
<1> QED
    BY <1>2 DEF up, more

\* What the three writes of a file row have in common.
LEMMA Rewriting ==
    ASSUME IntakeInv, NEW c \in Calls, pc[c] = "filed", InScope(c), NEW row, NEW base \in Nat,
           WriteFile(c, row, base),
           row \in FileRows, row.owner = file[plan[c].file].owner,
           row.content = file[plan[c].file].content,
           row.version = file[plan[c].file].version + 1,
           base = file[plan[c].file].version \/ base = 0,
           \/ row.derivatives = file[plan[c].file].derivatives
           \/ /\ row.derivatives = file[plan[c].file].derivatives + 1
              /\ plan[c].scope \in Intakes => RoomFor(plan[c].scope),
           plan[c].file \in Files, file[plan[c].file] \in FileRows
    PROVE  Rewrites(c, row, base)
<1>1. plan[c] \in FilePlans
    BY DEF IntakeInv, PlansFitStages, Fits
<1>2. file[plan[c].file] # NoRow
    BY IdentifiersDiffer
<1>3. intake' = intake
    BY DEF WriteFile, TouchedByLock, IntakeInv, TypeOK
<1> QED
    BY <1>1, <1>2, <1>3 DEF Rewrites, WriteFile, InScope

\* A planned change of a file finds its row.
LEMMA ScopedRows ==
    ASSUME IntakeInv, NEW c \in Calls, pc[c] = "filed"
    PROVE  /\ plan[c].file \in Files
           /\ file[plan[c].file] \in FileRows
           /\ plan[c].op = "review" =>
                /\ plan[c].mode \in Modes /\ plan[c].confirm \in BOOLEAN
                /\ plan[c].item \in Items \cup {NoItem} /\ plan[c].version \in Nat
           /\ plan[c].op = "variant" => plan[c].version \in Nat
BY RowTypes DEF IntakeInv, PlansFitStages, Fits, FilePlans

LEMMA FileShapes ==
    ASSUME IntakeInv, NEW c \in Calls, FileStep(c)
    PROVE  \/ \E next, p : Moves(c, next, p)
           \/ \E outcome, value : Ends(c, outcome, value)
           \/ InsertFile(c)
           \/ \E row, base : Rewrites(c, row, base)
<1> USE DEF IntakeInv
<1>0. desk.intakes \subseteq Intakes
    BY IntakeAssumption DEF TypeOK
<1>1. ASSUME NEW i \in Intakes, ReadForUpload(c, i)
      PROVE  \E next, p : Moves(c, next, p)
    <2>1. PICK u \in UploadKeys, content \in Contents, mode \in Modes,
               item \in Items \cup {NoItem} :
               Proceed(c, "uploading", [op |-> "upload", intake |-> i, key |-> u,
                                        content |-> content, mode |-> mode, item |-> item])
        BY <1>1 DEF ReadForUpload
    <2> DEFINE p == [op |-> "upload", intake |-> i, key |-> u, content |-> content,
                     mode |-> mode, item |-> item]
    <2>2. p \in UploadPlans
        BY DEF UploadPlans
    <2>3. Fits("uploading", p) /\ p \in Plans
        BY <2>2 DEF Fits, Plans
    <2>4. Proceed(c, "uploading", p) /\ pc[c] = "new"
        BY <1>1, <2>1 DEF ReadForUpload
    <2> HIDE DEF p
    <2> QED
        BY <2>3, <2>4, Proceeding
<1>2. CASE PutObject(c)
    <2>1. object' \in SUBSET Files
        BY <1>2 DEF PutObject, TypeOK, Files
    <2>2. plan' = [plan EXCEPT ![c] = plan[c]]
        BY <1>2 DEF PutObject, TypeOK
    <2>3. plan[c] \in UploadPlans
        BY <1>2 DEF PutObject, PlansFitStages, Fits
    <2>4. Moves(c, "stored", plan[c])
        BY <1>2, <2>1, <2>2, <2>3
        DEF Moves, PutObject, Fits, Plans, InTransaction, Stages
    <2> QED
        BY <2>4
<1>3. CASE ReplayUpload(c)
    <2>1. PICK f \in ByUploadKey(plan[c].intake, plan[c].key) :
               SameUpload(c, f) /\ AnswerFrom(c, UploadResult(f))
        BY <1>3 DEF ReplayUpload
    <2>2. Found(c, UploadResult(f))
        BY <2>1, FoundUpload DEF AnswerFrom, tables
    <2>3. Ends(c, "answered", UploadResult(f))
        BY <1>3, <2>1, <2>2
        DEF Ends, ReplayUpload, AnswerFrom, Answer, Finish, tables, Ended, Fits, TypeOK
    <2> QED
        BY <2>3
<1>4. CASE LoseUpload(c)
    <2>1. Ends(c, "removingLoser", NoResult)
        BY <1>4
        DEF LoseUpload, Ends, Finish, tables, Ended, Fits, TypeOK, PlansFitStages
    <2> QED
        BY <2>1
<1>5. CASE FailUpload(c)
    <2>1. Ends(c, "removing", NoResult)
        BY <1>5
        DEF FailUpload, Ends, Finish, tables, Ended, Fits, TypeOK, PlansFitStages
    <2> QED
        BY <2>1
<1>6. CASE RemoveOrphan(c)
    <2>1. object' \in SUBSET Files
        BY <1>6 DEF RemoveOrphan, TypeOK
    <2>2. ASSUME NEW f \in ByUploadKey(plan[c].intake, plan[c].key), SameUpload(c, f),
                 Answer(c, UploadResult(f))
          PROVE  Ends(c, "answered", UploadResult(f))
        <3>1. Found(c, UploadResult(f))
            BY <1>6, <2>2, FoundUpload DEF RemoveOrphan
        <3> QED
            BY <1>6, <2>1, <2>2, <3>1
            DEF Ends, RemoveOrphan, Answer, Finish, Ended, Fits, TypeOK
    <2>3. ASSUME Finish(c, "failed", NoResult)
          PROVE  Ends(c, "failed", NoResult)
        BY <1>6, <2>1, <2>3 DEF Ends, RemoveOrphan, Finish, Ended, Fits
    <2> QED
        BY <1>6, <2>2, <2>3 DEF RemoveOrphan
<1>7. ASSUME NEW f \in Files, ReadFile(c, f)
      PROVE  \E next, p : Moves(c, next, p)
    <2>1. file[f] \in FileRows /\ pc[c] = "new"
        BY <1>7, RowTypes DEF ReadFile
    <2>2. file[f].owner \in Intakes \cup Placements /\ file[f].version \in Nat
        BY <2>1 DEF FileRows
    <2>3. ASSUME NEW p \in FilePlans, p.file = f, Proceed(c, "filed", p)
          PROVE  \E next, q : Moves(c, next, q)
        <3>1. Fits("filed", p) /\ p \in Plans
            BY DEF Fits, Plans
        <3> QED
            BY <1>7, <2>1, <2>3, <3>1, Proceeding DEF ReadFile
    <2>4. [op |-> "delete", file |-> f, scope |-> file[f].owner] \in FilePlans
        BY <2>2 DEF FilePlans
    <2>5. [op |-> "variant", file |-> f, scope |-> file[f].owner,
           version |-> file[f].version] \in FilePlans
        BY <2>2 DEF FilePlans
    <2>6. \A mode \in Modes, confirm \in BOOLEAN, item \in Items \cup {NoItem} :
             [op |-> "review", file |-> f, scope |-> file[f].owner,
              version |-> file[f].version, mode |-> mode, confirm |-> confirm,
              item |-> item] \in FilePlans
        BY <2>2 DEF FilePlans
    <2> QED
        BY <1>7, <2>3, <2>4, <2>5, <2>6 DEF ReadFile
<1> DEFINE old == file[plan[c].file]
<1>8. CASE SoftDelete(c)
    <2> DEFINE row == [old EXCEPT !.deleted = TRUE, !.version = @ + 1]
    <2>1. plan[c].file \in Files /\ old \in FileRows
        BY <1>8, ScopedRows DEF SoftDelete
    <2>2. /\ row.owner = old.owner /\ row.content = old.content
          /\ row.version = old.version + 1 /\ row.derivatives = old.derivatives
        BY <2>1 DEF FileRows
    <2>5. row \in FileRows
        BY <2>1, DeletedRows
    <2>3. WriteFile(c, row, 0) /\ InScope(c) /\ pc[c] = "filed"
        BY <1>8 DEF SoftDelete
    <2> HIDE DEF row
    <2>4. Rewrites(c, row, 0)
        BY <2>1, <2>2, <2>3, <2>5, Rewriting
    <2> QED
        BY <2>4
<1>9. CASE Review(c)
    <2> DEFINE row == [old EXCEPT !.mode = plan[c].mode, !.confirmed = plan[c].confirm,
                                  !.item = plan[c].item, !.version = @ + 1]
    <2>1. /\ plan[c].file \in Files /\ old \in FileRows
          /\ plan[c].mode \in Modes /\ plan[c].confirm \in BOOLEAN
          /\ plan[c].item \in Items \cup {NoItem} /\ plan[c].version \in Nat
        BY <1>9, ScopedRows DEF Review
    <2>2. /\ row.owner = old.owner /\ row.content = old.content
          /\ row.version = old.version + 1 /\ row.derivatives = old.derivatives
        BY <2>1 DEF FileRows
    <2>5. row \in FileRows
        BY <2>1, ReviewedRows
    <2>3. /\ WriteFile(c, row, plan[c].version) /\ InScope(c) /\ pc[c] = "filed"
          /\ plan[c].version = old.version
        BY <1>9 DEF Review, SeenVersion
    <2> HIDE DEF row
    <2>4. Rewrites(c, row, plan[c].version)
        BY <2>1, <2>2, <2>3, <2>5, Rewriting
    <2> QED
        BY <2>4
<1>10. CASE UploadVariant(c)
    <2> DEFINE row == [old EXCEPT !.derivatives = @ + 1, !.version = @ + 1]
    <2>1. /\ plan[c].file \in Files /\ old \in FileRows
          /\ plan[c].version \in Nat
        BY <1>10, ScopedRows DEF UploadVariant
    <2>2. /\ old.derivatives < MaxRevisions
          /\ plan[c].scope \in Intakes => RoomFor(plan[c].scope)
          /\ WriteFile(c, row, plan[c].version) /\ InScope(c) /\ pc[c] = "filed"
          /\ plan[c].version = old.version
        BY <1>10 DEF UploadVariant, SeenVersion
    <2>3. /\ row.owner = old.owner /\ row.content = old.content
          /\ row.version = old.version + 1 /\ row.derivatives = old.derivatives + 1
        BY <2>1 DEF FileRows
    <2>5. row \in FileRows
        BY <2>1, <2>2, CroppedRows
    <2> HIDE DEF row
    <2>4. Rewrites(c, row, plan[c].version)
        BY <2>1, <2>2, <2>3, <2>5, Rewriting
    <2> QED
        BY <2>4
<1> HIDE DEF old
<1> QED
    BY <1>0, <1>1, <1>2, <1>3, <1>4, <1>5, <1>6, <1>7, <1>8, <1>9, <1>10
    DEF FileStep

\* Every step has one of the shapes, or leaves everything as it was.
LEMMA StepShapes ==
    ASSUME IntakeInv, [Next]_vars
    PROVE  \/ \E c \in Calls : \E next, p : Moves(c, next, p)
           \/ \E c \in Calls : \E outcome, value : Ends(c, outcome, value)
           \/ \E c \in Calls : \/ SaveDraft(c)
                              \/ Cancel(c)
                              \/ LockIntake(c)
                              \/ CommitPurchase(c)
                              \/ InsertFile(c)
           \/ \E c \in Calls : \E row, base : Rewrites(c, row, base)
           \/ UNCHANGED vars
<1>1. ASSUME NEW c \in Calls, Abandon(c)
      PROVE  Ends(c, "failed", NoResult)
    BY <1>1 DEF Abandon, Ends, Finish, tables, Ended, Fits, IntakeInv, TypeOK
<1>2. CASE Idle
    BY <1>2 DEF Idle
<1> QED
    BY <1>1, <1>2, DraftShapes, PurchaseShapes, FileShapes DEF Next

-----------------------------------------------------------------------------
(* The inductive invariant *)

\* The answer of call c names x, and x is what the call asked for.
Stands(c, x) ==
    /\ result[c].on = x
    /\ result[c].op = "purchase" => Names(c, x)
    /\ result[c].op = "upload" => Stores(c, x)

\* Every answer so far still names what the call asked for.
AnswersStand ==
    \A c \in Calls :
       (result[c] # NoResult /\ result[c].op \in {"purchase", "upload"})
         => \E x \in Calls : Stands(c, x)

IntakeIInv ==
    /\ IntakeInv
    /\ CompletedIffPurchased
    /\ AnswersStand
    /\ NothingEscapesFinalization
    /\ EditsAreNumbered
    /\ RetainedWithinQuota

\* A step that reads keeps the invariant of IntakeInv.
LEMMA MovesKeepInv ==
    ASSUME IntakeInv, NEW c \in Calls, NEW next, NEW p, Moves(c, next, p)
    PROVE  IntakeInv'
<1> USE DEF IntakeInv
<1>1. \A d \in Calls : /\ pc'[d] = IF d = c THEN next ELSE pc[d]
                       /\ plan'[d] = IF d = c THEN p ELSE plan[d]
    BY DEF Moves, TypeOK
<1>2. /\ result[c] = NoResult /\ ~Committed(c) /\ file[c] = NoRow
      /\ ~Ended(next) /\ next \notin {"removing", "removingLoser"}
    BY OpenCallsShowNothing DEF Moves, Ended
<1>3. TypeOK'
    BY DEF Moves, TypeOK
<1>4. PlansFitStages'
    BY <1>1 DEF PlansFitStages, Moves
<1>5. OnlyTheEndShows'
    BY <1>1, <1>2 DEF OnlyTheEndShows, Moves, Committed
<1>6. FinalizationOwnsItsDraft'
    <2> SUFFICES ASSUME NEW d \in Calls, NEW i \in Intakes
                 PROVE  /\ InTransaction(d)' /\ plan'[d].intake = i =>
                             intakeLock'[i] = d /\ Draft(i)' /\ ByIntake(i)' = {}
                        /\ intakeLock'[i] = d => InTransaction(d)' /\ plan'[d].intake = i
                        /\ pc'[d] = "reassigned" /\ plan'[d].intake = i =>
                             FilesWhatIsLive(d, i)'
        BY DEF FinalizationOwnsItsDraft
    <2>1. /\ LiveFiles(i)' = LiveFiles(i) /\ ByIntake(i)' = ByIntake(i)
          /\ Draft(i)' = Draft(i) /\ intakeLock' = intakeLock /\ file' = file
        BY DEF Moves, LiveFiles, ByIntake, Committed, Draft
    <2>2. /\ InTransaction(d) /\ plan[d].intake = i =>
              intakeLock[i] = d /\ Draft(i) /\ ByIntake(i) = {}
          /\ intakeLock[i] = d => InTransaction(d) /\ plan[d].intake = i
          /\ pc[d] = "reassigned" /\ plan[d].intake = i => FilesWhatIsLive(d, i)
        BY DEF FinalizationOwnsItsDraft
    <2>3. CASE d = c
        <3>1. InTransaction(d)' /\ plan'[d].intake = i =>
                  InTransaction(d) /\ plan[d].intake = i
            BY <1>1, <2>3, IdentifiersDiffer DEF Moves, InTransaction
        <3>2. InTransaction(d) /\ plan[d].intake = i =>
                  InTransaction(d)' /\ plan'[d].intake = i
            BY <1>1, <2>3 DEF Moves, InTransaction
        <3>3. pc'[d] = "reassigned" /\ plan'[d].intake = i =>
                  /\ Acceptable(i, p.body) /\ plan'[d].body = p.body
                  /\ plan'[d].placed = [f \in LiveFiles(i) |->
                                           [purchase |-> c, item |-> file[f].item]]
            BY <1>1, <2>3 DEF Moves
        <3>4. pc'[d] = "reassigned" /\ plan'[d].intake = i => FilesWhatIsLive(d, i)'
            BY <2>1, <2>3, <3>3 DEF FilesWhatIsLive, Acceptable
        <3> QED
            BY <2>1, <2>2, <3>1, <3>2, <3>4
    <2>4. CASE d # c
        <3>1. pc'[d] = pc[d] /\ plan'[d] = plan[d]
            BY <1>1, <2>4
        <3>2. FilesWhatIsLive(d, i) => FilesWhatIsLive(d, i)'
            BY <2>1, <3>1 DEF FilesWhatIsLive, Acceptable
        <3> QED
            BY <2>1, <2>2, <3>1, <3>2 DEF InTransaction
    <2> QED
        BY <2>3, <2>4
<1>7. EditsAreBehind'
    BY DEF EditsAreBehind, Moves
<1> QED
    BY <1>3, <1>4, <1>5, <1>6, <1>7

\* As long as the tables and the results stay, so does what they say.
LEMMA SameTablesSayTheSame ==
    ASSUME IntakeIInv, UNCHANGED <<intake, purchase, file, result>>
    PROVE  /\ CompletedIffPurchased'
           /\ NothingEscapesFinalization'
           /\ EditsAreNumbered'
           /\ RetainedWithinQuota'
<1>1. CompletedIffPurchased'
    BY DEF IntakeIInv, CompletedIffPurchased, ByIntake, Committed
<1>2. NothingEscapesFinalization'
    BY DEF IntakeIInv, NothingEscapesFinalization, LiveFiles
<1>3. VersionCountsEdits' /\ AcceptedEditsNeverCollide'
    BY DEF IntakeIInv, EditsAreNumbered, VersionCountsEdits, AcceptedEditsNeverCollide,
           Draft
<1>4. RetainedWithinQuota'
    BY DEF IntakeIInv, RetainedWithinQuota, Retained, RetainedObjects
<1> QED
    BY <1>1, <1>2, <1>3, <1>4 DEF EditsAreNumbered

\* An earlier answer stands as long as its call's plan, the purchase or the row
\* it names and the plan of the upload it names do not change.
LEMMA AnswersStandStill ==
    ASSUME NEW d \in Calls, result'[d] = result[d], plan'[d] = plan[d],
           \A q \in Calls : Committed(q) => purchase'[q] = purchase[q],
           \A f \in Calls : file[f] # NoRow => /\ file'[f] # NoRow
                                               /\ file'[f].content = file[f].content
                                               /\ plan'[f] = plan[f],
           \E x \in Calls : Stands(d, x)
    PROVE  \E x \in Calls : Stands(d, x)'
<1>1. PICK x \in Calls : Stands(d, x)
    OBVIOUS
<1>2. Names(d, x) => Names(d, x)'
    BY DEF Names, Committed
<1>3. Stores(d, x) => Stores(d, x)'
    BY DEF Stores
<1> QED
    BY <1>1, <1>2, <1>3 DEF Stands

LEMMA MovesKeep ==
    ASSUME IntakeIInv, NEW c \in Calls, NEW next, NEW p, Moves(c, next, p)
    PROVE  IntakeIInv'
<1>1. IntakeInv
    BY DEF IntakeIInv
<1>2. IntakeInv'
    BY <1>1, MovesKeepInv
<1>3. /\ result[c] = NoResult /\ file[c] = NoRow
      /\ UNCHANGED <<intake, purchase, file, result>>
    BY <1>1, OpenCallsShowNothing DEF Moves, Ended
<1>4. \A d \in Calls \ {c} : plan'[d] = plan[d]
    BY <1>1 DEF Moves, IntakeInv, TypeOK
<1>5. AnswersStand'
    <2> SUFFICES ASSUME NEW d \in Calls, result'[d] # NoResult,
                        result'[d].op \in {"purchase", "upload"}
                 PROVE  \E x \in Calls : Stands(d, x)'
        BY DEF AnswersStand
    <2>1. \A f \in Calls : file[f] # NoRow => plan'[f] = plan[f]
        BY <1>3, <1>4
    <2>2. result'[d] = result[d] /\ plan'[d] = plan[d]
        BY <1>3, <1>4
    <2>3. \E x \in Calls : Stands(d, x)
        BY <2>2 DEF IntakeIInv, AnswersStand
    <2> QED
        BY <1>3, <2>1, <2>2, <2>3, AnswersStandStill
<1> QED
    BY <1>2, <1>3, <1>5, SameTablesSayTheSame DEF IntakeIInv

\* An end that writes no table keeps the invariant of IntakeInv.
LEMMA EndsKeepInv ==
    ASSUME IntakeInv, NEW c \in Calls, NEW outcome, NEW value, Ends(c, outcome, value)
    PROVE  IntakeInv'
<1> USE DEF IntakeInv
<1>1. /\ \A d \in Calls : /\ pc'[d] = IF d = c THEN outcome ELSE pc[d]
                          /\ result'[d] = IF d = c THEN value ELSE result[d]
                          /\ d # c => plan'[d] = plan[d]
      /\ \A i \in Intakes : intakeLock'[i] = IF intakeLock[i] = c THEN NoCall
                                              ELSE intakeLock[i]
    BY DEF Ends, Finish, TypeOK
<1>2. /\ result[c] = NoResult /\ ~Committed(c)
      /\ pc[c] # "removing" => file[c] = NoRow
    BY OpenCallsShowNothing DEF Ends
<1>3. /\ value \in Results \cup {NoResult}
      /\ value # NoResult => outcome = "answered" /\ value.op # "edit"
      /\ Fits(outcome, plan'[c]) /\ plan'[c] \in Plans \cup {NoPlan}
      /\ outcome \in {"answered", "failed", "keyTaken", "removing", "removingLoser"}
    <2>1. /\ value \in Results \cup {NoResult}
          /\ value # NoResult => outcome = "answered" /\ value.op # "edit"
          /\ outcome \in {"answered", "failed", "keyTaken", "removing", "removingLoser"}
        BY DEF Ends, Found
    <2>2. CASE plan' = plan
        <3>1. Fits(outcome, plan[c])
            BY DEF Ends
        <3>2. plan[c] \in Plans \cup {NoPlan}
            BY DEF TypeOK
        <3> QED
            BY <2>1, <2>2, <3>1, <3>2
    <2>3. CASE plan' # plan
        <3>1. PICK p \in RepeatPlans : plan' = [plan EXCEPT ![c] = p] /\ outcome = "answered"
            BY <2>3 DEF Ends
        <3>2. plan'[c] = p
            BY <3>1 DEF TypeOK
        <3> QED
            BY <2>1, <3>1, <3>2 DEF Fits, Plans
    <2> QED
        BY <2>1, <2>2, <2>3
<1>4. TypeOK'
    <2>1. plan' \in [Calls -> Plans \cup {NoPlan}]
        BY <1>1, <1>3 DEF TypeOK, Ends, Plans
    <2>2. pc' \in [Calls -> Stages] /\ result' \in [Calls -> Results \cup {NoResult}]
        BY <1>3 DEF TypeOK, Ends, Finish, Stages
    <2>3. intakeLock' \in [Intakes -> Calls \cup {NoCall}]
        BY DEF TypeOK, Ends, Finish
    <2> QED
        BY <2>1, <2>2, <2>3 DEF TypeOK, Ends
<1>5. PlansFitStages'
    BY <1>1, <1>3 DEF PlansFitStages, Ends
<1>6. OnlyTheEndShows'
    <2>1. file' = file /\ purchase' = purchase
        BY DEF Ends
    <2>2. file[c] # NoRow => outcome \in {"answered", "failed"}
        BY <1>2 DEF Ends
    <2> QED
        BY <1>1, <1>2, <1>3, <2>1, <2>2 DEF OnlyTheEndShows, Committed
<1>7. FinalizationOwnsItsDraft'
    <2> SUFFICES ASSUME NEW d \in Calls, NEW i \in Intakes
                 PROVE  /\ InTransaction(d)' /\ plan'[d].intake = i =>
                             intakeLock'[i] = d /\ Draft(i)' /\ ByIntake(i)' = {}
                        /\ intakeLock'[i] = d => InTransaction(d)' /\ plan'[d].intake = i
                        /\ pc'[d] = "reassigned" /\ plan'[d].intake = i =>
                             FilesWhatIsLive(d, i)'
        BY DEF FinalizationOwnsItsDraft
    <2>1. /\ LiveFiles(i)' = LiveFiles(i) /\ ByIntake(i)' = ByIntake(i)
          /\ Draft(i)' = Draft(i) /\ file' = file
        BY DEF Ends, LiveFiles, ByIntake, Committed, Draft
    <2>2. /\ InTransaction(d) /\ plan[d].intake = i =>
              intakeLock[i] = d /\ Draft(i) /\ ByIntake(i) = {}
          /\ intakeLock[i] = d => InTransaction(d) /\ plan[d].intake = i
          /\ pc[d] = "reassigned" /\ plan[d].intake = i => FilesWhatIsLive(d, i)
        BY DEF FinalizationOwnsItsDraft
    <2>3. CASE d = c
        <3>1. ~InTransaction(d)' /\ pc'[d] # "reassigned"
            BY <1>1, <1>3, <2>3 DEF InTransaction
        <3>2. intakeLock'[i] # d
            BY <1>1, <2>3, IdentifiersDiffer
        <3> QED
            BY <3>1, <3>2
    <2>4. CASE d # c
        <3>1. pc'[d] = pc[d] /\ plan'[d] = plan[d]
            BY <1>1, <2>4
        <3>2. intakeLock'[i] = d <=> intakeLock[i] = d
            BY <1>1, <2>4, IdentifiersDiffer
        <3>3. FilesWhatIsLive(d, i) => FilesWhatIsLive(d, i)'
            BY <2>1, <3>1 DEF FilesWhatIsLive, Acceptable
        <3> QED
            BY <2>1, <2>2, <3>1, <3>2, <3>3 DEF InTransaction
    <2> QED
        BY <2>3, <2>4
<1>8. EditsAreBehind'
    BY <1>1, <1>3 DEF EditsAreBehind, Ends
<1> QED
    BY <1>4, <1>5, <1>6, <1>7, <1>8

\* The accepted edits of a draft do not change with an answer that is none.
LEMMA NoEditNoNumber ==
    ASSUME IntakeIInv, NEW c \in Calls, result[c] = NoResult,
           \A d \in Calls : d # c => result'[d] = result[d],
           result'[c] = NoResult \/ result'[c].op # "edit",
           intake' = intake
    PROVE  EditsAreNumbered'
<1>1. ASSUME NEW i \in Intakes
      PROVE  {d \in Calls : result'[d] # NoResult /\ result'[d].op = "edit"
                              /\ result'[d].on = i}
               = {d \in Calls : result[d] # NoResult /\ result[d].op = "edit"
                              /\ result[d].on = i}
    OBVIOUS
<1>2. VersionCountsEdits'
    BY <1>1 DEF IntakeIInv, EditsAreNumbered, VersionCountsEdits, Draft
<1>3. AcceptedEditsNeverCollide'
    BY DEF IntakeIInv, EditsAreNumbered, AcceptedEditsNeverCollide
<1> QED
    BY <1>2, <1>3 DEF EditsAreNumbered

LEMMA EndsKeep ==
    ASSUME IntakeIInv, NEW c \in Calls, NEW outcome, NEW value, Ends(c, outcome, value)
    PROVE  IntakeIInv'
<1>1. IntakeInv
    BY DEF IntakeIInv
<1>2. IntakeInv'
    BY <1>1, EndsKeepInv
<1>3. /\ result[c] = NoResult /\ ~Committed(c)
      /\ pc[c] # "removing" => file[c] = NoRow
    BY <1>1, OpenCallsShowNothing DEF Ends
<1>4. /\ \A d \in Calls : d # c => result'[d] = result[d] /\ plan'[d] = plan[d]
      /\ result'[c] = value /\ UNCHANGED <<intake, purchase, file>>
      /\ file[c] # NoRow => plan'[c] = plan[c]
    BY <1>1, <1>3 DEF Ends, Finish, IntakeInv, TypeOK
<1>5. value = NoResult \/ Found(c, value)
    BY DEF Ends
<1>6. EditsAreNumbered'
    BY <1>3, <1>4, <1>5, NoEditNoNumber DEF Found
<1>7. AnswersStand'
    <2> SUFFICES ASSUME NEW d \in Calls, result'[d] # NoResult,
                        result'[d].op \in {"purchase", "upload"}
                 PROVE  \E x \in Calls : Stands(d, x)'
        BY DEF AnswersStand
    <2>1. CASE d = c
        <3> DEFINE x == value.on
        <3>1. Found(c, value) /\ result'[c] = value
            BY <1>4, <1>5, <2>1
        <3>2. /\ x \in Calls
              /\ value.op = "purchase" => Names(c, x)'
              /\ value.op = "upload" => Stores(c, x)'
            BY <2>1, <3>1 DEF Found, Stores
        <3>3. Stands(c, x)'
            BY <3>1, <3>2 DEF Stands
        <3> QED
            BY <2>1, <3>2, <3>3
    <2>2. CASE d # c
        <3>1. result'[d] = result[d] /\ plan'[d] = plan[d]
            BY <1>4, <2>2
        <3>2. \E x \in Calls : Stands(d, x)
            BY <3>1 DEF IntakeIInv, AnswersStand
        <3>3. \A f \in Calls : file[f] # NoRow => plan'[f] = plan[f]
            BY <1>4
        <3> QED
            BY <1>4, <3>1, <3>2, <3>3, AnswersStandStill
    <2> QED
        BY <2>1, <2>2
<1>8. CompletedIffPurchased'
    BY <1>4 DEF IntakeIInv, CompletedIffPurchased, ByIntake, Committed
<1>9. NothingEscapesFinalization'
    BY <1>4 DEF IntakeIInv, NothingEscapesFinalization, LiveFiles
<1>10. RetainedWithinQuota'
    BY <1>4 DEF IntakeIInv, RetainedWithinQuota, Retained, RetainedObjects
<1> QED
    BY <1>2, <1>6, <1>7, <1>8, <1>9, <1>10 DEF IntakeIInv

-----------------------------------------------------------------------------
(* Writes of the draft itself: saving, cancelling, locking *)

\* The calls that were answered with an edit of x.
Edits(x) == {c \in Calls : result[c] # NoResult /\ result[c].op = "edit"
                              /\ result[c].on = x}

LEMMA EditsAreFinite ==
    ASSUME NEW x
    PROVE  IsFiniteSet(Edits(x)) /\ Cardinality(Edits(x)) \in Nat
<1>1. Edits(x) \in SUBSET Calls
    BY DEF Edits
<1> QED
    BY <1>1, IdentifiersDiffer, FS_Subset, FS_CardinalityType

\* What a step that changes one draft outside a finalization, and ends, does to
\* the invariant of IntakeInv: the draft keeps its lock, its files and its
\* purchases, and the call held no lock.
LEMMA DraftWritesKeepInv ==
    ASSUME IntakeInv, NEW c \in Calls, NEW j \in Intakes, NEW row \in IntakeRows,
           NEW value \in Results,
           pc[c] \in {"saving", "cancelling"}, Unlocked(j),
           row.version = intake[j].version + 1,
           intake' = [intake EXCEPT ![j] = row],
           Answer(c, value), UNCHANGED <<purchase, file, object, plan, desk>>,
           value.op = "edit" => value.on = j /\ value.base = intake[j].version
    PROVE  IntakeInv'
<1> USE DEF IntakeInv
<1>1. /\ \A d \in Calls : /\ pc'[d] = IF d = c THEN "answered" ELSE pc[d]
                          /\ result'[d] = IF d = c THEN value ELSE result[d]
      /\ \A i \in Intakes : /\ intakeLock'[i] = IF intakeLock[i] = c THEN NoCall
                                                 ELSE intakeLock[i]
                            /\ intake'[i] = IF i = j THEN row ELSE intake[i]
    BY DEF Answer, Finish, TypeOK
<1>2. TypeOK'
    BY DEF TypeOK, Answer, Finish, Stages
<1>3. PlansFitStages'
    BY <1>1 DEF PlansFitStages, Fits
<1>4. OnlyTheEndShows'
    BY <1>1 DEF OnlyTheEndShows, Committed
<1>5. FinalizationOwnsItsDraft'
    <2> SUFFICES ASSUME NEW d \in Calls, NEW i \in Intakes
                 PROVE  /\ InTransaction(d)' /\ plan'[d].intake = i =>
                             intakeLock'[i] = d /\ Draft(i)' /\ ByIntake(i)' = {}
                        /\ intakeLock'[i] = d => InTransaction(d)' /\ plan'[d].intake = i
                        /\ pc'[d] = "reassigned" /\ plan'[d].intake = i =>
                             FilesWhatIsLive(d, i)'
        BY DEF FinalizationOwnsItsDraft
    <2>1. LiveFiles(i)' = LiveFiles(i) /\ ByIntake(i)' = ByIntake(i)
        BY DEF LiveFiles, ByIntake, Committed
    <2>2. /\ InTransaction(d) /\ plan[d].intake = i =>
              intakeLock[i] = d /\ Draft(i) /\ ByIntake(i) = {}
          /\ intakeLock[i] = d => InTransaction(d) /\ plan[d].intake = i
          /\ pc[d] = "reassigned" /\ plan[d].intake = i => FilesWhatIsLive(d, i)
        BY DEF FinalizationOwnsItsDraft
    <2>3. CASE d = c
        <3>1. ~InTransaction(d)' /\ pc'[d] # "reassigned"
            BY <1>1, <2>3 DEF InTransaction
        <3>2. intakeLock'[i] # d
            BY <1>1, <2>3, IdentifiersDiffer
        <3> QED
            BY <3>1, <3>2
    <2>4. CASE d # c
        <3>1. pc'[d] = pc[d] /\ plan'[d] = plan[d]
            BY <1>1, <2>4
        <3>2. intakeLock'[i] = d <=> intakeLock[i] = d
            BY <1>1, <2>4, IdentifiersDiffer
        <3>3. FilesWhatIsLive(d, i) => FilesWhatIsLive(d, i)'
            BY <2>1, <3>1 DEF FilesWhatIsLive, Acceptable
        <3>4. intakeLock[i] = d => i # j
            BY IdentifiersDiffer DEF Unlocked
        <3>5. intakeLock[i] = d /\ Draft(i) => Draft(i)'
            BY <1>1, <3>4 DEF Draft
        <3> QED
            BY <2>1, <2>2, <3>1, <3>2, <3>3, <3>5 DEF InTransaction
    <2> QED
        BY <2>3, <2>4
<1>6. EditsAreBehind'
    <2> SUFFICES ASSUME NEW d \in Calls, result'[d] # NoResult, result'[d].op = "edit"
                 PROVE  LET x == result'[d].on
                        IN  /\ x \in Intakes => result'[d].base < intake'[x].version
                            /\ x \notin Intakes =>
                                  x \in Files /\ file'[x] # NoRow
                                    /\ result'[d].base < file'[x].version
        BY DEF EditsAreBehind
    <2>1. intake[j].version \in Nat
        BY DEF TypeOK, IntakeRows
    <2>2. CASE d = c
        BY <1>1, <2>1, <2>2
    <2>3. CASE d # c
        <3> DEFINE x == result[d].on
        <3>1. result'[d] = result[d]
            BY <1>1, <2>3
        <3>2. /\ x \in Intakes => result[d].base < intake[x].version
              /\ x \notin Intakes =>
                    x \in Files /\ file[x] # NoRow /\ result[d].base < file[x].version
            BY <3>1 DEF EditsAreBehind
        <3>3. result[d].base \in Nat
            BY <3>1 DEF TypeOK, Results
        <3>4. x \in Intakes => intake[x].version \in Nat
            BY DEF TypeOK, IntakeRows
        <3> HIDE DEF x
        <3>5. x \in Intakes => result[d].base < intake'[x].version
            BY <1>1, <2>1, <3>2, <3>3, <3>4
        <3> QED
            BY <3>1, <3>2, <3>5 DEF x
    <2> QED
        BY <2>2, <2>3
<1> QED
    BY <1>2, <1>3, <1>4, <1>5, <1>6

\* A new answer adds its call to the edits of what it edited, and to no other.
LEMMA NewEdits ==
    ASSUME IntakeInv, NEW c \in Calls, NEW value \in Results, result[c] = NoResult,
           \A d \in Calls : result'[d] = IF d = c THEN value ELSE result[d],
           NEW x
    PROVE  /\ c \notin Edits(x)
           /\ Edits(x)' = IF value.op = "edit" /\ value.on = x
                          THEN Edits(x) \cup {c} ELSE Edits(x)
           /\ Cardinality(Edits(x)') = Cardinality(Edits(x))
                + IF value.op = "edit" /\ value.on = x THEN 1 ELSE 0
<1>1. value # NoResult
    BY ResultsAreNotMissing
<1>2. c \notin Edits(x)
    BY DEF Edits
<1>3. Edits(x)' = IF value.op = "edit" /\ value.on = x
                  THEN Edits(x) \cup {c} ELSE Edits(x)
    BY <1>1 DEF Edits
<1>4. Cardinality(Edits(x) \cup {c}) = Cardinality(Edits(x)) + 1
    BY <1>2, EditsAreFinite, FS_AddElement
<1>5. Cardinality(Edits(x)) \in Nat
    BY EditsAreFinite
<1> QED
    BY <1>2, <1>3, <1>4, <1>5

\* An edit made from the current version is unlike every earlier one.
LEMMA NewEditsDiffer ==
    ASSUME IntakeIInv, NEW c \in Calls, NEW value \in Results, result[c] = NoResult,
           \A d \in Calls : result'[d] = IF d = c THEN value ELSE result[d],
           value.op = "edit" => \A d \in Calls : result[d] # NoResult /\ result[d].op = "edit"
                                   /\ result[d].on = value.on => result[d].base < value.base
                                        \/ value.base = 0
    PROVE  AcceptedEditsNeverCollide'
<1> SUFFICES ASSUME NEW d \in Calls, NEW e \in Calls, d # e,
                    result'[d] # NoResult, result'[e] # NoResult,
                    result'[d].op = "edit", result'[d].base > 0
             PROVE  result'[d] # result'[e]
    BY DEF AcceptedEditsNeverCollide
<1>1. ASSUME NEW f \in Calls, f # c, result[f] # NoResult, result[f] = value,
             value.op = "edit", value.base > 0
      PROVE  FALSE
    <2>1. result[f].base < value.base \/ value.base = 0
        BY <1>1
    <2>2. value.base \in Nat
        BY DEF Results
    <2> QED
        BY <1>1, <2>1, <2>2
<1>2. AcceptedEditsNeverCollide
    BY DEF IntakeIInv, EditsAreNumbered
<1>3. CASE d # c /\ e # c
    BY <1>2, <1>3 DEF AcceptedEditsNeverCollide
<1>4. CASE d = c
    BY <1>1, <1>4
<1>5. CASE e = c
    BY <1>1, <1>5
<1> QED
    BY <1>3, <1>4, <1>5

LEMMA DraftWritesKeep ==
    ASSUME IntakeIInv, NEW c \in Calls, NEW j \in Intakes, NEW row \in IntakeRows,
           NEW value \in Results,
           pc[c] \in {"saving", "cancelling"}, Unlocked(j), Draft(j),
           row.version = intake[j].version + 1,
           intake' = [intake EXCEPT ![j] = row],
           Answer(c, value), UNCHANGED <<purchase, file, object, plan, desk>>,
           \/ /\ row.status = "DRAFT"
              /\ value = EditResult(j, intake[j].version)
           \/ row.status = "CANCELLED" /\ value.op = "cancel"
    PROVE  IntakeIInv'
<1>1. IntakeInv
    BY DEF IntakeIInv
<1>2. value.op = "edit" => value.on = j /\ value.base = intake[j].version
    BY DEF EditResult
<1>3. IntakeInv'
    BY <1>1, <1>2, DraftWritesKeepInv
<1>4. /\ \A d \in Calls : result'[d] = IF d = c THEN value ELSE result[d]
      /\ \A i \in Intakes : intake'[i] = IF i = j THEN row ELSE intake[i]
      /\ intake[j].version \in Nat /\ result[c] = NoResult
    BY <1>1, OpenCallsShowNothing
    DEF Answer, Finish, IntakeInv, TypeOK, IntakeRows, Ended
<1>5. CompletedIffPurchased'
    <2>1. \A i : ByIntake(i)' = ByIntake(i)
        BY DEF ByIntake, Committed
    <2>2. \A i \in Intakes : intake'[i].status = "COMPLETED" <=> intake[i].status = "COMPLETED"
        BY <1>4 DEF Draft
    <2> QED
        BY <2>1, <2>2 DEF IntakeIInv, CompletedIffPurchased
<1>6. NothingEscapesFinalization'
    BY <1>4 DEF IntakeIInv, NothingEscapesFinalization, LiveFiles, Draft
<1>7. RetainedWithinQuota'
    BY DEF IntakeIInv, RetainedWithinQuota, Retained, RetainedObjects
<1>8. AnswersStand'
    <2> SUFFICES ASSUME NEW d \in Calls, result'[d] # NoResult,
                        result'[d].op \in {"purchase", "upload"}
                 PROVE  \E x \in Calls : Stands(d, x)'
        BY DEF AnswersStand
    <2>1. d # c /\ result'[d] = result[d]
        BY <1>4 DEF EditResult
    <2>2. \E x \in Calls : Stands(d, x)
        BY <2>1 DEF IntakeIInv, AnswersStand
    <2> QED
        BY <2>1, <2>2, AnswersStandStill
<1>9. VersionCountsEdits'
    <2> SUFFICES ASSUME NEW i \in Intakes
                 PROVE  intake'[i].version = 1 + Cardinality(Edits(i)')
                                               + IF Draft(i)' THEN 0 ELSE 1
        BY DEF VersionCountsEdits, Edits
    <2>1. intake[i].version = 1 + Cardinality(Edits(i)) + IF Draft(i) THEN 0 ELSE 1
        BY DEF IntakeIInv, EditsAreNumbered, VersionCountsEdits, Edits
    <2>2. Cardinality(Edits(i)) \in Nat
        BY EditsAreFinite
    <2>3. Cardinality(Edits(i)') = Cardinality(Edits(i))
                + IF value.op = "edit" /\ value.on = i THEN 1 ELSE 0
        BY <1>1, <1>4, NewEdits
    <2>4. Draft(i)' <=> IF i = j THEN row.status = "DRAFT" ELSE Draft(i)
        BY <1>4 DEF Draft
    <2>5. /\ i = j => intake'[i].version = intake[i].version + 1
          /\ i # j => intake'[i].version = intake[i].version
        BY <1>4
    <2>6. row.status = "DRAFT" <=> value.op = "edit"
        BY DEF EditResult
    <2> QED
        BY <1>2, <2>1, <2>2, <2>3, <2>4, <2>5, <2>6
<1>10. AcceptedEditsNeverCollide'
    <2>1. ASSUME value.op = "edit", NEW d \in Calls, result[d] # NoResult,
                 result[d].op = "edit", result[d].on = value.on
          PROVE  result[d].base < value.base
        BY <1>1, <1>2, <2>1 DEF IntakeInv, EditsAreBehind
    <2> QED
        BY <1>4, <2>1, NewEditsDiffer
<1> QED
    BY <1>3, <1>5, <1>6, <1>7, <1>8, <1>9, <1>10 DEF IntakeIInv, EditsAreNumbered

LEMMA SaveDraftKeeps ==
    ASSUME IntakeIInv, NEW c \in Calls, SaveDraft(c)
    PROVE  IntakeIInv'
<1> DEFINE j == plan[c].intake
           row == [intake[j] EXCEPT !.version = @ + 1]
           value == EditResult(j, plan[c].version)
<1>1. IntakeInv
    BY DEF IntakeIInv
<1>2. j \in Intakes /\ pc[c] = "saving"
    BY <1>1 DEF SaveDraft, IntakeInv, PlansFitStages, Fits, SavePlans
<1>3. /\ Unlocked(j) /\ Draft(j) /\ plan[c].version = intake[j].version
      /\ Answer(c, value) /\ UNCHANGED <<purchase, file, object, plan, desk>>
      /\ intake' = [intake EXCEPT ![j].version = @ + 1]
    BY DEF SaveDraft, SaveMatches
<1>4. intake[j] \in IntakeRows
    BY <1>1, <1>2 DEF IntakeInv, TypeOK
<1>5. /\ row \in IntakeRows /\ row.version = intake[j].version + 1
      /\ row.status = "DRAFT"
    BY <1>3, <1>4 DEF IntakeRows, Draft
<1>6. intake' = [intake EXCEPT ![j] = row]
    BY <1>3
<1>7. value \in Results /\ value = EditResult(j, intake[j].version)
    BY <1>2, <1>3, <1>4 DEF EditResult, Results, IntakeRows
<1> HIDE DEF j, row, value
<1> QED
    BY <1>2, <1>3, <1>5, <1>6, <1>7, DraftWritesKeep

LEMMA CancelKeeps ==
    ASSUME IntakeIInv, NEW c \in Calls, Cancel(c)
    PROVE  IntakeIInv'
<1> DEFINE j == plan[c].intake
           row == [intake[j] EXCEPT !.status = "CANCELLED", !.version = @ + 1]
           value == CancelResult(j)
<1>1. IntakeInv
    BY DEF IntakeIInv
<1>2. j \in Intakes /\ pc[c] = "cancelling"
    BY <1>1 DEF Cancel, IntakeInv, PlansFitStages, Fits, CancelPlans
<1>3. /\ Unlocked(j) /\ Draft(j)
      /\ Answer(c, value) /\ UNCHANGED <<purchase, file, object, plan, desk>>
      /\ intake' = [intake EXCEPT ![j].status = "CANCELLED", ![j].version = @ + 1]
    BY DEF Cancel, CancelMatches
<1>4. intake[j] \in IntakeRows
    BY <1>1, <1>2 DEF IntakeInv, TypeOK
<1>5. /\ row \in IntakeRows /\ row.version = intake[j].version + 1
      /\ row.status = "CANCELLED"
    <2> DEFINE up == intake[j].version + 1
    <2>1. up \in Nat
        BY <1>4 DEF IntakeRows
    <2> HIDE DEF up
    <2>2. [intake[j] EXCEPT !.status = "CANCELLED", !.version = up] \in IntakeRows
        BY <1>4, <2>1 DEF IntakeRows
    <2>3. row \in IntakeRows
        BY <2>2 DEF up
    <2> QED
        BY <1>4, <2>3 DEF IntakeRows
<1>6. intake' = [intake EXCEPT ![j] = row]
    BY <1>1, <1>2, <1>3 DEF IntakeInv, TypeOK
<1>7. value \in Results /\ value.op = "cancel"
    BY <1>2 DEF CancelResult, Results
<1> HIDE DEF j, row, value
<1> QED
    BY <1>2, <1>3, <1>5, <1>6, <1>7, DraftWritesKeep

LEMMA LockIntakeKeeps ==
    ASSUME IntakeIInv, NEW c \in Calls, LockIntake(c)
    PROVE  IntakeIInv'
<1> DEFINE j == plan[c].intake
<1>1. IntakeInv
    BY DEF IntakeIInv
<1>2. /\ pc[c] = "looked" /\ j # NoIntake /\ Unlocked(j) /\ Draft(j)
      /\ intakeLock' = [intakeLock EXCEPT ![j] = c]
      /\ pc' = [pc EXCEPT ![c] = "locked"]
      /\ UNCHANGED <<tables, plan, result, desk>>
    BY DEF LockIntake, TryLockDraftIntake
<1>3. j \in Intakes /\ plan[c] \in CreatePlans
    BY <1>1, <1>2 DEF IntakeInv, PlansFitStages, Fits, CreatePlans
<1>4. ByIntake(j) = {}
    <2>1. Cardinality(ByIntake(j)) = 0
        BY <1>2, <1>3 DEF IntakeIInv, CompletedIffPurchased, Draft
    <2>2. IsFiniteSet(ByIntake(j))
        BY IdentifiersDiffer, FS_Subset DEF ByIntake
    <2> QED
        BY <2>1, <2>2, FS_EmptySet
<1> HIDE DEF j
<1>5. /\ \A d \in Calls : pc'[d] = IF d = c THEN "locked" ELSE pc[d]
      /\ \A i \in Intakes : intakeLock'[i] = IF i = j THEN c ELSE intakeLock[i]
    BY <1>1, <1>2 DEF IntakeInv, TypeOK
<1>6. TypeOK'
    BY <1>1, <1>2, <1>3 DEF IntakeInv, TypeOK, Stages, tables
<1>7. PlansFitStages'
    BY <1>1, <1>2, <1>3, <1>5 DEF IntakeInv, PlansFitStages, Fits, tables
<1>8. OnlyTheEndShows'
    BY <1>1, <1>2, <1>5 DEF IntakeInv, OnlyTheEndShows, Committed, tables
<1>9. FinalizationOwnsItsDraft'
    <2> SUFFICES ASSUME NEW d \in Calls, NEW i \in Intakes
                 PROVE  /\ InTransaction(d)' /\ plan'[d].intake = i =>
                             intakeLock'[i] = d /\ Draft(i)' /\ ByIntake(i)' = {}
                        /\ intakeLock'[i] = d => InTransaction(d)' /\ plan'[d].intake = i
                        /\ pc'[d] = "reassigned" /\ plan'[d].intake = i =>
                             FilesWhatIsLive(d, i)'
        BY DEF FinalizationOwnsItsDraft
    <2>1. /\ LiveFiles(i)' = LiveFiles(i) /\ ByIntake(i)' = ByIntake(i)
          /\ Draft(i)' = Draft(i) /\ UNCHANGED <<file, plan>>
        BY <1>2 DEF LiveFiles, ByIntake, Committed, Draft, tables
    <2>2. /\ InTransaction(d) /\ plan[d].intake = i =>
              intakeLock[i] = d /\ Draft(i) /\ ByIntake(i) = {}
          /\ intakeLock[i] = d => InTransaction(d) /\ plan[d].intake = i
          /\ pc[d] = "reassigned" /\ plan[d].intake = i => FilesWhatIsLive(d, i)
        BY <1>1 DEF FinalizationOwnsItsDraft, IntakeInv
    <2>3. FilesWhatIsLive(d, i) => FilesWhatIsLive(d, i)'
        BY <2>1 DEF FilesWhatIsLive, Acceptable
    <2>4. CASE d = c
        BY <1>2, <1>4, <1>5, <2>1, <2>2, <2>4, IdentifiersDiffer
        DEF InTransaction, Unlocked, j
    <2>5. CASE d # c
        <3>1. InTransaction(d) /\ plan[d].intake = i => i # j
            BY <1>2, <2>2, IdentifiersDiffer DEF Unlocked
        <3> QED
            BY <1>5, <2>1, <2>2, <2>3, <2>5, <3>1 DEF InTransaction
    <2> QED
        BY <2>4, <2>5
<1>10. EditsAreBehind'
    BY <1>1, <1>2 DEF IntakeInv, EditsAreBehind, tables
<1>11. AnswersStand'
    BY <1>2 DEF IntakeIInv, AnswersStand, Stands, Names, Stores, tables
<1> QED
    BY <1>2, <1>6, <1>7, <1>8, <1>9, <1>10, <1>11, SameTablesSayTheSame
    DEF IntakeIInv, IntakeInv, tables

-----------------------------------------------------------------------------
(* The commit of a purchase *)

LEMMA ObjectsAreFinite == IsFiniteSet(Files \X (0..MaxRevisions))
<1>1. IsFiniteSet(Files)
    BY IdentifiersDiffer, FS_Union DEF Files
<1>2. IsFiniteSet(0..MaxRevisions)
    BY IntakeAssumption, FS_Interval
<1> QED
    BY <1>1, <1>2, FS_Product

\* Whatever else a step does, a draft that retains no new object keeps its quota.
LEMMA NoMoreRetained ==
    ASSUME NEW i \in Intakes, RetainedWithinQuota,
           RetainedObjects(i)' \subseteq RetainedObjects(i)
    PROVE  Retained(i)' <= MaxRetained
<1>1. IsFiniteSet(RetainedObjects(i))
    <2>1. IsFiniteSet(Files \X (0..MaxRevisions))
        BY ObjectsAreFinite
    <2> QED
        BY <2>1, FS_Subset DEF RetainedObjects
<1>2. /\ Cardinality(RetainedObjects(i)') <= Cardinality(RetainedObjects(i))
      /\ Cardinality(RetainedObjects(i)) \in Nat /\ Cardinality(RetainedObjects(i)') \in Nat
    BY <1>1, FS_Subset, FS_CardinalityType
<1>3. Cardinality(RetainedObjects(i)) <= MaxRetained
    BY DEF RetainedWithinQuota, Retained
<1>4. Cardinality(RetainedObjects(i)') <= MaxRetained
    BY <1>2, <1>3, IntakeAssumption
<1> QED
    BY <1>4 DEF Retained

\* A row filed elsewhere is a row.
LEMMA FiledRows ==
    ASSUME NEW row \in FileRows, NEW where \in Placements
    PROVE  LET filed == [row EXCEPT !.owner = where]
           IN  /\ filed \in FileRows /\ filed # NoRow /\ filed.owner \notin Intakes
               /\ filed.owner = where
               /\ filed.content = row.content /\ filed.version = row.version
               /\ filed.deleted = row.deleted /\ filed.item = row.item
               /\ filed.confirmed = row.confirmed
               /\ filed.derivatives = row.derivatives
<1>1. [row EXCEPT !.owner = where] \in FileRows
    BY DEF FileRows
<1> QED
    BY <1>1, IdentifiersDiffer DEF FileRows

\* What CommitPurchase does, table by table: one purchase more; the files that
\* were live on the draft filed under it, every other row as it was; the draft
\* completed and unlocked.
LEMMA CommitEffect ==
    ASSUME IntakeInv, NEW c \in Calls, CommitPurchase(c)
    PROVE  LET j == plan[c].intake
           IN  /\ plan[c] \in CreatePlans
               /\ purchase' = [purchase EXCEPT ![c] =
                      [key |-> plan[c].key, body |-> plan[c].body, intake |-> j]]
               /\ \A f \in Files :
                     /\ ~(j \in Intakes /\ f \in LiveFiles(j)) => file'[f] = file[f]
                     /\ j \in Intakes /\ f \in LiveFiles(j) =>
                          file'[f] = [file[f] EXCEPT !.owner =
                                        [purchase |-> c, item |-> file[f].item]]
               /\ file' = [f \in Files |-> file'[f]]
               /\ intake' = [i \in Intakes |->
                      IF i = j THEN [status |-> "COMPLETED", version |-> intake[i].version + 1]
                      ELSE intake[i]]
               /\ j \in Intakes => /\ intakeLock[j] = c /\ Draft(j) /\ ByIntake(j) = {}
                                   /\ Acceptable(j, plan[c].body)
               /\ j \notin Intakes => j = NoIntake
               /\ ~Ended(pc[c]) /\ pc[c] # "removing"
               /\ Answer(c, PurchaseResult(c)) /\ UNCHANGED <<object, plan, desk>>
<1> DEFINE j == plan[c].intake
<1>1. /\ plan[c] \in CreatePlans
      /\ pc[c] = "inserted" => j = NoIntake /\ plan[c].placed = <<>>
      /\ pc[c] = "reassigned" => j # NoIntake
      /\ pc[c] \in {"inserted", "reassigned"}
    BY DEF CommitPurchase, IntakeInv, PlansFitStages, Fits
<1>2. j \in Intakes \/ j = NoIntake
    BY <1>1 DEF CreatePlans
<1>3. j \in Intakes => /\ pc[c] = "reassigned"
                       /\ intakeLock[j] = c /\ Draft(j) /\ ByIntake(j) = {}
                       /\ FilesWhatIsLive(c, j)
    BY <1>1, IdentifiersDiffer DEF IntakeInv, FinalizationOwnsItsDraft, InTransaction
<1>4. file' = [f \in Files |-> IF f \in DOMAIN plan[c].placed
                               THEN [file[f] EXCEPT !.owner = plan[c].placed[f]]
                               ELSE file[f]]
    BY DEF CommitPurchase
<1>5. ASSUME NEW f \in Files, ~(j \in Intakes /\ f \in LiveFiles(j))
      PROVE  file'[f] = file[f]
    <2>1. f \notin DOMAIN plan[c].placed
        <3>1. CASE j \in Intakes
            <4>1. DOMAIN plan[c].placed = LiveFiles(j)
                BY <1>3, <3>1 DEF FilesWhatIsLive
            <4> QED
                BY <1>5, <3>1, <4>1
        <3>2. CASE j = NoIntake
            <4>1. plan[c].placed = <<>>
                BY <1>1, <3>2
            <4> QED
                BY <4>1
        <3> QED
            BY <1>2, <3>1, <3>2
    <2> QED
        BY <1>4, <2>1
<1>6. ASSUME NEW f \in Files, j \in Intakes, f \in LiveFiles(j)
      PROVE  file'[f] = [file[f] EXCEPT !.owner = [purchase |-> c, item |-> file[f].item]]
    <2>1. plan[c].placed = [g \in LiveFiles(j) |-> [purchase |-> c, item |-> file[g].item]]
        BY <1>3, <1>6 DEF FilesWhatIsLive
    <2>2. f \in DOMAIN plan[c].placed
          /\ plan[c].placed[f] = [purchase |-> c, item |-> file[f].item]
        BY <1>6, <2>1
    <2> QED
        BY <1>4, <2>2
<1>7. file' = [f \in Files |-> file'[f]]
    BY <1>4
<1> QED
    BY <1>1, <1>2, <1>3, <1>5, <1>6, <1>7
    DEF CommitPurchase, TouchedByLock, FilesWhatIsLive, Ended

\* Filing moves rows and loses none; a draft other than the completed one keeps
\* its live files as they are.
LEMMA CommitFiles ==
    ASSUME IntakeInv, NEW c \in Calls, CommitPurchase(c)
    PROVE  /\ \A f \in Files : /\ file[f] # NoRow <=> file'[f] # NoRow
                               /\ file[f] # NoRow =>
                                    /\ file'[f] \in FileRows
                                    /\ file'[f].content = file[f].content
                                    /\ file'[f].version = file[f].version
                                    /\ file'[f].deleted = file[f].deleted
                                    /\ file'[f].derivatives = file[f].derivatives
                                    /\ file'[f].owner \in Intakes => file'[f] = file[f]
           /\ \A i \in Intakes : /\ i # plan[c].intake => LiveFiles(i)' = LiveFiles(i)
                                 /\ i = plan[c].intake => LiveFiles(i)' = {}
                                 /\ RetainedObjects(i)' \subseteq RetainedObjects(i)
           /\ \A i \in Intakes : i # plan[c].intake =>
                \A f \in LiveFiles(i) : file'[f] = file[f]
<1> DEFINE j == plan[c].intake
<1>1. \A f \in Files :
         /\ ~(j \in Intakes /\ f \in LiveFiles(j)) => file'[f] = file[f]
         /\ j \in Intakes /\ f \in LiveFiles(j) =>
              file'[f] = [file[f] EXCEPT !.owner = [purchase |-> c, item |-> file[f].item]]
    BY CommitEffect
<1> HIDE DEF j
<1>2. ASSUME NEW f \in Files
      PROVE  /\ file[f] # NoRow <=> file'[f] # NoRow
             /\ file[f] # NoRow =>
                  /\ file'[f] \in FileRows
                  /\ file'[f].content = file[f].content
                  /\ file'[f].version = file[f].version
                  /\ file'[f].deleted = file[f].deleted
                  /\ file'[f].derivatives = file[f].derivatives
                  /\ file'[f].owner \in Intakes => file'[f] = file[f]
    <2>1. CASE ~(j \in Intakes /\ f \in LiveFiles(j))
        BY <1>1, <2>1, RowTypes DEF IntakeInv
    <2>2. CASE j \in Intakes /\ f \in LiveFiles(j)
        <3> DEFINE where == [purchase |-> c, item |-> file[f].item]
        <3>1. file[f] # NoRow /\ file[f] \in FileRows
            BY <2>2, RowTypes DEF LiveFiles, IntakeInv
        <3>2. where \in Placements
            BY <3>1 DEF FileRows, Placements
        <3>3. file'[f] = [file[f] EXCEPT !.owner = where]
            BY <1>1, <2>2
        <3> HIDE DEF where
        <3> QED
            BY <3>1, <3>2, <3>3, FiledRows
    <2> QED
        BY <2>1, <2>2
<1>3. ASSUME NEW f \in Files, j \in Intakes, f \in LiveFiles(j)
      PROVE  file'[f].owner \notin Intakes
    <2> DEFINE where == [purchase |-> c, item |-> file[f].item]
    <2>1. file[f] \in FileRows
        BY <1>3, RowTypes DEF LiveFiles, IntakeInv
    <2>2. where \in Placements
        BY <2>1 DEF FileRows, Placements
    <2>3. file'[f] = [file[f] EXCEPT !.owner = where]
        BY <1>1, <1>3
    <2> HIDE DEF where
    <2> QED
        BY <2>1, <2>2, <2>3, FiledRows
<1>4. ASSUME NEW i \in Intakes, i # j
      PROVE  /\ LiveFiles(i)' = LiveFiles(i)
             /\ \A f \in LiveFiles(i) : file'[f] = file[f]
    <2>1. ASSUME NEW f \in LiveFiles(i)
          PROVE  f \in Files /\ file'[f] = file[f]
        BY <1>1, <1>4, <2>1 DEF LiveFiles
    <2>2. ASSUME NEW f \in Files, file'[f] # NoRow, file'[f].owner = i
          PROVE  file'[f] = file[f]
        BY <1>2, <1>4, <2>2
    <2> QED
        BY <2>1, <2>2 DEF LiveFiles
<1>5. ASSUME j \in Intakes
      PROVE  LiveFiles(j)' = {}
    <2> SUFFICES ASSUME NEW f \in LiveFiles(j)'
                 PROVE  FALSE
        OBVIOUS
    <2>1. f \in Files /\ file'[f] # NoRow /\ file'[f].owner = j' /\ ~file'[f].deleted
        BY DEF LiveFiles
    <2>2. j' = j
        BY CommitEffect DEF j
    <2>3. file'[f] = file[f]
        BY <1>2, <1>5, <2>1, <2>2
    <2>4. f \in LiveFiles(j)
        BY <2>1, <2>2, <2>3 DEF LiveFiles
    <2> QED
        BY <1>3, <1>5, <2>1, <2>2, <2>4
<1>6. ASSUME NEW i \in Intakes
      PROVE  RetainedObjects(i)' \subseteq RetainedObjects(i)
    BY <1>2, <1>6 DEF RetainedObjects
<1>7. j' = j
    BY CommitEffect DEF j
<1>8. \A i \in Intakes : i = j => LiveFiles(i)' = {}
    BY <1>5, <1>7 DEF LiveFiles
<1> QED
    BY <1>2, <1>4, <1>6, <1>8 DEF j

LEMMA CommitKeepsInv ==
    ASSUME IntakeInv, NEW c \in Calls, CommitPurchase(c)
    PROVE  IntakeInv'
<1>0. /\ \A f \in Files : /\ file[f] # NoRow <=> file'[f] # NoRow
                          /\ file[f] # NoRow => /\ file'[f] \in FileRows
                                                /\ file'[f].version = file[f].version
      /\ \A i \in Intakes : i # plan[c].intake =>
           LiveFiles(i)' = LiveFiles(i) /\ \A f \in LiveFiles(i) : file'[f] = file[f]
    BY CommitFiles
<1> USE DEF IntakeInv
<1> DEFINE j == plan[c].intake
           bought == [key |-> plan[c].key, body |-> plan[c].body, intake |-> j]
           value == PurchaseResult(c)
<1>1. /\ plan[c] \in CreatePlans
      /\ purchase' = [purchase EXCEPT ![c] = bought]
      /\ file' = [f \in Files |-> file'[f]]
      /\ intake' = [i \in Intakes |->
             IF i = j THEN [status |-> "COMPLETED", version |-> intake[i].version + 1]
             ELSE intake[i]]
      /\ j \in Intakes => intakeLock[j] = c /\ Draft(j) /\ ByIntake(j) = {}
      /\ ~Ended(pc[c]) /\ pc[c] # "removing"
      /\ Answer(c, value) /\ UNCHANGED <<object, plan, desk>>
    BY CommitEffect
<1>2. bought \in PurchaseRows /\ bought # NoPurchase /\ bought.intake = j
    BY <1>1, RowsAreNotMissing DEF CreatePlans, PurchaseRows
<1>3. value \in Results /\ value.op = "purchase" /\ value.on = c
    BY DEF PurchaseResult, Results
<1> HIDE DEF j, bought, value
<1>4. /\ \A d \in Calls : /\ pc'[d] = IF d = c THEN "answered" ELSE pc[d]
                          /\ result'[d] = IF d = c THEN value ELSE result[d]
                          /\ purchase'[d] = IF d = c THEN bought ELSE purchase[d]
      /\ \A i \in Intakes : /\ intakeLock'[i] = IF intakeLock[i] = c THEN NoCall
                                                 ELSE intakeLock[i]
                            /\ i # j => intake'[i] = intake[i]
      /\ file[c] = NoRow /\ ~Committed(c)
    BY <1>1, OpenCallsShowNothing DEF Answer, Finish, TypeOK
<1>5. TypeOK'
    <2>1. file' \in [Files -> FileRows \cup {NoRow}]
        BY <1>0, <1>1
    <2>2. purchase' \in [Calls -> PurchaseRows \cup {NoPurchase}]
        BY <1>1, <1>2 DEF TypeOK
    <2>3. intake' \in [Intakes -> IntakeRows]
        BY <1>1 DEF TypeOK, IntakeRows
    <2>4. /\ pc' \in [Calls -> Stages] /\ result' \in [Calls -> Results \cup {NoResult}]
          /\ intakeLock' \in [Intakes -> Calls \cup {NoCall}]
        BY <1>1, <1>3 DEF TypeOK, Answer, Finish, Stages
    <2> QED
        BY <1>1, <2>1, <2>2, <2>3, <2>4 DEF TypeOK
<1>6. PlansFitStages'
    <2> SUFFICES ASSUME NEW d \in Calls
                 PROVE  /\ Fits(pc'[d], plan'[d])
                        /\ pc'[d] = "filed" => file'[plan'[d].file] # NoRow
        BY DEF PlansFitStages
    <2>1. CASE d = c
        BY <1>4, <2>1 DEF Fits
    <2>2. CASE d # c
        <3>1. pc'[d] = pc[d] /\ plan'[d] = plan[d]
            BY <1>1, <1>4, <2>2
        <3>2. Fits(pc[d], plan[d]) /\ (pc[d] = "filed" => file[plan[d].file] # NoRow)
            BY DEF PlansFitStages
        <3>3. pc[d] = "filed" => plan[d].file \in Files
            BY ScopedRows
        <3> QED
            BY <1>0, <3>1, <3>2, <3>3
    <2> QED
        BY <2>1, <2>2
<1>7. OnlyTheEndShows'
    <2> SUFFICES ASSUME NEW d \in Calls
                 PROVE  /\ result'[d] # NoResult \/ purchase'[d] # NoPurchase
                              => pc'[d] = "answered"
                        /\ file'[d] # NoRow => pc'[d] \in {"answered", "removing", "failed"}
        BY DEF OnlyTheEndShows, Committed
    <2>1. d \in Files
        BY DEF Files
    <2> QED
        BY <1>0, <1>4, <2>1 DEF OnlyTheEndShows, Committed
<1>8. FinalizationOwnsItsDraft'
    <2> SUFFICES ASSUME NEW d \in Calls, NEW i \in Intakes
                 PROVE  /\ InTransaction(d)' /\ plan'[d].intake = i =>
                             intakeLock'[i] = d /\ Draft(i)' /\ ByIntake(i)' = {}
                        /\ intakeLock'[i] = d => InTransaction(d)' /\ plan'[d].intake = i
                        /\ pc'[d] = "reassigned" /\ plan'[d].intake = i =>
                             FilesWhatIsLive(d, i)'
        BY DEF FinalizationOwnsItsDraft
    <2>2. /\ InTransaction(d) /\ plan[d].intake = i =>
              intakeLock[i] = d /\ Draft(i) /\ ByIntake(i) = {}
          /\ intakeLock[i] = d => InTransaction(d) /\ plan[d].intake = i
          /\ pc[d] = "reassigned" /\ plan[d].intake = i => FilesWhatIsLive(d, i)
        BY DEF FinalizationOwnsItsDraft
    <2>3. CASE d = c
        <3>1. ~InTransaction(d)' /\ pc'[d] # "reassigned"
            BY <1>4, <2>3 DEF InTransaction
        <3>2. intakeLock'[i] # d
            BY <1>4, <2>3, IdentifiersDiffer
        <3> QED
            BY <3>1, <3>2
    <2>4. CASE d # c
        <3>1. pc'[d] = pc[d] /\ plan'[d] = plan[d]
            BY <1>1, <1>4, <2>4
        <3>2. intakeLock'[i] = d <=> intakeLock[i] = d
            BY <1>4, <2>4, IdentifiersDiffer
        <3>3. CASE i # j
            <4>1. Draft(i)' = Draft(i) /\ ByIntake(i)' = ByIntake(i)
                BY <1>2, <1>4, <3>3 DEF Draft, ByIntake, Committed
            <4>2. LiveFiles(i)' = LiveFiles(i) /\ \A f \in LiveFiles(i) : file'[f] = file[f]
                BY <1>0, <3>3 DEF j
            <4>3. FilesWhatIsLive(d, i) => FilesWhatIsLive(d, i)'
                BY <3>1, <4>2 DEF FilesWhatIsLive, Acceptable
            <4> QED
                BY <2>2, <3>1, <3>2, <4>1, <4>3 DEF InTransaction
        <3>4. CASE i = j
            <4>1. intakeLock[i] # d
                BY <1>1, <2>4, <3>4
            <4> QED
                BY <2>2, <3>1, <3>2, <4>1 DEF InTransaction
        <3> QED
            BY <3>3, <3>4
    <2> QED
        BY <2>3, <2>4
<1>9. EditsAreBehind'
    <2> SUFFICES ASSUME NEW d \in Calls, result'[d] # NoResult, result'[d].op = "edit"
                 PROVE  /\ result'[d].on \in Intakes =>
                              result'[d].base < intake'[result'[d].on].version
                        /\ result'[d].on \notin Intakes =>
                              /\ result'[d].on \in Files /\ file'[result'[d].on] # NoRow
                              /\ result'[d].base < file'[result'[d].on].version
        BY DEF EditsAreBehind
    <2> DEFINE x == result[d].on
    <2>1. result'[d] = result[d]
        BY <1>3, <1>4
    <2>2. /\ x \in Intakes => result[d].base < intake[x].version
          /\ x \notin Intakes =>
                x \in Files /\ file[x] # NoRow /\ result[d].base < file[x].version
        BY <2>1 DEF EditsAreBehind
    <2>3. result[d].base \in Nat
        BY <2>1 DEF TypeOK, Results
    <2>4. \A i \in Intakes : /\ intake[i].version \in Nat
                            /\ intake'[i].version \in {intake[i].version, intake[i].version + 1}
        BY <1>1 DEF TypeOK, IntakeRows
    <2> HIDE DEF x
    <2>5. x \in Intakes => result[d].base < intake'[x].version
        BY <2>2, <2>3, <2>4
    <2>6. x \notin Intakes =>
              x \in Files /\ file'[x] # NoRow /\ result[d].base < file'[x].version
        BY <1>0, <2>2
    <2> QED
        BY <2>1, <2>5, <2>6 DEF x
<1> QED
    BY <1>5, <1>6, <1>7, <1>8, <1>9

LEMMA CommitKeeps ==
    ASSUME IntakeIInv, NEW c \in Calls, CommitPurchase(c)
    PROVE  IntakeIInv'
<1> DEFINE j == plan[c].intake
           bought == [key |-> plan[c].key, body |-> plan[c].body, intake |-> j]
           value == PurchaseResult(c)
<1>1. IntakeInv
    BY DEF IntakeIInv
<1>2. IntakeInv'
    BY <1>1, CommitKeepsInv
<1>3. /\ purchase' = [purchase EXCEPT ![c] = bought]
      /\ intake' = [i \in Intakes |->
             IF i = j THEN [status |-> "COMPLETED", version |-> intake[i].version + 1]
             ELSE intake[i]]
      /\ j \in Intakes => Draft(j) /\ ByIntake(j) = {}
      /\ j \notin Intakes => j = NoIntake
      /\ ~Ended(pc[c]) /\ pc[c] # "removing"
      /\ Answer(c, value) /\ UNCHANGED <<object, plan, desk>>
      /\ plan[c] \in CreatePlans
    BY <1>1, CommitEffect
<1>4. /\ bought # NoPurchase /\ bought.intake = j
      /\ bought.key = plan[c].key /\ bought.body = plan[c].body
    BY <1>3, RowsAreNotMissing DEF CreatePlans, PurchaseRows
<1>5. value \in Results /\ value.op = "purchase" /\ value.on = c
    BY DEF PurchaseResult, Results
<1>6. /\ \A f \in Files : file[f] # NoRow => /\ file'[f] # NoRow
                                             /\ file'[f].content = file[f].content
      /\ \A i \in Intakes : /\ i # j => LiveFiles(i)' = LiveFiles(i)
                            /\ i = j => LiveFiles(i)' = {}
                            /\ RetainedObjects(i)' \subseteq RetainedObjects(i)
    BY <1>1, CommitFiles
<1> HIDE DEF bought, value
<1>7. /\ \A d \in Calls : /\ result'[d] = IF d = c THEN value ELSE result[d]
                          /\ purchase'[d] = IF d = c THEN bought ELSE purchase[d]
      /\ \A i \in Intakes : intake'[i] =
             IF i = j THEN [status |-> "COMPLETED", version |-> intake[i].version + 1]
             ELSE intake[i]
      /\ result[c] = NoResult /\ ~Committed(c)
    BY <1>1, <1>3, OpenCallsShowNothing DEF Answer, Finish, IntakeInv, TypeOK
<1> HIDE DEF j
<1>8. CompletedIffPurchased'
    <2> SUFFICES ASSUME NEW i \in Intakes
                 PROVE  Cardinality(ByIntake(i)') =
                           IF intake'[i].status = "COMPLETED" THEN 1 ELSE 0
        BY DEF CompletedIffPurchased
    <2>1. CASE i = j
        <3>1. ByIntake(i)' = {c}
            BY <1>3, <1>4, <1>7, <2>1, IdentifiersDiffer DEF ByIntake, Committed
        <3> QED
            <4>1. intake'[i].status = "COMPLETED"
                <5>1. intake'[i] = [status |-> "COMPLETED", version |-> intake[i].version + 1]
                    BY <1>7, <2>1
                <5> QED
                    BY <5>1
            <4>2. Cardinality({c}) = 1
                BY FS_Singleton
            <4> QED
                BY <3>1, <4>1, <4>2
    <2>2. CASE i # j
        <3>1. ByIntake(i)' = ByIntake(i)
            BY <1>4, <1>7, <2>2 DEF ByIntake, Committed
        <3> QED
            BY <1>7, <2>2, <3>1 DEF IntakeIInv, CompletedIffPurchased
    <2> QED
        BY <2>1, <2>2
<1>9. AnswersStand'
    <2> SUFFICES ASSUME NEW d \in Calls, result'[d] # NoResult,
                        result'[d].op \in {"purchase", "upload"}
                 PROVE  \E x \in Calls : Stands(d, x)'
        BY DEF AnswersStand
    <2>1. CASE d = c
        <3>1. Names(c, c)'
            BY <1>3, <1>4, <1>7 DEF Names, j
        <3>2. Stands(c, c)'
            BY <1>5, <1>7, <3>1 DEF Stands
        <3> QED
            BY <2>1, <3>2
    <2>2. CASE d # c
        <3>1. result'[d] = result[d] /\ plan' = plan
            BY <1>3, <1>7, <2>2
        <3>2. \E x \in Calls : Stands(d, x)
            BY <3>1 DEF IntakeIInv, AnswersStand
        <3>3. \A q \in Calls : Committed(q) => purchase'[q] = purchase[q]
            BY <1>7
        <3> QED
            BY <1>6, <3>1, <3>2, <3>3, AnswersStandStill DEF Files
    <2> QED
        BY <2>1, <2>2
<1>10. NothingEscapesFinalization'
    <2> SUFFICES ASSUME NEW i \in Intakes, intake'[i].status = "COMPLETED"
                 PROVE  LiveFiles(i)' = {}
        BY DEF NothingEscapesFinalization
    <2> QED
        BY <1>6, <1>7 DEF IntakeIInv, NothingEscapesFinalization
<1>11. VersionCountsEdits'
    <2> SUFFICES ASSUME NEW i \in Intakes
                 PROVE  intake'[i].version = 1 + Cardinality(Edits(i)')
                                               + IF Draft(i)' THEN 0 ELSE 1
        BY DEF VersionCountsEdits, Edits
    <2>1. intake[i].version = 1 + Cardinality(Edits(i)) + IF Draft(i) THEN 0 ELSE 1
        BY DEF IntakeIInv, EditsAreNumbered, VersionCountsEdits, Edits
    <2>2. Cardinality(Edits(i)) \in Nat /\ Cardinality(Edits(i)') = Cardinality(Edits(i))
        BY <1>1, <1>5, <1>7, EditsAreFinite, NewEdits
    <2>3. CASE i = j
        BY <1>3, <1>7, <2>1, <2>2, <2>3 DEF Draft
    <2>4. CASE i # j
        BY <1>7, <2>1, <2>2, <2>4 DEF Draft
    <2> QED
        BY <2>3, <2>4
<1>12. AcceptedEditsNeverCollide'
    BY <1>5, <1>7, NewEditsDiffer
<1>13. RetainedWithinQuota'
    BY <1>6, NoMoreRetained DEF IntakeIInv, RetainedWithinQuota
<1> QED
    BY <1>2, <1>8, <1>9, <1>10, <1>11, <1>12, <1>13 DEF IntakeIInv, EditsAreNumbered

-----------------------------------------------------------------------------
(* Writes of a draft's files *)

\* A draft with room for one more object, that gets one more, keeps its quota.
LEMMA OneMoreRetained ==
    ASSUME NEW i \in Intakes, RetainedWithinQuota, NEW o,
           RetainedObjects(i)' \subseteq RetainedObjects(i) \cup {o},
           RoomFor(i)
    PROVE  Retained(i)' <= MaxRetained
<1>1. IsFiniteSet(RetainedObjects(i))
    <2>1. IsFiniteSet(Files \X (0..MaxRevisions))
        BY ObjectsAreFinite
    <2> QED
        BY <2>1, FS_Subset DEF RetainedObjects
<1>2. /\ IsFiniteSet(RetainedObjects(i) \cup {o})
      /\ Cardinality(RetainedObjects(i) \cup {o}) <= Cardinality(RetainedObjects(i)) + 1
      /\ Cardinality(RetainedObjects(i)) \in Nat
    BY <1>1, FS_AddElement, FS_CardinalityType
<1>3. /\ Cardinality(RetainedObjects(i)') <= Cardinality(RetainedObjects(i) \cup {o})
      /\ Cardinality(RetainedObjects(i)') \in Nat
      /\ Cardinality(RetainedObjects(i) \cup {o}) \in Nat
    BY <1>2, FS_Subset, FS_CardinalityType
<1>4. Cardinality(RetainedObjects(i)) + 1 <= MaxRetained
    BY DEF RoomFor, Retained
<1>5. Cardinality(RetainedObjects(i)') <= MaxRetained
    BY <1>2, <1>3, <1>4, IntakeAssumption
<1> QED
    BY <1>5 DEF Retained

\* A write of one file, of an open draft nobody holds or of a purchase, by a call
\* that ends, keeps who owns which draft.
LEMMA FileWritesKeepOwners ==
    ASSUME IntakeInv, NEW c \in Calls, NEW f \in Files, NEW row \in FileRows, NEW outcome,
           NEW value,
           ~InTransaction(c), Finish(c, outcome, value),
           outcome \in {"answered", "removing"},
           UNCHANGED <<intake, purchase, plan>>,
           \A g \in Files : file'[g] = IF g = f THEN row ELSE file[g],
           file[f] = NoRow \/ file[f].owner = row.owner,
           row.owner \in Intakes => Unlocked(row.owner)
    PROVE  FinalizationOwnsItsDraft'
<1> USE DEF IntakeInv
<1> SUFFICES ASSUME NEW d \in Calls, NEW i \in Intakes
             PROVE  /\ InTransaction(d)' /\ plan'[d].intake = i =>
                         intakeLock'[i] = d /\ Draft(i)' /\ ByIntake(i)' = {}
                    /\ intakeLock'[i] = d => InTransaction(d)' /\ plan'[d].intake = i
                    /\ pc'[d] = "reassigned" /\ plan'[d].intake = i =>
                         FilesWhatIsLive(d, i)'
    BY DEF FinalizationOwnsItsDraft
<1>1. /\ pc'[d] = IF d = c THEN outcome ELSE pc[d]
      /\ intakeLock'[i] = IF intakeLock[i] = c THEN NoCall ELSE intakeLock[i]
    BY DEF Finish, TypeOK
<1>2. Draft(i)' = Draft(i) /\ ByIntake(i)' = ByIntake(i) /\ plan' = plan
    BY DEF Draft, ByIntake, Committed
<1>3. /\ InTransaction(d) /\ plan[d].intake = i =>
          intakeLock[i] = d /\ Draft(i) /\ ByIntake(i) = {}
      /\ intakeLock[i] = d => InTransaction(d) /\ plan[d].intake = i
      /\ pc[d] = "reassigned" /\ plan[d].intake = i => FilesWhatIsLive(d, i)
    BY DEF FinalizationOwnsItsDraft
<1>4. CASE d = c
    <2>1. ~InTransaction(d)' /\ pc'[d] # "reassigned"
        BY <1>1, <1>4 DEF InTransaction
    <2>2. intakeLock'[i] # d
        BY <1>1, <1>4, IdentifiersDiffer
    <2> QED
        BY <2>1, <2>2
<1>5. CASE d # c
    <2>1. intakeLock'[i] = d <=> intakeLock[i] = d
        BY <1>1, <1>5, IdentifiersDiffer
    <2>2. ASSUME intakeLock[i] = d
          PROVE  FilesWhatIsLive(d, i) => FilesWhatIsLive(d, i)'
        <3>1. row.owner # i
            BY <2>2, IdentifiersDiffer DEF Unlocked
        <3>2. LiveFiles(i)' = LiveFiles(i)
            BY <3>1, IdentifiersDiffer DEF LiveFiles
        <3>3. \A g \in LiveFiles(i) : file'[g] = file[g]
            BY <3>1 DEF LiveFiles
        <3> QED
            BY <1>2, <3>2, <3>3 DEF FilesWhatIsLive, Acceptable
    <2>3. pc'[d] = pc[d]
        BY <1>1, <1>5
    <2> QED
        BY <1>2, <1>3, <2>1, <2>2, <2>3 DEF InTransaction
<1> QED
    BY <1>4, <1>5

LEMMA InsertEffect ==
    ASSUME IntakeInv, NEW c \in Calls, InsertFile(c)
    PROVE  \E row, outcome, value :
              LET j == plan[c].intake
              IN  /\ row \in FileRows
                  /\ j \in Intakes /\ plan[c] \in UploadPlans
                  /\ pc[c] = "stored" /\ file[c] = NoRow
                  /\ Unlocked(j) /\ Draft(j) /\ RoomFor(j)
                  /\ row.owner = j /\ row.content = plan[c].content
                  /\ row.derivatives = 0
                  /\ file' = [file EXCEPT ![c] = row]
                  /\ UNCHANGED <<intake, purchase, object, plan, desk>>
                  /\ Finish(c, outcome, value)
                  /\ \/ outcome = "answered" /\ value = UploadResult(c)
                     \/ outcome = "removing" /\ value = NoResult
<1> DEFINE j == plan[c].intake
           row == [owner |-> j, item |-> plan[c].item, mode |-> plan[c].mode,
                   confirmed |-> plan[c].mode = "NONE", derivatives |-> 0,
                   deleted |-> FALSE, version |-> 1, key |-> plan[c].key,
                   content |-> plan[c].content]
<1>1. plan[c] \in UploadPlans /\ pc[c] = "stored" /\ file[c] = NoRow
    BY OpenCallsShowNothing
    DEF InsertFile, IntakeInv, PlansFitStages, Fits, Ended
<1>2. j \in Intakes
    BY <1>1 DEF UploadPlans
<1>3. row \in FileRows
    <2>1. (plan[c].mode = "NONE") \in BOOLEAN /\ 0 \in 0..MaxRevisions /\ 1 \in Nat
        BY IntakeAssumption
    <2> QED
        BY <1>1, <2>1 DEF FileRows, UploadPlans
<1>4. /\ row.owner = j /\ row.content = plan[c].content /\ row.derivatives = 0
      /\ file' = [file EXCEPT ![c] = row]
    BY DEF InsertFile
<1>5. intake' = intake
    <2>1. intake' = [intake EXCEPT ![j] = intake[j]]
        BY DEF InsertFile, TouchedByLock
    <2> QED
        BY <1>2, <2>1 DEF IntakeInv, TypeOK
<1> HIDE DEF row
<1> QED
    BY <1>1, <1>2, <1>3, <1>4, <1>5 DEF InsertFile, LockDraftIntake, Answer

LEMMA InsertFileKeeps ==
    ASSUME IntakeIInv, NEW c \in Calls, InsertFile(c)
    PROVE  IntakeIInv'
<1> DEFINE j == plan[c].intake
<1>1. IntakeInv
    BY DEF IntakeIInv
<1>2. PICK row, outcome, value :
         /\ row \in FileRows
         /\ j \in Intakes /\ plan[c] \in UploadPlans
         /\ pc[c] = "stored" /\ file[c] = NoRow
         /\ Unlocked(j) /\ Draft(j) /\ RoomFor(j)
         /\ row.owner = j /\ row.content = plan[c].content
         /\ row.derivatives = 0
         /\ file' = [file EXCEPT ![c] = row]
         /\ UNCHANGED <<intake, purchase, object, plan, desk>>
         /\ Finish(c, outcome, value)
         /\ \/ outcome = "answered" /\ value = UploadResult(c)
            \/ outcome = "removing" /\ value = NoResult
    BY <1>1, InsertEffect
<1>3. /\ row # NoRow /\ c \in Files
      /\ result[c] = NoResult /\ ~Committed(c)
    BY <1>1, <1>2, IdentifiersDiffer, OpenCallsShowNothing DEF Files, Ended
<1>4. /\ value \in Results \cup {NoResult}
      /\ value # NoResult => outcome = "answered" /\ value.op = "upload" /\ value.on = c
    BY <1>2 DEF UploadResult, Results, Files
<1> HIDE DEF j
<1>5. /\ \A d \in Calls : /\ pc'[d] = IF d = c THEN outcome ELSE pc[d]
                          /\ result'[d] = IF d = c THEN value ELSE result[d]
      /\ \A f \in Files : file'[f] = IF f = c THEN row ELSE file[f]
    BY <1>1, <1>2 DEF Finish, IntakeInv, TypeOK
<1>6. TypeOK'
    <2>1. file' \in [Files -> FileRows \cup {NoRow}]
        BY <1>1, <1>2 DEF IntakeInv, TypeOK
    <2>2. /\ pc' \in [Calls -> Stages] /\ result' \in [Calls -> Results \cup {NoResult}]
          /\ intakeLock' \in [Intakes -> Calls \cup {NoCall}]
        BY <1>1, <1>2, <1>4 DEF IntakeInv, TypeOK, Finish, Stages
    <2> QED
        BY <1>1, <1>2, <2>1, <2>2 DEF IntakeInv, TypeOK
<1>7. PlansFitStages'
    <2> SUFFICES ASSUME NEW d \in Calls
                 PROVE  /\ Fits(pc'[d], plan'[d])
                        /\ pc'[d] = "filed" => file'[plan'[d].file] # NoRow
        BY DEF PlansFitStages
    <2>1. CASE d = c
        BY <1>2, <1>5, <2>1 DEF Fits
    <2>2. CASE d # c
        <3>1. pc'[d] = pc[d] /\ plan'[d] = plan[d]
            BY <1>2, <1>5, <2>2
        <3>2. Fits(pc[d], plan[d]) /\ (pc[d] = "filed" => file[plan[d].file] # NoRow)
            BY <1>1 DEF IntakeInv, PlansFitStages
        <3>3. pc[d] = "filed" => plan[d].file \in Files
            BY <1>1, ScopedRows
        <3> QED
            BY <1>3, <1>5, <3>1, <3>2, <3>3
    <2> QED
        BY <2>1, <2>2
<1>8. OnlyTheEndShows'
    BY <1>1, <1>2, <1>3, <1>4, <1>5 DEF IntakeInv, OnlyTheEndShows, Committed, Files
<1>9. FinalizationOwnsItsDraft'
    <2>1. ~InTransaction(c)
        BY <1>2 DEF InTransaction
    <2> QED
        BY <1>1, <1>2, <1>3, <1>5, <2>1, FileWritesKeepOwners
<1>10. EditsAreBehind'
    BY <1>1, <1>2, <1>3, <1>4, <1>5 DEF IntakeInv, EditsAreBehind
<1>11. CompletedIffPurchased'
    BY <1>2 DEF IntakeIInv, CompletedIffPurchased, ByIntake, Committed
<1>12. AnswersStand'
    <2> SUFFICES ASSUME NEW d \in Calls, result'[d] # NoResult,
                        result'[d].op \in {"purchase", "upload"}
                 PROVE  \E x \in Calls : Stands(d, x)'
        BY DEF AnswersStand
    <2>1. CASE d = c
        <3>1. Stores(c, c)'
            BY <1>2, <1>3, <1>5 DEF Stores
        <3>2. Stands(c, c)'
            BY <1>4, <1>5, <2>1, <3>1 DEF Stands
        <3> QED
            BY <2>1, <3>2
    <2>2. CASE d # c
        <3>1. result'[d] = result[d] /\ plan' = plan /\ purchase' = purchase
            BY <1>2, <1>5, <2>2
        <3>2. \E x \in Calls : Stands(d, x)
            BY <3>1 DEF IntakeIInv, AnswersStand
        <3>3. \A f \in Calls : file[f] # NoRow => file'[f] = file[f]
            BY <1>2, <1>5 DEF Files
        <3> QED
            BY <3>1, <3>2, <3>3, AnswersStandStill
    <2> QED
        BY <2>1, <2>2
<1>13. NothingEscapesFinalization'
    <2> SUFFICES ASSUME NEW i \in Intakes, intake'[i].status = "COMPLETED"
                 PROVE  LiveFiles(i)' = {}
        BY DEF NothingEscapesFinalization
    <2>1. i # j /\ LiveFiles(i) = {}
        BY <1>2 DEF Draft, IntakeIInv, NothingEscapesFinalization
    <2> QED
        BY <1>2, <1>5, <2>1 DEF LiveFiles
<1>14. EditsAreNumbered'
    BY <1>2, <1>3, <1>4, <1>5, NoEditNoNumber
<1>15. RetainedWithinQuota'
    <2> SUFFICES ASSUME NEW i \in Intakes
                 PROVE  Retained(i)' <= MaxRetained
        BY DEF RetainedWithinQuota
    <2>1. RetainedWithinQuota
        BY DEF IntakeIInv
    <2>2. CASE i = j
        <3>1. RetainedObjects(i)' \subseteq RetainedObjects(i) \cup {<<c, 0>>}
            <4> SUFFICES ASSUME NEW o \in RetainedObjects(i)', o \notin RetainedObjects(i)
                         PROVE  o = <<c, 0>>
                OBVIOUS
            <4>1. PICK f \in Files, n \in 0..MaxRevisions : o = <<f, n>>
                BY DEF RetainedObjects
            <4>2. file'[f] # NoRow /\ file'[f].owner = i /\ n <= file'[f].derivatives
                BY <4>1 DEF RetainedObjects
            <4>3. f = c
                BY <1>5, <4>1, <4>2 DEF RetainedObjects
            <4> QED
                BY <1>2, <1>5, <4>1, <4>2, <4>3
        <3> QED
            BY <1>2, <2>1, <2>2, <3>1, OneMoreRetained
    <2>3. CASE i # j
        <3>1. RetainedObjects(i)' \subseteq RetainedObjects(i)
            BY <1>2, <1>5, <2>3 DEF RetainedObjects
        <3> QED
            BY <2>1, <3>1, NoMoreRetained
    <2> QED
        BY <2>2, <2>3
<1> QED
    BY <1>6, <1>7, <1>8, <1>9, <1>10, <1>11, <1>12, <1>13, <1>14, <1>15
    DEF IntakeIInv, IntakeInv

LEMMA RewritesKeep ==
    ASSUME IntakeIInv, NEW c \in Calls, NEW row, NEW base, Rewrites(c, row, base)
    PROVE  IntakeIInv'
<1> DEFINE f == plan[c].file
           i0 == file[f].owner
           value == EditResult(f, base)
<1>1. IntakeInv
    BY DEF IntakeIInv
<1>2. /\ plan[c] \in FilePlans /\ pc[c] = "filed"
      /\ f \in Files /\ file[f] # NoRow /\ ~file[f].deleted
      /\ i0 \in Intakes => Unlocked(i0) /\ Draft(i0)
      /\ row \in FileRows /\ row.owner = i0 /\ row.content = file[f].content
      /\ row.version = file[f].version + 1
      /\ base \in Nat /\ (base = file[f].version \/ base = 0)
      /\ \/ row.derivatives = file[f].derivatives
         \/ /\ row.derivatives = file[f].derivatives + 1
            /\ i0 \in Intakes => RoomFor(i0)
      /\ file' = [file EXCEPT ![f] = row]
      /\ UNCHANGED <<intake, purchase, object, plan, desk>>
      /\ Answer(c, value)
    BY DEF Rewrites, LockDraftIntake
<1>3. /\ row # NoRow /\ result[c] = NoResult /\ ~Committed(c) /\ file[c] = NoRow
      /\ file[f] \in FileRows
    BY <1>1, <1>2, IdentifiersDiffer, OpenCallsShowNothing, RowTypes DEF Ended, IntakeInv
<1>4. value \in Results /\ value.op = "edit" /\ value.on = f /\ value.base = base
    BY <1>2 DEF EditResult, Results, Files
<1>5. file[f].version \in Nat /\ f \notin Intakes
    BY <1>2, <1>3, IdentifiersDiffer DEF FileRows
<1> HIDE DEF f, i0, value
<1>6. /\ \A d \in Calls : /\ pc'[d] = IF d = c THEN "answered" ELSE pc[d]
                          /\ result'[d] = IF d = c THEN value ELSE result[d]
      /\ \A g \in Files : file'[g] = IF g = f THEN row ELSE file[g]
    BY <1>1, <1>2 DEF Answer, Finish, IntakeInv, TypeOK
<1>7. TypeOK'
    <2>1. file' \in [Files -> FileRows \cup {NoRow}]
        BY <1>1, <1>2 DEF IntakeInv, TypeOK
    <2>2. /\ pc' \in [Calls -> Stages] /\ result' \in [Calls -> Results \cup {NoResult}]
          /\ intakeLock' \in [Intakes -> Calls \cup {NoCall}]
        BY <1>1, <1>2, <1>4 DEF IntakeInv, TypeOK, Answer, Finish, Stages
    <2> QED
        BY <1>1, <1>2, <2>1, <2>2 DEF IntakeInv, TypeOK
<1>8. PlansFitStages'
    <2> SUFFICES ASSUME NEW d \in Calls
                 PROVE  /\ Fits(pc'[d], plan'[d])
                        /\ pc'[d] = "filed" => file'[plan'[d].file] # NoRow
        BY DEF PlansFitStages
    <2>1. CASE d = c
        BY <1>2, <1>6, <2>1 DEF Fits
    <2>2. CASE d # c
        <3>1. pc'[d] = pc[d] /\ plan'[d] = plan[d]
            BY <1>2, <1>6, <2>2
        <3>2. Fits(pc[d], plan[d]) /\ (pc[d] = "filed" => file[plan[d].file] # NoRow)
            BY <1>1 DEF IntakeInv, PlansFitStages
        <3>3. pc[d] = "filed" => plan[d].file \in Files
            BY <1>1, ScopedRows
        <3> QED
            BY <1>3, <1>6, <3>1, <3>2, <3>3
    <2> QED
        BY <2>1, <2>2
<1>9. OnlyTheEndShows'
    <2> SUFFICES ASSUME NEW d \in Calls
                 PROVE  /\ result'[d] # NoResult \/ purchase'[d] # NoPurchase
                              => pc'[d] = "answered"
                        /\ file'[d] # NoRow => pc'[d] \in {"answered", "removing", "failed"}
        BY DEF OnlyTheEndShows, Committed
    <2>1. file'[d] # NoRow => file[d] # NoRow
        BY <1>2, <1>6 DEF Files
    <2> QED
        BY <1>1, <1>2, <1>6, <2>1 DEF IntakeInv, OnlyTheEndShows, Committed
<1>10. FinalizationOwnsItsDraft'
    <2>1. ~InTransaction(c) /\ Finish(c, "answered", value)
        BY <1>2 DEF InTransaction, Answer
    <2>2. file[f].owner = row.owner /\ (row.owner \in Intakes => Unlocked(row.owner))
        BY <1>2 DEF i0
    <2> QED
        BY <1>1, <1>2, <1>6, <2>1, <2>2, FileWritesKeepOwners
<1>11. EditsAreBehind'
    <2> SUFFICES ASSUME NEW d \in Calls, result'[d] # NoResult, result'[d].op = "edit"
                 PROVE  /\ result'[d].on \in Intakes =>
                              result'[d].base < intake'[result'[d].on].version
                        /\ result'[d].on \notin Intakes =>
                              /\ result'[d].on \in Files /\ file'[result'[d].on] # NoRow
                              /\ result'[d].base < file'[result'[d].on].version
        BY DEF EditsAreBehind
    <2>1. CASE d = c
        <3>1. result'[d] = value /\ file'[f] = row
            BY <1>2, <1>6, <2>1
        <3>2. base < row.version
            BY <1>2, <1>5
        <3> QED
            BY <1>2, <1>3, <1>4, <1>5, <3>1, <3>2
    <2>2. CASE d # c
        <3> DEFINE x == result[d].on
        <3>1. result'[d] = result[d]
            BY <1>6, <2>2
        <3>2. /\ x \in Intakes => result[d].base < intake[x].version
              /\ x \notin Intakes =>
                    x \in Files /\ file[x] # NoRow /\ result[d].base < file[x].version
            BY <1>1, <3>1 DEF IntakeInv, EditsAreBehind
        <3>3. result[d].base \in Nat
            BY <1>1, <3>1 DEF IntakeInv, TypeOK, Results
        <3> HIDE DEF x
        <3>4. x \notin Intakes =>
                  x \in Files /\ file'[x] # NoRow /\ result[d].base < file'[x].version
            BY <1>2, <1>3, <1>5, <1>6, <3>2, <3>3
        <3> QED
            BY <1>2, <3>1, <3>2, <3>4 DEF x
    <2> QED
        BY <2>1, <2>2
<1>12. CompletedIffPurchased'
    BY <1>2 DEF IntakeIInv, CompletedIffPurchased, ByIntake, Committed
<1>13. AnswersStand'
    <2> SUFFICES ASSUME NEW d \in Calls, result'[d] # NoResult,
                        result'[d].op \in {"purchase", "upload"}
                 PROVE  \E x \in Calls : Stands(d, x)'
        BY DEF AnswersStand
    <2>1. d # c /\ result'[d] = result[d] /\ plan' = plan /\ purchase' = purchase
        BY <1>2, <1>4, <1>6
    <2>2. \E x \in Calls : Stands(d, x)
        BY <2>1 DEF IntakeIInv, AnswersStand
    <2>3. \A g \in Calls : file[g] # NoRow =>
             /\ file'[g] # NoRow
             /\ file'[g].content = file[g].content
        BY <1>2, <1>3, <1>6 DEF Files
    <2> QED
        BY <2>1, <2>2, <2>3, AnswersStandStill
<1>14. NothingEscapesFinalization'
    <2> SUFFICES ASSUME NEW i \in Intakes, intake'[i].status = "COMPLETED"
                 PROVE  LiveFiles(i)' = {}
        BY DEF NothingEscapesFinalization
    <2>1. i # i0 /\ LiveFiles(i) = {}
        BY <1>2 DEF Draft, IntakeIInv, NothingEscapesFinalization
    <2> QED
        BY <1>2, <1>6, <2>1 DEF LiveFiles
<1>15. VersionCountsEdits'
    <2> SUFFICES ASSUME NEW i \in Intakes
                 PROVE  intake'[i].version = 1 + Cardinality(Edits(i)')
                                               + IF Draft(i)' THEN 0 ELSE 1
        BY DEF VersionCountsEdits, Edits
    <2>1. intake[i].version = 1 + Cardinality(Edits(i)) + IF Draft(i) THEN 0 ELSE 1
        BY DEF IntakeIInv, EditsAreNumbered, VersionCountsEdits, Edits
    <2>2. value.on # i
        BY <1>4, <1>5
    <2>3. Edits(i)' = Edits(i)
        BY <1>1, <1>3, <1>4, <1>6, <2>2, NewEdits
    <2>4. Draft(i)' = Draft(i) /\ intake' = intake
        BY <1>2 DEF Draft
    <2> QED
        BY <2>1, <2>3, <2>4
<1>16. AcceptedEditsNeverCollide'
    <2>1. ASSUME NEW d \in Calls, result[d] # NoResult,
                 result[d].op = "edit", result[d].on = value.on
          PROVE  result[d].base < value.base \/ value.base = 0
        <3>1. result[d].base < file[f].version
            BY <1>1, <1>4, <1>5, <2>1 DEF IntakeInv, EditsAreBehind
        <3> QED
            BY <1>2, <1>4, <3>1
    <2> QED
        BY <1>3, <1>4, <1>6, <2>1, NewEditsDiffer
<1>17. RetainedWithinQuota'
    <2> SUFFICES ASSUME NEW i \in Intakes
                 PROVE  Retained(i)' <= MaxRetained
        BY DEF RetainedWithinQuota
    <2>1. RetainedWithinQuota
        BY DEF IntakeIInv
    <2>2. CASE i = i0 /\ row.derivatives # file[f].derivatives
        <3>1. RetainedObjects(i)' \subseteq RetainedObjects(i) \cup {<<f, row.derivatives>>}
            <4> SUFFICES ASSUME NEW o \in RetainedObjects(i)', o \notin RetainedObjects(i)
                         PROVE  o = <<f, row.derivatives>>
                OBVIOUS
            <4>1. PICK g \in Files, n \in 0..MaxRevisions : o = <<g, n>>
                BY DEF RetainedObjects
            <4>2. file'[g] # NoRow /\ file'[g].owner = i /\ n <= file'[g].derivatives
                BY <4>1 DEF RetainedObjects
            <4>3. g = f
                BY <1>6, <4>1, <4>2 DEF RetainedObjects
            <4>4. ~(n <= file[f].derivatives)
                BY <1>2, <2>2, <4>1, <4>3 DEF RetainedObjects, i0
            <4>5. n <= row.derivatives /\ row.derivatives = file[f].derivatives + 1
                BY <1>2, <1>6, <2>2, <4>2, <4>3
            <4>6. file[f].derivatives \in Nat /\ n \in Nat
                BY <1>3 DEF FileRows
            <4> QED
                BY <4>1, <4>3, <4>4, <4>5, <4>6
        <3> QED
            BY <1>2, <2>1, <2>2, <3>1, OneMoreRetained
    <2>3. CASE ~(i = i0 /\ row.derivatives # file[f].derivatives)
        <3>1. RetainedObjects(i)' \subseteq RetainedObjects(i)
            BY <1>2, <1>6, <2>3 DEF RetainedObjects, i0
        <3> QED
            BY <2>1, <3>1, NoMoreRetained
    <2> QED
        BY <2>2, <2>3
<1> QED
    BY <1>7, <1>8, <1>9, <1>10, <1>11, <1>12, <1>13, <1>14, <1>15, <1>16, <1>17
    DEF IntakeIInv, IntakeInv, EditsAreNumbered

-----------------------------------------------------------------------------
(* The theorems *)

LEMMA InitKeeps == Init => IntakeIInv
<1> SUFFICES ASSUME Init PROVE IntakeIInv
    OBVIOUS
<1>1. /\ intake = [i \in Intakes |-> [status |-> "DRAFT", version |-> 1]]
      /\ purchase = [c \in Calls |-> NoPurchase]
      /\ desk \in Desks /\ desk.files \subseteq OldFiles
      /\ \A i \in Intakes : Retained(i) <= MaxRetained
      /\ object = desk.files
      /\ intakeLock = [i \in Intakes |-> NoCall]
      /\ pc = [c \in Calls |-> "new"]
      /\ plan = [c \in Calls |-> NoPlan]
      /\ result = [c \in Calls |-> NoResult]
    BY IntakeAssumption DEF Init
<1>2. PICK rows \in [desk.files -> UNION {OldRow[f] : f \in OldFiles}] :
         /\ \A f \in desk.files : rows[f] \in OldRow[f]
         /\ file = [f \in Files |-> IF f \in desk.files THEN rows[f] ELSE NoRow]
    BY DEF Init
<1>3. \A f \in desk.files : rows[f] \in FileRows
    BY <1>1, <1>2, IntakeAssumption
<1>4. file \in [Files -> FileRows \cup {NoRow}]
    BY <1>2, <1>3
<1>5. \A c \in Calls : file[c] = NoRow
    BY <1>1, <1>2, IdentifiersDiffer DEF Files
<1>6. TypeOK
    BY <1>1, <1>4 DEF TypeOK, IntakeRows, Stages, Files
<1>7. PlansFitStages /\ OnlyTheEndShows
    BY <1>1, <1>5 DEF PlansFitStages, OnlyTheEndShows, Fits, Committed
<1>8. FinalizationOwnsItsDraft
    BY <1>1, IdentifiersDiffer DEF FinalizationOwnsItsDraft, InTransaction
<1>9. EditsAreBehind
    BY <1>1 DEF EditsAreBehind
<1>10. CompletedIffPurchased
    <2>1. \A i \in Intakes : ByIntake(i) = {}
        BY <1>1 DEF ByIntake, Committed
    <2>2. \A i \in Intakes : intake[i].status # "COMPLETED"
        BY <1>1
    <2> QED
        BY <2>1, <2>2, FS_EmptySet DEF CompletedIffPurchased
<1>11. AnswersStand
    BY <1>1 DEF AnswersStand
<1>12. NothingEscapesFinalization
    BY <1>1 DEF NothingEscapesFinalization
<1>13. EditsAreNumbered
    <2>1. ASSUME NEW i \in Intakes
          PROVE  /\ {c \in Calls : result[c] # NoResult
                                    /\ result[c].op = "edit" /\ result[c].on = i} = {}
                 /\ intake[i].version = 1 /\ Draft(i)
        BY <1>1 DEF Draft
    <2>2. VersionCountsEdits
        <3>1. Cardinality({}) = 0
            BY FS_EmptySet
        <3> SUFFICES ASSUME NEW i \in Intakes
                     PROVE  intake[i].version = 1 + Cardinality(
                               {c \in Calls : result[c] # NoResult
                                    /\ result[c].op = "edit" /\ result[c].on = i})
                               + IF Draft(i) THEN 0 ELSE 1
            BY DEF VersionCountsEdits
        <3>2. {c \in Calls : result[c] # NoResult
                  /\ result[c].op = "edit" /\ result[c].on = i} = {}
            BY <2>1
        <3>3. intake[i].version = 1 /\ Draft(i)
            BY <2>1
        <3> QED
            BY <3>1, <3>2, <3>3
    <2>3. AcceptedEditsNeverCollide
        BY <1>1 DEF AcceptedEditsNeverCollide
    <2> QED
        BY <2>2, <2>3 DEF EditsAreNumbered
<1>14. RetainedWithinQuota
    BY <1>1 DEF RetainedWithinQuota
<1> QED
    BY <1>6, <1>7, <1>8, <1>9, <1>10, <1>11, <1>12, <1>13, <1>14
    DEF IntakeIInv, IntakeInv

LEMMA NextKeeps == IntakeIInv /\ [Next]_vars => IntakeIInv'
<1> SUFFICES ASSUME IntakeIInv, [Next]_vars PROVE IntakeIInv'
    OBVIOUS
<1>1. IntakeInv
    BY DEF IntakeIInv
<1>2. CASE UNCHANGED vars
    <2>1. IntakeInv'
        <3> USE <1>1, <1>2 DEF vars, tables, IntakeInv
        <3>1. TypeOK'
            BY DEF TypeOK
        <3>2. PlansFitStages'
            BY DEF PlansFitStages
        <3>3. OnlyTheEndShows'
            BY DEF OnlyTheEndShows, Committed
        <3>4. FinalizationOwnsItsDraft'
            <4>1. \A i : LiveFiles(i)' = LiveFiles(i) /\ ByIntake(i)' = ByIntake(i)
                BY DEF LiveFiles, ByIntake, Committed
            <4>2. \A c, i : FilesWhatIsLive(c, i)' <=> FilesWhatIsLive(c, i)
                BY <4>1 DEF FilesWhatIsLive, Acceptable
            <4> QED
                BY <4>1, <4>2 DEF FinalizationOwnsItsDraft, InTransaction, Draft
        <3>5. EditsAreBehind'
            BY DEF EditsAreBehind
        <3> QED
            BY <3>1, <3>2, <3>3, <3>4, <3>5
    <2>2. AnswersStand'
        BY <1>2 DEF vars, tables, IntakeIInv, AnswersStand, Stands, Names, Stores
    <2>3. UNCHANGED <<intake, purchase, file, result>>
        BY <1>2 DEF vars, tables
    <2> QED
        BY <2>1, <2>2, <2>3, SameTablesSayTheSame DEF IntakeIInv
<1> QED
    BY <1>1, <1>2, StepShapes, MovesKeep, EndsKeep, SaveDraftKeeps, CancelKeeps,
       LockIntakeKeeps, CommitKeeps, InsertFileKeeps, RewritesKeep

\* The invariant that carries the others holds of every behaviour.
THEOREM IntakeInvariant == Spec => []IntakeIInv
<1> QED
    BY InitKeeps, NextKeeps, PTL DEF Spec

\* Types hold, a call works on what its earlier steps planned, a finalization owns
\* its draft from the lock to the commit, and an edit is behind what it edited.
THEOREM IntakesAreOwned == Spec => []IntakeInv
<1>1. IntakeIInv => IntakeInv
    BY DEF IntakeIInv
<1> QED
    BY <1>1, IntakeInvariant, PTL

\* A completed draft has exactly one purchase and no other draft has any, every
\* caller that is handed a purchase gets the one it asked for, and no file is left
\* on a completed draft: whatever the number of calls that race.
THEOREM DraftsAndPurchasesAgree == Spec => []IntakesAndPurchasesAgree
<1>1. AnswersStand => AnswersNameTheRightPurchase
    <2> SUFFICES ASSUME AnswersStand, NEW c \in Calls, result[c] # NoResult,
                        result[c].op = "purchase"
                 PROVE  /\ purchase[result[c].on] # NoPurchase
                        /\ IF plan[c].intake # NoIntake
                           THEN purchase[result[c].on].intake = plan[c].intake
                           ELSE /\ purchase[result[c].on].key = plan[c].key
                                /\ purchase[result[c].on].body = plan[c].body
        BY DEF AnswersNameTheRightPurchase
    <2> QED
        BY DEF AnswersStand, Stands, Names
<1>2. IntakeIInv => IntakesAndPurchasesAgree
    BY <1>1 DEF IntakeIInv, IntakesAndPurchasesAgree
<1> QED
    BY <1>2, IntakeInvariant, PTL

\* The version of a draft counts its accepted saves and its end, and no two accepted
\* edits of a draft or of a file were made from the same version.
THEOREM EveryEditHasItsNumber == Spec => []EditsAreNumbered
<1>1. IntakeIInv => EditsAreNumbered
    BY DEF IntakeIInv
<1> QED
    BY <1>1, IntakeInvariant, PTL

\* An upload is answered with a stored file of its draft and its content, and what
\* a draft retains stays within the quota although room was seen without a lock.
THEOREM UploadsKeepTheirWord == Spec => []UploadsAnswerTruly
<1>1. AnswersStand => UploadAnswersMatch
    BY DEF AnswersStand, UploadAnswersMatch, Stands, Stores
<1>2. IntakeIInv => UploadsAnswerTruly
    BY <1>1 DEF IntakeIInv, UploadsAnswerTruly
<1> QED
    BY <1>2, IntakeInvariant, PTL

\* A step changes a draft only as long as it is open.
LEMMA TerminalStep ==
    ASSUME IntakeIInv, [Next]_vars, NEW i \in Intakes, ~Draft(i)
    PROVE  intake'[i] = intake[i]
<1>1. IntakeInv
    BY DEF IntakeIInv
<1>2. ASSUME NEW c \in Calls, SaveDraft(c)
      PROVE  intake'[i] = intake[i]
    <2>1. plan[c].intake # i
        BY <1>2 DEF SaveDraft, SaveMatches
    <2> QED
        BY <1>1, <1>2, <2>1 DEF SaveDraft, IntakeInv, TypeOK
<1>3. ASSUME NEW c \in Calls, Cancel(c)
      PROVE  intake'[i] = intake[i]
    <2>1. plan[c].intake # i
        BY <1>3 DEF Cancel, CancelMatches
    <2> QED
        BY <1>1, <1>3, <2>1 DEF Cancel, IntakeInv, TypeOK
<1>4. ASSUME NEW c \in Calls, CommitPurchase(c)
      PROVE  intake'[i] = intake[i]
    <2>1. /\ plan[c].intake \in Intakes => Draft(plan[c].intake)
          /\ intake' = [k \in Intakes |->
                IF k = plan[c].intake THEN [status |-> "COMPLETED",
                                            version |-> intake[k].version + 1]
                ELSE intake[k]]
        BY <1>1, <1>4, CommitEffect
    <2> QED
        BY <2>1
<1>5. ASSUME NEW c \in Calls, InsertFile(c)
      PROVE  intake' = intake
    BY <1>1, <1>5, InsertEffect
<1>6. ASSUME NEW c \in Calls, LockIntake(c)
      PROVE  intake' = intake
    BY <1>6 DEF LockIntake, tables
<1>7. ASSUME NEW c \in Calls, NEW x, NEW y, Moves(c, x, y) \/ Ends(c, x, y) \/ Rewrites(c, x, y)
      PROVE  intake' = intake
    BY <1>7 DEF Moves, Ends, Rewrites
<1>8. UNCHANGED vars => intake' = intake
    BY DEF vars, tables
<1> QED
    BY <1>1, <1>2, <1>3, <1>4, <1>5, <1>6, <1>7, <1>8, StepShapes

\* A completed or cancelled draft never changes again.
THEOREM TerminalDraftsStay == Spec => TerminalIntakesStayTerminal
<1>1. IntakeIInv /\ [Next]_vars => [\A i \in Intakes : ~Draft(i) => intake'[i] = intake[i]]_vars
    BY TerminalStep
<1> QED
    BY <1>1, IntakeInvariant, PTL DEF Spec, TerminalIntakesStayTerminal

\* The commit of a purchase files what was live on its draft, as it was reviewed.
LEMMA CommitFilesReviewed ==
    ASSUME IntakeInv, NEW c \in Calls, CommitPurchase(c), NEW f \in Files,
           file[f] # NoRow, file[f].owner \in Intakes, file'[f].owner \notin Intakes
    PROVE  /\ file[f].confirmed /\ ~file[f].deleted
           /\ file'[f].owner = [purchase |-> c, item |-> file[f].item]
           /\ purchase'[c].intake = file[f].owner
           /\ file[f].item \in ItemsOf[purchase'[c].body] \cup {NoItem}
<1> DEFINE j == plan[c].intake
<1>1. /\ ~(j \in Intakes /\ f \in LiveFiles(j)) => file'[f] = file[f]
      /\ j \in Intakes /\ f \in LiveFiles(j) =>
           file'[f] = [file[f] EXCEPT !.owner = [purchase |-> c, item |-> file[f].item]]
      /\ purchase' = [purchase EXCEPT ![c] =
             [key |-> plan[c].key, body |-> plan[c].body, intake |-> j]]
      /\ j \in Intakes => Acceptable(j, plan[c].body)
    BY CommitEffect
<1> HIDE DEF j
<1>2. j \in Intakes /\ f \in LiveFiles(j)
    BY <1>1
<1>3. file[f] \in FileRows /\ file[f].owner = j /\ ~file[f].deleted
    BY <1>2, RowTypes DEF LiveFiles, IntakeInv
<1>4. file[f].confirmed /\ file[f].item \in ItemsOf[plan[c].body] \cup {NoItem}
    BY <1>1, <1>2 DEF Acceptable
<1>5. purchase'[c] = [key |-> plan[c].key, body |-> plan[c].body, intake |-> j]
    BY <1>1 DEF IntakeInv, TypeOK
<1>6. file'[f].owner = [purchase |-> c, item |-> file[f].item]
    BY <1>1, <1>2, <1>3 DEF FileRows
<1>7. purchase'[c].intake = j /\ purchase'[c].body = plan[c].body
    BY <1>5
<1> QED
    BY <1>3, <1>4, <1>6, <1>7

LEMMA FilingStep ==
    ASSUME IntakeIInv, [Next]_vars, NEW f \in Files,
           file[f] # NoRow, file[f].owner \in Intakes, file'[f].owner \notin Intakes
    PROVE  \E c \in Calls : CommitPurchase(c)
<1>1. IntakeInv
    BY DEF IntakeIInv
<1>2. file' # file
    OBVIOUS
<1>3. ASSUME NEW c \in Calls, SaveDraft(c) \/ Cancel(c) \/ LockIntake(c)
      PROVE  FALSE
    BY <1>2, <1>3 DEF SaveDraft, Cancel, LockIntake, tables
<1>4. ASSUME NEW c \in Calls, NEW x, NEW y, Moves(c, x, y) \/ Ends(c, x, y)
      PROVE  FALSE
    BY <1>2, <1>4 DEF Moves, Ends
<1>5. ASSUME NEW c \in Calls, InsertFile(c)
      PROVE  FALSE
    <2>1. PICK row \in FileRows : file[c] = NoRow /\ file' = [file EXCEPT ![c] = row]
        BY <1>1, <1>5, InsertEffect
    <2>2. f # c
        BY <2>1
    <2> QED
        BY <1>1, <2>1, <2>2 DEF IntakeInv, TypeOK
<1>6. ASSUME NEW c \in Calls, NEW row, NEW base, Rewrites(c, row, base)
      PROVE  FALSE
    <2>1. /\ plan[c].file \in Files /\ row.owner = file[plan[c].file].owner
          /\ file' = [file EXCEPT ![plan[c].file] = row]
        BY <1>6 DEF Rewrites
    <2> QED
        BY <1>1, <2>1 DEF IntakeInv, TypeOK
<1>7. UNCHANGED vars => FALSE
    BY <1>2 DEF vars, tables
<1> QED
    BY <1>1, <1>3, <1>4, <1>5, <1>6, <1>7, StepShapes

\* A file enters the ledger confirmed, not deleted, and under the line of its own
\* draft's purchase that it names at that moment.
THEOREM FilesAreFiledAsReviewed == Spec => FiledAsReviewed
<1>1. ASSUME IntakeIInv, [Next]_vars, NEW f \in Files,
             file[f] # NoRow, file[f].owner \in Intakes, file'[f].owner \notin Intakes
      PROVE  LET placed == file'[f].owner
             IN  /\ file[f].confirmed /\ ~file[f].deleted
                 /\ placed.item = file[f].item
                 /\ purchase'[placed.purchase].intake = file[f].owner
                 /\ placed.item \in ItemsOf[purchase'[placed.purchase].body]
                                      \cup {NoItem}
    <2>1. PICK c \in Calls : CommitPurchase(c)
        BY <1>1, FilingStep
    <2>2. IntakeInv
        BY <1>1 DEF IntakeIInv
    <2>3. /\ file[f].confirmed /\ ~file[f].deleted
          /\ file'[f].owner = [purchase |-> c, item |-> file[f].item]
          /\ purchase'[c].intake = file[f].owner
          /\ file[f].item \in ItemsOf[purchase'[c].body] \cup {NoItem}
        BY <1>1, <2>1, <2>2, CommitFilesReviewed
    <2>4. file'[f].owner.purchase = c /\ file'[f].owner.item = file[f].item
        BY <2>3
    <2> QED
        BY <2>3, <2>4
<1>2. IntakeIInv /\ [Next]_vars =>
         [\A f \in Files :
            (file[f] # NoRow /\ file[f].owner \in Intakes
               /\ file'[f].owner \notin Intakes) =>
               LET placed == file'[f].owner
               IN  /\ file[f].confirmed /\ ~file[f].deleted
                   /\ placed.item = file[f].item
                   /\ purchase'[placed.purchase].intake = file[f].owner
                   /\ placed.item \in ItemsOf[purchase'[placed.purchase].body]
                                        \cup {NoItem}]_vars
    BY <1>1
<1> QED
    BY <1>2, IntakeInvariant, PTL DEF Spec, FiledAsReviewed
=============================================================================
