---------------------------- MODULE PurchaseIntake ----------------------------
(***************************************************************************)
(* The purchase wizard's drafts and how they become purchases:             *)
(* PurchaseIntakesService (update, cancel), PurchasesService.create and    *)
(* createFromIntake, and the draft side of AttachmentsService (upload,     *)
(* uploadVariant, review, softDelete), as concurrent calls.                *)
(*                                                                         *)
(* Postgres runs at READ COMMITTED.  The draft's row lock, taken by        *)
(* tryLockDraftIntake, is held from the statement that takes it to the end *)
(* of the transaction.  A finalization is split at every statement that    *)
(* reads what another call writes; a transaction that does everything      *)
(* under the lock and touches only rows the lock guards is one step, taken *)
(* when the lock is free.                                                  *)
(*                                                                         *)
(* External to src/ and assumed: Postgres' row locks, unique indexes (an   *)
(* insert waits for an uncommitted one of the same key) and atomic commit; *)
(* a commit whose acknowledgement is lost looks like a failure to the API. *)
(***************************************************************************)
EXTENDS Integers, FiniteSets

CONSTANTS
    Calls,              \* the HTTP requests of a behaviour
    Intakes,            \* wizard drafts, all of one user
    Keys,               \* Idempotency-Key values
    Bodies,             \* purchase requests, up to hashPurchaseRequest
    Items,              \* draftItemIds
    ItemsOf,            \* the draftItemIds of a body's lines
    UploadKeys,         \* upload idempotency keys (hashUploadKey scopes them to a draft)
    Contents,           \* uploads, up to hashUploadRequest
    OldFiles, OldRow,   \* files the drafts already hold, and their rows
    Desks,              \* bound: what one behaviour is about: the operations the calls
                        \*   ask for, the drafts, keys and old files there are
    MaxRetained,        \* intakeMaxBytes; every stored object counts one
    MaxRevisions,       \* derivativeMaxRevisions
    NoCall, NoIntake, NoItem, NoPurchase, NoRow, NoPlan, NoResult, NoKey

Files == Calls \cup OldFiles
Modes == {"NONE", "OBJECT_CROP"}

\* Where finalization files an attachment: on the purchase, or on the lot the
\* purchase created for a draft item.
Placements == [purchase : Calls, item : Items \cup {NoItem}]

\* `confirmed' stands for status READY, which is set exactly with userConfirmed.
FileRows == [owner : Intakes \cup Placements, item : Items \cup {NoItem},
             mode : Modes, confirmed : BOOLEAN, derivatives : 0..MaxRevisions,
             deleted : BOOLEAN, version : Nat,
             key : UploadKeys \cup {NoKey}, content : Contents \cup {NoKey}]

ASSUME IntakeAssumption ==
    /\ ItemsOf \in [Bodies -> SUBSET Items]
    /\ OldRow \in [OldFiles -> SUBSET FileRows]
    /\ \A f \in OldFiles : \A row \in OldRow[f] :
         /\ row.owner \in Intakes /\ row.key = NoKey
         /\ row.confirmed /\ row.mode # "NONE" => row.derivatives > 0
    /\ \A d \in Desks :
         d.intakes \subseteq Intakes /\ d.keys \subseteq Keys /\ d.files \subseteq OldFiles
    /\ MaxRetained \in Nat /\ MaxRevisions \in Nat

\* Identifiers of different tables differ, and no row is a missing one.
ASSUME IdentifiersDiffer ==
    /\ IsFiniteSet(Calls) /\ IsFiniteSet(OldFiles)
    /\ Calls \cap OldFiles = {} /\ Intakes \cap (Files \cup Placements) = {}
    /\ NoCall \notin Calls /\ NoIntake \notin Intakes /\ NoItem \notin Items
    /\ NoKey \notin UploadKeys /\ NoRow \notin FileRows

VARIABLES
    intake,             \* committed PurchaseIntake rows
    purchase,           \* committed Purchase rows, by the call that inserted them
    file,               \* committed Attachment rows, by the call that inserted them
    object,             \* stored originals, by the call that put them
    intakeLock,         \* the finalization holding each draft's row lock
    pc,                 \* how far each call has come
    plan,               \* what a call was asked, and what it read
    result,             \* what a call did or found
    desk                \* the bounds of this behaviour, chosen at the start

tables == <<intake, purchase, file, object>>
vars   == <<tables, intakeLock, pc, plan, result, desk>>

\* Bytes the draft retains: originals and derivatives, deleted ones included.
\* The original of a file is its object 0, its derivatives follow.
RetainedObjects(i) ==
    {o \in Files \X (0..MaxRevisions) :
        /\ file[o[1]] # NoRow /\ file[o[1]].owner = i
        /\ o[2] <= file[o[1]].derivatives}

Retained(i) == Cardinality(RetainedObjects(i))

Init ==
    /\ intake = [i \in Intakes |-> [status |-> "DRAFT", version |-> 1]]
    /\ purchase = [c \in Calls |-> NoPurchase]
    /\ desk \in Desks
    /\ \E rows \in [desk.files -> UNION {OldRow[f] : f \in OldFiles}] :
         /\ \A f \in desk.files : rows[f] \in OldRow[f]
         /\ file = [f \in Files |-> IF f \in desk.files THEN rows[f] ELSE NoRow]
    /\ \A i \in Intakes : Retained(i) <= MaxRetained
    /\ object = desk.files
    /\ intakeLock = [i \in Intakes |-> NoCall]
    /\ pc = [c \in Calls |-> "new"]
    /\ plan = [c \in Calls |-> NoPlan]
    /\ result = [c \in Calls |-> NoResult]

-----------------------------------------------------------------------------
(* Steps every call is made of *)

\* A read that passed its checks: remember what was read and go on.
Proceed(c, next, p) ==
    /\ pc' = [pc EXCEPT ![c] = next]
    /\ plan' = [plan EXCEPT ![c] = p]
    /\ UNCHANGED <<tables, intakeLock, result, desk>>

\* The end of a call and of its transaction.  Whether the caller hears of what
\* was committed changes no row; one that does not hear retries, as another
\* call.  Only an upload acts on a lost acknowledgement (InsertFile).
Finish(c, outcome, value) ==
    /\ pc' = [pc EXCEPT ![c] = outcome]
    /\ result' = [result EXCEPT ![c] = value]
    /\ intakeLock' = [i \in Intakes |->
                        IF intakeLock[i] = c THEN NoCall ELSE intakeLock[i]]

Answer(c, value) == Finish(c, "answered", value)

\* A lookup that found what the call asked for.
AnswerFrom(c, value) == Answer(c, value) /\ UNCHANGED <<tables, plan, desk>>

PurchaseResult(q) == [op |-> "purchase", on |-> q, base |-> 0]
UploadResult(f)   == [op |-> "upload", on |-> f, base |-> 0]
CancelResult(i)   == [op |-> "cancel", on |-> i, base |-> 0]
EditResult(x, v)  == [op |-> "edit", on |-> x, base |-> v]

Draft(i) == intake[i].status = "DRAFT"
Unlocked(i) == intakeLock[i] = NoCall

\* Fault: the status is checked, the row is not locked.
StatusCheckOnly(i) == Draft(i)

\* lockDraftIntake, for the transactions that are one step.
LockDraftIntake(i) == Unlocked(i) /\ Draft(i)

\* Fault: taking the lock counts as an edit of the draft.
LockAsEdit(row) == [row EXCEPT !.version = @ + 1]

\* Taking the lock writes version + 0.
TouchedByLock(row) == row

-----------------------------------------------------------------------------
(* Saving and cancelling a draft *)

\* The client reads the draft it will save back.
ReadForSave(c, i) ==
    /\ "save" \in desk.operations
    /\ pc[c] = "new"
    /\ Proceed(c, "saving", [op |-> "save", intake |-> i,
                             version |-> intake[i].version])

\* Fault: the save does not name the version it was made from.
AnyVersion(c, i) == Draft(i)

SaveMatches(c, i) == Draft(i) /\ intake[i].version = plan[c].version

\* PurchaseIntakesService.update: one updateMany outside a transaction.
SaveDraft(c) ==
    /\ pc[c] = "saving"
    /\ LET i == plan[c].intake
       IN  /\ Unlocked(i)
           /\ SaveMatches(c, i)
           /\ intake' = [intake EXCEPT ![i].version = @ + 1]
           /\ Answer(c, EditResult(i, plan[c].version))
    /\ UNCHANGED <<purchase, file, object, plan, desk>>

ReadForCancel(c, i) ==
    /\ "cancel" \in desk.operations
    /\ pc[c] = "new"
    /\ Draft(i)
    /\ Proceed(c, "cancelling", [op |-> "cancel", intake |-> i])

AlreadyCancelled(c, i) ==
    /\ "cancel" \in desk.operations
    /\ pc[c] = "new"
    /\ intake[i].status = "CANCELLED"
    /\ AnswerFrom(c, CancelResult(i))

\* Fault: the update selects the draft by id alone.
CancelsAny(i) == TRUE

\* The WHERE of cancel's updateMany.
CancelMatches(i) == Draft(i)

Cancel(c) ==
    /\ pc[c] = "cancelling"
    /\ LET i == plan[c].intake
       IN  /\ Unlocked(i)
           /\ CancelMatches(i)
           /\ intake' = [intake EXCEPT ![i].status = "CANCELLED",
                                       ![i].version = @ + 1]
           /\ Answer(c, CancelResult(i))
    /\ UNCHANGED <<purchase, file, object, plan, desk>>

\* The update matched no row: another cancel got there first.
CancelRaced(c) ==
    /\ pc[c] = "cancelling"
    /\ LET i == plan[c].intake
       IN  /\ Unlocked(i)
           /\ intake[i].status = "CANCELLED"
           /\ AnswerFrom(c, CancelResult(i))

-----------------------------------------------------------------------------
(* Creating a purchase, from a draft or directly *)

Committed(q) == purchase[q] # NoPurchase
ByKey(k)     == {q \in Calls : Committed(q) /\ purchase[q].key = k}
ByIntake(i)  == {q \in Calls : i # NoIntake /\ Committed(q) /\ purchase[q].intake = i}

\* createFromIntake reads the draft without a lock.
ReadForFinalize(c, i) ==
    /\ "finalize" \in desk.operations
    /\ pc[c] = "new"
    /\ ByIntake(i) = {} /\ Draft(i)
    /\ \E k \in desk.keys, b \in Bodies :
          Proceed(c, "read", [op |-> "create", intake |-> i, key |-> k,
                              body |-> b, placed |-> <<>>])

\* The draft has its purchase already, whatever this request's key and body.
AlreadyFinalized(c, i) ==
    /\ "finalize" \in desk.operations
    /\ pc[c] = "new"
    /\ \E q \in ByIntake(i) :
         /\ Answer(c, PurchaseResult(q))
         /\ plan' = [plan EXCEPT ![c] = [op |-> "repeat", intake |-> i]]
    /\ UNCHANGED <<tables, desk>>

StartCreate(c) ==
    /\ "create" \in desk.operations
    /\ pc[c] = "new"
    /\ \E k \in desk.keys, b \in Bodies :
          Proceed(c, "read", [op |-> "create", intake |-> NoIntake, key |-> k,
                              body |-> b, placed |-> <<>>])

\* Fault: only the draft is compared.
IntakeMatches(c, q) ==
    plan[c].intake # NoIntake => purchase[q].intake = plan[c].intake

\* requireMatchingSourceIntake and requireMatchingRequest.
Matches(c, q) ==
    /\ plan[c].intake # NoIntake => purchase[q].intake = plan[c].intake
    /\ purchase[q].body = plan[c].body

\* The lookup by key, before and inside the transaction.
Lookup(c, here, next) ==
    /\ pc[c] = here
    /\ ByKey(plan[c].key) = {}
    /\ Proceed(c, next, plan[c])

\* The same lookup, or the one after a unique conflict, finds the purchase.
Replay(c) ==
    /\ pc[c] \in {"read", "locked", "keyTaken"}
    /\ \E q \in ByKey(plan[c].key) :
          Matches(c, q) /\ AnswerFrom(c, PurchaseResult(q))

\* Fault: the draft is read, not locked.
ReadDraftIntake(c, i) == intakeLock

\* tryLockDraftIntake keeps the row until the transaction ends.
TryLockDraftIntake(c, i) == [intakeLock EXCEPT ![i] = c]

LockIntake(c) ==
    /\ pc[c] = "looked"
    /\ LET i == plan[c].intake
       IN  /\ i # NoIntake
           /\ Unlocked(i) /\ Draft(i)
           /\ intakeLock' = TryLockDraftIntake(c, i)
    /\ pc' = [pc EXCEPT ![c] = "locked"]
    /\ UNCHANGED <<tables, plan, result, desk>>

\* Another finalization held the lock and has completed the draft.
LoseIntake(c) ==
    /\ pc[c] = "looked"
    /\ plan[c].intake # NoIntake
    /\ Unlocked(plan[c].intake) /\ ~Draft(plan[c].intake)
    /\ \E q \in ByIntake(plan[c].intake) : AnswerFrom(c, PurchaseResult(q))

BeginDirect(c) ==
    /\ pc[c] = "looked"
    /\ plan[c].intake = NoIntake
    /\ Proceed(c, "locked", plan[c])

\* Uncommitted inserts of the same unique values: an insert waits for them.
Competing(c) ==
    {d \in Calls \ {c} : /\ pc[d] \in {"inserted", "reassigned"}
                         /\ \/ plan[d].key = plan[c].key
                            \/ plan[c].intake \in {plan[d].intake} \ {NoIntake}}

\* purchase.create; its lines and lots are rows nobody else can name yet.
InsertPurchase(c) ==
    /\ pc[c] = "clear"
    /\ Competing(c) = {}
    /\ ByKey(plan[c].key) \cup ByIntake(plan[c].intake) = {}
    /\ Proceed(c, "inserted", plan[c])

\* The unique index on the key refused the insert.  The transaction is gone, and
\* the winner is looked up in Replay.  A refusal on the draft cannot happen, see
\* FinalizationOwnsItsDraft.
LoseInsert(c) ==
    /\ pc[c] = "clear"
    /\ Competing(c) = {}
    /\ ByKey(plan[c].key) # {}
    /\ Finish(c, "keyTaken", NoResult)
    /\ UNCHANGED <<tables, plan, desk>>

LiveFiles(i) == {f \in Files : /\ file[f] # NoRow /\ file[f].owner = i
                               /\ ~file[f].deleted}

\* reassignIntakeAttachments refuses an unreviewed file and an unknown item.
Acceptable(i, b) ==
    \A f \in LiveFiles(i) :
       file[f].confirmed /\ file[f].item \in ItemsOf[b] \cup {NoItem}

Reassign(c) ==
    /\ pc[c] = "inserted"
    /\ LET i == plan[c].intake
       IN  /\ i # NoIntake
           /\ Acceptable(i, plan[c].body)
           /\ Proceed(c, "reassigned",
                [plan[c] EXCEPT !.placed =
                   [f \in LiveFiles(i) |-> [purchase |-> c, item |-> file[f].item]]])

\* Everything since the transaction began becomes visible.  Whatever goes wrong
\* from here on - the acknowledgement, the queue, the read of the response -
\* the purchase stands.
CommitPurchase(c) ==
    /\ \/ pc[c] = "inserted" /\ plan[c].intake = NoIntake
       \/ pc[c] = "reassigned"
    /\ purchase' = [purchase EXCEPT ![c] =
          [key |-> plan[c].key, body |-> plan[c].body, intake |-> plan[c].intake]]
    /\ file' = [f \in Files |-> IF f \in DOMAIN plan[c].placed
                                THEN [file[f] EXCEPT !.owner = plan[c].placed[f]]
                                ELSE file[f]]
    /\ intake' = [i \in Intakes |->
          IF i = plan[c].intake
          THEN [status |-> "COMPLETED",
                version |-> TouchedByLock(intake[i]).version + 1]
          ELSE intake[i]]
    /\ Answer(c, PurchaseResult(c))
    /\ UNCHANGED <<object, plan, desk>>

-----------------------------------------------------------------------------
(* Files of a draft *)

ByUploadKey(i, u) == {f \in Calls : /\ file[f] # NoRow /\ file[f].key = u
                                    /\ plan[f].intake = i}

\* Fault: there is always room.
RoomAnyway(i) == TRUE

\* assertIntakeStorageQuota for one more object.
RoomFor(i) == Retained(i) + 1 <= MaxRetained

ReadForUpload(c, i) ==
    /\ "upload" \in desk.operations
    /\ pc[c] = "new"
    /\ Draft(i)
    /\ \E u \in UploadKeys, content \in Contents, mode \in Modes,
          item \in Items \cup {NoItem} :
          Proceed(c, "uploading",
                  [op |-> "upload", intake |-> i, key |-> u, content |-> content,
                   mode |-> mode, item |-> item])

\* Fault: any upload with that key will do.
SameKey(c, f) == file[f].owner = plan[c].intake

\* resolveUploadReplay: the row must still belong to the draft.
SameUpload(c, f) ==
    file[f].owner = plan[c].intake /\ file[f].content = plan[c].content

\* No upload with this key yet and, without a lock, enough room: the object is
\* put under a storage key of its own.
PutObject(c) ==
    /\ pc[c] = "uploading"
    /\ ByUploadKey(plan[c].intake, plan[c].key) = {}
    /\ Retained(plan[c].intake) + 1 <= MaxRetained
    /\ object' = object \cup {c}
    /\ pc' = [pc EXCEPT ![c] = "stored"]
    /\ UNCHANGED <<intake, purchase, file, intakeLock, plan, result, desk>>

ReplayUpload(c) ==
    /\ pc[c] = "uploading"
    /\ \E f \in ByUploadKey(plan[c].intake, plan[c].key) :
          SameUpload(c, f) /\ AnswerFrom(c, UploadResult(f))

\* The upload's transaction.  Its outcome reaches the API, or is lost.
InsertFile(c) ==
    /\ pc[c] = "stored"
    /\ LockDraftIntake(plan[c].intake)
    /\ RoomFor(plan[c].intake)
    /\ ByUploadKey(plan[c].intake, plan[c].key) = {}
    /\ file' = [file EXCEPT ![c] =
          [owner |-> plan[c].intake, item |-> plan[c].item,
           mode |-> plan[c].mode, confirmed |-> plan[c].mode = "NONE",
           derivatives |-> 0, deleted |-> FALSE, version |-> 1,
           key |-> plan[c].key, content |-> plan[c].content]]
    /\ intake' = [intake EXCEPT ![plan[c].intake] = TouchedByLock(@)]
    /\ \/ Answer(c, UploadResult(c))
       \/ Finish(c, "removing", NoResult)
    /\ UNCHANGED <<purchase, object, plan, desk>>

\* The unique index refused the row: another upload with the key got in.
LoseUpload(c) ==
    /\ pc[c] = "stored"
    /\ LockDraftIntake(plan[c].intake) /\ RoomFor(plan[c].intake)
    /\ ByUploadKey(plan[c].intake, plan[c].key) # {}
    /\ Finish(c, "removingLoser", NoResult)
    /\ UNCHANGED <<tables, plan, desk>>

\* The transaction threw: a closed draft, no room, no database.
FailUpload(c) ==
    /\ pc[c] = "stored"
    /\ Finish(c, "removing", NoResult)
    /\ UNCHANGED <<tables, plan, desk>>

\* removeOrphan, which swallows its own failure; then the winner of the key.
RemoveOrphan(c) ==
    /\ pc[c] \in {"removing", "removingLoser"}
    /\ object' \in {object, object \ {c}}
    /\ \/ \E f \in ByUploadKey(plan[c].intake, plan[c].key) :
             /\ pc[c] = "removingLoser" /\ SameUpload(c, f)
             /\ Answer(c, UploadResult(f))
       \/ Finish(c, "failed", NoResult)
    /\ UNCHANGED <<intake, purchase, file, plan, desk>>

\* requireAuthorized and resolveMutableScope, without a lock: a file of an open
\* draft, or one that finalization filed on a lot or a purchase.
ReadFile(c, f) ==
    /\ pc[c] = "new"
    /\ file[f] # NoRow /\ ~file[f].deleted
    /\ file[f].owner \in Intakes => Draft(file[f].owner)
    /\ \/ /\ "delete" \in desk.operations
          /\ Proceed(c, "filed", [op |-> "delete", file |-> f,
                                  scope |-> file[f].owner])
       \/ /\ "variant" \in desk.operations
          /\ file[f].derivatives < MaxRevisions
          /\ Proceed(c, "filed", [op |-> "variant", file |-> f,
                                  scope |-> file[f].owner,
                                  version |-> file[f].version])
       \/ /\ "review" \in desk.operations
          /\ \E mode \in Modes, confirm \in BOOLEAN, item \in Items \cup {NoItem} :
               /\ confirm /\ mode # "NONE" => file[f].derivatives > 0
               /\ Proceed(c, "filed", [op |-> "review", file |-> f,
                                       scope |-> file[f].owner,
                                       version |-> file[f].version,
                                       mode |-> mode, confirm |-> confirm,
                                       item |-> item])

\* attachmentMutationWhere, behind the draft's lock when the scope is a draft.
InScope(c) ==
    /\ plan[c].scope \in Intakes => LockDraftIntake(plan[c].scope)
    /\ file[plan[c].file].owner = plan[c].scope
    /\ ~file[plan[c].file].deleted

\* Fault: the row is selected without its version.
AnyFileVersion(c) == TRUE

SeenVersion(c) == file[plan[c].file].version = plan[c].version

WriteFile(c, row, base) ==
    /\ pc[c] = "filed"
    /\ file' = [file EXCEPT ![plan[c].file] = row]
    /\ intake' = [i \in Intakes |-> IF i = plan[c].scope
                                    THEN TouchedByLock(intake[i]) ELSE intake[i]]
    /\ Answer(c, EditResult(plan[c].file, base))
    /\ UNCHANGED <<purchase, object, plan, desk>>

SoftDelete(c) ==
    /\ pc[c] = "filed" /\ plan[c].op = "delete"
    /\ InScope(c)
    /\ WriteFile(c, [file[plan[c].file] EXCEPT !.deleted = TRUE,
                                               !.version = @ + 1], 0)

Review(c) ==
    /\ pc[c] = "filed" /\ plan[c].op = "review"
    /\ InScope(c) /\ SeenVersion(c)
    /\ WriteFile(c, [file[plan[c].file] EXCEPT !.mode = plan[c].mode,
                                               !.confirmed = plan[c].confirm,
                                               !.item = plan[c].item,
                                               !.version = @ + 1], plan[c].version)

UploadVariant(c) ==
    /\ pc[c] = "filed" /\ plan[c].op = "variant"
    /\ InScope(c) /\ SeenVersion(c)
    /\ file[plan[c].file].derivatives < MaxRevisions
    /\ plan[c].scope \in Intakes => RoomFor(plan[c].scope)
    /\ WriteFile(c, [file[plan[c].file] EXCEPT !.derivatives = @ + 1,
                                               !.version = @ + 1], plan[c].version)

-----------------------------------------------------------------------------
\* A check that throws, a conflict, or a database that goes away: the
\* transaction is rolled back and the caller hears of a failure.
Abandon(c) ==
    /\ pc[c] \notin {"answered", "failed", "stored", "removing", "removingLoser"}
    /\ Finish(c, "failed", NoResult)
    /\ UNCHANGED <<tables, plan, desk>>

Settled == \A c \in Calls : pc[c] \in {"answered", "failed"}
Idle == Settled /\ UNCHANGED vars

DraftStep(c) ==
    \/ \E i \in desk.intakes : \/ ReadForSave(c, i)
                               \/ ReadForCancel(c, i)
                               \/ AlreadyCancelled(c, i)
    \/ SaveDraft(c)
    \/ Cancel(c)
    \/ CancelRaced(c)

PurchaseStep(c) ==
    \/ \E i \in desk.intakes : ReadForFinalize(c, i) \/ AlreadyFinalized(c, i)
    \/ StartCreate(c)
    \/ Lookup(c, "read", "looked")
    \/ Lookup(c, "locked", "clear")
    \/ Replay(c)
    \/ LockIntake(c)
    \/ LoseIntake(c)
    \/ BeginDirect(c)
    \/ InsertPurchase(c)
    \/ LoseInsert(c)
    \/ Reassign(c)
    \/ CommitPurchase(c)

FileStep(c) ==
    \/ \E i \in desk.intakes : ReadForUpload(c, i)
    \/ PutObject(c)
    \/ ReplayUpload(c)
    \/ InsertFile(c)
    \/ LoseUpload(c)
    \/ FailUpload(c)
    \/ RemoveOrphan(c)
    \/ \E f \in Files : ReadFile(c, f)
    \/ SoftDelete(c)
    \/ Review(c)
    \/ UploadVariant(c)

Next ==
    \/ \E c \in Calls : DraftStep(c) \/ PurchaseStep(c) \/ FileStep(c) \/ Abandon(c)
    \/ Idle

Spec == Init /\ [][Next]_vars

-----------------------------------------------------------------------------
(* Type correctness *)

IntakeRows == [status : {"DRAFT", "COMPLETED", "CANCELLED"}, version : Nat]

PurchaseRows == [key : Keys, body : Bodies, intake : Intakes \cup {NoIntake}]

ASSUME RowsAreNotMissing == NoPurchase \notin PurchaseRows

SavePlans   == [op : {"save"}, intake : Intakes, version : Nat]
CancelPlans == [op : {"cancel"}, intake : Intakes]
RepeatPlans == [op : {"repeat"}, intake : Intakes]

CreatePlans ==
    [op : {"create"}, intake : Intakes \cup {NoIntake}, key : Keys,
     body : Bodies, placed : UNION {[S -> Placements] : S \in SUBSET Files}]

UploadPlans ==
    [op : {"upload"}, intake : Intakes, key : UploadKeys, content : Contents,
     mode : Modes, item : Items \cup {NoItem}]

FilePlans ==
    [op : {"delete"}, file : Files, scope : Intakes \cup Placements]
      \cup [op : {"variant"}, file : Files, scope : Intakes \cup Placements,
            version : Nat]
      \cup [op : {"review"}, file : Files, scope : Intakes \cup Placements,
            version : Nat, mode : Modes, confirm : BOOLEAN,
            item : Items \cup {NoItem}]

Plans == SavePlans \cup CancelPlans \cup RepeatPlans \cup CreatePlans
           \cup UploadPlans \cup FilePlans

Results ==
    [op : {"purchase", "upload", "cancel", "edit"},
     on : Calls \cup Intakes \cup Files, base : Nat]

ASSUME ResultsAreNotMissing == NoResult \notin Results

Stages == {"new", "saving", "cancelling", "read", "looked", "locked", "clear",
           "inserted", "reassigned", "keyTaken", "uploading", "stored",
           "removing", "removingLoser", "filed", "answered", "failed"}

TypeOK ==
    /\ intake \in [Intakes -> IntakeRows]
    /\ purchase \in [Calls -> PurchaseRows \cup {NoPurchase}]
    /\ file \in [Files -> FileRows \cup {NoRow}]
    /\ object \subseteq Files
    /\ intakeLock \in [Intakes -> Calls \cup {NoCall}]
    /\ pc \in [Calls -> Stages]
    /\ plan \in [Calls -> Plans \cup {NoPlan}]
    /\ result \in [Calls -> Results \cup {NoResult}]
    /\ desk \in Desks

\* Each stage of a call works on the plan its earlier steps made.
Fits(stage, p) ==
    /\ stage = "saving" => p \in SavePlans
    /\ stage = "cancelling" => p \in CancelPlans
    /\ stage \in {"read", "looked", "locked", "clear", "inserted", "reassigned",
                 "keyTaken"} => p \in CreatePlans
    /\ stage \in {"read", "looked", "locked", "clear", "inserted"} => p.placed = <<>>
    /\ stage = "reassigned" => p.intake # NoIntake
    /\ stage \in {"uploading", "stored", "removing", "removingLoser"}
          => p \in UploadPlans
    /\ stage = "filed" => p \in FilePlans

\* A row once read is never removed.
PlansFitStages ==
    \A c \in Calls : /\ Fits(pc[c], plan[c])
                     /\ pc[c] = "filed" => file[plan[c].file] # NoRow

\* A call shows nothing before its end: no result, no purchase, and no file
\* before its upload's transaction.
OnlyTheEndShows ==
    \A c \in Calls :
       /\ result[c] # NoResult \/ Committed(c) => pc[c] = "answered"
       /\ file[c] # NoRow => pc[c] \in {"answered", "removing", "failed"}

InTransaction(c) == pc[c] \in {"locked", "clear", "inserted", "reassigned"}

\* What a finalization is about to file is what is live on its draft, reviewed,
\* each file under a line of the purchase it names or under none.
FilesWhatIsLive(c, i) ==
    /\ Acceptable(i, plan[c].body)
    /\ plan[c].placed = [f \in LiveFiles(i) |->
                            [purchase |-> c, item |-> file[f].item]]

\* A finalization owns its draft from tryLockDraftIntake to the end of its
\* transaction, and nobody else holds a draft; until it ends the draft is open
\* and has no purchase, so the insert that follows cannot collide on the draft
\* (purchases.service.ts:254-264), and what it intends to file is what is live.
FinalizationOwnsItsDraft ==
    \A c \in Calls, i \in Intakes :
       /\ InTransaction(c) /\ plan[c].intake = i =>
            intakeLock[i] = c /\ Draft(i) /\ ByIntake(i) = {}
       /\ intakeLock[i] = c => InTransaction(c) /\ plan[c].intake = i
       /\ pc[c] = "reassigned" /\ plan[c].intake = i => FilesWhatIsLive(c, i)

\* An accepted edit was made from a version its draft or file has left behind.
EditsAreBehind ==
    \A c \in Calls : (result[c] # NoResult /\ result[c].op = "edit") =>
       LET x == result[c].on
       IN  /\ x \in Intakes => result[c].base < intake[x].version
           /\ x \notin Intakes =>
                 x \in Files /\ file[x] # NoRow /\ result[c].base < file[x].version

IntakeInv == /\ TypeOK
             /\ PlansFitStages
             /\ OnlyTheEndShows
             /\ FinalizationOwnsItsDraft
             /\ EditsAreBehind

-----------------------------------------------------------------------------
(* Safety *)

\* A draft is COMPLETED exactly when one purchase came out of it; a cancelled
\* or open draft has none, and no draft has two, whatever keys its
\* finalizations carried (README.md:372-374, Purchase.sourceIntakeId).
CompletedIffPurchased ==
    \A i \in Intakes :
       Cardinality(ByIntake(i)) = IF intake[i].status = "COMPLETED" THEN 1 ELSE 0

\* A caller that is handed a purchase gets its own: a finalization one that came
\* out of its draft, a direct creation one made with its key from its request,
\* even when it lost a race for the key and looked the winner up afterwards.
AnswersNameTheRightPurchase ==
    \A c \in Calls :
       (result[c] # NoResult /\ result[c].op = "purchase") =>
          LET q == purchase[result[c].on]
          IN  /\ q # NoPurchase
              /\ IF plan[c].intake # NoIntake
                 THEN q.intake = plan[c].intake
                 ELSE q.key = plan[c].key /\ q.body = plan[c].body

\* No file is left behind on a completed draft, where no screen would show it:
\* an upload that races the finalization is filed with it or refused
\* (purchases.service.ts:248-253, draft-intake-lock.ts:8-13).
NothingEscapesFinalization ==
    \A i \in Intakes : intake[i].status = "COMPLETED" => LiveFiles(i) = {}

\* The draft's version counts the saves and its one final transition: taking
\* the lock for an upload or a review does not make a client's autosave stale
\* (draft-intake-lock.ts:8-9).
VersionCountsEdits ==
    \A i \in Intakes :
       intake[i].version =
          1 + Cardinality({c \in Calls : result[c] # NoResult
                              /\ result[c].op = "edit" /\ result[c].on = i})
            + IF Draft(i) THEN 0 ELSE 1

\* Two accepted saves of a draft, or two accepted edits of a file, were never
\* made from the same version: neither silently overwrote the other
\* (README.md:371-372; attachments.service.ts:620-629, 792-797).
AcceptedEditsNeverCollide ==
    \A c, d \in Calls :
       (/\ c # d /\ result[c] # NoResult /\ result[d] # NoResult
        /\ result[c].op = "edit" /\ result[c].base > 0)
          => result[c] # result[d]

\* What a draft retains stays within the configured quota, deleted files and
\* derivatives included, although concurrent uploads all saw room before they
\* took the lock (README.md:383-386, 395).
RetainedWithinQuota == \A i \in Intakes : Retained(i) <= MaxRetained

\* An upload answered with a stored file was answered with one of the same draft
\* and the same content, also when it lost the race for its key.
UploadAnswersMatch ==
    \A c \in Calls :
       (result[c] # NoResult /\ result[c].op = "upload") =>
          /\ file[result[c].on] # NoRow
          /\ file[result[c].on].content = plan[c].content
          /\ plan[result[c].on].intake = plan[c].intake

\* A draft, its purchase and its files end together: one purchase for a completed draft and none
\* for another, answers that name it, and no file left behind (purchases.service.ts:451-494).
IntakesAndPurchasesAgree ==
    CompletedIffPurchased /\ AnswersNameTheRightPurchase /\ NothingEscapesFinalization

\* Versions number the edits of a draft and of its files, and each number is given once: no edit
\* is lost to another device's, and none is refused because of an upload's lock.
EditsAreNumbered == VersionCountsEdits /\ AcceptedEditsNeverCollide

\* Uploads that race for the same key or the same room end with one file, within the quota, and
\* with an answer that names it (attachments.service.ts:243, 347).
UploadsAnswerTruly == UploadAnswersMatch /\ RetainedWithinQuota

\* A completed or cancelled draft never changes again: in particular a cancel
\* that was answered is never undone by a finalization under way, whose last
\* update selects the draft by id alone (purchases.service.ts:451-458).
TerminalIntakesStayTerminal ==
    [][\A i \in Intakes : ~Draft(i) => intake'[i] = intake[i]]_vars

\* The step that moves a file into the ledger moves what the user last
\* confirmed: the row is confirmed and not deleted at that very moment, and it
\* is filed under the item it names then, a line of the new purchase.
FiledAsReviewed ==
    [][\A f \in Files :
         (file[f] # NoRow /\ file[f].owner \in Intakes
            /\ file'[f].owner \notin Intakes) =>
            LET placed == file'[f].owner
            IN  /\ file[f].confirmed /\ ~file[f].deleted
                /\ placed.item = file[f].item
                /\ purchase'[placed.purchase].intake = file[f].owner
                /\ placed.item \in ItemsOf[purchase'[placed.purchase].body]
                                     \cup {NoItem}]_vars

\* README.md:407, "The immutable original is always retained": every stored
\* attachment row has its object.
OriginalsAreRetained == \A f \in Files : file[f] # NoRow => f \in object
=============================================================================
