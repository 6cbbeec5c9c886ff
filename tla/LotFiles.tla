------------------------------ MODULE LotFiles ------------------------------
(***************************************************************************)
(* The photos of one lot: AttachmentsService.uploadForAsset, uploadVariant,*)
(* review, softDelete and listForAsset, as concurrent calls.  Unlike the   *)
(* draft's handlers these take no row lock first: they check, and then     *)
(* write in a READ COMMITTED transaction.  A call is split where another   *)
(* may come between: at every read a later statement relies on, and        *)
(* between the statement that clears the old cover and the one that sets   *)
(* the new one, which is when it holds the rows it cleared.                *)
(*                                                                         *)
(* A document is a file that never becomes the cover.                      *)
(***************************************************************************)
EXTENDS Integers, FiniteSets

CONSTANTS
    Slots,              \* bound: requests the server works on at once
    OldFiles, NewFiles, \* the lot's files, and the ids further files take
    Keys,               \* the picks: the idempotency key of each upload
    Captions,           \* kind and description of a file (strings)
    Limit,              \* assetMaxAttachments
    Sessions,           \* bound: [edits, saves, others, faults], how many edits in the
                        \*        wizard, presses of its save button, requests of other
                        \*        clients and failures there are in a behaviour
    InitialLots,        \* bound: [files, covers], what a lot starts with
    NoRow, NoCall, NoFile, NoKey

Files == OldFiles \cup NewFiles

Requests == [caption : Captions, cover : BOOLEAN]

\* Attachment rows.  `confirmed' is status READY, `cropped' a CROPPED variant.
FileRows == [caption : Captions, cover : BOOLEAN, deleted : BOOLEAN,
             confirmed : BOOLEAN, cropped : BOOLEAN, version : Nat \ {0},
             key : Keys \cup {NoKey}, request : Requests]

\* What a client sends.  A review changes what it names and leaves the rest as is.
AsIs == "as is"
Dtos == [op : {"upload", "variant", "review", "delete"},
         file : Files \cup {NoFile}, key : Keys \cup {NoKey},
         version : Nat, caption : Captions \cup {AsIs},
         cover : {"yes", "no", AsIs}, confirm : BOOLEAN]

\* Only an upload names no file, and it has a key and a caption of its own.
WellFormed(dto) ==
    IF dto.op = "upload" THEN dto.file = NoFile /\ dto.key \in Keys /\ dto.caption \in Captions
                         ELSE dto.file \in Files

\* There are requests, files and limits, and what stands for "none" is none of them; a file's
\* id is no upload's key; a lot starts with no more files than it may have.
ASSUME LotFilesAssumption ==
    /\ IsFiniteSet(Slots) /\ Slots # {}
    /\ IsFiniteSet(OldFiles) /\ IsFiniteSet(NewFiles) /\ OldFiles \cap NewFiles = {}
    /\ IsFiniteSet(Keys) /\ Captions # {} /\ Limit \in Nat
    /\ Sessions \subseteq [{"edits", "saves", "others", "faults"} -> Nat]
    /\ \A lot \in InitialLots : /\ lot.files \subseteq OldFiles /\ lot.covers \subseteq lot.files
                                /\ Cardinality(lot.files) <= Limit
    /\ NoFile \notin Files /\ NoKey \notin Keys /\ NoRow \notin FileRows
    /\ (Keys \cup {NoKey}) \cap Files = {} /\ AsIs \notin Captions

VARIABLES
    file,       \* the attachment rows of the lot, by id
    object,     \* stored objects: <<file, "ORIGINAL">>, <<file, "CROPPED">>
    held,       \* the lot's status is HELD
    call,       \* what the server works on
    unacked,    \* ghost: objects removed by a call whose commit was not acknowledged
    overlapped, \* ghost: two calls that choose the cover were under way together
    left        \* what is left of the behaviour's Session

tables    == <<file, object, held>>
ghosts    == <<unacked, overlapped>>
filesVars == <<tables, call, ghosts, left>>

Calls == [dto : Dtos, at : {"new", "lookup", "tx", "clearing", "cleared"},
          file : Files \cup {NoFile}, base : Nat,
          seen : SUBSET Files, cleared : SUBSET Files]

ASSUME NoCallIsNoCall == NoCall \notin Calls

FilesTypeOK ==
    /\ file \in [Files -> FileRows \cup {NoRow}]
    /\ object \subseteq Files \X {"ORIGINAL", "CROPPED"}
    /\ held \in BOOLEAN /\ overlapped \in BOOLEAN
    /\ call \in [Slots -> Calls \cup {NoCall}]
    /\ unacked \subseteq Files \X {"ORIGINAL", "CROPPED"}
    /\ left \in [{"edits", "saves", "others", "faults"} -> Nat]

Stored == {f \in Files : file[f] # NoRow}
Live   == {f \in Stored : ~file[f].deleted}
Covers == {f \in Stored : file[f].cover}

OldRow(cover) ==
    LET caption == CHOOSE c \in Captions : TRUE
    IN  [caption |-> caption, cover |-> cover, deleted |-> FALSE, confirmed |-> TRUE,
         cropped |-> TRUE, version |-> 1, key |-> NoKey,
         request |-> [caption |-> caption, cover |-> cover]]

FilesInit ==
    /\ \E lot \in InitialLots :
         /\ file = [f \in Files |-> IF f \in lot.files THEN OldRow(f \in lot.covers) ELSE NoRow]
         /\ object = lot.files \X {"ORIGINAL", "CROPPED"}
         /\ overlapped = (Cardinality(lot.covers) > 1)
    /\ held = TRUE
    /\ call = [s \in Slots |-> NoCall]
    /\ unacked = {}
    /\ left \in Sessions

-----------------------------------------------------------------------------
(* The pieces of a call *)

\* One more of the things a behaviour has only so many of.
Spend(what) == left[what] > 0 /\ left' = [left EXCEPT ![what] = @ - 1]

Busy(s) == call[s] # NoCall
At(s, at) == Busy(s) /\ call[s].at = at
Op(s, op) == Busy(s) /\ call[s].dto.op = op

\* A request arrives; slots are alike.
Arrive(s, dto) ==
    /\ ~Busy(s) /\ s = CHOOSE t \in Slots : ~Busy(t)
    /\ call' = [call EXCEPT ![s] = [dto |-> dto, at |-> "new", file |-> dto.file, base |-> 0,
                                    seen |-> {}, cleared |-> {}]]

\* The call read what it needs and goes on.
GoOn(s, next) ==
    /\ call' = [call EXCEPT ![s] = next]
    /\ UNCHANGED <<file, held, unacked, left>>

End(s) == call' = [call EXCEPT ![s] = NoCall]

\* The call ends and changed nothing.
EndWithoutEffect(s) == End(s) /\ UNCHANGED <<tables, ghosts, left>>

\* Rows updated by a transaction that has not ended are locked.
Unlocked(f, s) == \A t \in Slots \ {s} : ~(At(t, "cleared") /\ f \in call[t].cleared)

\* attachmentMutationWhere, for an asset: the row is there and not deleted.
AnyRow(f) == file[f] # NoRow
Mutable(f) == f \in Live

\* The commit of a call: the covers it cleared, and the row it writes.
Commit(s, f, row) ==
    /\ file' = [g \in Files |->
                  CASE g = f -> row
                    [] g # f /\ g \in call[s].cleared -> [file[g] EXCEPT !.cover = FALSE]
                    [] OTHER -> file[g]]
    /\ UNCHANGED <<held, overlapped>>

ChoosesCover(dto) == dto.cover = "yes" /\ dto.op \in {"upload", "review"}

\* A commit the database made but the API did not hear of.
LoseAcknowledgement == Spend("faults")
Acknowledged == UNCHANGED <<left, unacked>>

-----------------------------------------------------------------------------
(* Clearing the old cover, the first statement of a transaction that sets one *)

\* Fault: only covers that are not confirmed yet are cleared.
UnconfirmedCovers(s) == {f \in Covers : ~file[f].confirmed}

\* updateMany: every cover there is when the statement starts.
CoversToClear(s) == Covers \ {call[s].file}

StartClearing(s) ==
    /\ At(s, "tx") /\ ChoosesCover(call[s].dto)
    /\ overlapped' = (overlapped \/ \E t \in Slots \ {s} :
                        \/ At(t, "clearing") \/ At(t, "cleared"))
    /\ GoOn(s, [call[s] EXCEPT !.at = "clearing", !.seen = CoversToClear(s)])
    /\ UNCHANGED object

\* It waits for rows others have locked, and looks at them again.
FinishClearing(s) ==
    /\ At(s, "clearing")
    /\ \A f \in call[s].seen : Unlocked(f, s)
    /\ GoOn(s, [call[s] EXCEPT !.at = "cleared", !.cleared = call[s].seen \cap Covers])
    /\ UNCHANGED <<object, overlapped>>

\* The statement after it may run.
ReadyToWrite(s) == IF ChoosesCover(call[s].dto) THEN At(s, "cleared") ELSE At(s, "tx")

-----------------------------------------------------------------------------
(* uploadForAsset *)

\* Fault: the number of files is not looked at.
HeldOnly == held

\* Deleted files do not count.
UploadAdmitted == held /\ Cardinality(Live) < Limit

\* The lot is held and has room: read outside the transaction.
CheckUpload(s) ==
    /\ Op(s, "upload") /\ At(s, "new") /\ UploadAdmitted
    /\ GoOn(s, [call[s] EXCEPT !.at = "lookup"])
    /\ UNCHANGED <<object, overlapped>>

RefuseUpload(s) ==
    /\ Op(s, "upload") /\ At(s, "new") /\ ~UploadAdmitted
    /\ EndWithoutEffect(s)

RowOfKey(k) == {f \in Stored : file[f].key = k}
RequestOf(dto) == [caption |-> dto.caption, cover |-> dto.cover = "yes"]

\* resolveAssetUploadReplay
SameRequest(f, dto) == file[f].request = RequestOf(dto)

ReplayUpload(s) ==
    /\ Op(s, "upload") /\ At(s, "lookup")
    /\ \E f \in RowOfKey(call[s].dto.key) : SameRequest(f, call[s].dto)
    /\ EndWithoutEffect(s)

RefuseReplay(s) ==
    /\ Op(s, "upload") /\ At(s, "lookup")
    /\ \E f \in RowOfKey(call[s].dto.key) : ~SameRequest(f, call[s].dto)
    /\ EndWithoutEffect(s)

Unused == {f \in NewFiles : /\ file[f] = NoRow /\ <<f, "ORIGINAL">> \notin object
                            /\ \A t \in Slots : Busy(t) => call[t].file # f}

\* No file has the key: the original is stored under an id of its own.
PutOriginal(s) ==
    /\ Op(s, "upload") /\ At(s, "lookup") /\ RowOfKey(call[s].dto.key) = {}
    /\ Unused # {}
    /\ LET f == CHOOSE g \in Unused : TRUE
       IN  /\ object' = object \cup {<<f, "ORIGINAL">>}
           /\ GoOn(s, [call[s] EXCEPT !.at = "tx", !.file = f])
    /\ UNCHANGED overlapped

UploadedRow(dto) ==
    [caption |-> dto.caption, cover |-> dto.cover = "yes", deleted |-> FALSE, confirmed |-> FALSE,
     cropped |-> FALSE, version |-> 1, key |-> dto.key, request |-> RequestOf(dto)]

Inserting(s) == Op(s, "upload") /\ ReadyToWrite(s)

InsertFile(s) ==
    /\ Inserting(s) /\ RowOfKey(call[s].dto.key) = {}
    /\ Commit(s, call[s].file, UploadedRow(call[s].dto)) /\ Acknowledged
    /\ End(s) /\ UNCHANGED object

\* Fault: what is removed is the object of the row that has the key.
RemoveOfKey(s) == {<<f, "ORIGINAL">> : f \in RowOfKey(call[s].dto.key)}

\* removeOrphan: what this call stored.
Orphan(s) == {<<call[s].file, "ORIGINAL">>}

\* Another upload took the key: the transaction rolls back, the object goes,
\* and the answer is the winner's.
LoseKey(s) ==
    /\ Inserting(s) /\ RowOfKey(call[s].dto.key) # {}
    /\ object' = object \ Orphan(s)
    /\ End(s)
    /\ UNCHANGED <<file, held, ghosts, left>>

\* The insert committed, and the API heard an error: it removes the object.
InsertUnacknowledged(s) ==
    /\ Inserting(s) /\ RowOfKey(call[s].dto.key) = {}
    /\ Commit(s, call[s].file, UploadedRow(call[s].dto)) /\ LoseAcknowledgement
    /\ object' = object \ Orphan(s)
    /\ unacked' = unacked \cup Orphan(s)
    /\ End(s)

-----------------------------------------------------------------------------
(* uploadVariant *)

\* requireAuthorized and the lookup of the same bytes: an active file that has
\* the derivative answers with it.
VariantKnown(s) ==
    /\ Op(s, "variant") /\ At(s, "new")
    /\ Mutable(call[s].file) /\ file[call[s].file].cropped
    /\ EndWithoutEffect(s)

ReadForVariant(s) ==
    /\ Op(s, "variant") /\ At(s, "new")
    /\ Mutable(call[s].file) /\ ~file[call[s].file].cropped
    /\ GoOn(s, [call[s] EXCEPT !.at = "tx", !.base = file[call[s].file].version])
    /\ UNCHANGED <<object, overlapped>>

VariantMatches(s) == Mutable(call[s].file) /\ file[call[s].file].version = call[s].base

WithVariant(f) == [file[f] EXCEPT !.cropped = TRUE, !.version = @ + 1]

\* One transaction: the version moves, the object is stored, the row is added.
AddVariant(s) ==
    /\ Op(s, "variant") /\ At(s, "tx") /\ Unlocked(call[s].file, s)
    /\ VariantMatches(s)
    /\ Commit(s, call[s].file, WithVariant(call[s].file)) /\ Acknowledged
    /\ object' = object \cup {<<call[s].file, "CROPPED">>}
    /\ End(s)

\* As an unacknowledged insert: the new object is removed.
VariantUnacknowledged(s) ==
    /\ Op(s, "variant") /\ At(s, "tx") /\ Unlocked(call[s].file, s)
    /\ VariantMatches(s)
    /\ Commit(s, call[s].file, WithVariant(call[s].file)) /\ LoseAcknowledgement
    /\ object' = object \ {<<call[s].file, "CROPPED">>}
    /\ unacked' = unacked \cup {<<call[s].file, "CROPPED">>}
    /\ End(s)

RefuseVariant(s) ==
    /\ Op(s, "variant")
    /\ \/ At(s, "new") /\ ~Mutable(call[s].file)
       \/ At(s, "tx") /\ Unlocked(call[s].file, s) /\ ~VariantMatches(s)
    /\ EndWithoutEffect(s)

-----------------------------------------------------------------------------
(* review and softDelete *)

\* Fault: a review is accepted whatever the row has become.
ReviewAnyVersion(f, dto) == Mutable(f)

ReviewMatches(f, dto) == Mutable(f) /\ file[f].version = dto.version

\* Before the transaction: the version, and a derivative to confirm.
ReviewAdmitted(f, dto) == ReviewMatches(f, dto) /\ (dto.confirm => file[f].cropped)

ReadForReview(s) ==
    /\ Op(s, "review") /\ At(s, "new") /\ ReviewAdmitted(call[s].file, call[s].dto)
    /\ GoOn(s, [call[s] EXCEPT !.at = "tx"])
    /\ UNCHANGED <<object, overlapped>>

Reviewed(row, dto) ==
    [row EXCEPT !.caption = IF dto.caption = AsIs THEN @ ELSE dto.caption,
                !.cover = IF dto.cover = AsIs THEN @ ELSE dto.cover = "yes",
                !.confirmed = dto.confirm \/ @,
                !.version = @ + 1]

Updating(s) == Op(s, "review") /\ ReadyToWrite(s) /\ Unlocked(call[s].file, s)

UpdateFile(s) ==
    /\ Updating(s) /\ ReviewMatches(call[s].file, call[s].dto)
    /\ Commit(s, call[s].file, Reviewed(file[call[s].file], call[s].dto)) /\ Acknowledged
    /\ End(s) /\ UNCHANGED object

RefuseReview(s) ==
    /\ \/ Op(s, "review") /\ At(s, "new") /\ ~ReviewAdmitted(call[s].file, call[s].dto)
       \/ Updating(s) /\ ~ReviewMatches(call[s].file, call[s].dto)
    /\ EndWithoutEffect(s)

\* Deleting what is deleted already is no error.
DeleteAgain(s) ==
    /\ Op(s, "delete") /\ At(s, "new") /\ ~Mutable(call[s].file)
    /\ EndWithoutEffect(s)

ReadForDelete(s) ==
    /\ Op(s, "delete") /\ At(s, "new") /\ Mutable(call[s].file)
    /\ GoOn(s, [call[s] EXCEPT !.at = "tx"])
    /\ UNCHANGED <<object, overlapped>>

\* Fault: a deleted photo stays the cover.
DeletedAsIs(row) == [row EXCEPT !.deleted = TRUE, !.version = @ + 1]

Deleted(row) == [row EXCEPT !.deleted = TRUE, !.cover = FALSE, !.version = @ + 1]

DeleteFile(s) ==
    /\ Op(s, "delete") /\ At(s, "tx") /\ Unlocked(call[s].file, s)
    /\ Mutable(call[s].file)
    /\ Commit(s, call[s].file, Deleted(file[call[s].file])) /\ Acknowledged
    /\ End(s) /\ UNCHANGED object

\* Another call deleted it since: the conditional update finds no row.
RefuseDelete(s) ==
    /\ Op(s, "delete") /\ At(s, "tx") /\ Unlocked(call[s].file, s)
    /\ ~Mutable(call[s].file)
    /\ EndWithoutEffect(s)

-----------------------------------------------------------------------------
(* Failures *)

\* Two calls that wait for each other's rows: Postgres aborts one of them.
Awaits(s) == IF At(s, "clearing") THEN call[s].seen
             ELSE IF Op(s, "review") /\ ReadyToWrite(s) THEN {call[s].file} ELSE {}
Holds(s) == IF At(s, "cleared") THEN call[s].cleared ELSE {}
Deadlocked(s) == \E t \in Slots \ {s} : /\ Awaits(s) \cap Holds(t) # {}
                                        /\ Awaits(t) \cap Holds(s) # {}

\* A transaction fails and is rolled back; an upload removes its object.
RollBack(s) ==
    /\ At(s, "tx") \/ At(s, "clearing") \/ At(s, "cleared")
    /\ object' = IF Op(s, "upload") THEN object \ Orphan(s) ELSE object
    /\ End(s)
    /\ UNCHANGED <<file, held, ghosts>>

DeadlockVictim(s) == Deadlocked(s) /\ RollBack(s) /\ UNCHANGED left

StatementFails(s) ==
    /\ Spend("faults") /\ RollBack(s)

\* The API process stops: its transactions end, what it had stored stays.
Restart ==
    /\ Spend("faults")
    /\ \E s \in Slots : Busy(s)
    /\ call' = [s \in Slots |-> NoCall]
    /\ UNCHANGED <<tables, ghosts>>

\* The lot is sold or given away (MovementsService).
Dispose == held /\ held' = FALSE /\ UNCHANGED <<file, object, call, ghosts>>

-----------------------------------------------------------------------------
(* What a call answers, by how it ends *)

Succeeds(s) ==
    \/ ReplayUpload(s) \/ InsertFile(s)
    \/ (LoseKey(s) /\ \E f \in RowOfKey(call[s].dto.key) : SameRequest(f, call[s].dto))
    \/ VariantKnown(s) \/ AddVariant(s)
    \/ UpdateFile(s)
    \/ DeleteAgain(s) \/ DeleteFile(s)

Fails(s) ==
    \/ RefuseUpload(s) \/ RefuseReplay(s) \/ InsertUnacknowledged(s)
    \/ (LoseKey(s) /\ \E f \in RowOfKey(call[s].dto.key) : ~SameRequest(f, call[s].dto))
    \/ VariantUnacknowledged(s) \/ RefuseVariant(s)
    \/ RefuseReview(s) \/ RefuseDelete(s)
    \/ DeadlockVictim(s) \/ StatementFails(s)

Continues(s) ==
    \/ CheckUpload(s) \/ PutOriginal(s)
    \/ StartClearing(s) \/ FinishClearing(s)
    \/ ReadForVariant(s) \/ ReadForReview(s) \/ ReadForDelete(s)

-----------------------------------------------------------------------------
(* What carries the properties of the files, see HoldingEditor *)

\* An upload that stored its original, under an id no row has.
Storing(s) == Op(s, "upload") /\ call[s].at \in {"tx", "clearing", "cleared"}
\* An upload that found room.
Admitted == {s \in Slots : Op(s, "upload") /\ call[s].at # "new"}
Clearing(s) == At(s, "clearing") \/ At(s, "cleared")

\* A call's file is there, or is the one it is about to add.
CallIsSound(s) ==
    /\ WellFormed(call[s].dto)
    /\ IF Storing(s) THEN /\ call[s].file \in NewFiles /\ file[call[s].file] = NoRow
                          /\ <<call[s].file, "ORIGINAL">> \in object
       ELSE call[s].file = call[s].dto.file
    /\ ~Op(s, "upload") => call[s].file \in Stored /\ ~At(s, "lookup")
    /\ Clearing(s) => ChoosesCover(call[s].dto)
    /\ call[s].cleared \subseteq Stored /\ (~At(s, "cleared") => call[s].cleared = {})

CallsAreSound == \A s \in Slots : Busy(s) => CallIsSound(s)

UploadsAreApart ==
    \A s, t \in Slots : s # t /\ Storing(s) /\ Storing(t) => call[s].file # call[t].file

\* One call chooses a cover at a time, and clears all that are covers but its own file.
CoversAreChosenInTurn ==
    ~overlapped =>
        /\ \A f, g \in Covers : f = g
        /\ \A s, t \in Slots : Clearing(s) /\ Clearing(t) => s = t
        /\ \A s \in Slots :
              /\ At(s, "clearing") => Covers \subseteq call[s].seen \cup {call[s].file}
              /\ At(s, "cleared") => Covers \subseteq call[s].cleared \cup {call[s].file}

\* The uploads that found room, and the files there are.
AdmittedFit == Cardinality(Live) + Cardinality(Admitted) < Limit + Cardinality(Slots)
=============================================================================
