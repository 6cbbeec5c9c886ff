---------------------------- MODULE HoldingEditor ----------------------------
(***************************************************************************)
(* The holding editor (AssetEditWizard.tsx) at work on a lot's photos, with*)
(* the server of LotFiles and other clients of the same account.  A save is*)
(* a sequence of requests, each sent when the one before was answered:     *)
(* the deletions, the reviews of edited photos, and for every picked file  *)
(* its upload, its cropped variant and its confirming review.              *)
(***************************************************************************)
EXTENDS LotFiles, SequencesExt

CONSTANTS
    OtherDtos,          \* bound: what other clients send; a review's version is
                        \*        the one its sender has just read
    NoSlot

\* Others send whole requests, too.
ASSUME OthersAreClients == NoSlot \notin Slots /\ \A dto \in OtherDtos : dto \in Dtos /\ WellFormed(dto)

VARIABLES
    base,       \* serverPhotos: what the listing showed
    photos,     \* ... with the edits made
    picks,      \* newPhotos
    deleted,    \* deletedIds
    todo,       \* requests the save has yet to send
    slot,       \* the request that is being answered
    phase,
    disturbed              \* ghost: a call that is not this save's changed the files

clientVars == <<base, photos, picks, deleted, todo, slot, phase, disturbed>>
editVars   == <<base, photos, picks, deleted>>
vars       == <<filesVars, clientVars>>

Shown == [caption : Captions, cover : BOOLEAN, version : Nat]

TypeOK ==
    /\ FilesTypeOK
    /\ \E S \in SUBSET Files : base \in [S -> Shown]
    /\ \E S \in SUBSET DOMAIN base : photos \in [S -> Shown]
    /\ \E S \in SUBSET Keys : picks \in [S -> Requests]
    /\ deleted \subseteq Files
    /\ todo \in Seq(Dtos)
    /\ slot \in Slots \cup {NoSlot} /\ (slot # NoSlot => Busy(slot))
    /\ phase \in {"editing", "saving", "saved"}
    /\ phase # "saving" => todo = <<>> /\ slot = NoSlot
    /\ disturbed \in BOOLEAN

-----------------------------------------------------------------------------
(* Editing *)

\* listForAsset and toExistingPhotos
Listing == [f \in Live |-> [caption |-> file[f].caption, cover |-> file[f].cover,
                            version |-> file[f].version]]

Init ==
    /\ FilesInit
    /\ base = Listing /\ photos = base
    /\ picks = <<>> /\ deleted = {}
    /\ todo = <<>> /\ slot = NoSlot /\ phase = "editing"
    /\ disturbed = FALSE

Edit ==
    /\ phase = "editing"
    /\ Spend("edits")
    /\ disturbed' = (disturbed \/ base # Listing)
    /\ UNCHANGED <<tables, ghosts, call, base, todo, slot, phase>>

EditCaption(f, caption) ==
    /\ Edit /\ f \in DOMAIN photos /\ photos[f].caption # caption
    /\ photos' = [photos EXCEPT ![f].caption = caption]
    /\ UNCHANGED <<picks, deleted>>

EditPick(k, caption) ==
    /\ Edit /\ k \in DOMAIN picks /\ picks[k].caption # caption
    /\ picks' = [picks EXCEPT ![k].caption = caption]
    /\ UNCHANGED <<photos, deleted>>

\* selectCover: this one, and no other.
SelectCover(x) ==
    /\ Edit /\ x \in DOMAIN photos \cup DOMAIN picks
    /\ photos' = [f \in DOMAIN photos |-> [photos[f] EXCEPT !.cover = f = x]]
    /\ picks' = [k \in DOMAIN picks |-> [picks[k] EXCEPT !.cover = k = x]]
    /\ UNCHANGED deleted

NoCoverYet == /\ \A f \in DOMAIN photos : ~photos[f].cover
              /\ \A k \in DOMAIN picks : ~picks[k].cover

AddFile(k, caption) ==
    /\ Edit /\ k \notin DOMAIN picks
    /\ picks' = [j \in DOMAIN picks \cup {k} |->
                   IF j = k THEN [caption |-> caption, cover |-> NoCoverYet /\ DOMAIN picks = {}]
                            ELSE picks[j]]
    /\ UNCHANGED <<photos, deleted>>

RemoveExisting(f) ==
    /\ Edit /\ f \in DOMAIN photos
    /\ deleted' = deleted \cup {f}
    /\ photos' = [g \in DOMAIN photos \ {f} |-> photos[g]]
    /\ UNCHANGED picks

RemoveNew(k) ==
    /\ Edit /\ k \in DOMAIN picks
    /\ picks' = [j \in DOMAIN picks \ {k} |-> picks[j]]
    /\ UNCHANGED <<photos, deleted>>

\* The listing is fetched again (a reconnect) and differs: the edits to listed
\* photos are gone, the picks and the deletions stay.
Refetch ==
    /\ phase # "saved" /\ base # Listing
    /\ base' = Listing /\ photos' = Listing
    /\ disturbed' = (phase = "saving")
    /\ UNCHANGED <<filesVars, picks, deleted, todo, slot, phase>>

-----------------------------------------------------------------------------
(* Saving *)

Request(op, f) == [op |-> op, file |-> f, key |-> NoKey, version |-> 0,
                   caption |-> AsIs, cover |-> AsIs, confirm |-> FALSE]

CoverAs(isCover) == IF isCover THEN "yes" ELSE "no"

\* Fault: only the cover flag is sent, as before attachmentReviewPatches.
CoverOnly(f) ==
    [Request("review", f) EXCEPT
        !.version = photos[f].version,
        !.cover = IF photos[f].cover # base[f].cover THEN CoverAs(photos[f].cover) ELSE AsIs]

\* attachmentReviewPatches: what differs from the listing.
ReviewOf(f) ==
    [Request("review", f) EXCEPT
        !.version = photos[f].version,
        !.caption = IF photos[f].caption # base[f].caption THEN photos[f].caption ELSE AsIs,
        !.cover = IF photos[f].cover # base[f].cover THEN CoverAs(photos[f].cover) ELSE AsIs]

Reviews == {r \in {ReviewOf(f) : f \in DOMAIN photos} : r.caption # AsIs \/ r.cover # AsIs}

UploadOf(k) ==
    [Request("upload", NoFile) EXCEPT !.key = k, !.caption = picks[k].caption,
                                      !.cover = CoverAs(picks[k].cover)]

\* The deletions, then the reviews in the order of the list, then the uploads.
SaveRequests ==
       SetToSeq({Request("delete", f) : f \in deleted})
    \o SetToSeq(Reviews)
    \o SetToSeq({UploadOf(k) : k \in DOMAIN picks})

Save ==
    /\ phase = "editing" /\ Spend("saves")
    /\ phase' = "saving" /\ todo' = SaveRequests
    /\ UNCHANGED <<tables, ghosts, call, editVars, slot, disturbed>>

Send(s) ==
    /\ phase = "saving" /\ slot = NoSlot /\ todo # <<>>
    /\ Arrive(s, Head(todo))
    /\ slot' = s
    /\ UNCHANGED <<tables, ghosts, left, editVars, todo, phase, disturbed>>

\* uploadAssetMedia: an uploaded photo gets its variant and its confirmation, which
\* names the version the variant answered with.  The picks are photos: a document that
\* is a PDF goes without the variant, its confirmation naming the upload's version.
AfterUpload(f) ==
    LET k == file'[f].key
    IN  << Request("variant", f),
           [Request("review", f) EXCEPT !.caption = picks[k].caption, !.confirm = TRUE,
                                        !.cover = CoverAs(picks[k].cover)] >>

NamingVersion(rest, f) == [rest EXCEPT ![1].version = file'[f].version]

\* Fault: the request that was answered is not taken off the queue.
AnsweredAgain(dto) == todo

\* What is left of the save when its request is answered.
TodoAfter(dto) ==
    CASE dto.op = "upload" ->
           AfterUpload(CHOOSE f \in Files : file'[f] # NoRow /\ file'[f].key = dto.key) \o Tail(todo)
      [] dto.op = "variant" -> NamingVersion(Tail(todo), dto.file)
      [] OTHER -> Tail(todo)

\* onSuccess
Saved ==
    /\ phase = "saving" /\ todo = <<>> /\ slot = NoSlot
    /\ phase' = "saved"
    /\ UNCHANGED <<filesVars, editVars, todo, slot, disturbed>>

\* Fault: what the failed save had not sent yet is kept for later.
FailedKeepingQueue == phase' = "editing" /\ slot' = NoSlot /\ UNCHANGED todo

\* onError: the message is shown; the form and the listing stay as they are.
SaveFailed == phase' = "editing" /\ todo' = <<>> /\ slot' = NoSlot

\* The answer of a call reaches the client that waits for it.
Answered(s) ==
    IF slot = s
    THEN /\ todo' = TodoAfter(call[s].dto) /\ slot' = NoSlot
         /\ UNCHANGED <<phase, disturbed>>
    ELSE /\ disturbed' = (disturbed \/ file' # file)
         /\ UNCHANGED <<todo, slot, phase>>

Refused(s) ==
    IF slot = s
    THEN SaveFailed /\ UNCHANGED disturbed
    ELSE /\ disturbed' = (disturbed \/ file' # file)
         /\ UNCHANGED <<todo, slot, phase>>

Serve(s) ==
    /\ \/ Continues(s) /\ UNCHANGED <<todo, slot, phase, disturbed>>
       \/ Succeeds(s) /\ Answered(s)
       \/ Fails(s) /\ Refused(s)
    /\ UNCHANGED editVars

\* The connection fails while the server works: the call goes on unheard.
LoseConnection ==
    /\ slot # NoSlot /\ Spend("faults")
    /\ SaveFailed
    /\ UNCHANGED <<tables, ghosts, call, editVars, disturbed>>

ServerRestarts ==
    /\ Restart
    /\ IF slot # NoSlot THEN SaveFailed ELSE UNCHANGED <<todo, slot, phase>>
    /\ UNCHANGED <<editVars, disturbed>>

-----------------------------------------------------------------------------
(* Other clients *)

OtherRequest(s, dto) ==
    /\ Spend("others")
    /\ dto.file # NoFile => dto.file \in Stored
    /\ Arrive(s, IF dto.op = "review" THEN [dto EXCEPT !.version = file[dto.file].version] ELSE dto)
    /\ UNCHANGED <<tables, ghosts, editVars, todo, slot, phase, disturbed>>

LotDisposed ==
    /\ Spend("others") /\ Dispose
    /\ UNCHANGED <<editVars, todo, slot, phase, disturbed>>

Next ==
    \/ \E f \in Files, c \in Captions : EditCaption(f, c)
    \/ \E k \in Keys, c \in Captions : EditPick(k, c) \/ AddFile(k, c)
    \/ \E x \in Files \cup Keys : SelectCover(x)
    \/ \E f \in Files : RemoveExisting(f)
    \/ \E k \in Keys : RemoveNew(k)
    \/ Refetch \/ Save \/ Saved
    \/ \E s \in Slots : Send(s) \/ Serve(s)
    \/ LoseConnection \/ ServerRestarts
    \/ \E s \in Slots, dto \in OtherDtos : OtherRequest(s, dto)
    \/ LotDisposed

Spec == Init /\ [][Next]_vars

\* The server goes on with every call it has, and the client with a save.
FairSpec ==
    /\ Spec
    /\ WF_vars(Saved)
    /\ WF_vars(\E s \in Slots : Send(s))
    /\ \A s \in Slots : WF_vars(Serve(s))

-----------------------------------------------------------------------------
(* Properties *)

\* A deleted file is the cover of nothing, and what is shown as the cover is
\* a file of the lot: softDelete, review and upload may run at the same time.
CoversAreLive == Covers \subseteq Live

\* A lot has one cover unless two calls that choose one were under way at the
\* same time: neither transaction sees the cover the other is about to set.
OneCoverUnlessOverlapped == Cardinality(Covers) > 1 => overlapped

\* Every file's original is stored, and its variant when it has one, unless
\* the call that stored it was not told of its commit and removed it again.
FilesKeepTheirObjects ==
    \A f \in Stored :
        /\ <<f, "ORIGINAL">> \in object \cup unacked
        /\ file[f].cropped => <<f, "CROPPED">> \in object \cup unacked

\* The limit is checked before the transaction: it is exceeded by no more
\* than the uploads that were admitted together.
LimitHoldsUpToRaces == Cardinality(Live) < Limit + Cardinality(Slots)

\* A review changes a row only from what its sender saw: the caption that is
\* replaced is the one the version in the request stood for.
ReviewsReplaceWhatWasSeen ==
    [][\A f \in Files :
         /\ slot # NoSlot /\ Busy(slot) /\ call'[slot] = NoCall
         /\ call[slot].dto.op = "review" /\ call[slot].file = f /\ ~call[slot].dto.confirm
         /\ file' # file
         => file[f].caption = base[f].caption]_vars

PicksRow(k) == {f \in Stored : file[f].key = k}
RowsOfPicks == UNION {PicksRow(k) : k \in DOMAIN picks}

\* What the form shows is listed photos and picks; a pick that an earlier
\* save uploaded may be listed as well, and the pick is what is saved then.
ShownPhotos == DOMAIN photos \ (deleted \cup RowsOfPicks)
ShownCovers == {f \in ShownPhotos : photos[f].cover} \cup {k \in DOMAIN picks : picks[k].cover}

\* A save that ends without an error did what the form showed: removed files
\* are gone, listed photos are as edited, and every pick has one confirmed
\* file, with its variant; whatever failed in earlier attempts and was retried.
\* Unless somebody else changed the files since they were listed, or the form
\* was edited after an attempt that failed half way: it still compares with the
\* old listing, and undoing an edit which that attempt had saved sends nothing.
AsShown ==
    /\ \A f \in deleted : f \notin Live
    /\ \A f \in ShownPhotos :
         f \in Live /\ file[f].caption = photos[f].caption
    /\ \A k \in DOMAIN picks :
         \E f \in Live : /\ PicksRow(k) = {f}
                         /\ file[f].confirmed /\ file[f].cropped
                         /\ file[f].caption = picks[k].caption
    /\ Cardinality(ShownCovers) = 1 =>
         \A f \in ShownPhotos \cup RowsOfPicks :
            file[f].cover <=> (f \in ShownCovers \/ file[f].key \in ShownCovers)

SavesDoWhatTheFormShows == phase = "saved" /\ ~disturbed => AsShown

\* Every save ends, with success or with an error to show.
SavesSettle == phase = "saving" ~> phase # "saving"

\* A lot's files keep their objects and their limit, and its cover is a live photo and one, but
\* for uploads and reviews that overlap (attachments.service.ts:396, 457, 718).
LotFilesAreSound ==
    TypeOK /\ CoversAreLive /\ OneCoverUnlessOverlapped /\ FilesKeepTheirObjects /\ LimitHoldsUpToRaces

\* A save that is pressed comes to an end, with success or an error to show, and none of its
\* reviews replaced another's that the form had not seen.
SavesEndAndOverwriteNothing == SavesSettle /\ ReviewsReplaceWhatWasSeen

-----------------------------------------------------------------------------
(* What carries these properties *)

FilesIInv ==
    /\ FilesTypeOK /\ CoversAreLive /\ FilesKeepTheirObjects
    /\ CallsAreSound /\ UploadsAreApart /\ CoversAreChosenInTurn /\ AdmittedFit

\* Requests that can be sent: of files that are there, and of picks.
Sendable == {dto \in Dtos : /\ WellFormed(dto)
                            /\ IF dto.op = "upload" THEN dto.key \in DOMAIN picks
                                                    ELSE dto.file \in Stored}

\* The listing, the edits and the deletions are of files that are there, and so is what is
\* yet to send; its first request is the one that is being answered.
EditorIsSound ==
    /\ DOMAIN base \subseteq Stored /\ deleted \subseteq Stored
    /\ todo \in Seq(Sendable)
    /\ slot # NoSlot => todo # <<>> /\ call[slot].dto = Head(todo)

\* A version of a file has one caption, and the edited photo is of the listed version.
FormIsOfTheListing ==
    \A f \in DOMAIN base :
        /\ base[f].version <= file[f].version
        /\ base[f].version = file[f].version => base[f].caption = file[f].caption
        /\ f \in DOMAIN photos => photos[f].version = base[f].version

\* What a review of the save replaces is the listed caption, for as long as the version it
\* names is the file's.
Unconfirmed(dto) == dto.op = "review" /\ ~dto.confirm
IsOfTheListing(dto) ==
    Unconfirmed(dto) =>
        /\ dto.version <= file[dto.file].version
        /\ dto.file \in Live /\ dto.version = file[dto.file].version =>
              dto.file \in DOMAIN base /\ base[dto.file].caption = file[dto.file].caption

\* The version a variant answers with goes to a confirmation.
VariantsAreConfirmed ==
    \A i \in 1..Len(todo) :
        todo[i].op = "variant" => i < Len(todo) /\ todo[i + 1].op = "review" /\ todo[i + 1].confirm

ReviewsAreOfTheListing ==
    /\ FormIsOfTheListing /\ VariantsAreConfirmed
    /\ \A i \in 1..Len(todo) : IsOfTheListing(todo[i])

EditorIInv == TypeOK /\ FilesIInv /\ EditorIsSound /\ ReviewsAreOfTheListing

\* A save under way, or ended without an error.  An upload's key is one file's, and a cover
\* that was not listed was selected, so that no other is shown.
KeysAreUnique == \A f, g \in Stored : file[f].key = file[g].key /\ file[f].key # NoKey => f = g

Chosen == {f \in DOMAIN photos : photos[f].cover} \cup {k \in DOMAIN picks : picks[k].cover}
CoversAreChosen == \/ \A f \in DOMAIN photos : photos[f].cover => base[f].cover
                   \/ \A x, y \in Chosen : x = y

\* Listed photos are as listed or as edited, whatever attempts of the save have failed; where
\* the cover was not edited no attempt writes it.
FormHolds ==
    /\ DOMAIN base \ deleted \subseteq Live
    /\ \A f \in ShownPhotos :
         /\ file[f].caption \in {base[f].caption, photos[f].caption}
         /\ (base[f].cover <=> photos[f].cover) /\ (photos[f].cover => ShownCovers = {f})
               => (file[f].cover <=> photos[f].cover)

\* A call of the save that sets the cover clears every other.
OwnCallSeesCovers ==
    slot # NoSlot =>
        /\ At(slot, "clearing") => Covers \subseteq call[slot].seen \cup {call[slot].file}
        /\ At(slot, "cleared") => Covers \subseteq call[slot].cleared \cup {call[slot].file}

\* The order of a save: deletions and reviews of listed photos, then one pick after the other.
IsFirst(dto) == \/ \E f \in deleted : dto = Request("delete", f)
                \/ \E f \in DOMAIN photos : dto = ReviewOf(f)
IsUpload(dto) == \E k \in DOMAIN picks : dto = UploadOf(k)
IsVariant(dto, k) == dto.op = "variant" /\ dto.file \in PicksRow(k)
IsConfirmation(dto, k) ==
    /\ dto.op = "review" /\ dto.confirm /\ dto.file \in PicksRow(k)
    /\ dto.caption = picks[k].caption /\ dto.cover = CoverAs(picks[k].cover)

Queued(dto) == \E i \in 1..Len(todo) : todo[i] = dto
ListedComeFirst ==
    \A i \in 1..Len(todo) :
        \/ IsUpload(todo[i])
        \/ /\ \A j \in 1..i : IsFirst(todo[j])
           /\ \A k \in DOMAIN picks : Queued(UploadOf(k))
PickIsAdded(k) ==
    /\ todo # <<>>
    /\ \/ IsConfirmation(todo[1], k) /\ file[todo[1].file].cropped
       \/ IsVariant(todo[1], k) /\ Len(todo) > 1 /\ IsConfirmation(todo[2], k)
    /\ \A i \in 2..Len(todo) : IsUpload(todo[i]) \/ (i = 2 /\ todo[1].op = "variant")
SaveIsInOrder == ListedComeFirst \/ \E k \in DOMAIN picks : PickIsAdded(k)

\* What the form shows is so, or a request for it is on its way.
Awaited(k) == Queued(UploadOf(k)) \/ PickIsAdded(k)
HasRow(k) ==
    \E f \in Live : /\ file[f].key = k /\ file[f].confirmed /\ file[f].cropped
                    /\ file[f].caption = picks[k].caption
                    /\ ~picks[k].cover => ~file[f].cover
CoverIsOnItsWay(x) ==
    /\ x \in DOMAIN picks => Awaited(x) \/ Covers = PicksRow(x)
    /\ x \in ShownPhotos =>
         /\ file[x].cover \/ (~base[x].cover /\ Queued(ReviewOf(x)))
         /\ \A g \in ShownPhotos \ {x} : file[g].cover => Queued(ReviewOf(g))
SaveProgresses ==
    /\ SaveIsInOrder
    /\ \A f \in deleted : f \in Live => Queued(Request("delete", f))
    /\ \A f \in ShownPhotos : file[f].caption # photos[f].caption => Queued(ReviewOf(f))
    /\ \A k \in DOMAIN picks : Awaited(k) \/ HasRow(k)
    /\ \A x \in ShownCovers : ShownCovers = {x} => CoverIsOnItsWay(x)

SaveIInv ==
    /\ KeysAreUnique /\ CoversAreChosen
    /\ ~disturbed => FormHolds /\ OwnCallSeesCovers
    /\ ~disturbed /\ phase # "editing" => SaveProgresses
=============================================================================
