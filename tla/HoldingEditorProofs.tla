------------------------- MODULE HoldingEditorProofs -------------------------
(***************************************************************************)
(* Theorems about LotFiles and HoldingEditor for any number of calls,      *)
(* files, clients and failures: a lot's files keep their objects, their    *)
(* limit and one live cover whatever overlaps, but for the races the       *)
(* handlers leave open; and a review replaces what its sender had seen.    *)
(***************************************************************************)
EXTENDS HoldingEditor, FiniteSetTheorems, SequenceTheorems, TLAPS

-----------------------------------------------------------------------------
(* Sequences of requests *)

LEMMA SetsToSequences ==
    ASSUME NEW S, IsFiniteSet(S)
    PROVE  /\ SetToSeq(S) \in Seq(S)
           /\ \A x \in S : \E i \in 1..Len(SetToSeq(S)) : SetToSeq(S)[i] = x
<1> DEFINE n == Cardinality(S)
<1>1. n \in Nat /\ ExistsBijection(1..n, S)
    BY FS_CardinalityType
<1>2. PICK f \in Bijection(1..n, S) : TRUE
    BY <1>1 DEF ExistsBijection
<1>3. f \in [1..n -> S] /\ \A i, j \in 1..n : f[i] = f[j] => i = j
    BY <1>2 DEF Bijection, Injection, IsInjective
<1>4. IsInjective(f)
    BY <1>3 DEF IsInjective
<1>5. SetToSeq(S) \in [1..n -> S] /\ IsInjective(SetToSeq(S))
    BY <1>3, <1>4 DEF SetToSeq
<1>6. PICK g : g = SetToSeq(S)
    OBVIOUS
<1>7. g \in Injection(1..n, S)
    BY <1>5, <1>6 DEF Injection, IsInjective
<1>8. Cardinality(1..n) = n
    BY <1>1, FS_Interval
<1>9. g \in Surjection(1..n, S)
    BY <1>7, <1>8, FS_Injection
<1>10. g \in Seq(S) /\ Len(g) = n
    BY <1>1, <1>5, <1>6
<1>11. \A x \in S : \E i \in 1..n : g[i] = x
    BY <1>9 DEF Surjection
<1> QED
    BY <1>6, <1>10, <1>11

LEMMA ImagesAreFinite ==
    ASSUME NEW S, IsFiniteSet(S), NEW f, DOMAIN f = S, NEW I, \A y \in I : \E x \in S : y = f[x]
    PROVE  IsFiniteSet(I)
<1> DEFINE J == {f[x] : x \in S}
           g == [x \in S |-> f[x]]
<1>1. g \in Surjection(S, J)
    BY DEF Surjection
<1>2. IsFiniteSet(J)
    BY <1>1, FS_Surjection
<1>3. I \in SUBSET J
    OBVIOUS
<1> QED
    BY <1>2, <1>3, FS_Subset

-----------------------------------------------------------------------------
(* The files of a lot *)

LEMMA FilesAreFinite ==
    /\ IsFiniteSet(Files)
    /\ IsFiniteSet(Stored) /\ IsFiniteSet(Live) /\ IsFiniteSet(Covers)
    /\ \A S \in SUBSET Slots : IsFiniteSet(S)
<1>1. IsFiniteSet(Files)
    BY LotFilesAssumption, FS_Union DEF Files
<1>2. Stored \in SUBSET Files /\ Live \in SUBSET Files /\ Covers \in SUBSET Files
    BY DEF Stored, Live, Covers
<1>3. \A S \in SUBSET Files : IsFiniteSet(S)
    BY <1>1, FS_Subset
<1>4. \A S \in SUBSET Slots : IsFiniteSet(S)
    BY LotFilesAssumption, FS_Subset
<1> QED
    BY <1>1, <1>2, <1>3, <1>4

LEMMA CallTypes ==
    ASSUME FilesTypeOK, NEW s \in Slots, Busy(s)
    PROVE  /\ call[s] \in Calls /\ call[s].dto \in Dtos
           /\ call[s].cleared \subseteq Files /\ call[s].seen \subseteq Files
           /\ call[s].file \in Files \cup {NoFile}
<1>1. call[s] \in Calls
    BY DEF FilesTypeOK, Busy
<1> QED
    BY <1>1 DEF Calls

LEMMA RowTypes ==
    ASSUME FilesTypeOK
    PROVE  /\ \A f \in Files : f \in Stored <=> file[f] \in FileRows
           /\ \A f \in Files : f \notin Stored <=> file[f] = NoRow
           /\ \A f \in Stored : f \in Files
           /\ \A f \in Live : f \in Stored
BY LotFilesAssumption DEF FilesTypeOK, Stored, Live

\* A commit writes the row of one file and the cover of those it cleared.
LEMMA CommitEffect ==
    ASSUME FilesTypeOK, CallsAreSound, NEW s \in Slots, Busy(s),
           NEW f \in Files, NEW row \in FileRows, Commit(s, f, row)
    PROVE  /\ file' \in [Files -> FileRows \cup {NoRow}]
           /\ file'[f] = row
           /\ \A g \in Files \ {f} :
                /\ g \notin Stored => file'[g] = NoRow
                /\ g \in Stored =>
                      /\ file'[g] \in FileRows
                      /\ file'[g].cover <=> file[g].cover /\ g \notin call[s].cleared
                      /\ file'[g].deleted = file[g].deleted /\ file'[g].cropped = file[g].cropped
                      /\ file'[g].version = file[g].version /\ file'[g].caption = file[g].caption
                      /\ file'[g].key = file[g].key /\ file'[g].confirmed = file[g].confirmed
           /\ overlapped' = overlapped /\ held' = held
<1>1. call[s].cleared \subseteq Stored
    BY DEF CallsAreSound, CallIsSound
<1>2. ASSUME NEW g \in Stored, g \in call[s].cleared
      PROVE  /\ [file[g] EXCEPT !.cover = FALSE] \in FileRows
             /\ [file[g] EXCEPT !.cover = FALSE].cover = FALSE
             /\ [file[g] EXCEPT !.cover = FALSE].deleted = file[g].deleted
             /\ [file[g] EXCEPT !.cover = FALSE].cropped = file[g].cropped
             /\ [file[g] EXCEPT !.cover = FALSE].version = file[g].version
             /\ [file[g] EXCEPT !.cover = FALSE].caption = file[g].caption
             /\ [file[g] EXCEPT !.cover = FALSE].key = file[g].key
             /\ [file[g] EXCEPT !.cover = FALSE].confirmed = file[g].confirmed
    <2>1. file[g] \in FileRows
        BY RowTypes
    <2> QED
        BY <2>1 DEF FileRows
<1>3. \A g \in Files : file'[g] = CASE g = f -> row
                                    [] g # f /\ g \in call[s].cleared -> [file[g] EXCEPT !.cover = FALSE]
                                    [] OTHER -> file[g]
    BY DEF Commit
<1>4. file'[f] = row
    BY <1>3
<1>5. ASSUME NEW g \in Files \ {f}, g \in call[s].cleared
      PROVE  g \in Stored /\ file'[g] = [file[g] EXCEPT !.cover = FALSE]
    BY <1>1, <1>3, <1>5
<1>6. ASSUME NEW g \in Files \ {f}, g \notin call[s].cleared PROVE file'[g] = file[g]
    BY <1>3, <1>6
<1>7. \A g \in Files \ {f} :
         /\ g \notin Stored => file'[g] = NoRow
         /\ g \in Stored =>
               /\ file'[g] \in FileRows
               /\ file'[g].cover <=> file[g].cover /\ g \notin call[s].cleared
               /\ file'[g].deleted = file[g].deleted /\ file'[g].cropped = file[g].cropped
               /\ file'[g].version = file[g].version /\ file'[g].caption = file[g].caption
               /\ file'[g].key = file[g].key /\ file'[g].confirmed = file[g].confirmed
    <2> TAKE g \in Files \ {f}
    <2>1. CASE g \in call[s].cleared
        BY <2>1, <1>5, <1>2
    <2>2. CASE g \notin call[s].cleared
        <3>1. file'[g] = file[g]
            BY <2>2, <1>6
        <3> QED
            BY <2>2, <3>1, RowTypes
    <2> QED
        BY <2>1, <2>2
<1>8. \A g \in Files : file'[g] \in FileRows \cup {NoRow}
    BY <1>4, <1>7
<1>9. file' = [g \in Files |-> file'[g]]
    BY DEF Commit
<1>10. file' \in [Files -> FileRows \cup {NoRow}]
    BY <1>8, <1>9
<1> QED
    BY <1>4, <1>7, <1>10 DEF Commit

\* What is there, what lives and what is a cover after a commit.
LEMMA CommitSets ==
    ASSUME FilesTypeOK, CallsAreSound, NEW s \in Slots, Busy(s),
           NEW f \in Files, NEW row \in FileRows, Commit(s, f, row)
    PROVE  /\ Stored' = Stored \cup {f}
           /\ Live' = (Live \ {f}) \cup (IF row.deleted THEN {} ELSE {f})
           /\ Covers' = (Covers \ (call[s].cleared \cup {f})) \cup (IF row.cover THEN {f} ELSE {})
<1>1. file'[f] = row /\ row # NoRow
    BY CommitEffect, LotFilesAssumption
<1>2. \A g \in Files \ {f} :
         /\ g \in Stored' <=> g \in Stored
         /\ g \in Live' <=> g \in Live
         /\ g \in Covers' <=> g \in Covers /\ g \notin call[s].cleared
    <2> TAKE g \in Files \ {f}
    <2>1. CASE g \notin Stored
        <3>1. file'[g] = NoRow
            BY <2>1, CommitEffect
        <3> QED
            BY <2>1, <3>1 DEF Stored, Live, Covers
    <2>2. CASE g \in Stored
        <3>1. /\ file'[g] # NoRow
              /\ file'[g].cover <=> file[g].cover /\ g \notin call[s].cleared
              /\ file'[g].deleted = file[g].deleted
            BY <2>2, CommitEffect, LotFilesAssumption
        <3> QED
            BY <2>2, <3>1 DEF Stored, Live, Covers
    <2> QED
        BY <2>1, <2>2
<1>3. f \in Stored' /\ (f \in Live' <=> ~row.deleted) /\ (f \in Covers' <=> row.cover)
    BY <1>1 DEF Stored, Live, Covers
<1>4. /\ Stored \subseteq Files /\ Live \subseteq Files /\ Covers \subseteq Files
      /\ Stored' \subseteq Files /\ Live' \subseteq Files /\ Covers' \subseteq Files
    BY DEF Stored, Live, Covers
<1> QED
    BY <1>2, <1>3, <1>4

-----------------------------------------------------------------------------
(* Calls that write nothing *)

\* A call's soundness depends on its own file only, and on files not going away.
LEMMA OtherCallsStaySound ==
    ASSUME CallsAreSound, NEW t \in Slots, call'[t] = call[t], Stored \subseteq Stored',
           Storing(t) => /\ file'[call[t].file] = NoRow
                         /\ <<call[t].file, "ORIGINAL">> \in object'
    PROVE  Busy(t)' => CallIsSound(t)'
<1> SUFFICES ASSUME Busy(t)' PROVE CallIsSound(t)'
    OBVIOUS
<1>1. Busy(t) /\ CallIsSound(t)
    BY DEF Busy, CallsAreSound
<1>2. /\ Storing(t)' <=> Storing(t)
      /\ Op(t, "upload")' <=> Op(t, "upload")
      /\ At(t, "lookup")' <=> At(t, "lookup")
      /\ At(t, "cleared")' <=> At(t, "cleared")
      /\ Clearing(t)' <=> Clearing(t)
    BY DEF Storing, Op, At, Clearing, Busy
<1> QED
    BY <1>1, <1>2 DEF CallIsSound

\* What the other calls are up to does not change when one slot's does.
LEMMA OtherCalls ==
    ASSUME NEW t \in Slots, call'[t] = call[t]
    PROVE  /\ (Busy(t)' <=> Busy(t)) /\ (Storing(t)' <=> Storing(t)) /\ (Clearing(t)' <=> Clearing(t))
           /\ \A at : At(t, at)' <=> At(t, at)
           /\ \A op : Op(t, op)' <=> Op(t, op)
           /\ t \in Admitted' <=> t \in Admitted
BY DEF Busy, Storing, Clearing, At, Op, Admitted

\* Turns are kept by whoever sets no cover and does not begin or end to clear any.
LEMMA TurnsKept ==
    ASSUME CoversAreChosenInTurn, Covers' \subseteq Covers, overlapped' = overlapped,
           \A t \in Slots : Clearing(t)' => call'[t] = call[t]
    PROVE  CoversAreChosenInTurn'
<1> SUFFICES ASSUME ~overlapped
             PROVE  /\ \A f, g \in Covers' : f = g
                    /\ \A s, t \in Slots : Clearing(s)' /\ Clearing(t)' => s = t
                    /\ \A s \in Slots :
                         /\ At(s, "clearing")' => Covers' \subseteq call'[s].seen \cup {call'[s].file}
                         /\ At(s, "cleared")' => Covers' \subseteq call'[s].cleared \cup {call'[s].file}
    BY DEF CoversAreChosenInTurn
<1>1. /\ \A f, g \in Covers : f = g
      /\ \A s, t \in Slots : Clearing(s) /\ Clearing(t) => s = t
      /\ \A s \in Slots :
           /\ At(s, "clearing") => Covers \subseteq call[s].seen \cup {call[s].file}
           /\ At(s, "cleared") => Covers \subseteq call[s].cleared \cup {call[s].file}
    BY DEF CoversAreChosenInTurn
<1>2. ASSUME NEW s \in Slots, Clearing(s)'
      PROVE  /\ Clearing(s) /\ call'[s] = call[s]
             /\ At(s, "clearing")' => At(s, "clearing")
             /\ At(s, "cleared")' => At(s, "cleared")
    BY <1>2, OtherCalls
<1>3. \A s \in Slots : At(s, "clearing")' \/ At(s, "cleared")' => Clearing(s)'
    BY DEF Clearing
<1>4. \A s, t \in Slots : Clearing(s)' /\ Clearing(t)' => s = t
    BY <1>1, <1>2
<1>5. ASSUME NEW s \in Slots
      PROVE  /\ At(s, "clearing")' => Covers' \subseteq call'[s].seen \cup {call'[s].file}
             /\ At(s, "cleared")' => Covers' \subseteq call'[s].cleared \cup {call'[s].file}
    BY <1>1, <1>2, <1>3
<1> QED
    BY <1>1, <1>4, <1>5

LEMMA UploadsStayApart ==
    ASSUME UploadsAreApart, NEW s \in Slots, \A t \in Slots \ {s} : call'[t] = call[t],
           Storing(s)' => \A t \in Slots \ {s} : Storing(t) => call[t].file # call'[s].file
    PROVE  UploadsAreApart'
<1> SUFFICES ASSUME NEW t \in Slots, NEW u \in Slots, t # u, Storing(t)', Storing(u)'
             PROVE  call'[t].file # call'[u].file
    BY DEF UploadsAreApart
<1>1. CASE t = s
    BY <1>1, OtherCalls
<1>2. CASE u = s
    BY <1>2, OtherCalls
<1>3. CASE t # s /\ u # s
    BY <1>3, OtherCalls DEF UploadsAreApart
<1> QED
    BY <1>1, <1>2, <1>3

LEMMA NoMoreAdmitted ==
    ASSUME AdmittedFit, LotFilesAssumption, Live' \subseteq Live, Admitted' \subseteq Admitted
    PROVE  AdmittedFit'
<1>1. /\ IsFiniteSet(Live) /\ IsFiniteSet(Admitted)
      /\ IsFiniteSet(Live') /\ IsFiniteSet(Admitted')
    <2>1. Live' \subseteq Files /\ Admitted \subseteq Slots /\ Admitted' \subseteq Slots
        BY DEF Live, Stored, Admitted
    <2> QED
        BY <2>1, FilesAreFinite, FS_Subset
<1>2. /\ Cardinality(Live') <= Cardinality(Live) /\ Cardinality(Admitted') <= Cardinality(Admitted)
    BY <1>1, FS_Subset
<1>3. /\ Cardinality(Live) \in Nat /\ Cardinality(Live') \in Nat
      /\ Cardinality(Admitted) \in Nat /\ Cardinality(Admitted') \in Nat
      /\ Cardinality(Slots) \in Nat /\ Limit \in Nat
    BY <1>1, FS_CardinalityType, LotFilesAssumption
<1> QED
    BY <1>2, <1>3 DEF AdmittedFit

LEMMA RoomIsRoom ==
    ASSUME LotFilesAssumption, Live' = Live, Cardinality(Live) < Limit
    PROVE  AdmittedFit'
<1>1. Admitted' \in SUBSET Slots
    BY DEF Admitted
<1>2. Cardinality(Admitted') <= Cardinality(Slots) /\ IsFiniteSet(Admitted')
    BY <1>1, FS_Subset, LotFilesAssumption
<1>3. /\ Cardinality(Live) \in Nat /\ Cardinality(Admitted') \in Nat
      /\ Cardinality(Slots) \in Nat /\ Limit \in Nat
    BY <1>2, FilesAreFinite, FS_CardinalityType, LotFilesAssumption
<1> QED
    BY <1>2, <1>3 DEF AdmittedFit

\* A call that goes on keeps what it should if it stays sound itself.
LEMMA GoingOn ==
    ASSUME FilesIInv, NEW s \in Slots, Busy(s), NEW next \in Calls, GoOn(s, next),
           object \subseteq object', object' \subseteq Files \X {"ORIGINAL", "CROPPED"},
           overlapped' \in BOOLEAN, CallIsSound(s)',
           Storing(s)' => \A t \in Slots \ {s} : Storing(t) => call[t].file # next.file,
           CoversAreChosenInTurn',
           (s \in Admitted' => s \in Admitted) \/ Cardinality(Live) < Limit
    PROVE  FilesIInv'
<1>1. /\ call' = [call EXCEPT ![s] = next] /\ file' = file /\ held' = held
      /\ unacked' = unacked /\ left' = left
    BY DEF GoOn
<1>2. call'[s] = next /\ \A t \in Slots \ {s} : call'[t] = call[t]
    BY <1>1 DEF FilesIInv, FilesTypeOK
<1>3. FilesTypeOK'
    BY <1>1 DEF FilesIInv, FilesTypeOK
<1>4. Stored' = Stored /\ Live' = Live /\ Covers' = Covers
    BY <1>1 DEF Stored, Live, Covers
<1>5. CoversAreLive' /\ FilesKeepTheirObjects'
    <2>1. object \cup unacked \subseteq object' \cup unacked'
        BY <1>1
    <2>2. CoversAreLive'
        BY <1>4 DEF CoversAreLive, FilesIInv
    <2>3. FilesKeepTheirObjects'
        BY <1>1, <1>4, <2>1 DEF FilesKeepTheirObjects, FilesIInv
    <2> QED
        BY <2>2, <2>3
<1>6. CallsAreSound'
    <2> SUFFICES ASSUME NEW t \in Slots, Busy(t)' PROVE CallIsSound(t)'
        BY DEF CallsAreSound
    <2>1. CASE t = s
        BY <2>1
    <2>2. CASE t # s
        <3>1. call'[t] = call[t] /\ Busy(t) /\ CallIsSound(t)
            BY <2>2, <1>2, OtherCalls DEF FilesIInv, CallsAreSound
        <3>2. Storing(t) => file'[call[t].file] = NoRow /\ <<call[t].file, "ORIGINAL">> \in object'
            BY <3>1, <1>1 DEF CallIsSound
        <3> QED
            BY <3>1, <3>2, <1>4, OtherCallsStaySound DEF FilesIInv
    <2> QED
        BY <2>1, <2>2
<1>7. UploadsAreApart'
    BY <1>2, UploadsStayApart DEF FilesIInv
<1>8. AdmittedFit'
    <2>1. CASE s \in Admitted' => s \in Admitted
        <3>1. Admitted' \subseteq Admitted
            <4> SUFFICES ASSUME NEW t \in Admitted' PROVE t \in Admitted
                OBVIOUS
            <4>1. t \in Slots
                BY DEF Admitted
            <4>2. CASE t = s
                BY <4>2, <2>1
            <4>3. CASE t # s
                BY <4>1, <4>3, <1>2, OtherCalls
            <4> QED
                BY <4>2, <4>3
        <3> QED
            BY <3>1, <1>4, NoMoreAdmitted, LotFilesAssumption DEF FilesIInv
    <2>2. CASE Cardinality(Live) < Limit
        BY <2>2, <1>4, RoomIsRoom, LotFilesAssumption
    <2> QED
        BY <2>1, <2>2
<1> QED
    BY <1>3, <1>5, <1>6, <1>7, <1>8 DEF FilesIInv

\* What a call's record is after it went on: its place, and what it takes with it.
LEMMA MovedCall ==
    ASSUME FilesIInv, NEW s \in Slots, Busy(s), NEW next \in Calls, GoOn(s, next)
    PROVE  /\ call'[s] = next /\ Busy(s)'
           /\ \A t \in Slots \ {s} : call'[t] = call[t]
           /\ \A at : At(s, at)' <=> next.at = at
           /\ \A op : Op(s, op)' <=> next.dto.op = op
           /\ Storing(s)' <=> next.dto.op = "upload" /\ next.at \in {"tx", "clearing", "cleared"}
           /\ Clearing(s)' <=> next.at \in {"clearing", "cleared"}
           /\ s \in Admitted' <=> next.dto.op = "upload" /\ next.at # "new"
           /\ Stored' = Stored /\ Live' = Live /\ Covers' = Covers /\ file' = file
<1>1. call' = [call EXCEPT ![s] = next] /\ file' = file
    BY DEF GoOn
<1>2. call'[s] = next /\ \A t \in Slots \ {s} : call'[t] = call[t]
    BY <1>1 DEF FilesIInv, FilesTypeOK
<1>3. Busy(s)'
    BY <1>2, NoCallIsNoCall DEF Busy
<1>4. Stored' = Stored /\ Live' = Live /\ Covers' = Covers
    BY <1>1 DEF Stored, Live, Covers
<1> QED
    BY <1>1, <1>2, <1>3, <1>4 DEF At, Op, Storing, Clearing, Admitted, Busy

\* A call that goes on has the same request, and the other calls stay as they are.
GoesOn(s) ==
    /\ Busy(s)' /\ call'[s].dto = call[s].dto
    /\ \A t \in Slots \ {s} : call'[t] = call[t]

\* An upload that found room, and the reads of the other calls.
LEMMA ReadsKeepFiles ==
    ASSUME FilesIInv, NEW s \in Slots,
           CheckUpload(s) \/ ReadForVariant(s) \/ ReadForReview(s) \/ ReadForDelete(s)
    PROVE  FilesIInv' /\ GoesOn(s)
<1> DEFINE lookup == [call[s] EXCEPT !.at = "lookup"]
           tx     == [call[s] EXCEPT !.at = "tx"]
           based  == [call[s] EXCEPT !.at = "tx", !.base = file[call[s].file].version]
<1>1. Busy(s) /\ At(s, "new") /\ call[s] \in Calls /\ CallIsSound(s)
    BY CallTypes DEF CheckUpload, ReadForVariant, ReadForReview, ReadForDelete, At,
                     FilesIInv, CallsAreSound
<1>2. object' = object /\ overlapped' = overlapped
    BY DEF CheckUpload, ReadForVariant, ReadForReview, ReadForDelete
<1>3. \E next \in Calls :
         /\ GoOn(s, next) /\ next.dto = call[s].dto /\ next.file = call[s].file
         /\ next.cleared = call[s].cleared
         /\ IF Op(s, "upload") THEN next.at = "lookup" ELSE next.at = "tx"
    <2>1. CASE CheckUpload(s)
        <3>1. lookup \in Calls /\ GoOn(s, lookup) /\ Op(s, "upload")
            BY <1>1, <2>1 DEF CheckUpload, Calls
        <3> QED
            BY <1>1, <3>1 DEF Calls
    <2>2. CASE ReadForReview(s) \/ ReadForDelete(s)
        <3>1. tx \in Calls /\ GoOn(s, tx) /\ ~Op(s, "upload")
            BY <1>1, <2>2 DEF ReadForReview, ReadForDelete, Calls, Op
        <3> QED
            BY <1>1, <3>1 DEF Calls
    <2>3. CASE ReadForVariant(s)
        <3>1. Mutable(call[s].file) /\ GoOn(s, based) /\ ~Op(s, "upload")
            BY <2>3 DEF ReadForVariant, Op
        <3>2. file[call[s].file].version \in Nat
            BY <3>1, RowTypes DEF Mutable, FileRows, FilesIInv
        <3>3. based \in Calls
            BY <1>1, <3>2 DEF Calls
        <3> QED
            BY <1>1, <3>1, <3>3 DEF Calls
    <2> QED
        BY <2>1, <2>2, <2>3
<1>4. PICK next \in Calls :
         /\ GoOn(s, next) /\ next.dto = call[s].dto /\ next.file = call[s].file
         /\ next.cleared = call[s].cleared
         /\ IF Op(s, "upload") THEN next.at = "lookup" ELSE next.at = "tx"
    BY <1>3
<1>5. /\ call'[s] = next /\ \A t \in Slots \ {s} : call'[t] = call[t]
      /\ ~Storing(s)' /\ ~Clearing(s)' /\ ~At(s, "cleared")'
      /\ Op(s, "upload")' <=> Op(s, "upload")
      /\ At(s, "lookup")' => Op(s, "upload")
      /\ Stored' = Stored /\ Covers' = Covers
      /\ Op(s, "upload") <=> call[s].dto.op = "upload"
    <2>1. Op(s, "upload") <=> call[s].dto.op = "upload"
        BY <1>1 DEF Op
    <2> QED
        BY <1>1, <1>4, <2>1, MovedCall
<1>6. CallIsSound(s)'
    <2>1. WellFormed(call'[s].dto) /\ call'[s].file = call'[s].dto.file
        BY <1>1, <1>4, <1>5 DEF CallIsSound, Storing, At
    <2>2. call'[s].cleared \subseteq Stored' /\ call'[s].cleared = {}
        BY <1>1, <1>4, <1>5 DEF CallIsSound, At
    <2>3. ~Op(s, "upload")' => call'[s].file \in Stored' /\ ~At(s, "lookup")'
        BY <1>1, <1>4, <1>5 DEF CallIsSound
    <2> QED
        BY <1>5, <2>1, <2>2, <2>3 DEF CallIsSound, WellFormed
<1>7. CoversAreChosenInTurn'
    <2>1. \A t \in Slots : Clearing(t)' => call'[t] = call[t]
        BY <1>5
    <2> QED
        BY <1>2, <1>5, <2>1, TurnsKept DEF FilesIInv
<1>8. (s \in Admitted' => s \in Admitted) \/ Cardinality(Live) < Limit
    <2>1. CASE CheckUpload(s)
        BY <2>1 DEF CheckUpload, UploadAdmitted
    <2>2. CASE ~Op(s, "upload")
        BY <2>2, <1>5 DEF Admitted
    <2> QED
        BY <2>1, <2>2 DEF ReadForVariant, ReadForReview, ReadForDelete, Op
<1>9. overlapped' \in BOOLEAN /\ object' \subseteq Files \X {"ORIGINAL", "CROPPED"}
    BY <1>2 DEF FilesIInv, FilesTypeOK
<1>11. GoesOn(s)
    BY <1>1, <1>4, MovedCall DEF GoesOn
<1> QED
    BY <1>1, <1>2, <1>4, <1>5, <1>6, <1>7, <1>8, <1>9, <1>11, GoingOn

LEMMA PutOriginalKeepsFiles ==
    ASSUME FilesIInv, NEW s \in Slots, PutOriginal(s)
    PROVE  FilesIInv' /\ GoesOn(s)
<1>1. PICK f \in Unused : /\ object' = object \cup {<<f, "ORIGINAL">>}
                          /\ GoOn(s, [call[s] EXCEPT !.at = "tx", !.file = f])
    BY DEF PutOriginal
<1>2. /\ f \in NewFiles /\ f \in Files /\ file[f] = NoRow
      /\ \A t \in Slots : Busy(t) => call[t].file # f
    BY <1>1 DEF Unused, Files
<1>3. Busy(s) /\ Op(s, "upload") /\ At(s, "lookup") /\ call[s] \in Calls /\ CallIsSound(s)
      /\ overlapped' = overlapped
    BY CallTypes DEF PutOriginal, At, FilesIInv, CallsAreSound
<1> DEFINE next == [call[s] EXCEPT !.at = "tx", !.file = f]
<1>4. /\ next \in Calls /\ next.dto = call[s].dto /\ next.file = f /\ next.at = "tx"
      /\ next.cleared = call[s].cleared /\ GoOn(s, next)
    BY <1>1, <1>2, <1>3 DEF Calls
<1> HIDE DEF next
<1>5. /\ call'[s] = next /\ \A t \in Slots \ {s} : call'[t] = call[t]
      /\ Storing(s)' /\ ~Clearing(s)' /\ Op(s, "upload")'
      /\ Stored' = Stored /\ Covers' = Covers /\ file' = file
    <2>1. call[s].dto.op = "upload"
        BY <1>3 DEF Op
    <2> QED
        BY <1>3, <1>4, <2>1, MovedCall
<1>6. CallIsSound(s)'
    <2>1. WellFormed(call'[s].dto)
        BY <1>3, <1>4, <1>5 DEF CallIsSound
    <2>2. call'[s].cleared \subseteq Stored' /\ call'[s].cleared = {}
        BY <1>3, <1>4, <1>5 DEF CallIsSound, At
    <2>3. /\ call'[s].file \in NewFiles /\ file'[call'[s].file] = NoRow
          /\ <<call'[s].file, "ORIGINAL">> \in object'
        BY <1>1, <1>2, <1>4, <1>5
    <2> QED
        BY <1>5, <2>1, <2>2, <2>3 DEF CallIsSound, WellFormed
<1>7. CoversAreChosenInTurn'
    BY <1>3, <1>5, TurnsKept DEF FilesIInv
<1>8. s \in Admitted
    BY <1>3 DEF Admitted, At
<1>9. overlapped' \in BOOLEAN /\ object' \subseteq Files \X {"ORIGINAL", "CROPPED"}
    BY <1>1, <1>2, <1>3 DEF FilesIInv, FilesTypeOK
<1>10. \A t \in Slots \ {s} : Storing(t) => call[t].file # next.file
    BY <1>2, <1>4 DEF Storing, Op
<1>11. GoesOn(s)
    BY <1>3, <1>4, MovedCall DEF GoesOn
<1> QED
    BY <1>1, <1>3, <1>4, <1>6, <1>7, <1>8, <1>9, <1>10, <1>11, GoingOn

\* The statement that clears the old cover begins: it has every cover but the call's own file,
\* and unless another clears at that time it is alone.
LEMMA StartClearingKeepsFiles ==
    ASSUME FilesIInv, NEW s \in Slots, StartClearing(s)
    PROVE  FilesIInv' /\ GoesOn(s)
<1> DEFINE next == [call[s] EXCEPT !.at = "clearing", !.seen = CoversToClear(s)]
<1>1. /\ Busy(s) /\ At(s, "tx") /\ call[s] \in Calls /\ CallIsSound(s) /\ ChoosesCover(call[s].dto)
      /\ object' = object
      /\ overlapped' = (overlapped \/ \E t \in Slots \ {s} : At(t, "clearing") \/ At(t, "cleared"))
    BY CallTypes DEF StartClearing, At, FilesIInv, CallsAreSound
<1>2. CoversToClear(s) = Covers \ {call[s].file} /\ CoversToClear(s) \subseteq Files
    BY DEF CoversToClear, Covers, Stored
<1>3. /\ next \in Calls /\ next.dto = call[s].dto /\ next.file = call[s].file
      /\ next.at = "clearing" /\ next.cleared = call[s].cleared
      /\ next.seen = Covers \ {call[s].file} /\ GoOn(s, next)
    BY <1>1, <1>2 DEF StartClearing, Calls
<1> HIDE DEF next
<1>4. call[s].at = "tx"
    BY <1>1 DEF At
<1>5. /\ call'[s] = next /\ \A t \in Slots \ {s} : call'[t] = call[t]
      /\ Storing(s)' <=> Storing(s)
      /\ Op(s, "upload")' <=> Op(s, "upload")
      /\ Clearing(s)' /\ At(s, "clearing")' /\ ~At(s, "cleared")' /\ ~At(s, "lookup")'
      /\ s \in Admitted' => s \in Admitted
      /\ Stored' = Stored /\ Covers' = Covers /\ file' = file
    BY <1>1, <1>3, <1>4, MovedCall DEF Storing, Op, Admitted
<1>6. CallIsSound(s)'
    <2>1. WellFormed(call'[s].dto) /\ ChoosesCover(call'[s].dto)
        BY <1>1, <1>3, <1>5 DEF CallIsSound
    <2>2. call'[s].cleared \subseteq Stored' /\ call'[s].cleared = {}
        BY <1>1, <1>3, <1>4, <1>5 DEF CallIsSound, At
    <2>3. ~Op(s, "upload")' => call'[s].file \in Stored'
        BY <1>1, <1>3, <1>5 DEF CallIsSound
    <2>4. IF Storing(s)' THEN /\ call'[s].file \in NewFiles /\ file'[call'[s].file] = NoRow
                              /\ <<call'[s].file, "ORIGINAL">> \in object'
          ELSE call'[s].file = call'[s].dto.file
        BY <1>1, <1>3, <1>5 DEF CallIsSound
    <2> QED
        BY <1>5, <2>1, <2>2, <2>3, <2>4 DEF CallIsSound, WellFormed, ChoosesCover
<1>7. CoversAreChosenInTurn'
    <2> SUFFICES ASSUME ~overlapped'
                 PROVE  /\ \A f, g \in Covers' : f = g
                        /\ \A t, u \in Slots : Clearing(t)' /\ Clearing(u)' => t = u
                        /\ \A t \in Slots :
                             /\ At(t, "clearing")' => Covers' \subseteq call'[t].seen \cup {call'[t].file}
                             /\ At(t, "cleared")' => Covers' \subseteq call'[t].cleared \cup {call'[t].file}
        BY DEF CoversAreChosenInTurn
    <2>1. ~overlapped /\ \A t \in Slots \ {s} : ~Clearing(t)
        BY <1>1 DEF Clearing
    <2>2. \A t \in Slots \ {s} : ~Clearing(t)' /\ ~At(t, "clearing")' /\ ~At(t, "cleared")'
        BY <2>1, <1>5, OtherCalls DEF Clearing
    <2>3. \A f, g \in Covers' : f = g
        BY <2>1, <1>5 DEF FilesIInv, CoversAreChosenInTurn
    <2>4. Covers' \subseteq call'[s].seen \cup {call'[s].file}
        BY <1>3, <1>5
    <2> QED
        BY <1>5, <2>2, <2>3, <2>4
<1>8. overlapped' \in BOOLEAN /\ object' \subseteq Files \X {"ORIGINAL", "CROPPED"}
    BY <1>1 DEF FilesIInv, FilesTypeOK
<1>9. Storing(s)' => \A t \in Slots \ {s} : Storing(t) => call[t].file # next.file
    BY <1>3, <1>5 DEF FilesIInv, UploadsAreApart
<1>11. GoesOn(s)
    BY <1>1, <1>3, MovedCall DEF GoesOn
<1> QED
    BY <1>1, <1>3, <1>5, <1>6, <1>7, <1>8, <1>9, <1>11, GoingOn

\* It holds the covers that are covers still: of those it saw, none that is one now is left.
LEMMA FinishClearingKeepsFiles ==
    ASSUME FilesIInv, NEW s \in Slots, FinishClearing(s)
    PROVE  FilesIInv' /\ GoesOn(s)
<1> DEFINE next == [call[s] EXCEPT !.at = "cleared", !.cleared = call[s].seen \cap Covers]
<1>1. /\ Busy(s) /\ At(s, "clearing") /\ call[s] \in Calls /\ CallIsSound(s) /\ Clearing(s)
      /\ object' = object /\ overlapped' = overlapped
    BY CallTypes DEF FinishClearing, At, Clearing, FilesIInv, CallsAreSound
<1>2. Covers \subseteq Stored /\ Covers \subseteq Files
    BY DEF Covers, Stored
<1>3. /\ next \in Calls /\ next.dto = call[s].dto /\ next.file = call[s].file
      /\ next.at = "cleared" /\ next.cleared = call[s].seen \cap Covers /\ GoOn(s, next)
    BY <1>1, <1>2 DEF FinishClearing, Calls
<1> HIDE DEF next
<1>4. call[s].at = "clearing"
    BY <1>1 DEF At
<1>5. /\ call'[s] = next /\ \A t \in Slots \ {s} : call'[t] = call[t]
      /\ Storing(s)' <=> Storing(s)
      /\ Op(s, "upload")' <=> Op(s, "upload")
      /\ Clearing(s)' /\ ~At(s, "clearing")' /\ At(s, "cleared")' /\ ~At(s, "lookup")'
      /\ s \in Admitted' => s \in Admitted
      /\ Stored' = Stored /\ Covers' = Covers /\ file' = file
    BY <1>1, <1>3, <1>4, MovedCall DEF Storing, Op, Admitted
<1>6. CallIsSound(s)'
    <2>1. WellFormed(call'[s].dto) /\ ChoosesCover(call'[s].dto)
        BY <1>1, <1>3, <1>5 DEF CallIsSound
    <2>2. call'[s].cleared \subseteq Stored'
        BY <1>2, <1>3, <1>5
    <2>3. ~Op(s, "upload")' => call'[s].file \in Stored'
        BY <1>1, <1>3, <1>5 DEF CallIsSound
    <2>4. IF Storing(s)' THEN /\ call'[s].file \in NewFiles /\ file'[call'[s].file] = NoRow
                              /\ <<call'[s].file, "ORIGINAL">> \in object'
          ELSE call'[s].file = call'[s].dto.file
        BY <1>1, <1>3, <1>5 DEF CallIsSound
    <2> QED
        BY <1>5, <2>1, <2>2, <2>3, <2>4 DEF CallIsSound, WellFormed, ChoosesCover
<1>7. CoversAreChosenInTurn'
    <2> SUFFICES ASSUME ~overlapped
                 PROVE  /\ \A f, g \in Covers' : f = g
                        /\ \A t, u \in Slots : Clearing(t)' /\ Clearing(u)' => t = u
                        /\ \A t \in Slots :
                             /\ At(t, "clearing")' => Covers' \subseteq call'[t].seen \cup {call'[t].file}
                             /\ At(t, "cleared")' => Covers' \subseteq call'[t].cleared \cup {call'[t].file}
        BY <1>1 DEF CoversAreChosenInTurn
    <2>1. /\ \A f, g \in Covers : f = g
          /\ \A t \in Slots \ {s} : ~Clearing(t)
          /\ Covers \subseteq call[s].seen \cup {call[s].file}
        BY <1>1 DEF FilesIInv, CoversAreChosenInTurn
    <2>2. \A t \in Slots \ {s} : ~Clearing(t)' /\ ~At(t, "clearing")' /\ ~At(t, "cleared")'
        BY <2>1, <1>5, OtherCalls DEF Clearing
    <2>3. Covers' \subseteq call'[s].cleared \cup {call'[s].file}
        BY <2>1, <1>3, <1>5
    <2> QED
        BY <1>5, <2>1, <2>2, <2>3
<1>8. overlapped' \in BOOLEAN /\ object' \subseteq Files \X {"ORIGINAL", "CROPPED"}
    BY <1>1 DEF FilesIInv, FilesTypeOK
<1>9. Storing(s)' => \A t \in Slots \ {s} : Storing(t) => call[t].file # next.file
    BY <1>3, <1>5 DEF FilesIInv, UploadsAreApart
<1>11. GoesOn(s)
    BY <1>1, <1>3, MovedCall DEF GoesOn
<1> QED
    BY <1>1, <1>3, <1>5, <1>6, <1>7, <1>8, <1>9, <1>11, GoingOn

LEMMA ContinuesKeepsFiles ==
    ASSUME FilesIInv, NEW s \in Slots, Continues(s)
    PROVE  FilesIInv' /\ GoesOn(s)
BY ReadsKeepFiles, PutOriginalKeepsFiles, StartClearingKeepsFiles, FinishClearingKeepsFiles
   DEF Continues

-----------------------------------------------------------------------------
(* Calls that end without a commit, and that arrive *)

\* Nothing but calls, what uploads stored, and what is left of a session changes.
LEMMA CallsComeAndGo ==
    ASSUME FilesIInv, call' \in [Slots -> Calls \cup {NoCall}],
           left' \in [{"edits", "saves", "others", "faults"} -> Nat], held' \in BOOLEAN,
           UNCHANGED <<file, ghosts>>, object' \subseteq object,
           \A t \in Slots : Busy(t)' => \/ call'[t] = call[t]
                                        \/ At(t, "new")' /\ CallIsSound(t)',
           \A t \in Slots, k \in {"ORIGINAL", "CROPPED"} :
              Storing(t)' /\ <<call[t].file, k>> \in object => <<call[t].file, k>> \in object',
           \A f \in Stored, k \in {"ORIGINAL", "CROPPED"} :
              <<f, k>> \in object => <<f, k>> \in object'
    PROVE  FilesIInv'
<1>1. file' = file /\ unacked' = unacked /\ overlapped' = overlapped
    BY DEF ghosts
<1>2. Stored' = Stored /\ Live' = Live /\ Covers' = Covers
    BY <1>1 DEF Stored, Live, Covers
<1>3. FilesTypeOK'
    BY <1>1 DEF FilesIInv, FilesTypeOK
<1>4. CoversAreLive' /\ FilesKeepTheirObjects'
    <2>1. CoversAreLive'
        BY <1>2 DEF CoversAreLive, FilesIInv
    <2>2. \A f \in Stored, k \in {"ORIGINAL", "CROPPED"} :
             <<f, k>> \in object \cup unacked => <<f, k>> \in object' \cup unacked'
        BY <1>1
    <2>3. FilesKeepTheirObjects'
        BY <1>1, <1>2, <2>2 DEF FilesKeepTheirObjects, FilesIInv
    <2> QED
        BY <2>1, <2>3
<1>5. \A t \in Slots : At(t, "new")' => ~Storing(t)' /\ ~Clearing(t)' /\ t \notin Admitted'
    BY DEF At, Storing, Clearing, Admitted
<1>6. \A t \in Slots : /\ Storing(t)' => call'[t] = call[t] /\ Storing(t)
                       /\ Clearing(t)' => call'[t] = call[t]
                       /\ t \in Admitted' => t \in Admitted
    <2> TAKE t \in Slots
    <2>1. Storing(t)' \/ Clearing(t)' \/ t \in Admitted' => Busy(t)'
        BY DEF Storing, Clearing, Admitted, Op, At
    <2> QED
        BY <1>5, <2>1, OtherCalls
<1>7. CallsAreSound'
    <2> SUFFICES ASSUME NEW t \in Slots, Busy(t)', call'[t] = call[t] PROVE CallIsSound(t)'
        BY DEF CallsAreSound
    <2>1. Busy(t) /\ CallIsSound(t)
        BY OtherCalls DEF FilesIInv, CallsAreSound
    <2>2. Storing(t) => file'[call[t].file] = NoRow /\ <<call[t].file, "ORIGINAL">> \in object'
        BY <1>1, <2>1, OtherCalls DEF CallIsSound
    <2> QED
        BY <1>2, <2>2, OtherCallsStaySound DEF FilesIInv
<1>8. UploadsAreApart'
    BY <1>6 DEF UploadsAreApart, FilesIInv
<1>9. CoversAreChosenInTurn'
    BY <1>1, <1>2, <1>6, TurnsKept DEF FilesIInv
<1>10. AdmittedFit'
    <2>1. Admitted' \subseteq Admitted
        <3>1. \A t \in Admitted' : t \in Slots
            BY DEF Admitted
        <3> QED
            BY <1>6, <3>1
    <2> QED
        BY <1>2, <2>1, NoMoreAdmitted, LotFilesAssumption DEF FilesIInv
<1> QED
    BY <1>3, <1>4, <1>7, <1>8, <1>9, <1>10 DEF FilesIInv

LEMMA EndEffect ==
    ASSUME FilesTypeOK, NEW s \in Slots, End(s)
    PROVE  /\ call' \in [Slots -> Calls \cup {NoCall}] /\ ~Busy(s)'
           /\ \A t \in Slots \ {s} : call'[t] = call[t]
           /\ \A t \in Slots : Busy(t)' => t # s /\ call'[t] = call[t]
BY DEF FilesTypeOK, End, Busy

\* A call that ends may take with it what it stored, which is no file's.
LEMMA EndsKeepFiles ==
    ASSUME FilesIInv, NEW s \in Slots, Busy(s), End(s), UNCHANGED <<file, ghosts>>,
           held' \in BOOLEAN, left' \in [{"edits", "saves", "others", "faults"} -> Nat],
           \/ object' = object
           \/ Storing(s) /\ object' = object \ Orphan(s)
    PROVE  FilesIInv'
<1>1. /\ call' \in [Slots -> Calls \cup {NoCall}] /\ ~Busy(s)'
      /\ \A t \in Slots : Busy(t)' => t # s /\ call'[t] = call[t]
    BY EndEffect DEF FilesIInv
<1>2. \A t \in Slots : Storing(t)' => t # s /\ Storing(t)
    <2> SUFFICES ASSUME NEW t \in Slots, Storing(t)' PROVE t # s /\ Storing(t)
        OBVIOUS
    <2>1. Busy(t)'
        BY DEF Storing, Op
    <2> QED
        BY <1>1, <2>1, OtherCalls
<1>3. ASSUME Storing(s), object' = object \ Orphan(s), NEW k
      PROVE  /\ \A t \in Slots : Storing(t)' => (<<call[t].file, k>> \in object => <<call[t].file, k>> \in object')
             /\ \A f \in Stored : <<f, k>> \in object => <<f, k>> \in object'
    <2>1. call[s].file \notin Stored
        BY <1>3 DEF FilesIInv, CallsAreSound, CallIsSound, Storing, Op, Stored
    <2>2. \A t \in Slots : Storing(t)' => call[t].file # call[s].file
        BY <1>2, <1>3 DEF FilesIInv, UploadsAreApart
    <2> QED
        BY <1>3, <2>1, <2>2 DEF Orphan
<1>4. object' \subseteq object
    OBVIOUS
<1>5. \A t \in Slots, k \in {"ORIGINAL", "CROPPED"} :
         Storing(t)' => (<<call[t].file, k>> \in object => <<call[t].file, k>> \in object')
    BY <1>3
<1>6. \A f \in Stored, k \in {"ORIGINAL", "CROPPED"} : <<f, k>> \in object => <<f, k>> \in object'
    BY <1>3
<1> QED
    BY <1>1, <1>4, <1>5, <1>6, CallsComeAndGo

LEMMA ArriveKeepsFiles ==
    ASSUME FilesIInv, NEW s \in Slots, NEW dto \in Dtos, WellFormed(dto),
           dto.op # "upload" => dto.file \in Stored,
           Arrive(s, dto), UNCHANGED <<tables, ghosts>>,
           left' \in [{"edits", "saves", "others", "faults"} -> Nat]
    PROVE  FilesIInv'
<1> DEFINE next == [dto |-> dto, at |-> "new", file |-> dto.file, base |-> 0,
                    seen |-> {}, cleared |-> {}]
<1>1. file' = file /\ object' = object /\ held' = held /\ held \in BOOLEAN
    BY DEF tables, FilesIInv, FilesTypeOK
<1>2. dto.file \in Files \cup {NoFile}
    BY DEF Dtos
<1>3. next \in Calls
    BY <1>2 DEF Calls
<1>4. /\ call' \in [Slots -> Calls \cup {NoCall}]
      /\ call'[s] = next /\ \A t \in Slots \ {s} : call'[t] = call[t]
    BY <1>3 DEF Arrive, FilesIInv, FilesTypeOK
<1>5. At(s, "new")' /\ ~At(s, "lookup")' /\ ~At(s, "cleared")' /\ ~Clearing(s)' /\ ~Storing(s)'
      /\ (Op(s, "upload")' <=> dto.op = "upload")
    <2>1. Busy(s)'
        BY <1>3, <1>4, NoCallIsNoCall DEF Busy
    <2> QED
        BY <1>4, <2>1 DEF At, Op, Clearing, Storing
<1>6. CallIsSound(s)'
    <2>1. WellFormed(call'[s].dto) /\ call'[s].file = call'[s].dto.file /\ call'[s].cleared = {}
        BY <1>4
    <2>2. ~Op(s, "upload")' => call'[s].file \in Stored'
        BY <1>1, <1>4, <1>5 DEF Stored
    <2> QED
        BY <1>5, <2>1, <2>2 DEF CallIsSound, WellFormed
<1>7. \A t \in Slots : Busy(t)' => \/ call'[t] = call[t]
                                   \/ At(t, "new")' /\ CallIsSound(t)'
    BY <1>4, <1>5, <1>6
<1>8. UNCHANGED <<file, ghosts>> /\ object' \subseteq object /\ held' \in BOOLEAN
    BY <1>1
<1> QED
    BY <1>1, <1>4, <1>7, <1>8, CallsComeAndGo

\* The transactions of a server that stops are gone, and what they stored stays.
LEMMA RestartKeepsFiles ==
    ASSUME FilesIInv, Restart
    PROVE  FilesIInv'
<1>1. /\ call' = [s \in Slots |-> NoCall] /\ UNCHANGED <<file, ghosts>>
      /\ object' = object /\ held' = held
      /\ left' \in [{"edits", "saves", "others", "faults"} -> Nat]
    BY DEF Restart, tables, Spend, FilesIInv, FilesTypeOK
<1>2. \A t \in Slots : ~Busy(t)'
    BY <1>1 DEF Busy
<1>3. call' \in [Slots -> Calls \cup {NoCall}] /\ held' \in BOOLEAN
    BY <1>1 DEF FilesIInv, FilesTypeOK
<1> QED
    BY <1>1, <1>2, <1>3, CallsComeAndGo

\* Steps of the clients alone.
LEMMA ClientsKeepFiles ==
    ASSUME FilesIInv, UNCHANGED <<file, object, call, ghosts>>, held' \in BOOLEAN,
           left' \in [{"edits", "saves", "others", "faults"} -> Nat]
    PROVE  FilesIInv'
<1>1. call' \in [Slots -> Calls \cup {NoCall}]
    BY DEF FilesIInv, FilesTypeOK
<1> QED
    BY <1>1, CallsComeAndGo

LEMMA SpendTypes ==
    ASSUME FilesTypeOK, NEW what \in {"edits", "saves", "others", "faults"}, Spend(what)
    PROVE  left' \in [{"edits", "saves", "others", "faults"} -> Nat]
<1>1. left[what] \in Nat /\ left[what] > 0
    BY DEF FilesTypeOK, Spend
<1> QED
    BY <1>1 DEF FilesTypeOK, Spend

\* Every way a call ends without writing a row.
EndsUnwritten(s) ==
    \/ ReplayUpload(s) \/ LoseKey(s) \/ VariantKnown(s) \/ DeleteAgain(s)
    \/ RefuseUpload(s) \/ RefuseReplay(s) \/ RefuseVariant(s) \/ RefuseReview(s) \/ RefuseDelete(s)
    \/ DeadlockVictim(s) \/ StatementFails(s)

LEMMA UnwrittenEnd ==
    ASSUME FilesTypeOK, NEW s \in Slots, EndsUnwritten(s)
    PROVE  /\ Busy(s) /\ End(s) /\ UNCHANGED <<file, ghosts>>
           /\ held' \in BOOLEAN /\ left' \in [{"edits", "saves", "others", "faults"} -> Nat]
           /\ \/ object' = object
              \/ Storing(s) /\ object' = object \ Orphan(s)
<1>1. left \in [{"edits", "saves", "others", "faults"} -> Nat] /\ held \in BOOLEAN
    BY DEF FilesTypeOK
<1>2. CASE \/ ReplayUpload(s) \/ VariantKnown(s) \/ DeleteAgain(s) \/ RefuseUpload(s)
           \/ RefuseReplay(s) \/ RefuseVariant(s) \/ RefuseReview(s) \/ RefuseDelete(s)
    <2>1. EndWithoutEffect(s) /\ Busy(s)
        BY <1>2 DEF ReplayUpload, VariantKnown, DeleteAgain, RefuseUpload, RefuseReplay,
                    RefuseVariant, RefuseReview, RefuseDelete, Updating, Op, At
    <2> QED
        BY <1>1, <2>1 DEF EndWithoutEffect, tables, ghosts
<1>3. CASE LoseKey(s)
    <2>1. Storing(s) /\ Busy(s)
        BY <1>3 DEF LoseKey, Inserting, ReadyToWrite, Storing, Op, At
    <2> QED
        BY <1>1, <1>3, <2>1 DEF LoseKey, ghosts
<1>4. CASE DeadlockVictim(s) \/ StatementFails(s)
    <2>1. RollBack(s) /\ left' \in [{"edits", "saves", "others", "faults"} -> Nat]
        BY <1>1, <1>4, SpendTypes DEF DeadlockVictim, StatementFails
    <2>2. Busy(s) /\ (Op(s, "upload") => Storing(s))
        BY <2>1 DEF RollBack, Storing, Op, At
    <2> QED
        BY <1>1, <2>1, <2>2 DEF RollBack, ghosts
<1> QED
    BY <1>2, <1>3, <1>4 DEF EndsUnwritten

LEMMA UnwrittenEndsKeepFiles ==
    ASSUME FilesIInv, NEW s \in Slots, EndsUnwritten(s)
    PROVE  FilesIInv'
<1>1. FilesTypeOK
    BY DEF FilesIInv
<1> QED
    BY <1>1, UnwrittenEnd, EndsKeepFiles

-----------------------------------------------------------------------------
(* Calls that commit *)

\* The insert of an upload takes the place it was admitted to.
LEMMA AdmittedBecomesLive ==
    ASSUME FilesIInv, NEW s \in Admitted, NEW f, Live' \subseteq Live \cup {f},
           Admitted' \subseteq Admitted \ {s}
    PROVE  AdmittedFit'
<1>1. IsFiniteSet(Live) /\ IsFiniteSet(Admitted)
    <2>1. Admitted \subseteq Slots
        BY DEF Admitted
    <2> QED
        BY <2>1, FilesAreFinite
<1>2. /\ IsFiniteSet(Live \cup {f}) /\ IsFiniteSet(Admitted \ {s})
      /\ Cardinality(Live \cup {f}) <= Cardinality(Live) + 1
      /\ Cardinality(Admitted \ {s}) = Cardinality(Admitted) - 1
    <2>1. Cardinality(Live) \in Nat
        BY <1>1, FS_CardinalityType
    <2>2. /\ IsFiniteSet(Live \cup {f})
          /\ Cardinality(Live \cup {f}) = IF f \in Live THEN Cardinality(Live) ELSE Cardinality(Live) + 1
        BY <1>1, FS_AddElement
    <2>3. /\ IsFiniteSet(Admitted \ {s})
          /\ Cardinality(Admitted \ {s}) = Cardinality(Admitted) - 1
        BY <1>1, FS_RemoveElement
    <2> QED
        BY <2>1, <2>2, <2>3
<1>3. /\ IsFiniteSet(Live') /\ IsFiniteSet(Admitted')
      /\ Cardinality(Live') <= Cardinality(Live \cup {f})
      /\ Cardinality(Admitted') <= Cardinality(Admitted \ {s})
    BY <1>2, FS_Subset
<1>4. /\ Cardinality(Live) \in Nat /\ Cardinality(Live') \in Nat
      /\ Cardinality(Admitted) \in Nat /\ Cardinality(Admitted') \in Nat
      /\ Cardinality(Live \cup {f}) \in Nat /\ Cardinality(Admitted \ {s}) \in Nat
      /\ Cardinality(Slots) \in Nat /\ Limit \in Nat
    BY <1>1, <1>2, <1>3, FS_CardinalityType, LotFilesAssumption
<1>5. Cardinality(Live) + Cardinality(Admitted) < Limit + Cardinality(Slots)
    BY DEF FilesIInv, AdmittedFit
<1>6. Cardinality(Live') + Cardinality(Admitted') < Limit + Cardinality(Slots)
    BY <1>2, <1>3, <1>4, <1>5
<1> QED
    BY <1>6 DEF AdmittedFit

\* A commit that chooses a cover comes after its call cleared the others, or its file was the
\* cover before; it adds a file only for an upload.
LEMMA CommitsKeepFiles ==
    ASSUME FilesIInv, NEW s \in Slots, Busy(s), End(s),
           NEW f, f = call[s].file, NEW row \in FileRows, Commit(s, f, row),
           f \in Live \/ Storing(s),
           row.cover => ~row.deleted /\ (f \in Covers \/ At(s, "cleared")),
           object' \subseteq Files \X {"ORIGINAL", "CROPPED"},
           unacked' \subseteq Files \X {"ORIGINAL", "CROPPED"}, unacked \subseteq unacked',
           \A g, k : g # f /\ <<g, k>> \in object => <<g, k>> \in object',
           <<f, "ORIGINAL">> \in object' \cup unacked',
           row.cropped => <<f, "CROPPED">> \in object' \cup unacked',
           left' \in [{"edits", "saves", "others", "faults"} -> Nat]
    PROVE  FilesIInv'
<1>1. /\ FilesTypeOK /\ CallsAreSound /\ CoversAreLive /\ FilesKeepTheirObjects
      /\ UploadsAreApart /\ CoversAreChosenInTurn /\ AdmittedFit
    BY DEF FilesIInv
<1>2. f \in Files
    BY <1>1 DEF CallsAreSound, CallIsSound, Files, Live, Stored
<1>3. /\ file' \in [Files -> FileRows \cup {NoRow}] /\ file'[f] = row
      /\ \A g \in Files \ {f} :
           /\ g \notin Stored => file'[g] = NoRow
           /\ g \in Stored => file'[g].cropped = file[g].cropped
      /\ overlapped' = overlapped /\ held' = held
    BY <1>1, <1>2, CommitEffect
<1>4. /\ Stored' = Stored \cup {f}
      /\ Live' = (Live \ {f}) \cup (IF row.deleted THEN {} ELSE {f})
      /\ Covers' = (Covers \ (call[s].cleared \cup {f})) \cup (IF row.cover THEN {f} ELSE {})
    BY <1>1, <1>2, CommitSets
<1>5. /\ call' \in [Slots -> Calls \cup {NoCall}] /\ ~Busy(s)'
      /\ \A t \in Slots \ {s} : call'[t] = call[t]
    BY <1>1, EndEffect
<1>6. ~Storing(s)' /\ ~Clearing(s)' /\ s \notin Admitted'
    BY <1>5 DEF Storing, Clearing, Admitted, Op, At
<1>7. FilesTypeOK'
    BY <1>1, <1>3, <1>5 DEF FilesTypeOK
<1>8. CoversAreLive'
    BY <1>1, <1>4 DEF CoversAreLive
<1>9. FilesKeepTheirObjects'
    <2> SUFFICES ASSUME NEW g \in Stored'
                 PROVE  /\ <<g, "ORIGINAL">> \in object' \cup unacked'
                        /\ file'[g].cropped => <<g, "CROPPED">> \in object' \cup unacked'
        BY DEF FilesKeepTheirObjects
    <2>1. CASE g = f
        BY <2>1, <1>3
    <2>2. CASE g # f
        <3>1. g \in Stored /\ g \in Files \ {f}
            BY <2>2, <1>4 DEF Stored
        <3>2. /\ <<g, "ORIGINAL">> \in object \cup unacked
              /\ file[g].cropped => <<g, "CROPPED">> \in object \cup unacked
            BY <3>1, <1>1 DEF FilesKeepTheirObjects
        <3> QED
            BY <2>2, <3>1, <3>2, <1>3
    <2> QED
        BY <2>1, <2>2
<1>10. CallsAreSound'
    <2> SUFFICES ASSUME NEW t \in Slots, Busy(t)' PROVE CallIsSound(t)'
        BY DEF CallsAreSound
    <2>1. t # s /\ call'[t] = call[t] /\ Busy(t) /\ CallIsSound(t)
        BY <1>1, <1>5, OtherCalls DEF CallsAreSound
    <2>2. ASSUME Storing(t)
          PROVE  file'[call[t].file] = NoRow /\ <<call[t].file, "ORIGINAL">> \in object'
        <3>1. /\ call[t].file \in Files /\ file[call[t].file] = NoRow
              /\ <<call[t].file, "ORIGINAL">> \in object
            BY <2>1, <2>2 DEF CallIsSound, Files
        <3>2. call[t].file # f
            BY <2>1, <2>2, <3>1, <1>1 DEF UploadsAreApart, Live, Stored
        <3> QED
            BY <3>1, <3>2, <1>3 DEF Stored
    <2> QED
        BY <2>1, <2>2, <1>1, <1>4, OtherCallsStaySound
<1>11. UploadsAreApart'
    BY <1>1, <1>5, <1>6, UploadsStayApart
<1>12. CoversAreChosenInTurn'
    <2>1. CASE Covers' \subseteq Covers
        <3>1. \A t \in Slots : Clearing(t)' => call'[t] = call[t]
            BY <1>5, <1>6
        <3> QED
            BY <2>1, <3>1, <1>1, <1>3, TurnsKept
    <2>2. CASE ~(Covers' \subseteq Covers)
        <3>1. row.cover /\ At(s, "cleared") /\ Clearing(s)
            BY <2>2, <1>4 DEF Clearing
        <3> SUFFICES ASSUME ~overlapped'
                     PROVE  /\ \A g, h \in Covers' : g = h
                            /\ \A t, u \in Slots : Clearing(t)' /\ Clearing(u)' => t = u
                            /\ \A t \in Slots :
                                 /\ At(t, "clearing")' => Covers' \subseteq call'[t].seen \cup {call'[t].file}
                                 /\ At(t, "cleared")' => Covers' \subseteq call'[t].cleared \cup {call'[t].file}
            BY DEF CoversAreChosenInTurn
        <3>2. /\ Covers \subseteq call[s].cleared \cup {f}
              /\ \A t \in Slots \ {s} : ~Clearing(t)
            BY <3>1, <1>1, <1>3 DEF CoversAreChosenInTurn
        <3>3. Covers' \subseteq {f}
            BY <3>2, <1>4
        <3>4. \A t \in Slots : ~Clearing(t)' /\ ~At(t, "clearing")' /\ ~At(t, "cleared")'
            BY <3>2, <1>5, <1>6, OtherCalls DEF Clearing
        <3> QED
            BY <3>3, <3>4
    <2> QED
        BY <2>1, <2>2
<1>13. Admitted' \subseteq Admitted \ {s}
    <2> SUFFICES ASSUME NEW t \in Admitted' PROVE t \in Admitted \ {s}
        OBVIOUS
    <2>1. t \in Slots /\ t # s
        BY <1>6 DEF Admitted
    <2> QED
        BY <2>1, <1>5, OtherCalls
<1>14. AdmittedFit'
    <2>1. CASE f \in Live
        <3>1. Live' \subseteq Live
            BY <2>1, <1>4
        <3> QED
            BY <3>1, <1>1, <1>13, NoMoreAdmitted, LotFilesAssumption
    <2>2. CASE Storing(s)
        <3>1. s \in Admitted /\ Live' \subseteq Live \cup {f}
            BY <2>2, <1>4 DEF Storing, Admitted, Op
        <3> QED
            BY <3>1, <1>13, AdmittedBecomesLive
    <2> QED
        BY <2>1, <2>2
<1> QED
    BY <1>7, <1>8, <1>9, <1>10, <1>11, <1>12, <1>14 DEF FilesIInv

\* The rows that are written: a version is never used twice, and what each leaves alone.
LEMMA WrittenRows ==
    ASSUME NEW row \in FileRows, NEW dto \in Dtos
    PROVE  /\ [row EXCEPT !.cropped = TRUE, !.version = @ + 1] \in FileRows
           /\ Reviewed(row, dto) \in FileRows /\ Reviewed(row, dto).version = row.version + 1
           /\ Reviewed(row, dto).deleted = row.deleted /\ Reviewed(row, dto).cropped = row.cropped
           /\ Reviewed(row, dto).cover <=> (dto.cover = "yes" \/ (dto.cover = AsIs /\ row.cover))
           /\ Deleted(row) \in FileRows /\ Deleted(row).version = row.version + 1
           /\ ~Deleted(row).cover /\ Deleted(row).cropped = row.cropped
           /\ row.cover \in BOOLEAN /\ row.version \in Nat
<1>1. row.version \in Nat \ {0} /\ row.version + 1 \in Nat \ {0} /\ row.version \in Nat
    BY DEF FileRows
<1>2. /\ dto.caption \in Captions \cup {AsIs} /\ dto.confirm \in BOOLEAN
      /\ dto.cover \in {"yes", "no", AsIs}
    BY DEF Dtos
<1>3. /\ [row EXCEPT !.cropped = TRUE, !.version = @ + 1] \in FileRows
      /\ Deleted(row) \in FileRows /\ Deleted(row).version = row.version + 1
      /\ ~Deleted(row).cover /\ Deleted(row).cropped = row.cropped
      /\ row.cover \in BOOLEAN
    BY <1>1 DEF FileRows, Deleted
<1>4. /\ Reviewed(row, dto) \in FileRows /\ Reviewed(row, dto).version = row.version + 1
      /\ Reviewed(row, dto).deleted = row.deleted /\ Reviewed(row, dto).cropped = row.cropped
    <2>1. (IF dto.caption = AsIs THEN row.caption ELSE dto.caption) \in Captions
        BY <1>2 DEF FileRows
    <2>2. (IF dto.cover = AsIs THEN row.cover ELSE dto.cover = "yes") \in BOOLEAN
        BY DEF FileRows
    <2>3. (dto.confirm \/ row.confirmed) \in BOOLEAN
        OBVIOUS
    <2> QED
        BY <1>1, <2>1, <2>2, <2>3 DEF FileRows, Reviewed
<1>5. Reviewed(row, dto).cover <=> (dto.cover = "yes" \/ (dto.cover = AsIs /\ row.cover))
    <2>1. Reviewed(row, dto).cover = IF dto.cover = AsIs THEN row.cover ELSE dto.cover = "yes"
        BY DEF FileRows, Reviewed
    <2> QED
        BY <2>1 DEF AsIs
<1> QED
    BY <1>1, <1>3, <1>4, <1>5

LEMMA UploadedRows ==
    ASSUME NEW dto \in Dtos, WellFormed(dto), dto.op = "upload"
    PROVE  /\ UploadedRow(dto) \in FileRows /\ UploadedRow(dto).key = dto.key
           /\ ~UploadedRow(dto).deleted /\ ~UploadedRow(dto).cropped
           /\ UploadedRow(dto).cover <=> dto.cover = "yes"
<1>1. dto.key \in Keys /\ dto.caption \in Captions /\ (dto.cover = "yes") \in BOOLEAN
    BY DEF WellFormed
<1>2. RequestOf(dto) \in Requests
    BY <1>1 DEF RequestOf, Requests
<1>3. UploadedRow(dto) \in FileRows
    BY <1>1, <1>2 DEF UploadedRow, FileRows
<1>4. /\ UploadedRow(dto).key = dto.key /\ UploadedRow(dto).cover = (dto.cover = "yes")
      /\ UploadedRow(dto).deleted = FALSE /\ UploadedRow(dto).cropped = FALSE
    BY DEF UploadedRow
<1> QED
    BY <1>3, <1>4

\* The calls that write, and the row each writes.
Inserts(s) == InsertFile(s) \/ InsertUnacknowledged(s)
Crops(s)   == AddVariant(s) \/ VariantUnacknowledged(s)
Commits(s) == Inserts(s) \/ Crops(s) \/ UpdateFile(s) \/ DeleteFile(s)

RowWritten(s) ==
    CASE Op(s, "upload")  -> UploadedRow(call[s].dto)
      [] Op(s, "variant") -> WithVariant(call[s].file)
      [] Op(s, "review")  -> Reviewed(file[call[s].file], call[s].dto)
      [] OTHER            -> Deleted(file[call[s].file])

\* A commit is of an upload's new file, or of a live file whose version it raises.
LEMMA CommitShape ==
    ASSUME FilesIInv, NEW s \in Slots, Commits(s)
    PROVE  /\ Busy(s) /\ End(s) /\ Commit(s, call[s].file, RowWritten(s))
           /\ call[s].file \in Files /\ RowWritten(s) \in FileRows
           /\ IF Op(s, "upload")
              THEN /\ Inserts(s) /\ Storing(s) /\ file[call[s].file] = NoRow
                   /\ RowOfKey(call[s].dto.key) = {}
                   /\ RowWritten(s) = UploadedRow(call[s].dto)
              ELSE /\ call[s].file \in Live /\ ~Inserts(s)
                   /\ RowWritten(s).version = file[call[s].file].version + 1
           /\ Op(s, "review") => /\ UpdateFile(s) /\ ReviewMatches(call[s].file, call[s].dto)
                                 /\ call[s].file = call[s].dto.file
           /\ RowWritten(s).cover => /\ ~RowWritten(s).deleted
                                     /\ call[s].file \in Covers \/ At(s, "cleared")
           /\ left' \in [{"edits", "saves", "others", "faults"} -> Nat]
<1>1. ASSUME Inserts(s)
      PROVE  /\ Op(s, "upload") /\ Busy(s) /\ End(s) /\ Storing(s)
             /\ ReadyToWrite(s) /\ RowOfKey(call[s].dto.key) = {}
             /\ Commit(s, call[s].file, UploadedRow(call[s].dto))
             /\ left' = left \/ Spend("faults")
    BY <1>1 DEF Inserts, InsertFile, InsertUnacknowledged, Inserting, ReadyToWrite, Storing,
                Op, At, Acknowledged, LoseAcknowledgement
<1>2. ASSUME Crops(s)
      PROVE  /\ Op(s, "variant") /\ Busy(s) /\ End(s) /\ call[s].file \in Live
             /\ Commit(s, call[s].file, WithVariant(call[s].file))
             /\ left' = left \/ Spend("faults")
    BY <1>2 DEF Crops, AddVariant, VariantUnacknowledged, VariantMatches, Mutable, Op, At,
                Acknowledged, LoseAcknowledgement
<1>3. ASSUME UpdateFile(s)
      PROVE  /\ Op(s, "review") /\ Busy(s) /\ End(s) /\ call[s].file \in Live
             /\ ReadyToWrite(s) /\ ReviewMatches(call[s].file, call[s].dto)
             /\ Commit(s, call[s].file, Reviewed(file[call[s].file], call[s].dto)) /\ left' = left
    BY <1>3 DEF UpdateFile, Updating, ReviewMatches, Mutable, Op, At, Acknowledged
<1>4. ASSUME DeleteFile(s)
      PROVE  /\ Op(s, "delete") /\ Busy(s) /\ End(s) /\ call[s].file \in Live
             /\ Commit(s, call[s].file, Deleted(file[call[s].file])) /\ left' = left
    BY <1>4 DEF DeleteFile, Mutable, Op, At, Acknowledged
<1>5. Busy(s) /\ CallIsSound(s) /\ call[s].dto \in Dtos /\ FilesTypeOK
    BY <1>1, <1>2, <1>3, <1>4, CallTypes DEF Commits, FilesIInv, CallsAreSound
<1>6. \A op : Op(s, op) <=> call[s].dto.op = op
    BY <1>5 DEF Op
<1>7. \A f \in Live : f \in Files /\ file[f] \in FileRows /\ ~file[f].deleted
                      /\ (file[f].cover => f \in Covers)
    BY <1>5, RowTypes DEF Live, Covers
<1>8. left' \in [{"edits", "saves", "others", "faults"} -> Nat]
    BY <1>1, <1>2, <1>3, <1>4, <1>5, SpendTypes DEF Commits, FilesTypeOK
<1>9. CASE Inserts(s)
    <2>1. RowWritten(s) = UploadedRow(call[s].dto) /\ call[s].dto.op = "upload"
        BY <1>1, <1>6, <1>9 DEF RowWritten
    <2>2. /\ RowWritten(s) \in FileRows /\ ~RowWritten(s).deleted
          /\ RowWritten(s).cover <=> call[s].dto.cover = "yes"
        BY <1>5, <2>1, UploadedRows DEF CallIsSound
    <2>3. RowWritten(s).cover => At(s, "cleared")
        BY <2>1, <2>2, <1>1, <1>9 DEF ReadyToWrite, ChoosesCover
    <2>4. call[s].file \in Files /\ file[call[s].file] = NoRow
        BY <1>1, <1>5, <1>9 DEF CallIsSound, Files
    <2>5. ~Op(s, "review")
        BY <2>1, <1>6
    <2> QED
        BY <1>1, <1>8, <1>9, <2>1, <2>2, <2>3, <2>4, <2>5
<1>10. CASE Crops(s)
    <2>1. ~Op(s, "upload") /\ ~Op(s, "review") /\ RowWritten(s) = WithVariant(call[s].file) /\ ~Inserts(s)
        BY <1>1, <1>2, <1>6, <1>10 DEF RowWritten
    <2>2. /\ RowWritten(s) \in FileRows /\ RowWritten(s).version = file[call[s].file].version + 1
          /\ RowWritten(s).cover = file[call[s].file].cover /\ ~RowWritten(s).deleted
        <3>1. file[call[s].file] \in FileRows /\ ~file[call[s].file].deleted
            BY <1>2, <1>7, <1>10
        <3>2. RowWritten(s) \in FileRows
            <4>1. WithVariant(call[s].file) \in FileRows
                BY <3>1, <1>5, WrittenRows DEF WithVariant
            <4> QED
                BY <2>1, <4>1
        <3> QED
            BY <2>1, <3>1, <3>2 DEF WithVariant, FileRows
    <2> QED
        BY <1>2, <1>7, <1>8, <1>10, <2>1, <2>2
<1>11. CASE UpdateFile(s)
    <2>1. /\ Op(s, "review") /\ ~Op(s, "upload") /\ ~Inserts(s)
          /\ RowWritten(s) = Reviewed(file[call[s].file], call[s].dto)
        BY <1>1, <1>3, <1>6, <1>11 DEF RowWritten
    <2>2. /\ RowWritten(s) \in FileRows /\ RowWritten(s).version = file[call[s].file].version + 1
          /\ ~RowWritten(s).deleted
          /\ RowWritten(s).cover <=> \/ call[s].dto.cover = "yes"
                                     \/ call[s].dto.cover = AsIs /\ file[call[s].file].cover
        <3> DEFINE row == file[call[s].file]
                   dto == call[s].dto
        <3>1. row \in FileRows /\ ~row.deleted /\ dto \in Dtos
            BY <1>3, <1>5, <1>7, <1>11
        <3>2. /\ Reviewed(row, dto) \in FileRows /\ Reviewed(row, dto).version = row.version + 1
              /\ Reviewed(row, dto).deleted = row.deleted
              /\ Reviewed(row, dto).cover <=> (dto.cover = "yes" \/ (dto.cover = AsIs /\ row.cover))
            <4> HIDE DEF row, dto
            <4> QED
                BY <3>1, WrittenRows, ZenonT(60)
        <3> QED
            BY <2>1, <3>1, <3>2
    <2>3. RowWritten(s).cover => call[s].file \in Covers \/ At(s, "cleared")
        BY <1>3, <1>6, <1>7, <1>11, <2>1, <2>2 DEF ReadyToWrite, ChoosesCover
    <2>4. call[s].file = call[s].dto.file
        BY <1>5, <2>1 DEF CallIsSound, Storing
    <2> QED
        BY <1>3, <1>7, <1>8, <1>11, <2>1, <2>2, <2>3, <2>4
<1>12. CASE DeleteFile(s)
    <2>1. ~Op(s, "upload") /\ ~Op(s, "review") /\ ~Inserts(s) /\ RowWritten(s) = Deleted(file[call[s].file])
        BY <1>1, <1>4, <1>6, <1>12 DEF RowWritten
    <2>2. /\ RowWritten(s) \in FileRows /\ RowWritten(s).version = file[call[s].file].version + 1
          /\ ~RowWritten(s).cover
        <3> DEFINE row == file[call[s].file]
        <3>1. row \in FileRows
            BY <1>4, <1>7, <1>12
        <3>2. Deleted(row) \in FileRows /\ Deleted(row).version = row.version + 1 /\ ~Deleted(row).cover
            <4> HIDE DEF row
            <4> QED
                BY <1>5, <3>1, WrittenRows
        <3> QED
            BY <2>1, <3>2
    <2> QED
        BY <1>4, <1>7, <1>8, <1>12, <2>1, <2>2
<1> QED
    BY <1>9, <1>10, <1>11, <1>12 DEF Commits

\* The objects after a commit: the call's own come and go, and those of which the call was not
\* told are accounted for.
LEMMA CommittedObjects ==
    ASSUME FilesIInv, NEW s \in Slots, Commits(s), NEW f, f = call[s].file
    PROVE  /\ object' \subseteq Files \X {"ORIGINAL", "CROPPED"}
           /\ unacked' \subseteq Files \X {"ORIGINAL", "CROPPED"} /\ unacked \subseteq unacked'
           /\ \A g, k : g # f /\ <<g, k>> \in object => <<g, k>> \in object'
           /\ <<f, "ORIGINAL">> \in object' \cup unacked'
           /\ RowWritten(s).cropped => <<f, "CROPPED">> \in object' \cup unacked'
<1>1. /\ Busy(s) /\ CallIsSound(s) /\ f \in Files /\ RowWritten(s) \in FileRows
      /\ object \subseteq Files \X {"ORIGINAL", "CROPPED"}
      /\ unacked \subseteq Files \X {"ORIGINAL", "CROPPED"}
    BY CommitShape DEF FilesIInv, CallsAreSound, FilesTypeOK
<1>2. \A op : Op(s, op) <=> call[s].dto.op = op
    BY <1>1 DEF Op
<1>3. CASE Op(s, "upload")
    <2>1. Inserts(s) /\ Storing(s) /\ RowWritten(s) = UploadedRow(call[s].dto)
        BY <1>3, CommitShape
    <2>2. <<f, "ORIGINAL">> \in object /\ ~RowWritten(s).cropped
        BY <1>1, <2>1 DEF CallIsSound, UploadedRow
    <2>3. CASE InsertFile(s)
        BY <1>1, <2>2, <2>3 DEF InsertFile, Acknowledged
    <2>4. CASE InsertUnacknowledged(s)
        BY <1>1, <2>2, <2>4 DEF InsertUnacknowledged, Orphan
    <2> QED
        BY <2>1, <2>3, <2>4 DEF Inserts
<1>4. CASE ~Op(s, "upload")
    <2>1. f \in Stored /\ f \in Live /\ ~Inserts(s)
        BY <1>4, CommitShape DEF Live
    <2>2. /\ <<f, "ORIGINAL">> \in object \cup unacked
          /\ file[f].cropped => <<f, "CROPPED">> \in object \cup unacked
        BY <2>1 DEF FilesIInv, FilesKeepTheirObjects
    <2>3. CASE AddVariant(s)
        BY <1>1, <2>2, <2>3 DEF AddVariant, Acknowledged
    <2>4. CASE VariantUnacknowledged(s)
        BY <1>1, <2>2, <2>4 DEF VariantUnacknowledged
    <2>5. CASE UpdateFile(s) \/ DeleteFile(s)
        <3>1. object' = object /\ unacked' = unacked
            BY <2>5 DEF UpdateFile, DeleteFile, Acknowledged
        <3>2. RowWritten(s).cropped = file[f].cropped
            <4>1. file[f] \in FileRows /\ call[s].dto \in Dtos
                BY <1>1, <2>1, RowTypes, CallTypes DEF FilesIInv
            <4>2. /\ Reviewed(file[f], call[s].dto).cropped = file[f].cropped
                  /\ Deleted(file[f]).cropped = file[f].cropped
                BY <4>1, WrittenRows
            <4>3. Op(s, "review") \/ Op(s, "delete")
                BY <2>5 DEF UpdateFile, Updating, DeleteFile
            <4> QED
                BY <1>2, <4>2, <4>3 DEF RowWritten
        <3> QED
            BY <1>1, <2>2, <3>1, <3>2
    <2> QED
        BY <2>1, <2>3, <2>4, <2>5 DEF Commits, Crops
<1> QED
    BY <1>3, <1>4

LEMMA CommitStepsKeepFiles ==
    ASSUME FilesIInv, NEW s \in Slots, Commits(s)
    PROVE  FilesIInv'
<1> DEFINE f == call[s].file
           row == RowWritten(s)
<1>1. /\ Busy(s) /\ End(s) /\ Commit(s, f, row) /\ row \in FileRows
      /\ f \in Live \/ Storing(s)
      /\ row.cover => ~row.deleted /\ (f \in Covers \/ At(s, "cleared"))
      /\ left' \in [{"edits", "saves", "others", "faults"} -> Nat]
    BY CommitShape
<1>2. /\ object' \subseteq Files \X {"ORIGINAL", "CROPPED"}
      /\ unacked' \subseteq Files \X {"ORIGINAL", "CROPPED"} /\ unacked \subseteq unacked'
      /\ \A g, k : g # f /\ <<g, k>> \in object => <<g, k>> \in object'
      /\ <<f, "ORIGINAL">> \in object' \cup unacked'
      /\ row.cropped => <<f, "CROPPED">> \in object' \cup unacked'
    BY CommittedObjects
<1> HIDE DEF row
<1> QED
    BY <1>1, <1>2, CommitsKeepFiles

LEMMA EndsOfCalls ==
    ASSUME NEW s \in Slots, Succeeds(s) \/ Fails(s)
    PROVE  EndsUnwritten(s) \/ Commits(s)
BY DEF Succeeds, Fails, EndsUnwritten, Commits, Inserts, Crops

LEMMA ServerKeepsFiles ==
    ASSUME FilesIInv, NEW s \in Slots, Continues(s) \/ Succeeds(s) \/ Fails(s)
    PROVE  FilesIInv'
BY ContinuesKeepsFiles, UnwrittenEndsKeepFiles, CommitStepsKeepFiles, EndsOfCalls

-----------------------------------------------------------------------------
(* The files to start with *)

LEMMA FilesStart ==
    ASSUME FilesInit
    PROVE  FilesIInv
<1>1. PICK lot \in InitialLots :
         /\ file = [f \in Files |-> IF f \in lot.files THEN OldRow(f \in lot.covers) ELSE NoRow]
         /\ object = lot.files \X {"ORIGINAL", "CROPPED"}
         /\ overlapped = (Cardinality(lot.covers) > 1)
    BY DEF FilesInit
<1>2. /\ lot.files \subseteq Files /\ lot.covers \subseteq lot.files
      /\ Cardinality(lot.files) <= Limit
    BY <1>1, LotFilesAssumption DEF Files
<1>3. ASSUME NEW c \in BOOLEAN
      PROVE  /\ OldRow(c) \in FileRows /\ OldRow(c).cover = c
             /\ ~OldRow(c).deleted
    <2> DEFINE caption == CHOOSE x \in Captions : TRUE
    <2>1. caption \in Captions
        BY LotFilesAssumption
    <2> HIDE DEF caption
    <2>2. OldRow(c) = [caption |-> caption, cover |-> c, deleted |-> FALSE, confirmed |-> TRUE,
                       cropped |-> TRUE, version |-> 1, key |-> NoKey,
                       request |-> [caption |-> caption, cover |-> c]]
        BY DEF OldRow, caption
    <2> QED
        BY <2>1, <2>2 DEF FileRows, Requests
<1>4. /\ file \in [Files -> FileRows \cup {NoRow}]
      /\ Stored = lot.files /\ Live = lot.files /\ Covers = lot.covers
    <2>1. \A f \in lot.files : file[f] = OldRow(f \in lot.covers)
        BY <1>1, <1>2
    <2>2. \A f \in Files \ lot.files : file[f] = NoRow
        BY <1>1
    <2>3. \A f \in lot.files : /\ file[f] \in FileRows /\ file[f] # NoRow /\ ~file[f].deleted
                               /\ (file[f].cover <=> f \in lot.covers)
        <3> TAKE f \in lot.files
        <3> DEFINE c == f \in lot.covers
        <3>1. file[f] = OldRow(c) /\ c \in BOOLEAN
            BY <2>1
        <3>2. OldRow(c) \in FileRows /\ OldRow(c).cover = c /\ ~OldRow(c).deleted
            BY <1>3, <3>1
        <3> QED
            BY <3>1, <3>2, LotFilesAssumption
    <2> QED
        BY <1>1, <1>2, <2>2, <2>3 DEF Stored, Live, Covers
<1>5. \A s \in Slots : ~Busy(s)
    BY DEF FilesInit, Busy
<1>6. FilesTypeOK
    BY <1>1, <1>2, <1>4, LotFilesAssumption DEF FilesInit, FilesTypeOK
<1>7. CoversAreLive /\ FilesKeepTheirObjects
    BY <1>1, <1>2, <1>4 DEF CoversAreLive, FilesKeepTheirObjects
<1>8. CallsAreSound /\ UploadsAreApart /\ Admitted = {}
    BY <1>5 DEF CallsAreSound, UploadsAreApart, Storing, Admitted, Op
<1>9. CoversAreChosenInTurn
    <2>1. IsFiniteSet(lot.covers)
        BY <1>4, FilesAreFinite
    <2>2. ASSUME ~overlapped, NEW f \in lot.covers, NEW g \in lot.covers PROVE f = g
        <3>1. Cardinality(lot.covers) <= 1 /\ Cardinality(lot.covers) \in Nat
            <4>1. ~(Cardinality(lot.covers) > 1)
                BY <1>1, <2>2
            <4> QED
                BY <2>1, <4>1, FS_CardinalityType
        <3>2. Cardinality(lot.covers) # 0
            BY <2>1, FS_EmptySet
        <3>3. \E x : lot.covers = {x}
            <4>1. Cardinality(lot.covers) = 1
                BY <3>1, <3>2
            <4> QED
                BY <2>1, <4>1, FS_Singleton
        <3> QED
            BY <3>3
    <2> QED
        BY <1>4, <1>5, <2>2 DEF CoversAreChosenInTurn, Clearing, At
<1>10. AdmittedFit
    <2>1. Cardinality(Slots) \in Nat /\ Cardinality(Slots) # 0
        BY LotFilesAssumption, FS_CardinalityType, FS_EmptySet
    <2>2. Cardinality(Live) \in Nat /\ Limit \in Nat
        BY FilesAreFinite, FS_CardinalityType, LotFilesAssumption
    <2> QED
        BY <1>2, <1>4, <1>8, <2>1, <2>2, FS_EmptySet DEF AdmittedFit
<1> QED
    BY <1>6, <1>7, <1>8, <1>9, <1>10 DEF FilesIInv

-----------------------------------------------------------------------------
(* The form *)

FormTypes ==
    /\ base \in [DOMAIN base -> Shown] /\ DOMAIN base \subseteq Files
    /\ photos \in [DOMAIN photos -> Shown] /\ DOMAIN photos \subseteq DOMAIN base
    /\ picks \in [DOMAIN picks -> Requests] /\ DOMAIN picks \subseteq Keys
    /\ deleted \subseteq Files

QueueTypes ==
    /\ todo \in Seq(Dtos)
    /\ slot \in Slots \cup {NoSlot} /\ (slot # NoSlot => Busy(slot))
    /\ phase \in {"editing", "saving", "saved"}
    /\ phase # "saving" => todo = <<>> /\ slot = NoSlot
    /\ disturbed \in BOOLEAN

LEMMA EditorTypes == TypeOK <=> FilesTypeOK /\ FormTypes /\ QueueTypes
<1>1. (\E S \in SUBSET Files : base \in [S -> Shown])
      <=> base \in [DOMAIN base -> Shown] /\ DOMAIN base \subseteq Files
    <2>1. ASSUME NEW S \in SUBSET Files, base \in [S -> Shown] PROVE DOMAIN base = S
        BY <2>1
    <2> QED
        BY <2>1
<1>2. (\E S \in SUBSET DOMAIN base : photos \in [S -> Shown])
      <=> photos \in [DOMAIN photos -> Shown] /\ DOMAIN photos \subseteq DOMAIN base
    <2>1. ASSUME NEW S \in SUBSET DOMAIN base, photos \in [S -> Shown] PROVE DOMAIN photos = S
        BY <2>1
    <2> QED
        BY <2>1
<1>3. (\E S \in SUBSET Keys : picks \in [S -> Requests])
      <=> picks \in [DOMAIN picks -> Requests] /\ DOMAIN picks \subseteq Keys
    <2>1. ASSUME NEW S \in SUBSET Keys, picks \in [S -> Requests] PROVE DOMAIN picks = S
        BY <2>1
    <2> QED
        BY <2>1
<1>4. TypeOK <=> /\ FilesTypeOK
                 /\ \E S \in SUBSET Files : base \in [S -> Shown]
                 /\ \E S \in SUBSET DOMAIN base : photos \in [S -> Shown]
                 /\ \E S \in SUBSET Keys : picks \in [S -> Requests]
                 /\ deleted \subseteq Files
                 /\ QueueTypes
    BY DEF TypeOK, QueueTypes
<1> QED
    BY <1>1, <1>2, <1>3, <1>4 DEF FormTypes

\* Files stay, a version has one caption, and what is deleted stays so.
FilesMoveOn ==
    /\ Stored \subseteq Stored'
    /\ \A f \in Stored :
         /\ file[f].version <= file'[f].version
         /\ file[f].version = file'[f].version => file[f].caption = file'[f].caption
         /\ f \in Live' => f \in Live

LEMMA FilesThatStayMoveOn ==
    ASSUME FilesTypeOK, file' = file
    PROVE  FilesMoveOn
<1>1. Stored' = Stored /\ Live' = Live
    BY DEF Stored, Live
<1>2. \A f \in Stored : file[f].version \in Nat
    BY RowTypes DEF FileRows
<1> QED
    BY <1>1, <1>2 DEF FilesMoveOn

LEMMA CommitsMoveOn ==
    ASSUME FilesIInv, NEW s \in Slots, Commits(s)
    PROVE  FilesMoveOn
<1> DEFINE f == call[s].file
           row == RowWritten(s)
<1>1. /\ FilesTypeOK /\ CallsAreSound /\ Busy(s) /\ f \in Files /\ row \in FileRows
      /\ Commit(s, f, row)
      /\ f \in Stored => f \in Live /\ row.version = file[f].version + 1
    BY CommitShape DEF FilesIInv, Stored
<1> HIDE DEF f, row
<1>2. /\ Stored' = Stored \cup {f}
      /\ Live' = (Live \ {f}) \cup (IF row.deleted THEN {} ELSE {f})
    BY <1>1, CommitSets
<1>3. /\ file'[f] = row
      /\ \A g \in Stored \ {f} : file'[g].version = file[g].version /\ file'[g].caption = file[g].caption
    BY <1>1, CommitEffect, RowTypes
<1>4. \A g \in Stored : file[g].version \in Nat
    BY <1>1, RowTypes DEF FileRows
<1>5. ASSUME NEW g \in Stored
      PROVE  /\ file[g].version <= file'[g].version
             /\ file[g].version = file'[g].version => file[g].caption = file'[g].caption
             /\ g \in Live' => g \in Live
    <2>1. CASE g = f
        BY <1>1, <1>3, <1>4, <2>1
    <2>2. CASE g # f
        BY <1>2, <1>3, <1>4, <2>2
    <2> QED
        BY <2>1, <2>2
<1> QED
    BY <1>2, <1>5 DEF FilesMoveOn

\* A call goes on, ends with a commit or ends without.
LEMMA ServerMovesOn ==
    ASSUME FilesIInv, NEW s \in Slots, Continues(s) \/ Succeeds(s) \/ Fails(s)
    PROVE  FilesMoveOn /\ (~Commits(s) => file' = file)
<1>1. Continues(s) => file' = file
    BY DEF Continues, CheckUpload, PutOriginal, StartClearing, FinishClearing, ReadForVariant,
           ReadForReview, ReadForDelete, GoOn
<1>2. EndsUnwritten(s) => file' = file
    BY UnwrittenEnd DEF FilesIInv
<1> QED
    BY <1>1, <1>2, EndsOfCalls, CommitsMoveOn, FilesThatStayMoveOn DEF FilesIInv

\* The invariant, by what each step disturbs: the files, the form, the requests to send.
FormPart ==
    FormTypes /\ DOMAIN base \subseteq Stored /\ deleted \subseteq Stored /\ FormIsOfTheListing

QueuePart ==
    /\ QueueTypes /\ todo \in Seq(Sendable)
    /\ slot # NoSlot => todo # <<>> /\ call[slot].dto = Head(todo)
    /\ VariantsAreConfirmed
    /\ \A i \in 1..Len(todo) : IsOfTheListing(todo[i])

LEMMA Parts == EditorIInv <=> FilesIInv /\ FormPart /\ QueuePart
BY EditorTypes DEF EditorIInv, EditorIsSound, ReviewsAreOfTheListing, FormPart, QueuePart, FilesIInv

LEMMA NextParts == ASSUME FilesIInv', FormPart', QueuePart' PROVE EditorIInv'
BY Parts, PTL

LEMMA ListingTypes ==
    ASSUME FilesTypeOK
    PROVE  /\ Listing \in [Live -> Shown] /\ DOMAIN Listing = Live
           /\ Live \subseteq Stored /\ Live \subseteq Files
           /\ \A f \in Live : /\ Listing[f].caption = file[f].caption
                              /\ Listing[f].version = file[f].version
                              /\ file[f].version \in Nat
<1>1. Live \subseteq Stored /\ Live \subseteq Files
    BY DEF Live, Stored
<1>2. \A f \in Live : file[f] \in FileRows
    BY RowTypes
<1>3. \A f \in Live : [caption |-> file[f].caption, cover |-> file[f].cover,
                       version |-> file[f].version] \in Shown
    BY <1>2 DEF FileRows, Shown
<1> QED
    BY <1>1, <1>2, <1>3 DEF Listing, FileRows

\* What was made from the listing still is when files move on.
LEMMA RequestsStayOfTheListing ==
    ASSUME FilesTypeOK, FilesTypeOK', FilesMoveOn, base' = base,
           NEW dto \in Sendable, IsOfTheListing(dto)
    PROVE  IsOfTheListing(dto)'
<1> SUFFICES ASSUME Unconfirmed(dto)
             PROVE  /\ dto.version <= file'[dto.file].version
                    /\ dto.file \in Live' /\ dto.version = file'[dto.file].version =>
                          dto.file \in DOMAIN base /\ base[dto.file].caption = file'[dto.file].caption
    BY DEF IsOfTheListing, Unconfirmed
<1> DEFINE f == dto.file
<1>1. f \in Stored /\ dto.version \in Nat
    BY DEF Sendable, Unconfirmed, Dtos
<1>2. /\ dto.version <= file[f].version
      /\ f \in Live /\ dto.version = file[f].version =>
            f \in DOMAIN base /\ base[f].caption = file[f].caption
    BY DEF IsOfTheListing
<1>3. /\ file[f].version <= file'[f].version
      /\ file[f].version = file'[f].version => file[f].caption = file'[f].caption
      /\ f \in Live' => f \in Live
    BY <1>1 DEF FilesMoveOn
<1>4. file[f].version \in Nat /\ file'[f].version \in Nat
    <2>1. f \in Stored' /\ file[f] \in FileRows /\ f \in Files
        BY <1>1, RowTypes DEF FilesMoveOn
    <2>2. file'[f] \in FileRows
        BY <2>1 DEF FilesTypeOK, Stored
    <2> QED
        BY <2>1, <2>2 DEF FileRows
<1> HIDE DEF f
<1>5. /\ dto.version <= file'[f].version
      /\ f \in Live' /\ dto.version = file'[f].version =>
            f \in DOMAIN base /\ base[f].caption = file'[f].caption
    BY <1>1, <1>2, <1>3, <1>4
<1> QED
    BY <1>5 DEF f

LEMMA SendableStays ==
    ASSUME FilesMoveOn, picks' = picks
    PROVE  Sendable \subseteq Sendable'
BY DEF FilesMoveOn, Sendable

LEMMA FormIsKept ==
    ASSUME FilesTypeOK, FilesTypeOK', FormPart, FilesMoveOn, UNCHANGED editVars
    PROVE  FormPart'
<1>1. base' = base /\ photos' = photos /\ picks' = picks /\ deleted' = deleted
    BY DEF editVars
<1>2. FormTypes' /\ DOMAIN base' \subseteq Stored' /\ deleted' \subseteq Stored'
    BY <1>1 DEF FormPart, FormTypes, FilesMoveOn
<1>3. ASSUME NEW f \in DOMAIN base
      PROVE  /\ base[f].version <= file'[f].version
             /\ base[f].version = file'[f].version => base[f].caption = file'[f].caption
             /\ f \in DOMAIN photos => photos[f].version = base[f].version
    <2>1. f \in Stored /\ base[f] \in Shown
        BY DEF FormPart, FormTypes
    <2>2. /\ base[f].version <= file[f].version
          /\ base[f].version = file[f].version => base[f].caption = file[f].caption
          /\ f \in DOMAIN photos => photos[f].version = base[f].version
        BY DEF FormPart, FormIsOfTheListing
    <2>3. /\ file[f].version <= file'[f].version
          /\ file[f].version = file'[f].version => file[f].caption = file'[f].caption
        BY <2>1 DEF FilesMoveOn
    <2>4. file[f].version \in Nat /\ file'[f].version \in Nat /\ base[f].version \in Nat
        <3>1. f \in Stored' /\ file[f] \in FileRows /\ f \in Files
            BY <2>1, RowTypes DEF FilesMoveOn
        <3>2. file'[f] \in FileRows
            BY <3>1 DEF FilesTypeOK, Stored
        <3> QED
            BY <2>1, <3>1, <3>2 DEF FileRows, Shown
    <2> QED
        BY <2>2, <2>3, <2>4
<1>4. FormIsOfTheListing'
    BY <1>1, <1>3 DEF FormIsOfTheListing
<1> QED
    BY <1>2, <1>4 DEF FormPart

LEMMA QueueIsEmpty ==
    ASSUME todo' = <<>>, slot' = NoSlot, phase' \in {"editing", "saving", "saved"},
           disturbed' \in BOOLEAN
    PROVE  QueuePart'
<1>1. Len(todo') = 0 /\ \A S : todo' \in Seq(S)
    OBVIOUS
<1> QED
    BY <1>1 DEF QueuePart, QueueTypes, VariantsAreConfirmed

\* The requests to send stay as they are, and so does the one that is being answered.
LEMMA QueueIsKept ==
    ASSUME FilesTypeOK, FilesTypeOK', QueuePart, FilesMoveOn, base' = base, picks' = picks,
           UNCHANGED <<todo, slot, phase>>, disturbed' \in BOOLEAN,
           slot # NoSlot => Busy(slot)' /\ call'[slot].dto = call[slot].dto
    PROVE  QueuePart'
<1>1. QueueTypes'
    BY DEF QueuePart, QueueTypes
<1>2. todo' \in Seq(Sendable')
    BY SendableStays, SeqMonotonic DEF QueuePart
<1>3. slot' # NoSlot => todo' # <<>> /\ call'[slot'].dto = Head(todo')
    BY DEF QueuePart
<1>4. VariantsAreConfirmed'
    BY DEF QueuePart, VariantsAreConfirmed
<1>5. \A i \in 1..Len(todo) : IsOfTheListing(todo[i])'
    <2> TAKE i \in 1..Len(todo)
    <2>1. PICK dto : dto = todo[i]
        OBVIOUS
    <2>2. dto \in Sendable /\ IsOfTheListing(dto) /\ todo'[i] = dto
        BY <2>1, ElementOfSeq DEF QueuePart, IsOfTheListing, Unconfirmed
    <2>3. IsOfTheListing(dto)'
        BY <2>2, RequestsStayOfTheListing
    <2> QED
        BY <2>2, <2>3 DEF IsOfTheListing, Unconfirmed
<1> QED
    BY <1>1, <1>2, <1>3, <1>4, <1>5 DEF QueuePart

\* The user's edits: photos keep the version they were listed with, and nothing is being sent.
LEMMA EditsKeepAll ==
    ASSUME EditorIInv, Edit,
           photos' \in [DOMAIN photos' -> Shown], DOMAIN photos' \subseteq DOMAIN photos,
           \A f \in DOMAIN photos' : photos'[f].version = photos[f].version,
           picks' \in [DOMAIN picks' -> Requests], DOMAIN picks' \subseteq Keys,
           deleted' \subseteq deleted \cup DOMAIN photos
    PROVE  EditorIInv'
<1>1. FilesIInv /\ FilesTypeOK /\ FormPart /\ QueuePart
    BY Parts DEF FilesIInv
<1>2. /\ phase = "editing" /\ Spend("edits") /\ file' = file /\ base' = base
      /\ UNCHANGED <<object, call, ghosts, held>> /\ UNCHANGED <<todo, slot, phase>>
      /\ disturbed' = (disturbed \/ base # Listing)
    BY DEF Edit, tables
<1>3. FilesIInv'
    <2>1. left' \in [{"edits", "saves", "others", "faults"} -> Nat] /\ held' \in BOOLEAN
        BY <1>1, <1>2, SpendTypes DEF FilesTypeOK
    <2> QED
        BY <1>1, <1>2, <2>1, ClientsKeepFiles
<1>4. QueuePart'
    <2>1. todo' = <<>> /\ slot' = NoSlot /\ phase' = "editing" /\ disturbed' \in BOOLEAN
        BY <1>1, <1>2 DEF QueuePart, QueueTypes
    <2> QED
        BY <2>1, QueueIsEmpty
<1>5. FormPart'
    <2>1. Stored' = Stored
        BY <1>2 DEF Stored
    <2>2. FormTypes'
        BY <1>1, <1>2 DEF FormPart, FormTypes
    <2>3. DOMAIN base' \subseteq Stored' /\ deleted' \subseteq Stored'
        BY <1>1, <1>2, <2>1 DEF FormPart, FormTypes
    <2>4. FormIsOfTheListing'
        BY <1>1, <1>2 DEF FormPart, FormTypes, FormIsOfTheListing
    <2> QED
        BY <2>2, <2>3, <2>4 DEF FormPart
<1> QED
    BY <1>3, <1>4, <1>5, NextParts

LEMMA UserKeepsAll ==
    ASSUME EditorIInv,
           \/ \E f \in Files, c \in Captions : EditCaption(f, c)
           \/ \E k \in Keys, c \in Captions : EditPick(k, c) \/ AddFile(k, c)
           \/ \E x \in Files \cup Keys : SelectCover(x)
           \/ \E f \in Files : RemoveExisting(f)
           \/ \E k \in Keys : RemoveNew(k)
    PROVE  EditorIInv'
<1>1. /\ photos \in [DOMAIN photos -> Shown] /\ picks \in [DOMAIN picks -> Requests]
      /\ DOMAIN picks \subseteq Keys /\ DOMAIN photos \subseteq Files
    BY EditorTypes DEF EditorIInv, FormTypes
<1>2. \A f \in DOMAIN photos : photos[f] \in Shown
    BY <1>1
<1>3. \A k \in DOMAIN picks : picks[k] \in Requests
    BY <1>1
<1>4. CASE \E f \in Files, c \in Captions : EditCaption(f, c)
    <2>1. PICK f \in Files, c \in Captions : EditCaption(f, c)
        BY <1>4
    <2>2. /\ Edit /\ f \in DOMAIN photos /\ photos' = [photos EXCEPT ![f].caption = c]
          /\ picks' = picks /\ deleted' = deleted
        BY <2>1 DEF EditCaption
    <2>3. [photos[f] EXCEPT !.caption = c] \in Shown
        BY <1>2, <2>2 DEF Shown
    <2>4. [photos[f] EXCEPT !.caption = c].version = photos[f].version
        BY <1>2, <2>2 DEF Shown
    <2>5. /\ photos' \in [DOMAIN photos -> Shown] /\ DOMAIN photos' = DOMAIN photos
          /\ \A g \in DOMAIN photos : photos'[g].version = photos[g].version
        BY <1>1, <1>2, <2>2, <2>3, <2>4
    <2> QED
        BY <1>1, <2>2, <2>5, EditsKeepAll
<1>5. CASE \E k \in Keys, c \in Captions : EditPick(k, c) \/ AddFile(k, c)
    <2>1. PICK k \in Keys, c \in Captions : EditPick(k, c) \/ AddFile(k, c)
        BY <1>5
    <2>2. Edit /\ photos' = photos /\ deleted' = deleted
        BY <2>1 DEF EditPick, AddFile
    <2>3. CASE EditPick(k, c)
        <3>1. k \in DOMAIN picks /\ picks' = [picks EXCEPT ![k].caption = c]
            BY <2>3 DEF EditPick
        <3>2. [picks[k] EXCEPT !.caption = c] \in Requests
            BY <1>3, <3>1 DEF Requests
        <3>3. picks' \in [DOMAIN picks -> Requests] /\ DOMAIN picks' = DOMAIN picks
            BY <1>1, <1>3, <3>1, <3>2
        <3> QED
            BY <1>1, <2>2, <3>3, EditsKeepAll
    <2>4. CASE AddFile(k, c)
        <3> DEFINE pick == [caption |-> c, cover |-> NoCoverYet /\ DOMAIN picks = {}]
        <3>1. picks' = [j \in DOMAIN picks \cup {k} |-> IF j = k THEN pick ELSE picks[j]]
            BY <2>4 DEF AddFile
        <3>2. pick \in Requests
            BY DEF Requests
        <3> HIDE DEF pick
        <3>3. /\ DOMAIN picks' = DOMAIN picks \cup {k}
              /\ \A j \in DOMAIN picks \cup {k} : picks'[j] \in Requests
            BY <1>3, <3>1, <3>2
        <3>4. picks' \in [DOMAIN picks' -> Requests] /\ DOMAIN picks' \subseteq Keys
            BY <1>1, <3>1, <3>3
        <3> QED
            BY <1>1, <2>2, <3>4, EditsKeepAll
    <2> QED
        BY <2>1, <2>3, <2>4
<1>6. CASE \E x \in Files \cup Keys : SelectCover(x)
    <2>1. PICK x \in Files \cup Keys : SelectCover(x)
        BY <1>6
    <2>2. /\ Edit /\ deleted' = deleted
          /\ photos' = [f \in DOMAIN photos |-> [photos[f] EXCEPT !.cover = f = x]]
          /\ picks' = [k \in DOMAIN picks |-> [picks[k] EXCEPT !.cover = k = x]]
        BY <2>1 DEF SelectCover
    <2>3. ASSUME NEW f \in DOMAIN photos
          PROVE  /\ [photos[f] EXCEPT !.cover = f = x] \in Shown
                 /\ [photos[f] EXCEPT !.cover = f = x].version = photos[f].version
        BY <1>2 DEF Shown
    <2>4. ASSUME NEW k \in DOMAIN picks PROVE [picks[k] EXCEPT !.cover = k = x] \in Requests
        BY <1>3 DEF Requests
    <2>5. /\ photos' \in [DOMAIN photos -> Shown] /\ DOMAIN photos' = DOMAIN photos
          /\ \A g \in DOMAIN photos : photos'[g].version = photos[g].version
        BY <2>2, <2>3
    <2>6. picks' \in [DOMAIN picks -> Requests] /\ DOMAIN picks' = DOMAIN picks
        BY <2>2, <2>4
    <2> QED
        BY <1>1, <2>2, <2>5, <2>6, EditsKeepAll
<1>7. CASE \E f \in Files : RemoveExisting(f)
    <2>1. PICK f \in Files : RemoveExisting(f)
        BY <1>7
    <2>2. /\ Edit /\ deleted' = deleted \cup {f} /\ f \in DOMAIN photos /\ picks' = picks
          /\ photos' = [g \in DOMAIN photos \ {f} |-> photos[g]]
        BY <2>1 DEF RemoveExisting
    <2>3. /\ photos' \in [DOMAIN photos' -> Shown] /\ DOMAIN photos' \subseteq DOMAIN photos
          /\ \A g \in DOMAIN photos' : photos'[g].version = photos[g].version
        BY <1>2, <2>2
    <2> QED
        BY <1>1, <2>2, <2>3, EditsKeepAll
<1>8. CASE \E k \in Keys : RemoveNew(k)
    <2>1. PICK k \in Keys : RemoveNew(k)
        BY <1>8
    <2>2. /\ Edit /\ deleted' = deleted /\ photos' = photos
          /\ picks' = [j \in DOMAIN picks \ {k} |-> picks[j]]
        BY <2>1 DEF RemoveNew
    <2>3. picks' \in [DOMAIN picks' -> Requests] /\ DOMAIN picks' \subseteq Keys
        BY <1>1, <1>3, <2>2
    <2> QED
        BY <1>1, <2>2, <2>3, EditsKeepAll
<1> QED
    BY <1>4, <1>5, <1>6, <1>7, <1>8

\* A listing that is fetched again is what the form is made from, and it still is what the
\* reviews on their way would replace.
LEMMA RefetchKeepsAll ==
    ASSUME EditorIInv, Refetch
    PROVE  EditorIInv'
<1>1. FilesIInv /\ FilesTypeOK /\ FormPart /\ QueuePart
    BY Parts DEF FilesIInv
<1>2. /\ base' = Listing /\ photos' = Listing /\ disturbed' \in BOOLEAN
      /\ UNCHANGED <<file, object, held, call, ghosts, left, picks, deleted, todo, slot, phase>>
    BY DEF Refetch, filesVars, tables
<1>3. FilesIInv'
    BY <1>1, <1>2, ClientsKeepFiles DEF FilesTypeOK
<1>4. Stored' = Stored /\ Live' = Live /\ FilesTypeOK'
    BY <1>2, <1>3 DEF Stored, Live, FilesIInv
<1>5. FormPart'
    <2>1. FormTypes' /\ DOMAIN base' \subseteq Stored' /\ deleted' \subseteq Stored'
        BY <1>1, <1>2, <1>4, ListingTypes DEF FormPart, FormTypes
    <2>2. FormIsOfTheListing'
        BY <1>1, <1>2, <1>4, ListingTypes DEF FormIsOfTheListing
    <2> QED
        BY <2>1, <2>2 DEF FormPart
<1>6. QueuePart'
    <2>1. QueueTypes'
        BY <1>1, <1>2 DEF QueuePart, QueueTypes, Busy
    <2>2. Sendable' = Sendable
        BY <1>2, <1>4 DEF Sendable
    <2>3. todo' \in Seq(Sendable') /\ VariantsAreConfirmed'
        BY <1>1, <1>2, <2>2 DEF QueuePart, VariantsAreConfirmed
    <2>4. \A i \in 1..Len(todo) : IsOfTheListing(todo[i])'
        <3> SUFFICES ASSUME NEW i \in 1..Len(todo), NEW dto, dto = todo[i], Unconfirmed(dto)
                     PROVE  /\ dto.version <= file'[dto.file].version
                            /\ dto.file \in Live' /\ dto.version = file'[dto.file].version =>
                                  /\ dto.file \in DOMAIN base'
                                  /\ base'[dto.file].caption = file'[dto.file].caption
            BY <1>2 DEF IsOfTheListing, Unconfirmed
        <3>1. dto.version <= file[dto.file].version
            BY <1>1 DEF QueuePart, IsOfTheListing
        <3> QED
            BY <1>1, <1>2, <1>4, <3>1, ListingTypes
    <2>5. slot' # NoSlot => todo' # <<>> /\ call'[slot'].dto = Head(todo')
        BY <1>1, <1>2 DEF QueuePart
    <2> QED
        BY <1>2, <2>1, <2>3, <2>4, <2>5 DEF QueuePart
<1> QED
    BY <1>3, <1>5, <1>6, NextParts

-----------------------------------------------------------------------------
(* A save *)

LEMMA RequestTypes ==
    ASSUME NEW op \in {"variant", "review", "delete"}, NEW f \in Files
    PROVE  /\ Request(op, f) \in Dtos /\ WellFormed(Request(op, f))
           /\ Request(op, f).op = op /\ Request(op, f).file = f
BY DEF Request, Dtos, WellFormed

LEMMA ReviewTypes ==
    ASSUME FormTypes, NEW f \in DOMAIN photos
    PROVE  /\ ReviewOf(f) \in Dtos /\ WellFormed(ReviewOf(f))
           /\ ReviewOf(f).op = "review" /\ ReviewOf(f).file = f
           /\ ReviewOf(f).version = photos[f].version /\ ~ReviewOf(f).confirm
<1>1. f \in Files /\ photos[f] \in Shown /\ photos[f].caption \in Captions /\ photos[f].version \in Nat
    BY DEF FormTypes, Shown
<1> DEFINE caption == IF photos[f].caption # base[f].caption THEN photos[f].caption ELSE AsIs
           cover == IF photos[f].cover # base[f].cover THEN CoverAs(photos[f].cover) ELSE AsIs
<1>2. caption \in Captions \cup {AsIs} /\ cover \in {"yes", "no", AsIs}
    BY <1>1 DEF CoverAs
<1>3. ReviewOf(f) = [Request("review", f) EXCEPT !.version = photos[f].version,
                                                 !.caption = caption, !.cover = cover]
    BY DEF ReviewOf
<1> HIDE DEF caption, cover
<1>4. ReviewOf(f) = [op |-> "review", file |-> f, key |-> NoKey, version |-> photos[f].version,
                     caption |-> caption, cover |-> cover, confirm |-> FALSE]
    BY <1>3 DEF Request
<1> QED
    BY <1>1, <1>2, <1>4 DEF Dtos, WellFormed

LEMMA UploadTypes ==
    ASSUME FormTypes, NEW k \in DOMAIN picks
    PROVE  /\ UploadOf(k) \in Dtos /\ WellFormed(UploadOf(k))
           /\ UploadOf(k).op = "upload" /\ UploadOf(k).key = k
<1>1. k \in Keys /\ picks[k] \in Requests /\ picks[k].caption \in Captions
    BY DEF FormTypes, Requests
<1> DEFINE cover == CoverAs(picks[k].cover)
           caption == picks[k].caption
<1>2. cover \in {"yes", "no", AsIs} /\ caption \in Captions
    BY <1>1 DEF CoverAs
<1>3. UploadOf(k) = [Request("upload", NoFile) EXCEPT !.key = k, !.caption = caption, !.cover = cover]
    BY DEF UploadOf
<1> HIDE DEF caption, cover
<1>4. UploadOf(k) = [op |-> "upload", file |-> NoFile, key |-> k, version |-> 0,
                     caption |-> caption, cover |-> cover, confirm |-> FALSE]
    BY <1>3 DEF Request
<1> QED
    BY <1>1, <1>2, <1>4 DEF Dtos, WellFormed

LEMMA ConcatenationsOf ==
    ASSUME NEW S, NEW p \in Seq(S), NEW q \in Seq(S)
    PROVE  /\ p \o q \in Seq(S) /\ Len(p \o q) = Len(p) + Len(q)
           /\ Len(p) \in Nat /\ Len(q) \in Nat
           /\ \A i \in 1..Len(p) : (p \o q)[i] = p[i]
           /\ \A i \in 1..Len(q) : (p \o q)[Len(p) + i] = q[i]
           /\ \A i \in 1..(Len(p) + Len(q)) : i \in 1..Len(p) \/ \E j \in 1..Len(q) : i = Len(p) + j
<1>1. Len(p) \in Nat /\ Len(q) \in Nat
    BY LenProperties
<1>2. \A i \in 1..(Len(p) + Len(q)) : i \in 1..Len(p) \/ \E j \in 1..Len(q) : i = Len(p) + j
    <2> SUFFICES ASSUME NEW i \in 1..(Len(p) + Len(q)), i > Len(p)
                 PROVE  \E j \in 1..Len(q) : i = Len(p) + j
        BY <1>1
    <2>1. i - Len(p) \in 1..Len(q) /\ i = Len(p) + (i - Len(p))
        BY <1>1
    <2> QED
        BY <2>1
<1>3. /\ \A i \in 1..Len(p) : (p \o q)[i] = p[i]
      /\ \A i \in 1..Len(q) : (p \o q)[Len(p) + i] = q[i]
    BY <1>1, ConcatProperties
<1> QED
    BY <1>1, <1>2, <1>3, ConcatProperties

LEMMA SequencesOfSets ==
    ASSUME NEW S, NEW T \in SUBSET S, IsFiniteSet(T)
    PROVE  SetToSeq(T) \in Seq(S)
BY SetsToSequences, SeqMonotonic

\* A request of a save is of a file that is there or of a pick; a review of it carries the
\* version and the caption of the listing.
SavedRequests == {dto \in Sendable : IsOfTheListing(dto) /\ dto.op # "variant"}

LEMMA SaveSetsAreFinite ==
    ASSUME FormTypes
    PROVE  /\ IsFiniteSet({Request("delete", f) : f \in deleted}) /\ IsFiniteSet(Reviews)
           /\ IsFiniteSet({UploadOf(k) : k \in DOMAIN picks})
<1>1. IsFiniteSet(deleted) /\ IsFiniteSet(DOMAIN photos) /\ IsFiniteSet(DOMAIN picks)
    <2>1. deleted \in SUBSET Files /\ DOMAIN photos \in SUBSET Files /\ DOMAIN picks \in SUBSET Keys
        BY DEF FormTypes
    <2> QED
        BY <2>1, FilesAreFinite, FS_Subset, LotFilesAssumption
<1>2. ASSUME NEW g, IsFiniteSet(DOMAIN g) PROVE IsFiniteSet({g[x] : x \in DOMAIN g})
    <2>1. PICK I : I = {g[x] : x \in DOMAIN g}
        OBVIOUS
    <2>2. \A y \in I : \E x \in DOMAIN g : y = g[x]
        BY <2>1
    <2> QED
        BY <1>2, <2>1, <2>2, ImagesAreFinite
<1>3. IsFiniteSet({Request("delete", f) : f \in deleted})
    <2>1. PICK g : g = [f \in deleted |-> Request("delete", f)]
        OBVIOUS
    <2>2. DOMAIN g = deleted /\ {g[x] : x \in DOMAIN g} = {Request("delete", f) : f \in deleted}
        BY <2>1
    <2> QED
        BY <1>1, <1>2, <2>2
<1>4. IsFiniteSet(Reviews)
    <2>1. PICK g : g = [f \in DOMAIN photos |-> ReviewOf(f)]
        OBVIOUS
    <2>2. PICK I : I = {g[x] : x \in DOMAIN g}
        OBVIOUS
    <2>3. DOMAIN g = DOMAIN photos /\ Reviews \in SUBSET I
        BY <2>1, <2>2 DEF Reviews
    <2>4. IsFiniteSet(I)
        BY <1>1, <1>2, <2>2, <2>3
    <2> QED
        BY <2>3, <2>4, FS_Subset
<1>5. IsFiniteSet({UploadOf(k) : k \in DOMAIN picks})
    <2>1. PICK g : g = [k \in DOMAIN picks |-> UploadOf(k)]
        OBVIOUS
    <2>2. DOMAIN g = DOMAIN picks /\ {g[x] : x \in DOMAIN g} = {UploadOf(k) : k \in DOMAIN picks}
        BY <2>1
    <2> QED
        BY <1>1, <1>2, <2>2
<1> QED
    BY <1>3, <1>4, <1>5

LEMMA SaveRequestsTypes ==
    ASSUME FilesTypeOK, FormPart
    PROVE  SaveRequests \in Seq(SavedRequests)
<1>1. SetToSeq({Request("delete", f) : f \in deleted}) \in Seq(SavedRequests)
    <2>1. ASSUME NEW f \in deleted PROVE Request("delete", f) \in SavedRequests
        <3>1. f \in Stored /\ f \in Files
            BY DEF FormPart, FormTypes
        <3> QED
            BY <3>1, RequestTypes DEF SavedRequests, Sendable, IsOfTheListing, Unconfirmed
    <2> QED
        BY <2>1, SaveSetsAreFinite, SequencesOfSets DEF FormPart
<1>2. SetToSeq(Reviews) \in Seq(SavedRequests)
    <2>1. ASSUME NEW f \in DOMAIN photos PROVE ReviewOf(f) \in SavedRequests
        <3>1. /\ ReviewOf(f) \in Dtos /\ WellFormed(ReviewOf(f))
              /\ ReviewOf(f).op = "review" /\ ReviewOf(f).file = f
              /\ ReviewOf(f).version = photos[f].version
            BY ReviewTypes DEF FormPart
        <3>2. /\ f \in DOMAIN base /\ f \in Stored
              /\ photos[f].version = base[f].version /\ base[f].version <= file[f].version
              /\ base[f].version = file[f].version => base[f].caption = file[f].caption
            BY DEF FormPart, FormTypes, FormIsOfTheListing
        <3> QED
            BY <3>1, <3>2 DEF SavedRequests, Sendable, IsOfTheListing
    <2>2. Reviews \subseteq SavedRequests
        BY <2>1 DEF Reviews
    <2> QED
        BY <2>2, SaveSetsAreFinite, SequencesOfSets DEF FormPart
<1>3. SetToSeq({UploadOf(k) : k \in DOMAIN picks}) \in Seq(SavedRequests)
    <2>1. \A k \in DOMAIN picks : UploadOf(k) \in SavedRequests
        BY UploadTypes DEF FormPart, SavedRequests, Sendable, IsOfTheListing, Unconfirmed
    <2> QED
        BY <2>1, SaveSetsAreFinite, SequencesOfSets DEF FormPart
<1> QED
    BY <1>1, <1>2, <1>3, ConcatenationsOf DEF SaveRequests

\* Requests that wait for their turn.
IsConfirmed(q) ==
    \A i \in 1..Len(q) : q[i].op = "variant" => i < Len(q) /\ q[i + 1].op = "review" /\ q[i + 1].confirm

LEMMA QueueBecomes ==
    ASSUME NEW q, todo' = q, q \in Seq(Sendable'), IsConfirmed(q),
           \A i \in 1..Len(q) : IsOfTheListing(q[i])',
           slot' = NoSlot, phase' = "saving", disturbed' \in BOOLEAN
    PROVE  QueuePart'
<1>1. todo' \in Seq(Dtos)
    BY SeqMonotonic DEF Sendable
<1>2. VariantsAreConfirmed'
    BY DEF VariantsAreConfirmed, IsConfirmed
<1>3. \A i \in 1..Len(todo') : IsOfTheListing(todo[i])'
    BY DEF IsOfTheListing, Unconfirmed
<1> QED
    BY <1>1, <1>2, <1>3 DEF QueuePart, QueueTypes

\* What is left when the first request is answered.
LEMMA RestOfQueue ==
    ASSUME FilesTypeOK, FilesTypeOK', QueuePart, todo # <<>>, FilesMoveOn,
           base' = base, picks' = picks, NEW q, q = Tail(todo)
    PROVE  /\ q \in Seq(Sendable') /\ IsConfirmed(q) /\ Len(q) \in Nat /\ Len(todo) = Len(q) + 1
           /\ \A i \in 1..Len(q) : q[i] = todo[i + 1] /\ IsOfTheListing(q[i])'
<1>1. /\ q \in Seq(Sendable) /\ Len(q) = Len(todo) - 1 /\ Len(todo) \in Nat /\ Len(q) \in Nat
      /\ \A i \in 1..Len(q) : q[i] = todo[i + 1]
    BY HeadTailProperties, LenProperties DEF QueuePart
<1>2. q \in Seq(Sendable')
    BY <1>1, SendableStays, SeqMonotonic
<1>3. \A i \in 1..Len(q) : i + 1 \in 1..Len(todo)
    BY <1>1
<1>4. IsConfirmed(q)
    <2> SUFFICES ASSUME NEW i \in 1..Len(q), q[i].op = "variant"
                 PROVE  i < Len(q) /\ q[i + 1].op = "review" /\ q[i + 1].confirm
        BY DEF IsConfirmed
    <2>1. /\ i + 1 < Len(todo) /\ todo[(i + 1) + 1].op = "review" /\ todo[(i + 1) + 1].confirm
        BY <1>1, <1>3 DEF QueuePart, VariantsAreConfirmed
    <2>2. i < Len(q) /\ i + 1 \in 1..Len(q)
        BY <1>1, <2>1
    <2> QED
        BY <1>1, <2>1, <2>2
<1>5. ASSUME NEW i \in 1..Len(q) PROVE IsOfTheListing(q[i])'
    <2>1. q[i] = todo[i + 1] /\ i + 1 \in 1..Len(todo) /\ q[i] \in Sendable
        BY <1>1, <1>3, <1>5, ElementOfSeq
    <2>2. IsOfTheListing(q[i])
        BY <2>1 DEF QueuePart, IsOfTheListing, Unconfirmed
    <2> QED
        BY <2>1, <2>2, RequestsStayOfTheListing
<1> QED
    BY <1>1, <1>2, <1>4, <1>5

LEMMA SaveKeepsAll ==
    ASSUME EditorIInv, Save
    PROVE  EditorIInv'
<1>1. FilesIInv /\ FilesTypeOK /\ FormPart /\ QueuePart
    BY Parts DEF FilesIInv
<1>2. /\ Spend("saves") /\ phase = "editing" /\ phase' = "saving" /\ todo' = SaveRequests
      /\ UNCHANGED <<file, object, held, ghosts, call, slot, disturbed>> /\ UNCHANGED editVars
    BY DEF Save, tables
<1>3. FilesIInv'
    <2>1. left' \in [{"edits", "saves", "others", "faults"} -> Nat] /\ held' \in BOOLEAN
        BY <1>1, <1>2, SpendTypes DEF FilesTypeOK
    <2> QED
        BY <1>1, <1>2, <2>1, ClientsKeepFiles
<1>4. FilesMoveOn /\ FilesTypeOK'
    BY <1>1, <1>2, <1>3, FilesThatStayMoveOn DEF FilesIInv
<1>5. FormPart'
    BY <1>1, <1>2, <1>4, FormIsKept
<1>6. base' = base /\ picks' = picks
    BY <1>2 DEF editVars
<1>7. PICK q : q = SaveRequests
    OBVIOUS
<1>8. q \in Seq(SavedRequests) /\ \A i \in 1..Len(q) : q[i] \in SavedRequests
    BY <1>1, <1>7, SaveRequestsTypes, ElementOfSeq
<1>9. q \in Seq(Sendable')
    <2>1. SavedRequests \subseteq Sendable'
        BY <1>4, <1>6, SendableStays DEF SavedRequests
    <2> QED
        BY <1>8, <2>1, SeqMonotonic
<1>10. IsConfirmed(q)
    BY <1>8 DEF IsConfirmed, SavedRequests
<1>11. ASSUME NEW i \in 1..Len(q) PROVE IsOfTheListing(q[i])'
    <2>1. q[i] \in Sendable /\ IsOfTheListing(q[i])
        BY <1>8 DEF SavedRequests
    <2> QED
        BY <1>1, <1>4, <1>6, <2>1, RequestsStayOfTheListing
<1>12. slot' = NoSlot /\ disturbed' \in BOOLEAN
    BY <1>1, <1>2 DEF QueuePart, QueueTypes
<1>13. QueuePart'
    BY <1>2, <1>7, <1>9, <1>10, <1>11, <1>12, QueueBecomes
<1> QED
    BY <1>3, <1>5, <1>13, NextParts

LEMMA SendKeepsAll ==
    ASSUME EditorIInv, NEW s \in Slots, Send(s)
    PROVE  EditorIInv'
<1>1. FilesIInv /\ FilesTypeOK /\ FormPart /\ QueuePart
    BY Parts DEF FilesIInv
<1>2. /\ phase = "saving" /\ slot = NoSlot /\ todo # <<>> /\ Arrive(s, Head(todo)) /\ slot' = s
      /\ UNCHANGED <<tables, ghosts, left, todo, phase, disturbed>> /\ UNCHANGED editVars
    BY DEF Send
<1>3. PICK dto : dto = Head(todo)
    OBVIOUS
<1>4. dto \in Sendable /\ dto \in Dtos /\ WellFormed(dto) /\ (dto.op # "upload" => dto.file \in Stored)
    BY <1>1, <1>2, <1>3, HeadTailProperties DEF QueuePart, Sendable
<1>5. FilesIInv'
    <2>1. left' \in [{"edits", "saves", "others", "faults"} -> Nat]
        BY <1>1, <1>2 DEF FilesTypeOK
    <2> QED
        BY <1>1, <1>2, <1>3, <1>4, <2>1, ArriveKeepsFiles
<1>6. FilesMoveOn /\ FilesTypeOK'
    BY <1>1, <1>2, <1>5, FilesThatStayMoveOn DEF FilesIInv, tables
<1>7. FormPart'
    BY <1>1, <1>2, <1>6, FormIsKept
<1>8. base' = base /\ picks' = picks
    BY <1>2 DEF editVars
<1>9. call'[s].dto = dto /\ Busy(s)'
    <2>1. call' = [call EXCEPT ![s] = [dto |-> dto, at |-> "new", file |-> dto.file, base |-> 0,
                                       seen |-> {}, cleared |-> {}]]
        BY <1>2, <1>3 DEF Arrive
    <2>2. call'[s] = [dto |-> dto, at |-> "new", file |-> dto.file, base |-> 0,
                      seen |-> {}, cleared |-> {}]
        BY <1>1, <2>1 DEF FilesTypeOK
    <2>3. dto.file \in Files \cup {NoFile}
        BY <1>4 DEF Dtos
    <2>4. call'[s] \in Calls
        BY <1>4, <2>2, <2>3 DEF Calls
    <2> QED
        BY <2>2, <2>4, NoCallIsNoCall DEF Busy
<1>10. QueuePart'
    <2>1. todo' \in Seq(Sendable')
        BY <1>1, <1>2, <1>6, <1>8, SendableStays, SeqMonotonic DEF QueuePart
    <2>2. QueueTypes' /\ VariantsAreConfirmed'
        BY <1>1, <1>2, <1>9 DEF QueuePart, QueueTypes, VariantsAreConfirmed
    <2>3. \A i \in 1..Len(todo) : IsOfTheListing(todo[i])'
        <3> TAKE i \in 1..Len(todo)
        <3>1. PICK d : d = todo[i]
            OBVIOUS
        <3>2. d \in Sendable /\ IsOfTheListing(d) /\ todo'[i] = d
            BY <1>1, <1>2, <3>1, ElementOfSeq DEF QueuePart, IsOfTheListing, Unconfirmed
        <3>3. IsOfTheListing(d)'
            BY <1>1, <1>6, <1>8, <3>2, RequestsStayOfTheListing
        <3> QED
            BY <3>2, <3>3 DEF IsOfTheListing, Unconfirmed
    <2> QED
        BY <1>2, <1>3, <1>9, <2>1, <2>2, <2>3 DEF QueuePart
<1> QED
    BY <1>5, <1>7, <1>10, NextParts

\* An upload that succeeded left a row with its key: its own, or an earlier one's.
LEMMA UploadsLeaveTheirKey ==
    ASSUME FilesIInv, NEW s \in Slots, Succeeds(s), call[s].dto.op = "upload"
    PROVE  \E f \in Files : file'[f] # NoRow /\ file'[f].key = call[s].dto.key
<1>1. CASE Commits(s)
    <2>1. Busy(s)
        BY <1>1, CommitShape
    <2>2. /\ call[s].file \in Files /\ RowWritten(s) = UploadedRow(call[s].dto)
          /\ Commit(s, call[s].file, RowWritten(s)) /\ RowWritten(s) \in FileRows
        BY <1>1, <2>1, CommitShape DEF Op
    <2>3. file'[call[s].file] = RowWritten(s)
        BY <2>2 DEF Commit
    <2>4. RowWritten(s) # NoRow /\ RowWritten(s).key = call[s].dto.key
        <3>1. RowWritten(s) # NoRow
            BY <2>2, LotFilesAssumption
        <3>2. UploadedRow(call[s].dto).key = call[s].dto.key
            BY DEF UploadedRow
        <3> QED
            BY <2>2, <3>1, <3>2
    <2> QED
        BY <2>2, <2>3, <2>4
<1>2. CASE ~Commits(s)
    <2>1. file' = file
        BY <1>2, ServerMovesOn
    <2>2. \E f \in RowOfKey(call[s].dto.key) : TRUE
        BY <1>2 DEF Succeeds, ReplayUpload, LoseKey, Commits, Inserts, Crops, VariantKnown,
                    DeleteAgain, Op
    <2> QED
        BY <2>1, <2>2 DEF RowOfKey, Stored
<1> QED
    BY <1>1, <1>2

\* The answer of the request that was sent: what it calls for is sent next.
LEMMA AnswerKeepsQueue ==
    ASSUME EditorIInv, FilesTypeOK', FilesMoveOn, NEW s \in Slots, slot = s, Succeeds(s), Answered(s),
           UNCHANGED editVars
    PROVE  QueuePart'
<1>1. FilesIInv /\ FilesTypeOK /\ FormPart /\ QueuePart
    BY Parts DEF FilesIInv
<1>2. base' = base /\ picks' = picks
    BY DEF editVars
<1>3. /\ todo' = TodoAfter(call[s].dto) /\ slot' = NoSlot /\ phase' = phase /\ disturbed' = disturbed
    BY DEF Answered
<1>4. slot # NoSlot /\ phase = "saving" /\ disturbed \in BOOLEAN
    BY <1>1, OthersAreClients DEF QueuePart, QueueTypes
<1>5. PICK dto : dto = call[s].dto
    OBVIOUS
<1>6. todo # <<>> /\ dto = Head(todo) /\ dto \in Sendable
    BY <1>1, <1>4, <1>5, HeadTailProperties DEF QueuePart
<1>7. PICK q : q = Tail(todo)
    OBVIOUS
<1>8. /\ q \in Seq(Sendable') /\ IsConfirmed(q) /\ Len(q) \in Nat /\ Len(todo) = Len(q) + 1
      /\ \A i \in 1..Len(q) : q[i] = todo[i + 1] /\ IsOfTheListing(q[i])'
    BY <1>1, <1>2, <1>6, <1>7, RestOfQueue
<1>9. CASE dto.op \notin {"upload", "variant"}
    <2>1. todo' = q
        BY <1>3, <1>5, <1>7, <1>9 DEF TodoAfter
    <2> QED
        BY <1>3, <1>4, <1>8, <2>1, QueueBecomes
<1>10. CASE dto.op = "variant"
    <2>1. PICK v : v = file'[dto.file].version
        OBVIOUS
    <2>2. v \in Nat
        <3>1. dto.file \in Stored /\ dto.file \in Stored' /\ dto.file \in Files
            BY <1>6, <1>10 DEF Sendable, FilesMoveOn, Stored
        <3>2. file'[dto.file] \in FileRows
            BY <3>1 DEF FilesTypeOK, Stored
        <3> QED
            BY <2>1, <3>2 DEF FileRows
    <2>3. PICK r : r = [q EXCEPT ![1].version = v]
        OBVIOUS
    <2>4. todo' = r
        BY <1>3, <1>5, <1>7, <1>10, <2>1, <2>3 DEF TodoAfter, NamingVersion
    <2>5. 1 \in 1..Len(q) /\ q[1].op = "review" /\ q[1].confirm
        <3>1. 1 \in 1..Len(todo) /\ todo[1].op = "variant"
            BY <1>1, <1>6, <1>8, <1>10 DEF QueuePart
        <3>2. 1 < Len(todo) /\ todo[2].op = "review" /\ todo[2].confirm
            BY <1>1, <3>1 DEF QueuePart, VariantsAreConfirmed
        <3> QED
            BY <1>8, <3>2
    <2>6. PICK d : d = [q[1] EXCEPT !.version = v]
        OBVIOUS
    <2>7. d \in Sendable' /\ d.op = "review" /\ d.confirm
        <3>1. q[1] \in Sendable'
            BY <1>8, <2>5, ElementOfSeq
        <3>2. q[1] \in Dtos /\ d \in Dtos
            BY <2>2, <2>6, <3>1 DEF Sendable, Dtos
        <3>3. /\ d.op = q[1].op /\ d.file = q[1].file /\ d.key = q[1].key
              /\ d.caption = q[1].caption /\ d.confirm = q[1].confirm
            BY <2>6, <3>2 DEF Dtos
        <3> QED
            BY <2>5, <3>1, <3>2, <3>3 DEF Sendable, WellFormed
    <2>8. /\ r \in Seq(Sendable') /\ Len(r) = Len(q)
          /\ \A i \in 1..Len(q) : r[i] = IF i = 1 THEN d ELSE q[i]
        <3>1. r = [q EXCEPT ![1] = d]
            BY <2>3, <2>6
        <3> QED
            BY <1>8, <2>5, <2>7, <3>1, ExceptSeq
    <2>9. IsConfirmed(r)
        BY <1>8, <2>7, <2>8 DEF IsConfirmed
    <2>10. \A i \in 1..Len(r) : IsOfTheListing(r[i])'
        <3> TAKE i \in 1..Len(r)
        <3>1. CASE i = 1
            <4>1. r[i] = d /\ ~Unconfirmed(d)
                BY <3>1, <2>5, <2>7, <2>8 DEF Unconfirmed
            <4> QED
                BY <4>1 DEF IsOfTheListing, Unconfirmed
        <3>2. CASE i # 1
            <4>1. r[i] = q[i] /\ i \in 1..Len(q)
                BY <3>2, <2>8
            <4>2. IsOfTheListing(q[i])'
                BY <4>1, <1>8
            <4> QED
                BY <4>1, <4>2
        <3> QED
            BY <3>1, <3>2
    <2> QED
        BY <1>3, <1>4, <2>4, <2>8, <2>9, <2>10, QueueBecomes
<1>11. CASE dto.op = "upload"
    <2>1. PICK f : f = CHOOSE g \in Files : file'[g] # NoRow /\ file'[g].key = dto.key
        OBVIOUS
    <2>2. f \in Files /\ file'[f] # NoRow /\ file'[f].key = dto.key
        BY <1>1, <1>5, <1>11, <2>1, UploadsLeaveTheirKey
    <2>3. f \in Stored' /\ dto.key \in DOMAIN picks
        BY <1>6, <1>11, <2>2 DEF Stored, Sendable
    <2>4. PICK p : p = AfterUpload(f)
        OBVIOUS
    <2>5. todo' = p \o q
        BY <1>3, <1>5, <1>7, <1>11, <2>1, <2>4 DEF TodoAfter
    <2>6. PICK d1, d2 : /\ p = <<d1, d2>> /\ d1 = Request("variant", f)
                        /\ d2 = [Request("review", f) EXCEPT !.caption = picks[dto.key].caption,
                                    !.confirm = TRUE, !.cover = CoverAs(picks[dto.key].cover)]
        BY <2>2, <2>4 DEF AfterUpload
    <2>7. d1 \in Sendable' /\ d1.op = "variant"
        BY <2>2, <2>3, <2>6, RequestTypes DEF Sendable
    <2>8. d2 \in Sendable' /\ d2.op = "review" /\ d2.confirm
        <3>1. picks[dto.key] \in Requests
            BY <1>1, <2>3 DEF FormPart, FormTypes
        <3> DEFINE cover == CoverAs(picks[dto.key].cover)
                   caption == picks[dto.key].caption
        <3>2. cover \in {"yes", "no", AsIs} /\ caption \in Captions
            BY <3>1 DEF CoverAs, Requests
        <3>3. d2 = [Request("review", f) EXCEPT !.caption = caption, !.confirm = TRUE, !.cover = cover]
            BY <2>6
        <3> HIDE DEF cover, caption
        <3>4. d2 = [op |-> "review", file |-> f, key |-> NoKey, version |-> 0,
                    caption |-> caption, cover |-> cover, confirm |-> TRUE]
            BY <3>3 DEF Request
        <3>5. d2 \in Dtos /\ WellFormed(d2) /\ d2.file \in Stored' /\ d2.op = "review" /\ d2.confirm
            BY <2>2, <2>3, <3>2, <3>4 DEF Dtos, WellFormed
        <3> QED
            BY <3>5 DEF Sendable
    <2>9. p \in Seq(Sendable') /\ Len(p) = 2 /\ p[1] = d1 /\ p[2] = d2
        BY <2>6, <2>7, <2>8
    <2>10. PICK r : r = p \o q
        OBVIOUS
    <2>11. /\ r \in Seq(Sendable') /\ Len(r) = 2 + Len(q)
           /\ r[1] = d1 /\ r[2] = d2 /\ \A i \in 1..Len(q) : r[2 + i] = q[i]
           /\ \A i \in 1..Len(r) : i = 1 \/ i = 2 \/ \E j \in 1..Len(q) : i = 2 + j
        <3>1. /\ r \in Seq(Sendable') /\ Len(r) = Len(p) + Len(q)
              /\ \A i \in 1..Len(p) : r[i] = p[i]
              /\ \A i \in 1..Len(q) : r[Len(p) + i] = q[i]
              /\ \A i \in 1..(Len(p) + Len(q)) : i \in 1..Len(p) \/ \E j \in 1..Len(q) : i = Len(p) + j
            <4>1. PICK S : S = Sendable'
                OBVIOUS
            <4>2. p \in Seq(S) /\ q \in Seq(S)
                BY <1>8, <2>9, <4>1
            <4>3. /\ p \o q \in Seq(S) /\ Len(p \o q) = Len(p) + Len(q)
                  /\ \A i \in 1..Len(p) : (p \o q)[i] = p[i]
                  /\ \A i \in 1..Len(q) : (p \o q)[Len(p) + i] = q[i]
                  /\ \A i \in 1..(Len(p) + Len(q)) :
                        i \in 1..Len(p) \/ \E j \in 1..Len(q) : i = Len(p) + j
                BY <4>2, ConcatenationsOf
            <4> QED
                BY <2>10, <4>1, <4>3
        <3>2. 1 \in 1..Len(p) /\ 2 \in 1..Len(p) /\ \A i \in 1..Len(p) : i = 1 \/ i = 2
            BY <2>9
        <3>3. r[1] = d1 /\ r[2] = d2
            BY <2>9, <3>1, <3>2
        <3> QED
            BY <2>9, <3>1, <3>2, <3>3
    <2>12. IsConfirmed(r)
        <3> SUFFICES ASSUME NEW i \in 1..Len(r), r[i].op = "variant"
                     PROVE  i < Len(r) /\ r[i + 1].op = "review" /\ r[i + 1].confirm
            BY DEF IsConfirmed
        <3>1. CASE i = 1
            BY <1>8, <2>8, <2>11, <3>1
        <3>2. CASE i = 2
            BY <2>8, <2>11, <3>2
        <3>3. ASSUME NEW j \in 1..Len(q), i = 2 + j
              PROVE  i < Len(r) /\ r[i + 1].op = "review" /\ r[i + 1].confirm
            <4>1. q[j].op = "variant"
                BY <2>11, <3>3
            <4>2. j < Len(q) /\ q[j + 1].op = "review" /\ q[j + 1].confirm
                BY <1>8, <4>1 DEF IsConfirmed
            <4>3. j + 1 \in 1..Len(q) /\ i + 1 = 2 + (j + 1)
                BY <1>8, <3>3, <4>2
            <4> QED
                BY <1>8, <2>11, <3>3, <4>2, <4>3
        <3> QED
            BY <2>11, <3>1, <3>2, <3>3
    <2>13. \A i \in 1..Len(r) : IsOfTheListing(r[i])'
        <3> TAKE i \in 1..Len(r)
        <3>1. CASE i = 1 \/ i = 2
            <4>1. ~Unconfirmed(r[i])
                BY <2>7, <2>8, <2>11, <3>1 DEF Unconfirmed
            <4> QED
                BY <4>1 DEF IsOfTheListing, Unconfirmed
        <3>2. ASSUME NEW j \in 1..Len(q), i = 2 + j PROVE IsOfTheListing(r[i])'
            <4>1. r[i] = q[j] /\ IsOfTheListing(q[j])'
                BY <1>8, <2>11, <3>2
            <4> QED
                BY <4>1
        <3> QED
            BY <2>11, <3>1, <3>2
    <2> QED
        BY <1>3, <1>4, <2>5, <2>10, <2>11, <2>12, <2>13, QueueBecomes
<1> QED
    BY <1>9, <1>10, <1>11

-----------------------------------------------------------------------------
(* The server's answers, failures and other clients *)

LEMMA ServeKeepsAll ==
    ASSUME EditorIInv, NEW s \in Slots, Serve(s)
    PROVE  EditorIInv'
<1>1. FilesIInv /\ FilesTypeOK /\ FormPart /\ QueuePart
    BY Parts DEF FilesIInv
<1>2. UNCHANGED editVars /\ base' = base /\ picks' = picks
    BY DEF Serve, editVars
<1>3. Continues(s) \/ Succeeds(s) \/ Fails(s)
    BY DEF Serve
<1>4. FilesIInv' /\ FilesTypeOK' /\ FilesMoveOn
    BY <1>1, <1>3, ServerKeepsFiles, ServerMovesOn DEF FilesIInv
<1>5. FormPart'
    BY <1>1, <1>2, <1>4, FormIsKept
<1>6. disturbed \in BOOLEAN /\ (slot # NoSlot => slot \in Slots /\ Busy(slot))
    BY <1>1 DEF QueuePart, QueueTypes
<1>7. QueuePart'
    <2>1. CASE Continues(s) /\ UNCHANGED <<todo, slot, phase, disturbed>>
        <3>1. GoesOn(s)
            BY <1>1, <2>1, ContinuesKeepsFiles
        <3>2. slot # NoSlot => Busy(slot)' /\ call'[slot].dto = call[slot].dto
            BY <1>6, <2>1, <3>1 DEF GoesOn, Busy
        <3> QED
            BY <1>1, <1>2, <1>4, <1>6, <2>1, <3>2, QueueIsKept
    <2>2. ASSUME Succeeds(s) \/ Fails(s), slot # s,
                 UNCHANGED <<todo, slot, phase>>, disturbed' = (disturbed \/ file' # file)
          PROVE  QueuePart'
        <3>1. \A t \in Slots \ {s} : call'[t] = call[t]
            <4>1. EndsUnwritten(s) \/ Commits(s)
                BY <2>2, EndsOfCalls
            <4>2. End(s)
                BY <1>1, <4>1, UnwrittenEnd, CommitShape
            <4> QED
                BY <1>1, <4>2, EndEffect
        <3>2. slot # NoSlot => Busy(slot)' /\ call'[slot].dto = call[slot].dto
            BY <1>6, <2>2, <3>1 DEF Busy
        <3>3. disturbed' \in BOOLEAN
            BY <1>6, <2>2
        <3> QED
            BY <1>1, <1>2, <1>4, <2>2, <3>2, <3>3, QueueIsKept
    <2>3. CASE Succeeds(s) /\ Answered(s)
        <3>1. CASE slot = s
            BY <1>2, <1>4, <2>3, <3>1, AnswerKeepsQueue
        <3>2. CASE slot # s
            BY <2>2, <2>3, <3>2 DEF Answered
        <3> QED
            BY <3>1, <3>2
    <2>4. CASE Fails(s) /\ Refused(s)
        <3>1. CASE slot = s
            BY <1>6, <2>4, <3>1, QueueIsEmpty DEF Refused, SaveFailed
        <3>2. CASE slot # s
            BY <2>2, <2>4, <3>2 DEF Refused
        <3> QED
            BY <3>1, <3>2
    <2> QED
        BY <2>1, <2>3, <2>4 DEF Serve
<1> QED
    BY <1>4, <1>5, <1>7, NextParts

LEMMA RestKeepsAll ==
    ASSUME EditorIInv, Saved \/ LoseConnection \/ ServerRestarts \/ LotDisposed
    PROVE  EditorIInv'
<1>1. FilesIInv /\ FilesTypeOK /\ FormPart /\ QueuePart
    BY Parts DEF FilesIInv
<1>2. file' = file /\ UNCHANGED editVars /\ base' = base /\ picks' = picks
    BY DEF Saved, LoseConnection, ServerRestarts, LotDisposed, Restart, Dispose, filesVars, tables, editVars
<1>3. FilesIInv'
    <2>1. CASE ServerRestarts
        BY <1>1, <2>1, RestartKeepsFiles DEF ServerRestarts
    <2>2. CASE Saved \/ LoseConnection \/ LotDisposed
        <3>1. UNCHANGED <<file, object, call, ghosts>> /\ held' \in BOOLEAN
            BY <1>1, <2>2 DEF Saved, LoseConnection, LotDisposed, Dispose, filesVars, tables, FilesTypeOK
        <3>2. left' = left \/ Spend("faults") \/ Spend("others")
            BY <2>2 DEF Saved, LoseConnection, LotDisposed, filesVars
        <3>3. left' \in [{"edits", "saves", "others", "faults"} -> Nat]
            BY <1>1, <3>2, SpendTypes DEF FilesTypeOK
        <3> QED
            BY <1>1, <3>1, <3>3, ClientsKeepFiles
    <2> QED
        BY <2>1, <2>2
<1>4. FilesTypeOK' /\ FilesMoveOn
    BY <1>1, <1>2, <1>3, FilesThatStayMoveOn DEF FilesIInv
<1>5. FormPart'
    BY <1>1, <1>2, <1>4, FormIsKept
<1>6. disturbed' \in BOOLEAN
    BY <1>1 DEF Saved, LoseConnection, ServerRestarts, LotDisposed, QueuePart, QueueTypes
<1>7. QueuePart'
    <2>1. CASE Saved \/ LoseConnection \/ (ServerRestarts /\ slot # NoSlot)
        BY <1>6, <2>1, QueueIsEmpty DEF Saved, LoseConnection, ServerRestarts, SaveFailed
    <2>2. CASE ServerRestarts /\ slot = NoSlot
        BY <1>1, <1>2, <1>4, <1>6, <2>2, QueueIsKept DEF ServerRestarts
    <2>3. CASE LotDisposed
        <3>1. UNCHANGED <<todo, slot, phase, call>>
            BY <2>3 DEF LotDisposed, Dispose
        <3>2. slot # NoSlot => Busy(slot)' /\ call'[slot].dto = call[slot].dto
            BY <1>1, <3>1 DEF QueuePart, QueueTypes, Busy
        <3> QED
            BY <1>1, <1>2, <1>4, <1>6, <3>1, <3>2, QueueIsKept
    <2> QED
        BY <2>1, <2>2, <2>3
<1> QED
    BY <1>3, <1>5, <1>7, NextParts

LEMMA OthersKeepAll ==
    ASSUME EditorIInv, NEW s \in Slots, NEW dto \in OtherDtos, OtherRequest(s, dto)
    PROVE  EditorIInv'
<1>1. FilesIInv /\ FilesTypeOK /\ FormPart /\ QueuePart
    BY Parts DEF FilesIInv
<1>2. PICK sent : sent = IF dto.op = "review" THEN [dto EXCEPT !.version = file[dto.file].version] ELSE dto
    OBVIOUS
<1>3. /\ Spend("others") /\ (dto.file # NoFile => dto.file \in Stored) /\ Arrive(s, sent)
      /\ UNCHANGED <<tables, ghosts, todo, slot, phase, disturbed>> /\ UNCHANGED editVars
    BY <1>2 DEF OtherRequest
<1>4. dto \in Dtos /\ WellFormed(dto)
    BY OthersAreClients
<1>5. sent \in Dtos /\ WellFormed(sent) /\ (sent.op # "upload" => sent.file \in Stored)
    <2>1. dto.op # "upload" => dto.file \in Files /\ dto.file \in Stored
        BY <1>3, <1>4, LotFilesAssumption DEF WellFormed
    <2>2. CASE dto.op = "review"
        <3>1. file[dto.file].version \in Nat
            BY <1>1, <2>1, <2>2, RowTypes DEF FileRows
        <3>2. sent = [dto EXCEPT !.version = file[dto.file].version]
            BY <1>2, <2>2
        <3>3. sent \in Dtos /\ sent.op = dto.op /\ sent.file = dto.file
            BY <1>4, <3>1, <3>2 DEF Dtos
        <3> QED
            BY <2>1, <2>2, <3>3 DEF WellFormed
    <2>3. CASE dto.op # "review"
        BY <1>2, <1>4, <2>1, <2>3
    <2> QED
        BY <2>2, <2>3
<1>6. FilesIInv'
    <2>1. left' \in [{"edits", "saves", "others", "faults"} -> Nat]
        BY <1>1, <1>3, SpendTypes
    <2> QED
        BY <1>1, <1>3, <1>5, <2>1, ArriveKeepsFiles
<1>7. FilesTypeOK' /\ FilesMoveOn
    BY <1>1, <1>3, <1>6, FilesThatStayMoveOn DEF FilesIInv, tables
<1>8. FormPart'
    BY <1>1, <1>3, <1>7, FormIsKept
<1>9. QueuePart'
    <2>1. ~Busy(s) /\ \A t \in Slots \ {s} : call'[t] = call[t]
        BY <1>1, <1>3 DEF Arrive, FilesTypeOK
    <2>2. slot # NoSlot => Busy(slot)' /\ call'[slot].dto = call[slot].dto
        BY <1>1, <1>3, <2>1 DEF QueuePart, QueueTypes, Busy
    <2>3. base' = base /\ picks' = picks /\ disturbed' \in BOOLEAN
        BY <1>1, <1>3 DEF editVars, QueuePart, QueueTypes
    <2> QED
        BY <1>1, <1>3, <1>7, <2>2, <2>3, QueueIsKept
<1> QED
    BY <1>6, <1>8, <1>9, NextParts

-----------------------------------------------------------------------------
(* The theorems *)

LEMMA EditorStart ==
    ASSUME Init
    PROVE  EditorIInv
<1>1. FilesIInv /\ FilesTypeOK
    BY FilesStart DEF Init, FilesIInv
<1>2. FormPart
    <2>1. /\ base = Listing /\ photos = base /\ deleted = {} /\ picks = <<>>
        BY DEF Init
    <2>2. FormTypes /\ DOMAIN base \subseteq Stored
        BY <1>1, <2>1, ListingTypes DEF FormTypes
    <2>3. FormIsOfTheListing
        BY <1>1, <2>1, ListingTypes DEF FormIsOfTheListing
    <2> QED
        BY <2>1, <2>2, <2>3 DEF FormPart
<1>3. QueuePart
    <2>1. todo = <<>> /\ slot = NoSlot /\ phase = "editing" /\ disturbed = FALSE
        BY DEF Init
    <2>2. Len(todo) = 0 /\ \A S : todo \in Seq(S)
        BY <2>1
    <2>3. \A i \in 1..Len(todo) : FALSE
        BY <2>2
    <2>4. QueueTypes
        BY <2>1, <2>2 DEF QueueTypes
    <2> QED
        BY <2>1, <2>2, <2>3, <2>4 DEF QueuePart, VariantsAreConfirmed
<1> QED
    BY <1>1, <1>2, <1>3, Parts

LEMMA StutterKeepsAll ==
    ASSUME EditorIInv, UNCHANGED vars
    PROVE  EditorIInv'
<1>1. FilesIInv /\ FilesTypeOK /\ FormPart /\ QueuePart
    BY Parts DEF FilesIInv
<1>2. /\ UNCHANGED <<file, object, call, ghosts, held, left, todo, slot, phase, disturbed>>
      /\ UNCHANGED editVars
    BY DEF vars, filesVars, clientVars, editVars, tables
<1>3. FilesIInv'
    BY <1>1, <1>2, ClientsKeepFiles DEF FilesTypeOK
<1>4. FilesTypeOK' /\ FilesMoveOn
    BY <1>1, <1>2, <1>3, FilesThatStayMoveOn DEF FilesIInv
<1>5. FormPart'
    BY <1>1, <1>2, <1>4, FormIsKept
<1>6. base' = base /\ picks' = picks /\ disturbed' \in BOOLEAN
    BY <1>1, <1>2 DEF editVars, QueuePart, QueueTypes
<1>7. slot # NoSlot => Busy(slot)' /\ call'[slot].dto = call[slot].dto
    BY <1>1, <1>2 DEF QueuePart, QueueTypes, Busy
<1>8. QueuePart'
    BY <1>1, <1>2, <1>4, <1>6, <1>7, QueueIsKept
<1> QED
    BY <1>3, <1>5, <1>8, NextParts

LEMMA EveryStepKeepsAll ==
    ASSUME EditorIInv, [Next]_vars
    PROVE  EditorIInv'
BY UserKeepsAll, RefetchKeepsAll, SaveKeepsAll, SendKeepsAll, ServeKeepsAll, RestKeepsAll,
   OthersKeepAll, StutterKeepsAll DEF Next

\* The invariant of the editor and its server (AttachmentsService's calls for a lot and the
\* saves of AssetEditWizard): who chooses a cover, what each upload holds, what each request
\* was made from.
THEOREM EditorIsInOrder == Spec => []EditorIInv
<1>1. Init => EditorIInv
    BY EditorStart
<1>2. EditorIInv /\ [Next]_vars => EditorIInv'
    BY EveryStepKeepsAll
<1> QED
    BY <1>1, <1>2, PTL DEF Spec

\* A lot's files keep their originals and variants, no deleted file is the cover, there is one
\* cover unless two calls that choose one overlap, and the limit is exceeded by no more than
\* the uploads admitted together (uploadForAsset, uploadVariant, review and softDelete).
THEOREM LotFilesStaySound == Spec => []LotFilesAreSound
<1>1. EditorIInv => LotFilesAreSound
    <2> SUFFICES ASSUME EditorIInv PROVE LotFilesAreSound
        OBVIOUS
    <2>1. OneCoverUnlessOverlapped
        <3> SUFFICES ASSUME Cardinality(Covers) > 1, ~overlapped PROVE FALSE
            BY DEF OneCoverUnlessOverlapped
        <3>1. \A f, g \in Covers : f = g
            BY DEF EditorIInv, FilesIInv, CoversAreChosenInTurn
        <3>2. CASE Covers = {}
            BY <3>2, FS_EmptySet
        <3>3. CASE Covers # {}
            <4>1. PICK f \in Covers : Covers = {f}
                BY <3>1, <3>3
            <4> QED
                BY <4>1, FS_Singleton
        <3> QED
            BY <3>2, <3>3
    <2>2. LimitHoldsUpToRaces
        <3>1. IsFiniteSet(Admitted)
            BY FilesAreFinite DEF Admitted
        <3>2. /\ Cardinality(Live) \in Nat /\ Cardinality(Admitted) \in Nat
              /\ Cardinality(Slots) \in Nat /\ Limit \in Nat
            BY <3>1, FilesAreFinite, FS_CardinalityType, LotFilesAssumption
        <3>3. Cardinality(Live) + Cardinality(Admitted) < Limit + Cardinality(Slots)
            BY DEF EditorIInv, FilesIInv, AdmittedFit
        <3> QED
            BY <3>2, <3>3 DEF LimitHoldsUpToRaces
    <2> QED
        BY <2>1, <2>2 DEF EditorIInv, FilesIInv, LotFilesAreSound
<1> QED
    BY <1>1, EditorIsInOrder, PTL

\* A review of a save replaces the caption the form had listed, never one that was written
\* since: the version it names stands for it (attachment-review.ts, review's conditional update).
THEOREM ReviewsOverwriteNothingUnseen == Spec => ReviewsReplaceWhatWasSeen
<1>1. ASSUME EditorIInv, [Next]_vars, NEW f \in Files,
             slot # NoSlot, Busy(slot), call'[slot] = NoCall, call[slot].dto.op = "review",
             call[slot].file = f, ~call[slot].dto.confirm, file' # file
      PROVE  file[f].caption = base[f].caption
    <2>1. FilesIInv /\ FilesTypeOK /\ QueuePart /\ slot \in Slots
        BY <1>1, Parts DEF FilesIInv, QueuePart, QueueTypes
    <2>2. PICK s \in Slots : Serve(s)
        BY <1>1 DEF Next, EditCaption, EditPick, AddFile, SelectCover, RemoveExisting, RemoveNew,
                    Edit, Refetch, Save, Saved, Send, LoseConnection, ServerRestarts, Restart,
                    OtherRequest, LotDisposed, Dispose, vars, filesVars, tables
    <2>3. Commits(s)
        BY <1>1, <2>1, <2>2, ServerMovesOn DEF Serve
    <2>4. s = slot
        BY <1>1, <2>1, <2>3, CommitShape, EndEffect DEF Busy
    <2>5. f \in Live /\ file[f].version = call[s].dto.version /\ f = call[s].dto.file
        BY <1>1, <2>1, <2>3, <2>4, CommitShape DEF ReviewMatches, Mutable, Op
    <2>6. PICK dto : dto = call[s].dto
        OBVIOUS
    <2>7. dto = todo[1] /\ 1 \in 1..Len(todo)
        BY <1>1, <2>1, <2>4, <2>6, LenProperties, EmptySeq DEF QueuePart
    <2>8. IsOfTheListing(dto)
        BY <2>1, <2>7 DEF QueuePart, IsOfTheListing, Unconfirmed
    <2> QED
        BY <1>1, <2>4, <2>5, <2>6, <2>8 DEF IsOfTheListing, Unconfirmed
<1>2. EditorIInv /\ [Next]_vars =>
         [\A f \in Files :
            /\ slot # NoSlot /\ Busy(slot) /\ call'[slot] = NoCall
            /\ call[slot].dto.op = "review" /\ call[slot].file = f /\ ~call[slot].dto.confirm
            /\ file' # file
            => file[f].caption = base[f].caption]_vars
    BY <1>1
<1> QED
    BY <1>2, EditorIsInOrder, PTL DEF Spec, ReviewsReplaceWhatWasSeen
-----------------------------------------------------------------------------
(* What a save that ended has done *)

\* The form's requests, and what it shows, are the same while the form is.
LEMMA FormStays ==
    ASSUME UNCHANGED editVars
    PROVE  /\ base' = base /\ photos' = photos /\ picks' = picks /\ deleted' = deleted
           /\ \A f : ReviewOf(f)' = ReviewOf(f)
           /\ \A k : UploadOf(k)' = UploadOf(k)
           /\ \A dto : (IsFirst(dto)' <=> IsFirst(dto)) /\ (IsUpload(dto)' <=> IsUpload(dto))
           /\ CoversAreChosen => CoversAreChosen'
<1>1. base' = base /\ photos' = photos /\ picks' = picks /\ deleted' = deleted
    BY DEF editVars
<1>2. \A f : ReviewOf(f)' = ReviewOf(f)
    BY <1>1 DEF ReviewOf
<1>3. \A k : UploadOf(k)' = UploadOf(k)
    BY <1>1 DEF UploadOf
<1>4. ASSUME NEW dto PROVE (IsFirst(dto)' <=> IsFirst(dto)) /\ (IsUpload(dto)' <=> IsUpload(dto))
    BY <1>1, <1>2, <1>3 DEF IsFirst, IsUpload
<1>5. CoversAreChosen => CoversAreChosen'
    BY <1>1 DEF CoversAreChosen, Chosen
<1> QED
    BY <1>1, <1>2, <1>3, <1>4, <1>5

\* Rows keep their keys, and so the form shows the same.
KeysStay == Stored \subseteq Stored' /\ \A g \in Stored : file'[g].key = file[g].key

LEMMA ShownStay ==
    ASSUME FormPart, KeysStay, UNCHANGED editVars
    PROVE  ShownPhotos' = ShownPhotos /\ ShownCovers' = ShownCovers
<1>1. base' = base /\ photos' = photos /\ picks' = picks /\ deleted' = deleted
    BY DEF editVars
<1>2. DOMAIN photos \subseteq Stored
    BY DEF FormPart, FormTypes
<1>3. \A k : \A g \in Stored : g \in PicksRow(k)' <=> g \in PicksRow(k)
    BY DEF KeysStay, PicksRow
<1>4. \A g \in Stored : g \in RowsOfPicks' <=> g \in RowsOfPicks
    BY <1>1, <1>3 DEF RowsOfPicks
<1>5. ShownPhotos' = ShownPhotos
    BY <1>1, <1>2, <1>4 DEF ShownPhotos
<1> QED
    BY <1>1, <1>5 DEF ShownCovers

\* A photo that is shown is listed and there, and is no pick's.
LEMMA ShownAreListed ==
    ASSUME FilesTypeOK, FormPart, NEW f \in ShownPhotos
    PROVE  /\ f \in DOMAIN photos /\ f \in DOMAIN base /\ f \notin deleted
           /\ f \in Stored /\ f \in Files
           /\ photos[f] \in Shown /\ base[f] \in Shown /\ file[f] \in FileRows
           /\ \A k \in DOMAIN picks : f \notin PicksRow(k)
<1>1. /\ f \in DOMAIN photos /\ f \notin deleted /\ \A k \in DOMAIN picks : f \notin PicksRow(k)
    BY DEF ShownPhotos, RowsOfPicks
<1>2. f \in DOMAIN base /\ f \in Stored
    BY <1>1 DEF FormPart, FormTypes
<1>3. photos[f] \in Shown /\ base[f] \in Shown
    BY <1>1, <1>2 DEF FormPart, FormTypes
<1> QED
    BY <1>1, <1>2, <1>3, RowTypes

\* Where the listing is what there is, so is the form.
JustListed == base = Listing

LEMMA FreshFormHolds == FilesTypeOK /\ FormPart /\ JustListed => FormHolds
<1> SUFFICES ASSUME FilesTypeOK, FormPart, base = Listing PROVE FormHolds
    BY DEF JustListed
<1>1. DOMAIN base = Live
    BY DEF Listing
<1>2. ASSUME NEW f \in ShownPhotos
      PROVE  base[f].caption = file[f].caption /\ base[f].cover = file[f].cover
    BY <1>1, <1>2, ShownAreListed DEF Listing
<1> QED
    BY <1>1, <1>2 DEF FormHolds

\* The requests a form makes.
LEMMA ReviewShape ==
    ASSUME FormTypes, NEW f \in DOMAIN photos
    PROVE  /\ ReviewOf(f).op = "review" /\ ReviewOf(f).file = f /\ ~ReviewOf(f).confirm
           /\ ReviewOf(f).caption = IF photos[f].caption # base[f].caption THEN photos[f].caption ELSE AsIs
           /\ ReviewOf(f).cover = AsIs <=> (photos[f].cover <=> base[f].cover)
           /\ ReviewOf(f).cover = "yes" <=> photos[f].cover /\ ~base[f].cover
           /\ ReviewOf(f).cover = "no" <=> ~photos[f].cover /\ base[f].cover
<1>1. f \in DOMAIN base /\ photos[f] \in Shown /\ base[f] \in Shown
    BY DEF FormTypes
<1>2. photos[f].cover \in BOOLEAN /\ base[f].cover \in BOOLEAN
    BY <1>1 DEF Shown
<1> DEFINE caption == IF photos[f].caption # base[f].caption THEN photos[f].caption ELSE AsIs
           cover == IF photos[f].cover # base[f].cover THEN CoverAs(photos[f].cover) ELSE AsIs
<1>3. ReviewOf(f) = [Request("review", f) EXCEPT !.version = photos[f].version,
                                                 !.caption = caption, !.cover = cover]
    BY DEF ReviewOf
<1>4. /\ cover = AsIs <=> (photos[f].cover <=> base[f].cover)
      /\ cover = "yes" <=> photos[f].cover /\ ~base[f].cover
      /\ cover = "no" <=> ~photos[f].cover /\ base[f].cover
    BY <1>2 DEF CoverAs, AsIs
<1> HIDE DEF caption, cover
<1>5. ReviewOf(f) = [op |-> "review", file |-> f, key |-> NoKey, version |-> photos[f].version,
                     caption |-> caption, cover |-> cover, confirm |-> FALSE]
    BY <1>3 DEF Request
<1>6. /\ ReviewOf(f).op = "review" /\ ReviewOf(f).file = f /\ ReviewOf(f).confirm = FALSE
      /\ ReviewOf(f).caption = caption /\ ReviewOf(f).cover = cover
    BY <1>5
<1> QED
    BY <1>4, <1>6 DEF caption

LEMMA UploadShape ==
    ASSUME NEW k \in DOMAIN picks
    PROVE  /\ UploadOf(k).op = "upload" /\ UploadOf(k).key = k
           /\ UploadOf(k).cover = CoverAs(picks[k].cover)
BY DEF UploadOf, Request

LEMMA DeleteShape ==
    ASSUME NEW f
    PROVE  /\ Request("delete", f).op = "delete" /\ Request("delete", f).file = f
           /\ Request("delete", f).cover = AsIs
BY DEF Request

LEMMA CoverFlags ==
    ASSUME NEW c
    PROVE  (CoverAs(c) = "yes" <=> c) /\ CoverAs(c) # AsIs
BY DEF CoverAs, AsIs

\* What a write changes of a row.
LEMMA CroppedRow ==
    ASSUME NEW old \in FileRows, NEW row, row = [old EXCEPT !.cropped = TRUE, !.version = @ + 1]
    PROVE  /\ row.key = old.key /\ row.caption = old.caption /\ (row.cover <=> old.cover)
           /\ row.deleted = old.deleted /\ row.cropped
BY DEF FileRows

LEMMA ReviewedRow ==
    ASSUME NEW old \in FileRows, NEW dto, NEW row, row = Reviewed(old, dto)
    PROVE  /\ row.key = old.key /\ row.cropped = old.cropped /\ row.deleted = old.deleted
           /\ row.caption = IF dto.caption = AsIs THEN old.caption ELSE dto.caption
           /\ row.confirmed <=> dto.confirm \/ old.confirmed
           /\ row.cover <=> dto.cover = "yes" \/ (dto.cover = AsIs /\ old.cover)
<1>1. row.key = old.key /\ row.cropped = old.cropped /\ row.deleted = old.deleted
    BY DEF FileRows, Reviewed
<1>2. row.caption = IF dto.caption = AsIs THEN old.caption ELSE dto.caption
    BY DEF FileRows, Reviewed
<1>3. row.confirmed = (dto.confirm \/ old.confirmed)
    BY DEF FileRows, Reviewed
<1>4. row.cover = IF dto.cover = AsIs THEN old.cover ELSE dto.cover = "yes"
    BY DEF FileRows, Reviewed
<1>5. row.cover <=> dto.cover = "yes" \/ (dto.cover = AsIs /\ old.cover)
    BY <1>4 DEF AsIs
<1> QED
    BY <1>1, <1>2, <1>3, <1>5

LEMMA DeletedRow ==
    ASSUME NEW old \in FileRows, NEW row, row = Deleted(old)
    PROVE  row.key = old.key /\ row.cropped = old.cropped /\ row.deleted
BY DEF FileRows, Deleted

\* What a request does to the files it does not name ...
Beside(dto, g) ==
    /\ file'[g].caption = file[g].caption /\ file'[g].confirmed = file[g].confirmed
    /\ file'[g].deleted = file[g].deleted
    /\ file'[g].cover => file[g].cover
    /\ ~ChoosesCover(dto) => (file'[g].cover <=> file[g].cover)

\* ... and to the one it names, or adds.
Effect(dto) ==
    /\ KeysStay
    /\ \A g \in Stored : file[g].cropped => file'[g].cropped
    /\ \A g \in Stored : dto.op = "upload" \/ g # dto.file => Beside(dto, g)
    /\ IF dto.op = "upload"
       THEN \A g \in Stored' \ Stored : file'[g].key = dto.key /\ (file'[g].cover => dto.cover = "yes")
       ELSE Stored' = Stored /\ dto.file \in Stored
    /\ dto.op = "variant" => /\ file'[dto.file].caption = file[dto.file].caption
                             /\ file'[dto.file].deleted = file[dto.file].deleted
                             /\ file'[dto.file].cover <=> file[dto.file].cover
    /\ dto.op = "review" =>
         /\ file'[dto.file].caption = IF dto.caption = AsIs THEN file[dto.file].caption ELSE dto.caption
         /\ file'[dto.file].deleted = file[dto.file].deleted
         /\ file'[dto.file].confirmed <=> dto.confirm \/ file[dto.file].confirmed
         /\ file'[dto.file].cover <=> dto.cover = "yes" \/ (dto.cover = AsIs /\ file[dto.file].cover)

LEMMA CommitsHaveTheirEffect ==
    ASSUME FilesIInv, NEW s \in Slots, Commits(s), NEW dto, dto = call[s].dto
    PROVE  /\ Effect(dto)
           /\ dto.op = "variant" => file'[dto.file].cropped
           /\ dto.op = "delete" => file'[dto.file].deleted
<1> DEFINE f == call[s].file
           row == RowWritten(s)
<1>1. /\ FilesTypeOK /\ CallsAreSound /\ Busy(s) /\ CallIsSound(s) /\ dto \in Dtos
      /\ f \in Files /\ row \in FileRows /\ Commit(s, f, row)
    BY CommitShape, CallTypes DEF FilesIInv, CallsAreSound
<1>2. \A op : Op(s, op) <=> dto.op = op
    BY <1>1 DEF Op
<1>3. ~ChoosesCover(dto) => call[s].cleared = {}
    BY <1>1 DEF CallIsSound, Clearing
<1>4. IF dto.op = "upload"
      THEN f \notin Stored /\ row = UploadedRow(dto)
      ELSE f \in Stored /\ f = dto.file /\ file[f] \in FileRows
    <2>1. Op(s, "upload") => file[f] = NoRow /\ row = UploadedRow(dto)
        BY CommitShape
    <2>2. ~Op(s, "upload") => f \in Live /\ f = dto.file
        BY <1>1, CommitShape DEF CallIsSound, Storing
    <2> QED
        BY <1>1, <1>2, <2>1, <2>2, RowTypes DEF Stored
<1>5. /\ dto.op = "variant" => row = WithVariant(f)
      /\ dto.op = "review" => row = Reviewed(file[f], dto)
      /\ dto.op = "delete" => row = Deleted(file[f])
    BY <1>2 DEF RowWritten
<1>6. dto.op \in {"upload", "variant", "review", "delete"}
    BY <1>1 DEF Dtos
<1> HIDE DEF f, row
<1>7. /\ file'[f] = row /\ Stored' = Stored \cup {f}
      /\ \A g \in Stored \ {f} :
           /\ file'[g].cover <=> file[g].cover /\ g \notin call[s].cleared
           /\ file'[g].deleted = file[g].deleted /\ file'[g].cropped = file[g].cropped
           /\ file'[g].caption = file[g].caption /\ file'[g].key = file[g].key
           /\ file'[g].confirmed = file[g].confirmed
    BY <1>1, CommitEffect, CommitSets, RowTypes
<1>8. \A g \in Stored \ {f} : Beside(dto, g)
    BY <1>3, <1>7 DEF Beside
<1>9. CASE dto.op = "upload"
    <2>1. row.key = dto.key /\ (row.cover <=> dto.cover = "yes")
        BY <1>1, <1>4, <1>9, UploadedRows DEF CallIsSound
    <2>2. f \notin Stored
        BY <1>4, <1>9
    <2> QED
        BY <1>7, <1>8, <1>9, <2>1, <2>2 DEF Effect, KeysStay
<1>10. CASE dto.op # "upload"
    <2>1. f \in Stored /\ f = dto.file /\ file[f] \in FileRows /\ Stored' = Stored
        BY <1>4, <1>7, <1>10
    <2>2. PICK old : old = file[f]
        OBVIOUS
    <2>3. old \in FileRows
        BY <2>1, <2>2
    <2>4. ASSUME dto.op = "variant"
          PROVE  /\ row.key = old.key /\ row.caption = old.caption /\ (row.cover <=> old.cover)
                 /\ row.deleted = old.deleted /\ row.cropped
        <3>1. row = [old EXCEPT !.cropped = TRUE, !.version = @ + 1]
            BY <1>5, <2>2, <2>4 DEF WithVariant
        <3> QED
            BY <2>3, <3>1, CroppedRow
    <2>5. ASSUME dto.op = "review"
          PROVE  /\ row.key = old.key /\ row.cropped = old.cropped /\ row.deleted = old.deleted
                 /\ row.caption = IF dto.caption = AsIs THEN old.caption ELSE dto.caption
                 /\ row.confirmed <=> dto.confirm \/ old.confirmed
                 /\ row.cover <=> dto.cover = "yes" \/ (dto.cover = AsIs /\ old.cover)
        <3>1. row = Reviewed(old, dto)
            BY <1>5, <2>2, <2>5
        <3> QED
            BY <2>3, <3>1, ReviewedRow
    <2>6. ASSUME dto.op = "delete" PROVE row.key = old.key /\ row.cropped = old.cropped /\ row.deleted
        <3>1. row = Deleted(old)
            BY <1>5, <2>2, <2>6
        <3> QED
            BY <2>3, <3>1, DeletedRow
    <2>7. KeysStay /\ \A g \in Stored : file[g].cropped => file'[g].cropped
        <3>1. row.key = old.key /\ (old.cropped => row.cropped)
            BY <1>6, <1>10, <2>4, <2>5, <2>6
        <3> QED
            BY <1>7, <2>1, <2>2, <3>1 DEF KeysStay
    <2>8. \A g \in Stored : g # dto.file => Beside(dto, g)
        BY <1>8, <2>1
    <2>9. file'[dto.file] = row /\ file[dto.file] = old
        BY <1>7, <2>1, <2>2
    <2> QED
        BY <1>10, <2>1, <2>4, <2>5, <2>6, <2>7, <2>8, <2>9 DEF Effect
<1> QED
    BY <1>9, <1>10

\* A request that writes nothing, because what it asks for is so, has its effect, too.
LEMMA NoEffect ==
    ASSUME FilesTypeOK, NEW dto, file' = file, dto.op # "review", dto.op # "upload" => dto.file \in Stored
    PROVE  Effect(dto)
<1>1. Stored' = Stored
    BY DEF Stored
<1> QED
    BY <1>1 DEF Effect, Beside, KeysStay

LEMMA AnswersHaveTheirEffect ==
    ASSUME FilesIInv, NEW s \in Slots, Succeeds(s), NEW dto, dto = call[s].dto
    PROVE  /\ Effect(dto)
           /\ dto.op = "variant" => file'[dto.file].cropped
           /\ dto.op = "delete" => dto.file \notin Live'
           /\ dto.op = "review" => /\ UpdateFile(s) /\ Commits(s) /\ call[s].file = dto.file
                                   /\ dto.file \in Live
           /\ dto.op = "upload" /\ ~Commits(s) => file' = file
<1>1. CASE Commits(s)
    <2>1. Busy(s) /\ (Op(s, "review") <=> dto.op = "review")
        BY <1>1, CommitShape DEF Op
    <2> QED
        BY <1>1, <2>1, CommitsHaveTheirEffect, CommitShape DEF Live, ReviewMatches, Mutable
<1>2. CASE ~Commits(s)
    <2>1. file' = file
        BY <1>2, ServerMovesOn
    <2>2. ReplayUpload(s) \/ LoseKey(s) \/ VariantKnown(s) \/ DeleteAgain(s)
        BY <1>2 DEF Succeeds, Commits, Inserts, Crops
    <2>3. Busy(s)
        BY <2>2 DEF ReplayUpload, LoseKey, Inserting, VariantKnown, DeleteAgain, Op
    <2>4. \A op : Op(s, op) <=> dto.op = op
        BY <2>3 DEF Op
    <2>5. CallIsSound(s) /\ FilesTypeOK
        BY <2>3 DEF FilesIInv, CallsAreSound
    <2>6. dto.op # "upload" => dto.file \in Stored /\ call[s].file = dto.file
        BY <2>4, <2>5 DEF CallIsSound, Storing
    <2>7. dto.op # "review"
        BY <2>2, <2>4 DEF ReplayUpload, LoseKey, Inserting, VariantKnown, DeleteAgain, Op
    <2>8. Effect(dto)
        BY <2>1, <2>5, <2>6, <2>7, NoEffect
    <2>9. dto.op = "variant" => file'[dto.file].cropped
        BY <2>1, <2>2, <2>4, <2>6 DEF ReplayUpload, LoseKey, Inserting, VariantKnown, DeleteAgain
    <2>10. dto.op = "delete" => dto.file \notin Live'
        <3>1. dto.op = "delete" => dto.file \notin Live
            BY <2>2, <2>4, <2>6 DEF ReplayUpload, LoseKey, Inserting, VariantKnown, DeleteAgain, Mutable
        <3>2. Live' = Live
            BY <2>1 DEF Live, Stored
        <3> QED
            BY <3>1, <3>2
    <2> QED
        BY <2>1, <2>7, <2>8, <2>9, <2>10
<1> QED
    BY <1>1, <1>2

-----------------------------------------------------------------------------
(* The request of a save that is being answered *)

\* A request of the form: a deletion, a review, an upload, or what follows an upload.
OfThePicks(dto) == \E k \in DOMAIN picks : IsVariant(dto, k) \/ IsConfirmation(dto, k)
OfTheForm(dto) == IsFirst(dto) \/ IsUpload(dto) \/ OfThePicks(dto)

\* Where in the order it is.
Stage(dto) ==
    \/ IsFirst(dto) /\ \A k \in DOMAIN picks : Queued(UploadOf(k))
    \/ IsUpload(dto) /\ \A i \in 1..Len(todo) : IsUpload(todo[i])
    \/ \E k \in DOMAIN picks :
          PickIsAdded(k) /\ (IsVariant(dto, k) \/ (IsConfirmation(dto, k) /\ file[dto.file].cropped))

LEMMA FormRequests ==
    ASSUME FormTypes, NEW dto
    PROVE  /\ IsFirst(dto) => /\ dto.op \in {"delete", "review"} /\ (dto.op = "review" => ~dto.confirm)
                              /\ dto.op = "delete" => dto.file \in deleted /\ ~ChoosesCover(dto)
                              /\ dto.op = "review" => dto.file \in DOMAIN photos /\ dto = ReviewOf(dto.file)
           /\ IsUpload(dto) => /\ dto.op = "upload" /\ dto.key \in DOMAIN picks /\ dto = UploadOf(dto.key)
           /\ OfThePicks(dto) => /\ dto.op = "variant" \/ (dto.op = "review" /\ dto.confirm)
                                 /\ \E k \in DOMAIN picks : dto.file \in PicksRow(k)
<1>1. ASSUME IsFirst(dto)
      PROVE  /\ dto.op \in {"delete", "review"} /\ (dto.op = "review" => ~dto.confirm)
             /\ dto.op = "delete" => dto.file \in deleted /\ ~ChoosesCover(dto)
             /\ dto.op = "review" => dto.file \in DOMAIN photos /\ dto = ReviewOf(dto.file)
    <2>1. ASSUME NEW f \in deleted, dto = Request("delete", f)
          PROVE  dto.op = "delete" /\ dto.file = f /\ ~ChoosesCover(dto)
        BY <2>1, DeleteShape DEF ChoosesCover
    <2>2. ASSUME NEW f \in DOMAIN photos, dto = ReviewOf(f)
          PROVE  dto.op = "review" /\ dto.file = f /\ ~dto.confirm
        BY <2>2, ReviewShape
    <2> QED
        BY <1>1, <2>1, <2>2 DEF IsFirst
<1>2. IsUpload(dto) => dto.op = "upload" /\ dto.key \in DOMAIN picks /\ dto = UploadOf(dto.key)
    BY UploadShape DEF IsUpload
<1>3. OfThePicks(dto) => /\ dto.op = "variant" \/ (dto.op = "review" /\ dto.confirm)
                         /\ \E k \in DOMAIN picks : dto.file \in PicksRow(k)
    BY DEF OfThePicks, IsVariant, IsConfirmation
<1> QED
    BY <1>1, <1>2, <1>3

LEMMA FirstInQueue ==
    ASSUME QueuePart, slot # NoSlot, NEW dto, dto = call[slot].dto
    PROVE  /\ slot \in Slots /\ Busy(slot) /\ phase = "saving" /\ todo # <<>> /\ dto \in Sendable
           /\ dto = todo[1] /\ dto = Head(todo) /\ Len(todo) \in Nat /\ 1 \in 1..Len(todo)
<1>1. slot \in Slots /\ Busy(slot) /\ phase = "saving" /\ todo # <<>> /\ dto = Head(todo)
    BY DEF QueuePart, QueueTypes
<1>2. Len(todo) \in Nat /\ 1 \in 1..Len(todo)
    BY <1>1, LenProperties, EmptySeq DEF QueuePart
<1> QED
    BY <1>1, <1>2, HeadTailProperties DEF QueuePart

LEMMA OwnRequest ==
    ASSUME FormTypes, QueuePart, slot # NoSlot, SaveIsInOrder, NEW dto, dto = call[slot].dto
    PROVE  Stage(dto) /\ OfTheForm(dto)
<1>1. dto = todo[1] /\ 1 \in 1..Len(todo) /\ Len(todo) \in Nat
    BY FirstInQueue
<1>2. CASE ListedComeFirst
    <2>1. CASE IsUpload(dto)
        <3>1. ~IsFirst(dto)
            BY <2>1, FormRequests
        <3>2. \A i \in 1..Len(todo) : 1 \in 1..i
            BY <1>1
        <3>3. \A i \in 1..Len(todo) : IsUpload(todo[i])
            BY <1>1, <1>2, <3>1, <3>2 DEF ListedComeFirst
        <3> QED
            BY <2>1, <3>3 DEF Stage, OfTheForm
    <2>2. CASE ~IsUpload(dto)
        <3>1. (\A j \in 1..1 : IsFirst(todo[j])) /\ \A k \in DOMAIN picks : Queued(UploadOf(k))
            BY <1>1, <1>2, <2>2 DEF ListedComeFirst
        <3> QED
            BY <1>1, <3>1 DEF Stage, OfTheForm
    <2> QED
        BY <2>1, <2>2
<1>3. ASSUME NEW k \in DOMAIN picks, PickIsAdded(k) PROVE Stage(dto) /\ OfTheForm(dto)
    BY <1>1, <1>3 DEF PickIsAdded, Stage, OfTheForm, OfThePicks
<1> QED
    BY <1>2, <1>3 DEF SaveIsInOrder

\* A shown photo is changed by its own review only ...
LEMMA ShownBeside ==
    ASSUME FilesTypeOK, FormPart, NEW dto, OfTheForm(dto), Effect(dto),
           NEW f \in ShownPhotos, dto # ReviewOf(f)
    PROVE  Beside(dto, f)
<1>1. /\ f \in DOMAIN photos /\ f \notin deleted /\ f \in Stored
      /\ \A k \in DOMAIN picks : f \notin PicksRow(k)
    BY ShownAreListed
<1>2. dto.op = "upload" \/ f # dto.file
    <2>1. FormTypes
        BY DEF FormPart
    <2>2. CASE IsFirst(dto)
        BY <1>1, <2>1, <2>2, FormRequests
    <2>3. CASE IsUpload(dto)
        BY <2>1, <2>3, FormRequests
    <2>4. CASE OfThePicks(dto)
        BY <1>1, <2>1, <2>4, FormRequests
    <2> QED
        BY <2>2, <2>3, <2>4 DEF OfTheForm
<1> QED
    BY <1>1, <1>2 DEF Effect

\* ... and only the review of the one shown cover, where it was not listed so, chooses a cover.
LEMMA OnlyTheCoverIsChosen ==
    ASSUME FilesTypeOK, FormPart, CoversAreChosen, NEW dto, OfTheForm(dto), ChoosesCover(dto),
           NEW x \in ShownPhotos, ShownCovers = {x}
    PROVE  dto = ReviewOf(x)
<1>1. x \in DOMAIN photos /\ photos[x].cover /\ x \in Files /\ x \notin DOMAIN picks
    <2>1. x \in DOMAIN photos /\ x \in Files
        BY ShownAreListed
    <2>2. x \notin DOMAIN picks
        BY <2>1, LotFilesAssumption DEF FormPart, FormTypes
    <2> QED
        BY <2>1, <2>2 DEF ShownCovers
<1>2. \A k \in DOMAIN picks : ~picks[k].cover
    BY <1>1 DEF ShownCovers
<1>3. FormTypes
    BY DEF FormPart
<1>4. CASE IsFirst(dto)
    <2>1. PICK f \in DOMAIN photos : dto = ReviewOf(f) /\ f = dto.file
        BY <1>3, <1>4, FormRequests
    <2>2. photos[f].cover /\ ~base[f].cover
        BY <1>3, <2>1, ReviewShape DEF ChoosesCover
    <2>3. \A y, z \in Chosen : y = z
        BY <2>2 DEF CoversAreChosen
    <2>4. f = x
        BY <1>1, <2>2, <2>3 DEF Chosen
    <2> QED
        BY <2>1, <2>4
<1>5. CASE IsUpload(dto)
    <2>1. PICK k \in DOMAIN picks : dto = UploadOf(k)
        BY <1>5 DEF IsUpload
    <2> QED
        BY <1>2, <2>1, UploadShape, CoverFlags DEF ChoosesCover
<1>6. CASE OfThePicks(dto)
    <2>1. PICK k \in DOMAIN picks : IsVariant(dto, k) \/ IsConfirmation(dto, k)
        BY <1>6 DEF OfThePicks
    <2> QED
        BY <1>2, <2>1, CoverFlags DEF ChoosesCover, IsVariant, IsConfirmation
<1> QED
    BY <1>4, <1>5, <1>6 DEF OfTheForm

-----------------------------------------------------------------------------
(* Steps that leave the files and the form as they are *)

LEMMA SameForm ==
    ASSUME file' = file, UNCHANGED editVars
    PROVE  /\ Stored' = Stored /\ Live' = Live /\ Covers' = Covers
           /\ \A k : PicksRow(k)' = PicksRow(k)
           /\ RowsOfPicks' = RowsOfPicks /\ ShownPhotos' = ShownPhotos /\ ShownCovers' = ShownCovers
           /\ KeysAreUnique => KeysAreUnique'
           /\ FormHolds => FormHolds'
<1>1. base' = base /\ photos' = photos /\ picks' = picks /\ deleted' = deleted
    BY DEF editVars
<1>2. Stored' = Stored
    BY DEF Stored
<1>3. Live' = Live /\ Covers' = Covers
    BY <1>2 DEF Live, Covers
<1>4. \A k : PicksRow(k)' = PicksRow(k)
    BY <1>2 DEF PicksRow
<1>5. RowsOfPicks' = RowsOfPicks
    BY <1>1, <1>4 DEF RowsOfPicks
<1>6. ShownPhotos' = ShownPhotos
    BY <1>1, <1>5 DEF ShownPhotos
<1>7. ShownCovers' = ShownCovers
    BY <1>1, <1>6 DEF ShownCovers
<1>8. KeysAreUnique => KeysAreUnique'
    BY <1>2 DEF KeysAreUnique
<1>9. FormHolds => FormHolds'
    BY <1>1, <1>3, <1>6, <1>7 DEF FormHolds
<1> QED
    BY <1>2, <1>3, <1>4, <1>5, <1>6, <1>7, <1>8, <1>9

LEMMA SameProgress ==
    ASSUME file' = file, UNCHANGED editVars, todo' = todo, SaveProgresses
    PROVE  SaveProgresses'
<1>1. base' = base /\ photos' = photos /\ picks' = picks /\ deleted' = deleted
    BY DEF editVars
<1>2. /\ \A k : PicksRow(k)' = PicksRow(k)
      /\ Live' = Live /\ Covers' = Covers /\ ShownPhotos' = ShownPhotos /\ ShownCovers' = ShownCovers
    BY SameForm
<1>3. /\ \A f : ReviewOf(f)' = ReviewOf(f)
      /\ \A k : UploadOf(k)' = UploadOf(k)
      /\ \A dto : (IsFirst(dto)' <=> IsFirst(dto)) /\ (IsUpload(dto)' <=> IsUpload(dto))
    BY FormStays
<1>4. \A dto : Queued(dto)' <=> Queued(dto)
    BY DEF Queued
<1>5. ListedComeFirst' <=> ListedComeFirst
    BY <1>1, <1>3, <1>4 DEF ListedComeFirst
<1>6. \A dto, k : IsVariant(dto, k)' <=> IsVariant(dto, k)
    BY <1>2 DEF IsVariant
<1>7. \A dto, k : IsConfirmation(dto, k)' <=> IsConfirmation(dto, k)
    BY <1>1, <1>2 DEF IsConfirmation
<1>8. \A k : PickIsAdded(k)' <=> PickIsAdded(k)
    BY <1>3, <1>6, <1>7 DEF PickIsAdded
<1>9. \A k : (Awaited(k)' <=> Awaited(k)) /\ (HasRow(k)' <=> HasRow(k))
    BY <1>1, <1>2, <1>3, <1>4, <1>8 DEF Awaited, HasRow
<1>10. \A x : CoverIsOnItsWay(x)' <=> CoverIsOnItsWay(x)
    BY <1>1, <1>2, <1>3, <1>4, <1>9 DEF CoverIsOnItsWay
<1>11. SaveIsInOrder'
    BY <1>1, <1>5, <1>8 DEF SaveProgresses, SaveIsInOrder
<1>12. \A f \in deleted' : f \in Live' => Queued(Request("delete", f))'
    BY <1>1, <1>2, <1>4 DEF SaveProgresses
<1>13. \A f \in ShownPhotos' : file'[f].caption # photos'[f].caption => Queued(ReviewOf(f))'
    <2>1. \A f : Queued(ReviewOf(f))' <=> Queued(ReviewOf(f))
        BY <1>3 DEF Queued
    <2> QED
        BY <1>1, <1>2, <2>1 DEF SaveProgresses
<1>14. \A k \in DOMAIN picks' : Awaited(k)' \/ HasRow(k)'
    BY <1>1, <1>9 DEF SaveProgresses
<1>15. \A x \in ShownCovers' : ShownCovers' = {x} => CoverIsOnItsWay(x)'
    BY <1>2, <1>10 DEF SaveProgresses
<1>16. \A f : Request("delete", f)' = Request("delete", f)
    BY DEF Request
<1> QED
    BY <1>11, <1>12, <1>13, <1>14, <1>15, <1>16 DEF SaveProgresses

-----------------------------------------------------------------------------
(* A save that begins *)

Has(q, x) == \E i \in 1..Len(q) : q[i] = x

\* One queue after the other.
Joined(p, q, r) ==
    /\ Len(r) = Len(p) + Len(q) /\ Len(p) \in Nat /\ Len(q) \in Nat
    /\ \A i \in 1..Len(p) : i \in 1..Len(r) /\ r[i] = p[i]
    /\ \A i \in 1..Len(q) : Len(p) + i \in 1..Len(r) /\ r[Len(p) + i] = q[i]
    /\ \A i \in 1..Len(r) : i \in 1..Len(p) \/ \E j \in 1..Len(q) : i = Len(p) + j
    /\ \A x : Has(p, x) \/ Has(q, x) => Has(r, x)

LEMMA JoinedQueues ==
    ASSUME NEW S, NEW p \in Seq(S), NEW q \in Seq(S), NEW r, r = p \o q
    PROVE  r \in Seq(S) /\ Joined(p, q, r)
<1>1. /\ r \in Seq(S) /\ Len(r) = Len(p) + Len(q) /\ Len(p) \in Nat /\ Len(q) \in Nat
      /\ \A i \in 1..Len(p) : r[i] = p[i]
      /\ \A i \in 1..Len(q) : r[Len(p) + i] = q[i]
      /\ \A i \in 1..(Len(p) + Len(q)) : i \in 1..Len(p) \/ \E j \in 1..Len(q) : i = Len(p) + j
    BY ConcatenationsOf
<1>2. /\ \A i \in 1..Len(p) : i \in 1..Len(r)
      /\ \A i \in 1..Len(q) : Len(p) + i \in 1..Len(r)
    BY <1>1
<1>3. ASSUME NEW x, Has(p, x) PROVE Has(r, x)
    <2>1. PICK i \in 1..Len(p) : p[i] = x
        BY <1>3 DEF Has
    <2>2. i \in 1..Len(r) /\ r[i] = x
        BY <1>1, <1>2, <2>1
    <2> QED
        BY <2>2 DEF Has
<1>4. ASSUME NEW x, Has(q, x) PROVE Has(r, x)
    <2>1. PICK i \in 1..Len(q) : q[i] = x
        BY <1>4 DEF Has
    <2>2. Len(p) + i \in 1..Len(r) /\ r[Len(p) + i] = x
        BY <1>1, <1>2, <2>1
    <2> QED
        BY <2>2 DEF Has
<1> QED
    BY <1>1, <1>2, <1>3, <1>4 DEF Joined

\* The requests of a save: all of them, deletions and reviews before uploads.
LEMMA SaveAsksForAll ==
    ASSUME FormTypes, NEW q, q = SaveRequests
    PROVE  /\ \A i \in 1..Len(q) : IsUpload(q[i]) \/ \A j \in 1..i : IsFirst(q[j])
           /\ \A f \in deleted : Has(q, Request("delete", f))
           /\ \A r \in Reviews : Has(q, r)
           /\ \A k \in DOMAIN picks : Has(q, UploadOf(k))
<1>1. PICK D, R, U : /\ D = {Request("delete", f) : f \in deleted} /\ R = Reviews
                     /\ U = {UploadOf(k) : k \in DOMAIN picks}
    OBVIOUS
<1>2. IsFiniteSet(D) /\ IsFiniteSet(R) /\ IsFiniteSet(U)
    BY <1>1, SaveSetsAreFinite
<1>3. PICK d, r, u : d = SetToSeq(D) /\ r = SetToSeq(R) /\ u = SetToSeq(U)
    OBVIOUS
<1>4. /\ d \in Seq(D) /\ \A x \in D : Has(d, x)
      /\ r \in Seq(R) /\ \A x \in R : Has(r, x)
      /\ u \in Seq(U) /\ \A x \in U : Has(u, x)
    BY <1>2, <1>3, SetsToSequences DEF Has
<1>5. PICK S : S = D \cup R \cup U
    OBVIOUS
<1>6. d \in Seq(S) /\ r \in Seq(S) /\ u \in Seq(S)
    BY <1>4, <1>5, SeqMonotonic
<1>7. PICK p : p = d \o r
    OBVIOUS
<1>8. /\ p \in Seq(S) /\ Len(p) = Len(d) + Len(r) /\ Len(d) \in Nat /\ Len(r) \in Nat
      /\ \A i \in 1..Len(d) : i \in 1..Len(p) /\ p[i] = d[i]
      /\ \A i \in 1..Len(r) : Len(d) + i \in 1..Len(p) /\ p[Len(d) + i] = r[i]
      /\ \A i \in 1..Len(p) : i \in 1..Len(d) \/ \E j \in 1..Len(r) : i = Len(d) + j
      /\ \A x : Has(d, x) \/ Has(r, x) => Has(p, x)
    <2>1. p \in Seq(S) /\ Joined(d, r, p)
        BY <1>6, <1>7, JoinedQueues
    <2> QED
        BY <2>1 DEF Joined
<1>9. q = p \o u
    BY <1>1, <1>3, <1>7 DEF SaveRequests
<1>10. /\ Len(q) = Len(p) + Len(u) /\ Len(p) \in Nat /\ Len(u) \in Nat
       /\ \A i \in 1..Len(p) : i \in 1..Len(q) /\ q[i] = p[i]
       /\ \A i \in 1..Len(u) : Len(p) + i \in 1..Len(q) /\ q[Len(p) + i] = u[i]
       /\ \A i \in 1..Len(q) : i \in 1..Len(p) \/ \E j \in 1..Len(u) : i = Len(p) + j
       /\ \A x : Has(p, x) \/ Has(u, x) => Has(q, x)
    <2>1. Joined(p, u, q)
        BY <1>6, <1>8, <1>9, JoinedQueues
    <2> QED
        BY <2>1 DEF Joined
<1>11. ASSUME NEW i \in 1..Len(p) PROVE IsFirst(q[i])
    <2>1. q[i] = p[i]
        BY <1>10
    <2>2. CASE i \in 1..Len(d)
        <3>1. p[i] \in D
            BY <1>4, <1>8, <2>2, ElementOfSeq
        <3> QED
            BY <1>1, <2>1, <3>1 DEF IsFirst
    <2>3. ASSUME NEW j \in 1..Len(r), i = Len(d) + j PROVE IsFirst(q[i])
        <3>1. p[i] \in R
            BY <1>4, <1>8, <2>3, ElementOfSeq
        <3> QED
            BY <1>1, <2>1, <3>1 DEF IsFirst, Reviews
    <2> QED
        BY <1>8, <2>2, <2>3
<1>12. ASSUME NEW i \in 1..Len(q) PROVE IsUpload(q[i]) \/ \A j \in 1..i : IsFirst(q[j])
    <2>1. CASE i \in 1..Len(p)
        <3>1. \A j \in 1..i : j \in 1..Len(p)
            BY <1>10, <2>1
        <3> QED
            BY <1>11, <3>1
    <2>2. ASSUME NEW j \in 1..Len(u), i = Len(p) + j PROVE IsUpload(q[i])
        <3>1. q[i] \in U
            BY <1>4, <1>10, <2>2, ElementOfSeq
        <3> QED
            BY <1>1, <3>1 DEF IsUpload
    <2> QED
        BY <1>10, <2>1, <2>2
<1>13. \A x \in D \cup R \cup U : Has(q, x)
    BY <1>4, <1>8, <1>10
<1> QED
    BY <1>1, <1>12, <1>13

\* What the form shows that is not so is asked for.
LEMMA SaveBegins ==
    ASSUME FilesTypeOK, FormPart, FormHolds, file' = file, UNCHANGED editVars, todo' = SaveRequests
    PROVE  SaveProgresses'
<1>1. base' = base /\ photos' = photos /\ picks' = picks /\ deleted' = deleted
    BY DEF editVars
<1>2. FormTypes
    BY DEF FormPart
<1>3. /\ \A i \in 1..Len(todo') : IsUpload(todo'[i]) \/ \A j \in 1..i : IsFirst(todo'[j])
      /\ \A f \in deleted : Has(todo', Request("delete", f))
      /\ \A r \in Reviews : Has(todo', r)
      /\ \A k \in DOMAIN picks : Has(todo', UploadOf(k))
    <2>1. PICK q : q = SaveRequests
        OBVIOUS
    <2> QED
        BY <1>2, <2>1, SaveAsksForAll
<1>4. /\ \A f : ReviewOf(f)' = ReviewOf(f)
      /\ \A k : UploadOf(k)' = UploadOf(k)
      /\ \A dto : (IsFirst(dto)' <=> IsFirst(dto)) /\ (IsUpload(dto)' <=> IsUpload(dto))
    BY FormStays
<1>5. /\ \A f \in deleted : Queued(Request("delete", f))'
      /\ \A k \in DOMAIN picks : Queued(UploadOf(k))'
    <2>1. \A f : Request("delete", f)' = Request("delete", f)
        BY DEF Request
    <2> QED
        BY <1>3, <1>4, <2>1 DEF Queued, Has
<1>6. ASSUME NEW f \in DOMAIN photos, ReviewOf(f).caption # AsIs \/ ReviewOf(f).cover # AsIs
      PROVE  Queued(ReviewOf(f))'
    <2>1. ReviewOf(f) \in Reviews
        BY <1>6 DEF Reviews
    <2> QED
        BY <1>3, <1>4, <2>1 DEF Queued, Has
<1>7. SaveIsInOrder'
    BY <1>1, <1>3, <1>4, <1>5 DEF SaveIsInOrder, ListedComeFirst
<1>8. \A k \in DOMAIN picks : Awaited(k)'
    BY <1>5 DEF Awaited
<1>9. /\ Live' = Live /\ Covers' = Covers /\ ShownPhotos' = ShownPhotos /\ ShownCovers' = ShownCovers
    BY SameForm
<1>10. ASSUME NEW f \in ShownPhotos, file[f].caption # photos[f].caption PROVE Queued(ReviewOf(f))'
    <2>1. f \in DOMAIN photos /\ photos[f] \in Shown
        BY ShownAreListed
    <2>2. photos[f].caption # base[f].caption
        BY <1>10 DEF FormHolds
    <2>3. ReviewOf(f).caption # AsIs
        BY <1>2, <2>1, <2>2, ReviewShape, LotFilesAssumption DEF Shown
    <2> QED
        BY <1>6, <2>1, <2>3
<1>11. ASSUME NEW f \in ShownPhotos, (base[f].cover /\ ~photos[f].cover) \/ (~base[f].cover /\ photos[f].cover)
       PROVE  Queued(ReviewOf(f))'
    <2>1. f \in DOMAIN photos
        BY ShownAreListed
    <2>2. ReviewOf(f).cover # AsIs
        BY <1>2, <1>11, <2>1, ReviewShape
    <2> QED
        BY <1>6, <2>1, <2>2
<1>12. ASSUME NEW x \in ShownCovers, ShownCovers = {x} PROVE CoverIsOnItsWay(x)'
    <2>1. x \in DOMAIN picks => Awaited(x)'
        BY <1>8
    <2>2. ASSUME x \in ShownPhotos
          PROVE  /\ file[x].cover \/ (~base[x].cover /\ Queued(ReviewOf(x))')
                 /\ \A g \in ShownPhotos \ {x} : file[g].cover => Queued(ReviewOf(g))'
        <3>1. photos[x].cover
            <4>1. x \in Files /\ x \notin DOMAIN picks
                BY <1>2, <2>2, ShownAreListed, LotFilesAssumption DEF FormTypes
            <4> QED
                BY <1>12, <4>1 DEF ShownCovers
        <3>2. base[x].cover => file[x].cover
            BY <1>12, <2>2, <3>1 DEF FormHolds
        <3>3. ~base[x].cover => Queued(ReviewOf(x))'
            BY <1>11, <2>2, <3>1
        <3>4. ASSUME NEW g \in ShownPhotos \ {x}, file[g].cover PROVE Queued(ReviewOf(g))'
            <4>1. ~photos[g].cover
                BY <1>12, <3>4 DEF ShownCovers
            <4>2. base[g].cover
                BY <3>4, <4>1 DEF FormHolds
            <4> QED
                BY <1>11, <4>1, <4>2
        <3> QED
            BY <3>2, <3>3, <3>4
    <2> QED
        BY <1>1, <1>4, <1>9, <2>1, <2>2 DEF CoverIsOnItsWay
<1> QED
    BY <1>1, <1>5, <1>7, <1>8, <1>9, <1>10, <1>12 DEF SaveProgresses

-----------------------------------------------------------------------------
(* What a request of the save does to what the form shows *)

LEMMA FormOperations ==
    ASSUME FormTypes, NEW dto, OfTheForm(dto)
    PROVE  /\ dto.op \in {"delete", "review", "upload", "variant"}
           /\ dto.op = "delete" => dto.file \in deleted /\ ~ChoosesCover(dto)
<1>1. IsFirst(dto) => /\ dto.op \in {"delete", "review"}
                      /\ dto.op = "delete" => dto.file \in deleted /\ ~ChoosesCover(dto)
    BY FormRequests
<1>2. IsUpload(dto) => dto.op = "upload"
    BY FormRequests
<1>3. OfThePicks(dto) => dto.op \in {"variant", "review"}
    BY FormRequests
<1> QED
    BY <1>1, <1>2, <1>3 DEF OfTheForm

\* A review of the form makes the caption what the form shows, and so the cover.
LEMMA OwnReview ==
    ASSUME FilesTypeOK, FormPart, FormHolds, NEW f \in ShownPhotos, NEW dto, dto = ReviewOf(f), Effect(dto)
    PROVE  /\ file'[f].caption = photos[f].caption
           /\ (base[f].cover <=> photos[f].cover) => (file'[f].cover <=> file[f].cover)
           /\ photos[f].cover /\ ~base[f].cover => file'[f].cover
           /\ ~photos[f].cover /\ base[f].cover => ~file'[f].cover
<1>1. f \in DOMAIN photos /\ photos[f] \in Shown
    BY ShownAreListed
<1>2. FormTypes
    BY DEF FormPart
<1>3. /\ dto.op = "review" /\ dto.file = f /\ ~dto.confirm
      /\ dto.caption = IF photos[f].caption # base[f].caption THEN photos[f].caption ELSE AsIs
      /\ dto.cover = AsIs <=> (photos[f].cover <=> base[f].cover)
      /\ dto.cover = "yes" <=> photos[f].cover /\ ~base[f].cover
    BY <1>1, <1>2, ReviewShape
<1>4. /\ file'[f].caption = IF dto.caption = AsIs THEN file[f].caption ELSE dto.caption
      /\ file'[f].cover <=> dto.cover = "yes" \/ (dto.cover = AsIs /\ file[f].cover)
    BY <1>3 DEF Effect
<1>5. file'[f].caption = photos[f].caption
    <2>1. photos[f].caption # AsIs
        BY <1>1, LotFilesAssumption DEF Shown
    <2>2. file[f].caption \in {base[f].caption, photos[f].caption}
        BY DEF FormHolds
    <2> QED
        BY <1>3, <1>4, <2>1, <2>2
<1>6. (base[f].cover <=> photos[f].cover) => (file'[f].cover <=> file[f].cover)
    BY <1>3, <1>4 DEF AsIs
<1>7. photos[f].cover /\ ~base[f].cover => file'[f].cover
    BY <1>3, <1>4
<1>8. ~photos[f].cover /\ base[f].cover => ~file'[f].cover
    BY <1>3, <1>4
<1> QED
    BY <1>5, <1>6, <1>7, <1>8

\* Every attempt, a failed one too, takes listed photos from what was listed to what is shown.
LEMMA FormKeepsHolding ==
    ASSUME FilesTypeOK, FormPart, FormHolds, CoversAreChosen, UNCHANGED editVars,
           NEW dto, OfTheForm(dto), Effect(dto)
    PROVE  FormHolds'
<1>1. base' = base /\ photos' = photos /\ picks' = picks /\ deleted' = deleted
    BY DEF editVars
<1>2. ShownPhotos' = ShownPhotos /\ ShownCovers' = ShownCovers
    BY ShownStay DEF Effect
<1>3. FormTypes
    BY DEF FormPart
<1>4. ASSUME NEW f \in DOMAIN base \ deleted PROVE f \in Live'
    <2>1. f \in Live /\ f \in Stored /\ f \in Stored'
        BY DEF FormHolds, Live, Effect, KeysStay
    <2>2. dto.op \in {"delete", "review", "upload", "variant"} /\ (dto.op = "delete" => f # dto.file)
        BY <1>3, <1>4, FormOperations
    <2>3. file'[f].deleted = file[f].deleted
        <3>1. CASE dto.op = "upload" \/ f # dto.file
            BY <2>1, <3>1 DEF Effect, Beside
        <3>2. CASE dto.op \in {"variant", "review"} /\ f = dto.file
            BY <3>2 DEF Effect
        <3> QED
            BY <2>2, <3>1, <3>2
    <2> QED
        BY <2>1, <2>3 DEF Live
<1>5. ASSUME NEW f \in ShownPhotos
      PROVE  /\ file'[f].caption \in {base[f].caption, photos[f].caption}
             /\ (base[f].cover <=> photos[f].cover) /\ (photos[f].cover => ShownCovers = {f})
                   => (file'[f].cover <=> photos[f].cover)
    <2>1. CASE dto = ReviewOf(f)
        BY <2>1, OwnReview DEF FormHolds
    <2>2. CASE dto # ReviewOf(f)
        <3>1. Beside(dto, f)
            BY <2>2, ShownBeside
        <3>2. file'[f].caption = file[f].caption /\ (file'[f].cover => file[f].cover)
            BY <3>1 DEF Beside
        <3>3. ShownCovers = {f} => (file'[f].cover <=> file[f].cover)
            BY <2>2, <3>1, OnlyTheCoverIsChosen DEF Beside
        <3> QED
            BY <3>2, <3>3 DEF FormHolds
    <2> QED
        BY <2>1, <2>2
<1>6. DOMAIN base' \ deleted' \subseteq Live'
    BY <1>1, <1>4
<1> QED
    BY <1>1, <1>2, <1>5, <1>6 DEF FormHolds

\* An upload takes a key no file has, whosoever's it is.
LEMMA KeysStayUnique ==
    ASSUME FilesIInv, NEW s \in Slots, Commits(s), KeysAreUnique
    PROVE  KeysAreUnique'
<1>1. PICK dto : dto = call[s].dto
    OBVIOUS
<1>2. Effect(dto) /\ FilesTypeOK
    BY <1>1, CommitsHaveTheirEffect DEF FilesIInv
<1>3. CASE dto.op # "upload"
    BY <1>2, <1>3 DEF Effect, KeysStay, KeysAreUnique
<1>4. CASE dto.op = "upload"
    <2>1. /\ Busy(s) /\ CallsAreSound /\ call[s].file \in Files /\ RowWritten(s) \in FileRows
          /\ Commit(s, call[s].file, RowWritten(s))
        BY CommitShape DEF FilesIInv
    <2>2. RowOfKey(dto.key) = {}
        BY <1>1, <1>4, <2>1, CommitShape DEF Op
    <2>3. Stored' = Stored \cup {call[s].file}
        BY <1>2, <2>1, CommitSets
    <2>4. \A g \in Stored : file'[g].key = file[g].key /\ file'[g].key # dto.key
        BY <1>2, <2>2 DEF Effect, KeysStay, RowOfKey
    <2>5. \A g \in Stored' \ Stored : g = call[s].file /\ file'[g].key = dto.key
        BY <1>2, <1>4, <2>3 DEF Effect
    <2> QED
        BY <2>4, <2>5 DEF KeysAreUnique
<1> QED
    BY <1>3, <1>4

-----------------------------------------------------------------------------
(* The queue after an answer *)

Confirms(dto) == dto.op = "review" /\ dto.confirm

\* What is behind the request that was answered.
Rest(q, dto) ==
    /\ dto = todo[1] /\ Len(q) \in Nat /\ Len(todo) = Len(q) + 1
    /\ \A i \in 1..Len(q) : q[i] = todo[i + 1]

\* The save stays in order, and only the request that was answered is done with.
GoesOnSaving(dto) ==
    /\ SaveIsInOrder'
    /\ \A r : Queued(r) /\ r # dto /\ ~Confirms(r) => Has(todo', r)
    /\ \A k \in DOMAIN picks :
          Awaited(k) => Awaited(k)' \/ (IsConfirmation(dto, k) /\ file[dto.file].cropped)

LEMMA RestAwaits ==
    ASSUME NEW q, NEW dto, Rest(q, dto), NEW r, Queued(r), r # dto
    PROVE  Has(q, r)
<1>1. PICK i \in 1..Len(todo) : todo[i] = r
    BY DEF Queued
<1>2. i # 1 /\ i - 1 \in 1..Len(q) /\ (i - 1) + 1 = i
    BY <1>1 DEF Rest
<1>3. q[i - 1] = r
    BY <1>1, <1>2 DEF Rest
<1> QED
    BY <1>2, <1>3 DEF Has

LEMMA UploadsAreNeither ==
    ASSUME FormTypes, NEW k \in DOMAIN picks
    PROVE  ~Confirms(UploadOf(k)) /\ UploadOf(k).op = "upload" /\ IsUpload(UploadOf(k))
BY UploadShape DEF Confirms, IsUpload

\* A deletion or a review of a listed photo was answered.
LEMMA FirstAnswered ==
    ASSUME FormTypes, UNCHANGED editVars, SaveIsInOrder,
           NEW q, NEW dto, Rest(q, dto), IsFirst(dto), todo' = q
    PROVE  GoesOnSaving(dto)
<1>1. /\ dto.op \in {"delete", "review"} /\ ~Confirms(dto)
      /\ 1 \in 1..Len(todo) /\ Len(todo) \in Nat /\ dto = todo[1]
    BY FormRequests DEF Rest, Confirms
<1>2. \A k : ~PickIsAdded(k) /\ ~IsConfirmation(dto, k) /\ ~IsVariant(dto, k)
    BY <1>1 DEF PickIsAdded, IsConfirmation, IsVariant, Confirms
<1>3. ListedComeFirst /\ \A k \in DOMAIN picks : Queued(UploadOf(k))
    <2>1. ListedComeFirst
        BY <1>2 DEF SaveIsInOrder
    <2>2. ~IsUpload(dto)
        BY <1>1, FormRequests
    <2> QED
        BY <1>1, <2>1, <2>2 DEF ListedComeFirst
<1>4. /\ picks' = picks
      /\ \A k : UploadOf(k)' = UploadOf(k)
      /\ \A d : (IsFirst(d)' <=> IsFirst(d)) /\ (IsUpload(d)' <=> IsUpload(d))
    BY FormStays
<1>5. ASSUME NEW r, Queued(r), r # dto PROVE Has(todo', r)
    BY <1>5, RestAwaits
<1>6. ASSUME NEW k \in DOMAIN picks PROVE Queued(UploadOf(k))'
    <2>1. PICK r : r = UploadOf(k)
        OBVIOUS
    <2>2. Queued(r) /\ r # dto
        BY <1>1, <1>3, <2>1, UploadsAreNeither
    <2>3. Has(todo', r)
        BY <1>5, <2>2
    <2> QED
        BY <1>4, <2>1, <2>3 DEF Queued, Has
<1>7. ListedComeFirst'
    <2>1. ASSUME NEW i \in 1..Len(q)
          PROVE  IsUpload(q[i]) \/ \A j \in 1..i : IsFirst(q[j])
        <3>1. i + 1 \in 1..Len(todo) /\ q[i] = todo[i + 1]
            BY DEF Rest
        <3>2. IsUpload(todo[i + 1]) \/ \A j \in 1..(i + 1) : IsFirst(todo[j])
            BY <1>3, <3>1 DEF ListedComeFirst
        <3>3. ASSUME NEW j \in 1..i PROVE j + 1 \in 1..(i + 1) /\ q[j] = todo[j + 1]
            BY DEF Rest
        <3> QED
            BY <3>1, <3>2, <3>3
    <2> QED
        BY <1>4, <1>6, <2>1 DEF ListedComeFirst
<1>8. \A k \in DOMAIN picks : Awaited(k)'
    BY <1>6 DEF Awaited
<1> QED
    BY <1>5, <1>7, <1>8 DEF GoesOnSaving, SaveIsInOrder

\* What a confirmation is, with another version.
LEMMA ConfirmationShape ==
    ASSUME NEW k, NEW d, NEW e, IsConfirmation(d, k), d.op = e.op, d.confirm = e.confirm, d.file = e.file,
           d.caption = e.caption, d.cover = e.cover, KeysStay, picks' = picks
    PROVE  IsConfirmation(e, k)'
<1>1. d.file \in PicksRow(k)'
    <2>1. d.file \in Stored /\ file[d.file].key = k
        BY DEF IsConfirmation, PicksRow
    <2> QED
        BY <2>1 DEF KeysStay, PicksRow
<1> QED
    BY <1>1 DEF IsConfirmation

\* An upload was answered: its variant and its confirmation are next.
LEMMA UploadAnswered ==
    ASSUME FormTypes, UNCHANGED editVars, NEW S, NEW q \in Seq(S), NEW dto, Rest(q, dto),
           IsUpload(dto), \A i \in 1..Len(todo) : IsUpload(todo[i]),
           NEW f \in PicksRow(dto.key)', todo' = AfterUpload(f) \o q
    PROVE  GoesOnSaving(dto)
<1>1. dto.op = "upload" /\ dto.key \in DOMAIN picks /\ dto = UploadOf(dto.key)
    BY FormRequests
<1>2. PICK k : k = dto.key
    OBVIOUS
<1>3. file'[f].key = k
    BY <1>2 DEF PicksRow
<1>4. PICK d1, d2 : /\ AfterUpload(f) = <<d1, d2>> /\ d1 = Request("variant", f)
                    /\ d2 = [Request("review", f) EXCEPT !.caption = picks[k].caption, !.confirm = TRUE,
                                                         !.cover = CoverAs(picks[k].cover)]
    BY <1>3 DEF AfterUpload
<1>5. d1.op = "variant" /\ d1.file = f
    BY <1>4 DEF Request
<1>6. /\ d2.op = "review" /\ d2.file = f /\ d2.confirm
      /\ d2.caption = picks[k].caption /\ d2.cover = CoverAs(picks[k].cover)
    <2> DEFINE cover == CoverAs(picks[k].cover)
               caption == picks[k].caption
    <2>1. d2 = [Request("review", f) EXCEPT !.caption = caption, !.confirm = TRUE, !.cover = cover]
        BY <1>4
    <2> HIDE DEF cover, caption
    <2>2. d2 = [op |-> "review", file |-> f, key |-> NoKey, version |-> 0,
                caption |-> caption, cover |-> cover, confirm |-> TRUE]
        BY <2>1 DEF Request
    <2>3. d2.op = "review" /\ d2.file = f /\ d2.confirm /\ d2.caption = caption /\ d2.cover = cover
        BY <2>2
    <2> QED
        BY <2>3 DEF cover, caption
<1>7. PICK p : p = <<d1, d2>>
    OBVIOUS
<1>8. /\ Len(p) = 2 /\ p[1] = d1 /\ p[2] = d2
      /\ Joined(p, q, todo')
    <2>1. PICK T : T = S \cup {d1, d2}
        OBVIOUS
    <2>2. p \in Seq(T) /\ Len(p) = 2 /\ p[1] = d1 /\ p[2] = d2
        BY <1>7, <2>1
    <2>3. q \in Seq(T)
        BY <2>1, SeqMonotonic
    <2>4. PICK r : r = p \o q
        OBVIOUS
    <2>5. Joined(p, q, r)
        BY <2>2, <2>3, <2>4, JoinedQueues
    <2>6. todo' = r
        BY <1>4, <1>7, <2>4
    <2> QED
        BY <2>2, <2>5, <2>6
<1>9. /\ picks' = picks
      /\ \A j : UploadOf(j)' = UploadOf(j)
      /\ \A d : IsUpload(d)' <=> IsUpload(d)
    BY FormStays
<1>10. ASSUME NEW r, Queued(r), r # dto PROVE Has(todo', r)
    <2>1. Has(q, r)
        BY <1>10, RestAwaits
    <2>2. Has(todo', r)
        BY <1>8, <2>1 DEF Joined
    <2> QED
        BY <2>2
<1>11. PickIsAdded(k)'
    <2>1. /\ Len(todo') = 2 + Len(q) /\ Len(q) \in Nat /\ todo'[1] = d1 /\ todo'[2] = d2
          /\ \A i \in 1..Len(q) : todo'[2 + i] = q[i]
        <3>1. 1 \in 1..2 /\ 2 \in 1..2
            OBVIOUS
        <3> QED
            BY <1>8, <3>1 DEF Joined
    <2>2. IsVariant(d1, k)' /\ IsConfirmation(d2, k)'
        BY <1>2, <1>5, <1>6, <1>9 DEF IsVariant, IsConfirmation
    <2>3. ASSUME NEW i \in 2..Len(todo'), i # 2 PROVE IsUpload(todo'[i])
        <3>1. PICK j : j = i - 2
            OBVIOUS
        <3>2. j \in 1..Len(q) /\ 2 + j = i /\ j + 1 \in 1..Len(todo)
            BY <2>1, <2>3, <3>1 DEF Rest
        <3>3. todo'[2 + j] = q[j] /\ q[j] = todo[j + 1]
            BY <2>1, <3>2 DEF Rest
        <3> QED
            BY <3>2, <3>3
    <2>4. todo' # <<>> /\ Len(todo') > 1
        BY <2>1
    <2>5. \A i \in 2..Len(todo') : IsUpload(todo[i])' \/ i = 2
        BY <1>9, <2>3
    <2> QED
        BY <1>5, <2>1, <2>2, <2>4, <2>5 DEF PickIsAdded
<1>12. ASSUME NEW j \in DOMAIN picks, Awaited(j) PROVE Awaited(j)'
    <2>1. ~PickIsAdded(j)
        BY <1>1 DEF PickIsAdded, IsVariant, IsConfirmation, Rest
    <2>2. PICK r : r = UploadOf(j)
        OBVIOUS
    <2>3. Queued(r)
        BY <1>12, <2>1, <2>2 DEF Awaited
    <2>4. CASE r = dto
        <3>1. j = k
            BY <1>2, <2>2, <2>4, UploadShape
        <3> QED
            BY <1>11, <3>1 DEF Awaited
    <2>5. CASE r # dto
        <3>1. Has(todo', r)
            BY <1>10, <2>3, <2>5
        <3>2. Queued(UploadOf(j))'
            BY <1>9, <2>2, <3>1 DEF Queued, Has
        <3> QED
            BY <3>2 DEF Awaited
    <2> QED
        BY <2>4, <2>5
<1>13. SaveIsInOrder'
    BY <1>1, <1>2, <1>9, <1>11 DEF SaveIsInOrder
<1> QED
    BY <1>10, <1>12, <1>13 DEF GoesOnSaving

\* A variant was answered: the confirmation names its version.
LEMMA VariantAnswered ==
    ASSUME FormTypes, UNCHANGED editVars, KeysStay, KeysAreUnique, NEW q \in Seq(Dtos), NEW dto, Rest(q, dto),
           NEW k \in DOMAIN picks, PickIsAdded(k), IsVariant(dto, k), file'[dto.file].cropped,
           todo' = NamingVersion(q, dto.file)
    PROVE  GoesOnSaving(dto)
<1>1. /\ dto.op = "variant" /\ dto.file \in PicksRow(k) /\ dto = todo[1]
      /\ Len(todo) > 1 /\ IsConfirmation(todo[2], k)
    BY DEF IsVariant, PickIsAdded, IsConfirmation, Rest
<1>2. 1 \in 1..Len(q) /\ q[1] = todo[2] /\ q[1] \in Dtos
    <2>1. 1 \in 1..Len(q)
        BY <1>1 DEF Rest
    <2> QED
        BY <2>1, ElementOfSeq DEF Rest
<1>3. PICK v : v = file'[dto.file].version
    OBVIOUS
<1>4. PICK c : c = q[1]
    OBVIOUS
<1>5. PICK d : d = [c EXCEPT !.version = v]
    OBVIOUS
<1>6. /\ d.op = c.op /\ d.file = c.file /\ d.caption = c.caption
      /\ d.cover = c.cover /\ d.confirm = c.confirm
    BY <1>2, <1>4, <1>5 DEF Dtos
<1>7. /\ Len(todo') = Len(q) /\ todo'[1] = d
      /\ \A i \in 1..Len(q) : i # 1 => todo'[i] = q[i]
    <2>1. todo' = [q EXCEPT ![1] = d]
        BY <1>3, <1>4, <1>5 DEF NamingVersion
    <2>2. DOMAIN todo' = DOMAIN q /\ DOMAIN q = 1..Len(q)
        BY <2>1
    <2>3. Len(todo') = Len(q)
        BY <2>1, <2>2
    <2> QED
        BY <1>2, <2>1, <2>2, <2>3
<1>8. /\ picks' = picks
      /\ \A j : UploadOf(j)' = UploadOf(j)
      /\ \A e : IsUpload(e)' <=> IsUpload(e)
    BY FormStays
<1>9. IsConfirmation(c, k) /\ c.file = dto.file
    <2>1. IsConfirmation(c, k)
        BY <1>1, <1>2, <1>4
    <2>2. /\ c.file \in Stored /\ dto.file \in Stored
          /\ file[c.file].key = k /\ file[dto.file].key = k
        BY <1>1, <2>1 DEF IsConfirmation, PicksRow
    <2>3. k # NoKey
        BY LotFilesAssumption DEF FormTypes
    <2> QED
        BY <2>1, <2>2, <2>3 DEF KeysAreUnique
<1>10. PickIsAdded(k)'
    <2>1. IsConfirmation(d, k)' /\ file'[d.file].cropped
        BY <1>6, <1>8, <1>9, ConfirmationShape
    <2>2. ASSUME NEW i \in 2..Len(todo') PROVE IsUpload(todo[i])'
        <3>1. i \in 1..Len(q) /\ i # 1 /\ i + 1 \in 2..Len(todo) /\ i + 1 # 2
            BY <1>7, <2>2 DEF Rest
        <3>2. todo'[i] = todo[i + 1]
            BY <1>7, <3>1 DEF Rest
        <3>3. IsUpload(todo[i + 1])
            BY <3>1 DEF PickIsAdded
        <3> QED
            BY <1>8, <3>2, <3>3
    <2>3. todo' # <<>>
        BY <1>2, <1>7
    <2> QED
        BY <1>7, <2>1, <2>2, <2>3 DEF PickIsAdded
<1>11. ASSUME NEW r, Queued(r), r # dto, ~Confirms(r) PROVE Has(todo', r)
    <2>1. PICK i \in 1..Len(q) : q[i] = r
        BY <1>11, RestAwaits DEF Has
    <2>2. i # 1
        BY <1>4, <1>9, <1>11, <2>1 DEF IsConfirmation, Confirms
    <2> QED
        BY <1>7, <2>1, <2>2 DEF Has
<1>12. ASSUME NEW j \in DOMAIN picks, Awaited(j) PROVE Awaited(j)'
    <2>1. CASE Queued(UploadOf(j))
        <3>1. PICK r : r = UploadOf(j)
            OBVIOUS
        <3>2. Has(todo', r)
            BY <1>1, <1>11, <2>1, <3>1, UploadsAreNeither
        <3> QED
            BY <1>8, <3>1, <3>2 DEF Awaited, Queued, Has
    <2>2. CASE PickIsAdded(j)
        <3>1. IsVariant(dto, j)
            BY <1>1, <2>2 DEF PickIsAdded, IsConfirmation
        <3>2. j = k
            BY <1>1, <3>1 DEF IsVariant, PicksRow
        <3> QED
            BY <1>10, <3>2 DEF Awaited
    <2> QED
        BY <1>12, <2>1, <2>2 DEF Awaited
<1> QED
    BY <1>8, <1>10, <1>11, <1>12 DEF GoesOnSaving, SaveIsInOrder

\* A confirmation was answered: the next pick's upload follows.
LEMMA ConfirmationAnswered ==
    ASSUME FormTypes, UNCHANGED editVars, NEW q, NEW dto, Rest(q, dto),
           NEW k \in DOMAIN picks, PickIsAdded(k), IsConfirmation(dto, k), file[dto.file].cropped, todo' = q
    PROVE  GoesOnSaving(dto)
<1>1. dto.op = "review" /\ dto.confirm /\ dto = todo[1]
    BY DEF IsConfirmation, Rest
<1>2. /\ picks' = picks
      /\ \A j : UploadOf(j)' = UploadOf(j)
      /\ \A e : IsUpload(e)' <=> IsUpload(e)
    BY FormStays
<1>3. ASSUME NEW r, Queued(r), r # dto PROVE Has(todo', r)
    BY <1>3, RestAwaits
<1>4. ListedComeFirst'
    <2>1. ASSUME NEW i \in 1..Len(q) PROVE IsUpload(q[i])
        <3>1. i + 1 \in 2..Len(todo) /\ q[i] = todo[i + 1]
            BY DEF Rest
        <3> QED
            BY <1>1, <3>1 DEF PickIsAdded
    <2> QED
        BY <1>2, <2>1 DEF ListedComeFirst
<1>5. ASSUME NEW j \in DOMAIN picks, Awaited(j)
      PROVE  Awaited(j)' \/ (IsConfirmation(dto, j) /\ file[dto.file].cropped)
    <2>1. CASE Queued(UploadOf(j))
        <3>1. PICK r : r = UploadOf(j)
            OBVIOUS
        <3>2. Has(todo', r)
            BY <1>1, <1>3, <2>1, <3>1, UploadsAreNeither
        <3> QED
            BY <1>2, <3>1, <3>2 DEF Awaited, Queued, Has
    <2>2. CASE PickIsAdded(j)
        BY <1>1, <2>2 DEF PickIsAdded, IsVariant
    <2> QED
        BY <1>5, <2>1, <2>2 DEF Awaited
<1> QED
    BY <1>3, <1>4, <1>5 DEF GoesOnSaving, SaveIsInOrder

\* The answer of the save's request.
LEMMA AnswerGoesOn ==
    ASSUME FilesIInv, FormPart, QueuePart, NEW s \in Slots, slot = s, Succeeds(s), Answered(s),
           UNCHANGED editVars, SaveIsInOrder, KeysAreUnique, NEW dto, dto = call[s].dto
    PROVE  GoesOnSaving(dto)
<1>1. FormTypes /\ slot # NoSlot
    BY OthersAreClients DEF FormPart
<1>2. /\ todo # <<>> /\ dto = todo[1] /\ dto = Head(todo) /\ Len(todo) \in Nat
      /\ todo \in Seq(Dtos) /\ Stage(dto)
    BY <1>1, FirstInQueue, OwnRequest DEF QueuePart, QueueTypes
<1>3. PICK q : q = Tail(todo)
    OBVIOUS
<1>4. q \in Seq(Dtos) /\ Rest(q, dto)
    BY <1>2, <1>3, HeadTailProperties, LenProperties DEF Rest
<1>5. todo' = TodoAfter(dto)
    BY DEF Answered
<1>6. Effect(dto) /\ (dto.op = "variant" => file'[dto.file].cropped)
    BY AnswersHaveTheirEffect
<1>7. CASE IsFirst(dto)
    <2>1. dto.op \notin {"upload", "variant"}
        BY <1>1, <1>7, FormRequests
    <2>2. todo' = q
        BY <1>3, <1>5, <2>1 DEF TodoAfter
    <2> QED
        BY <1>1, <1>4, <1>7, <2>2, FirstAnswered
<1>8. CASE IsUpload(dto) /\ \A i \in 1..Len(todo) : IsUpload(todo[i])
    <2>1. dto.op = "upload"
        BY <1>1, <1>8, FormRequests
    <2>2. PICK f : f = CHOOSE g \in Files : file'[g] # NoRow /\ file'[g].key = dto.key
        OBVIOUS
    <2>3. f \in Files /\ file'[f] # NoRow /\ file'[f].key = dto.key
        BY <2>1, <2>2, UploadsLeaveTheirKey
    <2>4. f \in PicksRow(dto.key)'
        <3>1. dto' = dto
            BY <1>2
        <3> QED
            BY <2>3, <3>1 DEF PicksRow, Stored
    <2>5. todo' = AfterUpload(f) \o q
        BY <1>3, <1>5, <2>1, <2>2 DEF TodoAfter
    <2> QED
        BY <1>1, <1>4, <1>8, <2>4, <2>5, UploadAnswered
<1>9. ASSUME NEW k \in DOMAIN picks, PickIsAdded(k), IsVariant(dto, k) PROVE GoesOnSaving(dto)
    <2>1. dto.op = "variant"
        BY <1>9 DEF IsVariant
    <2>2. todo' = NamingVersion(q, dto.file)
        BY <1>3, <1>5, <2>1 DEF TodoAfter
    <2>3. KeysStay
        BY <1>6 DEF Effect
    <2> QED
        BY <1>1, <1>4, <1>6, <1>9, <2>1, <2>2, <2>3, VariantAnswered
<1>10. ASSUME NEW k \in DOMAIN picks, PickIsAdded(k), IsConfirmation(dto, k), file[dto.file].cropped
       PROVE  GoesOnSaving(dto)
    <2>1. dto.op = "review"
        BY <1>10 DEF IsConfirmation
    <2>2. todo' = q
        BY <1>3, <1>5, <2>1 DEF TodoAfter
    <2> QED
        BY <1>1, <1>4, <1>10, <2>2, ConfirmationAnswered
<1> QED
    BY <1>2, <1>7, <1>8, <1>9, <1>10 DEF Stage

-----------------------------------------------------------------------------
(* What the form shows comes about, or is still asked for *)

\* The request that was answered did what it is for, and the save goes on.
Answers(dto) ==
    /\ OfTheForm(dto) /\ Stage(dto) /\ Effect(dto) /\ GoesOnSaving(dto) /\ Queued(dto)
    /\ dto.op = "delete" => dto.file \notin Live'
    /\ dto.op = "review" => dto.file \in Live

LEMMA RemovalsGoOn ==
    ASSUME FilesTypeOK, FormPart, SaveProgresses, NEW dto, Answers(dto), NEW f \in deleted, f \in Live'
    PROVE  Has(todo', Request("delete", f))
<1>1. f \in Stored
    BY DEF FormPart
<1>2. FormTypes
    BY DEF FormPart
<1>3. Request("delete", f).op = "delete" /\ Request("delete", f).file = f
    BY DeleteShape
<1>4. ~(dto.op = "delete" /\ dto.file = f)
    BY DEF Answers
<1>5. file'[f].deleted = file[f].deleted
    <2>1. dto.op \in {"delete", "review", "upload", "variant"}
        BY <1>2, FormOperations DEF Answers
    <2>2. CASE dto.op = "upload" \/ f # dto.file
        BY <1>1, <2>2 DEF Answers, Effect, Beside
    <2>3. CASE dto.op \in {"variant", "review"} /\ f = dto.file
        BY <2>3 DEF Answers, Effect
    <2> QED
        BY <1>4, <2>1, <2>2, <2>3
<1>6. f \in Live
    BY <1>1, <1>5 DEF Live
<1>7. Queued(Request("delete", f))
    BY <1>6 DEF SaveProgresses
<1>8. Request("delete", f) # dto /\ ~Confirms(Request("delete", f))
    BY <1>3, <1>4 DEF Confirms
<1> QED
    BY <1>7, <1>8 DEF Answers, GoesOnSaving

LEMMA PhotosGoOn ==
    ASSUME FilesTypeOK, FormPart, FormHolds, SaveProgresses, NEW dto, Answers(dto),
           NEW f \in ShownPhotos, file'[f].caption # photos[f].caption
    PROVE  Has(todo', ReviewOf(f))
<1>1. dto # ReviewOf(f)
    BY OwnReview DEF Answers
<1>2. Beside(dto, f)
    BY <1>1, ShownBeside DEF Answers
<1>3. Queued(ReviewOf(f))
    BY <1>2 DEF Beside, SaveProgresses
<1>4. ~Confirms(ReviewOf(f))
    <2>1. f \in DOMAIN photos
        BY ShownAreListed
    <2> QED
        BY <2>1, ReviewShape DEF FormPart, Confirms
<1> QED
    BY <1>1, <1>3, <1>4 DEF Answers, GoesOnSaving

\* A request for another pick: what has been done for this one stays.
LEMMA OtherPicks ==
    ASSUME FormTypes, NEW dto, Answers(dto), NEW k \in DOMAIN picks, ~Awaited(k)
    PROVE  \/ IsUpload(dto) /\ dto.op = "upload" /\ dto.key \in DOMAIN picks \ {k} /\ dto = UploadOf(dto.key)
           \/ \E j \in DOMAIN picks \ {k} :
                 (IsVariant(dto, j) \/ IsConfirmation(dto, j)) /\ dto.file \in PicksRow(j) /\ dto.op # "upload"
<1>1. CASE IsFirst(dto) /\ \A j \in DOMAIN picks : Queued(UploadOf(j))
    BY <1>1 DEF Awaited
<1>2. CASE IsUpload(dto)
    <2>1. dto.op = "upload" /\ dto.key \in DOMAIN picks /\ dto = UploadOf(dto.key)
        BY <1>2, FormRequests
    <2>2. dto.key # k
        BY <2>1 DEF Answers, Awaited
    <2> QED
        BY <1>2, <2>1, <2>2
<1>3. ASSUME NEW j \in DOMAIN picks, PickIsAdded(j), IsVariant(dto, j) \/ IsConfirmation(dto, j)
      PROVE  j # k /\ dto.file \in PicksRow(j) /\ dto.op # "upload"
    BY <1>3 DEF Awaited, IsVariant, IsConfirmation
<1>4. Stage(dto)
    BY DEF Answers
<1> QED
    BY <1>1, <1>2, <1>3, <1>4 DEF Stage

LEMMA PicksGoOn ==
    ASSUME FilesTypeOK, FormPart, SaveProgresses, UNCHANGED editVars, NEW dto, Answers(dto),
           NEW k \in DOMAIN picks
    PROVE  Awaited(k)' \/ HasRow(k)'
<1>1. picks' = picks /\ FormTypes /\ Effect(dto)
    BY DEF editVars, FormPart, Answers
<1>2. ASSUME IsConfirmation(dto, k), file[dto.file].cropped PROVE HasRow(k)'
    <2>1. PICK f : f = dto.file
        OBVIOUS
    <2>2. /\ dto.op = "review" /\ dto.confirm /\ f \in Stored /\ file[f].key = k
          /\ dto.caption = picks[k].caption /\ dto.cover = CoverAs(picks[k].cover)
        BY <1>2, <2>1 DEF IsConfirmation, PicksRow
    <2>3. picks[k].caption # AsIs
        BY <1>1, LotFilesAssumption DEF FormTypes, Requests
    <2>4. f \in Live
        BY <2>1, <2>2 DEF Answers
    <2>5. /\ file'[f].caption = picks[k].caption /\ file'[f].deleted = file[f].deleted
          /\ file'[f].confirmed /\ file'[f].cropped /\ f \in Stored' /\ file'[f].key = k
        BY <1>1, <1>2, <2>1, <2>2, <2>3 DEF Effect, KeysStay
    <2>6. file'[f].cover <=> picks[k].cover
        BY <1>1, <2>1, <2>2, CoverFlags DEF Effect
    <2>7. f \in Live'
        BY <2>4, <2>5 DEF Live
    <2> QED
        BY <1>1, <2>5, <2>6, <2>7 DEF HasRow
<1>3. CASE Awaited(k)
    BY <1>2, <1>3 DEF Answers, GoesOnSaving
<1>4. CASE ~Awaited(k)
    <2>1. HasRow(k)
        BY <1>4 DEF SaveProgresses
    <2>2. PICK f \in Live : /\ file[f].key = k /\ file[f].confirmed /\ file[f].cropped
                            /\ file[f].caption = picks[k].caption
                            /\ ~picks[k].cover => ~file[f].cover
        BY <2>1 DEF HasRow
    <2>3. f \in Stored /\ (dto.op = "upload" \/ f # dto.file)
        BY <1>1, <1>4, <2>2, OtherPicks DEF PicksRow, Live
    <2>4. Beside(dto, f)
        BY <1>1, <2>3 DEF Effect
    <2>5. f \in Stored' /\ file'[f].key = k /\ file'[f].cropped
        BY <1>1, <2>2, <2>3 DEF Effect, KeysStay
    <2>6. f \in Live'
        BY <2>2, <2>4, <2>5 DEF Live, Beside
    <2> QED
        BY <1>1, <2>2, <2>4, <2>5, <2>6 DEF HasRow, Beside
<1> QED
    BY <1>3, <1>4

\* The one cover, when it is a pick.
LEMMA PicksCoverGoesOn ==
    ASSUME FilesIInv, FormPart, SaveProgresses, KeysAreUnique', OwnCallSeesCovers, UNCHANGED editVars,
           NEW s \in Slots, s = slot, slot # NoSlot, Succeeds(s), NEW dto, dto = call[s].dto, Answers(dto),
           NEW x \in DOMAIN picks, ShownCovers = {x}
    PROVE  Awaited(x)' \/ Covers' = PicksRow(x)'
<1>1. picks' = picks /\ FormTypes /\ Effect(dto) /\ FilesTypeOK /\ x # NoKey
    BY LotFilesAssumption DEF editVars, FormPart, Answers, FilesIInv, FormTypes
<1>2. picks[x].cover /\ \A k \in DOMAIN picks : picks[k].cover => k = x
    <2>1. x \notin ShownPhotos
        BY <1>1, ShownAreListed, LotFilesAssumption DEF FormTypes
    <2> QED
        BY <2>1 DEF ShownCovers
<1>3. ASSUME IsConfirmation(dto, x) PROVE Covers' = PicksRow(x)'
    <2>1. dto.op = "review" /\ dto.cover = "yes" /\ dto.file \in Stored /\ file[dto.file].key = x
        BY <1>2, <1>3, CoverFlags DEF IsConfirmation, PicksRow
    <2>2. UpdateFile(s) /\ Commits(s) /\ call[s].file = dto.file
        BY <2>1, AnswersHaveTheirEffect
    <2>3. PICK f : f = dto.file
        OBVIOUS
    <2>4. At(s, "cleared")
        BY <2>1, <2>2 DEF UpdateFile, Updating, ReadyToWrite, ChoosesCover
    <2>5. Covers \subseteq call[s].cleared \cup {f}
        BY <2>2, <2>3, <2>4 DEF OwnCallSeesCovers
    <2>6. Covers' \subseteq {f}
        <3>1. PICK row : row = RowWritten(s)
            OBVIOUS
        <3>2. /\ CallsAreSound /\ Busy(s) /\ f \in Files /\ row \in FileRows /\ Commit(s, f, row)
            BY <2>2, <2>3, <3>1, CommitShape DEF FilesIInv
        <3>3. Covers' = (Covers \ (call[s].cleared \cup {f})) \cup (IF row.cover THEN {f} ELSE {})
            BY <1>1, <3>2, CommitSets
        <3> QED
            BY <2>5, <3>3
    <2>7. f \in Stored' /\ file'[f].key = x /\ file'[f].cover
        BY <1>1, <2>1, <2>3 DEF Effect, KeysStay
    <2>8. Covers' = {f}
        BY <2>6, <2>7 DEF Covers
    <2>9. PicksRow(x)' = {f}
        BY <1>1, <2>7 DEF PicksRow, KeysAreUnique
    <2> QED
        BY <2>8, <2>9
<1>4. CASE Awaited(x)
    BY <1>3, <1>4 DEF Answers, GoesOnSaving
<1>5. CASE ~Awaited(x)
    <2>1. Covers = PicksRow(x)
        BY <1>5 DEF SaveProgresses, CoverIsOnItsWay, ShownCovers
    <2>2. \/ dto.op = "upload" /\ dto.key \in DOMAIN picks \ {x} /\ dto = UploadOf(dto.key)
          \/ \E j \in DOMAIN picks \ {x} :
                (IsVariant(dto, j) \/ IsConfirmation(dto, j)) /\ dto.file \in PicksRow(j) /\ dto.op # "upload"
        BY <1>1, <1>5, OtherPicks
    <2>3. ASSUME NEW g \in Stored
          PROVE  (file'[g].cover <=> file[g].cover) /\ (file'[g].key = x <=> file[g].key = x)
        <3>1. file'[g].key = file[g].key
            BY <1>1 DEF Effect, KeysStay
        <3>2. CASE dto.op = "upload"
            <4>1. ~ChoosesCover(dto)
                BY <1>2, <2>2, <3>2, UploadShape, CoverFlags DEF ChoosesCover
            <4> QED
                BY <1>1, <3>1, <3>2, <4>1 DEF Effect, Beside
        <3>3. ASSUME NEW j \in DOMAIN picks \ {x}, dto.op # "upload", dto.file \in PicksRow(j),
                     IsVariant(dto, j) \/ IsConfirmation(dto, j)
              PROVE  file'[g].cover <=> file[g].cover
            <4>1. ~ChoosesCover(dto) /\ (dto.op = "review" => dto.cover # "yes" /\ dto.cover # AsIs)
                BY <1>2, <3>3, CoverFlags DEF ChoosesCover, IsVariant, IsConfirmation
            <4>2. CASE g # dto.file
                BY <1>1, <4>1, <4>2 DEF Effect, Beside
            <4>3. CASE g = dto.file
                <5>1. ~file[g].cover
                    BY <2>1, <3>3, <4>3 DEF Covers, PicksRow
                <5>2. dto.op = "variant" \/ dto.op = "review"
                    BY <3>3 DEF IsVariant, IsConfirmation
                <5>3. ~file'[g].cover
                    BY <1>1, <4>1, <4>3, <5>1, <5>2 DEF Effect
                <5> QED
                    BY <5>1, <5>3
            <4> QED
                BY <4>2, <4>3
        <3> QED
            BY <2>2, <3>1, <3>2, <3>3
    <2>4. ASSUME NEW g \in Stored' \ Stored PROVE ~file'[g].cover /\ file'[g].key # x
        <3>1. dto.op = "upload" /\ file'[g].key = dto.key /\ (file'[g].cover => dto.cover = "yes")
            BY <1>1 DEF Effect
        <3>2. dto.key \in DOMAIN picks \ {x} /\ dto.cover # "yes"
            BY <1>2, <2>2, <3>1, UploadShape, CoverFlags
        <3> QED
            BY <3>1, <3>2
    <2>5. Stored \subseteq Stored'
        BY <1>1 DEF Effect, KeysStay
    <2>6. Covers' = Covers
        BY <2>3, <2>4, <2>5 DEF Covers
    <2>7. PicksRow(x)' = PicksRow(x)
        BY <2>3, <2>4, <2>5 DEF PicksRow
    <2> QED
        BY <2>1, <2>6, <2>7
<1> QED
    BY <1>4, <1>5

\* The one cover, when it is a listed photo.
LEMMA PhotosCoverGoesOn ==
    ASSUME FilesTypeOK, FormPart, FormHolds, CoversAreChosen, SaveProgresses, NEW dto, Answers(dto),
           NEW x \in ShownPhotos, ShownCovers = {x}
    PROVE  /\ file'[x].cover \/ (~base[x].cover /\ Has(todo', ReviewOf(x)))
           /\ \A g \in ShownPhotos \ {x} : file'[g].cover => Has(todo', ReviewOf(g))
<1>1. Effect(dto) /\ OfTheForm(dto) /\ FormTypes
    BY DEF Answers, FormPart
<1>2. photos[x].cover /\ \A g \in ShownPhotos : photos[g].cover => g = x
    <2>1. x \in Files /\ x \notin DOMAIN picks
        BY <1>1, ShownAreListed, LotFilesAssumption DEF FormTypes
    <2> QED
        BY <2>1 DEF ShownCovers
<1>3. /\ file[x].cover \/ (~base[x].cover /\ Queued(ReviewOf(x)))
      /\ \A g \in ShownPhotos \ {x} : file[g].cover => Queued(ReviewOf(g))
    BY DEF SaveProgresses, CoverIsOnItsWay
<1>4. ASSUME NEW g \in ShownPhotos, Queued(ReviewOf(g)), ReviewOf(g) # dto PROVE Has(todo', ReviewOf(g))
    <2>1. ~Confirms(ReviewOf(g))
        <3>1. g \in DOMAIN photos
            BY ShownAreListed
        <3> QED
            BY <1>1, <3>1, ReviewShape DEF Confirms
    <2> QED
        BY <1>4, <2>1 DEF Answers, GoesOnSaving
<1>5. file'[x].cover \/ (~base[x].cover /\ Has(todo', ReviewOf(x)))
    <2>1. CASE dto = ReviewOf(x)
        <3>1. /\ (base[x].cover <=> photos[x].cover) => (file'[x].cover <=> file[x].cover)
              /\ photos[x].cover /\ ~base[x].cover => file'[x].cover
            BY <1>1, <2>1, OwnReview
        <3> QED
            BY <1>2, <1>3, <3>1
    <2>2. CASE dto # ReviewOf(x)
        <3>1. Beside(dto, x) /\ ~ChoosesCover(dto)
            BY <1>1, <2>2, ShownBeside, OnlyTheCoverIsChosen
        <3>2. file'[x].cover <=> file[x].cover
            BY <3>1 DEF Beside
        <3> QED
            BY <1>3, <1>4, <2>2, <3>2
    <2> QED
        BY <2>1, <2>2
<1>6. ASSUME NEW g \in ShownPhotos \ {x}, file'[g].cover PROVE Has(todo', ReviewOf(g))
    <2>1. ~photos[g].cover
        BY <1>2
    <2>2. CASE dto = ReviewOf(g)
        <3>1. /\ (base[g].cover <=> photos[g].cover) => (file'[g].cover <=> file[g].cover)
              /\ ~photos[g].cover /\ base[g].cover => ~file'[g].cover
            BY <1>1, <2>2, OwnReview
        <3>2. ~base[g].cover => ~file[g].cover
            BY <2>1 DEF FormHolds
        <3> QED
            BY <1>6, <2>1, <3>1, <3>2
    <2>3. CASE dto # ReviewOf(g)
        <3>1. Beside(dto, g)
            BY <1>1, <2>3, ShownBeside
        <3>2. file[g].cover
            BY <1>6, <3>1 DEF Beside
        <3> QED
            BY <1>3, <1>4, <2>3, <3>2
    <2> QED
        BY <2>2, <2>3
<1> QED
    BY <1>5, <1>6

\* Every answer brings the save further, and leaves nothing the form shows behind.
LEMMA SaveGoesOn ==
    ASSUME FilesIInv, FormPart, QueuePart, KeysAreUnique, KeysAreUnique', CoversAreChosen, FormHolds,
           OwnCallSeesCovers, SaveProgresses, UNCHANGED editVars,
           NEW s \in Slots, slot = s, Succeeds(s), Answered(s)
    PROVE  SaveProgresses' /\ FormHolds'
<1>1. PICK dto : dto = call[s].dto
    OBVIOUS
<1>2. base' = base /\ photos' = photos /\ picks' = picks /\ deleted' = deleted
    BY DEF editVars
<1>3. FormTypes /\ FilesTypeOK /\ slot # NoSlot /\ SaveIsInOrder
    BY OthersAreClients DEF FormPart, FilesIInv, SaveProgresses
<1>4. Answers(dto)
    <2>1. /\ Effect(dto) /\ (dto.op = "delete" => dto.file \notin Live')
          /\ dto.op = "review" => dto.file \in Live
        BY <1>1, AnswersHaveTheirEffect
    <2>2. Stage(dto) /\ OfTheForm(dto)
        BY <1>1, <1>3, OwnRequest
    <2>3. Queued(dto)
        BY <1>1, <1>3, FirstInQueue DEF Queued
    <2>4. GoesOnSaving(dto)
        BY <1>1, <1>3, AnswerGoesOn
    <2> QED
        BY <2>1, <2>2, <2>3, <2>4 DEF Answers
<1>5. ShownPhotos' = ShownPhotos /\ ShownCovers' = ShownCovers
    <2>1. KeysStay
        BY <1>4 DEF Answers, Effect
    <2> QED
        BY <2>1, ShownStay
<1>6. FormHolds'
    BY <1>3, <1>4, FormKeepsHolding DEF Answers
<1>7. \A f : (ReviewOf(f)' = ReviewOf(f)) /\ (Request("delete", f)' = Request("delete", f))
    BY FormStays DEF Request
<1>8. SaveIsInOrder'
    BY <1>4 DEF Answers, GoesOnSaving
<1>9. \A f \in deleted' : f \in Live' => Queued(Request("delete", f))'
    BY <1>2, <1>3, <1>4, <1>7, RemovalsGoOn DEF Queued, Has
<1>10. \A f \in ShownPhotos' : file'[f].caption # photos'[f].caption => Queued(ReviewOf(f))'
    BY <1>2, <1>3, <1>4, <1>5, <1>7, PhotosGoOn DEF Queued, Has
<1>11. \A k \in DOMAIN picks' : Awaited(k)' \/ HasRow(k)'
    BY <1>2, <1>3, <1>4, PicksGoOn
<1>12. ASSUME NEW x, ShownCovers = {x} PROVE CoverIsOnItsWay(x)'
    <2>1. x \in DOMAIN picks => Awaited(x)' \/ Covers' = PicksRow(x)'
        BY <1>1, <1>3, <1>4, <1>12, PicksCoverGoesOn
    <2>2. x \in ShownPhotos =>
            /\ file'[x].cover \/ (~base[x].cover /\ Queued(ReviewOf(x))')
            /\ \A g \in ShownPhotos \ {x} : file'[g].cover => Queued(ReviewOf(g))'
        BY <1>3, <1>4, <1>7, <1>12, PhotosCoverGoesOn DEF Queued, Has
    <2> QED
        BY <1>2, <1>5, <2>1, <2>2 DEF CoverIsOnItsWay
<1> QED
    BY <1>2, <1>5, <1>6, <1>8, <1>9, <1>10, <1>11, <1>12 DEF SaveProgresses

-----------------------------------------------------------------------------
(* Every step, for a save that is to do what the form shows *)

LEMMA OwnCallStaysAsItIs ==
    ASSUME file' = file, slot' = slot, slot # NoSlot => call'[slot] = call[slot], OwnCallSeesCovers
    PROVE  OwnCallSeesCovers'
<1>1. Covers' = Covers
    BY DEF Covers, Stored
<1> QED
    BY <1>1 DEF OwnCallSeesCovers, At, Busy

LEMMA OwnCallGoesOn ==
    ASSUME FilesTypeOK, NEW s \in Slots, slot = s, slot' = slot, Continues(s), OwnCallSeesCovers
    PROVE  OwnCallSeesCovers'
<1>1. Covers' = Covers /\ file' = file
    BY DEF Continues, CheckUpload, PutOriginal, StartClearing, FinishClearing, ReadForVariant,
           ReadForReview, ReadForDelete, GoOn, Covers, Stored
<1>2. PICK c : c = call[s]
    OBVIOUS
<1>3. Busy(s) /\ c \in Calls
    <2>1. Busy(s)
        BY DEF Continues, CheckUpload, PutOriginal, StartClearing, FinishClearing, ReadForVariant,
               ReadForReview, ReadForDelete, At, Op
    <2> QED
        BY <1>2, <2>1 DEF FilesTypeOK, Busy
<1>4. CASE CheckUpload(s) \/ PutOriginal(s) \/ ReadForVariant(s) \/ ReadForReview(s) \/ ReadForDelete(s)
    <2>1. \E n : call' = [call EXCEPT ![s] = n] /\ n.at \in {"lookup", "tx"}
        <3>1. CASE CheckUpload(s)
            <4>1. call' = [call EXCEPT ![s] = [c EXCEPT !.at = "lookup"]]
                BY <1>2, <3>1 DEF CheckUpload, GoOn
            <4>2. [c EXCEPT !.at = "lookup"].at = "lookup"
                BY <1>3 DEF Calls
            <4> QED
                BY <4>1, <4>2
        <3>2. CASE PutOriginal(s)
            <4>1. PICK f : call' = [call EXCEPT ![s] = [c EXCEPT !.at = "tx", !.file = f]]
                BY <1>2, <3>2 DEF PutOriginal, GoOn
            <4>2. [c EXCEPT !.at = "tx", !.file = f].at = "tx"
                BY <1>3 DEF Calls
            <4> QED
                BY <4>1, <4>2
        <3>3. CASE ReadForVariant(s)
            <4>1. PICK v : call' = [call EXCEPT ![s] = [c EXCEPT !.at = "tx", !.base = v]]
                BY <1>2, <3>3 DEF ReadForVariant, GoOn
            <4>2. [c EXCEPT !.at = "tx", !.base = v].at = "tx"
                BY <1>3 DEF Calls
            <4> QED
                BY <4>1, <4>2
        <3>4. CASE ReadForReview(s) \/ ReadForDelete(s)
            <4>1. call' = [call EXCEPT ![s] = [c EXCEPT !.at = "tx"]]
                BY <1>2, <3>4 DEF ReadForReview, ReadForDelete, GoOn
            <4>2. [c EXCEPT !.at = "tx"].at = "tx"
                BY <1>3 DEF Calls
            <4> QED
                BY <4>1, <4>2
        <3> QED
            BY <1>4, <3>1, <3>2, <3>3, <3>4
    <2>2. call'[s].at \in {"lookup", "tx"}
        BY <2>1 DEF FilesTypeOK
    <2> QED
        BY <2>2 DEF OwnCallSeesCovers, At
<1>5. CASE StartClearing(s)
    <2>1. PICK n : n = [c EXCEPT !.at = "clearing", !.seen = CoversToClear(s)]
        OBVIOUS
    <2>2. call'[s] = n
        BY <1>2, <1>5, <2>1 DEF StartClearing, GoOn, FilesTypeOK
    <2>3. n.at = "clearing" /\ n.seen = Covers \ {c.file} /\ n.file = c.file
        BY <1>2, <1>3, <2>1 DEF Calls, CoversToClear
    <2> QED
        BY <1>1, <2>2, <2>3 DEF OwnCallSeesCovers, At
<1>6. CASE FinishClearing(s)
    <2>1. PICK n : n = [c EXCEPT !.at = "cleared", !.cleared = c.seen \cap Covers]
        OBVIOUS
    <2>2. call'[s] = n
        BY <1>2, <1>6, <2>1 DEF FinishClearing, GoOn, FilesTypeOK
    <2>3. n.at = "cleared" /\ n.cleared = c.seen \cap Covers /\ n.file = c.file
        BY <1>3, <2>1 DEF Calls
    <2>4. Covers \subseteq c.seen \cup {c.file}
        BY <1>2, <1>6, OthersAreClients DEF FinishClearing, OwnCallSeesCovers
    <2> QED
        BY <1>1, <2>2, <2>3, <2>4 DEF OwnCallSeesCovers, At
<1> QED
    BY <1>4, <1>5, <1>6 DEF Continues

\* A step that changes no file and no form, and goes on with the save or gives it up.
LEMMA QuietStep ==
    ASSUME SaveIInv, file' = file, UNCHANGED editVars, ~disturbed' => ~disturbed,
           ~disturbed' /\ phase' # "editing" => phase # "editing" /\ todo' = todo,
           OwnCallSeesCovers => OwnCallSeesCovers'
    PROVE  SaveIInv'
<1>1. KeysAreUnique' /\ CoversAreChosen'
    BY SameForm, FormStays DEF SaveIInv
<1>2. ~disturbed' => FormHolds' /\ OwnCallSeesCovers'
    BY SameForm DEF SaveIInv
<1>3. ~disturbed' /\ phase' # "editing" => SaveProgresses'
    BY SameProgress DEF SaveIInv
<1> QED
    BY <1>1, <1>2, <1>3 DEF SaveIInv

\* The form was just listed.
LEMMA FreshFormHoldsNext == ASSUME FilesTypeOK', FormPart', JustListed' PROVE FormHolds'
BY FreshFormHolds, PTL

LEMMA EditsKeepSaves ==
    ASSUME EditorIInv, EditorIInv', SaveIInv, Edit, CoversAreChosen'
    PROVE  SaveIInv'
<1>1. /\ phase' = "editing" /\ slot' = slot /\ slot = NoSlot /\ file' = file /\ base' = base
      /\ disturbed' = (disturbed \/ base # Listing)
    BY Parts DEF Edit, QueuePart, QueueTypes, tables
<1>2. FilesTypeOK' /\ FormPart'
    <2>1. EditorIInv' => FilesIInv' /\ FormPart'
        BY Parts, PTL
    <2> QED
        BY <2>1 DEF FilesIInv
<1>3. ~disturbed' => FormHolds'
    <2>1. Listing' = Listing
        BY <1>1 DEF Listing, Live, Stored
    <2> QED
        BY <1>1, <1>2, <2>1, FreshFormHoldsNext DEF JustListed
<1>4. KeysAreUnique'
    BY <1>1 DEF SaveIInv, KeysAreUnique, Stored
<1>5. OwnCallSeesCovers'
    BY <1>1 DEF OwnCallSeesCovers
<1> QED
    BY <1>1, <1>3, <1>4, <1>5 DEF SaveIInv

\* A cover that was not listed is the one that was selected, or the first pick's.
LEMMA EditsChooseCovers ==
    ASSUME FormTypes, CoversAreChosen,
           \/ \E f \in Files, c \in Captions : EditCaption(f, c)
           \/ \E k \in Keys, c \in Captions : EditPick(k, c) \/ AddFile(k, c)
           \/ \E x \in Files \cup Keys : SelectCover(x)
           \/ \E f \in Files : RemoveExisting(f)
           \/ \E k \in Keys : RemoveNew(k)
    PROVE  Edit /\ CoversAreChosen'
<1>1. /\ \A f \in DOMAIN photos : photos[f] \in Shown
      /\ \A k \in DOMAIN picks : picks[k] \in Requests
    BY DEF FormTypes
<1>2. ASSUME base' = base, Chosen' \subseteq Chosen,
             DOMAIN photos' \subseteq DOMAIN photos,
             \A f \in DOMAIN photos' : photos'[f].cover = photos[f].cover
      PROVE  CoversAreChosen'
    BY <1>2 DEF CoversAreChosen
<1>3. ASSUME NEW f \in Files, NEW c \in Captions, EditCaption(f, c) PROVE Edit /\ CoversAreChosen'
    <2>1. /\ Edit /\ f \in DOMAIN photos /\ photos' = [photos EXCEPT ![f].caption = c]
          /\ picks' = picks /\ base' = base
        BY <1>3 DEF EditCaption, Edit
    <2>2. [photos[f] EXCEPT !.caption = c].cover = photos[f].cover
        BY <1>1, <2>1 DEF Shown
    <2>3. DOMAIN photos' = DOMAIN photos /\ \A g \in DOMAIN photos : photos'[g].cover = photos[g].cover
        BY <2>1, <2>2
    <2>4. Chosen' = Chosen
        BY <2>1, <2>3 DEF Chosen
    <2> QED
        BY <1>2, <2>1, <2>3, <2>4
<1>4. ASSUME NEW k \in Keys, NEW c \in Captions, EditPick(k, c) PROVE Edit /\ CoversAreChosen'
    <2>1. /\ Edit /\ k \in DOMAIN picks /\ picks' = [picks EXCEPT ![k].caption = c]
          /\ photos' = photos /\ base' = base
        BY <1>4 DEF EditPick, Edit
    <2>2. [picks[k] EXCEPT !.caption = c].cover = picks[k].cover
        BY <1>1, <2>1 DEF Requests
    <2>3. DOMAIN picks' = DOMAIN picks /\ \A j \in DOMAIN picks : picks'[j].cover = picks[j].cover
        BY <2>1, <2>2
    <2>4. Chosen' = Chosen
        BY <2>1, <2>3 DEF Chosen
    <2> QED
        BY <1>2, <2>1, <2>4
<1>5. ASSUME NEW k \in Keys, NEW c \in Captions, AddFile(k, c) PROVE Edit /\ CoversAreChosen'
    <2>1. PICK first \in BOOLEAN : first = (NoCoverYet /\ DOMAIN picks = {})
        OBVIOUS
    <2>2. /\ Edit /\ photos' = photos /\ base' = base /\ k \notin DOMAIN picks
          /\ picks' = [j \in DOMAIN picks \cup {k} |->
                         IF j = k THEN [caption |-> c, cover |-> first] ELSE picks[j]]
        BY <1>5, <2>1 DEF AddFile, Edit
    <2>3. /\ DOMAIN picks' = DOMAIN picks \cup {k} /\ picks'[k].cover = first
          /\ \A j \in DOMAIN picks : picks'[j].cover = picks[j].cover
        BY <2>2
    <2>4. CASE first
        <3>1. Chosen = {}
            BY <2>1, <2>4 DEF NoCoverYet, Chosen
        <3>2. Chosen' \subseteq {k}
            BY <2>1, <2>2, <2>3, <2>4 DEF NoCoverYet, Chosen
        <3> QED
            BY <2>2, <3>2 DEF CoversAreChosen
    <2>5. CASE ~first
        <3>1. Chosen' \subseteq Chosen
            BY <2>2, <2>3, <2>5 DEF Chosen
        <3> QED
            BY <1>2, <2>2, <3>1
    <2> QED
        BY <2>4, <2>5
<1>6. ASSUME NEW x \in Files \cup Keys, SelectCover(x) PROVE Edit /\ CoversAreChosen'
    <2>1. /\ Edit /\ photos' = [f \in DOMAIN photos |-> [photos[f] EXCEPT !.cover = f = x]]
          /\ picks' = [k \in DOMAIN picks |-> [picks[k] EXCEPT !.cover = k = x]]
        BY <1>6 DEF SelectCover
    <2>2. ASSUME NEW f \in DOMAIN photos PROVE photos'[f].cover => f = x
        <3>1. photos'[f] = [photos[f] EXCEPT !.cover = f = x]
            BY <2>1
        <3>2. [photos[f] EXCEPT !.cover = f = x].cover = (f = x)
            BY <1>1 DEF Shown
        <3> QED
            BY <3>1, <3>2
    <2>3. ASSUME NEW k \in DOMAIN picks PROVE picks'[k].cover => k = x
        <3>1. picks'[k] = [picks[k] EXCEPT !.cover = k = x]
            BY <2>1
        <3>2. [picks[k] EXCEPT !.cover = k = x].cover = (k = x)
            BY <1>1 DEF Requests
        <3> QED
            BY <3>1, <3>2
    <2>4. DOMAIN photos' = DOMAIN photos /\ DOMAIN picks' = DOMAIN picks
        BY <2>1
    <2>5. Chosen' \subseteq {x}
        BY <2>2, <2>3, <2>4 DEF Chosen
    <2> QED
        BY <2>1, <2>5 DEF CoversAreChosen
<1>7. ASSUME NEW f \in Files, RemoveExisting(f) PROVE Edit /\ CoversAreChosen'
    <2>1. Edit /\ photos' = [g \in DOMAIN photos \ {f} |-> photos[g]] /\ picks' = picks /\ base' = base
        BY <1>7 DEF RemoveExisting, Edit
    <2>2. /\ DOMAIN photos' \subseteq DOMAIN photos
          /\ \A g \in DOMAIN photos' : photos'[g].cover = photos[g].cover
        BY <2>1
    <2>3. Chosen' \subseteq Chosen
        BY <2>1, <2>2 DEF Chosen
    <2> QED
        BY <1>2, <2>1, <2>2, <2>3
<1>8. ASSUME NEW k \in Keys, RemoveNew(k) PROVE Edit /\ CoversAreChosen'
    <2>1. Edit /\ picks' = [j \in DOMAIN picks \ {k} |-> picks[j]] /\ photos' = photos /\ base' = base
        BY <1>8 DEF RemoveNew, Edit
    <2>2. /\ DOMAIN picks' \subseteq DOMAIN picks
          /\ \A j \in DOMAIN picks' : picks'[j].cover = picks[j].cover
        BY <2>1
    <2>3. Chosen' \subseteq Chosen
        BY <2>1, <2>2 DEF Chosen
    <2> QED
        BY <1>2, <2>1, <2>3
<1> QED
    BY <1>3, <1>4, <1>5, <1>6, <1>7, <1>8

LEMMA RefetchKeepsSaves ==
    ASSUME EditorIInv, EditorIInv', SaveIInv, Refetch
    PROVE  SaveIInv'
<1>1. /\ phase # "saved" /\ base' = Listing /\ photos' = Listing /\ disturbed' = (phase = "saving")
      /\ file' = file /\ slot' = slot /\ phase' = phase
    BY DEF Refetch, filesVars, tables
<1>2. FilesTypeOK' /\ FormPart'
    <2>1. EditorIInv' => FilesIInv' /\ FormPart'
        BY Parts, PTL
    <2> QED
        BY <2>1 DEF FilesIInv
<1>3. FormHolds'
    <2>1. Listing' = Listing
        BY <1>1 DEF Listing, Live, Stored
    <2> QED
        BY <1>1, <1>2, <2>1, FreshFormHoldsNext DEF JustListed
<1>4. KeysAreUnique'
    BY <1>1 DEF SaveIInv, KeysAreUnique, Stored
<1>5. CoversAreChosen'
    BY <1>1 DEF CoversAreChosen
<1>6. ~disturbed' => phase' = "editing" /\ OwnCallSeesCovers'
    BY <1>1, Parts DEF QueuePart, QueueTypes, OwnCallSeesCovers
<1> QED
    BY <1>3, <1>4, <1>5, <1>6 DEF SaveIInv

LEMMA SaveKeepsSaves ==
    ASSUME EditorIInv, SaveIInv, Save
    PROVE  SaveIInv'
<1>1. /\ file' = file /\ UNCHANGED editVars /\ todo' = SaveRequests /\ slot' = slot /\ disturbed' = disturbed
      /\ phase = "editing"
    BY DEF Save, tables
<1>2. slot = NoSlot /\ FilesTypeOK /\ FormPart
    BY <1>1, Parts DEF QueuePart, QueueTypes, FilesIInv
<1>3. KeysAreUnique' /\ CoversAreChosen' /\ (FormHolds => FormHolds')
    BY <1>1, SameForm, FormStays DEF SaveIInv
<1>4. FormHolds => SaveProgresses'
    BY <1>1, <1>2, SaveBegins
<1>5. OwnCallSeesCovers'
    BY <1>1, <1>2 DEF OwnCallSeesCovers
<1> QED
    BY <1>1, <1>3, <1>4, <1>5 DEF SaveIInv

LEMMA ServeKeepsSaves ==
    ASSUME EditorIInv, SaveIInv, NEW s \in Slots, Serve(s)
    PROVE  SaveIInv'
<1>1. FilesIInv /\ FilesTypeOK /\ FormPart /\ QueuePart /\ FormTypes
    BY Parts DEF FilesIInv, FormPart
<1>2. UNCHANGED editVars
    BY DEF Serve
<1>3. slot = s => slot # NoSlot /\ phase = "saving"
    BY <1>1, OthersAreClients DEF QueuePart, QueueTypes
<1>4. Continues(s) \/ Succeeds(s) \/ Fails(s)
    BY DEF Serve
<1>5. KeysAreUnique'
    <2>1. CASE Commits(s)
        BY <1>1, <2>1, KeysStayUnique DEF SaveIInv
    <2>2. CASE ~Commits(s)
        <3>1. file' = file
            BY <1>1, <1>4, <2>2, ServerMovesOn
        <3> QED
            BY <3>1 DEF SaveIInv, KeysAreUnique, Stored
    <2> QED
        BY <2>1, <2>2
<1>6. CoversAreChosen'
    BY <1>2, FormStays DEF SaveIInv
<1>7. CASE Continues(s) /\ UNCHANGED <<todo, slot, phase, disturbed>>
    <2>1. file' = file
        BY <1>7 DEF Continues, CheckUpload, PutOriginal, StartClearing, FinishClearing, ReadForVariant,
                    ReadForReview, ReadForDelete, GoOn
    <2>2. GoesOn(s)
        BY <1>1, <1>7, ContinuesKeepsFiles
    <2>3. OwnCallSeesCovers => OwnCallSeesCovers'
        <3>1. CASE slot = s
            BY <1>1, <1>7, <3>1, OwnCallGoesOn
        <3>2. CASE slot # s
            <4>1. slot # NoSlot => call'[slot] = call[slot]
                BY <1>1, <2>2, <3>2 DEF GoesOn, QueuePart, QueueTypes
            <4> QED
                BY <1>7, <2>1, <4>1, OwnCallStaysAsItIs
        <3> QED
            BY <3>1, <3>2
    <2> QED
        BY <1>2, <1>7, <2>1, <2>3, QuietStep
<1>8. ASSUME Succeeds(s) \/ Fails(s), slot # s,
             UNCHANGED <<todo, slot, phase>>, disturbed' = (disturbed \/ file' # file)
      PROVE  SaveIInv'
    <2>1. \A t \in Slots \ {s} : call'[t] = call[t]
        <3>1. EndsUnwritten(s) \/ Commits(s)
            BY <1>8, EndsOfCalls
        <3>2. End(s)
            BY <1>1, <3>1, UnwrittenEnd, CommitShape
        <3> QED
            BY <1>1, <3>2, EndEffect
    <2>2. slot # NoSlot => call'[slot] = call[slot]
        BY <1>1, <1>8, <2>1 DEF QueuePart, QueueTypes
    <2>3. CASE disturbed'
        BY <1>5, <1>6, <2>3 DEF SaveIInv
    <2>4. CASE ~disturbed'
        <3>1. file' = file /\ ~disturbed
            BY <1>8, <2>4
        <3>2. OwnCallSeesCovers => OwnCallSeesCovers'
            BY <1>8, <2>2, <3>1, OwnCallStaysAsItIs
        <3> QED
            BY <1>2, <1>8, <3>1, <3>2, QuietStep
    <2> QED
        BY <2>3, <2>4
<1>9. CASE Succeeds(s) /\ Answered(s)
    <2>1. CASE slot = s
        <3>1. slot' = NoSlot /\ phase' = phase /\ disturbed' = disturbed
            BY <1>9, <2>1 DEF Answered
        <3>2. OwnCallSeesCovers'
            BY <3>1 DEF OwnCallSeesCovers
        <3>3. ~disturbed => SaveProgresses' /\ FormHolds'
            BY <1>1, <1>2, <1>3, <1>5, <1>9, <2>1, SaveGoesOn DEF SaveIInv
        <3> QED
            BY <1>5, <1>6, <3>1, <3>2, <3>3 DEF SaveIInv
    <2>2. CASE slot # s
        BY <1>8, <1>9, <2>2 DEF Answered
    <2> QED
        BY <2>1, <2>2
<1>10. CASE Fails(s) /\ Refused(s)
    <2>1. CASE slot = s
        <3>1. slot' = NoSlot /\ phase' = "editing" /\ disturbed' = disturbed
            BY <1>10, <2>1 DEF Refused, SaveFailed
        <3>2. OwnCallSeesCovers'
            BY <3>1 DEF OwnCallSeesCovers
        <3>3. ~disturbed => FormHolds'
            <4>1. CASE Commits(s)
                <5>1. PICK dto : dto = call[slot].dto
                    OBVIOUS
                <5>2. Effect(dto)
                    BY <1>1, <2>1, <4>1, <5>1, CommitsHaveTheirEffect
                <5>3. ~disturbed => OfTheForm(dto)
                    BY <1>1, <1>3, <2>1, <5>1, OwnRequest DEF SaveIInv, SaveProgresses
                <5> QED
                    BY <1>1, <1>2, <5>2, <5>3, FormKeepsHolding DEF SaveIInv
            <4>2. CASE ~Commits(s)
                <5>1. file' = file
                    BY <1>1, <1>4, <4>2, ServerMovesOn
                <5> QED
                    BY <1>2, <5>1, SameForm DEF SaveIInv
            <4> QED
                BY <4>1, <4>2
        <3> QED
            BY <1>5, <1>6, <3>1, <3>2, <3>3 DEF SaveIInv
    <2>2. CASE slot # s
        BY <1>8, <1>10, <2>2 DEF Refused
    <2> QED
        BY <2>1, <2>2
<1> QED
    BY <1>7, <1>9, <1>10 DEF Serve

LEMMA RestKeepsSaves ==
    ASSUME EditorIInv, SaveIInv,
           \/ Saved \/ LoseConnection \/ ServerRestarts \/ LotDisposed
           \/ \E s \in Slots : Send(s)
           \/ \E s \in Slots, dto \in OtherDtos : OtherRequest(s, dto)
           \/ UNCHANGED vars
    PROVE  SaveIInv'
<1>1. FilesTypeOK /\ QueuePart
    BY Parts DEF FilesIInv
<1>2. slot # NoSlot => slot \in Slots /\ Busy(slot)
    BY <1>1 DEF QueuePart, QueueTypes
<1>3. CASE Saved
    <2>1. file' = file /\ slot' = NoSlot
        BY <1>3 DEF Saved, filesVars, tables
    <2>2. OwnCallSeesCovers'
        BY <2>1 DEF OwnCallSeesCovers
    <2> QED
        BY <1>3, <2>1, <2>2, QuietStep DEF Saved
<1>4. CASE LoseConnection \/ (ServerRestarts /\ slot # NoSlot)
    <2>1. file' = file /\ slot' = NoSlot /\ phase' = "editing" /\ disturbed' = disturbed /\ UNCHANGED editVars
        BY <1>4 DEF LoseConnection, ServerRestarts, Restart, SaveFailed, tables
    <2>2. OwnCallSeesCovers'
        BY <2>1 DEF OwnCallSeesCovers
    <2> QED
        BY <2>1, <2>2, QuietStep
<1>5. CASE ServerRestarts /\ slot = NoSlot
    <2>1. /\ file' = file /\ slot' = NoSlot /\ phase' = phase /\ todo' = todo /\ disturbed' = disturbed
          /\ UNCHANGED editVars
        BY <1>5 DEF ServerRestarts, Restart, tables
    <2>2. OwnCallSeesCovers'
        BY <2>1 DEF OwnCallSeesCovers
    <2> QED
        BY <2>1, <2>2, QuietStep
<1>6. CASE LotDisposed \/ UNCHANGED vars
    <2>1. /\ file' = file /\ call' = call /\ UNCHANGED <<todo, slot, phase, disturbed>>
          /\ UNCHANGED editVars
        BY <1>6 DEF LotDisposed, Dispose, vars, filesVars, clientVars, tables, editVars
    <2>2. OwnCallSeesCovers => OwnCallSeesCovers'
        BY <2>1, OwnCallStaysAsItIs
    <2> QED
        BY <2>1, <2>2, QuietStep
<1>7. ASSUME NEW s \in Slots, Send(s) PROVE SaveIInv'
    <2>1. /\ file' = file /\ UNCHANGED <<todo, phase, disturbed>> /\ UNCHANGED editVars
          /\ slot' = s /\ Arrive(s, Head(todo))
        BY <1>7 DEF Send, tables
    <2>2. call'[s].at = "new"
        BY <1>1, <2>1 DEF Arrive, FilesTypeOK
    <2>3. OwnCallSeesCovers'
        BY <2>1, <2>2 DEF OwnCallSeesCovers, At
    <2> QED
        BY <2>1, <2>3, QuietStep
<1>8. ASSUME NEW s \in Slots, NEW dto \in OtherDtos, OtherRequest(s, dto) PROVE SaveIInv'
    <2>1. PICK sent : sent = IF dto.op = "review" THEN [dto EXCEPT !.version = file[dto.file].version] ELSE dto
        OBVIOUS
    <2>2. /\ file' = file /\ UNCHANGED <<todo, slot, phase, disturbed>> /\ UNCHANGED editVars
          /\ Arrive(s, sent)
        BY <1>8, <2>1 DEF OtherRequest, tables
    <2>3. slot # NoSlot => call'[slot] = call[slot]
        BY <1>1, <1>2, <2>2 DEF Arrive, FilesTypeOK
    <2>4. OwnCallSeesCovers => OwnCallSeesCovers'
        BY <2>2, <2>3, OwnCallStaysAsItIs
    <2> QED
        BY <2>2, <2>4, QuietStep
<1> QED
    BY <1>3, <1>4, <1>5, <1>6, <1>7, <1>8

LEMMA EveryStepKeepsSaves ==
    ASSUME EditorIInv, EditorIInv', SaveIInv, [Next]_vars
    PROVE  SaveIInv'
<1>1. FormTypes
    BY Parts DEF FormPart
<1>2. CASE \/ \E f \in Files, c \in Captions : EditCaption(f, c)
           \/ \E k \in Keys, c \in Captions : EditPick(k, c) \/ AddFile(k, c)
           \/ \E x \in Files \cup Keys : SelectCover(x)
           \/ \E f \in Files : RemoveExisting(f)
           \/ \E k \in Keys : RemoveNew(k)
    BY <1>1, <1>2, EditsChooseCovers, EditsKeepSaves DEF SaveIInv
<1> QED
    BY <1>2, RefetchKeepsSaves, SaveKeepsSaves, ServeKeepsSaves, RestKeepsSaves DEF Next

LEMMA SavesStart ==
    ASSUME Init, EditorIInv
    PROVE  SaveIInv
<1>1. /\ base = Listing /\ photos = base /\ slot = NoSlot /\ phase = "editing"
    BY DEF Init
<1>2. KeysAreUnique
    <2>1. PICK lot \in InitialLots :
             file = [f \in Files |-> IF f \in lot.files THEN OldRow(f \in lot.covers) ELSE NoRow]
        BY DEF Init, FilesInit
    <2>2. \A c : OldRow(c).key = NoKey
        BY DEF OldRow
    <2>3. \A f \in Stored : file[f].key = NoKey
        BY <2>1, <2>2 DEF Stored
    <2> QED
        BY <2>3 DEF KeysAreUnique
<1>3. CoversAreChosen
    BY <1>1 DEF CoversAreChosen
<1>4. FormHolds
    BY <1>1, Parts, FreshFormHolds DEF FilesIInv, JustListed
<1>5. OwnCallSeesCovers
    BY <1>1 DEF OwnCallSeesCovers
<1> QED
    BY <1>1, <1>2, <1>3, <1>4, <1>5 DEF SaveIInv

\* With nothing left to send, what the form shows is so.
LEMMA SavedIsAsShown ==
    ASSUME EditorIInv, SaveIInv, phase = "saved", ~disturbed
    PROVE  AsShown
<1>1. FilesTypeOK /\ FormPart /\ FormTypes
    BY Parts DEF FilesIInv, FormPart
<1>2. KeysAreUnique /\ FormHolds /\ SaveProgresses
    BY DEF SaveIInv
<1>3. /\ \A r : ~Queued(r)
      /\ \A k : ~Awaited(k)
    <2>1. todo = <<>>
        BY Parts DEF QueuePart, QueueTypes
    <2>2. Len(todo) = 0
        BY <2>1
    <2>3. \A r : ~Queued(r)
        BY <2>2 DEF Queued
    <2> QED
        BY <2>1, <2>3 DEF Awaited, PickIsAdded
<1>4. \A f \in deleted : f \notin Live
    BY <1>2, <1>3 DEF SaveProgresses
<1>5. \A f \in ShownPhotos : f \in Live /\ file[f].caption = photos[f].caption
    BY <1>1, <1>2, <1>3, ShownAreListed DEF SaveProgresses, FormHolds
<1>6. ASSUME NEW k \in DOMAIN picks
      PROVE  \E f \in Live : /\ PicksRow(k) = {f} /\ file[f].confirmed /\ file[f].cropped
                             /\ file[f].caption = picks[k].caption
                             /\ ~picks[k].cover => ~file[f].cover
    <2>1. PICK f \in Live : /\ file[f].key = k /\ file[f].confirmed /\ file[f].cropped
                            /\ file[f].caption = picks[k].caption
                            /\ ~picks[k].cover => ~file[f].cover
        BY <1>2, <1>3 DEF SaveProgresses, HasRow
    <2>2. k # NoKey
        BY <1>1, LotFilesAssumption DEF FormTypes
    <2>3. PicksRow(k) = {f}
        BY <1>2, <2>1, <2>2 DEF PicksRow, KeysAreUnique, Live
    <2> QED
        BY <2>1, <2>3
<1>7. ASSUME NEW x, ShownCovers = {x}, NEW f \in ShownPhotos \cup RowsOfPicks
      PROVE  file[f].cover <=> (f \in ShownCovers \/ file[f].key \in ShownCovers)
    <2>1. f \in Stored /\ f \in Files /\ file[f].key \in Keys \cup {NoKey}
        <3>1. f \in Stored /\ f \in Files
            BY <1>1, ShownAreListed DEF RowsOfPicks, PicksRow, Stored
        <3> QED
            BY <1>1, <3>1, RowTypes DEF FileRows
    <2>2. CoverIsOnItsWay(x)
        BY <1>2, <1>7 DEF SaveProgresses
    <2>3. CASE x \in DOMAIN picks
        <3>1. Covers = PicksRow(x)
            BY <1>3, <2>2, <2>3 DEF CoverIsOnItsWay
        <3>2. file[f].cover <=> file[f].key = x
            BY <2>1, <3>1 DEF Covers, PicksRow
        <3>3. f # x
            BY <1>1, <2>1, <2>3, LotFilesAssumption DEF FormTypes
        <3> QED
            BY <1>7, <3>2, <3>3
    <2>4. CASE x \in ShownPhotos
        <3>1. file[x].cover /\ \A g \in ShownPhotos \ {x} : ~file[g].cover
            BY <1>3, <2>2, <2>4 DEF CoverIsOnItsWay
        <3>2. x \in Files /\ x \notin DOMAIN picks
            BY <1>1, <2>4, ShownAreListed, LotFilesAssumption DEF FormTypes
        <3>3. file[f].key # x
            BY <2>1, <3>2, LotFilesAssumption
        <3>4. CASE f \in ShownPhotos
            BY <1>7, <3>1, <3>3, <3>4
        <3>5. CASE f \in RowsOfPicks
            <4>1. PICK k \in DOMAIN picks : f \in PicksRow(k)
                BY <3>5 DEF RowsOfPicks
            <4>2. ~picks[k].cover
                BY <1>7, <3>2 DEF ShownCovers
            <4>3. ~file[f].cover
                BY <1>6, <4>1, <4>2
            <4>4. f # x
                BY <2>4, <4>1 DEF ShownPhotos, RowsOfPicks
            <4> QED
                BY <1>7, <3>3, <4>3, <4>4
        <3> QED
            BY <3>4, <3>5
    <2>5. x \in ShownPhotos \/ x \in DOMAIN picks
        BY <1>7 DEF ShownCovers
    <2> QED
        BY <2>3, <2>4, <2>5
<1>8. ASSUME Cardinality(ShownCovers) = 1 PROVE \E x : ShownCovers = {x}
    <2>1. ShownCovers \subseteq Files \cup Keys
        BY <1>1 DEF ShownCovers, ShownPhotos, FormTypes
    <2>2. IsFiniteSet(Files \cup Keys)
        BY FilesAreFinite, FS_Union, LotFilesAssumption
    <2>3. IsFiniteSet(ShownCovers)
        BY <2>1, <2>2, FS_Subset
    <2> QED
        BY <1>8, <2>3, FS_Singleton
<1> QED
    BY <1>4, <1>5, <1>6, <1>7, <1>8 DEF AsShown

\* A save of the holding editor that ends without an error has done what the form shows, also
\* after attempts that failed half way: removed photos are gone, listed ones are as edited,
\* every pick has its one confirmed file, and the cover is the one that is shown
\* (saveHolding of AssetEditWizard.tsx, attachment-review.ts and the handlers they call).
THEOREM SavesDoAsShown == Spec => []SavesDoWhatTheFormShows
<1>1. Init /\ EditorIInv => SaveIInv
    BY SavesStart
<1>2. EditorIInv /\ EditorIInv' /\ SaveIInv /\ [Next]_vars => SaveIInv'
    BY EveryStepKeepsSaves
<1>3. EditorIInv /\ SaveIInv => SavesDoWhatTheFormShows
    BY SavedIsAsShown DEF SavesDoWhatTheFormShows
<1> QED
    BY <1>1, <1>2, <1>3, EditorIsInOrder, PTL DEF Spec
=============================================================================
