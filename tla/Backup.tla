-------------------------------- MODULE Backup --------------------------------
(***************************************************************************)
(* Backup and restore: BackupService.export, inspect and restore as the    *)
(* controller calls them, against the database, the bucket and the page's  *)
(* RestorePanel, while other requests and the price worker go on writing.  *)
(*                                                                         *)
(* The export reads all tables in one REPEATABLE READ snapshot and the     *)
(* objects afterwards, one by one.  The restore empties and refills the    *)
(* tables in one READ COMMITTED transaction: each of its statements sees   *)
(* what others committed before it, so rows written meanwhile may meet the *)
(* foreign keys, or survive.  Objects are put after the commit.            *)
(*                                                                         *)
(* A row is its identity (its id or unique key) and the rows it refers to. *)
(* Rows that are stored files, attachments and their variants, are also    *)
(* the keys of their objects, whose bytes never change.                    *)
(***************************************************************************)
EXTENDS Integers, Sequences

CONSTANTS
    Row,          \* rows the deployment may ever have
    Table,        \* the table of each row
    Refs,         \* the rows each row is written with references to
    Initially,    \* the rows of the deployment at first
    Anew,        \* the rows of a deployment set up anew after a disaster
    OldFiles,     \* bound: a sequence of archives the owner already has
    Scenarios,    \* bound: how many [writes, exports, restores, faults, reloads,
                  \*        disasters] there are in a behaviour
    NoFile

-----------------------------------------------------------------------------
(* Tables and references *)

\* Fault: sessions are captured as well.
WITH_SESSIONS == <<"appUser", "userSession", "purchaseIntake", "metal", "organization",
                   "purchase", "purchaseItem", "asset", "attachment", "attachmentVariant",
                   "fxRateSnapshot">>

\* Fault: a table of the schema was forgotten.
WITHOUT_VARIANTS == <<"appUser", "purchaseIntake", "metal", "organization", "purchase",
                      "purchaseItem", "asset", "attachment", "fxRateSnapshot">>

\* Fault: assets are put back before the purchases they came from.
ASSETS_FIRST == <<"appUser", "purchaseIntake", "metal", "organization", "asset", "purchase",
                  "purchaseItem", "attachment", "attachmentVariant", "fxRateSnapshot">>

\* In dependency order: inserted so, deleted in reverse.
TABLES == <<"appUser", "userPasskey", "purchaseIntake", "metal", "organization",
            "organizationAlias", "organizationCapability", "productDefinition",
            "productOrganization", "purchase", "purchaseItem",
            "purchaseItemOrganizationSnapshot", "purchasePriceSnapshot", "asset",
            "assetMovement", "attachment", "attachmentVariant", "spotPriceSnapshot",
            "fxRateSnapshot", "priceProviderStatus", "systemSetting">>

SessionTables == {"userSession", "webAuthnChallenge"}

\* The references the schema declares, and what becomes of a row when the one it refers to
\* is deleted.
Key(child, parent, rule) == [child |-> child, parent |-> parent, rule |-> rule]

AccountKeys == {Key("userSession", "appUser", "Cascade"), Key("userPasskey", "appUser", "Cascade"),
                Key("webAuthnChallenge", "appUser", "Cascade")}
CatalogKeys == {Key("organizationAlias", "organization", "Cascade"),
                Key("organizationCapability", "organization", "Cascade"),
                Key("productDefinition", "metal", "Restrict"),
                Key("productOrganization", "productDefinition", "Cascade"),
                Key("productOrganization", "organization", "Restrict")}
PurchaseKeys == {Key("purchase", "purchaseIntake", "SetNull"),
                 Key("purchaseIntake", "appUser", "Cascade"),
                 Key("purchaseItem", "purchase", "Cascade"),
                 Key("purchaseItem", "productDefinition", "SetNull"),
                 Key("purchaseItem", "metal", "Restrict"),
                 Key("purchaseItemOrganizationSnapshot", "purchaseItem", "Cascade"),
                 Key("purchaseItemOrganizationSnapshot", "organization", "SetNull")}
HoldingKeys == {Key("asset", "purchaseItem", "SetNull"), Key("asset", "purchase", "SetNull"),
                Key("asset", "productDefinition", "SetNull"), Key("asset", "metal", "Restrict"),
                Key("assetMovement", "asset", "Cascade")}
FileKeys == {Key("attachment", "purchaseIntake", "Cascade"),
             Key("attachment", "purchase", "Cascade"), Key("attachment", "asset", "Cascade"),
             Key("attachment", "appUser", "SetNull"),
             Key("attachmentVariant", "attachment", "Cascade")}
PriceKeys == {Key("spotPriceSnapshot", "metal", "Cascade"),
              Key("purchasePriceSnapshot", "purchase", "Cascade"),
              Key("purchasePriceSnapshot", "metal", "Restrict")}

ForeignKeys ==
    AccountKeys \cup CatalogKeys \cup PurchaseKeys \cup HoldingKeys \cup FileKeys \cup PriceKeys

OnDelete(child, parent, rule) == Key(Table[child], Table[parent], rule) \in ForeignKeys

\* The models of the schema, except the audit log, which backups leave out and restores leave
\* as it is.
SchemaTables ==
    SessionTables \cup
    {"appUser", "userPasskey", "metal", "organization", "organizationAlias",
     "organizationCapability", "productDefinition", "productOrganization", "purchase",
     "purchaseIntake", "purchaseItem", "purchaseItemOrganizationSnapshot", "asset",
     "assetMovement", "attachment", "attachmentVariant", "spotPriceSnapshot",
     "priceProviderStatus", "purchasePriceSnapshot", "fxRateSnapshot", "systemSetting"}

\* Every row refers to rows as the schema lets it; a session is of an account, a challenge need
\* not be.
ASSUME RowsFitTheSchema ==
    /\ \A r \in Row : Table[r] \in SchemaTables /\ Refs[r] \subseteq Row
    /\ \A r \in Row : \A q \in Refs[r] :
          \E rule \in {"Cascade", "Restrict", "SetNull"} : OnDelete(r, q, rule)
    /\ \A r \in Row : Table[r] = "userSession" => \E q \in Refs[r] : Table[q] = "appUser"

\* The challenge of a login is issued before the caller is known: it refers to no account.
LoginChallenges == {r \in Row : Table[r] = "webAuthnChallenge" /\ Refs[r] = {}}

\* Nothing of the replaced account's sessions.
OfNoSession(r) == Table[r] \in SessionTables => r \in LoginChallenges

Captured == {r \in Row : Table[r] \notin SessionTables}

\* The tables by their place; those no row is ever in are passed over.
Places == {p \in DOMAIN TABLES : \E r \in Row : Table[r] = TABLES[p]}
Lowest(P)  == {p \in P : \A q \in P : p <= q}
Highest(P) == {p \in P : \A q \in P : q <= p}

ObjectKeys == {r \in Row : Table[r] \in {"attachment", "attachmentVariant"}}

\* Some rows, each with the references it holds.
NoRows     == [r \in {} |-> {}]
Written(S) == [r \in S |-> Refs[r]]
Beside(more, rows) ==
    [r \in DOMAIN more \cup DOMAIN rows |-> IF r \in DOMAIN more THEN more[r] ELSE rows[r]]
Only(rows, S) == [r \in DOMAIN rows \cap S |-> rows[r]]

RowsOf(rows, t) == {r \in DOMAIN rows : Table[r] = t}

\* Rows the schema lets be: and such that refer to each other only.
AreRows(rows)  == /\ rows = [r \in DOMAIN rows |-> rows[r]] /\ DOMAIN rows \subseteq Row
                  /\ \A r \in DOMAIN rows : rows[r] \subseteq Refs[r]
IsClosed(rows) == \A r \in DOMAIN rows : rows[r] \subseteq DOMAIN rows

\* What the deployments start with has all it refers to, and an account when it is in use;
\* archives of the time when drafts were not captured refer to those and nothing else that
\* is not in them.
ASSUME BackupAssumption ==
    /\ NoFile \notin Nat
    /\ \A S \in {Initially, Anew} : S \subseteq Row /\ \A r \in S : Refs[r] \subseteq S
    /\ Anew \cap ObjectKeys = {}
    /\ OldFiles \in Seq({OldFiles[i] : i \in DOMAIN OldFiles})
    /\ \A i \in DOMAIN OldFiles :
          LET archive == OldFiles[i] IN
          /\ AreRows(archive.rows) /\ DOMAIN archive.rows \subseteq Captured
          /\ DOMAIN archive.rows \cap ObjectKeys \subseteq archive.objects
          /\ archive.objects \subseteq ObjectKeys
          /\ \A r \in DOMAIN archive.rows : \A q \in archive.rows[r] \ DOMAIN archive.rows :
                ~archive.intakes /\ Table[q] = "purchaseIntake"
    /\ \A s \in Scenarios :
          s \in [{"writes", "exports", "restores", "faults", "reloads", "disasters"} -> Nat]

-----------------------------------------------------------------------------
VARIABLES
    db,       \* the committed rows, each with the references it holds
    bucket,   \* keys of the stored objects
    files,    \* the archives the owner has, in the order they were made
    job,      \* the export or restore the server works on
    answer,   \* how the last restore ended
    page,     \* the RestorePanel
    during,   \* ghost: rows others committed since the restore's first statement
    since,    \* ghost: rows others committed since the safety copy's snapshot
    lost,     \* ghost: keys storage lost, could not read for an export, or did not take
              \*        in a restore, and that were not put again since
    left      \* what is left of the behaviour's scenario

backupVars == <<db, bucket, files, job, answer, page, during, since, lost, left>>

\* `rest' are the places of the tables yet to be read, emptied or filled.
NoJob == [kind |-> "none", at |-> "none", rest |-> {}, snapshot |-> NoRows, copied |-> NoRows,
          todo |-> {}, got |-> {}, file |-> 0, archived |-> NoRows, gone |-> {}, made |-> NoRows]

Waits == {"no", "inspection", "restore"}
Panels == [file : Nat \cup {NoFile}, manifest : Nat \cup {NoFile}, confirmed : BOOLEAN,
           waits : Waits, asked : Nat \cup {NoFile}, overtaken : BOOLEAN]
BlankPage == [file |-> NoFile, manifest |-> NoFile, confirmed |-> FALSE, waits |-> "no",
              asked |-> NoFile, overtaken |-> FALSE]

Outcomes == {"none", "done", "refused", "constraint", "failed", "partial"}

\* Every variable holds a value of its kind; an archive never holds a session.
BackupTypeOK ==
    /\ DOMAIN db \subseteq Row /\ \A r \in DOMAIN db : db[r] \subseteq Refs[r]
    /\ bucket \subseteq ObjectKeys /\ lost \subseteq ObjectKeys
    /\ \A i \in DOMAIN files : /\ DOMAIN files[i].rows \subseteq Captured
                               /\ files[i].objects \subseteq ObjectKeys
    /\ DOMAIN job.copied \subseteq Captured /\ job.rest \subseteq Places
    /\ job.gone \subseteq Row /\ job.got \subseteq ObjectKeys
    /\ answer \in Outcomes
    /\ page \in Panels
    /\ during \subseteq Row /\ since \subseteq Row
    /\ left \in [{"writes", "exports", "restores", "faults", "reloads", "disasters"} -> Nat]

BackupInit ==
    /\ db = Written(Initially)
    /\ bucket = Initially \cap ObjectKeys
    /\ files = OldFiles
    /\ job = NoJob /\ answer = "none" /\ page = BlankPage
    /\ during = {} /\ since = {} /\ lost = {}
    /\ left \in Scenarios

Spend(what) == left[what] > 0 /\ left' = [left EXCEPT ![what] = @ - 1]

JobAt(at) == job.at = at
Restoring == job.kind = "restore"
Go(next)  == job' = next /\ UNCHANGED <<files, answer, page, during, since>>

-----------------------------------------------------------------------------
(* export *)

NewJob(kind, file) ==
    [NoJob EXCEPT !.kind = kind, !.at = "tables", !.rest = Places, !.snapshot = db, !.file = file]

\* requireUser, requireReauthentication: the session's account is asked for its password.
IsAsked == RowsOf(db, "appUser") # {}

StartExport ==
    /\ job = NoJob /\ IsAsked /\ Spend("exports")
    /\ job' = NewJob("export", 0)
    /\ UNCHANGED <<db, bucket, files, answer, page, during, since, lost>>

\* Fault: READ COMMITTED, each table is read as it is by then.
ReadCommitted == db

\* RepeatableRead: as the tables were at the transaction's first statement.
ReadFrom == job.snapshot

ReadTable ==
    /\ JobAt("tables")
    /\ \E p \in Lowest(job.rest) :
          LET copied == Beside(Only(ReadFrom, RowsOf(ReadFrom, TABLES[p])), job.copied)
          IN  Go([job EXCEPT !.copied = copied, !.rest = @ \ {p},
                             !.at = IF job.rest = {p} THEN "objects" ELSE "tables",
                             !.todo = DOMAIN copied \cap ObjectKeys])
    /\ UNCHANGED <<db, bucket, lost, left>>

\* getObjectBytes: a missing blob must not abort the whole backup.
ReadObject ==
    /\ JobAt("objects") /\ job.todo # {}
    /\ LET key == CHOOSE k \in job.todo : TRUE IN
       \/ /\ key \in bucket
          /\ Go([job EXCEPT !.todo = @ \ {key}, !.got = @ \cup {key}])
          /\ UNCHANGED <<lost, left>>
       \/ /\ key \notin bucket
          /\ Go([job EXCEPT !.todo = @ \ {key}])
          /\ UNCHANGED <<lost, left>>
       \/ /\ key \in bucket /\ Spend("faults")
          /\ Go([job EXCEPT !.todo = @ \ {key}])
          /\ lost' = lost \cup {key}
    /\ UNCHANGED <<db, bucket>>

Sealed == [rows |-> job.copied, objects |-> job.got, intakes |-> TRUE, readable |-> TRUE]

FinishExport ==
    /\ JobAt("objects") /\ job.todo = {} /\ job.kind = "export"
    /\ files' = Append(files, Sealed)
    /\ job' = NoJob
    /\ UNCHANGED <<db, bucket, answer, page, during, since, lost, left>>

-----------------------------------------------------------------------------
(* restore *)

\* The safety copy is made first, with the same passphrase.
StartRestore(i) ==
    /\ job = NoJob /\ IsAsked /\ Spend("restores")
    /\ job' = NewJob("restore", i)
    /\ since' = {}
    /\ UNCHANGED <<db, bucket, files, answer, during, lost>>

HaveSafetyCopy ==
    /\ JobAt("objects") /\ job.todo = {} /\ Restoring
    /\ Go([job EXCEPT !.at = "parse"])
    /\ UNCHANGED <<db, bucket, lost, left>>

\* The restore answers; the page shows the message and, of all the answer holds, keeps
\* nothing: the safety copy in it is dropped.
AnswerRestore(outcome) ==
    /\ job' = NoJob /\ answer' = outcome
    /\ page' = IF page.waits = "restore" THEN [page EXCEPT !.waits = "no"] ELSE page

\* Fault: the archive is taken as it is.
AsArchived(archive) == archive.rows

\* Archives written before intakes were captured still refer to them: a purchase keeps
\* its record without the link, and attachments of an unfinished draft stay out.
withoutUnrestorableIntakeLinks(archive) ==
    LET rows == archive.rows
        ofDraft == {r \in RowsOf(rows, "attachment") :
                      \E q \in rows[r] : Table[q] = "purchaseIntake"}
        kept == {r \in DOMAIN rows :
                   r \notin ofDraft /\ ~(Table[r] = "attachmentVariant" /\ rows[r] \cap ofDraft # {})}
    IN  IF archive.intakes THEN rows
        ELSE [r \in kept |-> IF Table[r] = "purchase"
                             THEN {q \in rows[r] : Table[q] # "purchaseIntake"} ELSE rows[r]]

Parse ==
    /\ JobAt("parse")
    /\ \/ /\ ~files[job.file].readable
          /\ AnswerRestore("refused")
          /\ UNCHANGED during
       \/ /\ files[job.file].readable
          /\ job' = [job EXCEPT !.at = "deleting", !.rest = Places,
                        !.archived = withoutUnrestorableIntakeLinks(files[job.file])]
          /\ during' = {}
          /\ UNCHANGED <<answer, page>>
    /\ UNCHANGED <<db, bucket, files, since, lost, left>>

\* What the transaction sees: the committed rows without those it deleted, and those it
\* created.  A reference to a deleted row that may be NULL is NULL.
Kept == [r \in DOMAIN db \ job.gone |-> db[r] \ job.gone]
View == Beside(job.made, Kept)

\* The rows that go when the rows S go: a chain of such references has three links at most.
Orphans(view, S) == {r \in DOMAIN view : \E q \in view[r] \cap S : OnDelete(r, q, "Cascade")}
Deleted(view, S) ==
    LET first  == S \cup Orphans(view, S)
        second == first \cup Orphans(view, first)
    IN  second \cup Orphans(view, second)
Refused(view, S) == \E r \in DOMAIN view \ S : \E q \in view[r] \cap S : OnDelete(r, q, "Restrict")

Broken == AnswerRestore("constraint") /\ UNCHANGED <<db, bucket, files, during, since, lost, left>>

\* Fault: the account is kept.
AllButTheAccount(t) == RowsOf(View, t) \ {r \in Row : Table[r] = "appUser"}

\* deleteMany({}): every row there is when the statement starts.
RowsToDelete(t) == RowsOf(View, t)

DeleteTable ==
    /\ JobAt("deleting")
    /\ \E p \in Highest(job.rest) :
          LET S == Deleted(View, RowsToDelete(TABLES[p])) IN
          \/ Refused(View, S) /\ Broken
          \/ /\ ~Refused(View, S)
             /\ Go([job EXCEPT !.gone = @ \cup S, !.rest = @ \ {p}])
             /\ UNCHANGED <<db, bucket, lost, left>>

\* Sessions belong to the replaced account and must not survive it.
DeleteSessions ==
    /\ JobAt("deleting") /\ job.rest = {}
    /\ Go([job EXCEPT !.gone = @ \cup {r \in DOMAIN View : Table[r] \in SessionTables},
                      !.at = "creating", !.rest = Places])
    /\ UNCHANGED <<db, bucket, lost, left>>

\* A foreign key, or an identity that is taken, fails the statement.
Insertable(rows) ==
    \A r \in DOMAIN rows : r \notin DOMAIN View /\ rows[r] \subseteq DOMAIN View

CreateTable ==
    /\ JobAt("creating")
    /\ \E p \in Lowest(job.rest) :
          LET rows == Only(job.archived, RowsOf(job.archived, TABLES[p])) IN
          \/ ~Insertable(rows) /\ Broken
          \/ /\ Insertable(rows)
             /\ Go([job EXCEPT !.made = Beside(rows, @), !.rest = @ \ {p}])
             /\ UNCHANGED <<db, bucket, lost, left>>

Commit ==
    /\ JobAt("creating") /\ job.rest = {}
    /\ db' = View
    /\ Go([job EXCEPT !.at = "putting", !.todo = files[job.file].objects])
    /\ UNCHANGED <<bucket, lost, left>>

\* Fault: a put that storage refused counts as done.
Unput(key) == bucket

Put(key) == bucket \cup {key}

\* An archive that was made while the object could not be read does without it forever.
Lacking(key) ==
    \E i \in DOMAIN files : key \in DOMAIN files[i].rows \ files[i].objects

PutObject ==
    /\ JobAt("putting") /\ job.todo # {}
    /\ LET key == CHOOSE k \in job.todo : TRUE IN
       /\ bucket' = Put(key)
       /\ lost' = IF Lacking(key) THEN lost ELSE lost \ {key}
       /\ Go([job EXCEPT !.todo = @ \ {key}])
    /\ UNCHANGED <<db, left>>

\* revokeAllSessions, and the answer.
FinishRestore ==
    /\ JobAt("putting") /\ job.todo = {}
    /\ LET open == {r \in DOMAIN db : Table[r] \in {"userSession"}} IN
       db' = Only(db, DOMAIN db \ open)
    /\ AnswerRestore("done")
    /\ UNCHANGED <<bucket, files, during, since, lost, left>>

\* The database, storage or the API fails: a transaction that has not committed is rolled
\* back; objects that were not put yet are not put.
Fail ==
    /\ job # NoJob /\ Spend("faults")
    /\ AnswerRestore(IF JobAt("putting") THEN "partial"
                     ELSE IF Restoring THEN "failed" ELSE answer)
    /\ lost' = IF JobAt("putting") THEN lost \cup job.todo ELSE lost
    /\ UNCHANGED <<db, bucket, files, during, since>>

-----------------------------------------------------------------------------
(* Everything else that writes *)

\* Another request, or the worker, commits a row.  A reference to a row the restore has
\* deleted, and an identity it has created, wait for it: such a write is one of a later
\* state, or fails.  An upload stores its object first.  Nobody sets up a second account
\* (init.service.ts:68).
Write(r) ==
    /\ Spend("writes")
    /\ r \notin DOMAIN db /\ Refs[r] \subseteq DOMAIN db
    /\ Refs[r] \cap job.gone = {} /\ r \notin job.gone \cup DOMAIN job.made
    /\ Table[r] = "appUser" => RowsOf(db, "appUser") = {}
    /\ db' = Beside(Written({r}), db)
    /\ bucket' = bucket \cup ({r} \cap ObjectKeys)
    /\ during' = during \cup {r} /\ since' = since \cup {r}
    /\ UNCHANGED <<files, job, answer, page, lost>>

\* Storage loses an object.
LoseObject(key) ==
    /\ key \in bucket /\ Spend("faults")
    /\ bucket' = bucket \ {key}
    /\ lost' = lost \cup {key}
    /\ UNCHANGED <<db, files, job, answer, page, during, since>>

\* The machine is lost and the application set up anew on another one: the archives are
\* all there is of the old deployment.
Disaster ==
    /\ job = NoJob /\ Spend("disasters")
    /\ db' = Written(Anew) /\ bucket' = {}
    /\ answer' = "none" /\ page' = BlankPage
    /\ UNCHANGED <<files, job, during, since, lost>>

-----------------------------------------------------------------------------
(* RestorePanel *)

PanelStep(new) == page' = new /\ UNCHANGED <<db, bucket, files, job, answer, during, since, lost>>

\* Fault: the manifest of the last file stays on the page.
KeepManifest(i) == [page EXCEPT !.file = i, !.confirmed = FALSE]

\* readFile; the input is not disabled while an inspection is under way.
Chosen(i) == [page EXCEPT !.file = i, !.manifest = NoFile, !.confirmed = FALSE,
                          !.overtaken = (page.waits = "inspection")]

ChooseFile(i) ==
    /\ i \in DOMAIN files /\ page.file # i /\ page.waits # "restore"
    /\ PanelStep(Chosen(i))
    /\ UNCHANGED left

Inspect ==
    /\ page.waits = "no" /\ page.file # NoFile
    /\ PanelStep([page EXCEPT !.waits = "inspection", !.asked = page.file])
    /\ UNCHANGED left

\* A refusal leaves the manifest shown before.
InspectAnswered ==
    /\ page.waits = "inspection"
    /\ PanelStep(IF files[page.asked].readable
            THEN [page EXCEPT !.waits = "no", !.asked = NoFile, !.manifest = page.asked,
                              !.overtaken = @ /\ page.file # page.asked]
            ELSE [page EXCEPT !.waits = "no", !.asked = NoFile])
    /\ UNCHANGED left

Confirm ==
    /\ page.manifest # NoFile /\ ~page.confirmed
    /\ PanelStep([page EXCEPT !.confirmed = TRUE])
    /\ UNCHANGED left

PressRestore ==
    /\ page.waits = "no" /\ page.manifest # NoFile /\ page.confirmed
    /\ StartRestore(page.file)
    /\ page' = [page EXCEPT !.waits = "restore"]

\* After a restore the page reloads itself; the owner may at any time.
Reload ==
    /\ Spend("reloads") /\ page # BlankPage
    /\ PanelStep(BlankPage)

BackupNext ==
    \/ StartExport \/ ReadTable \/ ReadObject \/ FinishExport
    \/ HaveSafetyCopy \/ Parse \/ DeleteTable \/ DeleteSessions \/ CreateTable \/ Commit
    \/ PutObject \/ FinishRestore \/ Fail
    \/ \E r \in Row : Write(r)
    \/ \E k \in ObjectKeys : LoseObject(k)
    \/ Disaster
    \/ \E i \in DOMAIN files : ChooseFile(i)
    \/ Inspect \/ InspectAnswered \/ Confirm \/ PressRestore \/ Reload

BackupSpec == BackupInit /\ [][BackupNext]_backupVars

-----------------------------------------------------------------------------
(* Properties *)

\* An archive is a ledger of one moment: every row in it has the rows it refers to,
\* whatever was written while the tables were read (except archives of the time when
\* drafts were not captured).
ArchivesAreConsistent ==
    \A i \in DOMAIN files :
        files[i].intakes => \A r \in DOMAIN files[i].rows :
                               files[i].rows[r] \subseteq DOMAIN files[i].rows

\* A restore replaces the ledger or leaves it: once committed, the archive's rows are all
\* there with the references they were archived with, and anything else was written by
\* others while it ran.  No session is left and no challenge of the account; a login begun after
\* the sessions were deleted keeps its challenge.
RestoreReplaces ==
    [][JobAt("creating") /\ JobAt("putting")' =>
         /\ DOMAIN job.archived \subseteq DOMAIN db'
         /\ \A r \in DOMAIN job.archived : db'[r] = job.archived[r]
         /\ DOMAIN db' \ DOMAIN job.archived \subseteq during
         /\ \A r \in DOMAIN db' : OfNoSession(r)]_backupVars

\* The order of the tables keeps every foreign key satisfied: a restore breaks one, or
\* meets an identity that is taken, only when others wrote while it ran.  Archives of
\* older versions are no exception.
OrderRespectsForeignKeys ==
    [][Restoring /\ job' = NoJob /\ answer' = "constraint" => during # {}]_backupVars

\* What a restore replaces is in the safety copy made before it, except what was written
\* between the copy's snapshot and the replacement, and the sessions.
SafetyCopyCoversTheReplaced ==
    [][JobAt("creating") /\ JobAt("putting")' =>
         (DOMAIN db \ DOMAIN db') \cap Captured \subseteq DOMAIN job.copied \cup since]_backupVars

\* Once a restore has answered, every file of the ledger can be read, also on a machine
\* that had none of them, except one that storage lost, or failed to read for the export
\* or to take in the last restore; a restore that is repeated makes up for it, unless there
\* is an archive that lacks the file: who restores that one is without it again.
RestoredFilesAreStored ==
    ~JobAt("putting") => (DOMAIN db) \cap ObjectKeys \subseteq bucket \cup lost

\* The page offers to restore the file whose contents it shows, unless another file was
\* chosen while the contents of the first were being read.
RestoresWhatWasInspected ==
    page.manifest # NoFile => page.file = page.manifest \/ page.overtaken

\* An archive is one moment's ledger, the files of a ledger that was restored are there, and
\* the page restores what it showed (backup.service.ts:93, 202; BackupSection.tsx:184).
ArchivesAreWhole ==
    BackupTypeOK /\ ArchivesAreConsistent /\ RestoredFilesAreStored /\ RestoresWhatWasInspected

\* A restore that commits leaves the archive's ledger, written in an order the foreign keys
\* allow, and hands out what it replaced (backup.service.ts:176, backup.controller.ts:89).
RestoresReplaceTheLedger ==
    RestoreReplaces /\ OrderRespectsForeignKeys /\ SafetyCopyCoversTheReplaced

-----------------------------------------------------------------------------
(* What makes them hold in every step *)

\* The committed rows are the schema's and satisfy its foreign keys.
LedgerIsClosed == AreRows(db) /\ IsClosed(db)

\* An archive's rows refer to each other only, and their files are in it or were unreadable;
\* archives of older versions refer to drafts that are not in them.
FilesAreLedgers ==
    /\ files \in Seq({files[i] : i \in DOMAIN files})
    /\ \A i \in DOMAIN files :
          LET rows == files[i].rows IN
          /\ AreRows(rows) /\ DOMAIN rows \subseteq Captured /\ files[i].objects \subseteq ObjectKeys
          /\ DOMAIN rows \cap ObjectKeys \subseteq files[i].objects \cup lost
          /\ \A r \in DOMAIN rows : \A q \in rows[r] \ DOMAIN rows :
                ~files[i].intakes /\ Table[q] = "purchaseIntake"

\* The rows at tables that have been passed, of those captured.
Passed(rest) == {r \in Captured : \A p \in rest : TABLES[p] # Table[r]}

\* The job's own bookkeeping.
JobIsInOrder ==
    /\ DOMAIN job = DOMAIN NoJob
    /\ job.kind \in {"none", "export", "restore"}
    /\ job.at \in {"none", "tables", "objects", "parse", "deleting", "creating", "putting"}
    /\ job.at = "none" => job = NoJob
    /\ job.at \in {"parse", "deleting", "creating", "putting"} => Restoring
    /\ Restoring => job.file \in DOMAIN files
    /\ job.rest \subseteq Places /\ job.got \subseteq ObjectKeys /\ job.gone \subseteq Row
    /\ DOMAIN job.copied \subseteq Captured
    /\ job.at \in {"tables", "objects", "parse"} => job.gone = {} /\ job.made = NoRows

\* A copy is the part of the snapshot that was read; it has every row there is but those
\* written since, and the files of it are there to be read, or were lost.
CopyIsInOrder ==
    /\ JobAt("tables") =>
          /\ AreRows(job.snapshot) /\ IsClosed(job.snapshot)
          /\ DOMAIN db \subseteq DOMAIN job.snapshot \cup since
          /\ DOMAIN job.snapshot \cap ObjectKeys \subseteq bucket \cup lost
          /\ job.copied = Only(job.snapshot, Passed(job.rest)) /\ job.got = {}
    /\ JobAt("objects") =>
          /\ AreRows(job.copied) /\ IsClosed(job.copied)
          /\ job.todo \subseteq (bucket \cup lost) \cap ObjectKeys
          /\ DOMAIN job.copied \cap ObjectKeys \subseteq job.got \cup job.todo \cup lost
    /\ job.at \in {"objects", "parse", "deleting", "creating"} =>
          DOMAIN db \cap Captured \subseteq DOMAIN job.copied \cup since

\* What a restore has left of the old rows are those of the tables it has not come to and
\* those written meanwhile; while there is an account nobody sets up another one, so no
\* session is among them in the end, and no challenge but of a login.  What it puts in is the archive's.
RestoreIsInOrder ==
    /\ Restoring /\ ~JobAt("putting") => RowsOf(db, "appUser") # {}
    /\ job.at \in {"deleting", "creating"} =>
          /\ AreRows(job.archived) /\ IsClosed(job.archived)
          /\ DOMAIN job.archived \subseteq DOMAIN files[job.file].rows
          /\ \A r \in during : Table[r] # "appUser"
    /\ JobAt("deleting") =>
          /\ job.made = NoRows
          /\ \A r \in DOMAIN db \ job.gone :
                r \in during \/ Table[r] \in SessionTables \/ \E p \in job.rest : TABLES[p] = Table[r]
    /\ JobAt("creating") =>
          /\ job.made = Only(job.archived, Passed(job.rest))
          /\ \A r \in DOMAIN job.made : job.made[r] \subseteq DOMAIN View
          /\ \A r \in DOMAIN db \ job.gone : r \in during /\ OfNoSession(r)

\* Files whose object is not there are those storage lost, and those that a restore has
\* yet to put.
FilesAreStored ==
    /\ DOMAIN db \cap ObjectKeys \subseteq
          bucket \cup lost \cup (IF JobAt("putting") THEN job.todo ELSE {})
    /\ JobAt("putting") => job.todo \subseteq ObjectKeys

\* What the page shows or waits for is of a file that was chosen.
PageIsInOrder ==
    /\ page.manifest # NoFile \/ page.overtaken \/ page.waits = "inspection" =>
          page.file \in DOMAIN files
    /\ page.file = NoFile \/ page.file \in DOMAIN files
    /\ page.waits = "inspection" =>
          page.asked \in DOMAIN files /\ (page.asked = page.file \/ page.overtaken)

BackupIInv ==
    /\ ArchivesAreWhole
    /\ LedgerIsClosed /\ FilesAreLedgers /\ JobIsInOrder /\ CopyIsInOrder
    /\ RestoreIsInOrder /\ FilesAreStored /\ PageIsInOrder
===============================================================================
