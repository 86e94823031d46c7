---- MODULE Archive ----
(***************************************************************************)
(* The database file and the tools that own it in turn: the runtime, which *)
(* archives live messages; `import-apply', which merges a Telegram Desktop *)
(* export in batches (TelegramDesktopImporter, _import_apply); `backup'    *)
(* and `restore' (backup.py).  The owners exclude each other by an         *)
(* advisory lock (ProcessLock), which the system drops when they die.      *)
(*                                                                         *)
(* A database in WAL mode is a main file and a log: what is committed is   *)
(* in the log until a checkpoint, and in the main file only after it.      *)
(* A message has two versions, before and after its one edit; Telegram may *)
(* deliver them late.                                                      *)
(***************************************************************************)
EXTENDS Naturals, FiniteSets

CONSTANTS
  LastMessage,  \* messages have the ids 1 .. LastMessage
  BatchSize,    \* of the importer
  Edited,       \* the messages that are edited, once
  Erasing,      \* those of them whose edit takes the caption away
  MaxDeaths,    \* bound: processes that die
  MaxRestores   \* bound: restores that begin

ASSUME ArchiveAssumption ==
  /\ LastMessage \in Nat /\ MaxDeaths \in Nat /\ MaxRestores \in Nat
  /\ BatchSize \in Nat \ {0} /\ Erasing \subseteq Edited /\ Edited \subseteq 1..LastMessage

MessageIds == 1..LastMessage

VARIABLES
  telegram,   \* the version of every message in the group, 0 if it is not posted
  export,     \* the versions in the export, or none
  disk,       \* the database: its main file and its log
  backup,     \* what the last backup holds
  safety,     \* the safety copies of restores, each under a name of its own
  owner,      \* of the lock
  tool,       \* how far an import or a restore got
  committed,  \* history: what was committed last
  deaths, restores

archiveVars == <<telegram, export, disk, backup, safety, owner, tool, committed, deaths, restores>>

NoText == "none"

Texts == {"draft", "final", NoText}

\* The caption of a version of a message; an edit changes it or takes it away.
TextOf(m, version) ==
  IF version = 1 THEN "draft" ELSE IF m \in Erasing THEN NoText ELSE "final"

\* `version' is history: what the row was last taken from.
NotArchived == [source |-> "none", text |-> NoText, edited |-> FALSE, version |-> 0]

NoRun == [status |-> "absent", next |-> 1]

Empty == [rows |-> [m \in MessageIds |-> NotArchived], run |-> NoRun, audited |-> FALSE]

NoLog == [log |-> FALSE]

NoExport == [m \in MessageIds |-> 0]

NoTool == [phase |-> "idle", of |-> Empty]

ArchiveInit ==
  /\ telegram = NoExport
  /\ export = NoExport
  /\ disk = [main |-> Empty, log |-> NoLog]
  /\ backup = Empty
  /\ safety = {}
  /\ owner = "none"
  /\ tool = NoTool
  /\ committed = Empty
  /\ deaths = 0
  /\ restores = 0

Content == IF disk.log = NoLog THEN disk.main ELSE disk.log

\* A transaction of the owner.
Commit(content) ==
  /\ disk' = [disk EXCEPT !.log = content]
  /\ committed' = content

(***************************************************************************)
(* The group.                                                              *)
(***************************************************************************)
PostOrEdit(m) ==
  /\ telegram[m] < (IF m \in Edited THEN 2 ELSE 1)
  /\ m > 1 => telegram[m - 1] > 0
  /\ telegram' = [telegram EXCEPT ![m] = @ + 1]
  /\ UNCHANGED <<export, disk, backup, safety, owner, tool, committed, deaths, restores>>

ExportChat ==
  /\ export = NoExport
  /\ telegram # NoExport
  /\ export' = telegram
  /\ UNCHANGED <<telegram, disk, backup, safety, owner, tool, committed, deaths, restores>>

(***************************************************************************)
(* The runtime.  It holds the lock as long as it lives.                    *)
(***************************************************************************)
Acquire(who) == owner = "none" /\ owner' = who

StartRuntime ==
  /\ Acquire("runtime")
  /\ UNCHANGED <<telegram, export, disk, backup, safety, tool, committed, deaths, restores>>

\* LiveArchive.ingest of one of the versions that were, by the rule of _apply_message_snapshot.
Ingest(m, version) ==
  /\ owner = "runtime"
  /\ version <= telegram[m]
  /\ LET row == Content.rows[m] IN
       /\ row.edited => version = 2
       /\ Commit([Content EXCEPT !.rows[m] =
            [source |-> "bot_api", text |-> TextOf(m, version), edited |-> version = 2,
             version |-> version]])
  /\ UNCHANGED <<telegram, export, backup, safety, owner, tool, deaths, restores>>

\* The log is copied into the main file; the last connection to close does it too.
Checkpoint ==
  /\ owner \in {"runtime", "import"}
  /\ disk.log # NoLog
  /\ disk' = [main |-> Content, log |-> NoLog]
  /\ UNCHANGED <<telegram, export, backup, safety, owner, tool, committed, deaths, restores>>

StopRuntime ==
  /\ owner = "runtime"
  /\ owner' = "none"
  /\ disk' = [main |-> Content, log |-> NoLog]
  /\ UNCHANGED <<telegram, export, backup, safety, tool, committed, deaths, restores>>

\* create_backup: a snapshot under its name, or nothing; it needs no lock.  Bound: one, beside
\* the runtime, apart from those of imports.
Backup ==
  /\ owner = "runtime"
  /\ backup = Empty
  /\ backup' = Content
  /\ UNCHANGED <<telegram, export, disk, safety, owner, tool, committed, deaths, restores>>

(***************************************************************************)
(* import-apply.                                                           *)
(***************************************************************************)
Importing(phase) == owner = "import" /\ tool.phase = phase

At(phase) == tool' = [tool EXCEPT !.phase = phase]

ImportStays == UNCHANGED <<telegram, export, safety, deaths, restores>>

\* The export has been inspected and its fingerprint compared; a backup comes first.
StartImport ==
  /\ export # NoExport
  /\ Acquire("import")
  /\ backup' = Content
  /\ At("started")
  /\ UNCHANGED <<disk, committed>>
  /\ ImportStays

\* _prepare_run: a new run, or the one of this fingerprint, from where it stopped.
PrepareRun ==
  /\ Importing("started")
  /\ IF Content.run.status = "succeeded"
       THEN At("reconciling") /\ UNCHANGED <<disk, committed>>
       ELSE At("importing") /\ Commit([Content EXCEPT !.run.status = "running"])
  /\ UNCHANGED <<backup, owner>>
  /\ ImportStays

\* Mutant of Merged: whatever the export says is taken.
MergedAnyway(row, m) ==
  IF export[m] = 0 THEN row
  ELSE [source |-> "telegram_export", text |-> TextOf(m, export[m]), edited |-> export[m] = 2,
        version |-> export[m]]

\* _merge_message: a row of an export is replaced; a live one is given what it lacks.
Merged(row, m) ==
  IF export[m] = 0 THEN row
  ELSE IF row.source # "bot_api"
    THEN [source |-> "telegram_export", text |-> TextOf(m, export[m]), edited |-> export[m] = 2,
          version |-> export[m]]
    ELSE [row EXCEPT !.text = IF @ = NoText THEN TextOf(m, export[m]) ELSE @,
                     !.edited = @ \/ export[m] = 2]

\* _persist_message for the messages of a batch.
MergedBatch(first) ==
  [m \in MessageIds |->
    IF first <= m /\ m < first + BatchSize THEN Merged(Content.rows[m], m) ELSE Content.rows[m]]

\* Mutant of ImportBatch: the index moves on in a transaction of its own, ahead of the rows.
ImportBatchIndexFirst ==
  /\ \/ /\ Importing("importing")
        /\ Content.run.next <= LastMessage
        /\ Commit([Content EXCEPT !.run.next = @ + BatchSize])
        /\ At("indexed")
     \/ /\ Importing("indexed")
        /\ Commit([Content EXCEPT !.rows = [m \in MessageIds |->
             IF m < Content.run.next THEN Merged(@[m], m) ELSE @[m]]])
        /\ At("importing")
  /\ UNCHANGED <<backup, owner>>
  /\ ImportStays

\* A batch and the index of the next one, in one transaction.
ImportBatch ==
  /\ Importing("importing")
  /\ Content.run.next <= LastMessage
  /\ Commit([Content EXCEPT !.rows = MergedBatch(Content.run.next), !.run.next = @ + BatchSize])
  /\ UNCHANGED <<backup, owner, tool>>
  /\ ImportStays

FinishRun ==
  /\ Importing("importing")
  /\ Content.run.next > LastMessage
  /\ Commit([Content EXCEPT !.run.status = "succeeded"])
  /\ At("reconciling")
  /\ UNCHANGED <<backup, owner>>
  /\ ImportStays

\* An exception: the run is marked failed, and the tool ends.
ImportFails ==
  /\ Importing("importing")
  /\ Commit([Content EXCEPT !.run.status = "failed"])
  /\ owner' = "none"
  /\ tool' = NoTool
  /\ deaths < MaxDeaths /\ deaths' = deaths + 1
  /\ UNCHANGED <<telegram, export, backup, safety, restores>>

\* ImportReconciliation.complete, as to messages.
Complete(content) == \A m \in MessageIds : export[m] # 0 => content.rows[m] # NotArchived

\* The audit event is written once, after the reconciliation; then the lock is let go.
EndImport ==
  /\ Importing("reconciling")
  /\ IF Complete(Content) THEN Commit([Content EXCEPT !.audited = TRUE])
                          ELSE UNCHANGED <<disk, committed>>
  /\ owner' = "none"
  /\ tool' = NoTool
  /\ UNCHANGED backup
  /\ ImportStays

(***************************************************************************)
(* restore.                                                                *)
(***************************************************************************)
RestoreStays == UNCHANGED <<telegram, export, backup, deaths>>

StartRestore ==
  /\ restores < MaxRestores
  /\ Acquire("restore")
  /\ tool' = [phase |-> "locked", of |-> backup]
  /\ restores' = restores + 1
  /\ UNCHANGED <<disk, safety, committed>>
  /\ RestoreStays

\* Mutant of CopyForSafety: the sidecars are moved first.
CopyAfterSidecars ==
  /\ tool.phase = "locked"
  /\ safety' = safety \cup {disk.main}
  /\ disk' = [disk EXCEPT !.log = NoLog]
  /\ At("saved")
  /\ UNCHANGED <<owner, committed, restores>>
  /\ RestoreStays

\* The safety copy is a verified backup of the live database, its log included.
CopyForSafety ==
  /\ tool.phase = "locked"
  /\ safety' = safety \cup {Content}
  /\ At("saved")
  /\ UNCHANGED <<disk, owner, committed, restores>>
  /\ RestoreStays

\* _preserve_sidecars: between this and the next step the main file is by itself.
MoveSidecars ==
  /\ tool.phase = "saved"
  /\ disk' = [disk EXCEPT !.log = NoLog]
  /\ At("moved")
  /\ UNCHANGED <<safety, owner, committed, restores>>
  /\ RestoreStays

Replace ==
  /\ tool.phase = "moved"
  /\ disk' = [main |-> tool.of, log |-> NoLog]
  /\ committed' = tool.of
  /\ tool' = NoTool
  /\ owner' = "none"
  /\ UNCHANGED <<safety, restores>>
  /\ RestoreStays

\* The owner dies: the lock is free, and the log stays for who comes next.
Death ==
  /\ owner # "none"
  /\ deaths < MaxDeaths
  /\ deaths' = deaths + 1
  /\ owner' = "none"
  /\ tool' = NoTool
  /\ UNCHANGED <<telegram, export, disk, backup, safety, committed, restores>>

ArchiveNext ==
  \/ \E m \in MessageIds : PostOrEdit(m)
  \/ ExportChat
  \/ StartRuntime \/ Checkpoint \/ StopRuntime \/ Backup
  \/ \E m \in MessageIds, version \in {1, 2} : Ingest(m, version)
  \/ StartImport \/ PrepareRun \/ ImportBatch \/ FinishRun \/ ImportFails \/ EndImport
  \/ StartRestore \/ CopyForSafety \/ MoveSidecars \/ Replace
  \/ Death

ArchiveSpec == ArchiveInit /\ [][ArchiveNext]_archiveVars

(***************************************************************************)
(* Properties.                                                             *)
(***************************************************************************)
\* A run that succeeded, and all the more one that was audited, has archived every message of
\* the export, however often it was broken off and resumed and whatever was restored between
\* (TelegramDesktopImporter.run, _prepare_run).
ImportIsComplete ==
  Content.run.status = "succeeded" \/ Content.audited => Complete(Content)

\* What was committed last is in the database, or in a safety copy of the restore that
\* replaced it, wherever that restore died: "preserving the prior DB beside it" (backup.py:86).
PriorIsKept == committed = Content \/ committed \in safety

\* Nothing but a restore takes a message back to an earlier version: neither a late update nor
\* an import that was broken off and is resumed after live edits (_merge_message).
ArchiveMovesForward ==
  [][owner # "restore" =>
       \A m \in MessageIds : Content.rows[m].version <= Content'.rows[m].version]_archiveVars

\* "A historical export must not downgrade a newer live Bot API snapshot" (importer.py:431):
\* the caption of a live row is the one the group last showed the runtime.
LiveSnapshotsStay ==
  \A m \in MessageIds :
    LET row == Content.rows[m] IN
    row.source = "bot_api" => row.text = TextOf(m, row.version)

====
