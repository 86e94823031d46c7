---- MODULE OperationsProofs ----
(***************************************************************************)
(* Proofs about the parts of the runtime that share no state: the archive, *)
(* for any messages, exports, batches, deaths and restores; health and     *)
(* alerts, for any limits, any cooldown and any bound of the clock; the    *)
(* retention, for any ages, any limits and any order of the tables; the    *)
(* assistant's quota, for any limits, costs, askers, retries and failures; *)
(* the changes between two timetables, for any pages and any likeness.     *)
(***************************************************************************)
EXTENDS Archive, Assistant, Watch, Retention, Timetable, PumpProofs, FiniteSetTheorems,
        WellFoundedInduction, TLAPS

(***************************************************************************)
(* Archive.                                                                *)
(***************************************************************************)
RowSet == [source : {"none", "bot_api", "telegram_export"}, text : Texts, edited : BOOLEAN, version : 0..2]

ImportRuns == [status : {"absent", "running", "failed", "succeeded"}, next : Nat \ {0}]

ContentSet == [rows : [MessageIds -> RowSet], run : ImportRuns, audited : BOOLEAN]

ToolPhases == {"idle", "started", "importing", "reconciling", "locked", "saved", "moved"}

\* Every content that the database has, or that a restore could bring back.
Contents ==
  {disk.main, backup, committed, tool.of} \cup safety
    \cup (IF disk.log = NoLog THEN {} ELSE {disk.log})

\* The tools and what they hold.
ToolInv ==
  /\ tool \in [phase : ToolPhases, of : ContentSet]
  /\ tool.phase \in {"started", "importing", "reconciling"} => owner = "import" /\ export # NoExport
  /\ tool.phase \in {"locked", "saved", "moved"} => owner = "restore"

ArchiveTypeOK ==
  /\ telegram \in [MessageIds -> 0..2]
  /\ export \in [MessageIds -> 0..2]
  /\ disk \in [main : ContentSet, log : ContentSet \cup {NoLog}]
  /\ backup \in ContentSet
  /\ safety \subseteq ContentSet
  /\ committed \in ContentSet
  /\ ToolInv

\* A row is no more edited than its version, and a row of the export is at its version.
RowInv(row, m) ==
  /\ row.version = 2 => row.edited
  /\ row.source = "none" => row.version = 0
  /\ row.source = "telegram_export" => export[m] # 0 /\ row.version = export[m]

\* What an import has passed is archived, and without an export there is no run.
RunInv(c) ==
  /\ export = NoExport => c.run = NoRun /\ ~c.audited
  /\ \A m \in MessageIds : m < c.run.next /\ export[m] # 0 => c.rows[m] # NotArchived
  /\ c.run.status = "succeeded" \/ c.audited => Complete(c)

ContentInv(c) == RunInv(c) /\ \A m \in MessageIds : RowInv(c.rows[m], m)

\* Once a copy is made, what was committed is safe whatever happens to the log.
CopyInv ==
  /\ PriorIsKept
  /\ tool.phase \in {"saved", "moved"} => committed \in safety

ArchiveInv == ArchiveTypeOK /\ CopyInv /\ \A c \in Contents : ContentInv(c)

----------------------------------------------------------------------------
LEMMA NoLogIsNoContent == NoLog \notin ContentSet
<1>1. ASSUME NEW c \in ContentSet PROVE c # NoLog
  <2>1. DOMAIN c = {"rows", "run", "audited"}
    BY DEF ContentSet
  <2>2. DOMAIN NoLog = {"log"} /\ "rows" # "log"
    BY DEF NoLog
  <2> QED BY <2>1, <2>2
<1> QED BY <1>1

LEMMA ContentTyped ==
  ASSUME ArchiveTypeOK
  PROVE  Content \in ContentSet /\ Content \in Contents /\ Contents \subseteq ContentSet
<1>1. disk.main \in ContentSet /\ disk.log \in ContentSet \cup {NoLog}
  BY DEF ArchiveTypeOK
<1>2. Content \in ContentSet /\ Content \in Contents
  BY <1>1 DEF Content, Contents
<1>3. Contents \subseteq ContentSet
  BY <1>1 DEF Contents, ArchiveTypeOK, ToolInv
<1> QED BY <1>2, <1>3

LEMMA EmptyIsSound == Empty \in ContentSet /\ ContentInv(Empty)
<1>1. Empty \in ContentSet
  BY DEF Empty, ContentSet, RowSet, ImportRuns, NotArchived, NoRun, Texts, NoText
<1>2. ASSUME NEW m \in MessageIds PROVE RowInv(Empty.rows[m], m) /\ ~(m < Empty.run.next)
  BY ArchiveAssumption DEF RowInv, Empty, NotArchived, NoRun, MessageIds
<1>3. RunInv(Empty)
  BY <1>2 DEF RunInv, Empty, NoRun
<1> QED BY <1>1, <1>2, <1>3 DEF ContentInv

\* Of what is committed only the log and the history change.
LEMMA CommitTyped ==
  ASSUME ArchiveTypeOK, NEW c \in ContentSet, Commit(c)
  PROVE  /\ disk' \in [main : ContentSet, log : ContentSet \cup {NoLog}]
         /\ committed' = c /\ Content' = c
         /\ disk'.main = disk.main /\ disk'.log = c
<1>1. disk \in [main : ContentSet, log : ContentSet \cup {NoLog}]
  BY DEF ArchiveTypeOK
<1>2. disk' = [main |-> disk.main, log |-> c] /\ committed' = c
  BY <1>1 DEF Commit
<1> QED BY <1>1, <1>2, NoLogIsNoContent DEF Content

\* As long as the export stays, what was sound stays so.
LEMMA SoundnessStays ==
  ASSUME export' = export, NEW c
  PROVE  ContentInv(c)' <=> ContentInv(c)
BY DEF ContentInv, RunInv, RowInv, Complete, NoExport

\* Every content is one of before, or is sound by itself.
ContentsKeep == export' = export /\ \A c \in Contents' : c \in Contents \/ ContentInv(c)

LEMMA KeptContents ==
  ASSUME ArchiveInv, ContentsKeep
  PROVE  \A c \in Contents' : ContentInv(c)'
<1> SUFFICES ASSUME NEW c \in Contents' PROVE ContentInv(c)' OBVIOUS
<1>1. ContentInv(c)
  BY DEF ArchiveInv, ContentsKeep
<1> QED BY <1>1, SoundnessStays DEF ContentsKeep

\* A transaction that leaves the copies alone.
LEMMA CommitKeeps ==
  ASSUME ArchiveInv, NEW c \in ContentSet, Commit(c), ContentInv(c), export' = export,
         safety' = safety, backup' = backup \/ backup' = Content,
         tool'.of = tool.of \/ tool'.of = Empty
  PROVE  ContentsKeep /\ PriorIsKept'
<1>1. committed' = c /\ Content' = c /\ disk'.main = disk.main /\ disk'.log = c
  BY CommitTyped DEF ArchiveInv
<1>2. Content \in Contents
  BY ContentTyped DEF ArchiveInv
<1>3. ASSUME NEW d \in Contents' PROVE d \in Contents \/ ContentInv(d)
  <2>1. d \in {disk.main, backup', c, tool'.of} \cup safety
    BY <1>1 DEF Contents
  <2>2. CASE d \in {disk.main, backup, tool.of} \cup safety
    BY <2>2 DEF Contents
  <2>3. CASE d = c \/ d = Content
    BY <2>3, <1>2
  <2>4. CASE d = Empty
    BY <2>4, EmptyIsSound
  <2> QED BY <2>1, <2>2, <2>3, <2>4
<1> QED BY <1>1, <1>3 DEF ContentsKeep, PriorIsKept

\* A step that commits nothing, and keeps what the database holds.
LEMMA NothingCommitted ==
  ASSUME ArchiveInv, Content' = Content, committed' = committed, export' = export,
         disk'.main = disk.main \/ disk'.main = Content,
         disk'.log = disk.log \/ disk'.log = NoLog,
         safety \subseteq safety', safety' \subseteq safety \cup {Content},
         backup' = backup \/ backup' = Content,
         tool'.of = tool.of \/ tool'.of = Empty \/ tool'.of = backup
  PROVE  ContentsKeep /\ PriorIsKept'
<1>1. Content \in Contents
  BY ContentTyped DEF ArchiveInv
<1>2. ASSUME NEW d \in Contents' PROVE d \in Contents \/ ContentInv(d)
  <2>1. \/ d \in {disk'.main, backup', committed', tool'.of} \cup safety'
        \/ d = disk'.log /\ disk'.log # NoLog
    BY DEF Contents
  <2>2. CASE d \in {disk.main, backup, tool.of, committed} \cup safety
    BY <2>2 DEF Contents
  <2>3. CASE d = Content
    BY <2>3, <1>1
  <2>4. CASE d = Empty
    BY <2>4, EmptyIsSound
  <2>5. CASE d = disk.log /\ disk.log # NoLog
    BY <2>5 DEF Contents
  <2> QED BY <2>1, <2>2, <2>3, <2>4, <2>5
<1>3. PriorIsKept
  BY DEF ArchiveInv, CopyInv
<1> QED BY <1>2, <1>3 DEF ContentsKeep, PriorIsKept

----------------------------------------------------------------------------
\* What the runtime writes of a message.
LEMMA IngestIsSound ==
  ASSUME ArchiveInv, NEW m \in MessageIds, NEW version \in {1, 2}, NEW c,
         c = [Content EXCEPT !.rows[m] =
               [source |-> "bot_api", text |-> TextOf(m, version), edited |-> version = 2,
                version |-> version]]
  PROVE  c \in ContentSet /\ ContentInv(c)
<1> DEFINE row == [source |-> "bot_api", text |-> TextOf(m, version), edited |-> version = 2,
                   version |-> version]
<1>1. Content \in ContentSet /\ ContentInv(Content)
  BY ContentTyped DEF ArchiveInv
<1>2. /\ c.run = Content.run /\ c.audited = Content.audited
      /\ c.rows = [Content.rows EXCEPT ![m] = row]
  BY <1>1 DEF ContentSet
<1>3. row \in RowSet /\ RowInv(row, m) /\ row # NotArchived
  <2>1. TextOf(m, version) \in Texts
    BY DEF TextOf, Texts
  <2>2. row \in RowSet
    BY <2>1 DEF RowSet
  <2> QED BY <2>2 DEF RowInv, NotArchived
<1>4. c \in ContentSet
  BY <1>1, <1>3 DEF ContentSet
<1>5. \A k \in MessageIds : (c.rows[k] = row /\ k = m) \/ c.rows[k] = Content.rows[k]
  BY <1>1, <1>2 DEF ContentSet
<1> HIDE DEF row
<1>6. \A k \in MessageIds : RowInv(c.rows[k], k)
  BY <1>1, <1>3, <1>5 DEF ContentInv
<1>7. RunInv(c)
  BY <1>1, <1>2, <1>3, <1>5 DEF ContentInv, RunInv, Complete
<1> QED BY <1>4, <1>6, <1>7 DEF ContentInv

\* A transaction that leaves the rows alone.
LEMMA RunIsSound ==
  ASSUME ArchiveInv, NEW c \in ContentSet, c.rows = Content.rows,
         c.run.next = Content.run.next,
         export = NoExport => c.run = NoRun /\ ~c.audited,
         c.run.status = "succeeded" \/ c.audited => Complete(Content)
  PROVE  ContentInv(c)
<1>1. ContentInv(Content)
  BY ContentTyped DEF ArchiveInv
<1> QED BY <1>1 DEF ContentInv, RunInv, Complete

\* What the export makes of a sound row.
LEMMA MergedIsSound ==
  ASSUME ArchiveTypeOK, NEW m \in MessageIds, NEW row \in RowSet, RowInv(row, m)
  PROVE  /\ Merged(row, m) \in RowSet
         /\ RowInv(Merged(row, m), m)
         /\ row.version <= Merged(row, m).version
         /\ export[m] # 0 => Merged(row, m) # NotArchived
         /\ row # NotArchived => Merged(row, m) # NotArchived
<1>1. export[m] \in 0..2
  BY DEF ArchiveTypeOK
<1>2. CASE export[m] = 0
  BY <1>2 DEF Merged, RowSet
<1>3. CASE export[m] # 0 /\ row.source # "bot_api"
  <2> DEFINE new == [source |-> "telegram_export", text |-> TextOf(m, export[m]),
                     edited |-> export[m] = 2, version |-> export[m]]
  <2>1. Merged(row, m) = new
    BY <1>3 DEF Merged
  <2>2. new \in RowSet /\ new # NotArchived
    BY <1>1 DEF RowSet, TextOf, Texts, NotArchived
  <2>3. RowInv(new, m)
    BY <1>1, <1>3 DEF RowInv
  <2>4. row.version <= new.version
    <3>1. row.source \in {"none", "telegram_export"} /\ row.version \in 0..2
      BY <1>3 DEF RowSet
    <3> QED BY <1>1, <1>3, <3>1 DEF RowInv
  <2> QED BY <2>1, <2>2, <2>3, <2>4
<1>4. CASE export[m] # 0 /\ row.source = "bot_api"
  <2> DEFINE new == [row EXCEPT !.text = IF @ = NoText THEN TextOf(m, export[m]) ELSE @,
                                !.edited = @ \/ export[m] = 2]
  <2>1. Merged(row, m) = new
    BY <1>4 DEF Merged
  <2>2. /\ new.source = "bot_api" /\ new.version = row.version
        /\ row.edited => new.edited
    BY <1>4 DEF RowSet
  <2>3. new \in RowSet
    <3>1. TextOf(m, export[m]) \in Texts
      BY DEF TextOf, Texts
    <3> QED BY <3>1 DEF RowSet
  <2>4. new # NotArchived /\ RowInv(new, m)
    BY <1>4, <2>2 DEF RowInv, NotArchived
  <2>5. row.version <= new.version
    BY <2>2 DEF RowSet
  <2> HIDE DEF new
  <2> QED BY <2>1, <2>3, <2>4, <2>5
<1> QED BY <1>2, <1>3, <1>4

LEMMA BatchIsSound ==
  ASSUME ArchiveInv, export # NoExport, NEW c,
         c = [Content EXCEPT !.rows = MergedBatch(Content.run.next), !.run.next = @ + BatchSize]
  PROVE  c \in ContentSet /\ ContentInv(c)
<1> DEFINE next == Content.run.next
<1>1. Content \in ContentSet /\ ContentInv(Content) /\ ArchiveTypeOK
  BY ContentTyped DEF ArchiveInv
<1>2. Content.run \in ImportRuns /\ next \in Nat \ {0} /\ Content.rows \in [MessageIds -> RowSet]
  BY <1>1 DEF ContentSet, ImportRuns
<1>3. /\ c.rows = MergedBatch(next) /\ c.run = [Content.run EXCEPT !.next = next + BatchSize]
      /\ c.audited = Content.audited
  BY <1>1 DEF ContentSet
<1>4. c.run \in ImportRuns /\ c.run.next = next + BatchSize /\ c.run.status = Content.run.status
  BY <1>2, <1>3, ArchiveAssumption DEF ImportRuns
<1>5. ASSUME NEW m \in MessageIds
      PROVE  /\ c.rows[m] \in RowSet /\ RowInv(c.rows[m], m)
             /\ Content.rows[m] # NotArchived => c.rows[m] # NotArchived
             /\ m < next + BatchSize /\ export[m] # 0 => c.rows[m] # NotArchived
  <2>1. Content.rows[m] \in RowSet /\ RowInv(Content.rows[m], m)
    BY <1>1, <1>2 DEF ContentInv
  <2>2. CASE next <= m /\ m < next + BatchSize
    <3>1. c.rows[m] = Merged(Content.rows[m], m)
      BY <1>3, <2>2 DEF MergedBatch
    <3> QED BY <1>1, <2>1, <3>1, MergedIsSound
  <2>3. CASE ~(next <= m /\ m < next + BatchSize)
    <3>1. c.rows[m] = Content.rows[m]
      BY <1>3, <2>3 DEF MergedBatch
    <3>2. m < next + BatchSize => m < next
      BY <1>2, <2>3, ArchiveAssumption DEF MessageIds
    <3> QED BY <1>1, <2>1, <3>1, <3>2 DEF ContentInv, RunInv
  <2> QED BY <2>2, <2>3
<1>6. c \in ContentSet
  <2>1. c.rows = [m \in MessageIds |-> c.rows[m]]
    BY <1>3 DEF MergedBatch
  <2>2. c.rows \in [MessageIds -> RowSet]
    BY <1>5, <2>1
  <2>3. c = [rows |-> c.rows, run |-> c.run, audited |-> c.audited]
    BY <1>1 DEF ContentSet
  <2> QED BY <1>1, <1>3, <1>4, <2>2, <2>3 DEF ContentSet
<1>7. RunInv(c)
  BY <1>1, <1>3, <1>4, <1>5 DEF RunInv, Complete, ContentInv
<1> QED BY <1>5, <1>6, <1>7 DEF ContentInv
----------------------------------------------------------------------------
Forward ==
  owner # "restore" =>
    \A m \in MessageIds : Content.rows[m].version <= Content'.rows[m].version

\* What a step keeps; the export's own step apart, it makes the invariant hold again.
Kept == ArchiveTypeOK' /\ CopyInv' /\ ContentsKeep /\ Forward

LEMMA SameContent ==
  ASSUME ArchiveInv, Content' = Content
  PROVE  Forward
<1>1. Content \in ContentSet
  BY ContentTyped DEF ArchiveInv
<1> QED BY <1>1 DEF Forward, ContentSet, RowSet

\* A transaction of the runtime or of the importer.
LEMMA OwnersCommit ==
  ASSUME ArchiveInv, NEW c \in ContentSet, Commit(c), ContentInv(c),
         \A m \in MessageIds : Content.rows[m].version <= c.rows[m].version,
         telegram' = telegram, export' = export, safety' = safety,
         backup' = backup \/ backup' = Content,
         \/ tool' = tool /\ owner' = owner /\ owner \in {"runtime", "import"}
         \/ tool' = NoTool
         \/ /\ owner = "import" /\ owner' = "import" /\ export # NoExport
            /\ \E phase \in {"importing", "reconciling"} : At(phase)
  PROVE  Kept
<1>1. ArchiveTypeOK /\ ToolInv
  BY DEF ArchiveInv, ArchiveTypeOK
<1>2. Content \in ContentSet
  BY <1>1, ContentTyped
<1>3. disk' \in [main : ContentSet, log : ContentSet \cup {NoLog}] /\ committed' = c /\ Content' = c
  BY <1>1, CommitTyped
<1>4. /\ ToolInv'
      /\ tool'.of = tool.of \/ tool'.of = Empty
      /\ tool'.phase \notin {"saved", "moved"}
  <2>1. CASE tool' = tool /\ owner' = owner /\ owner \in {"runtime", "import"}
    BY <1>1, <2>1 DEF ToolInv, NoExport
  <2>2. CASE tool' = NoTool
    BY <2>2, EmptyIsSound DEF ToolInv, NoTool, ToolPhases
  <2>3. CASE /\ owner = "import" /\ owner' = "import" /\ export # NoExport
             /\ \E phase \in {"importing", "reconciling"} : At(phase)
    <3>1. PICK phase \in {"importing", "reconciling"} : tool' = [tool EXCEPT !.phase = phase]
      BY <2>3 DEF At
    <3>2. tool' = [phase |-> phase, of |-> tool.of] /\ tool.of \in ContentSet
      BY <1>1, <3>1 DEF ToolInv
    <3> QED BY <2>3, <3>2 DEF ToolInv, ToolPhases, NoExport
  <2> QED BY <2>1, <2>2, <2>3
<1>5. ContentsKeep /\ PriorIsKept'
  BY <1>4, CommitKeeps
<1>6. ArchiveTypeOK'
  BY <1>1, <1>2, <1>3, <1>4 DEF ArchiveTypeOK
<1> QED BY <1>3, <1>4, <1>5, <1>6 DEF Kept, CopyInv, Forward

\* A step in which nothing is committed and the database stays as it is to a reader.
LEMMA OwnersWait ==
  ASSUME ArchiveInv, Content' = Content, committed' = committed,
         telegram' \in [MessageIds -> 0..2], export' = export,
         disk' = disk \/ disk' = [main |-> Content, log |-> NoLog],
         safety \subseteq safety', safety' \subseteq safety \cup {Content},
         backup' = backup \/ backup' = Content,
         tool'.of = tool.of \/ tool'.of = Empty \/ tool'.of = backup, ToolInv',
         tool'.phase \in {"saved", "moved"} => committed \in safety'
  PROVE  Kept
<1>1. ArchiveTypeOK
  BY DEF ArchiveInv
<1>2. Content \in ContentSet
  BY <1>1, ContentTyped
<1>3. /\ disk' \in [main : ContentSet, log : ContentSet \cup {NoLog}]
      /\ disk'.main = disk.main \/ disk'.main = Content
      /\ disk'.log = disk.log \/ disk'.log = NoLog
  BY <1>1, <1>2 DEF ArchiveTypeOK
<1>4. ContentsKeep /\ PriorIsKept'
  BY <1>3, NothingCommitted
<1>5. ArchiveTypeOK'
  BY <1>1, <1>2, <1>3 DEF ArchiveTypeOK
<1> QED BY <1>4, <1>5, SameContent DEF Kept, CopyInv

LEMMA StepKeeps ==
  ASSUME ArchiveInv, ArchiveNext, ~ExportChat
  PROVE  Kept
<1>1. ArchiveTypeOK /\ ToolInv /\ CopyInv
  BY DEF ArchiveInv, ArchiveTypeOK
<1>2. Content \in ContentSet /\ ContentInv(Content)
  BY <1>1, ContentTyped DEF ArchiveInv
<1>3. disk = [main |-> disk.main, log |-> disk.log] /\ disk.main \in ContentSet
  BY <1>1 DEF ArchiveTypeOK
<1>4. Content.run \in ImportRuns /\ Content.run = [status |-> Content.run.status, next |-> Content.run.next]
  BY <1>2 DEF ContentSet, ImportRuns
<1>5. \A m \in MessageIds : Content.rows[m].version <= Content.rows[m].version
  BY <1>2 DEF ContentSet, RowSet
<1>6. disk' = disk => Content' = Content
  BY DEF Content
<1>7. disk' = [main |-> Content, log |-> NoLog] => Content' = Content
  BY DEF Content
<1>8. telegram' = telegram => telegram' \in [MessageIds -> 0..2]
  BY <1>1 DEF ArchiveTypeOK
<1>9. tool = [phase |-> tool.phase, of |-> tool.of] /\ tool.of \in ContentSet
  BY <1>1 DEF ToolInv
<1>10. ASSUME NEW m \in MessageIds, PostOrEdit(m) PROVE Kept
  <2>1. telegram' \in [MessageIds -> 0..2]
    BY <1>1, <1>10 DEF PostOrEdit, ArchiveTypeOK
  <2>2. ToolInv'
    BY <1>1, <1>10 DEF PostOrEdit, ToolInv, NoExport
  <2> QED BY <1>1, <1>6, <1>10, <2>1, <2>2, OwnersWait DEF PostOrEdit, CopyInv
<1>11. ASSUME StartRuntime PROVE Kept
  <2>1. ToolInv'
    BY <1>1, <1>11 DEF StartRuntime, Acquire, ToolInv, NoExport
  <2> QED BY <1>1, <1>6, <1>8, <1>11, <2>1, OwnersWait DEF StartRuntime, CopyInv
<1>12. ASSUME Checkpoint PROVE Kept
  <2>1. ToolInv'
    BY <1>1, <1>12 DEF Checkpoint, ToolInv, NoExport
  <2> QED BY <1>1, <1>7, <1>8, <1>12, <2>1, OwnersWait DEF Checkpoint, CopyInv
<1>13. ASSUME StopRuntime PROVE Kept
  <2>1. ToolInv'
    BY <1>1, <1>13 DEF StopRuntime, ToolInv, NoExport
  <2> QED BY <1>1, <1>7, <1>8, <1>13, <2>1, OwnersWait DEF StopRuntime, CopyInv
<1>14. ASSUME Backup PROVE Kept
  <2>1. ToolInv'
    BY <1>1, <1>14 DEF Backup, ToolInv, NoExport
  <2> QED BY <1>1, <1>6, <1>8, <1>14, <2>1, OwnersWait DEF Backup, CopyInv
<1>15. ASSUME NEW m \in MessageIds, NEW version \in {1, 2}, Ingest(m, version) PROVE Kept
  <2> DEFINE row == [source |-> "bot_api", text |-> TextOf(m, version), edited |-> version = 2,
                     version |-> version]
             c == [Content EXCEPT !.rows[m] = row]
  <2>1. /\ Content.rows[m].edited => version = 2
        /\ Commit(c)
    BY <1>15 DEF Ingest
  <2>2. c \in ContentSet /\ ContentInv(c)
    BY IngestIsSound
  <2>3. Content.rows[m].version <= version
    <3>1. Content.rows[m] \in RowSet /\ RowInv(Content.rows[m], m)
      BY <1>2 DEF ContentSet, ContentInv
    <3> QED BY <2>1, <3>1 DEF RowSet, RowInv
  <2>4. \A k \in MessageIds : Content.rows[k].version <= c.rows[k].version
    <3>1. c.rows = [Content.rows EXCEPT ![m] = row] /\ Content.rows \in [MessageIds -> RowSet]
      BY <1>2 DEF ContentSet
    <3> QED BY <1>5, <2>3, <3>1
  <2> HIDE DEF c
  <2> QED BY <1>15, <2>1, <2>2, <2>4, OwnersCommit DEF Ingest
<1>16. ASSUME StartImport PROVE Kept
  <2>1. tool' = [phase |-> "started", of |-> tool.of] /\ owner' = "import" /\ export' = export
        /\ export # NoExport
    BY <1>9, <1>16 DEF StartImport, Acquire, At, ImportStays
  <2>2. ToolInv' /\ tool'.phase \notin {"saved", "moved"} /\ tool'.of = tool.of
    BY <1>9, <2>1 DEF ToolInv, ToolPhases, NoExport
  <2> QED BY <1>6, <1>8, <1>16, <2>2, OwnersWait DEF StartImport, ImportStays
<1>17. ASSUME PrepareRun PROVE Kept
  <2>1. owner = "import" /\ owner' = "import" /\ export # NoExport
    BY <1>1, <1>17 DEF PrepareRun, Importing, ToolInv
  <2>2. CASE Content.run.status = "succeeded"
    <3>1. tool' = [phase |-> "reconciling", of |-> tool.of] /\ disk' = disk /\ committed' = committed
      BY <1>9, <1>17, <2>2 DEF PrepareRun, At
    <3>2. ToolInv' /\ tool'.phase \notin {"saved", "moved"} /\ tool'.of = tool.of
      BY <1>9, <1>17, <2>1, <3>1 DEF ToolInv, ToolPhases, NoExport, PrepareRun, ImportStays
    <3> QED BY <1>6, <1>8, <1>17, <3>1, <3>2, OwnersWait DEF PrepareRun, ImportStays
  <2>3. CASE Content.run.status # "succeeded"
    <3> DEFINE c == [Content EXCEPT !.run.status = "running"]
    <3>1. Commit(c) /\ At("importing")
      BY <1>17, <2>3 DEF PrepareRun
    <3>2. /\ c.rows = Content.rows /\ c.audited = Content.audited
          /\ c.run = [status |-> "running", next |-> Content.run.next]
          /\ c \in ContentSet
      BY <1>2, <1>4 DEF ContentSet, ImportRuns
    <3> HIDE DEF c
    <3>3. ContentInv(c)
      BY <1>2, <2>1, <3>2, RunIsSound DEF ContentInv, RunInv
    <3> QED BY <1>5, <1>17, <2>1, <3>1, <3>2, <3>3, OwnersCommit DEF PrepareRun, ImportStays
  <2> QED BY <2>2, <2>3
<1>18. ASSUME ImportBatch PROVE Kept
  <2> DEFINE c == [Content EXCEPT !.rows = MergedBatch(Content.run.next), !.run.next = @ + BatchSize]
  <2>1. owner = "import" /\ export # NoExport /\ Commit(c) /\ tool' = tool /\ owner' = owner
    BY <1>1, <1>18 DEF ImportBatch, Importing, ToolInv
  <2>2. c \in ContentSet /\ ContentInv(c)
    BY <2>1, BatchIsSound
  <2>3. ASSUME NEW m \in MessageIds PROVE Content.rows[m].version <= c.rows[m].version
    <3>1. Content.rows[m] \in RowSet /\ RowInv(Content.rows[m], m)
      BY <1>2 DEF ContentSet, ContentInv
    <3>2. c.rows = MergedBatch(Content.run.next)
      BY <1>2 DEF ContentSet
    <3>3. c.rows[m] = Merged(Content.rows[m], m) \/ c.rows[m] = Content.rows[m]
      BY <3>2 DEF MergedBatch
    <3> QED BY <1>1, <1>5, <3>1, <3>3, MergedIsSound
  <2> HIDE DEF c
  <2> QED BY <1>18, <2>1, <2>2, <2>3, OwnersCommit DEF ImportBatch, ImportStays
<1>19. ASSUME FinishRun PROVE Kept
  <2> DEFINE c == [Content EXCEPT !.run.status = "succeeded"]
  <2>1. owner = "import" /\ owner' = owner /\ export # NoExport /\ Commit(c) /\ At("reconciling")
        /\ Content.run.next > LastMessage
    BY <1>1, <1>19 DEF FinishRun, Importing, ToolInv
  <2>2. /\ c.rows = Content.rows /\ c.audited = Content.audited
        /\ c.run = [status |-> "succeeded", next |-> Content.run.next]
        /\ c \in ContentSet
    BY <1>2, <1>4 DEF ContentSet, ImportRuns
  <2>3. Complete(Content)
    BY <1>2, <1>4, <2>1, ArchiveAssumption DEF Complete, ContentInv, RunInv, MessageIds, ImportRuns
  <2> HIDE DEF c
  <2>4. ContentInv(c)
    BY <2>1, <2>2, <2>3, RunIsSound
  <2> QED BY <1>5, <1>19, <2>1, <2>2, <2>4, OwnersCommit DEF FinishRun, ImportStays
<1>20. ASSUME ImportFails PROVE Kept
  <2> DEFINE c == [Content EXCEPT !.run.status = "failed"]
  <2>1. export # NoExport /\ Commit(c) /\ tool' = NoTool
    BY <1>1, <1>20 DEF ImportFails, Importing, ToolInv
  <2>2. /\ c.rows = Content.rows /\ c.audited = Content.audited
        /\ c.run = [status |-> "failed", next |-> Content.run.next]
        /\ c \in ContentSet
    BY <1>2, <1>4 DEF ContentSet, ImportRuns
  <2> HIDE DEF c
  <2>4. ContentInv(c)
    BY <1>2, <2>1, <2>2, RunIsSound DEF ContentInv, RunInv
  <2> QED BY <1>5, <1>20, <2>1, <2>2, <2>4, OwnersCommit DEF ImportFails
<1>21. ASSUME EndImport PROVE Kept
  <2>1. owner = "import" /\ export # NoExport /\ tool' = NoTool
    BY <1>1, <1>21 DEF EndImport, Importing, ToolInv
  <2>2. CASE Complete(Content)
    <3> DEFINE c == [Content EXCEPT !.audited = TRUE]
    <3>1. /\ c.rows = Content.rows /\ c.audited = TRUE /\ c.run = Content.run
          /\ c \in ContentSet
      BY <1>2 DEF ContentSet
    <3>2. Commit(c)
      BY <1>21, <2>2 DEF EndImport
    <3> HIDE DEF c
    <3>3. ContentInv(c)
      BY <2>1, <2>2, <3>1, RunIsSound
    <3> QED BY <1>5, <1>21, <2>1, <3>1, <3>2, <3>3, OwnersCommit DEF EndImport, ImportStays
  <2>3. CASE ~Complete(Content)
    <3>1. ToolInv' /\ tool'.phase = "idle" /\ tool'.of = Empty
      BY <2>1, EmptyIsSound DEF ToolInv, NoTool, ToolPhases
    <3> QED BY <1>6, <1>8, <1>21, <2>3, <3>1, OwnersWait DEF EndImport, ImportStays
  <2> QED BY <2>2, <2>3
<1>22. ASSUME StartRestore PROVE Kept
  <2>1. tool' = [phase |-> "locked", of |-> backup] /\ owner' = "restore" /\ backup \in ContentSet
    BY <1>1, <1>22 DEF StartRestore, Acquire, ArchiveTypeOK
  <2>2. ToolInv' /\ tool'.phase = "locked" /\ tool'.of = backup
    BY <2>1 DEF ToolInv, ToolPhases
  <2> QED BY <1>6, <1>8, <1>22, <2>2, OwnersWait DEF StartRestore, RestoreStays
<1>23. ASSUME CopyForSafety PROVE Kept
  <2>1. tool' = [phase |-> "saved", of |-> tool.of] /\ owner = "restore" /\ owner' = owner
    BY <1>1, <1>9, <1>23 DEF CopyForSafety, At, ToolInv
  <2>2. ToolInv' /\ tool'.of = tool.of
    BY <1>9, <2>1 DEF ToolInv, ToolPhases
  <2>3. safety' = safety \cup {Content} /\ committed \in safety'
    BY <1>1, <1>23 DEF CopyForSafety, CopyInv, PriorIsKept
  <2> QED BY <1>6, <1>8, <1>23, <2>2, <2>3, OwnersWait DEF CopyForSafety, RestoreStays
<1>24. ASSUME MoveSidecars PROVE Kept
  <2>1. /\ tool' = [phase |-> "moved", of |-> tool.of] /\ owner = "restore" /\ owner' = owner
        /\ disk' = [main |-> disk.main, log |-> NoLog]
        /\ committed \in safety
    BY <1>1, <1>3, <1>9, <1>24 DEF MoveSidecars, At, ToolInv, CopyInv
  <2>2. ToolInv' /\ tool'.of = tool.of
    BY <1>9, <2>1 DEF ToolInv, ToolPhases
  <2>3. ContentsKeep
    BY <1>24, <2>1, <2>2 DEF ContentsKeep, Contents, MoveSidecars, RestoreStays
  <2>4. ArchiveTypeOK' /\ CopyInv'
    BY <1>1, <1>3, <1>24, <2>1, <2>2 DEF ArchiveTypeOK, CopyInv, PriorIsKept, MoveSidecars, RestoreStays
  <2> QED BY <2>1, <2>3, <2>4 DEF Kept, Forward
<1>25. ASSUME Replace PROVE Kept
  <2>1. /\ tool' = NoTool /\ owner = "restore" /\ committed' = tool.of
        /\ disk' = [main |-> tool.of, log |-> NoLog]
    BY <1>1, <1>25 DEF Replace, ToolInv
  <2>2. ToolInv' /\ tool'.of = Empty /\ tool'.phase = "idle"
    BY <2>1, EmptyIsSound DEF ToolInv, ToolPhases, NoTool
  <2>3. Content' = tool.of
    BY <2>1 DEF Content
  <2>4. ContentsKeep
    BY <1>25, <2>1, <2>2, EmptyIsSound DEF ContentsKeep, Contents, Replace, RestoreStays
  <2>5. ArchiveTypeOK' /\ CopyInv'
    BY <1>1, <1>9, <1>25, <2>1, <2>2, <2>3 DEF ArchiveTypeOK, CopyInv, PriorIsKept, Replace, RestoreStays
  <2> QED BY <2>1, <2>4, <2>5 DEF Kept, Forward
<1>26. ASSUME Death PROVE Kept
  <2>1. ToolInv' /\ tool'.of = Empty /\ tool'.phase = "idle"
    BY <1>26, EmptyIsSound DEF Death, ToolInv, ToolPhases, NoTool
  <2> QED BY <1>6, <1>8, <1>26, <2>1, OwnersWait DEF Death
<1> QED BY <1>10, <1>11, <1>12, <1>13, <1>14, <1>15, <1>16, <1>17, <1>18, <1>19, <1>20, <1>21,
           <1>22, <1>23, <1>24, <1>25, <1>26 DEF ArchiveNext

\* When the export is made no row has been taken from it, and no run has begun.
LEMMA ExportKeeps == ArchiveInv /\ ExportChat => ArchiveInv' /\ Forward
<1> SUFFICES ASSUME ArchiveInv, ExportChat PROVE ArchiveInv' /\ Forward OBVIOUS
<1>1. /\ export = NoExport /\ export' = telegram /\ export' # NoExport
      /\ UNCHANGED <<telegram, disk, backup, safety, owner, tool, committed>>
  BY DEF ExportChat, NoExport
<1>2. ArchiveTypeOK'
  BY <1>1 DEF ArchiveInv, ArchiveTypeOK, ToolInv, NoExport
<1>3. CopyInv' /\ Contents' = Contents /\ Content' = Content
  BY <1>1 DEF ArchiveInv, CopyInv, PriorIsKept, Content, Contents
<1>4. ASSUME NEW c \in Contents PROVE ContentInv(c)'
  <2>1. ContentInv(c) /\ c.run = NoRun /\ ~c.audited
    BY <1>1 DEF ArchiveInv, ContentInv, RunInv
  <2>2. RunInv(c)'
    BY <1>1, <2>1, ArchiveAssumption DEF RunInv, NoRun, MessageIds, NoExport
  <2>3. ASSUME NEW m \in MessageIds PROVE RowInv(c.rows[m], m)'
    BY <1>1, <2>1 DEF ContentInv, RowInv, NoExport
  <2> QED BY <2>2, <2>3 DEF ContentInv
<1>5. Forward
  BY <1>3, SameContent
<1> QED BY <1>2, <1>3, <1>4, <1>5 DEF ArchiveInv

LEMMA StepArchive == ArchiveInv /\ ArchiveNext => ArchiveInv' /\ Forward
<1> SUFFICES ASSUME ArchiveInv, ArchiveNext PROVE ArchiveInv' /\ Forward OBVIOUS
<1>1. CASE ExportChat
  BY <1>1, ExportKeeps
<1>2. CASE ~ExportChat
  BY <1>2, StepKeeps, KeptContents DEF Kept, ArchiveInv
<1> QED BY <1>1, <1>2

LEMMA StutterArchive == ArchiveInv /\ UNCHANGED archiveVars => ArchiveInv' /\ Forward
<1> SUFFICES ASSUME ArchiveInv, UNCHANGED archiveVars PROVE ArchiveInv' /\ Forward OBVIOUS
<1>1. Content' = Content
  BY DEF archiveVars, Content
<1>2. ArchiveTypeOK' /\ CopyInv' /\ ContentsKeep
  BY DEF archiveVars, ArchiveInv, ArchiveTypeOK, ToolInv, CopyInv, PriorIsKept, Content, Contents,
         ContentsKeep, NoExport
<1> QED BY <1>1, <1>2, SameContent, KeptContents DEF ArchiveInv

LEMMA InitArchive == ArchiveInit => ArchiveInv
<1> SUFFICES ASSUME ArchiveInit PROVE ArchiveInv OBVIOUS
<1> USE DEF ArchiveInit
<1>1. ArchiveTypeOK
  BY EmptyIsSound DEF ArchiveTypeOK, ToolInv, NoTool, ToolPhases, NoExport
<1>2. CopyInv
  BY DEF CopyInv, PriorIsKept, Content, NoTool
<1>3. ASSUME NEW c \in Contents PROVE ContentInv(c)
  BY EmptyIsSound DEF Contents, NoTool
<1> QED BY <1>1, <1>2, <1>3 DEF ArchiveInv

LEMMA ArchiveIsSound == ArchiveSpec => []ArchiveInv
<1>1. ArchiveInv /\ [ArchiveNext]_archiveVars => ArchiveInv'
  BY StepArchive, StutterArchive
<1> QED BY <1>1, InitArchive, PTL DEF ArchiveSpec

\* An import run that succeeded has archived every message of the export, however often it was
\* broken off and resumed and whatever was restored (TelegramDesktopImporter.run, _prepare_run).
THEOREM ImportsAreComplete == ArchiveSpec => []ImportIsComplete
<1>1. ArchiveInv => ImportIsComplete
  BY ContentTyped DEF ArchiveInv, ContentInv, RunInv, ImportIsComplete
<1> QED BY <1>1, ArchiveIsSound, PTL

\* No death of a restore, at any step and for any number of restores, loses what was committed:
\* the database or a safety copy has it (restore_backup).
THEOREM RestoreLosesNothing == ArchiveSpec => []PriorIsKept
<1>1. ArchiveInv => PriorIsKept
  BY DEF ArchiveInv, CopyInv
<1> QED BY <1>1, ArchiveIsSound, PTL

\* Neither a late update nor an import takes a message back to an earlier version
\* (_apply_message_snapshot, _merge_message).
THEOREM ArchiveNeverRegresses == ArchiveSpec => ArchiveMovesForward
<1> DEFINE F == owner # "restore" =>
                  \A m \in MessageIds : Content.rows[m].version <= Content'.rows[m].version
<1>1. ArchiveInv /\ [ArchiveNext]_archiveVars => [F]_archiveVars
  BY StepArchive DEF Forward
<1> QED BY <1>1, ArchiveIsSound, PTL DEF ArchiveSpec, ArchiveMovesForward

(***************************************************************************)
(* Watch.                                                                  *)
(***************************************************************************)
Hours == Nat \cup {Never}

AlertRuns == [phase : {"idle", "started", "sending", "delivered"}, at : Hours]

WatchTypeOK ==
  /\ hour \in Nat
  /\ alive \in BOOLEAN
  /\ heartbeat \in Hours
  /\ probe \in [at : Hours, ok : BOOLEAN]
  /\ unit \in AlertRuns
  /\ marker \in Hours
  /\ lived \in Hours
  /\ reached \in Hours
  /\ verdict \in [gone : Int, unreached : Int]
  /\ told \in Hours
  /\ handled \in Hours

\* What is recorded of the runtime is no later than what happened.
RecordsLag ==
  /\ alive => lived = hour
  /\ heartbeat <= lived /\ lived <= hour
  /\ probe.ok => probe.at <= reached

\* An alert has reached the owner by the time a marker or the end of a unit says so.
AlertsPrecedeMarkers ==
  /\ told <= hour
  /\ unit.at <= hour
  /\ unit.phase \in {"sending", "delivered"} => unit.at \in Nat
  /\ unit.phase = "delivered" => told # Never /\ unit.at <= told
  /\ marker # Never => told # Never /\ marker <= told

HealthInv == WatchTypeOK /\ RecordsLag /\ GoneIsSeen

AlertInv == WatchTypeOK /\ AlertsPrecedeMarkers /\ OwnerIsTold

----------------------------------------------------------------------------
LEMMA InitWatch == WatchInit => HealthInv /\ AlertInv
<1> SUFFICES ASSUME WatchInit PROVE HealthInv /\ AlertInv OBVIOUS
<1> USE WatchAssumption DEF WatchInit
<1>1. WatchTypeOK
  <2>1. Never \in Hours
    BY DEF Hours
  <2>2. Unit \in AlertRuns /\ NoVerdict \in [gone : Int, unreached : Int]
    BY <2>1 DEF Unit, AlertRuns, NoVerdict
  <2> QED BY <2>1, <2>2 DEF WatchTypeOK, Hours
<1>2. RecordsLag /\ GoneIsSeen
  BY DEF RecordsLag, GoneIsSeen, NoVerdict, Never
<1>3. AlertsPrecedeMarkers /\ OwnerIsTold
  BY DEF AlertsPrecedeMarkers, OwnerIsTold, Unit, Never
<1> QED BY <1>1, <1>2, <1>3 DEF HealthInv, AlertInv

LEMMA StepTyped == WatchTypeOK /\ [WatchNext]_watchVars => WatchTypeOK'
<1> SUFFICES ASSUME WatchTypeOK, [WatchNext]_watchVars PROVE WatchTypeOK' OBVIOUS
<1> USE DEF WatchTypeOK, Hours, stored, watchHistory
<1>1. CASE HourPasses
  BY <1>1 DEF HourPasses
<1>2. CASE StartWatched \/ ProbeSucceeds
  <2>1. hour \in Hours /\ [at |-> hour, ok |-> TRUE] \in [at : Hours, ok : BOOLEAN]
    OBVIOUS
  <2> QED BY <1>2, <2>1 DEF StartWatched, ProbeSucceeds
<1>11. CASE Beat \/ WatchedDies
  BY <1>11 DEF Beat, WatchedDies
<1>3. CASE ProbeFails
  BY <1>3 DEF ProbeFails
<1>4. ASSUME NEW other \in BOOLEAN, CheckHealth(other) PROVE WatchTypeOK'
  <2>1. verdict' \in [gone : Int, unreached : Int]
    BY <1>4 DEF CheckHealth, NoVerdict, Never
  <2>2. unit' \in AlertRuns
    BY <1>4 DEF CheckHealth, AlertRuns
  <2> QED BY <1>4, <2>1, <2>2 DEF CheckHealth
<1>5. CASE Suppress
  BY <1>5 DEF Suppress, Unit, AlertRuns
<1>6. CASE BeginAlert
  BY <1>6 DEF BeginAlert, AlertRuns
<1>7. CASE DeliverAlert
  BY <1>7 DEF DeliverAlert, AlertRuns
<1>8. CASE MarkAlert
  BY <1>8 DEF MarkAlert, Unit, AlertRuns
<1>9. CASE MarkFails \/ UnitGone
  BY <1>9 DEF MarkFails, UnitGone, Unit, AlertRuns
<1>10. CASE UNCHANGED watchVars
  BY <1>10 DEF watchVars
<1> QED BY <1>1, <1>2, <1>3, <1>4, <1>5, <1>6, <1>7, <1>8, <1>9, <1>10, <1>11 DEF WatchNext

----------------------------------------------------------------------------
(***************************************************************************)
(* The health check                                                        *)
(***************************************************************************)
\* A check without a reason has found both records fresh and the probe in order.
LEMMA WellMeansFresh ==
  ASSUME WatchTypeOK, Reasons = {}
  PROVE  /\ heartbeat >= hour - StaleAfter
         /\ probe.at >= hour - ProbeStaleAfter
         /\ probe.ok
<1>1. /\ ~(heartbeat = Never \/ Stale(heartbeat, StaleAfter))
      /\ ~(probe.at = Never \/ Stale(probe.at, ProbeStaleAfter))
      /\ ~(probe.at # Never /\ ~probe.ok)
  BY Zenon DEF Reasons
<1> QED BY <1>1, WatchAssumption DEF WatchTypeOK, Stale, Hours, Never

LEMMA StepHealth == HealthInv /\ [WatchNext]_watchVars => HealthInv'
<1> SUFFICES ASSUME HealthInv, [WatchNext]_watchVars PROVE RecordsLag' /\ GoneIsSeen'
  BY StepTyped DEF HealthInv
<1> USE WatchAssumption DEF HealthInv, WatchTypeOK, RecordsLag, GoneIsSeen, Hours, Never
<1>1. CASE HourPasses
  BY <1>1 DEF HourPasses, stored
<1>2. CASE StartWatched \/ ProbeSucceeds
  BY <1>2 DEF StartWatched, ProbeSucceeds
<1>3. CASE Beat \/ ProbeFails \/ WatchedDies
  BY <1>3 DEF Beat, ProbeFails, WatchedDies, stored, watchHistory
<1>4. ASSUME NEW other \in BOOLEAN, CheckHealth(other) PROVE RecordsLag' /\ GoneIsSeen'
  <2>1. CASE Reasons = {} /\ ~other
    <3>1. /\ hour - lived <= StaleAfter
          /\ hour - reached <= ProbeStaleAfter
      BY <2>1, WellMeansFresh
    <3>2. verdict' = [gone |-> hour - lived, unreached |-> hour - reached]
      BY <1>4, <2>1 DEF CheckHealth
    <3> QED BY <1>4, <3>1, <3>2 DEF CheckHealth, stored
  <2>2. CASE ~(Reasons = {} /\ ~other)
    <3>1. verdict' = NoVerdict
      BY <1>4, <2>2 DEF CheckHealth
    <3> QED BY <1>4, <3>1 DEF CheckHealth, NoVerdict, stored
  <2> QED BY <2>1, <2>2
<1>5. CASE Suppress \/ BeginAlert \/ DeliverAlert \/ MarkAlert \/ MarkFails \/ UnitGone
  BY <1>5 DEF Suppress, BeginAlert, DeliverAlert, MarkAlert, MarkFails, UnitGone, stored, watchHistory
<1>6. CASE UNCHANGED watchVars
  BY <1>6 DEF watchVars, stored, watchHistory
<1> QED BY <1>1, <1>2, <1>3, <1>4, <1>5, <1>6 DEF WatchNext

\* A health check that finds everything well was made within the two limits of the last hour
\* the runtime ran and of the last hour its rights were in order, however the runtime died,
\* came back and failed its probes (build_health_report).
THEOREM HealthSeesAbsence == WatchSpec => []GoneIsSeen
<1>1. HealthInv => GoneIsSeen
  BY DEF HealthInv
<1> QED BY <1>1, InitWatch, StepHealth, PTL DEF WatchSpec

----------------------------------------------------------------------------
(***************************************************************************)
(* The alert                                                               *)
(***************************************************************************)
LEMMA StepAlert == AlertInv /\ [WatchNext]_watchVars => AlertInv'
<1> SUFFICES ASSUME AlertInv, [WatchNext]_watchVars PROVE AlertsPrecedeMarkers' /\ OwnerIsTold'
  BY StepTyped DEF AlertInv
<1> USE WatchAssumption
    DEF AlertInv, WatchTypeOK, AlertsPrecedeMarkers, OwnerIsTold, Hours, Never, AlertRuns
<1>1. CASE HourPasses
  BY <1>1 DEF HourPasses, stored
<1>2. CASE StartWatched \/ Beat \/ ProbeSucceeds \/ ProbeFails \/ WatchedDies
  BY <1>2 DEF StartWatched, Beat, ProbeSucceeds, ProbeFails, WatchedDies, stored, watchHistory
<1>3. ASSUME NEW other \in BOOLEAN, CheckHealth(other) PROVE AlertsPrecedeMarkers' /\ OwnerIsTold'
  <2>1. /\ unit'.at = unit.at
        /\ unit'.phase = unit.phase \/ unit'.phase = "started"
    BY <1>3 DEF CheckHealth
  <2> QED BY <1>3, <2>1 DEF CheckHealth, stored
<1>4. CASE Suppress
  BY <1>4 DEF Suppress, Cooling, Unit, stored
<1>5. CASE BeginAlert
  BY <1>5 DEF BeginAlert, stored, watchHistory
<1>6. CASE DeliverAlert
  BY <1>6 DEF DeliverAlert, stored
<1>7. CASE MarkAlert
  BY <1>7 DEF MarkAlert, Unit
<1>8. CASE MarkFails \/ UnitGone
  BY <1>8 DEF MarkFails, UnitGone, Unit, stored, watchHistory
<1>9. CASE UNCHANGED watchVars
  BY <1>9 DEF watchVars, stored, watchHistory
<1> QED BY <1>1, <1>2, <1>3, <1>4, <1>5, <1>6, <1>7, <1>8, <1>9 DEF WatchNext

\* Whenever an alert unit ends without an error, by sending or by keeping silent, an alert has
\* reached the owner since a cooldown before the unit began, whichever of its earlier runs
\* failed before or after Telegram took the message (send_owner_alert).
THEOREM SilenceIsEarned == WatchSpec => []OwnerIsTold
<1>1. AlertInv => OwnerIsTold
  BY DEF AlertInv
<1> QED BY <1>1, InitWatch, StepAlert, PTL DEF WatchSpec

(***************************************************************************)
(* Retention.                                                              *)
(***************************************************************************)
TableNames == {Tables[i] : i \in DOMAIN Tables}

RetentionRuns == [job : Nat, table : Nat, checked : Nat, batch : Nat, full : SUBSET TableNames]

RetentionTypeOK ==
  /\ today \in Nat
  /\ content \in [TableNames -> SUBSET (0..today)]
  /\ run \in RetentionRuns /\ run.checked <= today
  /\ clean \in Nat /\ clean <= today

\* A table that the batch at hand has been through, and that did not fill it, holds nothing
\* that was overdue when the batch began.
BatchCleans ==
  \A i \in DOMAIN Tables :
    i < run.table /\ Tables[i] \notin run.full =>
      \A d \in content[Tables[i]] : run.checked <= d + Age[Tables[i]]

RetentionInv == RetentionTypeOK /\ BatchCleans /\ PrivacyHolds

----------------------------------------------------------------------------
LEMMA Ages == /\ DOMAIN Age = TableNames
              /\ \A t \in TableNames : Age[t] \in Nat
<1>1. DOMAIN Age = TableNames
  BY DEF Age, TableNames
<1>2. ASSUME NEW t \in TableNames PROVE Age[t] \in Nat
  BY RetentionAssumption DEF Age, TableNames
<1> QED BY <1>1, <1>2

\* A set of days that is not empty has a first and a last one.
LEMMA FirstDay ==
  ASSUME NEW S, S \subseteq Nat, S # {}
  PROVE  \E x \in S : \A y \in S : x <= y
<1>1. IsWellFoundedOn(OpToRel(<, Nat), Nat)
  BY NatLessThanWellFounded
<1>2. PICK n \in S : \A m \in S : ~(<<m, n>> \in OpToRel(<, Nat))
  BY <1>1, WFMin
<1>3. \A m \in S : ~(m < n)
  BY <1>2 DEF OpToRel
<1>4. \A m \in S : n <= m
  BY <1>3
<1> QED BY <1>4

LEMMA LastDayOf ==
  ASSUME NEW n \in Nat, NEW S, S \subseteq 0..n, S # {}
  PROVE  \E x \in S : \A y \in S : y <= x
<1> DEFINE Mirror == {n - x : x \in S}
<1>1. Mirror \subseteq Nat /\ Mirror # {}
  <2>1. ASSUME NEW x \in S PROVE n - x \in Nat
    <3>1. x \in 0..n
      OBVIOUS
    <3> QED BY <3>1
  <2>2. PICK x \in S : TRUE
    OBVIOUS
  <2>3. n - x \in Mirror
    OBVIOUS
  <2> QED BY <2>1, <2>3
<1>2. PICK m \in Mirror : \A k \in Mirror : m <= k
  <2> HIDE DEF Mirror
  <2> QED BY <1>1, FirstDay
<1>3. PICK x \in S : m = n - x
  BY <1>2
<1>4. ASSUME NEW y \in S PROVE y <= x
  <2>1. n - y \in Mirror
    OBVIOUS
  <2>2. m <= n - y
    BY <1>2, <2>1
  <2> QED BY <1>3, <2>2
<1> QED BY <1>4

\* A batch that does not fill its limit has taken all that is overdue.
LEMMA OldestOrAll ==
  ASSUME NEW n \in Nat, Overdue \subseteq 0..n, Cardinality(Oldest) # BatchLimit
  PROVE  Oldest = Overdue
<1> DEFINE Before(x) == {e \in Overdue : e < x}
<1>0. ASSUME NEW d \in Overdue PROVE d \in Nat
  <2>1. d \in 0..n
    OBVIOUS
  <2> QED BY <2>1
<1>1. IsFiniteSet(Overdue) /\ IsFiniteSet(Oldest) /\ \A x \in Overdue : IsFiniteSet(Before(x))
  <2>1. IsFiniteSet(0..n)
    BY FS_Interval
  <2>2. IsFiniteSet(Overdue)
    BY <2>1, FS_Subset
  <2> QED BY <2>2, FS_Subset DEF Oldest
<1>2. /\ Cardinality(Oldest) \in Nat
      /\ \A x \in Overdue : Cardinality(Before(x)) \in Nat
  BY <1>1, FS_CardinalityType
<1>3. BatchLimit \in Nat \ {0}
  BY RetentionAssumption
<1>4. Cardinality(Oldest) <= BatchLimit
  <2>1. CASE Oldest = {}
    BY <1>3, <2>1, FS_EmptySet
  <2>2. CASE Oldest # {}
    <3>1. Oldest \subseteq 0..n
      BY DEF Oldest
    <3>2. PICK x \in Oldest : \A y \in Oldest : y <= x
      BY <2>2, <3>1, LastDayOf
    <3>3. x \in Overdue /\ Cardinality(Before(x)) < BatchLimit
      BY <3>2 DEF Oldest
    <3>4. Oldest \ {x} \subseteq Before(x)
      BY <3>1, <3>2 DEF Oldest
    <3>5. Cardinality(Oldest \ {x}) <= Cardinality(Before(x))
      BY <1>1, <3>3, <3>4, FS_Subset
    <3>6. Cardinality(Oldest \ {x}) = Cardinality(Oldest) - 1
      BY <1>1, <3>2, FS_RemoveElement
    <3> QED BY <1>2, <1>3, <3>3, <3>5, <3>6
  <2> QED BY <2>1, <2>2
<1>5. SUFFICES ASSUME Overdue \ Oldest # {} PROVE FALSE
  BY DEF Oldest
<1>6. PICK x \in Overdue \ Oldest : \A y \in Overdue \ Oldest : x <= y
  <2>1. Overdue \ Oldest \subseteq Nat
    BY <1>0
  <2> QED BY <1>5, <2>1, FirstDay
<1>7. Before(x) \subseteq Oldest
  <2>1. ASSUME NEW e \in Overdue, e < x PROVE e \in Oldest
    <3>1. e \in Nat /\ x \in Nat
      BY <1>0
    <3>2. ~(x <= e)
      BY <2>1, <3>1
    <3> QED BY <1>6, <3>2
  <2> QED BY <2>1
<1>8. ~(Cardinality(Before(x)) < BatchLimit)
  BY <1>6 DEF Oldest
<1>9. Cardinality(Before(x)) <= Cardinality(Oldest)
  BY <1>1, <1>7, FS_Subset
<1> QED BY <1>2, <1>3, <1>4, <1>6, <1>8, <1>9

----------------------------------------------------------------------------
LEMMA InitInductive == RetentionInit => RetentionInv
<1> SUFFICES ASSUME RetentionInit PROVE RetentionInv OBVIOUS
<1>1. RetentionTypeOK
  BY Ages DEF RetentionInit, RetentionTypeOK, NoBatch, RetentionRuns
<1>2. BatchCleans
  BY RetentionAssumption DEF RetentionInit, BatchCleans, NoBatch
<1>3. PrivacyHolds
  BY DEF RetentionInit, PrivacyHolds
<1> QED BY <1>1, <1>2, <1>3 DEF RetentionInv

\* A row that is new, or new again, is of today, and no batch and no clean run is of later.
LEMMA YoungRows ==
  ASSUME RetentionInv, NEW t \in TableNames, NEW days,
         content' = [content EXCEPT ![t] = days], days \subseteq content[t] \cup {today},
         UNCHANGED <<today, run, clean>>
  PROVE  RetentionInv'
<1> USE DEF RetentionInv, RetentionTypeOK
<1>1. content' \in [TableNames -> SUBSET (0..today)]
  OBVIOUS
<1>2. \A s \in TableNames : content'[s] \subseteq content[s] \cup {today}
  OBVIOUS
<1>3. BatchCleans'
  <2>1. SUFFICES ASSUME NEW i \in DOMAIN Tables, i < run.table, Tables[i] \notin run.full,
                        NEW d \in content'[Tables[i]]
                 PROVE  run.checked <= d + Age[Tables[i]]
    BY DEF BatchCleans
  <2>2. Tables[i] \in TableNames /\ Age[Tables[i]] \in Nat
    BY Ages DEF TableNames
  <2>3. CASE d \in content[Tables[i]]
    BY <2>1, <2>3 DEF BatchCleans
  <2>4. CASE d = today
    BY <2>2, <2>4 DEF RetentionRuns
  <2> QED BY <1>2, <2>1, <2>2, <2>3, <2>4
<1>4. PrivacyHolds'
  <2>1. SUFFICES ASSUME NEW s \in TableNames, NEW d \in content'[s] PROVE clean <= d + Age[s]
    BY Ages DEF PrivacyHolds
  <2>2. Age[s] \in Nat
    BY Ages
  <2>3. CASE d \in content[s]
    BY Ages, <2>3 DEF PrivacyHolds
  <2>4. CASE d = today
    BY <2>2, <2>4
  <2> QED BY <1>2, <2>1, <2>3, <2>4
<1> QED BY <1>1, <1>3, <1>4

LEMMA RedactKeeps ==
  ASSUME RetentionInv, Redact
  PROVE  RetentionInv'
<1> USE DEF RetentionInv, RetentionTypeOK
<1>1. Table \in TableNames /\ run.table \in DOMAIN Tables
  BY DEF Redact, Table, TableNames
<1>2. /\ content' = [content EXCEPT ![Table] = content[Table] \ Oldest]
      /\ UNCHANGED <<today, clean>>
      /\ content' \in [TableNames -> SUBSET (0..today)]
      /\ \A t \in TableNames : content'[t] \subseteq content[t]
  BY <1>1 DEF Redact
<1> DEFINE full == IF Cardinality(Oldest) = BatchLimit THEN run.full \cup {Table} ELSE run.full
<1>3. run' = [run EXCEPT !.table = run.table + 1, !.full = full]
  BY DEF Redact
<1>4. full \in SUBSET TableNames /\ run.full \subseteq full
  BY <1>1 DEF RetentionRuns
<1>5. /\ run' \in RetentionRuns /\ run'.checked = run.checked
      /\ run'.table = run.table + 1 /\ run'.full = full
  <2> HIDE DEF full
  <2> DEFINE moved == [run EXCEPT !.table = run.table + 1]
  <2>1. moved \in RetentionRuns /\ moved.checked = run.checked /\ moved.table = run.table + 1
    BY DEF RetentionRuns
  <2>2. run' = [moved EXCEPT !.full = full]
    BY <1>3
  <2> HIDE DEF moved
  <2> QED BY <1>4, <2>1, <2>2 DEF RetentionRuns
<1>6. ASSUME NEW i \in DOMAIN Tables, i < run.table + 1, Tables[i] \notin full,
             NEW d \in content'[Tables[i]]
      PROVE  run.checked <= d + Age[Tables[i]]
  <2>1. Tables[i] \in TableNames /\ d \in content[Tables[i]]
    BY <1>2, <1>6 DEF TableNames
  <2>2. CASE i < run.table
    BY <1>4, <1>6, <2>1, <2>2 DEF BatchCleans
  <2>3. CASE ~(i < run.table)
    <3>1. i = run.table
      <4>1. i \in Int /\ run.table \in Int
        BY <1>1, RetentionAssumption
      <4> QED BY <1>6, <2>3, <4>1
    <3>2. Tables[i] = Table /\ Cardinality(Oldest) # BatchLimit
      BY <1>6, <3>1 DEF Table
    <3>3. Oldest = Overdue
      <4>1. Overdue \subseteq 0..today
        BY <1>1 DEF Overdue
      <4> QED BY <3>2, <4>1, OldestOrAll
    <3>4. d \in content[Table] /\ d \notin Overdue
      BY <1>1, <1>2, <1>6, <3>2, <3>3
    <3>5. ~(d + Age[Table] < run.checked)
      BY <3>4 DEF Overdue
    <3>6. d \in Nat /\ Age[Table] \in Nat /\ run.checked \in Nat
      BY <1>1, <3>4, Ages DEF RetentionRuns
    <3> QED BY <3>2, <3>5, <3>6
  <2> QED BY <2>2, <2>3
<1>7. BatchCleans'
  <2> HIDE DEF full
  <2> QED BY <1>5, <1>6 DEF BatchCleans
<1>8. PrivacyHolds'
  BY <1>2, Ages DEF PrivacyHolds
<1> QED BY <1>2, <1>5, <1>7, <1>8

LEMMA EndRunKeeps ==
  ASSUME RetentionInv, EndRun
  PROVE  RetentionInv'
<1> USE DEF RetentionInv, RetentionTypeOK
<1>1. /\ UNCHANGED <<today, content>> /\ run' = NoBatch
      /\ clean' = IF MayHaveMore THEN clean ELSE run.checked
      /\ run.table > Len(Tables)
  BY DEF EndRun
<1>2. NoBatch \in RetentionRuns /\ NoBatch.table = 0 /\ NoBatch.checked = 0
  BY DEF NoBatch, RetentionRuns
<1>3. BatchCleans'
  BY <1>1, <1>2, RetentionAssumption DEF BatchCleans
<1>4. PrivacyHolds'
  <2>1. CASE MayHaveMore
    BY <1>1, <2>1 DEF PrivacyHolds
  <2>2. CASE ~MayHaveMore
    <3>1. SUFFICES ASSUME NEW t \in TableNames, NEW d \in content[t] PROVE run.checked <= d + Age[t]
      BY <1>1, <2>2, Ages DEF PrivacyHolds
    <3>2. PICK i \in DOMAIN Tables : t = Tables[i]
      BY DEF TableNames
    <3>3. i < run.table
      BY <1>1, RetentionAssumption DEF RetentionRuns
    <3> QED BY <2>2, <3>2, <3>3 DEF BatchCleans, MayHaveMore
  <2> QED BY <2>1, <2>2
<1>5. clean' \in Nat /\ clean' <= today
  BY <1>1 DEF RetentionRuns
<1> QED BY <1>1, <1>2, <1>3, <1>4, <1>5

LEMMA StepInductive == RetentionInv /\ [RetentionNext]_retentionVars => RetentionInv'
<1> SUFFICES ASSUME RetentionInv, [RetentionNext]_retentionVars PROVE RetentionInv' OBVIOUS
<1> USE DEF RetentionInv, RetentionTypeOK
\* A batch that begins, and a run that is broken off, has been through no table.
<1>a. ASSUME UNCHANGED <<content, clean, today>>, run' \in RetentionRuns, run'.table <= 1, run'.checked <= today
      PROVE  RetentionInv'
  <2>1. ASSUME NEW i \in DOMAIN Tables PROVE ~(i < run'.table)
    BY <1>a, RetentionAssumption DEF RetentionRuns
  <2> QED BY <1>a, <2>1 DEF BatchCleans, PrivacyHolds
<1>1. CASE DayPasses
  <2>1. content' \in [TableNames -> SUBSET (0..today')] /\ today' \in Nat /\ today <= today'
    BY <1>1 DEF DayPasses
  <2> QED BY <1>1, <2>1 DEF DayPasses, BatchCleans, PrivacyHolds, RetentionRuns
<1>2. CASE Plan
  BY <1>2 DEF Plan, BatchCleans, PrivacyHolds
<1>3. ASSUME NEW t \in DOMAIN Age, Close(t) PROVE RetentionInv'
  <2>1. t \in TableNames
    BY Ages
  <2>2. content' = [content EXCEPT ![t] = content[t] \cup {today}] /\ UNCHANGED <<today, run, clean>>
    BY <1>3 DEF Close
  <2> QED BY <2>1, <2>2, YoungRows
<1>4. ASSUME NEW d \in 1..LastDay, Continue(d) PROVE RetentionInv'
  <2>1. "talks" \in TableNames
    BY RetentionAssumption DEF TableNames
  <2>2. /\ content' = [content EXCEPT !["talks"] = (content["talks"] \ {d}) \cup {today}]
        /\ UNCHANGED <<today, run, clean>>
    BY <1>4 DEF Continue
  <2> QED BY <2>1, <2>2, YoungRows
<1>5. ASSUME NEW d \in 1..LastDay, StartRun(d) PROVE RetentionInv'
  <2>1. run' = [job |-> d, table |-> 1, checked |-> today, batch |-> 1, full |-> {}]
    BY <1>5 DEF StartRun, NoBatch
  <2>2. d \in Nat
    BY RetentionAssumption
  <2> QED BY <1>5, <1>a, <2>1, <2>2 DEF StartRun, RetentionRuns
<1>6. CASE Redact
  BY <1>6, RedactKeeps
<1>7. CASE NextBatch
  <2>1. run' = [job |-> run.job, table |-> 1, checked |-> today, batch |-> run.batch + 1, full |-> {}]
    BY <1>7 DEF NextBatch, RetentionRuns
  <2> QED BY <1>7, <1>a, <2>1 DEF NextBatch, RetentionRuns
<1>8. CASE EndRun
  BY <1>8, EndRunKeeps
<1>9. CASE BreakRun
  BY <1>9, <1>a DEF BreakRun, NoBatch, RetentionRuns
<1>10. CASE UNCHANGED retentionVars
  BY <1>10 DEF retentionVars, BatchCleans, PrivacyHolds
<1> QED BY <1>1, <1>2, <1>3, <1>4, <1>5, <1>6, <1>7, <1>8, <1>9, <1>10 DEF RetentionNext

\* A retention run that ends because no table filled its batch leaves no content that was
\* overdue when its last batch began, for any ages and limits, however many rows are closed or
\* continued between two of its transactions and wherever runs are broken off (run_batch).
THEOREM CleanRunsClean == RetentionSpec => []PrivacyHolds
<1>1. RetentionInv => PrivacyHolds
  BY DEF RetentionInv
<1> QED BY <1>1, InitInductive, StepInductive, PTL DEF RetentionSpec

----------------------------------------------------------------------------
(***************************************************************************)
(* Assistant.                                                              *)
(***************************************************************************)
UsageRows == [requests : Nat, tokens : Nat]

Calls == [day : Days, tries : 0..MaxRetries, metered : Costs \cup {-1}]

AssistantTypeOK ==
  /\ moment \in 0..LastMoment
  /\ asker \in [Updates -> Askers]
  /\ usage \in [UsageKeys -> UsageRows]
  /\ call \in Calls
  /\ spent \in [Periods -> Nat]
  /\ repeats \in [Periods -> Nat]
  /\ unmetered \in [Periods -> Int]
  /\ calls \in [Parties -> [Periods -> Nat]]

\* The periods, where their tokens and requests are counted, and what they are limited to.
DayAccount(d) ==
  [period |-> Daily(d), key |-> DayKey(d), tokens |-> TokenLimit, requests |-> RequestLimit]

MonthAccount(d) ==
  [period |-> Monthly(d), key |-> MonthKey(d), tokens |-> MonthTokenLimit, requests |-> MonthRequestLimit]

Accounts == {DayAccount(d) : d \in Days} \cup {MonthAccount(d) : d \in Days}

\* The part of the reservation in hand that nothing has been charged for yet: all of it until
\* the provider has answered, what the answer left of it until it is reconciled.  An answer
\* without usage leaves nothing to give back.
Held ==
  CASE worker.phase = "reserved" -> TokensPerRequest
    [] worker.phase = "answered" /\ call.metered >= 0 -> Larger(0, TokensPerRequest - call.metered)
    [] OTHER -> 0

Pending(p) == IF call.day \in p THEN Held ELSE 0

\* What is charged and what is held is in the counter, but for what is repeated or unmetered.
TokensInv(a) ==
  spent[a.period] + Pending(a.period) <= usage[a.key].tokens + repeats[a.period] + unmetered[a.period]

\* A request has its reservation within the limit until it is reconciled; what it is metered
\* for above that is the last thing the limit lets through.
UnderWay(p) == worker.phase \in {"reserved", "answered"} /\ call.day \in p

RoomInv(a) ==
  /\ \E last \in Costs \cup {TokensPerRequest} :
       usage[a.key].tokens <= a.tokens - TokensPerRequest + last
  /\ UnderWay(a.period) => usage[a.key].tokens <= a.tokens

\* The tries the request under way still has.
Left(p) == IF worker.phase = "reserved" /\ call.day \in p THEN MaxRetries + 1 - call.tries ELSE 0

LeftFor(user, p) == IF User = user THEN Left(p) ELSE 0

RequestsInv(a) ==
  /\ calls[Askers][a.period] + Left(a.period) <= RequestsFor(usage[a.key].requests)
  /\ usage[a.key].requests <= a.requests

AskersInv(d, user) ==
  /\ calls[{user}][Daily(d)] + LeftFor(user, Daily(d)) <= RequestsFor(usage[UserKey(d, user)].requests)
  /\ usage[UserKey(d, user)].requests <= UserLimit

QuotaInv ==
  /\ \A a \in Accounts : TokensInv(a) /\ RoomInv(a) /\ RequestsInv(a)
  /\ \A d \in Days, user \in Askers : AskersInv(d, user)

AssistantInv == IntakeInv /\ AssistantTypeOK /\ QuotaInv

\* What a day lies in, it lies in later too.
LEMMA DaysPass ==
  /\ \A t \in 0..LastMoment : DayOf(t) \in Days
  /\ Days \subseteq Nat
<1>1. \A t \in Nat : t \div MomentsPerDay \in Nat
  BY QuotaAssumption
<1>2. \A t \in 0..LastMoment : t \div MomentsPerDay <= LastMoment \div MomentsPerDay
  BY QuotaAssumption
<1> QED BY <1>1, <1>2, QuotaAssumption DEF DayOf, Days

\* A day is in the period of an account if and only if its reservations are counted there.
LEMMA AccountFacts ==
  ASSUME NEW a \in Accounts
  PROVE  /\ a.period \in Periods /\ a.key \in UsageKeys
         /\ a.tokens \in Nat \ {0} /\ a.requests \in Nat \ {0}
         /\ \A d \in Days : d \in a.period <=> a.key \in {DayKey(d), MonthKey(d)}
         /\ \A d \in Days, user \in Askers : a.key # UserKey(d, user)
<1>1. CASE \E d \in Days : a = DayAccount(d)
  <2>1. PICK d \in Days : a = DayAccount(d)
    BY <1>1
  <2>2. a.period = {d} /\ a.key = <<"day", d>> /\ a.tokens = TokenLimit /\ a.requests = RequestLimit
    BY <2>1 DEF DayAccount, Daily, DayKey
  <2>3. a.period \in Periods /\ a.key \in UsageKeys
    BY <2>1 DEF DayAccount, Periods, UsageKeys
  <2>4. \A x \in Days : x \in a.period <=> a.key \in {DayKey(x), MonthKey(x)}
    BY <2>2 DEF DayKey, MonthKey
  <2>5. \A x \in Days, user \in Askers : a.key # UserKey(x, user)
    BY <2>2 DEF UserKey
  <2> QED BY <2>2, <2>3, <2>4, <2>5, QuotaAssumption
<1>2. CASE \E d \in Days : a = MonthAccount(d)
  <2>1. PICK d \in Days : a = MonthAccount(d)
    BY <1>2
  <2>2. /\ a.period = {x \in Days : MonthOf(x) = MonthOf(d)} /\ a.key = <<"month", MonthOf(d)>>
        /\ a.tokens = MonthTokenLimit /\ a.requests = MonthRequestLimit
    BY <2>1 DEF MonthAccount, Monthly, MonthKey
  <2>3. a.period \in Periods /\ a.key \in UsageKeys
    BY <2>1 DEF MonthAccount, Periods, UsageKeys
  <2>4. \A x \in Days : x \in a.period <=> a.key \in {DayKey(x), MonthKey(x)}
    BY <2>2 DEF DayKey, MonthKey
  <2>5. \A x \in Days, user \in Askers : a.key # UserKey(x, user)
    BY <2>2 DEF UserKey
  <2> QED BY <2>2, <2>3, <2>4, <2>5, QuotaAssumption
<1> QED BY <1>1, <1>2 DEF Accounts

\* What the quota lets through fits in the accounts of its day.
LEMMA FitsAccount ==
  ASSUME NEW a \in Accounts, NEW user \in Askers, NEW day \in Days, Fits(user, day), day \in a.period
  PROVE  /\ usage[a.key].requests < a.requests
         /\ usage[a.key].tokens + TokensPerRequest <= a.tokens
<1>1. CASE \E d \in Days : a = DayAccount(d)
  <2>1. PICK d \in Days : a = DayAccount(d)
    BY <1>1
  <2>2. a.key = DayKey(day) /\ a.tokens = TokenLimit /\ a.requests = RequestLimit
    BY <2>1 DEF DayAccount, Daily
  <2> QED BY <2>2 DEF Fits
<1>2. CASE \E d \in Days : a = MonthAccount(d)
  <2>1. PICK d \in Days : a = MonthAccount(d)
    BY <1>2
  <2>2. a.key = MonthKey(day) /\ a.tokens = MonthTokenLimit /\ a.requests = MonthRequestLimit
    BY <2>1 DEF MonthAccount, Monthly, MonthKey
  <2> QED BY <2>2 DEF Fits
<1> QED BY <1>1, <1>2 DEF Accounts

\* The counter of one asker's day is nobody else's and no other day's.
LEMMA UserKeyFacts ==
  ASSUME NEW d \in Days, NEW user \in Askers
  PROVE  /\ UserKey(d, user) \in UsageKeys /\ Daily(d) \in Periods
         /\ {user} \in Parties /\ Askers \in Parties
         /\ \A x \in Days : UserKey(d, user) \notin {DayKey(x), MonthKey(x)}
         /\ \A x \in Days, other \in Askers : UserKey(d, user) = UserKey(x, other) => x = d /\ other = user
         /\ \A x \in Days : x \in Daily(d) <=> x = d
<1> QED BY DEF UserKey, UsageKeys, Daily, Periods, Parties, DayKey, MonthKey

\* The phases of the handler are phases of its own.
LEMMA OwnPhases ==
  /\ {"reserved", "answered", "metered", "recorded", "refused"} \subseteq MidPhases
  /\ {"read", "handled"} \cup MidPhases \subseteq Phases \ {"idle"}
<1> QED BY QuotaAssumption, PumpAssumption DEF Phases

\* One reservation more is as many requests more as the client may try.
LEMMA RequestsForFacts ==
  ASSUME NEW n \in Nat
  PROVE  /\ RequestsFor(n) \in Nat
         /\ RequestsFor(n + 1) = RequestsFor(n) + MaxRetries + 1
         /\ \A m \in Nat : m <= n => RequestsFor(m) <= RequestsFor(n)
<1> DEFINE tries == MaxRetries + 1
<1>1. tries \in Nat /\ MaxRetries \in Nat
  BY QuotaAssumption
<1>2. \A m \in Nat : RequestsFor(m) = m * tries
  BY DEF RequestsFor
<1> HIDE DEF tries
<1>3. n * tries \in Nat /\ (n + 1) * tries = n * tries + tries
  BY <1>1
<1>4. ASSUME NEW m \in Nat, m <= n PROVE m * tries <= n * tries
  <2>1. PICK k \in Nat : n = m + k
    <3>1. n - m \in Nat /\ n = m + (n - m)
      BY <1>4
    <3> QED BY <3>1
  <2>2. m * tries \in Nat /\ k * tries \in Nat /\ (m + k) * tries = m * tries + k * tries
    BY <1>1
  <2> QED BY <2>1, <2>2
<1> QED BY <1>1, <1>2, <1>3, <1>4 DEF tries

\* Nothing is held when no request is under way, and never less than nothing.
LEMMA HeldFacts ==
  ASSUME AssistantTypeOK
  PROVE  /\ Held \in Nat
         /\ worker.phase \notin {"reserved", "answered"} => Held = 0
         /\ \A p \in Periods : Pending(p) \in 0..Held
<1>1. \A c \in Costs : c \in Nat /\ Larger(0, TokensPerRequest - c) \in Nat
  BY QuotaAssumption DEF Larger
<1>2. call.metered \in Costs \/ call.metered = -1
  BY DEF AssistantTypeOK, Calls
<1>3. Held \in Nat
  BY <1>1, <1>2, QuotaAssumption DEF Held
<1>4. worker.phase \notin {"reserved", "answered"} => Held = 0
  BY DEF Held
<1> QED BY <1>3, <1>4 DEF Pending

\* A request that may still be sent has at least one try.
LEMMA LeftFacts ==
  ASSUME AssistantTypeOK, NEW p
  PROVE  /\ Left(p) \in Nat
         /\ worker.phase # "reserved" => Left(p) = 0
         /\ worker.phase = "reserved" /\ call.day \in p => Left(p) = MaxRetries + 1 - call.tries /\ Left(p) >= 1
<1>1. call.tries \in 0..MaxRetries /\ MaxRetries \in Nat
  BY QuotaAssumption DEF AssistantTypeOK, Calls
<1> QED BY <1>1 DEF Left

\* A charge goes to the periods of the day of the reservation.
LEMMA ChargeFacts ==
  ASSUME NEW tally, NEW cost
  PROVE  /\ DOMAIN Charged(tally, cost) = Periods
         /\ \A p \in Periods : Charged(tally, cost)[p] = IF call.day \in p THEN tally[p] + cost ELSE tally[p]
<1> QED BY DEF Charged

----------------------------------------------------------------------------
\* A step that counts nothing and ends the request under way, or leaves it alone.
LetsGo == worker'.phase \notin {"reserved", "answered"} \/ UNCHANGED <<worker, call, User>>

\* What counts and charges nothing keeps the accounts, if it lets go of the request or leaves
\* it alone.
LEMMA AccountsRest ==
  ASSUME AssistantTypeOK, QuotaInv, UNCHANGED <<usage, spent, repeats, unmetered, calls>>, LetsGo
  PROVE  QuotaInv'
<1>1. ASSUME NEW p PROVE Pending(p)' = 0 \/ Pending(p)' = Pending(p)
  BY DEF LetsGo, Pending, Held
<1>2. ASSUME NEW p PROVE Left(p)' = 0 \/ (Left(p)' = Left(p) /\ User' = User)
  BY DEF LetsGo, Left
<1>3. ASSUME NEW p PROVE UnderWay(p)' => UnderWay(p)
  BY DEF LetsGo, UnderWay
<1>4. ASSUME NEW a \in Accounts PROVE TokensInv(a)' /\ RoomInv(a)' /\ RequestsInv(a)'
  <2>1. a.period \in Periods /\ a.key \in UsageKeys
    BY AccountFacts
  <2>2. Pending(a.period) \in Nat /\ Left(a.period) \in Nat
    BY <2>1, HeldFacts, LeftFacts
  <2>3. /\ spent[a.period] \in Nat /\ repeats[a.period] \in Nat /\ unmetered[a.period] \in Int
        /\ usage[a.key].tokens \in Nat /\ usage[a.key].requests \in Nat
    BY <2>1 DEF AssistantTypeOK, UsageRows
  <2>4. calls[Askers][a.period] \in Nat
    BY <2>1 DEF AssistantTypeOK, Parties
  <2>5. TokensInv(a) /\ RoomInv(a) /\ RequestsInv(a)
    BY DEF QuotaInv
  <2>6. TokensInv(a)'
    BY <1>1, <2>2, <2>3, <2>5 DEF TokensInv
  <2>7. RoomInv(a)'
    BY <1>3, <2>5 DEF RoomInv
  <2>8. RequestsInv(a)'
    <3>1. RequestsFor(usage[a.key].requests) \in Nat
      BY <2>3, RequestsForFacts
    <3>2. Left(a.period)' = 0 \/ Left(a.period)' = Left(a.period)
      BY <1>2
    <3>3. /\ calls'[Askers][a.period] = calls[Askers][a.period]
          /\ usage'[a.key].requests = usage[a.key].requests
          /\ RequestsFor(usage'[a.key].requests) = RequestsFor(usage[a.key].requests)
      OBVIOUS
    <3>4. calls[Askers][a.period] + Left(a.period)' <= RequestsFor(usage[a.key].requests)
      BY <2>2, <2>4, <2>5, <3>1, <3>2 DEF RequestsInv
    <3> QED BY <2>5, <3>3, <3>4 DEF RequestsInv
  <2> QED BY <2>6, <2>7, <2>8
<1>5. ASSUME NEW d \in Days, NEW user \in Askers PROVE AskersInv(d, user)'
  <2>1. UserKey(d, user) \in UsageKeys /\ Daily(d) \in Periods /\ {user} \in Parties
    BY UserKeyFacts
  <2>2. calls[{user}][Daily(d)] \in Nat /\ usage[UserKey(d, user)].requests \in Nat
    BY <2>1 DEF AssistantTypeOK, UsageRows
  <2>3. LeftFor(user, Daily(d)) \in Nat
    BY LeftFacts DEF LeftFor
  <2>4. LeftFor(user, Daily(d))' = 0 \/ LeftFor(user, Daily(d))' = LeftFor(user, Daily(d))
    BY <1>2 DEF LeftFor
  <2>5. AskersInv(d, user) /\ RequestsFor(usage[UserKey(d, user)].requests) \in Nat
    BY <2>2, RequestsForFacts DEF QuotaInv
  <2>6. calls[{user}][Daily(d)] + LeftFor(user, Daily(d))' <= RequestsFor(usage[UserKey(d, user)].requests)
    BY <2>2, <2>3, <2>4, <2>5 DEF AskersInv
  <2>7. /\ calls'[{user}][Daily(d)] = calls[{user}][Daily(d)]
        /\ RequestsFor(usage'[UserKey(d, user)].requests) = RequestsFor(usage[UserKey(d, user)].requests)
        /\ usage'[UserKey(d, user)].requests = usage[UserKey(d, user)].requests
    OBVIOUS
  <2> QED BY <2>5, <2>6, <2>7 DEF AskersInv
<1> QED BY <1>4, <1>5 DEF QuotaInv

\* Whoever asked for what the worker has in hand.
LEMMA UserInHand ==
  ASSUME AssistantInv, worker.phase # "idle"
  PROVE  /\ User \in Askers
         /\ UNCHANGED asker /\ worker'.at = worker.at => User' = User
<1>1. worker.at \in Updates
  BY InHand DEF AssistantInv
<1> QED BY <1>1 DEF User, AssistantInv, AssistantTypeOK

\* A reservation is counted in its day, its month and for its asker, its tokens are held, and
\* its request has all of its tries.
LEMMA ReserveKeeps ==
  ASSUME AssistantInv, Reserve
  PROVE  AssistantTypeOK' /\ QuotaInv'
<1> DEFINE day == Today
<1>1. /\ Fits(User, day) /\ usage' = Reserved(User, day) /\ call' = [NoCall EXCEPT !.day = day]
      /\ UNCHANGED <<moment, asker, spent, repeats, unmetered, calls>>
      /\ worker.phase = "read" /\ worker'.phase = "reserved" /\ worker'.at = worker.at
  <2>1. Handle("read", "reserved")
    BY DEF Reserve
  <2>2. worker.phase = "read" /\ worker'.phase = "reserved" /\ worker'.at = worker.at
    BY <2>1, OwnPhases, HandleKeeps DEF AssistantInv
  <2> QED BY <2>2 DEF Reserve
<1>2. User \in Askers /\ User' = User /\ day \in Days /\ day \in Nat
  <2>1. User \in Askers /\ User' = User
    BY <1>1, UserInHand
  <2>2. day \in Days /\ day \in Nat
    BY DaysPass DEF Today, AssistantInv, AssistantTypeOK
  <2> QED BY <2>1, <2>2
<1> HIDE DEF day
<1>3. /\ DayKey(day) \in UsageKeys /\ MonthKey(day) \in UsageKeys /\ UserKey(day, User) \in UsageKeys
      /\ DayKey(day) # MonthKey(day) /\ UserKey(day, User) \notin {DayKey(day), MonthKey(day)}
  BY <1>2 DEF UsageKeys, DayKey, MonthKey, UserKey
<1>4. /\ usage' \in [UsageKeys -> UsageRows]
      /\ \A k \in {DayKey(day), MonthKey(day)} :
           usage'[k].requests = usage[k].requests + 1 /\ usage'[k].tokens = usage[k].tokens + TokensPerRequest
      /\ usage'[UserKey(day, User)].requests = usage[UserKey(day, User)].requests + 1
      /\ \A k \in UsageKeys \ {DayKey(day), MonthKey(day), UserKey(day, User)} : usage'[k] = usage[k]
  <2>1. usage \in [UsageKeys -> UsageRows]
    BY DEF AssistantInv, AssistantTypeOK
  <2>2. usage' = [k \in UsageKeys |->
          IF k = UserKey(day, User) THEN [usage[k] EXCEPT !.requests = usage[k].requests + 1]
          ELSE IF k \in {DayKey(day), MonthKey(day)}
            THEN [requests |-> usage[k].requests + 1, tokens |-> usage[k].tokens + TokensPerRequest]
            ELSE usage[k]]
    BY <1>1, <1>3, <2>1 DEF Reserved
  <2>3. ASSUME NEW k \in UsageKeys
        PROVE  /\ [usage[k] EXCEPT !.requests = usage[k].requests + 1] \in UsageRows
               /\ [requests |-> usage[k].requests + 1, tokens |-> usage[k].tokens + TokensPerRequest] \in UsageRows
               /\ [usage[k] EXCEPT !.requests = usage[k].requests + 1].requests = usage[k].requests + 1
    BY <2>1, QuotaAssumption DEF UsageRows
  <2>4. usage' \in [UsageKeys -> UsageRows]
    BY <2>1, <2>2, <2>3
  <2> QED BY <1>3, <2>2, <2>3, <2>4
<1>5. call' \in Calls /\ call'.day = day /\ call'.tries = 0
  BY <1>1, <1>2, QuotaAssumption DEF NoCall, Calls
<1>6. AssistantTypeOK'
  BY <1>1, <1>4, <1>5 DEF AssistantInv, AssistantTypeOK
<1>7. ASSUME NEW p
      PROVE  /\ Pending(p)' = IF day \in p THEN TokensPerRequest ELSE 0
             /\ Left(p)' = IF day \in p THEN MaxRetries + 1 ELSE 0
             /\ UnderWay(p)' => day \in p
             /\ Left(p) = 0
  BY <1>1, <1>5, QuotaAssumption DEF Pending, Held, Left, UnderWay
<1>8. ASSUME NEW a \in Accounts PROVE TokensInv(a)' /\ RoomInv(a)' /\ RequestsInv(a)'
  <2>1. /\ a.period \in Periods /\ a.key \in UsageKeys /\ a.tokens \in Nat /\ a.requests \in Nat
        /\ day \in a.period <=> a.key \in {DayKey(day), MonthKey(day)}
        /\ a.key # UserKey(day, User)
    BY <1>2, AccountFacts
  <2>2. TokensInv(a) /\ RoomInv(a) /\ RequestsInv(a)
    BY DEF AssistantInv, QuotaInv
  <2>3. /\ spent[a.period] \in Nat /\ repeats[a.period] \in Nat /\ unmetered[a.period] \in Int
        /\ usage[a.key].tokens \in Nat /\ usage[a.key].requests \in Nat
        /\ calls[Askers][a.period] \in Nat /\ Pending(a.period) = 0
    BY <1>1, <2>1, HeldFacts DEF AssistantInv, AssistantTypeOK, UsageRows, Pending, Parties
  <2>4. CASE day \in a.period
    <3>1. usage[a.key].requests < a.requests /\ usage[a.key].tokens + TokensPerRequest <= a.tokens
      BY <1>1, <1>2, <2>4, FitsAccount
    <3>2. usage'[a.key].requests = usage[a.key].requests + 1
          /\ usage'[a.key].tokens = usage[a.key].tokens + TokensPerRequest
      BY <1>4, <2>1, <2>4
    <3>3. TokensInv(a)'
      BY <1>1, <1>7, <2>2, <2>3, <2>4, <3>2, QuotaAssumption DEF TokensInv
    <3>4. RoomInv(a)'
      <4>1. usage'[a.key].tokens <= a.tokens /\ a.tokens - TokensPerRequest + TokensPerRequest = a.tokens
        BY <2>1, <2>3, <3>1, <3>2, QuotaAssumption
      <4> QED BY <4>1 DEF RoomInv
    <3>5. RequestsInv(a)'
      <4>1. /\ RequestsFor(usage[a.key].requests) \in Nat
            /\ RequestsFor(usage'[a.key].requests) = RequestsFor(usage[a.key].requests) + MaxRetries + 1
        BY <2>3, <3>2, RequestsForFacts
      <4>2. Left(a.period)' = MaxRetries + 1 /\ Left(a.period) = 0
        BY <1>7, <2>4
      <4>3. calls'[Askers][a.period] = calls[Askers][a.period]
        BY <1>1
      <4> QED BY <2>1, <2>2, <2>3, <3>1, <3>2, <4>1, <4>2, <4>3, QuotaAssumption DEF RequestsInv
    <3> QED BY <3>3, <3>4, <3>5
  <2>5. CASE day \notin a.period
    <3>1. usage'[a.key] = usage[a.key]
      BY <1>4, <2>1, <2>5
    <3>2. TokensInv(a)'
      BY <1>1, <1>7, <2>2, <2>3, <2>5, <3>1 DEF TokensInv
    <3>3. RoomInv(a)'
      BY <1>7, <2>2, <2>5, <3>1 DEF RoomInv
    <3>4. RequestsInv(a)'
      BY <1>1, <1>7, <2>2, <2>3, <2>5, <3>1 DEF RequestsInv
    <3> QED BY <3>2, <3>3, <3>4
  <2> QED BY <2>4, <2>5
<1>9. ASSUME NEW d \in Days, NEW user \in Askers PROVE AskersInv(d, user)'
  <2>1. /\ UserKey(d, user) \in UsageKeys /\ Daily(d) \in Periods /\ {user} \in Parties
        /\ UserKey(d, user) \notin {DayKey(day), MonthKey(day)}
        /\ UserKey(d, user) = UserKey(day, User) => d = day /\ user = User
        /\ day \in Daily(d) <=> day = d
    BY <1>2, UserKeyFacts
  <2>2. AskersInv(d, user)
    BY DEF AssistantInv, QuotaInv
  <2>3. /\ usage[UserKey(d, user)].requests \in Nat /\ calls[{user}][Daily(d)] \in Nat
        /\ LeftFor(user, Daily(d)) = 0
    BY <1>7, <2>1 DEF AssistantInv, AssistantTypeOK, UsageRows, LeftFor
  <2>4. CASE d = day /\ user = User
    <3>1. LeftFor(user, Daily(d))' = MaxRetries + 1
      BY <1>2, <1>7, <2>1, <2>4 DEF LeftFor
    <3>2. usage'[UserKey(d, user)].requests = usage[UserKey(d, user)].requests + 1
      BY <1>4, <2>4
    <3>3. usage[UserKey(d, user)].requests < UserLimit
      BY <1>1, <2>4 DEF Fits
    <3>4. /\ RequestsFor(usage[UserKey(d, user)].requests) \in Nat
          /\ RequestsFor(usage'[UserKey(d, user)].requests)
               = RequestsFor(usage[UserKey(d, user)].requests) + MaxRetries + 1
      BY <2>3, <3>2, RequestsForFacts
    <3> QED BY <1>1, <2>2, <2>3, <3>1, <3>2, <3>3, <3>4, QuotaAssumption DEF AskersInv
  <2>5. CASE ~(d = day /\ user = User)
    <3>1. LeftFor(user, Daily(d))' = 0
      BY <1>2, <1>7, <2>1, <2>5 DEF LeftFor
    <3>2. usage'[UserKey(d, user)] = usage[UserKey(d, user)]
      BY <1>4, <2>1, <2>5
    <3> QED BY <1>1, <2>2, <2>3, <3>1, <3>2 DEF AskersInv
  <2> QED BY <2>4, <2>5
<1> QED BY <1>6, <1>8, <1>9 DEF QuotaInv

\* A request is charged to the periods of its day, and counted there for everybody and for its
\* asker.
LEMMA ChargeTyped ==
  ASSUME AssistantInv, worker.phase # "idle", NEW cost \in Costs, Charge(cost)
  PROVE  /\ Charged(spent, cost) \in [Periods -> Nat]
         /\ Charged(repeats, cost) \in [Periods -> Nat]
         /\ Charged(unmetered, Above(cost)) \in [Periods -> Int]
         /\ calls' \in [Parties -> [Periods -> Nat]]
         /\ \A p \in Periods : calls'[Askers][p] = calls[Askers][p] + (IF call.day \in p THEN 1 ELSE 0)
         /\ \A user \in Askers, p \in Periods :
              calls'[{user}][p] = calls[{user}][p] + (IF call.day \in p /\ user = User THEN 1 ELSE 0)
<1>1. cost \in Nat /\ Above(cost) \in Nat
  BY QuotaAssumption DEF Above, Larger
<1>2. spent \in [Periods -> Nat] /\ repeats \in [Periods -> Nat] /\ unmetered \in [Periods -> Int]
      /\ calls \in [Parties -> [Periods -> Nat]]
  BY DEF AssistantInv, AssistantTypeOK
<1>3. Charged(spent, cost) \in [Periods -> Nat]
  BY <1>1, <1>2 DEF Charged
<1>4. Charged(repeats, cost) \in [Periods -> Nat]
  BY <1>1, <1>2 DEF Charged
<1>5. Charged(unmetered, Above(cost)) \in [Periods -> Int]
  BY <1>1, <1>2 DEF Charged
<1>6. calls' = [who \in Parties |-> [p \in Periods |->
        IF User \in who /\ call.day \in p THEN calls[who][p] + 1 ELSE calls[who][p]]]
  BY DEF Charge
<1>7. calls' \in [Parties -> [Periods -> Nat]]
  BY <1>2, <1>6
<1>8. User \in Askers
  BY UserInHand
<1>9. ASSUME NEW p \in Periods
      PROVE  calls'[Askers][p] = calls[Askers][p] + (IF call.day \in p THEN 1 ELSE 0)
  BY <1>2, <1>6, <1>8 DEF Parties
<1>10. ASSUME NEW user \in Askers, NEW p \in Periods
       PROVE  calls'[{user}][p] = calls[{user}][p] + (IF call.day \in p /\ user = User THEN 1 ELSE 0)
  BY <1>2, <1>6, <1>8 DEF Parties
<1> QED BY <1>3, <1>4, <1>5, <1>7, <1>9, <1>10

\* Whether the request is over or repeated, the one that was made takes a try.
Tried ==
  \/ worker'.phase # "reserved"
  \/ call'.day = call.day /\ call'.tries = call.tries + 1 /\ User' = User

\* A request that is charged leaves the counters alone: what it leaves of its reservation may
\* still be held, what it takes above that is unmetered, and if it is repeated all is held.
LEMMA ChargeKeeps ==
  ASSUME AssistantInv, worker.phase = "reserved", NEW cost \in Costs, Charge(cost), UNCHANGED usage,
         \/ /\ repeats' = repeats /\ unmetered' = Charged(unmetered, Above(cost))
            /\ Held' = 0 \/ (Held' = Larger(0, TokensPerRequest - cost) /\ call'.day = call.day)
         \/ /\ repeats' = Charged(repeats, cost) /\ unmetered' = unmetered
            /\ Held' = TokensPerRequest /\ call'.day = call.day,
         worker'.phase \notin {"reserved", "answered"} \/ call'.day = call.day,
         Tried
  PROVE  QuotaInv'
<1>1. cost \in Nat /\ Above(cost) \in Nat /\ cost <= TokensPerRequest + Above(cost) /\ TokensPerRequest \in Nat
      /\ cost + Larger(0, TokensPerRequest - cost) = TokensPerRequest + Above(cost)
  BY QuotaAssumption DEF Above, Larger
<1>2. ASSUME NEW p PROVE Left(p)' = 0 \/ (Left(p)' = Left(p) - 1 /\ User' = User /\ call.day \in p)
  <2>1. CASE worker'.phase # "reserved"
    BY <2>1 DEF Left
  <2>2. CASE call'.day = call.day /\ call'.tries = call.tries + 1 /\ User' = User
    <3>1. call.tries \in Nat /\ MaxRetries \in Nat
      BY QuotaAssumption DEF AssistantInv, AssistantTypeOK, Calls
    <3> QED BY <2>2, <3>1 DEF Left
  <2> QED BY <2>1, <2>2 DEF Tried
<1>3. ASSUME NEW p PROVE Left(p) = (IF call.day \in p THEN MaxRetries + 1 - call.tries ELSE 0)
                         /\ Left(p) \in Nat /\ (call.day \in p => Left(p) >= 1)
  BY LeftFacts DEF AssistantInv, Left
<1>4. ASSUME NEW a \in Accounts PROVE TokensInv(a)'
  <2>1. a.period \in Periods /\ a.key \in UsageKeys
    BY AccountFacts
  <2>2. /\ spent[a.period] \in Nat /\ repeats[a.period] \in Nat /\ unmetered[a.period] \in Int
        /\ usage[a.key].tokens \in Nat
    BY <2>1 DEF AssistantInv, AssistantTypeOK, UsageRows
  <2>3. TokensInv(a)
    BY DEF AssistantInv, QuotaInv
  <2>4. Pending(a.period) = IF call.day \in a.period THEN TokensPerRequest ELSE 0
    BY DEF Pending, Held
  <2>5. spent'[a.period] = IF call.day \in a.period THEN spent[a.period] + cost ELSE spent[a.period]
    BY <2>1, ChargeFacts DEF Charge
  <2>6. CASE /\ repeats' = repeats /\ unmetered' = Charged(unmetered, Above(cost)) /\ Held' = 0
    <3>1. Pending(a.period)' = 0
      BY <2>6 DEF Pending
    <3>2. unmetered'[a.period] = IF call.day \in a.period THEN unmetered[a.period] + Above(cost) ELSE unmetered[a.period]
      BY <2>1, <2>6, ChargeFacts
    <3> QED BY <1>1, <2>2, <2>3, <2>4, <2>5, <2>6, <3>1, <3>2 DEF TokensInv
  <2>7. CASE /\ repeats' = repeats /\ unmetered' = Charged(unmetered, Above(cost))
             /\ Held' = Larger(0, TokensPerRequest - cost) /\ call'.day = call.day
    <3>1. Pending(a.period)' = IF call.day \in a.period THEN Larger(0, TokensPerRequest - cost) ELSE 0
      BY <2>7 DEF Pending
    <3>2. unmetered'[a.period] = IF call.day \in a.period THEN unmetered[a.period] + Above(cost) ELSE unmetered[a.period]
      BY <2>1, <2>7, ChargeFacts
    <3>3. Larger(0, TokensPerRequest - cost) \in Nat
      BY <1>1 DEF Larger
    <3> QED BY <1>1, <2>2, <2>3, <2>4, <2>5, <2>7, <3>1, <3>2, <3>3 DEF TokensInv
  <2>8. CASE /\ repeats' = Charged(repeats, cost) /\ unmetered' = unmetered
             /\ Held' = TokensPerRequest /\ call'.day = call.day
    <3>1. Pending(a.period)' = IF call.day \in a.period THEN TokensPerRequest ELSE 0
      BY <2>8 DEF Pending
    <3>2. repeats'[a.period] = IF call.day \in a.period THEN repeats[a.period] + cost ELSE repeats[a.period]
      BY <2>1, <2>8, ChargeFacts
    <3> QED BY <1>1, <2>2, <2>3, <2>4, <2>5, <2>8, <3>1, <3>2 DEF TokensInv
  <2> QED BY <2>6, <2>7, <2>8
<1>5. ASSUME NEW a \in Accounts PROVE RoomInv(a)'
  <2>1. UnderWay(a.period)' => UnderWay(a.period)
    BY DEF UnderWay
  <2> QED BY <2>1 DEF AssistantInv, QuotaInv, RoomInv
<1>6. ASSUME NEW a \in Accounts PROVE RequestsInv(a)'
  <2>1. a.period \in Periods /\ a.key \in UsageKeys
    BY AccountFacts
  <2>2. calls[Askers][a.period] \in Nat /\ usage[a.key].requests \in Nat
    BY <2>1 DEF AssistantInv, AssistantTypeOK, UsageRows, Parties
  <2>3. calls'[Askers][a.period] = calls[Askers][a.period] + (IF call.day \in a.period THEN 1 ELSE 0)
    BY <2>1, ChargeTyped
  <2>4. RequestsInv(a) /\ RequestsFor(usage[a.key].requests) \in Nat
    BY <2>2, RequestsForFacts DEF AssistantInv, QuotaInv
  <2> QED BY <1>2, <1>3, <2>2, <2>3, <2>4 DEF RequestsInv
<1>7. ASSUME NEW d \in Days, NEW user \in Askers PROVE AskersInv(d, user)'
  <2>1. UserKey(d, user) \in UsageKeys /\ Daily(d) \in Periods /\ {user} \in Parties
    BY UserKeyFacts
  <2>2. calls[{user}][Daily(d)] \in Nat /\ usage[UserKey(d, user)].requests \in Nat
    BY <2>1 DEF AssistantInv, AssistantTypeOK, UsageRows
  <2>3. calls'[{user}][Daily(d)]
          = calls[{user}][Daily(d)] + (IF call.day \in Daily(d) /\ user = User THEN 1 ELSE 0)
    BY <2>1, ChargeTyped
  <2>4. AskersInv(d, user) /\ RequestsFor(usage[UserKey(d, user)].requests) \in Nat
    BY <2>2, RequestsForFacts DEF AssistantInv, QuotaInv
  <2>5. LeftFor(user, Daily(d))' = 0 \/ (/\ LeftFor(user, Daily(d))' = LeftFor(user, Daily(d)) - 1
                                         /\ user = User /\ call.day \in Daily(d))
    BY <1>2 DEF LeftFor
  <2>6. /\ LeftFor(user, Daily(d)) \in Nat
        /\ call.day \in Daily(d) /\ user = User => LeftFor(user, Daily(d)) >= 1
    BY <1>3 DEF LeftFor
  <2> QED BY <2>2, <2>3, <2>4, <2>5, <2>6 DEF AskersInv
<1> QED BY <1>4, <1>5, <1>6, <1>7 DEF QuotaInv

LEMMA AnswerKeeps ==
  ASSUME AssistantInv, NEW cost \in Costs, NEW metered \in BOOLEAN, ProviderAnswers(cost, metered)
  PROVE  IntakeInv' /\ AssistantTypeOK' /\ QuotaInv'
<1>1. Handle("reserved", "answered") /\ Charge(cost) /\ spent' = Charged(spent, cost)
      /\ unmetered' = Charged(unmetered, Above(cost))
      /\ call' = [call EXCEPT !.metered = IF metered THEN cost ELSE NoCall.metered]
      /\ UNCHANGED <<moment, asker, usage, repeats>>
  BY DEF ProviderAnswers, Charge
<1>2. IntakeInv' /\ worker.phase = "reserved" /\ worker'.phase = "answered"
  BY <1>1, OwnPhases, HandleKeeps DEF AssistantInv
<1>3. call' \in Calls /\ call'.day = call.day /\ call'.metered = IF metered THEN cost ELSE -1
  BY <1>1 DEF AssistantInv, AssistantTypeOK, NoCall, Calls
<1>4. AssistantTypeOK'
  BY <1>1, <1>2, <1>3, ChargeTyped DEF AssistantInv, AssistantTypeOK
<1>5. cost \in Nat
  BY QuotaAssumption
<1>6. Held' = 0 \/ Held' = Larger(0, TokensPerRequest - cost)
  BY <1>2, <1>3, <1>5 DEF Held
<1>7. Tried
  BY <1>2 DEF Tried
<1> QED BY <1>1, <1>2, <1>3, <1>4, <1>6, <1>7, ChargeKeeps

LEMMA RepeatKeeps ==
  ASSUME AssistantInv, NEW cost \in Costs, ProviderRepeats(cost)
  PROVE  IntakeInv' /\ AssistantTypeOK' /\ QuotaInv'
<1>1. Handle("reserved", "reserved") /\ Charge(cost) /\ spent' = Charged(spent, cost)
      /\ repeats' = Charged(repeats, cost) /\ call.tries < MaxRetries
      /\ call' = [call EXCEPT !.tries = call.tries + 1]
      /\ UNCHANGED <<moment, asker, usage, unmetered>>
  BY DEF ProviderRepeats, Charge
<1>2. IntakeInv' /\ worker.phase = "reserved" /\ worker'.phase = "reserved" /\ worker'.at = worker.at
  BY <1>1, OwnPhases, HandleKeeps DEF AssistantInv
<1>3. call' \in Calls /\ call'.day = call.day /\ call'.tries = call.tries + 1
  BY <1>1, QuotaAssumption DEF AssistantInv, AssistantTypeOK, Calls
<1>4. AssistantTypeOK'
  BY <1>1, <1>2, <1>3, ChargeTyped DEF AssistantInv, AssistantTypeOK
<1>5. Held' = TokensPerRequest
  BY <1>2 DEF Held
<1>6. Tried
  BY <1>1, <1>2, <1>3, UserInHand DEF Tried
<1> QED BY <1>1, <1>2, <1>3, <1>4, <1>5, <1>6, ChargeKeeps

\* When a handler lets go of its request, its locals are gone.
LEMMA NoCallTyped == NoCall \in Calls
<1>1. 0 \in Days
  BY QuotaAssumption DEF Days, DayOf
<1> QED BY <1>1, QuotaAssumption DEF NoCall, Calls

LEMMA FailKeeps ==
  ASSUME AssistantInv, NEW cost \in Costs, ProviderFails(cost)
  PROVE  IntakeInv' /\ AssistantTypeOK' /\ QuotaInv'
<1>1. Handle("reserved", "refused") /\ Charge(cost) /\ spent' = Charged(spent, cost)
      /\ unmetered' = Charged(unmetered, Above(cost))
      /\ call' = NoCall /\ UNCHANGED <<moment, asker, usage, repeats>>
  BY DEF ProviderFails, Charge
<1>2. IntakeInv' /\ worker.phase = "reserved" /\ worker'.phase = "refused"
  BY <1>1, OwnPhases, HandleKeeps DEF AssistantInv
<1>3. AssistantTypeOK'
  BY <1>1, <1>2, NoCallTyped, ChargeTyped DEF AssistantInv, AssistantTypeOK
<1>4. Held' = 0 /\ Tried
  BY <1>2 DEF Held, Tried
<1> QED BY <1>1, <1>2, <1>3, <1>4, ChargeKeeps

\* What is given back is what the answer left of the reservation, and it is held until then;
\* what the answer took above it is in the counters from now on.
LEMMA ReconcileKeeps ==
  ASSUME AssistantInv, Reconcile
  PROVE  IntakeInv' /\ AssistantTypeOK' /\ QuotaInv'
<1>1. Handle("answered", "metered") /\ call' = NoCall
      /\ usage' = (IF call.metered < 0 THEN usage ELSE Metered(call.metered))
      /\ unmetered' = Charged(unmetered, -Above(call.metered))
      /\ UNCHANGED <<moment, asker, spent, repeats, calls>>
  BY DEF Reconcile
<1>2. IntakeInv' /\ worker.phase = "answered" /\ worker'.phase = "metered"
  BY <1>1, OwnPhases, HandleKeeps DEF AssistantInv
<1>3. Held' = 0 /\ LetsGo
  BY <1>2 DEF Held, LetsGo
<1>4. \A c \in Costs : c \in Nat /\ ~(c < 0)
  BY QuotaAssumption
<1>5. unmetered \in [Periods -> Int] /\ TokensPerRequest \in Nat
  BY QuotaAssumption DEF AssistantInv, AssistantTypeOK
<1>6. CASE call.metered = -1
  <2>1. Above(call.metered) = 0 /\ usage' = usage
    BY <1>1, <1>5, <1>6 DEF Above, Larger
  <2>2. unmetered' = unmetered
    BY <1>1, <1>5, <2>1 DEF Charged
  <2>3. AssistantTypeOK'
    BY <1>1, <2>1, <2>2, NoCallTyped DEF AssistantInv, AssistantTypeOK
  <2> QED BY <1>1, <1>2, <1>3, <2>1, <2>2, <2>3, AccountsRest DEF AssistantInv
<1>7. CASE call.metered \in Costs
  <2> DEFINE cost == call.metered
  <2>1. cost \in Nat /\ Above(cost) \in Nat /\ call.day \in Days /\ usage' = Metered(cost)
        /\ Above(cost) = Larger(0, cost - TokensPerRequest)
    BY <1>1, <1>4, <1>5, <1>7 DEF AssistantInv, AssistantTypeOK, Calls, Above, Larger
  <2>2. ASSUME NEW k \in UsageKeys
        PROVE  /\ usage'[k] \in UsageRows /\ usage'[k].requests = usage[k].requests
               /\ usage'[k].tokens = IF k \in {DayKey(call.day), MonthKey(call.day)}
                                       THEN Larger(0, usage[k].tokens - TokensPerRequest + cost)
                                       ELSE usage[k].tokens
    <3>1. usage[k] \in UsageRows
      BY DEF AssistantInv, AssistantTypeOK
    <3>2. Larger(0, usage[k].tokens - TokensPerRequest + cost) \in Nat
      BY <1>5, <2>1, <3>1 DEF Larger, UsageRows
    <3>3. usage'[k] = IF k \in {DayKey(call.day), MonthKey(call.day)}
            THEN [usage[k] EXCEPT !.tokens = Larger(0, usage[k].tokens - TokensPerRequest + cost)]
            ELSE usage[k]
      BY <2>1 DEF Metered
    <3> HIDE DEF Larger, cost
    <3> QED BY <3>1, <3>2, <3>3 DEF UsageRows
  <2>3. usage' \in [UsageKeys -> UsageRows]
    BY <2>1, <2>2 DEF Metered
  <2>4. unmetered' \in [Periods -> Int]
    BY <1>1, <1>5, <2>1 DEF Charged
  <2>5. AssistantTypeOK'
    BY <1>1, <2>3, <2>4, NoCallTyped DEF AssistantInv, AssistantTypeOK
  <2>6. ASSUME NEW p PROVE Left(p) = 0 /\ Left(p)' = 0 /\ ~UnderWay(p)' /\ Pending(p)' = 0
    BY <1>2, <1>3 DEF Left, UnderWay, Pending
  <2>7. ASSUME NEW a \in Accounts PROVE TokensInv(a)' /\ RoomInv(a)' /\ RequestsInv(a)'
    <3>1. /\ a.period \in Periods /\ a.key \in UsageKeys
          /\ call.day \in a.period <=> a.key \in {DayKey(call.day), MonthKey(call.day)}
      BY <2>1, AccountFacts
    <3>2. TokensInv(a) /\ RoomInv(a) /\ RequestsInv(a)
      BY DEF AssistantInv, QuotaInv
    <3>3. /\ spent[a.period] \in Nat /\ repeats[a.period] \in Nat /\ unmetered[a.period] \in Int
          /\ usage[a.key].tokens \in Nat /\ usage[a.key].requests \in Nat /\ a.tokens \in Nat
      BY <3>1, AccountFacts DEF AssistantInv, AssistantTypeOK, UsageRows
    <3>4. Pending(a.period) = IF call.day \in a.period THEN Larger(0, TokensPerRequest - cost) ELSE 0
      BY <1>2, <2>1 DEF Pending, Held
    <3>5. RequestsInv(a)'
      BY <1>1, <2>2, <2>6, <3>1, <3>2 DEF RequestsInv
    <3>6. unmetered'[a.period] = IF call.day \in a.period THEN unmetered[a.period] + (-Above(cost))
                                                          ELSE unmetered[a.period]
      BY <1>1, <3>1, ChargeFacts
    <3> HIDE DEF cost
    <3>7. CASE call.day \in a.period
      <4>1. usage'[a.key].tokens = Larger(0, usage[a.key].tokens - TokensPerRequest + cost)
        BY <2>2, <3>1, <3>7
      <4>2. usage[a.key].tokens <= a.tokens
        BY <1>2, <3>2, <3>7 DEF RoomInv, UnderWay
      <4>3. TokensInv(a)'
        BY <1>1, <1>5, <2>1, <2>6, <3>2, <3>3, <3>4, <3>6, <3>7, <4>1 DEF TokensInv, Larger
      <4>4. RoomInv(a)'
        <5>1. CASE usage'[a.key].tokens = usage[a.key].tokens - TokensPerRequest + cost
          <6>1. usage'[a.key].tokens <= a.tokens - TokensPerRequest + cost
            BY <1>5, <2>1, <3>3, <4>2, <5>1
          <6> QED BY <1>7, <2>6, <6>1 DEF RoomInv, cost
        <5>2. CASE usage'[a.key].tokens = 0
          <6>1. usage'[a.key].tokens <= a.tokens - TokensPerRequest + TokensPerRequest
            BY <1>5, <3>3, <5>2
          <6> QED BY <2>6, <6>1 DEF RoomInv
        <5> QED BY <1>5, <2>1, <3>3, <4>1, <5>1, <5>2 DEF Larger
      <4> QED BY <3>5, <4>3, <4>4
    <3>8. CASE call.day \notin a.period
      <4>1. usage'[a.key].tokens = usage[a.key].tokens
        BY <2>2, <3>1, <3>8
      <4>2. TokensInv(a)'
        BY <1>1, <2>6, <3>2, <3>3, <3>4, <3>6, <3>8, <4>1 DEF TokensInv
      <4>3. RoomInv(a)'
        BY <2>6, <3>2, <4>1 DEF RoomInv
      <4> QED BY <3>5, <4>2, <4>3
    <3> QED BY <3>7, <3>8
  <2>8. ASSUME NEW d \in Days, NEW user \in Askers PROVE AskersInv(d, user)'
    <3>1. UserKey(d, user) \in UsageKeys
      BY UserKeyFacts
    <3>2. LeftFor(user, Daily(d))' = 0 /\ LeftFor(user, Daily(d)) = 0
      BY <2>6 DEF LeftFor
    <3> QED BY <1>1, <2>2, <3>1, <3>2 DEF AssistantInv, QuotaInv, AskersInv
  <2> QED BY <1>2, <2>5, <2>7, <2>8 DEF QuotaInv
<1> QED BY <1>6, <1>7 DEF AssistantInv, AssistantTypeOK, Calls

----------------------------------------------------------------------------
LEMMA AssistantInitInv == AssistantInit => AssistantInv
<1> SUFFICES ASSUME AssistantInit PROVE AssistantInv OBVIOUS
<1>1. IntakeInv /\ worker.phase = "idle"
  BY PumpInitInv DEF AssistantInit, PumpInit, Resting
<1>2. FirstAsker \in Askers
  BY QuotaAssumption DEF FirstAsker
<1>3. AssistantTypeOK
  BY <1>2, NoCallTyped, QuotaAssumption DEF AssistantInit, AssistantTypeOK, NoUsage, UsageRows
<1>4. ASSUME NEW a \in Accounts PROVE TokensInv(a) /\ RoomInv(a) /\ RequestsInv(a)
  <2>1. /\ a.period \in Periods /\ a.key \in UsageKeys /\ a.tokens \in Nat /\ a.requests \in Nat
    BY AccountFacts
  <2>2. /\ spent[a.period] = 0 /\ repeats[a.period] = 0 /\ unmetered[a.period] = 0
        /\ usage[a.key] = NoUsage /\ calls[Askers][a.period] = 0
    BY <2>1 DEF AssistantInit, Parties
  <2>3. Pending(a.period) = 0 /\ Left(a.period) = 0 /\ ~UnderWay(a.period)
    BY <1>1 DEF Pending, Held, Left, UnderWay
  <2>4. 0 <= a.tokens - TokensPerRequest + TokensPerRequest
    BY <2>1, QuotaAssumption
  <2>5. RequestsFor(0) \in Nat
    BY RequestsForFacts
  <2>6. TokensInv(a)
    BY <2>2, <2>3 DEF TokensInv, NoUsage
  <2>7. RoomInv(a)
    BY <2>2, <2>3, <2>4 DEF RoomInv, NoUsage
  <2>8. RequestsInv(a)
    BY <2>1, <2>2, <2>3, <2>5 DEF RequestsInv, NoUsage
  <2> QED BY <2>6, <2>7, <2>8
<1>5. ASSUME NEW d \in Days, NEW user \in Askers PROVE AskersInv(d, user)
  <2>1. UserKey(d, user) \in UsageKeys /\ Daily(d) \in Periods /\ {user} \in Parties
    BY UserKeyFacts
  <2>2. RequestsFor(0) \in Nat /\ LeftFor(user, Daily(d)) = 0
    BY <1>1, RequestsForFacts DEF LeftFor, Left
  <2> QED BY <2>1, <2>2, QuotaAssumption DEF AssistantInit, AskersInv, NoUsage
<1> QED BY <1>1, <1>3, <1>4, <1>5 DEF AssistantInv, QuotaInv

LEMMA AssistantStepInv == AssistantInv /\ [AssistantNext]_assistantVars => AssistantInv'
<1> SUFFICES ASSUME AssistantInv, [AssistantNext]_assistantVars PROVE AssistantInv' OBVIOUS
<1> USE DEF AssistantInv
\* A step that does not count or charge, and holds nothing or leaves alone what is held.
<1>a. ASSUME IntakeInv', UNCHANGED <<moment, asker, usage, spent, repeats, unmetered, calls>>,
             call' = NoCall \/ UNCHANGED call,
             worker'.phase \notin {"reserved", "answered"} \/ UNCHANGED <<worker, call>>
      PROVE  AssistantInv'
  <2>1. AssistantTypeOK'
    BY <1>a, NoCallTyped DEF AssistantTypeOK
  <2>2. LetsGo
    BY <1>a DEF LetsGo, User
  <2> QED BY <1>a, <2>1, <2>2, AccountsRest
<1>1. CASE Pass
  <2>1. UNCHANGED <<published, forgotten, poller, inbox, worker, asker, usage, call, spent, repeats, unmetered, calls>>
        /\ moment' \in 0..LastMoment
    BY <1>1, QuotaAssumption DEF Pass, pumpVars, quotaVars, AssistantTypeOK
  <2>2. AssistantTypeOK'
    BY <2>1 DEF AssistantTypeOK
  <2>3. LetsGo
    BY <2>1 DEF LetsGo, User
  <2> QED BY <2>1, <2>2, <2>3, PumpStands, AccountsRest
<1>2. ASSUME NEW user \in Askers, AskSomething(user) PROVE AssistantInv'
  <2>1. Publish /\ asker' = [asker EXCEPT ![published + 1] = user]
        /\ UNCHANGED <<moment, usage, call, spent, repeats, unmetered, calls>>
    BY <1>2 DEF AskSomething, quotaVars
  <2>2. IntakeInv' /\ UNCHANGED worker
    BY <2>1, PublishKeeps DEF Publish
  <2>3. AssistantTypeOK'
    BY <2>1 DEF AssistantTypeOK
  <2>4. LetsGo
    <3>1. CASE worker.phase = "idle"
      BY <2>2, <3>1 DEF LetsGo
    <3>2. CASE worker.phase # "idle"
      <4>1. worker.at \in Updates /\ worker.at # published + 1
        BY <3>2, InHand, PumpAssumption DEF IntakeInv, IntakeTypeOK
      <4>2. User' = User
        BY <2>1, <2>2, <4>1 DEF User, AssistantTypeOK
      <4> QED BY <2>1, <2>2, <4>2 DEF LetsGo
    <3> QED BY <3>1, <3>2
  <2> QED BY <2>1, <2>2, <2>3, <2>4, AccountsRest
<1>3. CASE PollerStep
  <2>1. IntakeInv' /\ UNCHANGED worker
    BY <1>3, FetchKeeps, AdmitKeeps DEF PollerStep, Fetch, Admit
  <2> QED BY <1>3, <1>a, <2>1 DEF PollerStep, Stays, quotaVars
<1>4. CASE (Begin \/ RecordProcessed) /\ Stays
  <2>1. IntakeInv'
    BY <1>4, BeginKeeps, ProcessedKeeps
  <2>2. worker'.phase \in {"read", "idle"}
    <3>1. CASE Begin
      BY <3>1 DEF Begin
    <3>2. CASE RecordProcessed
      BY <3>2 DEF RecordProcessed, LetGo, IntakeInv, IntakeTypeOK, WorkerStates
    <3> QED BY <1>4, <3>1, <3>2
  <2> QED BY <1>4, <1>a, <2>1, <2>2 DEF Stays, quotaVars
<1>5. CASE Deny \/ QuotaExceeded \/ RecordExchange \/ ReplyToAsker
  <2>1. /\ \/ Handle("read", "refused") \/ Handle("metered", "recorded")
           \/ Handle("recorded", "handled") \/ Handle("refused", "handled")
        /\ UNCHANGED <<moment, asker, usage, call, spent, repeats, unmetered, calls>>
    BY <1>5 DEF Deny, QuotaExceeded, RecordExchange, ReplyToAsker, quotaVars
  <2>2. IntakeInv' /\ worker'.phase \in {"refused", "recorded", "handled"}
    BY <2>1, OwnPhases, HandleKeeps
  <2> QED BY <1>a, <2>1, <2>2
<1>6. CASE Reserve
  <2>1. IntakeInv'
    BY <1>6, OwnPhases, HandleKeeps DEF Reserve
  <2> QED BY <1>6, <2>1, ReserveKeeps
<1>7. ASSUME NEW cost \in Costs, ProviderFails(cost) PROVE AssistantInv'
  BY <1>7, FailKeeps
<1>8. ASSUME NEW cost \in Costs, NEW metered \in BOOLEAN, ProviderAnswers(cost, metered) PROVE AssistantInv'
  BY <1>8, AnswerKeeps
<1>9. ASSUME NEW cost \in Costs, ProviderRepeats(cost) PROVE AssistantInv'
  BY <1>9, RepeatKeeps
<1>10. CASE Reconcile
  BY <1>10, ReconcileKeeps
<1>11. ASSUME NEW u \in Updates, Backoff(u) PROVE AssistantInv'
  <2>1. IntakeInv' /\ UNCHANGED worker
    BY <1>11, WaitKeeps DEF Backoff, WaitOver
  <2> QED BY <1>11, <1>a, <2>1 DEF Backoff, Stays, quotaVars
<1>12. CASE AssistantRaises
  <2>1. IntakeInv' /\ worker' = LetGo
    BY <1>12, FailureKeeps DEF AssistantRaises, RecordFailure
  <2>2. worker'.phase = "idle"
    BY <2>1 DEF LetGo, IntakeInv, IntakeTypeOK, WorkerStates
  <2> QED BY <1>12, <1>a, <2>1, <2>2 DEF AssistantRaises
<1>13. CASE AssistantDies
  <2>1. IntakeInv' /\ worker'.phase = "idle"
    BY <1>13, RestartKeeps DEF AssistantDies, Resting
  <2> QED BY <1>13, <1>a, <2>1 DEF AssistantDies
<1>14. CASE UNCHANGED assistantVars
  <2>1. IntakeInv'
    BY <1>14, PumpStands DEF assistantVars, pumpVars
  <2> QED BY <1>14, <1>a, <2>1 DEF assistantVars, pumpVars, quotaVars
<1>15. CASE WorkerStep
  BY <1>15, <1>4, <1>5, <1>6, <1>7, <1>8, <1>10 DEF WorkerStep
<1> QED BY <1>1, <1>2, <1>3, <1>9, <1>11, <1>12, <1>13, <1>14, <1>15 DEF AssistantNext

\* What the invariant says of a day and of its month.
LEMMA AccountsOf ==
  ASSUME NEW d \in Days
  PROVE  DayAccount(d) \in Accounts /\ MonthAccount(d) \in Accounts
<1> QED BY DEF Accounts

\* What is held is not negative.
LEMMA AccountIsCovered ==
  ASSUME AssistantInv, NEW a \in Accounts
  PROVE  spent[a.period] <= usage[a.key].tokens + repeats[a.period] + unmetered[a.period]
<1>1. a.period \in Periods /\ a.key \in UsageKeys
  BY AccountFacts
<1>2. /\ spent[a.period] \in Nat /\ repeats[a.period] \in Nat /\ unmetered[a.period] \in Int
      /\ usage[a.key].tokens \in Nat
  BY <1>1 DEF AssistantInv, AssistantTypeOK, UsageRows
<1>3. Pending(a.period) \in Nat
  BY <1>1, HeldFacts DEF AssistantInv
<1> QED BY <1>2, <1>3 DEF AssistantInv, QuotaInv, TokensInv

\* The counters lack no more than repeated requests and what was unmetered: a reservation is
\* counted before the request is made, and given back only as far as an answer with usage has
\* left it.  For any limits, any reservation, any costs and any number of askers, retries,
\* failures and restarts (DurableDailyQuota, QuotaLimitedProvider).
THEOREM SpendCovered == AssistantSpec => []SpendIsAccounted
<1>1. AssistantInv => SpendIsAccounted
  <2> SUFFICES ASSUME AssistantInv, NEW d \in Days
               PROVE  /\ spent[Daily(d)] <= usage[DayKey(d)].tokens + repeats[Daily(d)] + unmetered[Daily(d)]
                      /\ spent[Monthly(d)]
                           <= usage[MonthKey(d)].tokens + repeats[Monthly(d)] + unmetered[Monthly(d)]
    BY DEF SpendIsAccounted
  <2>1. ASSUME NEW a \in Accounts
        PROVE  spent[a.period] <= usage[a.key].tokens + repeats[a.period] + unmetered[a.period]
    BY AccountIsCovered
  <2> QED BY <2>1, AccountsOf DEF DayAccount, MonthAccount
<1> QED BY <1>1, AssistantInitInv, AssistantStepInv, PTL DEF AssistantSpec

\* The provider takes no more than the limit of a day or of a month, what the last request took
\* above its reservation, and what cannot be counted; and it is asked no more often than the
\* limits and the retries of the client allow, whatever is handled again.
THEOREM BudgetIsKept == AssistantSpec => []BudgetHolds
<1>1. AssistantInv => BudgetHolds
  <2> SUFFICES ASSUME AssistantInv PROVE BudgetHolds OBVIOUS
  <2>1. ASSUME NEW a \in Accounts
        PROVE  WithinLimit(a.period, a.tokens) /\ calls[Askers][a.period] <= RequestsFor(a.requests)
    <3>1. a.period \in Periods /\ a.key \in UsageKeys /\ a.tokens \in Nat /\ a.requests \in Nat
      BY AccountFacts
    <3>2. /\ spent[a.period] \in Nat /\ repeats[a.period] \in Nat /\ unmetered[a.period] \in Int
          /\ usage[a.key].tokens \in Nat /\ usage[a.key].requests \in Nat /\ calls[Askers][a.period] \in Nat
      BY <3>1 DEF AssistantInv, AssistantTypeOK, UsageRows, Parties
    <3>3. spent[a.period] <= usage[a.key].tokens + repeats[a.period] + unmetered[a.period]
      BY AccountIsCovered
    <3>4. PICK last \in Costs \cup {TokensPerRequest} : usage[a.key].tokens <= a.tokens - TokensPerRequest + last
      BY DEF AssistantInv, QuotaInv, RoomInv
    <3>5. last \in Nat /\ TokensPerRequest \in Nat
      BY QuotaAssumption
    <3>6. spent[a.period] <= a.tokens - TokensPerRequest + last + repeats[a.period] + unmetered[a.period]
      BY <3>1, <3>2, <3>3, <3>4, <3>5
    <3>7. RequestsInv(a) /\ Left(a.period) \in Nat
      BY LeftFacts DEF AssistantInv, QuotaInv
    <3>8. /\ RequestsFor(usage[a.key].requests) \in Nat /\ RequestsFor(a.requests) \in Nat
          /\ RequestsFor(usage[a.key].requests) <= RequestsFor(a.requests)
      BY <3>1, <3>2, <3>7, RequestsForFacts DEF RequestsInv
    <3> QED BY <3>2, <3>6, <3>7, <3>8 DEF WithinLimit, RequestsInv
  <2>2. ASSUME NEW d \in Days, NEW user \in Askers PROVE calls[{user}][Daily(d)] <= RequestsFor(UserLimit)
    <3>1. UserKey(d, user) \in UsageKeys /\ Daily(d) \in Periods /\ {user} \in Parties
      BY UserKeyFacts
    <3>2. calls[{user}][Daily(d)] \in Nat /\ usage[UserKey(d, user)].requests \in Nat
      BY <3>1 DEF AssistantInv, AssistantTypeOK, UsageRows
    <3>3. AskersInv(d, user) /\ LeftFor(user, Daily(d)) \in Nat
      BY LeftFacts DEF AssistantInv, QuotaInv, LeftFor
    <3>4. /\ RequestsFor(usage[UserKey(d, user)].requests) \in Nat /\ RequestsFor(UserLimit) \in Nat
          /\ RequestsFor(usage[UserKey(d, user)].requests) <= RequestsFor(UserLimit)
      BY <3>2, <3>3, RequestsForFacts, QuotaAssumption DEF AskersInv
    <3> QED BY <3>2, <3>3, <3>4 DEF AskersInv
  <2> QED BY <2>1, <2>2, AccountsOf DEF BudgetHolds, DayAccount, MonthAccount
<1> QED BY <1>1, AssistantInitInv, AssistantStepInv, PTL DEF AssistantSpec

(***************************************************************************)
(* Timetable.                                                              *)
(***************************************************************************)
\* A set of numbers that has the first, and with each the next, has all.
LEMMA AllRounds ==
  ASSUME NEW n \in Nat, NEW S, 0 \in S, \A i \in 0..n : i < n /\ i \in S => i + 1 \in S
  PROVE  \A i \in 0..n : i \in S
<1> DEFINE Missing == {i \in 0..n : i \notin S}
<1> SUFFICES ASSUME Missing # {} PROVE FALSE
  OBVIOUS
<1>1. IsWellFoundedOn(OpToRel(<, Nat), Nat)
  BY NatLessThanWellFounded
<1>2. Missing \subseteq Nat
  OBVIOUS
<1>3. PICK i \in Missing : \A j \in Missing : ~(<<j, i>> \in OpToRel(<, Nat))
  BY <1>1, <1>2, WFMin
<1>4. \A j \in Missing : ~(j < i)
  BY <1>2, <1>3 DEF OpToRel
<1>5. i \in 1..n /\ i - 1 \in 0..n /\ i - 1 < i
  OBVIOUS
<1>6. i - 1 \in S
  BY <1>4, <1>5
<1> QED BY <1>5, <1>6

\* The recursive function of the rounds is what its definition says, round by round.
LEMMA RoundsUnfold ==
  ASSUME NEW same, NEW ranked, Len(ranked) \in Nat
  PROVE  Rounds(same, ranked) =
           [n \in 0..Len(ranked) |-> IF n = 0 THEN same ELSE Take(Rounds(same, ranked)[n - 1], ranked[n])]
<1> DEFINE Steps(k, g) == g = [n \in 0..k |-> IF n = 0 THEN same ELSE Take(g[n - 1], ranked[n])]
<1>1. \E g : Steps(0, g)
  <2>1. Steps(0, [n \in 0..0 |-> same])
    OBVIOUS
  <2> QED BY <2>1
<1>2. ASSUME NEW k \in 0..Len(ranked), NEW g, Steps(k, g) PROVE \E h : Steps(k + 1, h)
  <2> DEFINE h == [n \in 0..(k + 1) |-> IF n = k + 1 THEN Take(g[k], ranked[k + 1]) ELSE g[n]]
  <2>1. k \in Nat /\ k \in 0..k /\ \A n \in 0..(k + 1) : n # k + 1 => n \in 0..k
    OBVIOUS
  <2>2. \A n \in 0..k : g[n] = IF n = 0 THEN same ELSE Take(g[n - 1], ranked[n])
    BY <1>2
  <2>3. ASSUME NEW n \in 0..(k + 1) PROVE h[n] = IF n = 0 THEN same ELSE Take(h[n - 1], ranked[n])
    <3>1. CASE n = k + 1
      <4>1. n # 0 /\ n - 1 = k /\ k \in 0..(k + 1) /\ k # k + 1
        BY <2>1, <3>1
      <4>2. h[k] = g[k] /\ h[n] = Take(g[k], ranked[k + 1])
        BY <3>1, <4>1
      <4> QED BY <3>1, <4>1, <4>2
    <3>2. CASE n # k + 1 /\ n = 0
      BY <2>1, <2>2, <3>2
    <3>3. CASE n # k + 1 /\ n # 0
      <4>1. n \in 0..k /\ n - 1 \in 0..(k + 1) /\ n - 1 # k + 1
        BY <2>1, <3>3
      <4>2. h[n] = g[n] /\ h[n - 1] = g[n - 1]
        BY <3>3, <4>1
      <4> QED BY <2>2, <3>3, <4>1, <4>2
    <3> QED BY <3>1, <3>2, <3>3
  <2>4. h = [n \in 0..(k + 1) |-> h[n]]
    OBVIOUS
  <2> HIDE DEF h
  <2>5. Steps(k + 1, h)
    BY <2>3, <2>4
  <2> QED BY <2>5
<1>3. \A k \in 0..Len(ranked) : k \in {i \in 0..Len(ranked) : \E g : Steps(i, g)}
  <2> DEFINE Known == {i \in 0..Len(ranked) : \E g : Steps(i, g)}
  <2> HIDE DEF Steps
  <2>1. 0 \in Known /\ \A i \in 0..Len(ranked) : i < Len(ranked) /\ i \in Known => i + 1 \in Known
    BY <1>1, <1>2
  <2> HIDE DEF Known
  <2>2. \A i \in 0..Len(ranked) : i \in Known
    BY <2>1, AllRounds
  <2> QED BY <2>2 DEF Known
<1>4. \E g : Steps(Len(ranked), g)
  BY <1>3
<1> QED BY <1>4 DEF Rounds

----------------------------------------------------------------------------
\* What precedes an element in a strict total order.
Before(S, R, x) == {y \in S : <<y, x>> \in R}

IsOrder(S, R) ==
  /\ \A x \in S : <<x, x>> \notin R
  /\ \A x, y, z \in S : <<x, y>> \in R /\ <<y, z>> \in R => <<x, z>> \in R
  /\ \A x, y \in S : x # y => <<x, y>> \in R \/ <<y, x>> \in R

\* In a finite set with a strict total order every place is somebody's, and nobody else's.
LEMMA Places ==
  ASSUME NEW S, IsFiniteSet(S), NEW R, IsOrder(S, R)
  PROVE  /\ \A x \in S : Cardinality(Before(S, R, x)) \in 0..(Cardinality(S) - 1)
         /\ \A x, y \in S : Cardinality(Before(S, R, x)) = Cardinality(Before(S, R, y)) => x = y
         /\ \A k \in 0..(Cardinality(S) - 1) : \E x \in S : Cardinality(Before(S, R, x)) = k
<1> DEFINE n == Cardinality(S)
<1> DEFINE place == [x \in S |-> Cardinality(Before(S, R, x))]
<1>1. n \in Nat
  BY FS_CardinalityType
<1>2. ASSUME NEW x \in S
      PROVE  /\ IsFiniteSet(Before(S, R, x)) /\ Cardinality(Before(S, R, x)) \in Nat
             /\ Cardinality(Before(S, R, x)) <= n - 1
  <2>1. Before(S, R, x) \in SUBSET (S \ {x})
    BY DEF Before, IsOrder
  <2>2. IsFiniteSet(S \ {x}) /\ Cardinality(S \ {x}) = n - 1
    BY FS_RemoveElement
  <2>3. IsFiniteSet(Before(S, R, x)) /\ Cardinality(Before(S, R, x)) <= n - 1
    BY <2>1, <2>2, FS_Subset
  <2> QED BY <2>3, FS_CardinalityType
<1>3. ASSUME NEW x \in S, NEW y \in S, <<x, y>> \in R
      PROVE  Cardinality(Before(S, R, x)) < Cardinality(Before(S, R, y))
  <2>1. Before(S, R, x) \in SUBSET Before(S, R, y)
    BY <1>3 DEF Before, IsOrder
  <2>2. x \in Before(S, R, y) /\ x \notin Before(S, R, x)
    BY <1>3 DEF Before, IsOrder
  <2>3. /\ Cardinality(Before(S, R, x)) <= Cardinality(Before(S, R, y))
        /\ Cardinality(Before(S, R, y)) = Cardinality(Before(S, R, x)) => Before(S, R, y) = Before(S, R, x)
    BY <1>2, <2>1, FS_Subset
  <2>4. Cardinality(Before(S, R, x)) # Cardinality(Before(S, R, y))
    BY <2>2, <2>3
  <2> QED BY <1>2, <2>3, <2>4
<1>4. \A x, y \in S : Cardinality(Before(S, R, x)) = Cardinality(Before(S, R, y)) => x = y
  <2> SUFFICES ASSUME NEW x \in S, NEW y \in S, x # y
               PROVE  Cardinality(Before(S, R, x)) # Cardinality(Before(S, R, y))
    OBVIOUS
  <2>1. <<x, y>> \in R \/ <<y, x>> \in R
    BY DEF IsOrder
  <2> QED BY <1>2, <1>3, <2>1
<1>5. \A x \in S : Cardinality(Before(S, R, x)) \in 0..(n - 1)
  BY <1>1, <1>2
<1>6. place \in [S -> 0..(n - 1)] /\ \A x, y \in S : place[x] = place[y] => x = y
  BY <1>4, <1>5
<1>7. place \in Injection(S, 0..(n - 1))
  BY <1>6 DEF Injection, IsInjective
<1>8. IsFiniteSet(0..(n - 1)) /\ Cardinality(0..(n - 1)) = n
  <2>1. n - 1 \in Int /\ 0 \in Int
    BY <1>1
  <2>2. IsFiniteSet(0..(n - 1)) /\ Cardinality(0..(n - 1)) = IF 0 > n - 1 THEN 0 ELSE n - 1 - 0 + 1
    BY <2>1, FS_Interval
  <2> QED BY <1>1, <2>2
<1> HIDE DEF place, n
<1>9. place \in Surjection(S, 0..(n - 1))
  BY <1>7, <1>8, FS_Injection DEF n
<1>10. \A k \in 0..(n - 1) : \E x \in S : place[x] = k
  BY <1>9 DEF Surjection
<1>11. \A k \in 0..(n - 1) : \E x \in S : Cardinality(Before(S, R, x)) = k
  BY <1>10 DEF place
<1> QED BY <1>4, <1>5, <1>11 DEF n

\* A list that gives every place to whom it belongs has everybody once.
LEMMA RankedList ==
  ASSUME NEW S, IsFiniteSet(S), NEW R, IsOrder(S, R), NEW list,
         \A i \in 1..Cardinality(S) : list[i] \in S /\ Cardinality(Before(S, R, list[i])) = i - 1
  PROVE  /\ \A i, j \in 1..Cardinality(S) : list[i] = list[j] => i = j
         /\ \A x \in S : \E i \in 1..Cardinality(S) : list[i] = x
<1>1. Cardinality(S) \in Nat
  BY FS_CardinalityType
<1>2. \A i, j \in 1..Cardinality(S) : list[i] = list[j] => i = j
  <2> SUFFICES ASSUME NEW i \in 1..Cardinality(S), NEW j \in 1..Cardinality(S), list[i] = list[j]
               PROVE  i = j
    OBVIOUS
  <2>1. i - 1 = j - 1
    OBVIOUS
  <2> QED BY <1>1, <2>1
<1>3. ASSUME NEW x \in S PROVE \E i \in 1..Cardinality(S) : list[i] = x
  <2>1. Cardinality(Before(S, R, x)) \in 0..(Cardinality(S) - 1)
    BY Places
  <2>2. PICK i \in 1..Cardinality(S) : i - 1 = Cardinality(Before(S, R, x))
    BY <1>1, <2>1
  <2>3. list[i] \in S /\ Cardinality(Before(S, R, list[i])) = Cardinality(Before(S, R, x))
    BY <2>2
  <2>4. list[i] = x
    BY <2>3, Places
  <2> QED BY <2>4
<1> QED BY <1>2, <1>3

----------------------------------------------------------------------------
\* Lessons have a slot and a place in it of their own.
Listed(list) ==
  /\ \E n \in Nat : DOMAIN list = 1..n
  /\ \A i \in DOMAIN list : list[i].slot \in Nat \ {0}
  /\ \A i, j \in DOMAIN list :
       list[i].slot = list[j].slot /\ list[i].occurrence = list[j].occurrence => i = j

\* A page has finitely many lessons, and slot and place in it tell them apart.
LEMMA PageFacts ==
  ASSUME NEW page \in Pages
  PROVE  /\ \A l \in LessonsOn(page) :
              l.slot \in 1..LastSlot /\ l.occurrence \in 1..MaxBlocks /\ l.subject \in Nat
         /\ \A k, l \in LessonsOn(page) : k.slot = l.slot /\ k.occurrence = l.occurrence => k = l
         /\ IsFiniteSet(LessonsOn(page))
<1> USE TimetableAssumption
<1> DEFINE LessonAt(slot, n) ==
      [slot |-> slot, occurrence |-> n, subject |-> page[slot][n].subject,
       room |-> page[slot][n].room, group |-> page[slot][n].group]
<1>1. ASSUME NEW slot \in 1..LastSlot, NEW n \in DOMAIN page[slot]
      PROVE  n \in 1..MaxBlocks /\ page[slot][n] \in Blocks
  <2>1. PICK m \in 0..MaxBlocks : page[slot] \in [1..m -> Blocks]
    BY DEF Pages
  <2> QED BY <2>1
<1>2. ASSUME NEW l \in LessonsOn(page)
      PROVE  \E slot \in 1..LastSlot : \E n \in DOMAIN page[slot] : l = LessonAt(slot, n)
  BY DEF LessonsOn
<1>3. ASSUME NEW l \in LessonsOn(page)
      PROVE  /\ l.slot \in 1..LastSlot /\ l.occurrence \in 1..MaxBlocks /\ l.subject \in Nat
             /\ l = LessonAt(l.slot, l.occurrence)
  <2>1. PICK slot \in 1..LastSlot : \E n \in DOMAIN page[slot] : l = LessonAt(slot, n)
    BY <1>2
  <2>2. PICK n \in DOMAIN page[slot] : l = LessonAt(slot, n)
    BY <2>1
  <2>3. l.slot = slot /\ l.occurrence = n /\ l.subject = page[slot][n].subject
    BY <2>2
  <2> QED BY <1>1, <2>2, <2>3
<1>4. \A k, l \in LessonsOn(page) : k.slot = l.slot /\ k.occurrence = l.occurrence => k = l
  BY <1>3
<1>5. IsFiniteSet((1..LastSlot) \X (1..MaxBlocks))
  <2>1. 1 \in Int /\ LastSlot \in Int /\ MaxBlocks \in Int
    OBVIOUS
  <2>2. IsFiniteSet(1..LastSlot) /\ IsFiniteSet(1..MaxBlocks)
    BY <2>1, FS_Interval
  <2> QED BY <2>2, FS_Product
<1> DEFINE place == [l \in LessonsOn(page) |-> <<l.slot, l.occurrence>>]
<1>6. place \in [LessonsOn(page) -> (1..LastSlot) \X (1..MaxBlocks)]
  BY <1>3
<1>7. \A k, l \in LessonsOn(page) : place[k] = place[l] => k = l
  BY <1>4
<1> HIDE DEF place
<1>8. place \in Injection(LessonsOn(page), (1..LastSlot) \X (1..MaxBlocks))
  BY <1>6, <1>7 DEF Injection, IsInjective
<1>9. IsFiniteSet(LessonsOn(page))
  BY <1>5, <1>8, FS_Injection
<1> QED BY <1>3, <1>4, <1>9

\* No two lessons of a page have the same place.
LEMMA PageOrder ==
  ASSUME NEW page \in Pages
  PROVE  IsOrder(LessonsOn(page), {p \in LessonsOn(page) \X LessonsOn(page) : Earlier(p[1], p[2])})
<1> DEFINE S == LessonsOn(page)
<1> DEFINE R == {p \in S \X S : Earlier(p[1], p[2])}
<1>1. \A a, b \in S : <<a, b>> \in R <=> Earlier(a, b)
  OBVIOUS
<1>2. \A a \in S : a.slot \in Nat /\ a.subject \in Nat /\ a.occurrence \in Nat
  BY PageFacts, TimetableAssumption
<1>3. \A a, b \in S : a.slot = b.slot /\ a.occurrence = b.occurrence => a = b
  BY PageFacts
<1> HIDE DEF S, R
<1>4. IsOrder(S, R)
  <2>1. \A a \in S : ~Earlier(a, a)
    BY <1>2 DEF Earlier
  <2>2. \A a, b, c \in S : Earlier(a, b) /\ Earlier(b, c) => Earlier(a, c)
    BY <1>2 DEF Earlier
  <2>3. \A a, b \in S : a # b => Earlier(a, b) \/ Earlier(b, a)
    BY <1>2, <1>3 DEF Earlier
  <2> QED BY <1>1, <2>1, <2>2, <2>3 DEF IsOrder
<1> QED BY <1>4 DEF S, R

\* materialize_week lists every lesson of a page once.
LEMMA MaterializedListed ==
  ASSUME NEW page \in Pages
  PROVE  Listed(Materialized(page))
<1> DEFINE S == LessonsOn(page)
<1> DEFINE R == {p \in S \X S : Earlier(p[1], p[2])}
<1> DEFINE list == Materialized(page)
<1>1. IsFiniteSet(S) /\ IsOrder(S, R) /\ Cardinality(S) \in Nat
  BY PageFacts, PageOrder, FS_CardinalityType
<1>2. \A x \in S : Before(S, R, x) = {y \in S : Earlier(y, x)}
  BY DEF Before
<1>3. list = [i \in 1..Cardinality(S) |-> CHOOSE x \in S : Cardinality({y \in S : Earlier(y, x)}) = i - 1]
  BY DEF Materialized, Sorted
<1> HIDE DEF S, R, list
<1>4. ASSUME NEW i \in 1..Cardinality(S)
      PROVE  list[i] \in S /\ Cardinality(Before(S, R, list[i])) = i - 1
  <2>1. \E x \in S : Cardinality(Before(S, R, x)) = i - 1
    BY <1>1, Places
  <2>2. \E x \in S : Cardinality({y \in S : Earlier(y, x)}) = i - 1
    BY <1>2, <2>1
  <2>3. list[i] \in S /\ Cardinality({y \in S : Earlier(y, list[i])}) = i - 1
    BY <1>3, <2>2
  <2> QED BY <1>2, <2>3
<1>5. \A i, j \in 1..Cardinality(S) : list[i] = list[j] => i = j
  BY <1>1, <1>4, RankedList
<1>6. \A i \in 1..Cardinality(S) : list[i].slot \in Nat \ {0}
  BY <1>4, PageFacts, TimetableAssumption DEF S
<1>7. \A k, l \in S : k.slot = l.slot /\ k.occurrence = l.occurrence => k = l
  BY PageFacts DEF S
<1>8. DOMAIN list = 1..Cardinality(S)
  BY <1>3
<1>9. Listed(list)
  BY <1>1, <1>4, <1>5, <1>6, <1>7, <1>8 DEF Listed
<1> QED BY <1>9 DEF list

----------------------------------------------------------------------------
\* Nobody is taken twice.
OneToOne(matched) ==
  \A p, q \in matched : (p[1] = q[1] \/ p[2] = q[2]) => p = q

CandidateOrder(S) == {p \in S \X S : Precedes(p[1], p[2])}

\* There are finitely many candidates, and the pair tells them apart.
LEMMA CandidateFacts ==
  ASSUME NEW old, NEW new, Listed(old), Listed(new), NEW matched
  PROVE  LET S == Candidates(old, new, matched) IN
         /\ IsFiniteSet(S)
         /\ \A c \in S : /\ c.old \in DOMAIN old /\ c.new \in DOMAIN new
                         /\ c.old \in Nat /\ c.new \in Nat
                         /\ c.score \in Int /\ c.distance \in Int
         /\ \A c, d \in S : c.old = d.old /\ c.new = d.new => c = d
<1> DEFINE S == Candidates(old, new, matched)
<1> DEFINE Candidate(i, j) ==
      [score |-> MatchScore(old[i], new[j]), distance |-> Distance(old[i], new[j]), old |-> i, new |-> j]
<1>1. PICK n \in Nat : DOMAIN old = 1..n
  BY DEF Listed
<1>2. PICK m \in Nat : DOMAIN new = 1..m
  BY DEF Listed
<1>3. ASSUME NEW c \in S
      PROVE  c.old \in DOMAIN old /\ c.new \in DOMAIN new /\ c = Candidate(c.old, c.new)
  <2>1. PICK i \in DOMAIN old, j \in DOMAIN new : c = Candidate(i, j)
    BY DEF Candidates
  <2>2. c.old = i /\ c.new = j
    BY <2>1
  <2> QED BY <2>1, <2>2
<1>4. ASSUME NEW i \in DOMAIN old, NEW j \in DOMAIN new
      PROVE  MatchScore(old[i], new[j]) \in Int /\ Distance(old[i], new[j]) \in Int
  <2>1. old[i].slot \in Nat /\ new[j].slot \in Nat
    BY DEF Listed
  <2>2. Distance(old[i], new[j]) \in Int
    BY <2>1 DEF Distance
  <2>3. Likeness \in Nat
    BY TimetableAssumption
  <2>4. (IF old[i].subject = new[j].subject THEN 7000 + 2500 ELSE 70 * Likeness) \in Int
    BY <2>3
  <2>5. (IF old[i].slot = new[j].slot THEN 1500 ELSE 0) \in Int
    OBVIOUS
  <2>6. (IF old[i].group = new[j].group THEN 500 ELSE 0) \in Int
    OBVIOUS
  <2>7. \A x, y, z \in Int : x + y + z + 500 \in Int
    OBVIOUS
  <2>8. MatchScore(old[i], new[j]) \in Int
    BY <2>4, <2>5, <2>6, <2>7 DEF MatchScore
  <2> QED BY <2>2, <2>8
<1>5. ASSUME NEW c \in S
      PROVE  c.score \in Int /\ c.distance \in Int
  <2>1. c.score = MatchScore(old[c.old], new[c.new]) /\ c.distance = Distance(old[c.old], new[c.new])
    BY <1>3
  <2> QED BY <1>3, <1>4, <2>1
<1>6. ASSUME NEW c \in S
      PROVE  c.old \in Nat /\ c.new \in Nat
  BY <1>1, <1>2, <1>3
<1>7. IsFiniteSet((DOMAIN old) \X (DOMAIN new))
  <2>1. 1 \in Int /\ n \in Int /\ m \in Int
    OBVIOUS
  <2>2. IsFiniteSet(1..n) /\ IsFiniteSet(1..m)
    BY <2>1, FS_Interval
  <2> QED BY <1>1, <1>2, <2>2, FS_Product
<1>8. \A c, d \in S : c.old = d.old /\ c.new = d.new => c = d
  BY <1>3
<1> DEFINE pair == [c \in S |-> <<c.old, c.new>>]
<1>9. pair \in [S -> (DOMAIN old) \X (DOMAIN new)] /\ \A c, d \in S : pair[c] = pair[d] => c = d
  BY <1>3, <1>8
<1> HIDE DEF pair, S
<1>10. pair \in Injection(S, (DOMAIN old) \X (DOMAIN new))
  BY <1>9 DEF Injection, IsInjective
<1>11. IsFiniteSet(S)
  BY <1>7, <1>10, FS_Injection
<1> QED BY <1>3, <1>5, <1>6, <1>8, <1>11 DEF S

\* No two candidates have the same place.
LEMMA CandidatesOrdered ==
  ASSUME NEW S,
         \A c \in S : c.old \in Nat /\ c.new \in Nat /\ c.score \in Int /\ c.distance \in Int,
         \A c, d \in S : c.old = d.old /\ c.new = d.new => c = d
  PROVE  IsOrder(S, CandidateOrder(S))
<1>1. \A c, d \in S : <<c, d>> \in CandidateOrder(S) <=> Precedes(c, d)
  BY DEF CandidateOrder
<1>2. \A c \in S : ~Precedes(c, c)
  BY DEF Precedes
<1>3. ASSUME NEW b \in S, NEW c \in S, NEW d \in S, Precedes(b, c), Precedes(c, d)
      PROVE  Precedes(b, d)
  <2>1. /\ b.old \in Nat /\ b.new \in Nat /\ b.score \in Int /\ b.distance \in Int
        /\ c.old \in Nat /\ c.new \in Nat /\ c.score \in Int /\ c.distance \in Int
        /\ d.old \in Nat /\ d.new \in Nat /\ d.score \in Int /\ d.distance \in Int
    OBVIOUS
  <2> QED BY <1>3, <2>1 DEF Precedes
<1>4. ASSUME NEW c \in S, NEW d \in S, ~Precedes(c, d), ~Precedes(d, c)
      PROVE  c = d
  <2>1. /\ c.old \in Nat /\ c.new \in Nat /\ c.score \in Int /\ c.distance \in Int
        /\ d.old \in Nat /\ d.new \in Nat /\ d.score \in Int /\ d.distance \in Int
    OBVIOUS
  <2>2. c.old = d.old /\ c.new = d.new
    BY <1>4, <2>1 DEF Precedes
  <2> QED BY <2>2
<1> QED BY <1>1, <1>2, <1>3, <1>4 DEF IsOrder

\* Whoever is ranked is a candidate.
LEMMA RankedCandidates ==
  ASSUME NEW old, NEW new, Listed(old), Listed(new), NEW matched
  PROVE  LET S == Candidates(old, new, matched)
             ranked == Sorted(S, Precedes)
         IN  Len(ranked) \in Nat /\ \A i \in 1..Len(ranked) : ranked[i] \in S
<1> DEFINE S == Candidates(old, new, matched)
<1> DEFINE R == CandidateOrder(S)
<1> DEFINE ranked == Sorted(S, Precedes)
<1>1. IsFiniteSet(S) /\ IsOrder(S, R) /\ Cardinality(S) \in Nat
  BY CandidateFacts, CandidatesOrdered, FS_CardinalityType
<1>2. \A x \in S : Before(S, R, x) = {y \in S : Precedes(y, x)}
  BY DEF Before, CandidateOrder
<1>3. ranked = [i \in 1..Cardinality(S) |-> CHOOSE x \in S : Cardinality({y \in S : Precedes(y, x)}) = i - 1]
  BY DEF Sorted
<1> HIDE DEF S, R, ranked
<1>4. Len(ranked) = Cardinality(S)
  BY <1>1, <1>3
<1>5. ASSUME NEW i \in 1..Cardinality(S)
      PROVE  ranked[i] \in S
  <2>1. i - 1 \in 0..(Cardinality(S) - 1)
    BY <1>1
  <2>2. \E x \in S : Cardinality(Before(S, R, x)) = i - 1
    BY <1>1, <2>1, Places
  <2>3. \E x \in S : Cardinality({y \in S : Precedes(y, x)}) = i - 1
    BY <1>2, <2>2
  <2> QED BY <1>3, <2>3
<1> QED BY <1>1, <1>4, <1>5 DEF S, ranked

\* What _match_lessons promises: everybody at most once, and the same identity before all.
LEMMA MatchedFacts ==
  ASSUME NEW old, NEW new, Listed(old), Listed(new)
  PROVE  /\ Matched(old, new) \subseteq (DOMAIN old) \X (DOMAIN new)
         /\ OneToOne(Matched(old, new))
         /\ SameId(old, new) \subseteq Matched(old, new)
<1> DEFINE same == SameId(old, new)
<1> DEFINE S == Candidates(old, new, same)
<1> DEFINE ranked == Sorted(S, Precedes)
<1> DEFINE rounds == Rounds(same, ranked)
<1> DEFINE Good(m) == m \subseteq (DOMAIN old) \X (DOMAIN new) /\ OneToOne(m) /\ same \subseteq m
<1>1. Len(ranked) \in Nat /\ \A i \in 1..Len(ranked) : ranked[i] \in S
  BY RankedCandidates
<1>2. \A c \in S : c.old \in DOMAIN old /\ c.new \in DOMAIN new
  BY CandidateFacts
<1>3. Matched(old, new) = rounds[Len(ranked)]
  BY DEF Matched
<1>4. Good(same)
  <2>1. ASSUME NEW p \in same, NEW q \in same, p[1] = q[1] \/ p[2] = q[2] PROVE p = q
    <3>1. /\ p \in (DOMAIN old) \X (DOMAIN new) /\ q \in (DOMAIN old) \X (DOMAIN new)
          /\ SourceId(old[p[1]]) = SourceId(new[p[2]]) /\ SourceId(old[q[1]]) = SourceId(new[q[2]])
      BY DEF SameId
    <3>2. /\ old[p[1]].slot = new[p[2]].slot /\ old[p[1]].occurrence = new[p[2]].occurrence
          /\ old[q[1]].slot = new[q[2]].slot /\ old[q[1]].occurrence = new[q[2]].occurrence
      BY <3>1 DEF SourceId
    <3>3. p[1] = q[1] /\ p[2] = q[2]
      BY <2>1, <3>1, <3>2 DEF Listed
    <3> QED BY <3>1, <3>3
  <2>2. same \subseteq (DOMAIN old) \X (DOMAIN new)
    BY DEF SameId
  <2> QED BY <2>1, <2>2 DEF OneToOne
<1>5. ASSUME NEW m, Good(m), NEW c \in S PROVE Good(Take(m, c))
  <2>1. CASE c.old \in Firsts(m) \/ c.new \in Seconds(m)
    BY <1>5, <2>1 DEF Take
  <2>2. CASE c.old \notin Firsts(m) /\ c.new \notin Seconds(m)
    <3>1. Take(m, c) = m \cup {<<c.old, c.new>>}
      BY <2>2 DEF Take
    <3>2. \A p \in m : p[1] # c.old /\ p[2] # c.new
      BY <2>2 DEF Firsts, Seconds
    <3> HIDE DEF same, S
    <3>3. OneToOne(m \cup {<<c.old, c.new>>})
      BY <1>5, <3>2 DEF OneToOne
    <3>4. m \cup {<<c.old, c.new>>} \subseteq (DOMAIN old) \X (DOMAIN new)
      BY <1>2, <1>5
    <3> QED BY <1>5, <3>1, <3>3, <3>4
  <2> QED BY <2>1, <2>2
<1> HIDE DEF same, S, ranked
<1>6. rounds = [n \in 0..Len(ranked) |-> IF n = 0 THEN same ELSE Take(rounds[n - 1], ranked[n])]
  BY <1>1, RoundsUnfold
<1> HIDE DEF rounds, Good
<1>7. rounds[0] = same
  BY <1>1, <1>6
<1>8. ASSUME NEW i \in 0..Len(ranked), i < Len(ranked) PROVE rounds[i + 1] = Take(rounds[i], ranked[i + 1])
  <2>1. i + 1 \in 0..Len(ranked) /\ i + 1 # 0 /\ (i + 1) - 1 = i
    BY <1>1, <1>8
  <2> QED BY <1>6, <2>1
<1> DEFINE Fine == {i \in 0..Len(ranked) : Good(rounds[i])}
<1>9. 0 \in Fine
  BY <1>1, <1>4, <1>7
<1>10. ASSUME NEW i \in 0..Len(ranked), i < Len(ranked), i \in Fine PROVE i + 1 \in Fine
  <2>1. i + 1 \in 0..Len(ranked) /\ i + 1 \in 1..Len(ranked)
    BY <1>1, <1>10
  <2>2. ranked[i + 1] \in S
    BY <1>1, <2>1
  <2>3. Good(Take(rounds[i], ranked[i + 1]))
    BY <1>5, <1>10, <2>2
  <2> QED BY <1>8, <1>10, <2>1, <2>3
<1> HIDE DEF Fine
<1>11. \A i \in 0..Len(ranked) : i \in Fine
  BY <1>1, <1>9, <1>10, AllRounds
<1>12. Len(ranked) \in 0..Len(ranked)
  BY <1>1
<1>13. Good(rounds[Len(ranked)])
  BY <1>11, <1>12 DEF Fine
<1> QED BY <1>3, <1>13 DEF Good, same

----------------------------------------------------------------------------
\* A list has every lesson once, and a lesson is not the absent one.
LEMMA ListedFacts ==
  ASSUME NEW list, Listed(list)
  PROVE  /\ \A i, j \in DOMAIN list : list[i] = list[j] => i = j
         /\ NoLesson \notin LessonsOf(list)
         /\ IsFiniteSet(LessonsOf(list))
<1>1. \A i, j \in DOMAIN list : list[i] = list[j] => i = j
  BY DEF Listed
<1>2. NoLesson \notin LessonsOf(list)
  <2>1. NoLesson.slot = 0
    BY DEF NoLesson
  <2>2. \A i \in DOMAIN list : list[i].slot # 0
    BY DEF Listed
  <2> QED BY <2>1, <2>2 DEF LessonsOf
<1>3. IsFiniteSet(LessonsOf(list))
  <2>1. PICK n \in Nat : DOMAIN list = 1..n
    BY DEF Listed
  <2>2. IsFiniteSet(DOMAIN list)
    <3>1. 1 \in Int /\ n \in Int
      OBVIOUS
    <3> QED BY <2>1, <3>1, FS_Interval
  <2> DEFINE who == [i \in DOMAIN list |-> list[i]]
  <2>3. who \in Surjection(DOMAIN list, LessonsOf(list))
    BY DEF LessonsOf, Surjection
  <2> QED BY <2>2, <2>3, FS_Surjection
<1> QED BY <1>1, <1>2, <1>3

\* What diff_schedules says, and that it says nothing else.
LEMMA DiffFacts ==
  ASSUME NEW old, NEW new, NEW M, M = Matched(old, new), NEW said, said = Diff(old, new)
  PROVE  /\ \A p \in M : \A f \in Fields : old[p[1]][f] # new[p[2]][f] =>
              \E c \in said : c.kind = f /\ c.before = old[p[1]] /\ c.after = new[p[2]]
         /\ \A i \in DOMAIN old \ Firsts(M) : \E c \in said : c.kind = "cancelled" /\ c.before = old[i]
         /\ \A j \in DOMAIN new \ Seconds(M) : \E c \in said : c.kind = "added" /\ c.after = new[j]
         /\ \A c \in said :
              \/ \E p \in M : /\ c.kind \in Fields /\ c.before = old[p[1]] /\ c.after = new[p[2]]
                              /\ old[p[1]][c.kind] # new[p[2]][c.kind]
              \/ \E i \in DOMAIN old \ Firsts(M) : c.kind = "cancelled" /\ c.before = old[i] /\ c.after = NoLesson
              \/ \E j \in DOMAIN new \ Seconds(M) : c.kind = "added" /\ c.before = NoLesson /\ c.after = new[j]
<1> DEFINE Changed(p) == {[kind |-> field, before |-> old[p[1]], after |-> new[p[2]]] :
                            field \in Differing(old[p[1]], new[p[2]])}
<1> DEFINE Gone == {[kind |-> "cancelled", before |-> old[i], after |-> NoLesson] : i \in DOMAIN old \ Firsts(M)}
<1> DEFINE Come == {[kind |-> "added", before |-> NoLesson, after |-> new[j]] : j \in DOMAIN new \ Seconds(M)}
<1>1. said = (UNION {Changed(p) : p \in M}) \cup Gone \cup Come
  BY DEF Diff
<1>2. ASSUME NEW p \in M, NEW f \in Fields, old[p[1]][f] # new[p[2]][f]
      PROVE  \E c \in said : c.kind = f /\ c.before = old[p[1]] /\ c.after = new[p[2]]
  <2> DEFINE c == [kind |-> f, before |-> old[p[1]], after |-> new[p[2]]]
  <2>1. f \in Differing(old[p[1]], new[p[2]])
    BY <1>2 DEF Differing
  <2>2. c \in Changed(p)
    BY <2>1
  <2> HIDE DEF Changed, Gone, Come
  <2>3. c \in said
    BY <1>1, <2>2
  <2> QED BY <2>3
<1>3. ASSUME NEW i \in DOMAIN old \ Firsts(M)
      PROVE  \E c \in said : c.kind = "cancelled" /\ c.before = old[i]
  <2> DEFINE c == [kind |-> "cancelled", before |-> old[i], after |-> NoLesson]
  <2>1. c \in Gone
    OBVIOUS
  <2> HIDE DEF Changed, Gone, Come
  <2>2. c \in said
    BY <1>1, <2>1
  <2> QED BY <2>2
<1>4. ASSUME NEW j \in DOMAIN new \ Seconds(M)
      PROVE  \E c \in said : c.kind = "added" /\ c.after = new[j]
  <2> DEFINE c == [kind |-> "added", before |-> NoLesson, after |-> new[j]]
  <2>1. c \in Come
    OBVIOUS
  <2> HIDE DEF Changed, Gone, Come
  <2>2. c \in said
    BY <1>1, <2>1
  <2> QED BY <2>2
<1>5. ASSUME NEW p \in M, NEW c \in Changed(p)
      PROVE  /\ c.kind \in Fields /\ c.before = old[p[1]] /\ c.after = new[p[2]]
             /\ old[p[1]][c.kind] # new[p[2]][c.kind]
  BY DEF Differing
<1>6. ASSUME NEW c \in Gone
      PROVE  \E i \in DOMAIN old \ Firsts(M) : c.kind = "cancelled" /\ c.before = old[i] /\ c.after = NoLesson
  OBVIOUS
<1>7. ASSUME NEW c \in Come
      PROVE  \E j \in DOMAIN new \ Seconds(M) : c.kind = "added" /\ c.before = NoLesson /\ c.after = new[j]
  OBVIOUS
<1> HIDE DEF Changed, Gone, Come
<1>8. ASSUME NEW c \in said
      PROVE  (\E p \in M : c \in Changed(p)) \/ c \in Gone \/ c \in Come
  BY <1>1
<1> QED BY <1>2, <1>3, <1>4, <1>5, <1>6, <1>7, <1>8

\* The reader follows the lessons that were matched, and takes the others for new or gone.
LEMMA ReaderFacts ==
  ASSUME Listed(former), Listed(current), changes = Diff(former, current),
         NEW M, M = Matched(former, current)
  PROVE  /\ \A k : k \in Staying <=> \E p \in M : k = former[p[1]]
         /\ \A l : l \in Added <=> \E j \in DOMAIN current \ Seconds(M) : l = current[j]
         /\ \A p \in M : Followed(former[p[1]]) = Shown(current[p[2]])
<1>1. M \subseteq (DOMAIN former) \X (DOMAIN current) /\ OneToOne(M)
  BY MatchedFacts
<1>2. \A i, j \in DOMAIN former : former[i] = former[j] => i = j
  BY ListedFacts
<1>3. "cancelled" \notin Fields /\ "added" \notin Fields /\ "cancelled" # "added"
  BY DEF Fields
<1>4. ASSUME NEW c \in changes, c.kind = "cancelled"
      PROVE  \E i \in DOMAIN former \ Firsts(M) : c.before = former[i]
  BY <1>3, <1>4, DiffFacts
<1>5. ASSUME NEW c \in changes, c.kind = "added"
      PROVE  \E j \in DOMAIN current \ Seconds(M) : c.after = current[j]
  BY <1>3, <1>5, DiffFacts
<1>6. ASSUME NEW c \in changes, c.kind \in Fields
      PROVE  \E p \in M : /\ c.before = former[p[1]] /\ c.after = current[p[2]]
                          /\ former[p[1]][c.kind] # current[p[2]][c.kind]
  BY <1>3, <1>6, DiffFacts
<1>7. ASSUME NEW k, k \in Staying PROVE \E p \in M : k = former[p[1]]
  <2>1. PICK i \in DOMAIN former : k = former[i]
    BY <1>7 DEF Staying, LessonsOf
  <2>2. ~\E c \in changes : c.kind = "cancelled" /\ c.before = k
    BY <1>7 DEF Staying
  <2>3. i \in Firsts(M)
    BY <2>1, <2>2, DiffFacts
  <2> QED BY <2>1, <2>3 DEF Firsts
<1>8. ASSUME NEW p \in M PROVE former[p[1]] \in Staying
  <2>1. p[1] \in DOMAIN former /\ p[1] \in Firsts(M)
    BY <1>1 DEF Firsts
  <2>2. ASSUME NEW c \in changes, c.kind = "cancelled", c.before = former[p[1]] PROVE FALSE
    <3>1. PICK i \in DOMAIN former \ Firsts(M) : c.before = former[i]
      BY <1>4, <2>2
    <3> QED BY <1>2, <2>1, <2>2, <3>1
  <2> QED BY <2>1, <2>2 DEF Staying, LessonsOf
<1>9. ASSUME NEW l, l \in Added PROVE \E j \in DOMAIN current \ Seconds(M) : l = current[j]
  <2>1. PICK c \in changes : c.kind = "added" /\ l = c.after
    BY <1>9 DEF Added
  <2> QED BY <1>5, <2>1
<1>10. ASSUME NEW j \in DOMAIN current \ Seconds(M) PROVE current[j] \in Added
  <2>1. PICK c \in changes : c.kind = "added" /\ c.after = current[j]
    BY DiffFacts
  <2> QED BY <2>1 DEF Added
<1>11. ASSUME NEW p \in M, NEW f \in Fields
       PROVE  Followed(former[p[1]])[f] = current[p[2]][f]
  <2> DEFINE k == former[p[1]]
  <2> DEFINE Told == {c \in changes : c.kind = f /\ c.before = k}
  <2>1. \A c \in Told : c.after = current[p[2]] /\ k[f] # current[p[2]][f]
    <3> SUFFICES ASSUME NEW c \in Told PROVE c.after = current[p[2]] /\ k[f] # current[p[2]][f]
      OBVIOUS
    <3>1. PICK q \in M : /\ c.before = former[q[1]] /\ c.after = current[q[2]]
                         /\ former[q[1]][c.kind] # current[q[2]][c.kind]
      BY <1>6
    <3>2. p[1] \in DOMAIN former /\ q[1] \in DOMAIN former
      BY <1>1
    <3>3. q[1] = p[1]
      BY <1>2, <3>1, <3>2
    <3>4. q = p
      BY <1>1, <3>3 DEF OneToOne
    <3> QED BY <3>1, <3>4
  <2>2. k[f] # current[p[2]][f] => \E c \in Told : TRUE
    BY DiffFacts
  <2>3. Followed(k)[f] = IF \E c \in changes : c.kind = f /\ c.before = k
                           THEN (CHOOSE c \in changes : c.kind = f /\ c.before = k).after[f]
                           ELSE k[f]
    BY DEF Followed
  <2>4. CASE \E c \in changes : c.kind = f /\ c.before = k
    <3>1. (CHOOSE c \in changes : c.kind = f /\ c.before = k) \in Told
      BY <2>4
    <3> QED BY <2>1, <2>3, <2>4, <3>1
  <2>5. CASE ~\E c \in changes : c.kind = f /\ c.before = k
    BY <2>2, <2>3, <2>5
  <2> QED BY <2>4, <2>5
<1>12. ASSUME NEW p \in M PROVE Followed(former[p[1]]) = Shown(current[p[2]])
  <2>1. Followed(former[p[1]]) = [f \in Fields |-> Followed(former[p[1]])[f]]
    BY DEF Followed
  <2>2. Shown(current[p[2]]) = [f \in Fields |-> current[p[2]][f]]
    BY DEF Shown
  <2> HIDE DEF Followed
  <2> QED BY <1>11, <2>1, <2>2
<1> QED BY <1>7, <1>8, <1>9, <1>10, <1>12

\* Matched lessons and new ones are all there are.
LEMMA ReaderCounts ==
  ASSUME Listed(former), Listed(current), changes = Diff(former, current), NEW shown
  PROVE  Cardinality({k \in Staying : Followed(k) = shown}) + Cardinality({a \in Added : Shown(a) = shown})
           = Cardinality({l \in LessonsOf(current) : Shown(l) = shown})
<1> DEFINE M == Matched(former, current)
<1> DEFINE A == {k \in Staying : Followed(k) = shown}
<1> DEFINE B == {a \in Added : Shown(a) = shown}
<1> DEFINE C == {l \in LessonsOf(current) : Shown(l) = shown}
<1> DEFINE D == {l \in C : \E p \in M : l = current[p[2]]}
<1>1. M \subseteq (DOMAIN former) \X (DOMAIN current) /\ OneToOne(M)
  BY MatchedFacts
<1>2. /\ \A k : k \in Staying <=> \E p \in M : k = former[p[1]]
      /\ \A l : l \in Added <=> \E j \in DOMAIN current \ Seconds(M) : l = current[j]
      /\ \A p \in M : Followed(former[p[1]]) = Shown(current[p[2]])
  BY ReaderFacts
<1>3. /\ \A i, j \in DOMAIN former : former[i] = former[j] => i = j
      /\ \A i, j \in DOMAIN current : current[i] = current[j] => i = j
      /\ IsFiniteSet(LessonsOf(current))
  BY ListedFacts
<1> HIDE DEF M
<1>4. IsFiniteSet(C) /\ IsFiniteSet(D)
  <2>1. C \in SUBSET LessonsOf(current) /\ D \in SUBSET LessonsOf(current)
    OBVIOUS
  <2> QED BY <1>3, <2>1, FS_Subset
<1>5. B = C \ D
  <2>1. ASSUME NEW l \in B PROVE l \in C \ D
    <3>1. PICK j \in DOMAIN current \ Seconds(M) : l = current[j]
      BY <1>2
    <3>2. l \in C
      BY <3>1 DEF LessonsOf
    <3>3. ASSUME NEW p \in M, l = current[p[2]] PROVE FALSE
      <4>1. p[2] \in DOMAIN current /\ p[2] \in Seconds(M)
        BY <1>1 DEF Seconds
      <4> QED BY <1>3, <3>1, <3>3, <4>1
    <3> QED BY <3>2, <3>3
  <2>2. ASSUME NEW l \in C \ D PROVE l \in B
    <3>1. PICK j \in DOMAIN current : l = current[j]
      BY DEF LessonsOf
    <3>2. j \notin Seconds(M)
      BY <3>1 DEF Seconds
    <3> QED BY <1>2, <3>1, <3>2
  <2> QED BY <2>1, <2>2
<1> DEFINE Partner(k) == CHOOSE l \in D : \E p \in M : k = former[p[1]] /\ l = current[p[2]]
<1>6. ASSUME NEW k \in A
      PROVE  Partner(k) \in D /\ \E p \in M : k = former[p[1]] /\ Partner(k) = current[p[2]]
  <2>1. PICK p \in M : k = former[p[1]]
    BY <1>2
  <2>2. p[2] \in DOMAIN current
    BY <1>1
  <2>3. Shown(current[p[2]]) = shown
    BY <1>2, <2>1
  <2>4. current[p[2]] \in D
    BY <2>2, <2>3 DEF LessonsOf
  <2> QED BY <2>1, <2>4
<1> DEFINE map == [k \in A |-> Partner(k)]
<1>7. map \in [A -> D]
  BY <1>6
<1>8. ASSUME NEW k \in A, NEW h \in A, map[k] = map[h] PROVE k = h
  <2>1. PICK p \in M : k = former[p[1]] /\ map[k] = current[p[2]]
    BY <1>6
  <2>2. PICK q \in M : h = former[q[1]] /\ map[h] = current[q[2]]
    BY <1>6
  <2>3. p[2] \in DOMAIN current /\ q[2] \in DOMAIN current
    BY <1>1
  <2>4. p[2] = q[2]
    BY <1>3, <1>8, <2>1, <2>2, <2>3
  <2>5. p = q
    BY <1>1, <2>4 DEF OneToOne
  <2> QED BY <2>1, <2>2, <2>5
<1>9. ASSUME NEW l \in D PROVE \E k \in A : map[k] = l
  <2>1. PICK p \in M : l = current[p[2]]
    OBVIOUS
  <2>2. former[p[1]] \in A
    BY <1>2, <2>1
  <2>3. PICK q \in M : former[p[1]] = former[q[1]] /\ map[former[p[1]]] = current[q[2]]
    BY <1>6, <2>2
  <2>4. p[1] \in DOMAIN former /\ q[1] \in DOMAIN former
    BY <1>1
  <2>5. p[1] = q[1]
    BY <1>3, <2>3, <2>4
  <2>6. p = q
    BY <1>1, <2>5 DEF OneToOne
  <2> QED BY <2>1, <2>2, <2>3, <2>6
<1>10. D \in SUBSET C
  OBVIOUS
<1> HIDE DEF map, A, B, C, D
<1>11. map \in Injection(A, D) /\ map \in Surjection(A, D)
  BY <1>7, <1>8, <1>9 DEF Injection, Surjection, IsInjective
<1>12. Cardinality(A) = Cardinality(D)
  BY <1>4, <1>11, FS_Injection
<1>13. Cardinality(B) = Cardinality(C) - Cardinality(D)
  <2>1. Cardinality(C \ D) = Cardinality(C) - Cardinality(C \cap D)
    BY <1>4, FS_Difference
  <2>2. C \cap D = D
    BY <1>10
  <2> QED BY <1>5, <2>1, <2>2
<1>14. Cardinality(C) \in Nat /\ Cardinality(D) \in Nat
  BY <1>4, FS_CardinalityType
<1>15. Cardinality(A) + Cardinality(B) = Cardinality(C)
  BY <1>12, <1>13, <1>14
<1> QED BY <1>15 DEF A, B, C

\* A lesson in both lists is matched with itself, and a pair of equals has no change.
LEMMA NothingSaidOfEquals ==
  ASSUME Listed(former), Listed(current), changes = Diff(former, current)
  PROVE  \A l \in LessonsOf(former) \cap LessonsOf(current) : \A c \in changes : l \notin {c.before, c.after}
<1> DEFINE M == Matched(former, current)
<1>1. /\ M \subseteq (DOMAIN former) \X (DOMAIN current) /\ OneToOne(M)
      /\ SameId(former, current) \subseteq M
  BY MatchedFacts
<1>2. /\ \A i, j \in DOMAIN former : former[i] = former[j] => i = j
      /\ \A i, j \in DOMAIN current : current[i] = current[j] => i = j
      /\ NoLesson \notin LessonsOf(former) \cup LessonsOf(current)
  BY ListedFacts
<1> SUFFICES ASSUME NEW l \in LessonsOf(former) \cap LessonsOf(current), NEW c \in changes,
                    l = c.before \/ l = c.after
             PROVE  FALSE
  OBVIOUS
<1>3. PICK i \in DOMAIN former : l = former[i]
  BY DEF LessonsOf
<1>4. PICK j \in DOMAIN current : l = current[j]
  BY DEF LessonsOf
<1> DEFINE pair == <<i, j>>
<1>5. pair \in M /\ pair[1] = i /\ pair[2] = j
  <2>1. SourceId(former[i]) = SourceId(current[j])
    BY <1>3, <1>4
  <2>2. <<i, j>> \in SameId(former, current)
    BY <2>1 DEF SameId
  <2> QED BY <1>1, <2>2
<1>6. i \in Firsts(M) /\ j \in Seconds(M)
  BY <1>5 DEF Firsts, Seconds
<1>7. l # NoLesson
  BY <1>2
<1> HIDE DEF M, pair
<1>8. CASE \E p \in M : /\ c.kind \in Fields /\ c.before = former[p[1]] /\ c.after = current[p[2]]
                        /\ former[p[1]][c.kind] # current[p[2]][c.kind]
  <2>1. PICK p \in M : /\ c.before = former[p[1]] /\ c.after = current[p[2]]
                       /\ former[p[1]][c.kind] # current[p[2]][c.kind]
    BY <1>8
  <2>2. p[1] \in DOMAIN former /\ p[2] \in DOMAIN current
    BY <1>1
  <2>3. p[1] = pair[1] \/ p[2] = pair[2]
    BY <1>2, <1>3, <1>4, <1>5, <2>1, <2>2
  <2>4. p = pair
    BY <1>1, <1>5, <2>3 DEF OneToOne
  <2> QED BY <1>3, <1>4, <1>5, <2>1, <2>4
<1>9. CASE \E h \in DOMAIN former \ Firsts(M) : c.before = former[h] /\ c.after = NoLesson
  BY <1>2, <1>3, <1>6, <1>7, <1>9
<1>10. CASE \E h \in DOMAIN current \ Seconds(M) : c.before = NoLesson /\ c.after = current[h]
  BY <1>2, <1>4, <1>6, <1>7, <1>10
<1>11. M = Matched(former, current)
  BY DEF M
<1> QED BY <1>8, <1>9, <1>10, <1>11, DiffFacts

----------------------------------------------------------------------------
\* The timetables are lists of pages, and the changes are between them.
TimetableInv ==
  /\ Listed(former) /\ Listed(current)
  /\ \/ versions \in {0, 1} /\ changes = {} /\ former = current
     \/ versions = 2 /\ changes = Diff(former, current)

\* An announced timetable is what the reader has made of the one before (diff_schedules,
\* _match_lessons): the reason ChangesTellAll holds.
LEMMA ChangesTellAllHolds ==
  ASSUME TimetableInv PROVE ChangesTellAll
<1>1. CASE versions = 2 /\ changes = Diff(former, current)
  BY <1>1, ReaderCounts, NothingSaidOfEquals DEF ChangesTellAll, TimetableInv
<1>2. CASE changes = {} /\ former = current
  <2>1. Staying = LessonsOf(current) /\ Added = {}
    BY <1>2 DEF Staying, Added
  <2>2. ASSUME NEW k PROVE Followed(k) = Shown(k)
    BY <1>2 DEF Followed, Shown
  <2>3. ASSUME NEW shown
        PROVE  Cardinality({k \in Staying : Followed(k) = shown}) + Cardinality({a \in Added : Shown(a) = shown})
                 = Cardinality({l \in LessonsOf(current) : Shown(l) = shown})
    <3> DEFINE C == {l \in LessonsOf(current) : Shown(l) = shown}
    <3>1. {k \in Staying : Followed(k) = shown} = C /\ {a \in Added : Shown(a) = shown} = {}
      BY <2>1, <2>2
    <3>2. IsFiniteSet(C)
      <4>1. IsFiniteSet(LessonsOf(current)) /\ C \in SUBSET LessonsOf(current)
        BY ListedFacts DEF TimetableInv
      <4> QED BY <4>1, FS_Subset
    <3> HIDE DEF C
    <3>3. Cardinality(C) \in Nat /\ Cardinality({}) = 0
      BY <3>2, FS_CardinalityType, FS_EmptySet
    <3>4. Cardinality(C) + 0 = Cardinality(C)
      BY <3>3
    <3>5. Cardinality({k \in Staying : Followed(k) = shown}) + Cardinality({a \in Added : Shown(a) = shown}) = Cardinality(C)
      BY <3>1, <3>3, <3>4
    <3> QED BY <3>5 DEF C
  <2> QED BY <1>2, <2>3 DEF ChangesTellAll
<1> QED BY <1>1, <1>2 DEF TimetableInv

\* Whoever has the former timetable and applies the announced changes gets the current one
\* (materialize_week, _match_lessons, diff_schedules), for pages of any size and any likeness
\* of subjects below the match.
THEOREM ChangesTellEverything == TimetableSpec => []ChangesTellAll
<1>1. TimetableInit => TimetableInv
  <2>1. DOMAIN <<>> = 1..0
    OBVIOUS
  <2> QED BY <2>1 DEF TimetableInit, TimetableInv, Listed
<1>2. TimetableInv /\ [TimetableNext]_timetableVars => TimetableInv'
  <2> SUFFICES ASSUME TimetableInv, [TimetableNext]_timetableVars PROVE TimetableInv'
    OBVIOUS
  <2>1. CASE \E page \in Pages : StoreFirst(page)
    <3>1. PICK page \in Pages : StoreFirst(page)
      BY <2>1
    <3>2. Listed(Materialized(page))
      BY MaterializedListed
    <3> QED BY <3>1, <3>2 DEF TimetableInv, StoreFirst
  <2>2. CASE \E page \in Pages : Republish(page)
    <3>1. PICK page \in Pages : Republish(page)
      BY <2>2
    <3>2. Listed(Materialized(page))
      BY MaterializedListed
    <3> QED BY <3>1, <3>2 DEF TimetableInv, Republish
  <2>3. CASE UNCHANGED timetableVars
    BY <2>3 DEF TimetableInv, timetableVars
  <2> QED BY <2>1, <2>2, <2>3 DEF TimetableNext
<1> QED BY <1>1, <1>2, ChangesTellAllHolds, PTL DEF TimetableSpec

====
