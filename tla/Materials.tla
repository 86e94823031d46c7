---- MODULE Materials ----
(***************************************************************************)
(* From an album of the group to its copies in the materials topic: the    *)
(* live archive (LiveArchive.ingest), the admission of its jobs, the       *)
(* extraction of documents (MaterialExtractionJobHandlers) and their       *)
(* assessment (MaterialJobHandlers), which the material worker runs one at *)
(* a time, and the copies and reviews in the outbox.                       *)
(*                                                                         *)
(* The row of the album has two writers, the assessment and the sender of  *)
(* a copy.  Both read it outside of any transaction, since sqlite begins   *)
(* one with the first write (storage/database.py), and write it later: a   *)
(* writer keeps what it has read, and each column it changes it overwrites *)
(* with what it made of that.                                              *)
(*                                                                         *)
(* There is one album; its messages have the numbers of Messages, and are  *)
(* documents or photos.  What a caption or a document says is reduced to   *)
(* whether a strong academic pattern matches it.  Scores are in hundredths.*)
(* An update is in the inbox when it is published: UpdatePump and          *)
(* Attendance look at what lies between.                                   *)
(***************************************************************************)
EXTENDS UpdatePump, Outbox, Integers

CONSTANTS
  Album,       \* message ids of the album
  Documents,   \* those with a document; the others have a photo
  Readings,    \* what the extraction of a document may come to
  Captioned,   \* bound: those with a caption, which may be edited
  EditSeconds  \* bound: the dates of edits; the album is of second 0

Outcomes == {"academic", "plain", "unreadable"}

ASSUME AlbumAssumption ==
  /\ Album \subseteq Nat \ {0}
  /\ Documents \subseteq Album
  /\ Readings \subseteq Outcomes
  /\ Captioned \subseteq Album
  /\ EditSeconds \subseteq Nat

VARIABLES
  content,    \* of every update: a snapshot of a message
  world,      \* fixed: whether the topic is a social one, and what a document's text is
  archive,    \* table messages: the snapshot on record of each message
  extraction, \* table files: extraction_status and text of each document
  material,   \* table materials: the row of the album
  jobs,       \* table jobs
  assessor,   \* material worker: the job it assesses for, what it has read and decided upon
  extractor,  \* material worker: the job it extracts for, and how far it got
  seen,       \* outbox workers: the row of materials as it was read after a copy
  collided,   \* history: whether a key was met that had been used for something else
  overwritten,\* history: whether the row of materials was written after it had changed unread
  copies      \* history: how often each message was copied to the topic

archiveVars == <<archive, extraction>>
jobVars == <<jobs, assessor, extractor>>
inputVars == <<content, world>>
rowVars == <<material, seen, overwritten, copies>>
vars == <<pumpVars, outboxVars, inputVars, archiveVars, rowVars, jobVars, collided>>

Seconds == {0} \cup EditSeconds

Texts == {"academic", "plain"}

\* Message 0 is none.
Snapshots == [message : {0} \cup Album, edited : BOOLEAN, at : Seconds, caption : Texts]

NoSnapshot == [message |-> 0, edited |-> FALSE, at |-> 0, caption |-> "plain"]

NotExtracted == "none"

\* Column evidence: what the assessment was about, and copied_source_message_ids, which it
\* takes over.  The route and its reasons follow from the score.
NoEvidence == [ids |-> {}, extracted |-> {}, score |-> 0, copied |-> {}]

NoMaterial == [state |-> "none", evidence |-> NoEvidence, destination |-> NoMessage]

(***************************************************************************)
(* Keys of jobs and of outbox rows.                                        *)
(***************************************************************************)
AssessKey(snapshot) == <<"assess", snapshot.message, snapshot.at>>

ExtractKey(m) == <<"extract", m>>

ReassessKey(m, outcome) == <<"reassess", m, outcome>>

AssessKeys == {<<"assess", m, at>> : m \in Album, at \in Seconds}

ReassessKeys == {<<"reassess", m, outcome>> : m \in Documents, outcome \in Outcomes}

ExtractKeys == {ExtractKey(m) : m \in Documents}

JobKeys == AssessKeys \cup ReassessKeys \cup ExtractKeys

NoJob == <<"none">>

Sets == (SUBSET Album) \ {{}}

CopyKey(ids) == <<"copy", ids>>

ReviewKey(ids) == <<"review", ids>>

\* The rows of the module are the copies and the reviews; a row is told what its key does not
\* say, a copy nothing and a review its score.
ASSUME KeyAssumption ==
  Keys = {CopyKey(ids) : ids \in Sets} \cup {ReviewKey(ids) : ids \in Sets}

PlainCopy == 0

ASSUME ScoreAssumption == {PlainCopy} \cup 70..94 \subseteq Ops

\* A handler that has archived a message stands there until it has admitted its jobs.
ASSUME PhaseAssumption == "stored" \in MidPhases

NoAction == [route |-> "leave", ids |-> {}, score |-> 0]

Free == [job |-> NoJob, phase |-> "idle", seen |-> NoMaterial, evidence |-> NoEvidence,
         action |-> NoAction]

Waiting == [job |-> NoJob, phase |-> "idle"]

\* material_worker has handlers of both kinds, and claims a job when it has ended one.
WorkerFree == assessor = Free /\ extractor = Waiting

Init ==
  /\ PumpInit
  /\ OutboxInit
  /\ content = [u \in {NoUpdate} \cup Updates |-> NoSnapshot]
  /\ world \in [social : BOOLEAN, text : [Documents -> Readings]]
  /\ archive = [m \in Album |-> NoSnapshot]
  /\ extraction = [m \in Documents |-> NotExtracted]
  /\ material = NoMaterial
  /\ jobs = [j \in JobKeys |-> "absent"]
  /\ assessor = Free
  /\ extractor = Waiting
  /\ seen = [w \in Senders |-> NoMaterial]
  /\ collided = FALSE
  /\ overwritten = FALSE
  /\ copies = [m \in Album |-> 0]

(***************************************************************************)
(* The messages of the group and their edits.                              *)
(***************************************************************************)
SnapshotsOf(m) == {u \in 1..published : content[u].message = m}

Arrive(snapshot) ==
  /\ published < LastUpdate
  /\ published' = published + 1
  /\ forgotten' = published'
  /\ poller' = [poller EXCEPT !.offset = published' + 1]
  /\ inbox' = [inbox EXCEPT ![published'] = [status |-> "open", attempts |-> 0, due |-> TRUE]]
  /\ content' = [content EXCEPT ![published'] = snapshot]
  /\ UNCHANGED <<worker, troubles, outboxVars, world, archiveVars, rowVars, jobVars, collided>>

\* The messages of an album come in the order of their ids.
Post(m) ==
  /\ SnapshotsOf(m) = {}
  /\ \A k \in Album : k < m => SnapshotsOf(k) # {}
  /\ \E caption \in Texts :
       /\ caption = "academic" => m \in Captioned
       /\ Arrive([message |-> m, edited |-> FALSE, at |-> 0, caption |-> caption])

\* A second edit within a second would share the job of the first; it is left out.  So is an
\* edit that does not change what the caption says.  Bound: edits come when the album is there.
Edit(m) ==
  /\ \A k \in Album : SnapshotsOf(k) # {}
  /\ \E caption \in Texts, at \in EditSeconds :
       /\ at > content[Max(SnapshotsOf(m))].at
       /\ caption # content[Max(SnapshotsOf(m))].caption
       /\ Arrive([message |-> m, edited |-> TRUE, at |-> at, caption |-> caption])

(***************************************************************************)
(* The handler of a message: its archive transaction, then its jobs.       *)
(***************************************************************************)
Update == content[worker.at]

\* Mutant of HasNewerSnapshot: whatever comes last is taken for newer.
HasAnySnapshot(stored, incoming) == TRUE

\* _apply_message_snapshot, which stores edited_at but not the date of an original.
HasNewerSnapshot(stored, incoming) ==
  ~stored.edited \/ (incoming.edited /\ incoming.at >= stored.at)

Ingest ==
  /\ Handle("read", "stored")
  /\ archive' = IF HasNewerSnapshot(archive[Update.message], Update)
                  THEN [archive EXCEPT ![Update.message] = Update]
                  ELSE archive
  /\ UNCHANGED <<outboxVars, inputVars, extraction, rowVars, jobVars, collided>>

\* A document is extracted once, a photo never; a snapshot is known by its date.  These are
\* two transactions: after the first alone, the handler is as good as slow.
AdmitJobs ==
  /\ Handle("stored", "handled")
  /\ LET due == {AssessKey(Update)} \cup
                 (IF Update.message \in Documents THEN {ExtractKey(Update.message)} ELSE {}) IN
       jobs' = [j \in JobKeys |-> IF j \in due /\ jobs[j] = "absent" THEN "open" ELSE jobs[j]]
  /\ UNCHANGED <<outboxVars, inputVars, archiveVars, rowVars, assessor, extractor, collided>>

HandlerRaises ==
  /\ RecordFailure
  /\ Suffer
  /\ UNCHANGED <<outboxVars, inputVars, archiveVars, rowVars, jobVars, collided>>

(***************************************************************************)
(* Extraction.  The file is loaded in one transaction, downloaded and      *)
(* parsed outside of any, stored in a second; the assessment is enqueued   *)
(* in a third.                                                             *)
(***************************************************************************)
ExtractorStays == UNCHANGED <<pumpVars, outboxVars, inputVars, archive, rowVars, assessor, collided>>

Candidate == extractor.job[2]

LoadCandidate(m) ==
  /\ WorkerFree
  /\ jobs[ExtractKey(m)] = "open"
  /\ extractor' = [job |-> ExtractKey(m),
                   phase |-> IF extraction[m] = NotExtracted THEN "loaded" ELSE "persisted"]
  /\ UNCHANGED <<jobs, extraction>>
  /\ ExtractorStays

\* Mutant of Persist: the job ends with the text, and nothing is assessed again.
PersistOnly ==
  /\ extractor.phase = "loaded"
  /\ extraction' = [extraction EXCEPT ![Candidate] = world.text[Candidate]]
  /\ jobs' = [jobs EXCEPT ![extractor.job] = "ended"]
  /\ extractor' = Waiting
  /\ ExtractorStays

Persist ==
  /\ extractor.phase = "loaded"
  /\ extraction' = [extraction EXCEPT ![Candidate] = world.text[Candidate]]
  /\ extractor' = [extractor EXCEPT !.phase = "persisted"]
  /\ UNCHANGED jobs
  /\ ExtractorStays

\* The third transaction.  The job is ended in a fourth; a process that dies before that
\* finds the text on record when it comes back, and the same key.
EnqueueReassessment ==
  /\ extractor.phase = "persisted"
  /\ LET key == ReassessKey(Candidate, extraction[Candidate]) IN
       jobs' = [jobs EXCEPT ![key] = IF @ = "absent" THEN "open" ELSE @,
                            ![extractor.job] = "ended"]
  /\ extractor' = Waiting
  /\ UNCHANGED extraction
  /\ ExtractorStays

\* The download or the database raises: the job is tried again.  It would be given up after
\* eight attempts, which is more than MaxTroubles.
ExtractionRaises ==
  /\ extractor.phase \in {"loaded", "persisted"}
  /\ UNCHANGED jobs
  /\ extractor' = Waiting
  /\ Suffer
  /\ UNCHANGED <<published, forgotten, poller, inbox, worker, extraction>>
  /\ UNCHANGED <<outboxVars, inputVars, archive, rowVars, assessor, collided>>

(***************************************************************************)
(* Assessment.                                                             *)
(***************************************************************************)
Archived == {m \in Album : archive[m] # NoSnapshot}

\* extracted_text of a document; it is kept only if the extraction succeeded.
Extracted(m) == m \in Documents /\ extraction[m] \in Texts

Weight(condition, points) == IF condition THEN points ELSE 0

\* assess_material on the evidence of a set of messages.
Score(ids) ==
  LET photo == ids \ Documents # {}
      strong == \E m \in ids : archive[m].caption = "academic"
                                \/ (Extracted(m) /\ extraction[m] = "academic")
      score == Weight(ids \cap Documents # {}, 25) + Weight(photo, 3)
                 + Weight(strong, 72) + Weight(strong /\ photo, 22)
                 + Weight(\E m \in ids : Extracted(m), 5)
                 - Weight(world.social, 20)
  IN Max({0, Min({100, score})})

RouteOf(score) ==
  IF score >= 95 THEN "auto_copy" ELSE IF score >= 70 THEN "admin_review" ELSE "leave"

\* What there is to say of the album; a file's status says whether it has been extracted.
EvidenceNow ==
  [ids |-> Archived, extracted |-> {m \in Archived \cap Documents : extraction[m] # NotExtracted},
   score |-> Score(Archived), copied |-> material.evidence.copied]

AssessorStays == UNCHANGED <<pumpVars, inputVars, archiveVars, extractor, seen, copies>>

\* _load_source and _existing_material.  These are SELECTs outside of a transaction, and one
\* step: what runs beside the assessor, the handler of updates and the sender, writes the
\* archive or the row, and does not read the other.  The messages have been archived.
Read(j) ==
  /\ WorkerFree
  /\ jobs[j] = "open"
  /\ assessor' = [Free EXCEPT !.job = j, !.phase = "read", !.seen = material, !.evidence = EvidenceNow]
  /\ UNCHANGED <<outboxVars, material, jobs, collided, overwritten>>
  /\ AssessorStays

\* _scheduled_source_ids: of the rows that are, or may yet be, carried out.
Scheduled ==
  UNION {ids \in Sets : outbox[CopyKey(ids)].status \in {"pending", "sending", "sent"}}

RouteNow == RouteOf(assessor.evidence.score)

\* Mutant of ActionIds: every message is copied again.
ActionIdsAgain == assessor.evidence.ids

\* Mutant of ActionIds: what is on record as copied is relied upon, not what is in the outbox.
ActionIdsUnrecorded ==
  IF RouteNow = "auto_copy" THEN assessor.evidence.ids \ assessor.evidence.copied ELSE assessor.evidence.ids

ActionIds ==
  IF RouteNow = "auto_copy" THEN assessor.evidence.ids \ Scheduled ELSE assessor.evidence.ids

CopyKnown == assessor.seen.destination # NoMessage \/ Scheduled # {}

\* Mutant of ActionRoute: an album that is scheduled whole is copied all the same.
ActionRouteUnchecked == RouteNow

\* The route that is acted upon: none if all of it is scheduled, no review of what is copied.
ActionRoute ==
  IF \/ (RouteNow = "auto_copy" /\ ActionIds = {})
     \/ (RouteNow # "auto_copy" /\ CopyKnown)
    THEN "leave" ELSE RouteNow

\* workflow_state as the flush writes it, and as the transaction leaves it.
Workflow ==
  CASE RouteNow = "auto_copy" -> "copy_pending"
    [] RouteNow = "admin_review" -> "review"
    [] OTHER -> "completed"

StateAfter ==
  IF (RouteNow = "auto_copy" /\ ActionIds = {}) \/ (RouteNow # "auto_copy" /\ CopyKnown)
    THEN IF assessor.seen.destination # NoMessage THEN "completed" ELSE "copy_pending"
    ELSE Workflow

\* The session writes a column only if it is not what was read.
Write(column, read, new) == IF new = read THEN column ELSE new

\* The row was written since the writer has read it.
Missed(read) == overwritten' = (overwritten \/ material # read)

\* The first transaction of assess, from its flush on.
Store ==
  /\ assessor.phase = "read"
  /\ material' = [material EXCEPT
       !.evidence = Write(@, assessor.seen.evidence, assessor.evidence),
       !.state = IF assessor.seen.state = Workflow THEN Write(@, Workflow, StateAfter) ELSE StateAfter]
  /\ assessor' = [Free EXCEPT !.job = assessor.job, !.phase = "stored", !.action =
       [route |-> ActionRoute, ids |-> ActionIds, score |-> assessor.evidence.score]]
  /\ Missed(assessor.seen)
  /\ UNCHANGED <<outboxVars, jobs, collided>>
  /\ AssessorStays

Action == assessor.action

ActionKey == IF Action.route = "auto_copy" THEN CopyKey(Action.ids) ELSE ReviewKey(Action.ids)

ActionOp == IF Action.route = "auto_copy" THEN PlainCopy ELSE Action.score

EndAssessment == jobs' = [jobs EXCEPT ![assessor.job] = "ended"] /\ assessor' = Free

\* The second transaction.  The job is ended in a third; a process that dies before that
\* assesses the album once more, as after any other crash.
Act ==
  /\ assessor.phase = "stored"
  /\ IF Action.route = "leave" THEN UNCHANGED outboxVars ELSE Enqueue(ActionKey, ActionOp)
  /\ collided' = (collided \/ (Action.route # "leave" /\ outbox[ActionKey].status = "failed"))
  /\ EndAssessment
  /\ UNCHANGED <<material, overwritten>>
  /\ AssessorStays

\* A review of the same messages that says something else: the job raises, and is tried again
\* until it is given up.
ActConflicts ==
  /\ assessor.phase = "stored"
  /\ Action.route # "leave"
  /\ Conflict(ActionKey, ActionOp)
  /\ \/ jobs' = [jobs EXCEPT ![assessor.job] = "failed"]
     \/ UNCHANGED jobs
  /\ assessor' = Free
  /\ collided' = TRUE
  /\ UNCHANGED <<outboxVars, material, overwritten>>
  /\ AssessorStays

(***************************************************************************)
(* The outbox worker on these envelopes.                                   *)
(***************************************************************************)
KeyOf(w) == sender[w].key

IsCopy(w) == sender[w] # Idle /\ KeyOf(w)[1] = "copy"

\* The row is read for this before the call; nothing is written until it is read again.
Done(w) == IsCopy(w) /\ KeyOf(w)[2] \subseteq material.evidence.copied

\* "material is not ready to be copied" otherwise.
Allowed(w) == IsCopy(w) => material.state \in {"copy_pending", "completed"}

SenderStays == UNCHANGED <<pumpVars, inputVars, archiveVars, jobVars, collided>>

PollRows(w) == PollQueue(w) /\ UNCHANGED rowVars /\ SenderStays

SkipRow(w) == Done(w) /\ Skip(w) /\ UNCHANGED rowVars /\ SenderStays

\* The messages of a copy are in the topic once more.
Copied(w) ==
  copies' = [m \in Album |-> IF IsCopy(w) /\ m \in KeyOf(w)[2] THEN copies[m] + 1 ELSE copies[m]]

Send(w) ==
  /\ sender[w].phase = "claimed"
  /\ ~Done(w)
  /\ Allowed(w)
  /\ \E message \in Messages : Deliver(w, message)
  /\ Copied(w)
  /\ UNCHANGED <<material, seen, overwritten>>
  /\ SenderStays

Unlucky == Suffer /\ UNCHANGED <<published, forgotten, poller, inbox, worker, inputVars,
                                 archiveVars, material, seen, overwritten, jobVars, collided>>

\* No answer, or another number of copies than asked for.
SendUnanswered(w) ==
  /\ sender[w].phase = "claimed"
  /\ ~Done(w)
  /\ Allowed(w)
  /\ LoseReply(w)
  /\ Copied(w)
  /\ Unlucky

SendRefused(w) == ~Done(w) /\ Refuse(w) /\ UNCHANGED copies /\ Unlucky

\* The SELECT of the transaction that records a copy, which it does not hold the row with.
ReadBack(w) ==
  /\ sender[w].phase = "delivered"
  /\ IsCopy(w)
  /\ seen[w] = NoMaterial
  /\ seen' = [seen EXCEPT ![w] = material]
  /\ UNCHANGED <<outboxVars, material, overwritten, copies>>
  /\ SenderStays

\* The evidence is always another one: the ids of the copies are new, and part of it.
RecordCopy(w) ==
  [material EXCEPT
    !.evidence = [seen[w].evidence EXCEPT !.copied = @ \cup KeyOf(w)[2]],
    !.state = Write(@, seen[w].state, "completed"),
    !.destination = IF seen[w].destination = NoMessage THEN sender[w].answer ELSE @]

Record(w) ==
  /\ Confirm(w)
  /\ IF IsCopy(w)
       THEN /\ seen[w] # NoMaterial
            /\ material' = RecordCopy(w)
            /\ seen' = [seen EXCEPT ![w] = NoMaterial]
            /\ Missed(seen[w])
       ELSE UNCHANGED <<material, seen, overwritten>>
  /\ UNCHANGED copies
  /\ SenderStays

EndRow(w) == (Sent(w) \/ Fail(w)) /\ UNCHANGED rowVars /\ SenderStays

\* One worker does not claim while it sends, so it makes no difference when the lease of the row
\* it is at runs out; of several it is assumed that a lease outlasts its call.
Due(k) ==
  /\ Elapse(k)
  /\ \A w \in Senders : KeyOf(w) # k
  /\ UNCHANGED rowVars
  /\ SenderStays

(***************************************************************************)
(* The tasks of the process together.                                      *)
(***************************************************************************)
Pump ==
  /\ \/ Begin \/ RecordProcessed
     \/ \E u \in Updates : WaitOver(u)
  /\ UNCHANGED <<outboxVars, inputVars, archiveVars, rowVars, jobVars, collided>>

Crash ==
  /\ \/ worker # Resting \/ assessor # Free \/ extractor # Waiting
     \/ \E w \in Senders : sender[w] # Idle
  /\ Restart
  /\ sender' = [w \in Senders |-> Idle]
  /\ assessor' = Free
  /\ extractor' = Waiting
  /\ seen' = [w \in Senders |-> NoMaterial]
  /\ UNCHANGED <<outbox, accepted, confirmed, inputVars, archiveVars, material, jobs, collided,
                 overwritten, copies>>

Next ==
  \/ \E m \in Album : Post(m)
  \/ \E m \in Captioned : Edit(m)
  \/ Pump
  \/ Ingest \/ AdmitJobs \/ HandlerRaises
  \/ \E m \in Documents : LoadCandidate(m)
  \/ Persist \/ EnqueueReassessment \/ ExtractionRaises
  \/ \E j \in AssessKeys \cup ReassessKeys : Read(j)
  \/ Store \/ Act \/ ActConflicts
  \/ \E w \in Senders :
       \/ PollRows(w) \/ SkipRow(w) \/ Send(w) \/ SendUnanswered(w) \/ SendRefused(w)
       \/ ReadBack(w) \/ Record(w) \/ EndRow(w)
  \/ \E k \in Keys : Due(k)
  \/ Crash

Spec == Init /\ [][Next]_vars

(***************************************************************************)
(* Properties.                                                             *)
(***************************************************************************)
Evidences == [ids : SUBSET Album, extracted : SUBSET Documents, score : 0..100, copied : SUBSET Album]

MaterialRows ==
  [state : {"none", "copy_pending", "review", "completed"}, evidence : Evidences,
   destination : Messages \cup {NoMessage}]

\* Every table and task of the materials keeps its type.
TypeOK ==
  /\ PumpTypeOK
  /\ OutboxTypeOK
  /\ content \in [{NoUpdate} \cup Updates -> Snapshots]
  /\ archive \in [Album -> Snapshots]
  /\ extraction \in [Documents -> Outcomes \cup {NotExtracted}]
  /\ material \in MaterialRows
  /\ seen \in [Senders -> MaterialRows]
  /\ overwritten \in BOOLEAN
  /\ copies \in [Album -> Nat]
  /\ jobs \in [JobKeys -> {"absent", "open", "ended", "failed"}]
  /\ assessor.action.route = "auto_copy" => assessor.action.ids # {}
  /\ extractor.phase \in {"idle", "loaded", "persisted"}

CopiesOf(m) == {ids \in Sets : m \in ids /\
                  outbox[CopyKey(ids)].status \in {"pending", "sending", "sent"}}

\* A message that arrives while the copy of its album is under way is copied by a row of its
\* own, and no message is in two rows that are, or may yet be, carried out, although an
\* assessment reads the outbox in one transaction and writes it in another (assess,
\* _scheduled_source_ids).
OneLiveCopy == \A m \in Album : Cardinality(CopiesOf(m)) <= 1

\* No message of the album is copied to the topic more often than once and once for every
\* failure, although the record of its copies, which the sender looks at to skip what is done,
\* may be overwritten by an assessment that had read the row before
\* (_scheduled_source_ids, ApplicationTelegramSender.send).
CopiedOncePerFailure == \A m \in Album : copies[m] <= 1 + troubles

Quiet ==
  /\ \A u \in 1..published : inbox[u].status = "processed"
  /\ assessor = Free /\ extractor = Waiting
  /\ \A j \in JobKeys : jobs[j] \in {"absent", "ended"}
  /\ \A k \in Keys : outbox[k].status \in {"absent", "sent"}
  /\ \A w \in Senders : sender[w] = Idle

\* Once everything has come to an end, in whatever order edits, extraction, assessments and
\* copies went and wherever the process died, the album has what its last captions and its
\* texts call for: it is in the topic whole, or its review has been sent unless a part of it
\* had been copied before; and the row of materials says so, if no writer has overwritten what
\* it had not read.  Reviews that had to be changed and rows that had failed are left aside
\* (assess, extract, ApplicationTelegramSender.send).
MaterialIsCurrent ==
  Quiet /\ ~collided =>
    LET score == Score(Archived) IN
    /\ RouteOf(score) = "auto_copy" => Archived \subseteq Scheduled
    /\ RouteOf(score) = "admin_review" =>
         Scheduled # {} \/ outbox[ReviewKey(Archived)].op = score
    /\ ~overwritten =>
         /\ material.evidence = [EvidenceNow EXCEPT !.copied = Scheduled]
         /\ RouteOf(score) = "auto_copy" => material.state = "completed"

\* An edit that is processed before an earlier snapshot is not undone by it ("an old retry
\* arrives after an edit", live.py:155): with every update processed, in whatever order, the
\* archive holds the latest snapshot.
ArchiveIsNewest ==
  (\A u \in 1..published : inbox[u].status = "processed") =>
    \A m \in Album : SnapshotsOf(m) # {} => archive[m] = content[Max(SnapshotsOf(m))]

====
