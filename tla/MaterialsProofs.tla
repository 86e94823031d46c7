---- MODULE MaterialsProofs ----
(***************************************************************************)
(* Proofs about Materials for any album, any extraction, any number of     *)
(* updates, senders and attempts, and any failures and restarts.  What     *)
(* OutboxProofs and PumpProofs know of a step of the outbox and of the     *)
(* pump carries over; on top of it stand the archive, the jobs and their   *)
(* handlers, the row of materials with its two writers, and the copies.    *)
(***************************************************************************)
EXTENDS Materials, OutboxProofs, PumpProofs

Routes == {"auto_copy", "admin_review", "leave"}

Worlds == [social : BOOLEAN, text : [Documents -> Readings]]

Actions == [route : Routes, ids : SUBSET Album, score : 0..100]

Assessments == [job : {NoJob} \cup AssessKeys \cup ReassessKeys, phase : {"idle", "read", "stored"},
                seen : MaterialRows, evidence : Evidences, action : Actions]

JobStates == {"absent", "open", "ended", "failed"}

\* Every update is of a message of the album, and Telegram has handed over what it has.
ContentsOK ==
  /\ forgotten = published /\ poller.batch = {}
  /\ content \in [{NoUpdate} \cup Updates -> Snapshots]
  /\ \A u \in 1..published : content[u].message \in Album
  /\ world \in Worlds

\* What is assessed goes on from the row that was read, what is decided upon is about some
\* message, and a review has a score that calls for one; what is extracted is a document.
HandlersOK ==
  /\ assessor \in Assessments
  /\ assessor.evidence.ids = {} => assessor.evidence.score = 0
  /\ assessor.evidence.copied = assessor.seen.evidence.copied
  /\ assessor.action.route # "leave" => assessor.action.ids # {}
  /\ assessor.action.route = "admin_review" => assessor.action.score \in 70..94
  /\ extractor = [job |-> extractor.job, phase |-> extractor.phase]
  /\ extractor.phase \in {"idle", "loaded", "persisted"}
  /\ extractor.phase # "idle" => \E m \in Documents : extractor.job = ExtractKey(m)
  /\ extractor.phase = "persisted" => extraction[Candidate] \in Outcomes

\* The row of the album, and what each of its writers has read of it.
RowsTyped ==
  /\ material \in MaterialRows
  /\ seen \in [Senders -> MaterialRows]
  /\ overwritten \in BOOLEAN

----------------------------------------------------------------------------
(***************************************************************************)
(* What an assessment reads and decides                                    *)
(***************************************************************************)
\* Of two numbers.
LEMMA MaxOfTwo ==
  ASSUME NEW a \in Int, NEW b \in Int
  PROVE  Max({a, b}) \in {a, b} /\ Max({a, b}) >= a /\ Max({a, b}) >= b
<1>1. \E x \in {a, b} : \A y \in {a, b} : x >= y
  OBVIOUS
<1> QED BY <1>1 DEF Max

LEMMA MinOfTwo ==
  ASSUME NEW a \in Int, NEW b \in Int
  PROVE  Min({a, b}) \in {a, b} /\ Min({a, b}) <= a /\ Min({a, b}) <= b
<1>1. \E x \in {a, b} : \A y \in {a, b} : x <= y
  OBVIOUS
<1> QED BY <1>1 DEF Min

\* A score is a number of hundredths, and no evidence scores nothing.
LEMMA ScoreBounded ==
  ASSUME NEW ids
  PROVE  Score(ids) \in 0..100 /\ (ids = {} => Score(ids) = 0)
<1> DEFINE photo == ids \ Documents # {}
           strong == \E m \in ids : archive[m].caption = "academic"
                                     \/ (Extracted(m) /\ extraction[m] = "academic")
           score == Weight(ids \cap Documents # {}, 25) + Weight(photo, 3)
                      + Weight(strong, 72) + Weight(strong /\ photo, 22)
                      + Weight(\E m \in ids : Extracted(m), 5)
                      - Weight(world.social, 20)
<1>1. Score(ids) = Max({0, Min({100, score})})
  BY DEF Score
<1>2. \A c : \A n \in Nat : Weight(c, n) \in {0, n}
  BY DEF Weight
<1>3. score \in Int
  BY <1>2 DEF Weight
<1>4. ids = {} => score <= 0
  BY DEF Weight
<1> HIDE DEF score
<1>5. Min({100, score}) \in Int /\ Min({100, score}) <= 100 /\ Min({100, score}) <= score
  BY <1>3, MinOfTwo
<1>6. Max({0, Min({100, score})}) \in {0, Min({100, score})} /\ Max({0, Min({100, score})}) >= 0
  BY <1>5, MaxOfTwo
<1> QED BY <1>1, <1>3, <1>4, <1>5, <1>6

LEMMA RouteIsKnown ==
  ASSUME NEW score
  PROVE  /\ RouteOf(score) \in Routes
         /\ RouteOf(score) # "leave" => score >= 70 \/ score >= 95
<1> QED BY DEF RouteOf, Routes

LEMMA ArchivedInAlbum == Archived \in SUBSET Album
<1> QED BY DEF Archived

LEMMA NothingTyped ==
  /\ NoEvidence \in Evidences /\ NoEvidence.ids = {} /\ NoEvidence.score = 0 /\ NoEvidence.copied = {}
  /\ NoMaterial \in MaterialRows /\ NoMaterial.evidence = NoEvidence
  /\ NoMaterial.destination = NoMessage
  /\ Free \in Assessments /\ Free.job = NoJob /\ Free.phase = "idle" /\ Free.seen = NoMaterial
  /\ Free.evidence = NoEvidence /\ Free.action = NoAction /\ NoAction.route = "leave"
<1>1. NoEvidence \in Evidences /\ NoEvidence.ids = {} /\ NoEvidence.score = 0 /\ NoEvidence.copied = {}
  BY DEF NoEvidence, Evidences
<1>2. /\ NoMaterial \in MaterialRows /\ NoMaterial.evidence = NoEvidence
      /\ NoMaterial.destination = NoMessage
  BY <1>1 DEF NoMaterial, MaterialRows
<1>3. NoAction \in Actions /\ NoAction.route = "leave"
  BY DEF NoAction, Actions, Routes
<1>4. Free \in Assessments
  BY <1>1, <1>2, <1>3 DEF Free, Assessments
<1> QED BY <1>1, <1>2, <1>3, <1>4 DEF Free

\* What there is to say of the album.
LEMMA EvidenceIsTyped ==
  ASSUME material \in MaterialRows
  PROVE  /\ EvidenceNow \in Evidences
         /\ EvidenceNow.ids = Archived /\ EvidenceNow.score = Score(Archived)
         /\ EvidenceNow.extracted = {m \in Archived \cap Documents : extraction[m] # NotExtracted}
         /\ EvidenceNow.copied = material.evidence.copied
<1>1. Score(Archived) \in 0..100 /\ Archived \in SUBSET Album
  BY ArchivedInAlbum, ScoreBounded
<1>2. material.evidence.copied \in SUBSET Album
  BY DEF MaterialRows, Evidences
<1>3. {m \in Archived \cap Documents : extraction[m] # NotExtracted} \in SUBSET Documents
  OBVIOUS
<1> QED BY <1>1, <1>2, <1>3 DEF EvidenceNow, Evidences

\* An assessment takes over the row, and what there is to say of the album.
LEMMA ReadTakes ==
  ASSUME RowsTyped, NEW j \in AssessKeys \cup ReassessKeys, Read(j)
  PROVE  /\ assessor' \in Assessments /\ assessor'.job = j /\ assessor'.phase = "read"
         /\ assessor'.seen = material /\ assessor'.evidence = EvidenceNow /\ assessor'.action = NoAction
         /\ assessor = Free /\ extractor = Waiting /\ jobs[j] = "open"
         /\ UNCHANGED <<pumpVars, outboxVars, inputVars, archiveVars, rowVars, jobs, extractor, collided>>
<1>1. /\ UNCHANGED <<pumpVars, outboxVars, inputVars, archiveVars, rowVars, jobs, extractor, collided>>
      /\ assessor = Free /\ extractor = Waiting /\ jobs[j] = "open"
      /\ assessor' = [Free EXCEPT !.job = j, !.phase = "read", !.seen = material, !.evidence = EvidenceNow]
  BY DEF Read, AssessorStays, rowVars, WorkerFree
<1>2. assessor' = [job |-> j, phase |-> "read", seen |-> material, evidence |-> EvidenceNow,
                   action |-> NoAction]
  BY <1>1 DEF Free
<1>3. EvidenceNow \in Evidences /\ material \in MaterialRows
  BY EvidenceIsTyped DEF RowsTyped
<1>4. NoAction \in Actions
  BY NothingTyped DEF Assessments
<1>5. assessor' \in Assessments
  BY <1>2, <1>3, <1>4 DEF Assessments
<1>6. /\ assessor'.job = j /\ assessor'.phase = "read" /\ assessor'.seen = material
      /\ assessor'.evidence = EvidenceNow /\ assessor'.action = NoAction
  BY <1>2
<1> QED BY <1>1, <1>5, <1>6

\* What is acted upon is about some of the messages that were assessed.
LEMMA ActionIsTyped ==
  ASSUME HandlersOK
  PROVE  /\ [route |-> ActionRoute, ids |-> ActionIds, score |-> assessor.evidence.score] \in Actions
         /\ RouteNow \in Routes /\ ActionIds \subseteq assessor.evidence.ids
         /\ ActionRoute # "leave" => ActionRoute = RouteNow /\ ActionIds # {}
         /\ ActionRoute = "auto_copy" => ActionIds = assessor.evidence.ids \ Scheduled
         /\ ActionRoute = "admin_review" => assessor.evidence.score \in 70..94
                                            /\ ActionIds = assessor.evidence.ids
<1>1. assessor.evidence.ids \in SUBSET Album /\ assessor.evidence.score \in 0..100
  BY DEF HandlersOK, Assessments, Evidences
<1>2. ActionIds \in SUBSET Album /\ ActionIds \subseteq assessor.evidence.ids
  BY <1>1 DEF ActionIds
<1>3. RouteNow \in Routes /\ ActionRoute \in {RouteNow, "leave"} /\ ActionRoute \in Routes
  BY RouteIsKnown DEF RouteNow, ActionRoute, Routes
<1>4. ActionRoute = "auto_copy" => ActionIds = assessor.evidence.ids \ Scheduled /\ ActionIds # {}
  BY DEF ActionRoute, ActionIds
<1>5. ASSUME ActionRoute = "admin_review"
      PROVE  assessor.evidence.score \in 70..94 /\ ActionIds = assessor.evidence.ids /\ ActionIds # {}
  <2>1. RouteNow = "admin_review"
    BY <1>3, <1>5
  <2>2. assessor.evidence.score \in 70..94
    BY <1>1, <2>1 DEF RouteNow, RouteOf
  <2>3. ActionIds = assessor.evidence.ids
    BY <2>1 DEF ActionIds
  <2> QED BY <2>2, <2>3 DEF HandlersOK
<1> QED BY <1>1, <1>2, <1>3, <1>4, <1>5 DEF Actions, Routes

\* An assessment writes what it has made of the row, which is what it should be unless the
\* row has changed.
LEMMA StoreTakes ==
  ASSUME RowsTyped, HandlersOK, Store
  PROVE  /\ assessor' \in Assessments /\ assessor'.job = assessor.job /\ assessor'.phase = "stored"
         /\ assessor'.seen = NoMaterial /\ assessor'.evidence = NoEvidence
         /\ assessor'.action = [route |-> ActionRoute, ids |-> ActionIds, score |-> assessor.evidence.score]
         /\ assessor.phase = "read"
         /\ material' \in MaterialRows /\ material'.destination = material.destination
         /\ material'.evidence \in {material.evidence, assessor.evidence}
         /\ overwritten' \in BOOLEAN
         /\ overwritten \/ material # assessor.seen => overwritten'
         /\ ~overwritten' => /\ ~overwritten /\ material = assessor.seen
                             /\ material'.evidence = assessor.evidence /\ material'.state = StateAfter
         /\ UNCHANGED <<pumpVars, outboxVars, inputVars, archiveVars, seen, copies, jobs, extractor, collided>>
<1> DEFINE action == [route |-> ActionRoute, ids |-> ActionIds, score |-> assessor.evidence.score]
           evidence == Write(material.evidence, assessor.seen.evidence, assessor.evidence)
           state == IF assessor.seen.state = Workflow THEN Write(material.state, Workflow, StateAfter)
                                                      ELSE StateAfter
           one == [material EXCEPT !.evidence = evidence]
<1>1. /\ UNCHANGED <<pumpVars, outboxVars, inputVars, archiveVars, seen, copies, jobs, extractor, collided>>
      /\ assessor.phase = "read" /\ overwritten' = (overwritten \/ material # assessor.seen)
      /\ material' = [one EXCEPT !.state = state]
  BY DEF Store, AssessorStays, Missed
<1>2. assessor' = [Free EXCEPT !.job = assessor.job, !.phase = "stored", !.action = action]
  BY DEF Store
<1>3. action \in Actions
  BY ActionIsTyped
<1> HIDE DEF action
<1>4. assessor' = [job |-> assessor.job, phase |-> "stored", seen |-> NoMaterial, evidence |-> NoEvidence,
                   action |-> action]
  BY <1>2 DEF Free
<1>5. assessor' \in Assessments
  <2>1. assessor.job \in {NoJob} \cup AssessKeys \cup ReassessKeys
    BY DEF HandlersOK, Assessments
  <2> QED BY <1>3, <1>4, <2>1, NothingTyped DEF Assessments
<1>6. evidence \in Evidences /\ evidence \in {material.evidence, assessor.evidence}
  <2>1. material.evidence \in Evidences /\ assessor.evidence \in Evidences
    BY DEF RowsTyped, MaterialRows, HandlersOK, Assessments
  <2> QED BY <2>1 DEF Write
<1>7. state \in {"none", "copy_pending", "review", "completed"}
  <2>1. StateAfter \in {"copy_pending", "review", "completed"}
    BY DEF StateAfter, Workflow
  <2>2. material.state \in {"none", "copy_pending", "review", "completed"}
    BY DEF RowsTyped, MaterialRows
  <2> QED BY <2>1, <2>2 DEF Write
<1>8. material = assessor.seen => evidence = assessor.evidence /\ state = StateAfter
  BY DEF Write
<1> HIDE DEF evidence, state
<1>9. one \in MaterialRows /\ one.evidence = evidence /\ one.destination = material.destination
  BY <1>6 DEF RowsTyped, MaterialRows
<1> HIDE DEF one
<1>10. material' \in MaterialRows /\ material'.evidence = evidence /\ material'.state = state
       /\ material'.destination = material.destination
  BY <1>1, <1>7, <1>9 DEF MaterialRows
<1>11. overwritten \in BOOLEAN
  BY DEF RowsTyped
<1> QED BY <1>1, <1>4, <1>5, <1>6, <1>8, <1>10, <1>11 DEF action

\* An update that arrives comes behind all others, and is in the inbox at once.
LEMMA ArriveKeeps ==
  ASSUME IntakeInv, ContentsOK, NEW snapshot \in Snapshots, snapshot.message \in Album, Arrive(snapshot)
  PROVE  /\ IntakeInv' /\ ContentsOK'
         /\ published' = published + 1 /\ published \in Nat /\ published' \in Updates
         /\ content'[published'] = snapshot
         /\ \A u \in {NoUpdate} \cup Updates : u # published' => content'[u] = content[u]
         /\ \A u \in Updates : u # published' => inbox'[u] = inbox[u]
         /\ inbox'[published'].status = "open" /\ worker' = worker /\ troubles' = troubles
<1> USE PumpAssumption DEF IntakeInv, IntakeTypeOK
<1> DEFINE row == [status |-> "open", attempts |-> 0, due |-> TRUE]
<1>1. /\ published' = published + 1 /\ published \in Nat /\ published' \in Updates /\ published < LastUpdate
      /\ forgotten' = published' /\ poller' = [poller EXCEPT !.offset = published' + 1]
      /\ inbox' = [inbox EXCEPT ![published'] = row]
      /\ content' = [content EXCEPT ![published'] = snapshot]
      /\ UNCHANGED <<worker, troubles, world>>
  BY DEF Arrive, Updates
<1>2. row \in InboxRows /\ row.status = "open" /\ row.attempts = 0
  BY DEF InboxRows
<1> HIDE DEF row
<1>3. /\ inbox' \in [Updates -> InboxRows] /\ inbox'[published'] = row
      /\ \A u \in Updates : u # published' => inbox'[u] = inbox[u]
  BY <1>1, <1>2
<1>4. /\ content' \in [{NoUpdate} \cup Updates -> Snapshots]
      /\ content'[published'] = snapshot
      /\ \A u \in {NoUpdate} \cup Updates : u # published' => content'[u] = content[u]
  BY <1>1 DEF ContentsOK
<1>5. poller'.offset = published' + 1 /\ poller'.batch = {}
      /\ poller' \in [offset : 0..LastUpdate + 1, batch : SUBSET Updates]
  <2>1. published' + 1 \in 0..LastUpdate + 1
    BY <1>1
  <2>2. poller' \in [offset : 0..LastUpdate + 1, batch : SUBSET Updates] /\ poller'.offset = published' + 1
    BY <1>1, <2>1
  <2>3. poller'.batch = poller.batch
    BY <1>1
  <2> QED BY <2>2, <2>3 DEF ContentsOK
<1>6. \A u \in 1..published' : u \in Updates /\ (u = published' \/ u \in 1..published)
  BY <1>1 DEF Updates
<1>7. \A u \in 1..published' : inbox'[u].status # "absent"
  BY <1>1, <1>2, <1>3, <1>6 DEF NothingForgotten, ContentsOK
<1>8. \A u \in Updates : OnRecord(u)' <=> u <= published'
  <2>1. \A u \in Updates : OnRecord(u)' => u <= published'
    BY <1>1, <1>3 DEF NoGaps, OnRecord, Updates
  <2>2. \A u \in Updates : u <= published' => OnRecord(u)'
    BY <1>7 DEF OnRecord, Updates
  <2> QED BY <2>1, <2>2
<1>9. NoGaps'
  BY <1>1, <1>5, <1>8 DEF NoGaps, Updates
<1>10. NothingForgotten'
  BY <1>1, <1>7 DEF NothingForgotten
<1>11. WorkerHolds' /\ AttemptsLeft'
  <2>1. worker' = worker /\ ~OnRecord(published')
    BY <1>1 DEF NoGaps
  <2>2. inbox[published'].status # "open"
    BY <2>1 DEF OnRecord
  <2>3. \A u \in worker.list : u # published' /\ u \in Updates
    BY <2>2 DEF WorkerHolds, WorkerStates
  <2>4. worker.phase # "idle" => worker.at # published' /\ worker.at \in Updates
    BY <2>2, InHand DEF WorkerHolds
  <2>5. WorkerHolds'
    BY <2>1, <2>3, <2>4, <1>3 DEF WorkerHolds
  <2>6. AttemptsLeft'
    BY <1>2, <1>3 DEF AttemptsLeft
  <2> QED BY <2>5, <2>6
<1>12. IntakeTypeOK'
  BY <1>1, <1>3, <1>5
<1>13. ContentsOK'
  <2>1. \A u \in 1..published' : content'[u].message \in Album
    BY <1>1, <1>4, <1>6 DEF ContentsOK
  <2> QED BY <1>1, <1>4, <1>5, <2>1 DEF ContentsOK
<1> QED BY <1>1, <1>2, <1>3, <1>4, <1>9, <1>10, <1>11, <1>12, <1>13

\* What is posted and edited are snapshots of messages of the album.
LEMMA ArrivalIsSnapshot ==
  ASSUME IntakeInv, ContentsOK, NEW m \in Album, Post(m) \/ Edit(m)
  PROVE  \E snapshot \in Snapshots :
           /\ snapshot.message = m /\ Arrive(snapshot)
           /\ \/ Post(m) /\ SnapshotsOf(m) = {} /\ ~snapshot.edited /\ snapshot.at = 0
              \/ Edit(m) /\ SnapshotsOf(m) # {} /\ snapshot.edited
                         /\ snapshot.at > content[Max(SnapshotsOf(m))].at
<1>1. ASSUME Post(m), NEW caption \in Texts,
             Arrive([message |-> m, edited |-> FALSE, at |-> 0, caption |-> caption])
      PROVE  [message |-> m, edited |-> FALSE, at |-> 0, caption |-> caption] \in Snapshots
  BY DEF Snapshots, Seconds
<1>2. ASSUME Edit(m), NEW caption \in Texts, NEW at \in EditSeconds
      PROVE  [message |-> m, edited |-> TRUE, at |-> at, caption |-> caption] \in Snapshots
  BY DEF Snapshots, Seconds
<1>3. CASE Post(m)
  <2>1. PICK caption \in Texts : Arrive([message |-> m, edited |-> FALSE, at |-> 0, caption |-> caption])
    BY <1>3 DEF Post
  <2>2. SnapshotsOf(m) = {}
    BY <1>3 DEF Post
  <2> QED BY <1>1, <1>3, <2>1, <2>2
<1>4. CASE Edit(m)
  <2>1. PICK caption \in Texts, at \in EditSeconds :
          /\ at > content[Max(SnapshotsOf(m))].at
          /\ Arrive([message |-> m, edited |-> TRUE, at |-> at, caption |-> caption])
    BY <1>4 DEF Edit
  <2>2. SnapshotsOf(m) # {}
    BY <1>4 DEF Edit
  <2> QED BY <1>2, <1>4, <2>1, <2>2
<1> QED BY <1>3, <1>4

LEMMA HandlerPhases == {"read", "stored", "handled"} \subseteq Phases \ {"idle"}
<1> QED BY PhaseAssumption, PumpAssumption DEF Phases

\* Of the pump, a step of the process is an arrival, a step of the pump or of a handler, or none.
LEMMA StepsOfPump ==
  ASSUME [Next]_vars
  PROVE  \/ (\E m \in Album : Post(m) \/ Edit(m))
         \/ /\ \/ Begin \/ RecordProcessed \/ (\E u \in Updates : WaitOver(u))
               \/ RecordFailure /\ Suffer
               \/ Restart
            /\ UNCHANGED <<content, world, archive>>
         \/ Ingest \/ AdmitJobs
         \/ /\ UNCHANGED <<published, forgotten, poller, inbox, worker, content, world, archive>>
            /\ troubles' = troubles \/ Suffer
<1> USE DEF pumpVars, inputVars, archiveVars
<1>1. CASE (\E m \in Album : Post(m)) \/ (\E m \in Captioned : Edit(m))
  BY <1>1, AlbumAssumption
<1>2. CASE Pump \/ HandlerRaises \/ Crash
  BY <1>2 DEF Pump, HandlerRaises, Crash
<1>3. CASE (\E m \in Documents : LoadCandidate(m)) \/ Persist \/ EnqueueReassessment \/ ExtractionRaises
  BY <1>3 DEF LoadCandidate, Persist, EnqueueReassessment, ExtractionRaises, ExtractorStays
<1>4. CASE (\E j \in AssessKeys \cup ReassessKeys : Read(j)) \/ Store \/ Act \/ ActConflicts
  BY <1>4 DEF Read, Store, Act, ActConflicts, AssessorStays
<1>5. CASE \E w \in Senders :
             \/ PollRows(w) \/ SkipRow(w) \/ Send(w) \/ SendUnanswered(w) \/ SendRefused(w)
             \/ ReadBack(w) \/ Record(w) \/ EndRow(w)
  BY <1>5 DEF PollRows, PollQueue, SkipRow, Send, SendUnanswered, SendRefused, ReadBack, Record, EndRow,
              SenderStays, Unlucky
<1>6. CASE \E k \in Keys : Due(k)
  BY <1>6 DEF Due, SenderStays
<1>7. CASE UNCHANGED vars
  BY <1>7 DEF vars
<1> QED BY <1>1, <1>2, <1>3, <1>4, <1>5, <1>6, <1>7 DEF Next

LEMMA IntakeKeeps ==
  ASSUME IntakeInv, ContentsOK, troubles \in 0..MaxTroubles, [Next]_vars
  PROVE  IntakeInv' /\ ContentsOK' /\ troubles' \in 0..MaxTroubles
<1>0. Suffer => troubles' \in 0..MaxTroubles
  BY PumpAssumption DEF Suffer
<1>1. ASSUME NEW m \in Album, Post(m) \/ Edit(m)
      PROVE  IntakeInv' /\ ContentsOK' /\ troubles' \in 0..MaxTroubles
  BY <1>1, ArrivalIsSnapshot, ArriveKeeps
<1>2. CASE /\ \/ Begin \/ RecordProcessed \/ (\E u \in Updates : WaitOver(u))
              \/ RecordFailure /\ Suffer
              \/ Restart
           /\ UNCHANGED <<content, world, archive>>
  <2>1. IntakeInv'
    BY <1>2, BeginKeeps, ProcessedKeeps, WaitKeeps, FailureKeeps, RestartKeeps
  <2>2. UNCHANGED <<published, forgotten>> /\ poller'.batch = {}
    BY <1>2 DEF Begin, RecordProcessed, WaitOver, RecordFailure, Restart, ContentsOK
  <2>3. troubles' \in 0..MaxTroubles
    BY <1>0, <1>2 DEF Begin, RecordProcessed, WaitOver, Restart
  <2> QED BY <1>2, <2>1, <2>2, <2>3 DEF ContentsOK
<1>3. CASE Ingest \/ AdmitJobs
  <2>1. Handle("read", "stored") \/ Handle("stored", "handled")
    BY <1>3 DEF Ingest, AdmitJobs
  <2>2. IntakeInv' /\ UNCHANGED <<published, forgotten, poller>>
    BY <2>1, HandlerPhases, HandleKeeps
  <2>3. UNCHANGED <<content, world, troubles>>
    BY <1>3 DEF Ingest, AdmitJobs, Handle, inputVars
  <2> QED BY <2>2, <2>3 DEF ContentsOK
<1>4. CASE /\ UNCHANGED <<published, forgotten, poller, inbox, worker, content, world, archive>>
           /\ troubles' = troubles \/ Suffer
  BY <1>0, <1>4, PumpStands DEF ContentsOK
<1> QED BY <1>1, <1>2, <1>3, <1>4, StepsOfPump

----------------------------------------------------------------------------
(***************************************************************************)
(* The archive                                                             *)
(***************************************************************************)
\* What the handler of an update does to the archive has been done.
Applied(u) ==
  inbox[u].status = "processed" \/ (worker.at = u /\ worker.phase \in {"stored", "handled"})

\* The snapshots of a message are dated in the order in which they come, and only the first is
\* not an edit.
Ordered ==
  /\ \A u \in 1..published : content[u].edited <=> content[u].at # 0
  /\ \A u, v \in 1..published :
       u < v /\ content[u].message = content[v].message => content[u].at < content[v].at

OnFile == \A m \in Album : archive[m] = NoSnapshot \/ \E v \in SnapshotsOf(m) : archive[m] = content[v]

\* No snapshot that has been applied is later than the one on file.
Latest(u) ==
  /\ archive[content[u].message] # NoSnapshot
  /\ content[u].at <= archive[content[u].message].at

ArchiveInv ==
  /\ archive \in [Album -> Snapshots]
  /\ Ordered /\ OnFile
  /\ \A u \in 1..published : Applied(u) => Latest(u)

LEMMA SnapshotTyped ==
  ASSUME NEW snapshot \in Snapshots
  PROVE  snapshot.at \in Nat /\ snapshot.edited \in BOOLEAN
<1>1. Seconds \subseteq Nat
  BY AlbumAssumption DEF Seconds
<1>2. snapshot.at \in Seconds /\ snapshot.edited \in BOOLEAN
  BY DEF Snapshots
<1> QED BY <1>1, <1>2

\* The updates that are published are updates, and have the content of a snapshot.
LEMMA PublishedTyped ==
  ASSUME IntakeInv, ContentsOK
  PROVE  /\ published \in Nat /\ 1..published \subseteq Updates
         /\ \A u \in 1..published : content[u] \in Snapshots /\ content[u].message \in Album
                                    /\ content[u].at \in Nat /\ content[u].edited \in BOOLEAN
                                    /\ content[u] # NoSnapshot
<1>1. published \in Nat /\ 1..published \subseteq Updates
  BY PumpAssumption DEF IntakeInv, IntakeTypeOK, Updates
<1>2. \A u \in 1..published : content[u] \in Snapshots /\ content[u].message \in Album
  BY <1>1 DEF ContentsOK
<1>3. \A s \in Snapshots : s.at \in Nat /\ s.edited \in BOOLEAN
  BY SnapshotTyped
<1>4. NoSnapshot.message = 0 /\ 0 \notin Album
  BY AlbumAssumption DEF NoSnapshot
<1>5. \A u \in 1..published : content[u] # NoSnapshot
  BY <1>2, <1>4
<1> QED BY <1>1, <1>2, <1>3, <1>5

\* A new snapshot is later than those of its message, and has not been applied.
LEMMA ArchiveArrival ==
  ASSUME IntakeInv, ContentsOK, ArchiveInv, NEW m \in Album, Post(m) \/ Edit(m)
  PROVE  ArchiveInv'
<1>1. PICK snapshot \in Snapshots :
        /\ snapshot.message = m /\ Arrive(snapshot)
        /\ \/ Post(m) /\ SnapshotsOf(m) = {} /\ ~snapshot.edited /\ snapshot.at = 0
           \/ Edit(m) /\ SnapshotsOf(m) # {} /\ snapshot.edited
                      /\ snapshot.at > content[Max(SnapshotsOf(m))].at
  BY ArrivalIsSnapshot
<1>2. /\ published' = published + 1 /\ published \in Nat /\ published' \in Updates
      /\ content'[published'] = snapshot
      /\ \A u \in {NoUpdate} \cup Updates : u # published' => content'[u] = content[u]
      /\ \A u \in Updates : u # published' => inbox'[u] = inbox[u]
      /\ inbox'[published'].status = "open" /\ worker' = worker
  BY <1>1, ArriveKeeps
<1>3. archive' = archive
  BY <1>1 DEF Arrive, archiveVars
<1>4. \A u \in 1..published' : u = published' \/ u \in 1..published
  BY <1>2
<1>5. \A u \in 1..published : u # published' /\ u \in Updates /\ u \in 1..published'
        /\ content'[u] = content[u] /\ inbox'[u] = inbox[u]
  BY <1>2, PublishedTyped
<1>6. snapshot.at \in Nat /\ (snapshot.edited <=> snapshot.at # 0)
      /\ \A u \in SnapshotsOf(m) : content[u].at < snapshot.at
  <2>1. snapshot.at \in Nat /\ snapshot.edited \in BOOLEAN
    BY SnapshotTyped
  <2>2. CASE SnapshotsOf(m) = {}
    BY <1>1, <2>1, <2>2
  <2>3. CASE SnapshotsOf(m) # {}
    <3>1. SnapshotsOf(m) \in SUBSET Updates /\ SnapshotsOf(m) \subseteq 1..published
          /\ \A u \in SnapshotsOf(m) : content[u].message = m
      BY PublishedTyped DEF SnapshotsOf
    <3>2. Max(SnapshotsOf(m)) \in SnapshotsOf(m) /\ \A u \in SnapshotsOf(m) : u <= Max(SnapshotsOf(m))
      BY <2>3, <3>1, GreatestUpdate
    <3>3. PICK last \in SnapshotsOf(m) : last = Max(SnapshotsOf(m))
      BY <3>2
    <3>4. snapshot.edited /\ content[last].at < snapshot.at /\ content[last].at \in Nat
      BY <1>1, <2>1, <2>3, <3>1, <3>3, PublishedTyped
    <3>5. \A u \in SnapshotsOf(m) : u = last \/ (u < last /\ content[u].at < content[last].at)
      <4>1. \A u \in SnapshotsOf(m) : u \in Nat /\ u <= last /\ last \in Nat
        BY <3>1, <3>2, <3>3
      <4> QED BY <3>1, <3>3, <4>1 DEF ArchiveInv, Ordered
    <3>6. \A u \in SnapshotsOf(m) : content[u].at \in Nat
      BY <3>1, PublishedTyped
    <3> QED BY <2>1, <3>4, <3>5, <3>6
  <2> QED BY <2>2, <2>3
<1>7. Ordered'
  <2>1. \A u \in 1..published' : content'[u].edited <=> content'[u].at # 0
    BY <1>2, <1>4, <1>5, <1>6 DEF ArchiveInv, Ordered
  <2>2. ASSUME NEW u \in 1..published', NEW v \in 1..published', u < v,
               content'[u].message = content'[v].message
        PROVE  content'[u].at < content'[v].at
    <3>1. u \in 1..published
      BY <1>2, <1>4, <2>2
    <3>2. CASE v \in 1..published
      BY <1>5, <2>2, <3>1, <3>2 DEF ArchiveInv, Ordered
    <3>3. CASE v = published'
      BY <1>1, <1>2, <1>5, <1>6, <2>2, <3>1, <3>3 DEF SnapshotsOf
    <3> QED BY <1>4, <3>2, <3>3
  <2> QED BY <2>1, <2>2 DEF Ordered
<1>8. OnFile'
  BY <1>3, <1>5 DEF ArchiveInv, OnFile, SnapshotsOf
<1>9. ASSUME NEW u \in 1..published', Applied(u)' PROVE Latest(u)'
  <2>1. CASE u = published'
    <3>1. worker.at = published' /\ worker.phase # "idle"
      BY <1>2, <1>9, <2>1 DEF Applied
    <3>2. published' \in 1..published
      BY <3>1, InHand
    <3> QED BY <1>2, <3>2
  <2>2. CASE u \in 1..published
    <3>1. Applied(u) /\ content'[u] = content[u]
      BY <1>2, <1>5, <1>9, <2>2 DEF Applied
    <3> QED BY <1>3, <2>2, <3>1 DEF ArchiveInv, Latest
  <2> QED BY <1>4, <2>1, <2>2
<1> QED BY <1>3, <1>7, <1>8, <1>9 DEF ArchiveInv

\* A step that applies no update and leaves the snapshots alone.
LEMMA ArchiveStands ==
  ASSUME ArchiveInv, UNCHANGED <<published, content, archive>>,
         \A u \in 1..published : Applied(u)' => Applied(u)
  PROVE  ArchiveInv'
<1> QED BY DEF ArchiveInv, Ordered, OnFile, SnapshotsOf, Latest

LEMMA PumpApplies ==
  ASSUME IntakeInv,
         \/ Begin \/ RecordProcessed \/ RecordFailure \/ Restart
         \/ (\E u \in Updates : WaitOver(u))
  PROVE  published' = published /\ \A u \in Updates : Applied(u)' => Applied(u)
<1>1. CASE Begin
  BY <1>1 DEF Begin, Applied
<1>2. CASE RecordProcessed
  <2>1. /\ worker.phase = "handled" /\ worker'.phase = "idle" /\ published' = published
        /\ \A u \in Updates : u # worker.at => inbox'[u] = inbox[u]
    BY <1>2, ProcessedKeeps DEF RecordProcessed, LetGo, IntakeInv, IntakeTypeOK, WorkerStates
  <2> QED BY <2>1 DEF Applied
<1>3. CASE RecordFailure
  <2>1. /\ worker'.phase = "idle" /\ published' = published
        /\ \A u \in Updates : u # worker.at => inbox'[u] = inbox[u]
        /\ inbox'[worker.at].status \in {"open", "failed"}
    BY <1>3, FailureKeeps DEF RecordFailure, LetGo, IntakeInv, IntakeTypeOK, WorkerStates
  <2> QED BY <2>1 DEF Applied
<1>4. CASE Restart
  BY <1>4 DEF Restart, Resting, Applied
<1>5. ASSUME NEW u \in Updates, WaitOver(u) PROVE published' = published /\ \A v \in Updates : Applied(v)' => Applied(v)
  <2>1. worker' = worker /\ published' = published
    BY <1>5 DEF WaitOver
  <2> QED BY <1>5, <2>1, WaitKeeps DEF Applied
<1> QED BY <1>1, <1>2, <1>3, <1>4, <1>5

\* The archive takes a snapshot unless it has a later one.
LEMMA IngestKeeps ==
  ASSUME IntakeInv, ContentsOK, ArchiveInv, Ingest
  PROVE  ArchiveInv'
<1>1. /\ Handle("read", "stored") /\ worker.phase = "read" /\ worker'.phase = "stored" /\ worker'.at = worker.at
      /\ UNCHANGED <<published, inbox, content>>
  <2>1. Handle("read", "stored") /\ content' = content
    BY DEF Ingest, inputVars
  <2> QED BY <2>1, HandlerPhases, HandleKeeps
<1>2. worker.at \in 1..published
  BY <1>1, InHand
<1>3. PICK u \in 1..published : u = worker.at
  BY <1>2
<1>4. Update = content[u] /\ \A v \in 1..published : content[v].at \in Nat /\ content[v].message \in Album
        /\ content[v].edited \in BOOLEAN /\ content[v] \in Snapshots /\ content[v] # NoSnapshot
  BY <1>3, PublishedTyped DEF Update
<1>5. PICK m \in Album : m = content[u].message
  BY <1>4
<1> DEFINE stored == archive[m]
<1>6. stored \in Snapshots /\ stored.at \in Nat /\ stored.edited \in BOOLEAN
      /\ (stored.edited <=> stored.at # 0)
  <2>0. stored \in Snapshots
    BY DEF ArchiveInv
  <2>1. CASE stored = NoSnapshot
    BY <2>0, <2>1 DEF NoSnapshot
  <2>2. CASE stored # NoSnapshot
    <3>1. PICK v \in 1..published : stored = content[v]
      BY <2>2 DEF ArchiveInv, OnFile, SnapshotsOf
    <3> QED BY <1>4, <2>0, <3>1 DEF ArchiveInv, Ordered
  <2> QED BY <2>1, <2>2
<1>7. content[u].edited <=> content[u].at # 0
  BY DEF ArchiveInv, Ordered
<1>8. ASSUME NEW v \in 1..published, Applied(v)'
      PROVE  v = u \/ Applied(v)
  BY <1>1, <1>3, <1>8 DEF Applied
<1>9. CASE HasNewerSnapshot(stored, Update)
  <2>1. archive' = [archive EXCEPT ![m] = content[u]]
    BY <1>4, <1>5, <1>9 DEF Ingest
  <2>2. archive'[m] = content[u] /\ \A k \in Album : k # m => archive'[k] = archive[k]
    BY <2>1 DEF ArchiveInv
  <2>3. stored.at <= content[u].at
    BY <1>4, <1>6, <1>9 DEF HasNewerSnapshot
  <2>4. u \in SnapshotsOf(m)
    BY <1>5 DEF SnapshotsOf
  <2>5. OnFile'
    BY <1>1, <2>2, <2>4 DEF ArchiveInv, OnFile, SnapshotsOf
  <2>6. ASSUME NEW v \in 1..published, Applied(v)' PROVE Latest(v)'
    <3>1. PICK k \in Album : k = content[v].message
      BY <1>4
    <3>2. CASE v = u
      BY <1>1, <1>4, <1>5, <2>2, <3>2 DEF Latest
    <3>3. CASE v # u /\ k = m
      <4>1. Latest(v)
        BY <1>8, <2>6, <3>3 DEF ArchiveInv
      <4>2. content[v].at <= stored.at
        BY <4>1, <3>1, <3>3 DEF Latest
      <4>3. content[v].at <= content[u].at
        BY <1>4, <1>6, <2>3, <4>2
      <4> QED BY <1>1, <1>4, <2>2, <3>1, <3>3, <4>3 DEF Latest
    <3>4. CASE v # u /\ k # m
      <4>1. Latest(v)
        BY <1>8, <2>6, <3>4 DEF ArchiveInv
      <4> QED BY <1>1, <2>2, <3>1, <3>4, <4>1 DEF Latest
    <3> QED BY <3>2, <3>3, <3>4
  <2>7. Ordered'
    BY <1>1 DEF ArchiveInv, Ordered
  <2>8. archive' \in [Album -> Snapshots]
    BY <1>4, <2>1 DEF ArchiveInv
  <2> QED BY <1>1, <2>5, <2>6, <2>7, <2>8 DEF ArchiveInv
<1>10. CASE ~HasNewerSnapshot(stored, Update)
  <2>1. archive' = archive
    BY <1>4, <1>5, <1>10 DEF Ingest
  <2>2. stored.edited /\ content[u].at <= stored.at
    BY <1>4, <1>6, <1>7, <1>10 DEF HasNewerSnapshot
  <2>3. Latest(u)
    <3>1. stored # NoSnapshot
      BY <2>2 DEF NoSnapshot
    <3> QED BY <1>5, <2>2, <3>1 DEF Latest
  <2>4. ASSUME NEW v \in 1..published, Applied(v)' PROVE Latest(v)'
    <3>1. Latest(v)
      BY <1>8, <2>3, <2>4 DEF ArchiveInv
    <3> QED BY <1>1, <2>1, <3>1 DEF Latest
  <2> QED BY <1>1, <2>1, <2>4 DEF ArchiveInv, Ordered, OnFile, SnapshotsOf
<1> QED BY <1>4, <1>5, <1>9, <1>10

LEMMA ArchiveKeeps ==
  ASSUME IntakeInv, ContentsOK, ArchiveInv, [Next]_vars
  PROVE  ArchiveInv'
<1>1. ASSUME NEW m \in Album, Post(m) \/ Edit(m) PROVE ArchiveInv'
  BY <1>1, ArchiveArrival
<1>2. CASE /\ \/ Begin \/ RecordProcessed \/ (\E u \in Updates : WaitOver(u))
              \/ RecordFailure /\ Suffer
              \/ Restart
           /\ UNCHANGED <<content, world, archive>>
  <2>1. published' = published /\ \A u \in Updates : Applied(u)' => Applied(u)
    BY <1>2, PumpApplies
  <2>2. \A u \in 1..published : Applied(u)' => Applied(u)
    BY <2>1, PublishedTyped
  <2> QED BY <1>2, <2>1, <2>2, ArchiveStands
<1>3. CASE AdmitJobs
  <2>1. Handle("stored", "handled") /\ UNCHANGED <<content, archive>>
    BY <1>3 DEF AdmitJobs, inputVars, archiveVars
  <2>2. worker.phase = "stored" /\ worker'.at = worker.at /\ UNCHANGED <<published, inbox>>
    BY <2>1, HandlerPhases, HandleKeeps
  <2>3. \A u \in 1..published : Applied(u)' => Applied(u)
    BY <2>2 DEF Applied
  <2> QED BY <2>1, <2>2, <2>3, ArchiveStands
<1>4. CASE UNCHANGED <<published, forgotten, poller, inbox, worker, content, world, archive>>
  BY <1>4, ArchiveStands DEF Applied
<1> QED BY <1>1, <1>2, <1>3, <1>4, IngestKeeps, StepsOfPump

\* With every update processed, the snapshot on file is the last one.
LEMMA ArchiveTells == IntakeInv /\ ContentsOK /\ ArchiveInv => ArchiveIsNewest
<1> SUFFICES ASSUME IntakeInv, ContentsOK, ArchiveInv,
                    \A u \in 1..published : inbox[u].status = "processed",
                    NEW m \in Album, SnapshotsOf(m) # {}
             PROVE  archive[m] = content[Max(SnapshotsOf(m))]
  BY DEF ArchiveIsNewest
<1>1. SnapshotsOf(m) \in SUBSET Updates /\ SnapshotsOf(m) \subseteq 1..published
      /\ \A u \in SnapshotsOf(m) : content[u].message = m /\ content[u].at \in Nat
  BY PublishedTyped DEF SnapshotsOf
<1>2. Max(SnapshotsOf(m)) \in SnapshotsOf(m) /\ \A u \in SnapshotsOf(m) : u <= Max(SnapshotsOf(m))
  BY <1>1, GreatestUpdate
<1>3. PICK last \in SnapshotsOf(m) : last = Max(SnapshotsOf(m))
  BY <1>2
<1>4. archive[m] # NoSnapshot /\ content[last].at <= archive[m].at
  <2>1. Applied(last)
    BY <1>1 DEF Applied
  <2>2. Latest(last)
    BY <1>1, <2>1 DEF ArchiveInv
  <2> QED BY <1>1, <2>2 DEF Latest
<1>5. PICK v \in SnapshotsOf(m) : archive[m] = content[v]
  BY <1>4 DEF ArchiveInv, OnFile
<1>6. v \in Nat /\ last \in Nat /\ v <= last
  BY <1>1, <1>2, <1>3
<1>7. v < last => content[v].at < content[last].at
  BY <1>1 DEF ArchiveInv, Ordered
<1>8. v = last
  BY <1>1, <1>4, <1>5, <1>6, <1>7
<1> QED BY <1>3, <1>5, <1>8

----------------------------------------------------------------------------
(***************************************************************************)
(* The outbox and the tables                                               *)
(***************************************************************************)
\* The key and the content of what is acted upon are those of a row.
LEMMA ActionHasRow ==
  ASSUME HandlersOK, Action.route # "leave"
  PROVE  /\ Action.ids \in Sets
         /\ ActionKey \in Keys /\ ActionOp \in Ops
         /\ ActionKey = IF Action.route = "auto_copy" THEN CopyKey(Action.ids) ELSE ReviewKey(Action.ids)
<1>1. Action \in Actions /\ Action.ids # {}
  BY DEF HandlersOK, Assessments, Action
<1>2. Action.ids \in Sets /\ Action.route \in Routes
  BY <1>1 DEF Actions, Sets
<1>3. ActionKey \in Keys
  BY <1>2, KeyAssumption DEF ActionKey
<1>4. ActionOp \in Ops
  <2>1. Action.route = "admin_review" => Action.score \in 70..94
    BY DEF HandlersOK, Action
  <2>2. Action.route = "auto_copy" \/ Action.route = "admin_review"
    BY <1>2 DEF Routes
  <2> QED BY <2>1, <2>2, ScoreAssumption DEF ActionOp, PlainCopy
<1> QED BY <1>2, <1>3, <1>4 DEF ActionKey

LEMMA OutboxKeeps ==
  ASSUME RecordInv, HandlersOK, [Next]_vars
  PROVE  RecordInv'
<1>a. ASSUME UNCHANGED outboxVars PROVE RecordInv'
  BY <1>a, StepRecords
<1>1. CASE (\E m \in Album : Post(m)) \/ (\E m \in Captioned : Edit(m))
  BY <1>1, <1>a DEF Post, Edit, Arrive
<1>2. CASE Pump \/ Ingest \/ AdmitJobs \/ HandlerRaises
  BY <1>2, <1>a DEF Pump, Ingest, AdmitJobs, HandlerRaises
<1>3. CASE (\E m \in Documents : LoadCandidate(m)) \/ Persist \/ EnqueueReassessment \/ ExtractionRaises
  BY <1>3, <1>a DEF LoadCandidate, Persist, EnqueueReassessment, ExtractionRaises, ExtractorStays
<1>4. CASE (\E j \in AssessKeys \cup ReassessKeys : Read(j)) \/ Store \/ ActConflicts
  BY <1>4, <1>a DEF Read, Store, ActConflicts
<1>5. CASE Act
  <2>1. CASE Action.route = "leave"
    BY <1>5, <1>a, <2>1 DEF Act
  <2>2. CASE Action.route # "leave"
    BY <1>5, <2>2, ActionHasRow, EnqueueIsStep, StepRecords DEF Act, RecordInv
  <2> QED BY <2>1, <2>2
<1>6. ASSUME NEW w \in Senders,
             \/ PollRows(w) \/ Send(w) \/ SendUnanswered(w) \/ SendRefused(w) \/ Record(w) \/ EndRow(w)
      PROVE  RecordInv'
  <2>1. OutboxNext
    BY <1>6 DEF PollRows, PollQueue, Send, SendUnanswered, SendRefused, Record, EndRow, OutboxNext
  <2> QED BY <2>1, StepRecords
<1>7. ASSUME NEW w \in Senders, SkipRow(w) PROVE RecordInv'
  BY <1>7, SkipTyped, ConfirmRecords DEF SkipRow, RecordInv
<1>8. ASSUME NEW k \in Keys, Due(k) PROVE RecordInv'
  <2>1. OutboxNext
    BY <1>8 DEF Due, OutboxNext
  <2> QED BY <2>1, StepRecords
<1>9. CASE Crash
  BY <1>9, AllIdleTyped DEF Crash, RecordInv, ConfirmedOnRecord, RecordedBeforeSent, Idle
<1>10. CASE UNCHANGED vars
  BY <1>10, <1>a DEF vars
<1>11. CASE \E w \in Senders : ReadBack(w)
  BY <1>11, <1>a DEF ReadBack
<1> QED BY <1>1, <1>2, <1>3, <1>4, <1>5, <1>6, <1>7, <1>8, <1>9, <1>10, <1>11 DEF Next

\* A sender of a copy has a set of messages of the album.
LEMMA CopyHasMessages ==
  ASSUME TypeInv, NEW w \in Senders, IsCopy(w)
  PROVE  KeyOf(w)[2] \in Sets /\ KeyOf(w) = CopyKey(KeyOf(w)[2])
<1>1. KeyOf(w) \in Keys
  BY DEF IsCopy, KeyOf, TypeInv, SendersOK
<1>2. CASE \E ids \in Sets : KeyOf(w) = CopyKey(ids)
  BY <1>2 DEF CopyKey
<1>3. CASE \E ids \in Sets : KeyOf(w) = ReviewKey(ids)
  BY <1>3 DEF ReviewKey, IsCopy
<1> QED BY <1>1, <1>2, <1>3, KeyAssumption DEF Sets

\* The sender of a copy adds its messages to the row as it has read it, which is the row
\* with its messages unless the row has changed.
LEMMA RecordTakes ==
  ASSUME TypeInv, RowsTyped, NEW w \in Senders, Record(w), IsCopy(w)
  PROVE  /\ material' \in MaterialRows
         /\ material'.evidence.ids = seen[w].evidence.ids
         /\ material'.evidence.extracted = seen[w].evidence.extracted
         /\ material'.evidence.score = seen[w].evidence.score
         /\ material'.evidence.copied = seen[w].evidence.copied \cup KeyOf(w)[2]
         /\ material'.destination = IF seen[w].destination = NoMessage THEN sender[w].answer
                                                                      ELSE material.destination
         /\ material'.state \in {material.state, "completed"}
         /\ material = seen[w] => material'.state = "completed"
         /\ overwritten' \in BOOLEAN
         /\ overwritten \/ material # seen[w] => overwritten'
         /\ ~overwritten' => ~overwritten /\ material = seen[w]
         /\ seen' = [seen EXCEPT ![w] = NoMaterial]
<1> DEFINE row == seen[w]
           copied == row.evidence.copied \cup KeyOf(w)[2]
           evidence == [row.evidence EXCEPT !.copied = copied]
           state == Write(material.state, row.state, "completed")
           destination == IF row.destination = NoMessage THEN sender[w].answer ELSE material.destination
           one == [material EXCEPT !.evidence = evidence]
           two == [one EXCEPT !.state = state]
<1>1. /\ material' = [two EXCEPT !.destination = destination]
      /\ seen' = [seen EXCEPT ![w] = NoMaterial]
      /\ overwritten' = (overwritten \/ material # row)
  BY DEF Record, RecordCopy, Missed
<1>2. row \in MaterialRows /\ material \in MaterialRows /\ overwritten \in BOOLEAN
  BY DEF RowsTyped
<1>3. copied \in SUBSET Album /\ row.evidence \in Evidences
  BY <1>2, CopyHasMessages DEF MaterialRows, Evidences, Sets
<1>4. destination \in Messages \cup {NoMessage}
  BY <1>2 DEF MaterialRows, TypeInv, OutboxTypeOK
<1>5. /\ state \in {"none", "copy_pending", "review", "completed"} /\ state \in {material.state, "completed"}
      /\ material = row => state = "completed"
  BY <1>2 DEF Write, MaterialRows
<1> HIDE DEF copied, destination, state
<1>6. /\ evidence \in Evidences /\ evidence.copied = copied /\ evidence.ids = row.evidence.ids
      /\ evidence.extracted = row.evidence.extracted /\ evidence.score = row.evidence.score
  BY <1>3 DEF Evidences
<1> HIDE DEF evidence
<1>7. one \in MaterialRows /\ one.evidence = evidence
  BY <1>2, <1>6 DEF MaterialRows
<1> HIDE DEF one
<1>8. two \in MaterialRows /\ two.evidence = evidence /\ two.state = state
  BY <1>5, <1>7 DEF MaterialRows
<1> HIDE DEF two
<1>9. material' \in MaterialRows /\ material'.evidence = evidence /\ material'.state = state
      /\ material'.destination = destination
  BY <1>1, <1>4, <1>8 DEF MaterialRows
<1> QED BY <1>1, <1>2, <1>5, <1>6, <1>9 DEF copied, destination

\* The row of the album, and what is read of it, keep their type.
LEMMA RowsKeep ==
  ASSUME TypeInv, HandlersOK, RowsTyped, [Next]_vars
  PROVE  RowsTyped'
<1> USE DEF rowVars
<1>a. ASSUME UNCHANGED <<material, overwritten>>,
             seen' = seen \/ seen' = [w \in Senders |-> NoMaterial]
      PROVE  RowsTyped'
  BY <1>a, NothingTyped DEF RowsTyped
<1>1. CASE (\E m \in Album : Post(m)) \/ (\E m \in Captioned : Edit(m))
  BY <1>1, <1>a DEF Post, Edit, Arrive
<1>2. CASE Pump \/ Ingest \/ AdmitJobs \/ HandlerRaises \/ Crash
  BY <1>2, <1>a DEF Pump, Ingest, AdmitJobs, HandlerRaises, Crash
<1>3. CASE (\E m \in Documents : LoadCandidate(m)) \/ Persist \/ EnqueueReassessment \/ ExtractionRaises
  BY <1>3, <1>a DEF LoadCandidate, Persist, EnqueueReassessment, ExtractionRaises, ExtractorStays
<1>4. CASE (\E j \in AssessKeys \cup ReassessKeys : Read(j)) \/ Act \/ ActConflicts
  BY <1>4, <1>a DEF Read, Act, ActConflicts, AssessorStays
<1>5. CASE Store
  BY <1>5, StoreTakes DEF RowsTyped
<1>6. ASSUME NEW w \in Senders,
             \/ PollRows(w) \/ SkipRow(w) \/ Send(w) \/ SendUnanswered(w) \/ SendRefused(w) \/ EndRow(w)
      PROVE  RowsTyped'
  BY <1>6, <1>a DEF PollRows, PollQueue, SkipRow, Send, SendUnanswered, SendRefused, EndRow, Unlucky
<1>7. ASSUME NEW w \in Senders, ReadBack(w) PROVE RowsTyped'
  BY <1>7 DEF ReadBack, RowsTyped
<1>8. ASSUME NEW w \in Senders, Record(w) PROVE RowsTyped'
  <2>1. CASE ~IsCopy(w)
    BY <1>8, <1>a, <2>1 DEF Record
  <2>2. CASE IsCopy(w)
    BY <1>8, <2>2, RecordTakes, NothingTyped DEF RowsTyped
  <2> QED BY <2>1, <2>2
<1>9. ASSUME NEW k \in Keys, Due(k) PROVE RowsTyped'
  BY <1>9, <1>a DEF Due
<1>10. CASE UNCHANGED vars
  BY <1>10, <1>a DEF vars
<1> QED BY <1>1, <1>2, <1>3, <1>4, <1>5, <1>6, <1>7, <1>8, <1>9, <1>10 DEF Next

JobTables ==
  /\ extraction \in [Documents -> Outcomes \cup {NotExtracted}]
  /\ jobs \in [JobKeys -> JobStates]

\* The jobs a worker has in hand are jobs.
LEMMA HandlersKeep ==
  ASSUME ContentsOK, HandlersOK, JobTables, RowsTyped, [Next]_vars
  PROVE  HandlersOK' /\ JobTables'
<1> USE DEF jobVars, archiveVars
<1>a. ASSUME UNCHANGED <<extraction, assessor, extractor>>, jobs' \in [JobKeys -> JobStates]
      PROVE  HandlersOK' /\ JobTables'
  BY <1>a DEF HandlersOK, JobTables, Candidate
<1>b. /\ Free \in Assessments /\ Free.action.route = "leave"
      /\ Free.evidence.score = 0 /\ Free.evidence.copied = Free.seen.evidence.copied
  BY NothingTyped
<1>c. \A key : [jobs EXCEPT ![key] = "ended"] \in [JobKeys -> JobStates]
               /\ [jobs EXCEPT ![key] = "failed"] \in [JobKeys -> JobStates]
  BY DEF JobTables, JobStates
<1>d. ASSUME UNCHANGED <<extraction, extractor>>, assessor' = Free, jobs' \in [JobKeys -> JobStates]
      PROVE  HandlersOK' /\ JobTables'
  BY <1>b, <1>d DEF HandlersOK, JobTables, Candidate
<1>e. UNCHANGED jobs => jobs' \in [JobKeys -> JobStates]
  BY DEF JobTables
<1>1. CASE (\E m \in Album : Post(m)) \/ (\E m \in Captioned : Edit(m))
  BY <1>1, <1>a, <1>e DEF Post, Edit, Arrive
<1>2. CASE Pump \/ Ingest \/ HandlerRaises
  BY <1>2, <1>a, <1>e DEF Pump, Ingest, HandlerRaises
<1>3. CASE AdmitJobs
  <2>1. jobs' \in [JobKeys -> JobStates]
    BY <1>3 DEF AdmitJobs, JobTables, JobStates
  <2> QED BY <1>3, <1>a, <2>1 DEF AdmitJobs
<1>4. ASSUME NEW m \in Documents, LoadCandidate(m) PROVE HandlersOK' /\ JobTables'
  <2>1. /\ UNCHANGED <<extraction, assessor, jobs>>
        /\ extractor' = [job |-> ExtractKey(m),
                         phase |-> IF extraction[m] = NotExtracted THEN "loaded" ELSE "persisted"]
    BY <1>4 DEF LoadCandidate, ExtractorStays
  <2>2. Candidate' = m
    BY <2>1 DEF Candidate, ExtractKey
  <2>3. extractor'.phase = "persisted" => extraction[m] \in Outcomes
    BY <2>1 DEF JobTables
  <2> QED BY <2>1, <2>2, <2>3 DEF HandlersOK, JobTables
<1>5. CASE Persist
  <2>1. /\ UNCHANGED <<assessor, jobs>>
        /\ extraction' = [extraction EXCEPT ![Candidate] = world.text[Candidate]]
        /\ extractor' = [extractor EXCEPT !.phase = "persisted"]
        /\ extractor.phase = "loaded"
    BY <1>5 DEF Persist, ExtractorStays
  <2>2. PICK m \in Documents : extractor.job = ExtractKey(m)
    BY <2>1 DEF HandlersOK
  <2>3. Candidate = m /\ world.text[m] \in Outcomes
    BY <2>2, AlbumAssumption DEF Candidate, ExtractKey, ContentsOK, Worlds
  <2>4. extraction' \in [Documents -> Outcomes \cup {NotExtracted}] /\ extraction'[m] \in Outcomes
    BY <2>1, <2>3 DEF JobTables
  <2>5. extractor' = [job |-> ExtractKey(m), phase |-> "persisted"]
    BY <2>1, <2>2 DEF HandlersOK
  <2>6. Candidate' = m
    BY <2>5 DEF Candidate, ExtractKey
  <2> QED BY <2>1, <2>4, <2>5, <2>6 DEF HandlersOK, JobTables
<1>6. CASE EnqueueReassessment \/ ExtractionRaises
  <2>1. UNCHANGED <<extraction, assessor>> /\ extractor' = Waiting
    BY <1>6 DEF EnqueueReassessment, ExtractionRaises, ExtractorStays
  <2>2. jobs' \in [JobKeys -> JobStates]
    <3>1. CASE EnqueueReassessment
      <4> DEFINE key == ReassessKey(Candidate, extraction[Candidate])
                 one == [jobs EXCEPT ![key] = IF @ = "absent" THEN "open" ELSE @]
      <4>1. one \in [JobKeys -> JobStates]
        BY DEF JobTables, JobStates
      <4>2. jobs' = [one EXCEPT ![extractor.job] = "ended"]
        BY <3>1 DEF EnqueueReassessment
      <4> HIDE DEF one
      <4> QED BY <4>1, <4>2 DEF JobStates
    <3>2. CASE ExtractionRaises
      BY <1>e, <3>2 DEF ExtractionRaises
    <3> QED BY <1>6, <3>1, <3>2
  <2> QED BY <2>1, <2>2 DEF HandlersOK, JobTables, Waiting
<1>7. ASSUME NEW j \in AssessKeys \cup ReassessKeys, Read(j) PROVE HandlersOK' /\ JobTables'
  <2>1. /\ assessor' \in Assessments /\ assessor'.seen = material /\ assessor'.evidence = EvidenceNow
        /\ assessor'.action.route = "leave" /\ UNCHANGED <<jobs, extraction, extractor>>
    BY <1>7, ReadTakes, NothingTyped
  <2>2. /\ assessor'.evidence.ids = {} => assessor'.evidence.score = 0
        /\ assessor'.evidence.copied = assessor'.seen.evidence.copied
    BY <2>1, EvidenceIsTyped, ScoreBounded DEF RowsTyped
  <2> QED BY <2>1, <2>2 DEF HandlersOK, JobTables, Candidate
<1>8. CASE Store
  <2>1. /\ assessor' \in Assessments /\ assessor'.seen = NoMaterial /\ assessor'.evidence = NoEvidence
        /\ assessor'.action = [route |-> ActionRoute, ids |-> ActionIds, score |-> assessor.evidence.score]
        /\ UNCHANGED <<jobs, extraction, extractor>>
    BY <1>8, StoreTakes
  <2>2. /\ assessor'.evidence.ids = {} => assessor'.evidence.score = 0
        /\ assessor'.evidence.copied = assessor'.seen.evidence.copied
    BY <2>1, NothingTyped
  <2>3. /\ assessor'.action.route # "leave" => assessor'.action.ids # {}
        /\ assessor'.action.route = "admin_review" => assessor'.action.score \in 70..94
    BY <2>1, ActionIsTyped
  <2> QED BY <2>1, <2>2, <2>3 DEF HandlersOK, JobTables, Candidate
<1>9. CASE Act
  <2>1. jobs' \in [JobKeys -> JobStates]
    BY <1>9, <1>c DEF Act, EndAssessment
  <2> QED BY <1>9, <1>d, <2>1 DEF Act, EndAssessment, AssessorStays
<1>10. CASE ActConflicts
  <2>1. jobs' \in [JobKeys -> JobStates]
    BY <1>10, <1>c, <1>e DEF ActConflicts
  <2> QED BY <1>10, <1>d, <2>1 DEF ActConflicts, AssessorStays
<1>11. CASE \E w \in Senders :
             \/ PollRows(w) \/ SkipRow(w) \/ Send(w) \/ SendUnanswered(w) \/ SendRefused(w)
             \/ ReadBack(w) \/ Record(w) \/ EndRow(w)
  BY <1>11, <1>a, <1>e DEF PollRows, PollQueue, SkipRow, Send, SendUnanswered, SendRefused, ReadBack, Record,
                           EndRow, SenderStays, Unlucky
<1>12. CASE \E k \in Keys : Due(k)
  BY <1>12, <1>a, <1>e DEF Due, SenderStays
<1>13. CASE Crash
  <2>1. UNCHANGED <<extraction, jobs>> /\ assessor' = Free /\ extractor' = Waiting
    BY <1>13 DEF Crash
  <2> QED BY <1>b, <1>e, <2>1 DEF HandlersOK, JobTables, Waiting
<1>14. CASE UNCHANGED vars
  BY <1>14, <1>a, <1>e DEF vars
<1> QED BY <1>1, <1>2, <1>3, <1>4, <1>5, <1>6, <1>7, <1>8, <1>9, <1>10, <1>11, <1>12, <1>13, <1>14 DEF Next

----------------------------------------------------------------------------
(***************************************************************************)
(* Copies                                                                  *)
(***************************************************************************)
LiveStatus == {"pending", "sending", "sent"}

\* The copy of these messages is, or may yet be, carried out.
Live(ids) == outbox[CopyKey(ids)].status \in LiveStatus

CopiesDisjoint ==
  \A these, those \in Sets : Live(these) /\ Live(those) /\ these \cap those # {} => these = those

\* Between its two transactions an assessment holds messages that are in no live row.
ActionIsFresh ==
  Action.route = "auto_copy" => \A ids \in Sets : Live(ids) => ids \cap Action.ids = {}

CopyInv == CopiesDisjoint /\ ActionIsFresh

\* No row comes to life.
NoneRevived == \A k \in Keys : outbox'[k].status \in LiveStatus => outbox[k].status \in LiveStatus

LEMMA CopyKeys == \A ids \in Sets : CopyKey(ids) \in Keys
<1> QED BY KeyAssumption DEF Sets

\* As long as no row comes to life and the worker takes up nothing else, copies stay apart.
LEMMA QuietStepKeeps ==
  ASSUME CopyInv, NoneRevived, Action' = Action \/ assessor'.action = NoAction
  PROVE  CopyInv'
<1>1. \A ids \in Sets : Live(ids)' => Live(ids)
  BY CopyKeys DEF NoneRevived, Live
<1>2. CopiesDisjoint'
  BY <1>1 DEF CopyInv, CopiesDisjoint
<1>3. ActionIsFresh'
  <2>1. CASE Action' = Action
    BY <1>1, <2>1 DEF CopyInv, ActionIsFresh
  <2>2. CASE assessor'.action = NoAction
    BY <2>2, NothingTyped DEF ActionIsFresh, Action
  <2> QED BY <2>1, <2>2
<1> QED BY <1>2, <1>3 DEF CopyInv

\* An assessment decides to copy what no live row holds.
LEMMA StoreKeeps ==
  ASSUME RowsTyped, HandlersOK, CopyInv, Store
  PROVE  CopyInv'
<1>1. /\ outbox' = outbox
      /\ Action' = [route |-> ActionRoute, ids |-> ActionIds, score |-> assessor.evidence.score]
  BY StoreTakes DEF outboxVars, Action
<1>2. ActionRoute = "auto_copy" => ActionIds = assessor.evidence.ids \ Scheduled
  BY ActionIsTyped
<1>3. \A ids \in Sets : Live(ids) => ids \subseteq Scheduled
  BY DEF Scheduled, Live, LiveStatus
<1>4. ActionIsFresh'
  BY <1>1, <1>2, <1>3 DEF ActionIsFresh, Live
<1> QED BY <1>1, <1>4 DEF CopyInv, CopiesDisjoint, Live

LEMMA ActKeeps ==
  ASSUME TypeInv, HandlersOK, CopyInv, Act
  PROVE  CopyInv'
<1>1. assessor'.action = NoAction
  BY NothingTyped DEF Act, EndAssessment
<1>2. CASE Action.route = "leave"
  <2>1. NoneRevived
    BY <1>2 DEF Act, outboxVars, NoneRevived
  <2> QED BY <1>1, <2>1, QuietStepKeeps
<1>3. CASE Action.route # "leave"
  <2>1. \A i \in Keys : i # ActionKey => outbox'[i] = outbox[i]
    BY <1>3 DEF Act, Enqueue, Enqueued, TypeInv, OutboxTypeOK
  <2>2. ActionIsFresh'
    BY <1>1, NothingTyped DEF ActionIsFresh, Action
  <2>3. CASE Action.route = "auto_copy"
    <3>1. Action.ids \in Sets /\ ActionKey = CopyKey(Action.ids)
      BY <1>3, <2>3, ActionHasRow
    <3>2. \A ids \in Sets : Live(ids)' => Live(ids) \/ ids = Action.ids
      BY <2>1, <3>1, CopyKeys DEF Live, CopyKey
    <3>3. CopiesDisjoint'
      BY <2>3, <3>1, <3>2 DEF CopyInv, CopiesDisjoint, ActionIsFresh
    <3> QED BY <2>2, <3>3 DEF CopyInv
  <2>4. CASE Action.route # "auto_copy"
    <3>1. ActionKey = ReviewKey(Action.ids)
      BY <1>3, <2>4, ActionHasRow
    <3>2. \A ids \in Sets : Live(ids)' => Live(ids)
      BY <2>1, <3>1, CopyKeys DEF Live, CopyKey, ReviewKey
    <3>3. CopiesDisjoint'
      BY <3>2 DEF CopyInv, CopiesDisjoint
    <3> QED BY <2>2, <3>3 DEF CopyInv
  <2> QED BY <2>3, <2>4
<1> QED BY <1>2, <1>3

\* What a claim fails, and what a report ends or puts back, was alive; a wait changes no status.
LEMMA SendersReviveNone ==
  ASSUME TypeInv,
         \/ \E w \in Senders, k \in Keys : Claim(w, k)
         \/ \E w \in Senders : Sweep(w) \/ Sent(w) \/ Fail(w)
         \/ \E k \in Keys : Elapse(k)
  PROVE  NoneRevived
<1>1. ASSUME NEW w \in Senders, NEW k \in Keys, Claim(w, k) PROVE NoneRevived
  <2>1. outbox[k].status \in LiveStatus /\ \A j \in Keys \ {k} : outbox'[j] = Swept[j]
    BY <1>1, ClaimKeeps DEF Open, LiveStatus
  <2>2. \A j \in Keys : Swept[j].status \in LiveStatus => outbox[j].status \in LiveStatus
    BY SweptKeeps DEF TypeInv, LiveStatus
  <2> QED BY <2>1, <2>2 DEF NoneRevived
<1>2. ASSUME NEW w \in Senders, Sent(w) \/ Fail(w) PROVE NoneRevived
  <2>1. \A k \in Keys : outbox'[k] = outbox[k] \/ outbox[k].status = "sending"
    BY <1>2, Reports, ReleaseKeeps
  <2> QED BY <2>1 DEF NoneRevived, LiveStatus
<1>3. ASSUME NEW k \in Keys, Elapse(k) PROVE NoneRevived
  <2>1. \A j \in Keys : outbox'[j].status = outbox[j].status
    BY <1>3 DEF Elapse, TypeInv, OutboxTypeOK
  <2> QED BY <2>1 DEF NoneRevived
<1>4. ASSUME NEW w \in Senders, Sweep(w) PROVE NoneRevived
  BY <1>4, SweptKeeps DEF Sweep, TypeInv, LiveStatus, NoneRevived
<1> QED BY <1>1, <1>2, <1>3, <1>4

LEMMA CopiesKeep ==
  ASSUME TypeInv, HandlersOK, RowsTyped, CopyInv, [Next]_vars
  PROVE  CopyInv'
\* The steps that touch neither the outbox nor what is to be done.
<1>a. ASSUME outbox' = outbox, assessor' = assessor \/ assessor'.action = NoAction PROVE CopyInv'
  BY <1>a, QuietStepKeeps DEF NoneRevived, Action
<1>b. Free.action = NoAction
  BY NothingTyped
<1>1. CASE (\E m \in Album : Post(m)) \/ (\E m \in Captioned : Edit(m))
  BY <1>1, <1>a DEF Post, Edit, Arrive, outboxVars, jobVars
<1>2. CASE Pump \/ Ingest \/ AdmitJobs \/ HandlerRaises \/ Crash
  BY <1>2, <1>a, <1>b DEF Pump, Ingest, AdmitJobs, HandlerRaises, Crash, outboxVars, jobVars
<1>3. CASE (\E m \in Documents : LoadCandidate(m)) \/ Persist \/ EnqueueReassessment \/ ExtractionRaises
  BY <1>3, <1>a DEF LoadCandidate, Persist, EnqueueReassessment, ExtractionRaises, ExtractorStays, outboxVars
<1>4. CASE (\E j \in AssessKeys \cup ReassessKeys : Read(j)) \/ Store
  BY <1>4, <1>a, ReadTakes, StoreKeeps DEF outboxVars
<1>5. CASE Act
  BY <1>5, ActKeeps
<1>6. CASE ActConflicts
  BY <1>6, <1>a, <1>b DEF ActConflicts, outboxVars
<1>7. ASSUME NEW w \in Senders, PollRows(w) \/ EndRow(w) PROVE CopyInv'
  BY <1>7, SendersReviveNone, QuietStepKeeps DEF PollRows, PollQueue, EndRow, SenderStays, jobVars, Action
<1>8. ASSUME NEW w \in Senders,
             \/ SkipRow(w) \/ Send(w) \/ SendUnanswered(w) \/ SendRefused(w) \/ ReadBack(w) \/ Record(w)
      PROVE  CopyInv'
  BY <1>8, <1>a DEF SkipRow, Send, SendUnanswered, SendRefused, ReadBack, Record, SenderStays, Unlucky,
                    jobVars, outboxVars, Skip, Deliver, LoseReply, Refuse, Confirm
<1>9. ASSUME NEW k \in Keys, Due(k) PROVE CopyInv'
  BY <1>9, SendersReviveNone, QuietStepKeeps DEF Due, SenderStays, jobVars, Action
<1>10. CASE UNCHANGED vars
  BY <1>10, <1>a DEF vars, outboxVars, jobVars
<1> QED BY <1>1, <1>2, <1>3, <1>4, <1>5, <1>6, <1>7, <1>8, <1>9, <1>10 DEF Next

LEMMA DisjointMeansOne == CopiesDisjoint => OneLiveCopy
<1> SUFFICES ASSUME CopiesDisjoint, NEW m \in Album PROVE Cardinality(CopiesOf(m)) <= 1
  BY DEF OneLiveCopy
<1>1. \A these, those \in CopiesOf(m) : these = those
  BY DEF CopiesOf, CopiesDisjoint, Live, LiveStatus, Sets
<1>2. CASE CopiesOf(m) = {}
  BY <1>2, FS_EmptySet
<1>3. CASE CopiesOf(m) # {}
  <2>1. PICK ids \in CopiesOf(m) : TRUE
    BY <1>3
  <2>2. CopiesOf(m) = {ids}
    BY <1>1, <2>1
  <2>3. Cardinality({ids}) = 1
    BY FS_Singleton
  <2> QED BY <2>2, <2>3
<1> QED BY <1>2, <1>3

----------------------------------------------------------------------------
(***************************************************************************)
(* What has been copied                                                    *)
(***************************************************************************)
\* Whoever is at the row of the album knows of no copy that was not recorded, and of no
\* destination the row has lost.
RowBacked(row) ==
  /\ \A m \in row.evidence.copied : \E ids \in Sets : m \in ids /\ CopyKey(ids) \in confirmed
  /\ row.destination # NoMessage => material.destination # NoMessage

RowsBacked ==
  /\ RowBacked(material) /\ RowBacked(assessor.seen)
  /\ \A w \in Senders : RowBacked(seen[w])

\* A copy whose effect is on record was enqueued, and the album has a destination from then
\* on; the row has its messages unless a writer has overwritten what it had not read.
CopiesBacked ==
  /\ \A ids \in Sets : CopyKey(ids) \in confirmed =>
       /\ outbox[CopyKey(ids)].status # "absent" /\ material.destination # NoMessage
       /\ overwritten \/ ids \subseteq material.evidence.copied
  /\ material.destination # NoMessage => \E ids \in Sets : CopyKey(ids) \in confirmed

\* Only archived messages are copied.
CopiesArchived ==
  /\ \A ids \in Sets : outbox[CopyKey(ids)].status # "absent" => ids \subseteq Archived
  /\ assessor.evidence.ids \subseteq Archived
  /\ Action.route = "auto_copy" => Action.ids \subseteq Archived

SendersAtCopies ==
  /\ \A w \in Senders : sender[w].phase # "idle" => outbox[sender[w].key].status # "absent"
  /\ \A w \in Senders : sender[w].phase = "delivered" => sender[w].answer \in Messages

BackedInv == RowsBacked /\ CopiesBacked /\ CopiesArchived /\ SendersAtCopies

----------------------------------------------------------------------------
(***************************************************************************)
(* What has been assessed                                                  *)
(***************************************************************************)
\* The jobs of an update have been admitted.
Handled(u) == inbox[u].status = "processed" \/ (worker.at = u /\ worker.phase = "handled")

\* Whoever has a job has been archived, and whoever has been handled has a job.
AssessmentsAdmitted ==
  /\ \A j \in AssessKeys : jobs[j] # "absent" =>
       \E u \in 1..published : j = AssessKey(content[u]) /\ Latest(u)
  /\ \A u \in 1..published : Handled(u) => jobs[AssessKey(content[u])] # "absent"

\* What an extraction came to is assessed again, or its job is still there to see to it.
ReassessmentsAdmitted ==
  /\ \A m \in Documents, outcome \in Outcomes :
       jobs[ReassessKey(m, outcome)] # "absent" => extraction[m] = outcome
  /\ \A m \in Documents :
       extraction[m] # NotExtracted /\ jobs[ReassessKey(m, extraction[m])] = "absent" =>
         jobs[ExtractKey(m)] = "open"

\* A handler's job is open as long as the handler is at it.
HandlersHaveJobs ==
  /\ assessor = Free \/ (assessor.job \in AssessKeys \cup ReassessKeys /\ jobs[assessor.job] = "open")
  /\ extractor.phase # "idle" => jobs[extractor.job] = "open"
  /\ extractor.phase = "loaded" => extraction[Candidate] = NotExtracted

AdmittedInv == AssessmentsAdmitted /\ ReassessmentsAdmitted /\ HandlersHaveJobs

\* A job that is yet to be assessed, or to be taken up once more.
Waits(j) == jobs[j] # "ended" /\ assessor.job # j

\* Something that counts has not been looked at.
Unassessed ==
  \/ \E u \in 1..published : Waits(AssessKey(content[u]))
  \/ \E m \in Documents : extraction[m] # NotExtracted /\ Waits(ReassessKey(m, extraction[m]))

RowFailed == \E k \in Keys : outbox[k].status = "failed"

AboutToCopy == IF Action.route = "auto_copy" THEN Action.ids ELSE {}

AboutToReview ==
  Action.route = "admin_review" /\ Action.ids = Archived /\ Action.score = Score(Archived)

Reviewed ==
  /\ outbox[ReviewKey(Archived)].status # "absent"
  /\ outbox[ReviewKey(Archived)].op = Score(Archived)

\* The evidence is what there is to say of the album.
Agrees(evidence) ==
  /\ evidence.ids = Archived
  /\ evidence.extracted = {m \in Archived \cap Documents : extraction[m] # NotExtracted}
  /\ evidence.score = Score(Archived)

\* Every message of an album to be copied is in a row, or about to be; an album to be reviewed
\* has a review, or is about to, or was copied in part.
AlbumFiled ==
  /\ RouteOf(Score(Archived)) = "auto_copy" => Archived \subseteq Scheduled \cup AboutToCopy
  /\ RouteOf(Score(Archived)) = "admin_review" => Scheduled # {} \/ AboutToReview \/ Reviewed

\* A row that is not completed will be.
RowFiled ==
  /\ Agrees(material.evidence)
  /\ RouteOf(Score(Archived)) = "auto_copy" =>
       \/ material.state = "completed"
       \/ AboutToCopy # {}
       \/ \E ids \in Sets : Live(ids) /\ CopyKey(ids) \notin confirmed

Filed ==
  /\ assessor.phase = "read" => Agrees(assessor.evidence)
  /\ assessor.phase # "read" => AlbumFiled /\ (overwritten \/ RowFiled)

FiledInv == Filed \/ Unassessed \/ collided \/ RowFailed

\* What is archived stays archived.
LEMMA ArchivedGrows ==
  ASSUME IntakeInv, ContentsOK, ArchiveInv, [Next]_vars
  PROVE  Archived \subseteq Archived'
<1>a. ASSUME archive' = archive PROVE Archived \subseteq Archived'
  BY <1>a DEF Archived
<1>1. ASSUME NEW m \in Album, Post(m) \/ Edit(m) PROVE archive' = archive
  BY <1>1 DEF Post, Edit, Arrive, archiveVars
<1>2. CASE Ingest
  <2>1. worker.phase = "read"
    BY <1>2 DEF Ingest, Handle
  <2>2. Update # NoSnapshot
    <3>1. worker.at \in 1..published
      BY <2>1, InHand
    <3> QED BY <3>1, PublishedTyped DEF Update
  <2>3. \A m \in Album : archive'[m] = archive[m] \/ archive'[m] = Update
    BY <1>2 DEF Ingest, ArchiveInv
  <2> QED BY <2>2, <2>3 DEF Archived
<1>3. CASE AdmitJobs
  BY <1>3, <1>a DEF AdmitJobs, archiveVars
<1> QED BY <1>a, <1>1, <1>2, <1>3, StepsOfPump

\* No row comes or goes.
RowsKept == \A k \in Keys : outbox'[k].status = "absent" <=> outbox[k].status = "absent"

LEMMA SendersKeepRows ==
  ASSUME TypeInv,
         \/ \E w \in Senders, k \in Keys : Claim(w, k)
         \/ \E w \in Senders : Sweep(w) \/ Sent(w) \/ Fail(w)
         \/ \E k \in Keys : Elapse(k)
  PROVE  RowsKept
<1>1. ASSUME NEW w \in Senders, NEW k \in Keys, Claim(w, k) PROVE RowsKept
  <2>1. /\ outbox[k].status # "absent" /\ outbox'[k].status # "absent"
        /\ \A j \in Keys \ {k} : outbox'[j] = Swept[j]
    BY <1>1, ClaimKeeps DEF Open
  <2>2. \A j \in Keys : Swept[j].status = "absent" <=> outbox[j].status = "absent"
    BY SweptKeeps DEF TypeInv
  <2> QED BY <2>1, <2>2 DEF RowsKept
<1>2. ASSUME NEW w \in Senders, Sent(w) \/ Fail(w) PROVE RowsKept
  <2>1. \A k \in Keys : \/ outbox'[k] = outbox[k]
                        \/ outbox[k].status = "sending" /\ outbox'[k].status \in {"sent", "failed", "pending"}
    BY <1>2, Reports, ReleaseKeeps
  <2> QED BY <2>1 DEF RowsKept
<1>3. ASSUME NEW k \in Keys, Elapse(k) PROVE RowsKept
  <2>1. \A j \in Keys : outbox'[j].status = outbox[j].status
    BY <1>3 DEF Elapse, TypeInv, OutboxTypeOK
  <2> QED BY <2>1 DEF RowsKept
<1>4. ASSUME NEW w \in Senders, Sweep(w) PROVE RowsKept
  BY <1>4, SweptKeeps DEF Sweep, TypeInv, RowsKept
<1> QED BY <1>1, <1>2, <1>3, <1>4

\* Who has not read the row knows of nothing.
LEMMA NothingBacked == \A row : row = NoMaterial => RowBacked(row)
<1> QED BY NothingTyped DEF RowBacked

\* What is backed stays backed, as records are kept and the row does not lose its destination.
LEMMA BackingStands ==
  ASSUME NEW row, RowBacked(row), confirmed \subseteq confirmed',
         material.destination # NoMessage => material'.destination # NoMessage
  PROVE  /\ \A m \in row.evidence.copied : \E ids \in Sets : m \in ids /\ CopyKey(ids) \in confirmed'
         /\ row.destination # NoMessage => material'.destination # NoMessage
<1> QED BY DEF RowBacked

\* A step that records nothing, and puts no sender at a row that is not there.
LEMMA BackedStands ==
  ASSUME BackedInv, Archived \subseteq Archived', RowsKept, UNCHANGED <<confirmed, material, overwritten>>,
         assessor' = assessor \/ assessor' = Free,
         seen' = seen \/ seen' = [w \in Senders |-> NoMaterial]
  PROVE  RowsBacked' /\ CopiesBacked' /\ CopiesArchived'
<1>1. \A ids \in Sets : outbox'[CopyKey(ids)].status = "absent" <=> outbox[CopyKey(ids)].status = "absent"
  BY CopyKeys DEF RowsKept
<1>2. CopiesBacked'
  BY <1>1 DEF BackedInv, CopiesBacked
<1>3. RowsBacked'
  <2>1. \A row : RowBacked(row) => RowBacked(row)'
    BY DEF RowBacked
  <2>2. RowBacked(NoMaterial)
    BY NothingBacked
  <2>3. assessor'.seen = assessor.seen \/ assessor'.seen = NoMaterial
    BY NothingTyped
  <2>4. RowBacked(material)' /\ RowBacked(assessor.seen)'
    BY <2>2, <2>3 DEF BackedInv, RowsBacked, RowBacked
  <2>5. \A w \in Senders : RowBacked(seen[w])'
    BY <2>2 DEF BackedInv, RowsBacked, RowBacked
  <2> QED BY <2>4, <2>5 DEF RowsBacked
<1>4. /\ Action'.route = "auto_copy" => Action'.ids \subseteq Archived
      /\ assessor'.evidence.ids \subseteq Archived
  BY NothingTyped DEF BackedInv, CopiesArchived, Action
<1>5. CopiesArchived'
  BY <1>1, <1>4 DEF BackedInv, CopiesArchived
<1> QED BY <1>2, <1>3, <1>5

\* The row that is enqueued is about archived messages.
LEMMA ActBacked ==
  ASSUME TypeInv, HandlersOK, BackedInv, Archived \subseteq Archived', Act, Action.route # "leave"
  PROVE  BackedInv'
<1>1. /\ Action.ids \in Sets /\ ActionKey \in Keys
      /\ ActionKey = IF Action.route = "auto_copy" THEN CopyKey(Action.ids) ELSE ReviewKey(Action.ids)
  BY ActionHasRow
<1>2. /\ \A k \in Keys : k # ActionKey => outbox'[k] = outbox[k]
      /\ outbox'[ActionKey].status # "absent"
      /\ UNCHANGED <<sender, confirmed, material, overwritten, seen>> /\ assessor' = Free
  BY <1>1 DEF Act, EndAssessment, AssessorStays, Enqueue, Enqueued, TypeInv, OutboxTypeOK
<1>3. \A k \in Keys : outbox[k].status # "absent" => outbox'[k].status # "absent"
  BY <1>2
<1>4. ASSUME NEW ids \in Sets, outbox'[CopyKey(ids)].status # "absent"
      PROVE  ids \subseteq Archived
  <2>1. CASE CopyKey(ids) = ActionKey
    <3>1. Action.route = "auto_copy" /\ ids = Action.ids
      BY <1>1, <2>1 DEF CopyKey, ReviewKey
    <3> QED BY <3>1 DEF BackedInv, CopiesArchived
  <2>2. CASE CopyKey(ids) # ActionKey
    BY <1>2, <1>4, <2>2, CopyKeys DEF BackedInv, CopiesArchived
  <2> QED BY <2>1, <2>2
<1>5. CopiesArchived'
  BY <1>2, <1>4, NothingTyped DEF CopiesArchived, Action
<1>6. CopiesBacked'
  BY <1>2, <1>3, CopyKeys DEF BackedInv, CopiesBacked
<1>7. SendersAtCopies'
  <2>1. \A w \in Senders : sender[w].phase # "idle" => sender[w].key \in Keys
    BY DEF TypeInv, SendersOK
  <2> QED BY <1>2, <1>3, <2>1 DEF BackedInv, SendersAtCopies
<1>8. RowsBacked'
  <2>1. RowBacked(NoMaterial) /\ Free.seen = NoMaterial
    BY NothingBacked, NothingTyped
  <2> QED BY <1>2, <2>1 DEF BackedInv, RowsBacked, RowBacked
<1> QED BY <1>5, <1>6, <1>7, <1>8 DEF BackedInv

\* An assessment writes nothing back that it has not read, if it writes back less than there is.
LEMMA StoreBacked ==
  ASSUME RowsTyped, HandlersOK, BackedInv, Archived \subseteq Archived', Store
  PROVE  BackedInv'
<1>1. /\ UNCHANGED <<outbox, sender, confirmed, seen>> /\ material'.destination = material.destination
      /\ material'.evidence \in {material.evidence, assessor.evidence}
      /\ assessor'.seen = NoMaterial /\ assessor'.evidence = NoEvidence
      /\ Action' = [route |-> ActionRoute, ids |-> ActionIds, score |-> assessor.evidence.score]
      /\ ~overwritten' => ~overwritten /\ material = assessor.seen
  BY StoreTakes DEF outboxVars, Action
<1>2. assessor.evidence.copied = assessor.seen.evidence.copied
  BY DEF HandlersOK
<1>3. \A row : RowBacked(row) => RowBacked(row)'
  BY <1>1 DEF RowBacked
<1>4. RowBacked(material)'
  BY <1>1, <1>2 DEF BackedInv, RowsBacked, RowBacked
<1>5. RowsBacked'
  BY <1>1, <1>4, NothingBacked DEF BackedInv, RowsBacked, RowBacked
<1>6. ~overwritten' => material'.evidence.copied = material.evidence.copied
  BY <1>1, <1>2
<1>7. CopiesBacked'
  BY <1>1, <1>6 DEF BackedInv, CopiesBacked
<1>8. ActionIds \subseteq Archived'
  BY ActionIsTyped DEF BackedInv, CopiesArchived
<1>9. CopiesArchived'
  BY <1>1, <1>8, NothingTyped DEF BackedInv, CopiesArchived
<1>10. SendersAtCopies'
  BY <1>1 DEF BackedInv, SendersAtCopies
<1> QED BY <1>5, <1>7, <1>9, <1>10 DEF BackedInv

\* Copies go on record as their row is confirmed; what is skipped is on record.
LEMMA RecordBacked ==
  ASSUME TypeInv, RowsTyped, BackedInv, Archived \subseteq Archived',
         NEW w \in Senders, SkipRow(w) \/ Record(w)
  PROVE  BackedInv'
<1>1. /\ sender[w].phase \in {"claimed", "delivered"} /\ sender' = [sender EXCEPT ![w].phase = "confirmed"]
      /\ confirmed' = confirmed \cup {KeyOf(w)} /\ UNCHANGED <<outbox, assessor>>
  BY DEF SkipRow, Record, Skip, Confirm, Reach, KeyOf, SenderStays, jobVars
<1>2. KeyOf(w) \in Keys /\ outbox[KeyOf(w)].status # "absent" /\ sender[w] # Idle
  BY <1>1 DEF TypeInv, SendersOK, BackedInv, SendersAtCopies, KeyOf, Idle
<1>3. \A v \in Senders : sender'[v].key = sender[v].key /\ (sender'[v].phase # "idle" => sender[v].phase # "idle")
        /\ (sender'[v].phase = "delivered" => sender'[v] = sender[v])
  BY <1>1 DEF TypeInv, OutboxTypeOK
<1>4. SendersAtCopies'
  BY <1>1, <1>3 DEF BackedInv, SendersAtCopies
<1>5. CopiesArchived'
  BY <1>1 DEF BackedInv, CopiesArchived, Action
<1>6. CASE ~IsCopy(w)
  <2>1. UNCHANGED <<material, seen, overwritten>>
    BY <1>6 DEF SkipRow, Record, Done
  <2>2. \A ids \in Sets : CopyKey(ids) # KeyOf(w)
    BY <1>2, <1>6 DEF IsCopy, CopyKey
  <2>3. CopiesBacked'
    BY <1>1, <2>1, <2>2 DEF BackedInv, CopiesBacked
  <2>4. RowsBacked'
    BY <1>1, <2>1, BackingStands DEF BackedInv, RowsBacked, RowBacked
  <2> QED BY <1>4, <1>5, <2>3, <2>4 DEF BackedInv
<1>7. CASE IsCopy(w)
  <2>1. PICK own \in Sets : own = KeyOf(w)[2] /\ KeyOf(w) = CopyKey(own)
    BY <1>7, CopyHasMessages
  <2>2. own # {} /\ CopyKey(own) \in confirmed'
    BY <1>1, <2>1 DEF Sets
  <2>3. ASSUME NEW ids \in Sets, CopyKey(ids) \in confirmed' PROVE CopyKey(ids) \in confirmed \/ ids = own
    BY <1>1, <2>1, <2>3 DEF CopyKey
  <2>4. CASE SkipRow(w)
    <3>1. UNCHANGED <<material, seen, overwritten>> /\ own \subseteq material.evidence.copied
      BY <2>1, <2>4 DEF SkipRow, Done, rowVars
    <3>2. material.destination # NoMessage
      <4>1. PICK m \in own : m \in material.evidence.copied
        BY <2>2, <3>1
      <4> QED BY <4>1 DEF BackedInv, RowsBacked, RowBacked, CopiesBacked
    <3>3. CopiesBacked'
      BY <1>1, <1>2, <2>1, <2>2, <2>3, <3>1, <3>2 DEF BackedInv, CopiesBacked
    <3>4. RowsBacked'
      BY <1>1, <3>1, BackingStands DEF BackedInv, RowsBacked, RowBacked
    <3> QED BY <1>4, <1>5, <3>3, <3>4 DEF BackedInv
  <2>5. CASE Record(w)
    <3>1. /\ material'.evidence.copied = seen[w].evidence.copied \cup own
          /\ material'.destination = IF seen[w].destination = NoMessage THEN sender[w].answer
                                                                       ELSE material.destination
          /\ ~overwritten' => ~overwritten /\ material = seen[w]
          /\ seen' = [seen EXCEPT ![w] = NoMaterial]
      BY <1>7, <2>1, <2>5, RecordTakes
    <3>2. material'.destination # NoMessage
      <4>1. sender[w].answer # NoMessage
        BY <2>5, AnswerAssumption DEF Record, Confirm, BackedInv, SendersAtCopies
      <4> QED BY <3>1, <4>1 DEF BackedInv, RowsBacked, RowBacked
    <3>3. CopiesBacked'
      BY <1>1, <1>2, <2>1, <2>2, <2>3, <3>1, <3>2 DEF BackedInv, CopiesBacked
    <3>4. RowsBacked'
      <4>1. confirmed \subseteq confirmed'
        BY <1>1
      <4>2. \A row : RowBacked(row) => RowBacked(row)'
        BY <3>2, <4>1 DEF RowBacked
      <4>3. \A m \in material'.evidence.copied : \E ids \in Sets : m \in ids /\ CopyKey(ids) \in confirmed'
        BY <2>2, <3>1, <4>1 DEF BackedInv, RowsBacked, RowBacked
      <4>4. \A v \in Senders : seen'[v] = seen[v] \/ seen'[v] = NoMaterial
        BY <3>1 DEF RowsTyped
      <4>5. RowBacked(material)'
        BY <3>2, <4>3 DEF RowBacked
      <4>6. \A v \in Senders : RowBacked(seen[v])'
        BY <3>2, <4>1, <4>4, NothingBacked DEF BackedInv, RowsBacked, RowBacked
      <4>7. RowBacked(assessor.seen)'
        BY <1>1, <3>2, <4>1 DEF BackedInv, RowsBacked, RowBacked
      <4> QED BY <4>5, <4>6, <4>7 DEF RowsBacked
    <3> QED BY <1>4, <1>5, <3>3, <3>4 DEF BackedInv
  <2> QED BY <2>4, <2>5
<1> QED BY <1>6, <1>7

LEMMA BackedKeep ==
  ASSUME TypeInv, IntakeInv, ContentsOK, HandlersOK, RowsTyped, ArchiveInv, BackedInv, [Next]_vars
  PROVE  BackedInv'
<1> USE DEF rowVars
<1>0. Archived \subseteq Archived'
  BY ArchivedGrows
<1>a. ASSUME UNCHANGED <<outbox, sender, confirmed, material, overwritten, seen>>,
             assessor' = assessor \/ assessor' = Free
      PROVE  BackedInv'
  <2>1. RowsKept
    BY <1>a DEF RowsKept
  <2> QED BY <1>0, <1>a, <2>1, BackedStands DEF BackedInv, SendersAtCopies
<1>b. ASSUME NEW w \in Senders, UNCHANGED <<outbox, confirmed, material, overwritten, seen, assessor>>,
             sender[w].phase = "claimed",
             (Deliver(w, sender'[w].answer) /\ sender'[w].answer \in Messages) \/ Reach(w, "raised")
      PROVE  BackedInv'
  <2>1. RowsKept
    BY <1>b DEF RowsKept
  <2>2. RowsBacked' /\ CopiesBacked' /\ CopiesArchived'
    BY <1>0, <1>b, <2>1, BackedStands
  <2>3. \A v \in Senders : v # w => sender'[v] = sender[v]
    BY <1>b DEF Deliver, Reach, TypeInv, OutboxTypeOK
  <2>4. sender'[w].key = sender[w].key /\ sender[w].phase # "idle"
        /\ (sender'[w].phase = "delivered" => sender'[w].answer \in Messages)
    BY <1>b DEF Deliver, Reach, TypeInv, OutboxTypeOK
  <2>5. SendersAtCopies'
    BY <1>b, <2>3, <2>4 DEF BackedInv, SendersAtCopies
  <2> QED BY <2>2, <2>5 DEF BackedInv
<1>1. CASE (\E m \in Album : Post(m)) \/ (\E m \in Captioned : Edit(m))
  BY <1>1, <1>a DEF Post, Edit, Arrive, outboxVars, jobVars
<1>2. CASE Pump \/ Ingest \/ AdmitJobs \/ HandlerRaises
  BY <1>2, <1>a DEF Pump, Ingest, AdmitJobs, HandlerRaises, outboxVars, jobVars
<1>3. CASE (\E m \in Documents : LoadCandidate(m)) \/ Persist \/ EnqueueReassessment \/ ExtractionRaises
  BY <1>3, <1>a DEF LoadCandidate, Persist, EnqueueReassessment, ExtractionRaises, ExtractorStays, outboxVars
<1>4. ASSUME NEW j \in AssessKeys \cup ReassessKeys, Read(j) PROVE BackedInv'
  <2>1. /\ UNCHANGED <<outbox, sender, confirmed, material, overwritten, seen>>
        /\ assessor'.seen = material /\ assessor'.evidence = EvidenceNow /\ Action' = NoAction
    BY <1>4, ReadTakes DEF outboxVars, Action
  <2>2. RowsBacked'
    BY <2>1 DEF BackedInv, RowsBacked, RowBacked
  <2>3. CopiesBacked' /\ SendersAtCopies'
    BY <2>1 DEF BackedInv, CopiesBacked, SendersAtCopies
  <2>4. CopiesArchived'
    BY <1>0, <2>1, EvidenceIsTyped, NothingTyped DEF BackedInv, CopiesArchived, RowsTyped
  <2> QED BY <2>2, <2>3, <2>4 DEF BackedInv
<1>5. CASE Store
  BY <1>0, <1>5, StoreBacked
<1>6. CASE Act
  <2>1. CASE Action.route = "leave"
    BY <1>6, <1>a, <2>1 DEF Act, EndAssessment, AssessorStays, outboxVars
  <2>2. CASE Action.route # "leave"
    BY <1>0, <1>6, <2>2, ActBacked
  <2> QED BY <2>1, <2>2
<1>7. CASE ActConflicts
  BY <1>7, <1>a DEF ActConflicts, AssessorStays, outboxVars
<1>8. ASSUME NEW w \in Senders, NEW k \in Keys, PollRows(w), Claim(w, k) PROVE BackedInv'
  <2>1. Claim(w, k) /\ RowsKept /\ UNCHANGED <<confirmed, material, overwritten, seen, assessor>>
    BY <1>8, SendersKeepRows DEF PollRows, SenderStays, jobVars, Claim
  <2>2. RowsBacked' /\ CopiesBacked' /\ CopiesArchived'
    BY <1>0, <2>1, BackedStands
  <2>3. /\ outbox[k].status # "absent" /\ sender'[w].phase = "claimed" /\ sender'[w].key = k
        /\ \A v \in Senders \ {w} : sender'[v] = sender[v]
    BY <2>1, ClaimKeeps DEF Open
  <2>4. SendersAtCopies'
    BY <2>1, <2>3 DEF BackedInv, SendersAtCopies, RowsKept, TypeInv, SendersOK
  <2> QED BY <2>2, <2>4 DEF BackedInv
<1>9. ASSUME NEW w \in Senders, SkipRow(w) \/ Record(w) PROVE BackedInv'
  BY <1>0, <1>9, RecordBacked
<1>10. ASSUME NEW w \in Senders, Send(w) \/ SendUnanswered(w) \/ SendRefused(w) PROVE BackedInv'
  <2>1. UNCHANGED <<outbox, confirmed, material, overwritten, seen, assessor>> /\ sender[w].phase = "claimed"
    BY <1>10 DEF Send, SendUnanswered, SendRefused, SenderStays, Unlucky, jobVars, Deliver, LoseReply, Refuse
  <2>2. CASE Send(w)
    <3>1. PICK message \in Messages : Deliver(w, message)
      BY <2>2 DEF Send
    <3>2. sender'[w].answer = message
      BY <3>1 DEF Deliver, TypeInv, OutboxTypeOK
    <3> QED BY <1>b, <2>1, <3>1, <3>2
  <2>3. CASE SendUnanswered(w) \/ SendRefused(w)
    <3>1. Reach(w, "raised")
      BY <2>3 DEF SendUnanswered, SendRefused, LoseReply, Refuse
    <3> QED BY <1>b, <2>1, <3>1
  <2> QED BY <1>10, <2>2, <2>3
<1>11. ASSUME NEW w \in Senders, ReadBack(w) PROVE BackedInv'
  <2>1. /\ UNCHANGED <<outbox, sender, confirmed, material, overwritten, assessor>>
        /\ seen' = [seen EXCEPT ![w] = material]
    BY <1>11 DEF ReadBack, SenderStays, jobVars, outboxVars
  <2>2. \A v \in Senders : seen'[v] = seen[v] \/ seen'[v] = material
    BY <2>1 DEF RowsTyped
  <2>3. RowsBacked'
    BY <2>1, <2>2 DEF BackedInv, RowsBacked, RowBacked
  <2>4. CopiesBacked' /\ CopiesArchived' /\ SendersAtCopies'
    BY <1>0, <2>1 DEF BackedInv, CopiesBacked, CopiesArchived, SendersAtCopies, Action
  <2> QED BY <2>3, <2>4 DEF BackedInv
<1>12. ASSUME NEW w \in Senders, EndRow(w) PROVE BackedInv'
  <2>1. /\ RowsKept /\ UNCHANGED <<confirmed, material, overwritten, seen, assessor>>
        /\ sender' = [sender EXCEPT ![w] = Idle]
    BY <1>12, SendersKeepRows DEF EndRow, SenderStays, jobVars, Sent, Fail, Release
  <2>2. RowsBacked' /\ CopiesBacked' /\ CopiesArchived'
    BY <1>0, <2>1, BackedStands
  <2>3. SendersAtCopies'
    BY <2>1 DEF BackedInv, SendersAtCopies, RowsKept, TypeInv, SendersOK, OutboxTypeOK, Idle
  <2> QED BY <2>2, <2>3 DEF BackedInv
<1>13. ASSUME (\E k \in Keys : Due(k)) \/ (\E w \in Senders : PollRows(w) /\ Sweep(w)) PROVE BackedInv'
  <2>1. RowsKept /\ UNCHANGED <<confirmed, material, overwritten, seen, assessor, sender>>
    BY <1>13, SendersKeepRows DEF Due, PollRows, SenderStays, jobVars, Elapse, Sweep
  <2>2. RowsBacked' /\ CopiesBacked' /\ CopiesArchived'
    BY <1>0, <2>1, BackedStands
  <2>3. SendersAtCopies'
    BY <2>1 DEF BackedInv, SendersAtCopies, RowsKept, TypeInv, SendersOK
  <2> QED BY <2>2, <2>3 DEF BackedInv
<1>14. CASE Crash
  <2>1. /\ UNCHANGED <<outbox, confirmed, material, overwritten>> /\ assessor' = Free
        /\ sender' = [w \in Senders |-> Idle] /\ seen' = [w \in Senders |-> NoMaterial]
    BY <1>14 DEF Crash
  <2>2. RowsKept
    BY <2>1 DEF RowsKept
  <2>3. RowsBacked' /\ CopiesBacked' /\ CopiesArchived'
    BY <1>0, <2>1, <2>2, BackedStands
  <2> QED BY <2>1, <2>3 DEF BackedInv, SendersAtCopies, Idle
<1>15. CASE UNCHANGED vars
  BY <1>15, <1>a DEF vars, outboxVars, jobVars
<1>16. \A w \in Senders : PollRows(w) => Sweep(w) \/ \E k \in Keys : Claim(w, k)
  BY DEF PollRows, PollQueue
<1> QED BY <1>1, <1>2, <1>3, <1>4, <1>5, <1>6, <1>7, <1>8, <1>9, <1>10, <1>11, <1>12, <1>13, <1>14, <1>15, <1>16 DEF Next

----------------------------------------------------------------------------
(***************************************************************************)
(* Jobs and what they are for                                              *)
(***************************************************************************)
LEMMA SnapshotKeys ==
  ASSUME IntakeInv, ContentsOK
  PROVE  \A u \in 1..published : AssessKey(content[u]) \in AssessKeys
<1>1. \A u \in 1..published : content[u].message \in Album /\ content[u].at \in Seconds
  BY PublishedTyped DEF Snapshots
<1> QED BY <1>1 DEF AssessKey, AssessKeys

LEMMA KindsDiffer ==
  /\ \A j \in AssessKeys : j[1] = "assess" /\ j \in JobKeys /\ j # NoJob
  /\ \A j \in ReassessKeys : j[1] = "reassess" /\ j \in JobKeys /\ j # NoJob
  /\ \A m \in Documents : ExtractKey(m)[1] = "extract" /\ ExtractKey(m) \in JobKeys
<1>1. NoJob[1] = "none"
  BY DEF NoJob
<1>2. \A j \in AssessKeys : j[1] = "assess" /\ j \in JobKeys
  BY DEF AssessKeys, JobKeys
<1>3. \A j \in ReassessKeys : j[1] = "reassess" /\ j \in JobKeys
  BY DEF ReassessKeys, JobKeys
<1>4. \A m \in Documents : ExtractKey(m)[1] = "extract" /\ ExtractKey(m) \in JobKeys
  BY DEF ExtractKeys, ExtractKey, JobKeys
<1> QED BY <1>1, <1>2, <1>3, <1>4

\* A snapshot that is on file, or older, is not filed again.
LEMMA IngestedOnce ==
  ASSUME IntakeInv, ContentsOK, ArchiveInv, Ingest, Latest(worker.at)
  PROVE  archive' = archive
<1>1. PICK u \in 1..published : u = worker.at
  BY InHand DEF Ingest, Handle
<1>2. Update = content[u] /\ content[u].at \in Nat /\ content[u].message \in Album
  BY <1>1, PublishedTyped DEF Update
<1>3. PICK m \in Album : m = content[u].message
  BY <1>2
<1>4. archive[m] # NoSnapshot /\ content[u].at <= archive[m].at
  BY <1>1, <1>3 DEF Latest
<1>5. PICK v \in 1..published : content[v].message = m /\ archive[m] = content[v]
  BY <1>4 DEF ArchiveInv, OnFile, SnapshotsOf
<1>6. content[v].at \in Nat /\ (content[v].edited <=> content[v].at # 0)
  BY PublishedTyped DEF ArchiveInv, Ordered
<1>7. CASE HasNewerSnapshot(archive[m], content[u])
  <2>1. content[u].at = content[v].at
    BY <1>2, <1>4, <1>5, <1>6, <1>7 DEF HasNewerSnapshot
  <2>2. u \in Nat /\ v \in Nat /\ ~(u < v) /\ ~(v < u)
    BY <1>3, <1>5, <1>6, <2>1, PublishedTyped DEF ArchiveInv, Ordered
  <2>3. u = v
    BY <2>2
  <2> QED BY <1>2, <1>3, <1>5, <1>7, <2>3 DEF Ingest, ArchiveInv
<1>8. CASE ~HasNewerSnapshot(archive[m], content[u])
  BY <1>2, <1>3, <1>8 DEF Ingest
<1> QED BY <1>7, <1>8

\* What has been applied once stays applied, whoever is tried again.
LEMMA LatestStays ==
  ASSUME IntakeInv, ContentsOK, ArchiveInv, Ingest, NEW v \in 1..published, Latest(v)
  PROVE  Latest(v)'
<1>0. content' = content
  BY DEF Ingest, inputVars
<1>1. PICK u \in 1..published : u = worker.at
  BY InHand DEF Ingest, Handle
<1>2. Update = content[u] /\ content[u].at \in Nat /\ content[u].message \in Album /\ content[u] # NoSnapshot
      /\ content[v].at \in Nat /\ content[v].message \in Album
  BY <1>1, PublishedTyped DEF Update
<1>3. PICK m \in Album : m = content[u].message
  BY <1>2
<1>4. CASE archive' = archive \/ content[v].message # m
  <2>1. archive'[content[v].message] = archive[content[v].message]
    BY <1>2, <1>3, <1>4 DEF Ingest, ArchiveInv
  <2> QED BY <1>0, <2>1 DEF Latest
<1>5. CASE archive' # archive /\ content[v].message = m
  <2>1. HasNewerSnapshot(archive[m], content[u]) /\ archive'[m] = content[u]
    BY <1>2, <1>3, <1>5 DEF Ingest, ArchiveInv
  <2>2. archive[m] # NoSnapshot /\ content[v].at <= archive[m].at
    BY <1>5 DEF Latest
  <2>3. PICK o \in 1..published : content[o].message = m /\ archive[m] = content[o]
    BY <2>2 DEF ArchiveInv, OnFile, SnapshotsOf
  <2>4. content[o].at \in Nat /\ (content[o].edited <=> content[o].at # 0)
    BY PublishedTyped DEF ArchiveInv, Ordered
  <2>5. content[v].at <= content[u].at
    BY <1>2, <2>1, <2>2, <2>3, <2>4 DEF HasNewerSnapshot
  <2> QED BY <1>0, <1>2, <1>5, <2>1, <2>5 DEF Latest
<1> QED BY <1>4, <1>5

\* Only the admission of its jobs has an update handled.
LEMMA PumpHandles ==
  ASSUME IntakeInv,
         \/ Begin \/ RecordProcessed \/ RecordFailure \/ Restart
         \/ (\E u \in Updates : WaitOver(u))
  PROVE  published' = published /\ \A u \in Updates : Handled(u)' => Handled(u)
<1>1. CASE Begin
  BY <1>1 DEF Begin, Handled
<1>2. CASE RecordProcessed
  <2>1. /\ worker.phase = "handled" /\ worker'.phase = "idle" /\ published' = published
        /\ \A u \in Updates : u # worker.at => inbox'[u] = inbox[u]
    BY <1>2, ProcessedKeeps DEF RecordProcessed, LetGo, IntakeInv, IntakeTypeOK, WorkerStates
  <2> QED BY <2>1 DEF Handled
<1>3. CASE RecordFailure
  <2>1. /\ worker'.phase = "idle" /\ published' = published
        /\ \A u \in Updates : u # worker.at => inbox'[u] = inbox[u]
        /\ inbox'[worker.at].status \in {"open", "failed"}
    BY <1>3, FailureKeeps DEF RecordFailure, LetGo, IntakeInv, IntakeTypeOK, WorkerStates
  <2> QED BY <2>1 DEF Handled
<1>4. CASE Restart
  BY <1>4 DEF Restart, Resting, Handled
<1>5. ASSUME NEW u \in Updates, WaitOver(u) PROVE published' = published /\ \A v \in Updates : Handled(v)' => Handled(v)
  <2>1. worker' = worker /\ published' = published
    BY <1>5 DEF WaitOver
  <2> QED BY <1>5, <2>1, WaitKeeps DEF Handled
<1> QED BY <1>1, <1>2, <1>3, <1>4, <1>5

LEMMA AssessmentsStand ==
  ASSUME IntakeInv, ContentsOK, AssessmentsAdmitted, UNCHANGED <<published, content>>,
         \A j \in AssessKeys : jobs'[j] = "absent" <=> jobs[j] = "absent",
         \A u \in 1..published : (Latest(u) => Latest(u)') /\ (Handled(u)' => Handled(u))
  PROVE  AssessmentsAdmitted'
<1>1. \A u \in 1..published : AssessKey(content[u]) \in AssessKeys
  BY SnapshotKeys
<1>2. \A u \in 1..published : Handled(u)' => jobs'[AssessKey(content[u])] # "absent"
  BY <1>1 DEF AssessmentsAdmitted
<1>3. \A j \in AssessKeys : jobs'[j] # "absent" =>
        \E u \in 1..published : j = AssessKey(content[u]) /\ Latest(u)'
  BY DEF AssessmentsAdmitted
<1> QED BY <1>2, <1>3 DEF AssessmentsAdmitted, AssessKey

LEMMA ReassessmentsStand ==
  ASSUME JobTables, ReassessmentsAdmitted, extraction' = extraction,
         \A j \in ReassessKeys : jobs'[j] = "absent" <=> jobs[j] = "absent",
         \A m \in Documents : jobs[ExtractKey(m)] = "open" => jobs'[ExtractKey(m)] = "open"
  PROVE  ReassessmentsAdmitted'
<1>1. \A m \in Documents, outcome \in Outcomes : ReassessKey(m, outcome) \in ReassessKeys
  BY DEF ReassessKey, ReassessKeys
<1>2. \A m \in Documents : extraction[m] # NotExtracted => extraction[m] \in Outcomes
  BY DEF JobTables
<1> QED BY <1>1, <1>2 DEF ReassessmentsAdmitted

\* The admission of an update's jobs.
LEMMA AdmitJobsAdmits ==
  ASSUME IntakeInv, ContentsOK, HandlersOK, JobTables, ArchiveInv, AdmittedInv, AdmitJobs
  PROVE  AdmittedInv'
<1>0. /\ worker.phase = "stored" /\ worker'.phase = "handled" /\ worker'.at = worker.at
      /\ UNCHANGED <<published, inbox, content, archive, extraction, assessor, extractor>>
  <2>1. Handle("stored", "handled") /\ UNCHANGED <<content, archive, extraction, assessor, extractor>>
    BY DEF AdmitJobs, inputVars, archiveVars
  <2> QED BY <2>1, HandlerPhases, HandleKeeps
<1>1. PICK u \in 1..published : u = worker.at
  BY <1>0, InHand
<1>2. Update = content[u] /\ content[u].message \in Album /\ Latest(u) /\ AssessKey(content[u]) \in AssessKeys
  BY <1>0, <1>1, PublishedTyped, SnapshotKeys DEF Update, ArchiveInv, Applied
<1>3. PICK due : due = {AssessKey(content[u])} \cup
                 (IF content[u].message \in Documents THEN {ExtractKey(content[u].message)} ELSE {})
  OBVIOUS
<1>4. jobs' = [j \in JobKeys |-> IF j \in due /\ jobs[j] = "absent" THEN "open" ELSE jobs[j]]
  BY <1>2, <1>3 DEF AdmitJobs
<1>5. \A j \in AssessKeys : jobs'[j] = IF j = AssessKey(content[u]) /\ jobs[j] = "absent" THEN "open" ELSE jobs[j]
  BY <1>2, <1>3, <1>4, KindsDiffer
<1>6. \A j \in ReassessKeys : jobs'[j] = jobs[j]
  BY <1>2, <1>3, <1>4, KindsDiffer
<1>7. \A j \in JobKeys : jobs[j] # "absent" => jobs'[j] = jobs[j]
  BY <1>4
<1>8. AssessmentsAdmitted'
  <2>1. \A v \in 1..published : Handled(v)' => v = u \/ Handled(v)
    BY <1>0, <1>1 DEF Handled
  <2>2. \A v \in 1..published : Handled(v)' => jobs'[AssessKey(content[v])] # "absent"
    BY <1>2, <1>5, <2>1, SnapshotKeys DEF AdmittedInv, AssessmentsAdmitted
  <2>3. \A j \in AssessKeys : jobs'[j] # "absent" =>
          \E v \in 1..published : j = AssessKey(content[v]) /\ Latest(v)
    BY <1>2, <1>5 DEF AdmittedInv, AssessmentsAdmitted
  <2> QED BY <1>0, <2>2, <2>3 DEF AssessmentsAdmitted, AssessKey, Latest
<1>9. ReassessmentsAdmitted'
  <2>1. \A m \in Documents : jobs[ExtractKey(m)] = "open" => jobs'[ExtractKey(m)] = "open"
    BY <1>7, KindsDiffer
  <2> QED BY <1>0, <1>6, <2>1, ReassessmentsStand DEF AdmittedInv
<1>10. HandlersHaveJobs'
  <2>1. assessor = Free \/ (assessor.job \in AssessKeys \cup ReassessKeys /\ jobs'[assessor.job] = "open")
    BY <1>7, KindsDiffer DEF AdmittedInv, HandlersHaveJobs
  <2>2. extractor.phase # "idle" => jobs'[extractor.job] = "open"
    BY <1>7, KindsDiffer DEF AdmittedInv, HandlersHaveJobs, HandlersOK
  <2> QED BY <1>0, <2>1, <2>2 DEF AdmittedInv, HandlersHaveJobs, Candidate
<1> QED BY <1>8, <1>9, <1>10 DEF AdmittedInv

\* What an extraction came to is seen to by the job that is open.
LEMMA PersistAdmits ==
  ASSUME ContentsOK, HandlersOK, JobTables, AdmittedInv, Persist
  PROVE  ReassessmentsAdmitted' /\ HandlersHaveJobs'
<1>1. PICK m \in Documents : extractor.job = ExtractKey(m)
  BY DEF HandlersOK, Persist
<1>2. Candidate = m /\ extraction[m] = NotExtracted /\ jobs[ExtractKey(m)] = "open"
  BY <1>1 DEF Candidate, ExtractKey, Persist, AdmittedInv, HandlersHaveJobs
<1>3. world.text[m] \in Outcomes
  BY AlbumAssumption DEF ContentsOK, Worlds
<1>4. PICK outcome \in Outcomes : outcome = world.text[m]
  BY <1>3
<1>5. /\ extraction' = [extraction EXCEPT ![m] = outcome] /\ UNCHANGED <<jobs, assessor>>
      /\ extractor' = [extractor EXCEPT !.phase = "persisted"]
  BY <1>2, <1>4 DEF Persist, ExtractorStays
<1>6. extraction'[m] = outcome /\ \A k \in Documents : k # m => extraction'[k] = extraction[k]
  BY <1>5 DEF JobTables
<1>7. NotExtracted \notin Outcomes
  BY DEF NotExtracted, Outcomes
<1>8. \A k \in Documents, o \in Outcomes : jobs[ReassessKey(k, o)] # "absent" => extraction'[k] = o
  BY <1>2, <1>6, <1>7 DEF AdmittedInv, ReassessmentsAdmitted
<1>9. \A k \in Documents : extraction'[k] # NotExtracted /\ jobs[ReassessKey(k, extraction'[k])] = "absent" =>
         jobs[ExtractKey(k)] = "open"
  BY <1>2, <1>6 DEF AdmittedInv, ReassessmentsAdmitted
<1>10. ReassessmentsAdmitted'
  BY <1>5, <1>8, <1>9 DEF ReassessmentsAdmitted
<1>11. extractor' = [job |-> ExtractKey(m), phase |-> "persisted"]
  BY <1>1, <1>5 DEF HandlersOK
<1>12. HandlersHaveJobs'
  BY <1>2, <1>5, <1>11 DEF AdmittedInv, HandlersHaveJobs
<1> QED BY <1>10, <1>12

\* The reassessment is there before the job that called for it is ended.
LEMMA ReassessAdmits ==
  ASSUME HandlersOK, JobTables, AdmittedInv, EnqueueReassessment
  PROVE  /\ ReassessmentsAdmitted' /\ HandlersHaveJobs'
         /\ \A j \in AssessKeys : jobs'[j] = jobs[j]
         /\ \A j \in ReassessKeys : jobs'[j] = jobs[j] \/ (jobs[j] = "absent" /\ jobs'[j] = "open")
<1>1. PICK m \in Documents : extractor.job = ExtractKey(m)
  BY DEF HandlersOK, EnqueueReassessment
<1>2. Candidate = m /\ extraction[m] \in Outcomes
  BY <1>1 DEF Candidate, ExtractKey, HandlersOK, EnqueueReassessment
<1>3. PICK key \in ReassessKeys : key = ReassessKey(m, extraction[m])
  <2>1. \A outcome \in Outcomes : ReassessKey(m, outcome) \in ReassessKeys
    BY DEF ReassessKey, ReassessKeys
  <2> QED BY <1>2, <2>1
<1>4. /\ jobs' = [jobs EXCEPT ![key] = IF @ = "absent" THEN "open" ELSE @, ![ExtractKey(m)] = "ended"]
      /\ extractor' = Waiting /\ UNCHANGED <<extraction, assessor>>
  BY <1>1, <1>2, <1>3 DEF EnqueueReassessment, ExtractorStays
<1>5. key # ExtractKey(m) /\ key \in JobKeys /\ ExtractKey(m) \in JobKeys
  BY KindsDiffer
<1>6. /\ jobs'[key] = IF jobs[key] = "absent" THEN "open" ELSE jobs[key]
      /\ \A j \in JobKeys : j # key /\ j # ExtractKey(m) => jobs'[j] = jobs[j]
  BY <1>4, <1>5 DEF JobTables
<1>7. \A j \in AssessKeys : jobs'[j] = jobs[j]
  BY <1>6, KindsDiffer
<1>8. \A j \in ReassessKeys : j # key => jobs'[j] = jobs[j]
  BY <1>6, KindsDiffer
<1>9. \A k \in Documents : k # m => jobs'[ExtractKey(k)] = jobs[ExtractKey(k)]
  <2>1. \A k \in Documents : ExtractKey(k)[2] = k
    BY DEF ExtractKey
  <2> QED BY <1>6, <2>1, KindsDiffer
<1>10. ReassessmentsAdmitted'
  <2>1. ASSUME NEW k \in Documents, NEW outcome \in Outcomes, jobs'[ReassessKey(k, outcome)] # "absent"
        PROVE  extraction[k] = outcome
    <3>1. CASE ReassessKey(k, outcome) = key
      BY <1>3, <3>1 DEF ReassessKey
    <3>2. CASE ReassessKey(k, outcome) # key
      <4>1. ReassessKey(k, outcome) \in ReassessKeys
        BY DEF ReassessKey, ReassessKeys
      <4> QED BY <1>8, <2>1, <3>2, <4>1 DEF AdmittedInv, ReassessmentsAdmitted
    <3> QED BY <3>1, <3>2
  <2>2. ASSUME NEW k \in Documents, extraction[k] # NotExtracted,
               jobs'[ReassessKey(k, extraction[k])] = "absent"
        PROVE  jobs'[ExtractKey(k)] = "open"
    <3>1. extraction[k] \in Outcomes /\ ReassessKey(k, extraction[k]) \in ReassessKeys
      BY <2>2 DEF JobTables, ReassessKey, ReassessKeys
    <3>2. k # m
      BY <1>3, <1>6, <2>2
    <3>3. ReassessKey(k, extraction[k]) # key
      BY <1>3, <3>2 DEF ReassessKey
    <3>4. jobs[ExtractKey(k)] = "open"
      BY <1>8, <2>2, <3>1, <3>3 DEF AdmittedInv, ReassessmentsAdmitted
    <3> QED BY <1>9, <3>2, <3>4
  <2> QED BY <1>4, <2>1, <2>2 DEF ReassessmentsAdmitted
<1>11. HandlersHaveJobs'
  <2>1. \A j \in AssessKeys \cup ReassessKeys : jobs[j] = "open" => jobs'[j] = "open"
    BY <1>6, <1>7, <1>8
  <2> QED BY <1>4, <2>1 DEF AdmittedInv, HandlersHaveJobs, Waiting
<1> QED BY <1>6, <1>7, <1>8, <1>10, <1>11

\* An assessment that is over leaves its own job behind, ended, failed or open.
LEMMA AssessmentOver ==
  ASSUME HandlersOK, JobTables, AdmittedInv, Act \/ ActConflicts
  PROVE  /\ ReassessmentsAdmitted' /\ HandlersHaveJobs'
         /\ \A j \in AssessKeys \cup ReassessKeys : j # assessor.job => jobs'[j] = jobs[j]
         /\ \A j \in AssessKeys : jobs'[j] = "absent" <=> jobs[j] = "absent"
<1>1. /\ assessor.job \in AssessKeys \cup ReassessKeys /\ jobs[assessor.job] = "open"
      /\ assessor' = Free /\ UNCHANGED <<extraction, extractor>>
  BY NothingTyped DEF Act, ActConflicts, EndAssessment, AssessorStays, archiveVars, AdmittedInv, HandlersHaveJobs
<1>2. PICK own \in JobKeys : own = assessor.job
  BY <1>1, KindsDiffer
<1>3. jobs'[own] # "absent" /\ \A j \in JobKeys : j # own => jobs'[j] = jobs[j]
  BY <1>1, <1>2 DEF Act, ActConflicts, EndAssessment, JobTables
<1>4. \A j \in AssessKeys \cup ReassessKeys : /\ jobs'[j] = "absent" <=> jobs[j] = "absent"
                                              /\ j # assessor.job => jobs'[j] = jobs[j]
  BY <1>1, <1>2, <1>3, KindsDiffer
<1>5. \A m \in Documents : jobs'[ExtractKey(m)] = jobs[ExtractKey(m)]
  BY <1>1, <1>2, <1>3, KindsDiffer
<1>6. ReassessmentsAdmitted'
  BY <1>1, <1>4, <1>5, ReassessmentsStand DEF AdmittedInv
<1>7. HandlersHaveJobs'
  BY <1>1, <1>5 DEF AdmittedInv, HandlersHaveJobs, HandlersOK, Candidate
<1> QED BY <1>4, <1>6, <1>7

LEMMA AdmittedKeep ==
  ASSUME IntakeInv, ContentsOK, HandlersOK, JobTables, RowsTyped, ArchiveInv, AdmittedInv, [Next]_vars
  PROVE  AdmittedInv'
<1> USE DEF jobVars, archiveVars, inputVars
<1>a. ASSUME UNCHANGED <<extraction, jobs>>, assessor' = assessor \/ assessor' = Free,
             extractor' = extractor \/ extractor' = Waiting
      PROVE  ReassessmentsAdmitted' /\ HandlersHaveJobs'
  BY <1>a DEF AdmittedInv, ReassessmentsAdmitted, HandlersHaveJobs, Candidate, Waiting
<1>b. ASSUME UNCHANGED <<published, content, archive>>,
             \A j \in AssessKeys : jobs'[j] = "absent" <=> jobs[j] = "absent",
             \A u \in 1..published : Handled(u)' => Handled(u)
      PROVE  AssessmentsAdmitted'
  BY <1>b, AssessmentsStand DEF AdmittedInv, Latest
<1>c. ASSUME UNCHANGED <<published, inbox, worker, content, archive>>,
             \A j \in AssessKeys : jobs'[j] = "absent" <=> jobs[j] = "absent"
      PROVE  AssessmentsAdmitted'
  BY <1>b, <1>c DEF Handled
<1>d. ASSUME UNCHANGED <<published, inbox, worker, content, archive, extraction, jobs>>,
             assessor' = assessor \/ assessor' = Free, extractor' = extractor \/ extractor' = Waiting
      PROVE  AdmittedInv'
  BY <1>a, <1>c, <1>d DEF AdmittedInv
<1>1. ASSUME NEW m \in Album, Post(m) \/ Edit(m) PROVE AdmittedInv'
  <2>1. PICK snapshot \in Snapshots : snapshot.message = m /\ Arrive(snapshot)
    BY <1>1, ArrivalIsSnapshot
  <2>2. /\ published' = published + 1 /\ published \in Nat /\ published' \in Updates
        /\ \A u \in {NoUpdate} \cup Updates : u # published' => content'[u] = content[u]
        /\ \A u \in Updates : u # published' => inbox'[u] = inbox[u]
        /\ inbox'[published'].status = "open" /\ worker' = worker
    BY <2>1, ArriveKeeps
  <2>3. UNCHANGED <<archive, extraction, jobs, assessor, extractor>>
    BY <2>1 DEF Arrive
  <2>4. \A u \in 1..published : u \in 1..published' /\ content'[u] = content[u] /\ inbox'[u] = inbox[u]
    BY <2>2, PublishedTyped
  <2>5. \A u \in 1..published' : Handled(u)' => u \in 1..published
    <3>1. worker.phase # "idle" => worker.at \in 1..published
      BY InHand
    <3>2. \A u \in 1..published' : u = published' \/ u \in 1..published
      BY <2>2
    <3> QED BY <2>2, <3>1, <3>2 DEF Handled
  <2>6. AssessmentsAdmitted'
    <3>1. \A u \in 1..published' : Handled(u)' => jobs[AssessKey(content[u])] # "absent"
      BY <2>2, <2>4, <2>5 DEF Handled, AdmittedInv, AssessmentsAdmitted
    <3>2. \A u \in 1..published' : Handled(u)' => jobs'[AssessKey(content'[u])] # "absent"
      BY <2>3, <2>4, <2>5, <3>1 DEF AssessKey
    <3>3. \A j \in AssessKeys : jobs'[j] # "absent" =>
            \E u \in 1..published' : j = AssessKey(content'[u]) /\ Latest(u)'
      BY <2>3, <2>4 DEF AdmittedInv, AssessmentsAdmitted, AssessKey, Latest
    <3> QED BY <3>2, <3>3 DEF AssessmentsAdmitted, AssessKey
  <2> QED BY <1>a, <2>3, <2>6 DEF AdmittedInv
<1>2. CASE Pump \/ HandlerRaises \/ Crash
  <2>1. /\ \/ Begin \/ RecordProcessed \/ RecordFailure \/ Restart
           \/ (\E u \in Updates : WaitOver(u))
        /\ UNCHANGED <<content, archive, extraction, jobs>>
        /\ assessor' = assessor \/ assessor' = Free
        /\ extractor' = extractor \/ extractor' = Waiting
    BY <1>2 DEF Pump, HandlerRaises, Crash
  <2>2. published' = published /\ \A u \in 1..published : Handled(u)' => Handled(u)
    BY <2>1, PumpHandles, PublishedTyped
  <2> QED BY <1>a, <1>b, <2>1, <2>2 DEF AdmittedInv
<1>3. CASE Ingest
  <2>1. Handle("read", "stored") /\ UNCHANGED <<content, extraction, jobs, assessor, extractor>>
    BY <1>3 DEF Ingest
  <2>2. worker'.phase = "stored" /\ UNCHANGED <<published, inbox>>
    BY <2>1, HandlerPhases, HandleKeeps
  <2>3. \A u \in 1..published : (Latest(u) => Latest(u)') /\ (Handled(u)' => Handled(u))
    BY <1>3, <2>2, LatestStays DEF Handled
  <2>4. AssessmentsAdmitted'
    BY <2>1, <2>2, <2>3, AssessmentsStand DEF AdmittedInv
  <2> QED BY <1>a, <2>1, <2>4 DEF AdmittedInv
<1>4. CASE AdmitJobs
  BY <1>4, AdmitJobsAdmits
<1>5. ASSUME NEW m \in Documents, LoadCandidate(m) PROVE AdmittedInv'
  <2>1. /\ UNCHANGED <<published, inbox, worker, content, archive, extraction, jobs, assessor>>
        /\ jobs[ExtractKey(m)] = "open"
        /\ extractor' = [job |-> ExtractKey(m),
                         phase |-> IF extraction[m] = NotExtracted THEN "loaded" ELSE "persisted"]
    BY <1>5 DEF LoadCandidate, ExtractorStays, pumpVars
  <2>2. Candidate' = m
    BY <2>1 DEF Candidate, ExtractKey
  <2>3. HandlersHaveJobs' /\ ReassessmentsAdmitted'
    BY <2>1, <2>2 DEF AdmittedInv, HandlersHaveJobs, ReassessmentsAdmitted
  <2> QED BY <1>c, <2>1, <2>3 DEF AdmittedInv
<1>6. CASE Persist
  BY <1>6, <1>c, PersistAdmits DEF Persist, ExtractorStays, pumpVars, AdmittedInv
<1>7. CASE EnqueueReassessment
  <2>1. UNCHANGED <<published, inbox, worker, content, archive>>
    BY <1>7 DEF EnqueueReassessment, ExtractorStays, pumpVars
  <2> QED BY <1>7, <1>c, <2>1, ReassessAdmits DEF AdmittedInv
<1>8. CASE ExtractionRaises
  BY <1>8, <1>d DEF ExtractionRaises
<1>9. ASSUME NEW j \in AssessKeys \cup ReassessKeys, Read(j) PROVE AdmittedInv'
  <2>1. /\ UNCHANGED <<published, inbox, worker, content, archive, extraction, jobs, extractor>>
        /\ assessor'.job = j /\ jobs[j] = "open"
    BY <1>9, ReadTakes DEF pumpVars
  <2>2. HandlersHaveJobs' /\ ReassessmentsAdmitted'
    BY <2>1 DEF AdmittedInv, HandlersHaveJobs, ReassessmentsAdmitted, Candidate
  <2> QED BY <1>c, <2>1, <2>2 DEF AdmittedInv
<1>10. CASE Store
  <2>1. /\ UNCHANGED <<published, inbox, worker, content, archive, extraction, jobs, extractor>>
        /\ assessor'.job = assessor.job /\ assessor # Free
    BY <1>10, StoreTakes, NothingTyped DEF pumpVars
  <2>2. HandlersHaveJobs' /\ ReassessmentsAdmitted'
    BY <2>1 DEF AdmittedInv, HandlersHaveJobs, ReassessmentsAdmitted, Candidate
  <2> QED BY <1>c, <2>1, <2>2 DEF AdmittedInv
<1>11. CASE Act \/ ActConflicts
  <2>1. UNCHANGED <<published, inbox, worker, content, archive>>
    BY <1>11 DEF Act, ActConflicts, AssessorStays, pumpVars
  <2> QED BY <1>11, <1>c, <2>1, AssessmentOver DEF AdmittedInv
<1>12. CASE \E w \in Senders :
             \/ PollRows(w) \/ SkipRow(w) \/ Send(w) \/ SendUnanswered(w) \/ SendRefused(w)
             \/ ReadBack(w) \/ Record(w) \/ EndRow(w)
  BY <1>12, <1>d DEF PollRows, PollQueue, SkipRow, Send, SendUnanswered, SendRefused, ReadBack, Record, EndRow,
                     SenderStays, Unlucky, pumpVars
<1>13. CASE \E k \in Keys : Due(k)
  BY <1>13, <1>d DEF Due, SenderStays, pumpVars
<1>14. CASE UNCHANGED vars
  BY <1>14, <1>d DEF vars, pumpVars
<1>15. (\E m \in Album : Post(m)) \/ (\E m \in Captioned : Edit(m)) => AdmittedInv'
  BY <1>1, AlbumAssumption
<1> QED BY <1>2, <1>3, <1>4, <1>5, <1>6, <1>7, <1>8, <1>9, <1>10, <1>11, <1>12, <1>13, <1>14, <1>15 DEF Next

----------------------------------------------------------------------------
(***************************************************************************)
(* Filed under what is known, or on the way there                          *)
(***************************************************************************)
\* What there is to say of an album depends on nothing but its archive, its texts and the topic.
LEMMA ScoreStands ==
  ASSUME UNCHANGED <<archive, extraction, world>>
  PROVE  /\ Archived' = Archived /\ Score(Archived)' = Score(Archived)
         /\ RouteOf(Score(Archived))' = RouteOf(Score(Archived))
         /\ \A evidence : Agrees(evidence)' <=> Agrees(evidence)
<1>1. Archived' = Archived
  BY DEF Archived
<1>2. \A ids : Score(ids)' = Score(ids)
  BY DEF Score, Extracted, Weight
<1>3. Score(Archived)' = Score(Archived)
  BY <1>1, <1>2
<1> QED BY <1>1, <1>3 DEF RouteOf, Agrees

\* An album that calls for something has messages.
LEMMA RoutedHasMessages ==
  RouteOf(Score(Archived)) # "leave" => Archived \in Sets /\ ReviewKey(Archived) \in Keys
<1>1. RouteOf(0) = "leave"
  BY DEF RouteOf
<1>2. Archived = {} => Score(Archived) = 0
  BY ScoreBounded
<1> QED BY <1>1, <1>2, ArchivedInAlbum, KeyAssumption DEF Sets

\* What is live is scheduled.
LEMMA LiveScheduled ==
  /\ \A ids \in Sets : Live(ids) => ids \subseteq Scheduled
  /\ \A m \in Scheduled : \E ids \in Sets : Live(ids) /\ m \in ids
<1> QED BY DEF Scheduled, Live, LiveStatus, Sets

LEMMA LiveStays ==
  ASSUME \A ids \in Sets : Live(ids) => Live(ids)'
  PROVE  Scheduled \subseteq Scheduled'
<1>1. \A m \in Scheduled : \E ids \in Sets : Live(ids)' /\ m \in ids
  BY LiveScheduled
<1> QED BY <1>1 DEF Scheduled, Live, LiveStatus

\* A row that was enqueued stays, and says what it said.
OpsKept == \A k \in Keys : outbox[k].status # "absent" =>
             outbox'[k].status # "absent" /\ outbox'[k].op = outbox[k].op

\* A review stands for as long as what it is about.
LEMMA ReviewStands ==
  ASSUME UNCHANGED <<archive, extraction, world>>, OpsKept, Reviewed,
         RouteOf(Score(Archived)) # "leave"
  PROVE  Reviewed'
<1>1. Archived' = Archived /\ Score(Archived)' = Score(Archived)
  BY ScoreStands
<1>2. ReviewKey(Archived) \in Keys /\ ReviewKey(Archived)' = ReviewKey(Archived)
  BY <1>1, RoutedHasMessages DEF ReviewKey
<1> QED BY <1>1, <1>2 DEF OpsKept, Reviewed

\* A step that changes nothing the score depends on, and leaves each live row alive, and to be
\* confirmed unless it completes the album.
LEMMA FiledStands ==
  ASSUME Filed, UNCHANGED <<archive, extraction, world, assessor>>, OpsKept,
         \A ids \in Sets : Live(ids) => Live(ids)',
         \/ overwritten'
         \/ /\ ~overwritten /\ (Agrees(material.evidence) => Agrees(material'.evidence))
            /\ \/ material'.state = "completed"
               \/ /\ material'.state = material.state
                  /\ \A ids \in Sets : Live(ids) /\ CopyKey(ids) \notin confirmed => CopyKey(ids) \notin confirmed'
  PROVE  Filed'
<1>1. /\ Archived' = Archived /\ Score(Archived)' = Score(Archived)
      /\ RouteOf(Score(Archived))' = RouteOf(Score(Archived))
      /\ \A evidence : Agrees(evidence)' <=> Agrees(evidence)
  BY ScoreStands
<1>2. Agrees(assessor.evidence)' <=> Agrees(assessor.evidence)
  BY <1>1 DEF Agrees
<1>3. AboutToCopy' = AboutToCopy /\ (AboutToReview' <=> AboutToReview)
  BY <1>1 DEF AboutToCopy, AboutToReview, Action
<1>4. AlbumFiled => AlbumFiled'
  BY <1>1, <1>3, LiveStays, ReviewStands DEF AlbumFiled
<1>5. RowFiled /\ ~overwritten' => RowFiled'
  <2>1. SUFFICES ASSUME RowFiled, ~overwritten' PROVE RowFiled'
    OBVIOUS
  <2>2. Agrees(material'.evidence)
    BY <2>1 DEF RowFiled
  <2>3. Agrees(material.evidence)'
    BY <1>1, <2>2 DEF Agrees
  <2> QED BY <1>1, <1>3, <2>1, <2>3 DEF RowFiled
<1> QED BY <1>2, <1>4, <1>5 DEF Filed

\* What waits goes on waiting as long as it is neither ended nor taken up.
LEMMA WaitingStands ==
  ASSUME IntakeInv, ContentsOK, JobTables, Unassessed, UNCHANGED <<published, content, extraction>>,
         \A j \in AssessKeys \cup ReassessKeys : Waits(j) => Waits(j)'
  PROVE  Unassessed'
<1>1. CASE \E u \in 1..published : Waits(AssessKey(content[u]))
  <2>1. PICK u \in 1..published : Waits(AssessKey(content[u]))
    BY <1>1
  <2>2. Waits(AssessKey(content[u]))'
    BY <2>1, SnapshotKeys DEF AssessKey
  <2> QED BY <2>2 DEF Unassessed
<1>2. CASE \E m \in Documents : extraction[m] # NotExtracted /\ Waits(ReassessKey(m, extraction[m]))
  <2>1. PICK m \in Documents : extraction[m] # NotExtracted /\ Waits(ReassessKey(m, extraction[m]))
    BY <1>2
  <2>2. ReassessKey(m, extraction[m]) \in ReassessKeys
    <3>1. \A outcome \in Outcomes : ReassessKey(m, outcome) \in ReassessKeys
      BY DEF ReassessKey, ReassessKeys
    <3> QED BY <2>1, <3>1 DEF JobTables
  <2>3. Waits(ReassessKey(m, extraction[m]))'
    BY <2>1, <2>2 DEF ReassessKey
  <2> QED BY <2>1, <2>3 DEF Unassessed
<1> QED BY <1>1, <1>2 DEF Unassessed

\* An assessment that is given up is made again: its job stands for what it was about.
LEMMA GivenUpWaits ==
  ASSUME IntakeInv, ContentsOK, AdmittedInv, assessor # Free, assessor' = Free,
         UNCHANGED <<published, content, extraction, jobs>>
  PROVE  Unassessed'
<1>1. /\ assessor.job \in AssessKeys \cup ReassessKeys
      /\ jobs[assessor.job] = "open" /\ assessor'.job = NoJob
  BY DEF AdmittedInv, HandlersHaveJobs, Free
<1>2. PICK j \in AssessKeys \cup ReassessKeys : j = assessor.job
  BY <1>1
<1>3. Waits(j)'
  BY <1>1, <1>2, KindsDiffer DEF Waits
<1>4. CASE j \in AssessKeys
  <2>1. PICK u \in 1..published : j = AssessKey(content[u])
    BY <1>1, <1>2, <1>4 DEF AdmittedInv, AssessmentsAdmitted
  <2>2. j = AssessKey(content[u])'
    BY <2>1 DEF AssessKey
  <2> QED BY <1>3, <2>2 DEF Unassessed
<1>5. CASE j \in ReassessKeys
  <2>1. PICK m \in Documents, outcome \in Outcomes : j = ReassessKey(m, outcome)
    BY <1>5 DEF ReassessKeys, ReassessKey
  <2>2. extraction[m] = outcome /\ outcome # NotExtracted
    BY <1>1, <1>2, <2>1 DEF AdmittedInv, ReassessmentsAdmitted, NotExtracted, Outcomes
  <2>3. j = ReassessKey(m, extraction[m])'
    BY <2>1, <2>2 DEF ReassessKey
  <2> QED BY <1>3, <2>2, <2>3 DEF Unassessed
<1> QED BY <1>4, <1>5

\* A step beside the assessment.
LEMMA FiledInvStands ==
  ASSUME IntakeInv, ContentsOK, JobTables, AdmittedInv, FiledInv,
         UNCHANGED <<published, content, world, archive, extraction, outbox, confirmed, jobs, collided>>,
         UNCHANGED <<material, overwritten>>,
         assessor' = assessor \/ assessor' = Free
  PROVE  FiledInv'
<1>1. CASE assessor' = assessor
  <2>1. Filed => Filed'
    BY <1>1, FiledStands DEF Live, OpsKept
  <2>2. Unassessed => Unassessed'
    BY <1>1, WaitingStands DEF Waits
  <2> QED BY <2>1, <2>2 DEF FiledInv, RowFailed
<1>2. CASE assessor' = Free /\ assessor # Free
  BY <1>2, GivenUpWaits DEF FiledInv
<1> QED BY <1>1, <1>2

\* A copy on record was scheduled, and still is.
LEMMA ConfirmedIsLive ==
  ASSUME TypeInv, BackedInv, ~RowFailed, NEW ids \in Sets, CopyKey(ids) \in confirmed
  PROVE  Live(ids)
<1>1. outbox[CopyKey(ids)].status \notin {"absent", "failed"}
  BY CopyKeys DEF BackedInv, CopiesBacked, RowFailed
<1> QED BY <1>1, CopyKeys DEF Live, LiveStatus, TypeInv, OutboxTypeOK

\* An assessment that has read what there is to say of the album schedules what is not
\* scheduled yet, and files the album under it.
LEMMA StoreFiles ==
  ASSUME TypeInv, RowsTyped, HandlersOK, BackedInv, Agrees(assessor.evidence), ~RowFailed, Store
  PROVE  Filed'
<1>1. /\ UNCHANGED <<archive, extraction, world, outbox, confirmed>>
      /\ assessor'.phase = "stored"
      /\ Action' = [route |-> ActionRoute, ids |-> ActionIds, score |-> assessor.evidence.score]
      /\ ~overwritten' => /\ ~overwritten /\ material = assessor.seen
                          /\ material'.evidence = assessor.evidence /\ material'.state = StateAfter
  BY StoreTakes DEF outboxVars, archiveVars, inputVars, Action
<1>2. /\ Archived' = Archived /\ Score(Archived)' = Score(Archived)
      /\ RouteOf(Score(Archived))' = RouteOf(Score(Archived))
      /\ Agrees(assessor.evidence)' <=> Agrees(assessor'.evidence)
      /\ \A evidence : Agrees(evidence)' <=> Agrees(evidence)
  BY <1>1, ScoreStands DEF Agrees
<1>3. /\ assessor.evidence.ids = Archived /\ assessor.evidence.score = Score(Archived)
      /\ RouteNow = RouteOf(Score(Archived))
  BY DEF Agrees, RouteNow
<1>4. Scheduled' = Scheduled /\ \A ids \in Sets : Live(ids)' = Live(ids)
  BY <1>1 DEF Scheduled, Live
<1>5. ASSUME RouteNow = "auto_copy"
      PROVE  /\ ActionIds = Archived \ Scheduled /\ Archived # {}
             /\ ActionIds # {} => AboutToCopy' = ActionIds
  <2>1. ActionIds = Archived \ Scheduled
    BY <1>3, <1>5 DEF ActionIds
  <2>2. ActionIds # {} => ActionRoute = "auto_copy"
    BY <1>5 DEF ActionRoute
  <2>3. ActionIds # {} => AboutToCopy' = ActionIds
    BY <1>1, <2>2 DEF AboutToCopy
  <2> QED BY <1>3, <1>5, <2>1, <2>3, RoutedHasMessages DEF Sets
<1>6. ASSUME RouteNow = "admin_review" PROVE Scheduled # {} \/ AboutToReview'
  <2>1. CASE CopyKnown
    <3>1. CASE assessor.seen.destination # NoMessage
      <4>1. PICK ids \in Sets : CopyKey(ids) \in confirmed
        BY <3>1 DEF BackedInv, RowsBacked, RowBacked, CopiesBacked
      <4>2. Live(ids)
        BY <4>1, ConfirmedIsLive
      <4> QED BY <4>2, LiveScheduled DEF Sets
    <3> QED BY <2>1, <3>1 DEF CopyKnown
  <2>2. CASE ~CopyKnown
    <3>1. ActionRoute = "admin_review" /\ ActionIds = Archived
      BY <1>3, <1>6, <2>2 DEF ActionRoute, ActionIds
    <3> QED BY <1>1, <1>2, <1>3, <3>1 DEF AboutToReview
  <2> QED BY <2>1, <2>2
<1>7. AlbumFiled'
  <2>1. RouteNow = "auto_copy" => Archived \subseteq Scheduled \cup AboutToCopy'
    BY <1>5
  <2> QED BY <1>2, <1>3, <1>4, <1>6, <2>1 DEF AlbumFiled
<1>8. ASSUME ~overwritten' PROVE RowFiled'
  <2>1. Agrees(material.evidence)'
    BY <1>1, <1>2, <1>8 DEF Agrees
  <2>2. ASSUME RouteNow = "auto_copy", ActionIds = {}, material.destination # NoMessage
        PROVE  material'.state = "completed"
    BY <1>1, <1>8, <2>2 DEF StateAfter
  <2>3. ASSUME RouteNow = "auto_copy", ActionIds = {}, material.destination = NoMessage
        PROVE  \E ids \in Sets : Live(ids) /\ CopyKey(ids) \notin confirmed
    <3>1. PICK ids \in Sets : Live(ids)
      BY <1>5, <2>3, LiveScheduled
    <3>2. CopyKey(ids) \notin confirmed
      BY <2>3 DEF BackedInv, CopiesBacked
    <3> QED BY <3>1, <3>2
  <2> QED BY <1>1, <1>2, <1>3, <1>4, <1>5, <2>1, <2>2, <2>3 DEF RowFiled
<1> QED BY <1>1, <1>7, <1>8 DEF Filed

\* What has been decided is enqueued.
LEMMA ActFiles ==
  ASSUME TypeInv, IntakeInv, ContentsOK, HandlersOK, JobTables, CopyInv, BackedInv, AdmittedInv, FiledInv, Act
  PROVE  FiledInv'
<1>1. /\ UNCHANGED <<published, content, world, archive, extraction, material, overwritten>>
      /\ assessor' = Free /\ assessor.phase = "stored"
  BY DEF Act, EndAssessment, AssessorStays, pumpVars, inputVars, archiveVars
<1>2. collided => collided'
  BY DEF Act
<1>3. Unassessed => Unassessed'
  <2>1. \A j \in AssessKeys \cup ReassessKeys : j # assessor.job => jobs'[j] = jobs[j]
    BY AssessmentOver
  <2>2. \A j \in AssessKeys \cup ReassessKeys : Waits(j) => Waits(j)'
    BY <1>1, <2>1, KindsDiffer, NothingTyped DEF Waits
  <2> QED BY <1>1, <2>2, WaitingStands
<1>4. AboutToCopy' = {} /\ assessor'.phase = "idle"
  BY <1>1, NothingTyped DEF AboutToCopy, Action
<1>5. /\ Archived' = Archived /\ Score(Archived)' = Score(Archived)
      /\ RouteOf(Score(Archived))' = RouteOf(Score(Archived))
      /\ Agrees(material.evidence)' <=> Agrees(material.evidence)
  BY <1>1, ScoreStands DEF Agrees
\* What is left to show once nothing is about to be done.
<1>a. ASSUME OpsKept, \A ids \in Sets : Live(ids) => Live(ids)',
             RouteOf(Score(Archived)) = "auto_copy" => AboutToCopy \subseteq Scheduled',
             RouteOf(Score(Archived)) = "admin_review" /\ AboutToReview => Reviewed',
             AboutToCopy # {} => \E ids \in Sets : Live(ids)' /\ CopyKey(ids) \notin confirmed',
             confirmed' = confirmed
      PROVE  Filed => Filed'
  <2>1. Scheduled \subseteq Scheduled'
    BY <1>a, LiveStays
  <2>2. Reviewed /\ RouteOf(Score(Archived)) = "admin_review" => Reviewed'
    BY <1>1, <1>a, ReviewStands
  <2>3. AlbumFiled => AlbumFiled'
    BY <1>5, <1>a, <2>1, <2>2 DEF AlbumFiled
  <2>4. RowFiled => RowFiled'
    BY <1>1, <1>5, <1>a DEF RowFiled
  <2> QED BY <1>1, <1>4, <2>3, <2>4 DEF Filed
<1>6. CASE Action.route = "leave"
  <2>1. UNCHANGED <<outbox, confirmed>> /\ AboutToCopy = {} /\ ~AboutToReview
    BY <1>6 DEF Act, outboxVars, AboutToCopy, AboutToReview
  <2>2. Filed => Filed'
    BY <1>a, <2>1 DEF Live, OpsKept
  <2> QED BY <1>2, <1>3, <2>1, <2>2 DEF FiledInv, RowFailed
<1>7. CASE Action.route # "leave"
  <2>1. /\ Action.ids \in Sets /\ ActionKey \in Keys /\ Action.route \in Routes
        /\ ActionKey = IF Action.route = "auto_copy" THEN CopyKey(Action.ids) ELSE ReviewKey(Action.ids)
    BY <1>7, ActionHasRow DEF HandlersOK, Assessments, Actions, Action
  <2>2. /\ \A k \in Keys : k # ActionKey \/ outbox[k].status # "absent" => outbox'[k] = outbox[k]
        /\ outbox[ActionKey].status = "absent" => /\ outbox'[ActionKey].status = "pending"
                                                  /\ outbox'[ActionKey].op = ActionOp
        /\ outbox[ActionKey].status # "absent" => outbox[ActionKey].op = ActionOp
        /\ confirmed' = confirmed
    BY <1>7, <2>1 DEF Act, Enqueue, Enqueued, Conflict, TypeInv, OutboxTypeOK
  <2>3. RowFailed => RowFailed'
    BY <2>2 DEF RowFailed
  <2>4. (\A ids \in Sets : Live(ids) => Live(ids)') /\ OpsKept
    BY <2>2, CopyKeys DEF Live, LiveStatus, OpsKept
  <2>5. CASE Action.route # "auto_copy"
    <3>1. AboutToCopy = {} /\ Action.route = "admin_review" /\ ActionOp = Action.score
          /\ ActionKey = ReviewKey(Action.ids)
      BY <1>7, <2>1, <2>5 DEF AboutToCopy, Routes, ActionOp
    <3>2. AboutToReview => Reviewed'
      <4>1. SUFFICES ASSUME AboutToReview PROVE Reviewed'
        OBVIOUS
      <4>2. ActionKey = ReviewKey(Archived)' /\ ActionOp = Score(Archived)'
        BY <1>5, <3>1, <4>1 DEF AboutToReview, ReviewKey
      <4>3. outbox'[ActionKey].status # "absent" /\ outbox'[ActionKey].op = ActionOp
        BY <2>1, <2>2
      <4> QED BY <4>2, <4>3 DEF Reviewed
    <3>3. Filed => Filed'
      BY <1>a, <2>2, <2>4, <3>1, <3>2
    <3> QED BY <1>2, <1>3, <2>3, <3>3 DEF FiledInv
  <2>6. CASE Action.route = "auto_copy"
    <3>0. PICK own \in Sets : own = Action.ids
      BY <2>1
    <3>1. ActionKey = CopyKey(own) /\ AboutToCopy = own /\ own # {} /\ ~AboutToReview
      BY <2>1, <2>6, <3>0 DEF AboutToCopy, AboutToReview, Sets
    <3>2. ~Live(own)
      BY <2>6, <3>0, <3>1 DEF CopyInv, ActionIsFresh
    <3>3. CASE outbox[ActionKey].status = "failed"
      <4>1. collided'
        BY <1>7, <3>3 DEF Act
      <4> QED BY <4>1 DEF FiledInv
    <3>4. CASE outbox[ActionKey].status = "absent"
      <4>1. Live(own)' /\ CopyKey(own) \notin confirmed'
        BY <2>1, <2>2, <3>1, <3>4 DEF Live, LiveStatus, BackedInv, CopiesBacked, CopyKey
      <4>2. own \subseteq Scheduled'
        BY <4>1 DEF Scheduled, Live, LiveStatus
      <4>3. Filed => Filed'
        BY <1>a, <2>2, <2>4, <3>1, <4>1, <4>2
      <4> QED BY <1>2, <1>3, <2>3, <4>3 DEF FiledInv
    <3>5. outbox[ActionKey].status \in LiveStatus \cup {"failed", "absent"}
      BY <2>1 DEF TypeInv, OutboxTypeOK, LiveStatus
    <3> QED BY <3>1, <3>2, <3>3, <3>4, <3>5 DEF Live
  <2> QED BY <2>5, <2>6
<1> QED BY <1>6, <1>7

\* What a worker does to the rows keeps them alive, or fails one for good.
LEMMA RowsLiveOrFail ==
  ASSUME TypeInv,
         \/ \E w \in Senders, k \in Keys : Claim(w, k)
         \/ \E w \in Senders : Sweep(w) \/ Sent(w) \/ Fail(w)
         \/ \E k \in Keys : Elapse(k)
  PROVE  /\ \A k \in Keys : outbox[k].status \in LiveStatus => outbox'[k].status \in LiveStatus \cup {"failed"}
         /\ RowFailed => RowFailed'
<1> DEFINE Goal == \A k \in Keys :
      /\ outbox[k].status \in LiveStatus => outbox'[k].status \in LiveStatus \cup {"failed"}
      /\ outbox[k].status = "failed" => outbox'[k].status = "failed"
<1>1. ASSUME NEW w \in Senders, NEW k \in Keys, Claim(w, k) PROVE Goal
  <2>1. /\ outbox[k].status \in Open /\ outbox'[k].status = "sending"
        /\ \A j \in Keys \ {k} : outbox'[j] = Swept[j]
    BY <1>1, ClaimKeeps
  <2>2. \A j \in Keys : \/ Swept[j] = outbox[j]
                        \/ outbox[j].status = "sending" /\ Swept[j].status = "failed"
    BY SweptKeeps DEF TypeInv
  <2> QED BY <2>1, <2>2 DEF Open, LiveStatus
<1>2. ASSUME NEW w \in Senders, Sent(w) \/ Fail(w) PROVE Goal
  <2>1. \A k \in Keys : \/ outbox'[k] = outbox[k]
                        \/ outbox[k].status = "sending" /\ outbox'[k].status \in {"sent", "failed", "pending"}
    BY <1>2, Reports, ReleaseKeeps
  <2> QED BY <2>1 DEF LiveStatus
<1>3. ASSUME NEW k \in Keys, Elapse(k) PROVE Goal
  BY <1>3 DEF Elapse, TypeInv, OutboxTypeOK, LiveStatus
<1>4. ASSUME NEW w \in Senders, Sweep(w) PROVE Goal
  BY <1>4, SweptKeeps DEF Sweep, TypeInv, LiveStatus
<1>5. Goal
  BY <1>1, <1>2, <1>3, <1>4
<1> QED BY <1>5 DEF RowFailed

\* Nor does it change what a row says.
LEMMA SendersKeepOps ==
  ASSUME TypeInv,
         \/ \E w \in Senders, k \in Keys : Claim(w, k)
         \/ \E w \in Senders : Sweep(w) \/ Sent(w) \/ Fail(w)
         \/ \E k \in Keys : Elapse(k)
  PROVE  OpsKept
<1>1. RowsKept
  BY SendersKeepRows
<1>2. outbox \in [Keys -> Rows]
  BY DEF TypeInv, OutboxTypeOK, Rows
<1>3. Swept \in [Keys -> Rows] /\ \A k \in Keys : Swept[k].op = outbox[k].op
  BY <1>2, SweptKeeps DEF TypeInv, Swept, Rows
<1>4. ASSUME NEW w \in Senders, NEW k \in Keys, Claim(w, k)
      PROVE  \A j \in Keys : outbox'[j].op = outbox[j].op
  <2>1. outbox' = [Swept EXCEPT ![k] =
          [Swept[k] EXCEPT !.status = "sending", !.due = FALSE, !.attempts = @ + 1]]
    BY <1>3, <1>4 DEF Claim, Rows
  <2> QED BY <1>3, <2>1 DEF Rows
<1>5. ASSUME NEW w \in Senders, Sweep(w) PROVE \A j \in Keys : outbox'[j].op = outbox[j].op
  BY <1>3, <1>5 DEF Sweep
<1>6. ASSUME NEW w \in Senders, Sent(w) \/ Fail(w) PROVE \A j \in Keys : outbox'[j].op = outbox[j].op
  <2>1. ASSUME NEW status, NEW due, Release(w, status, due)
        PROVE  \A j \in Keys : outbox'[j].op = outbox[j].op
    BY <1>2, <2>1 DEF Release, Rows
  <2> QED BY <1>6, <2>1 DEF Sent, Fail
<1>7. ASSUME NEW k \in Keys, Elapse(k) PROVE \A j \in Keys : outbox'[j].op = outbox[j].op
  BY <1>2, <1>7 DEF Elapse, Rows
<1>8. \A j \in Keys : outbox'[j].op = outbox[j].op
  BY <1>4, <1>5, <1>6, <1>7
<1> QED BY <1>1, <1>8 DEF OpsKept, RowsKept

\* The senders' reports, and the waits between them.
LEMMA RowsFiled ==
  ASSUME TypeInv, IntakeInv, ContentsOK, JobTables, RowsTyped, FiledInv,
         UNCHANGED <<published, content, world, archive, extraction, confirmed, jobs, assessor, collided>>,
         UNCHANGED <<material, overwritten>>,
         \/ \E w \in Senders, k \in Keys : Claim(w, k)
         \/ \E w \in Senders : Sweep(w) \/ Sent(w) \/ Fail(w)
         \/ \E k \in Keys : Elapse(k)
  PROVE  FiledInv'
<1>1. /\ \A k \in Keys : outbox[k].status \in LiveStatus => outbox'[k].status \in LiveStatus \cup {"failed"}
      /\ RowFailed => RowFailed'
  BY RowsLiveOrFail
<1>2. Unassessed => Unassessed'
  BY WaitingStands DEF Waits
<1>3. ASSUME Filed, ~RowFailed' PROVE Filed'
  <2>1. \A k \in Keys : outbox'[k].status # "failed"
    BY <1>3 DEF RowFailed
  <2>2. \A ids \in Sets : Live(ids) => Live(ids)'
    BY <1>1, <2>1, CopyKeys DEF Live
  <2>3. OpsKept
    BY SendersKeepOps
  <2> QED BY <1>3, <2>2, <2>3, FiledStands DEF RowsTyped
<1> QED BY <1>1, <1>2, <1>3 DEF FiledInv

\* A record completes the album; what is skipped has been on record before.
LEMMA RecordFiles ==
  ASSUME TypeInv, IntakeInv, ContentsOK, JobTables, RowsTyped, CopyInv, BackedInv, FiledInv,
         NEW w \in Senders, SkipRow(w) \/ Record(w)
  PROVE  FiledInv'
<1>1. /\ UNCHANGED <<published, content, world, archive, extraction, outbox, jobs, assessor, collided>>
      /\ confirmed' = confirmed \cup {KeyOf(w)} /\ sender[w].phase \in {"claimed", "delivered"}
  BY DEF SkipRow, Record, Skip, Confirm, KeyOf, SenderStays, jobVars, pumpVars, inputVars, archiveVars
<1>2. Unassessed => Unassessed'
  BY <1>1, WaitingStands DEF Waits
<1>3. RowFailed => RowFailed'
  BY <1>1 DEF RowFailed
<1>4. (\A ids \in Sets : Live(ids) => Live(ids)') /\ OpsKept
  BY <1>1 DEF Live, OpsKept
<1>5. ASSUME Filed, ~RowFailed PROVE Filed'
  <2>1. CASE ~IsCopy(w)
    <3>1. UNCHANGED <<material, overwritten>>
      BY <2>1 DEF SkipRow, Record, Done
    <3>2. KeyOf(w) \in Keys /\ sender[w] # Idle
      BY <1>1 DEF TypeInv, SendersOK, KeyOf, Idle
    <3>3. \A ids \in Sets : CopyKey(ids) # KeyOf(w)
      BY <2>1, <3>2 DEF IsCopy, CopyKey
    <3>4. \A ids \in Sets : Live(ids) /\ CopyKey(ids) \notin confirmed => CopyKey(ids) \notin confirmed'
      BY <1>1, <3>3
    <3> QED BY <1>1, <1>4, <1>5, <3>1, <3>4, FiledStands DEF RowsTyped
  <2>2. CASE IsCopy(w) /\ Record(w)
    <3>1. /\ material'.evidence.ids = seen[w].evidence.ids
          /\ material'.evidence.extracted = seen[w].evidence.extracted
          /\ material'.evidence.score = seen[w].evidence.score
          /\ material = seen[w] => material'.state = "completed"
          /\ ~overwritten' => ~overwritten /\ material = seen[w]
      BY <2>2, RecordTakes
    <3>2. material = seen[w] /\ Agrees(material.evidence) => Agrees(material'.evidence)
      BY <3>1 DEF Agrees
    <3>3. CASE overwritten'
      BY <1>1, <1>4, <1>5, <3>3, FiledStands
    <3>4. CASE ~overwritten'
      BY <1>1, <1>4, <1>5, <3>1, <3>2, <3>4, FiledStands
    <3> QED BY <3>3, <3>4
  <2>3. CASE IsCopy(w) /\ SkipRow(w)
    <3>1. PICK own \in Sets : own = KeyOf(w)[2] /\ KeyOf(w) = CopyKey(own)
      BY <2>3, CopyHasMessages
    <3>2. UNCHANGED <<material, overwritten>> /\ own \subseteq material.evidence.copied
      BY <2>3, <3>1 DEF SkipRow, Done, rowVars
    <3>3. PICK m \in own : TRUE
      BY DEF Sets
    <3>4. PICK ids \in Sets : m \in ids /\ CopyKey(ids) \in confirmed
      BY <3>2, <3>3 DEF BackedInv, RowsBacked, RowBacked
    <3>5. Live(ids)
      BY <1>5, <3>4, ConfirmedIsLive
    <3>6. Live(own) => own = ids
      BY <3>3, <3>4, <3>5 DEF CopyInv, CopiesDisjoint
    <3>7. \A these \in Sets : Live(these) /\ CopyKey(these) \notin confirmed => CopyKey(these) \notin confirmed'
      BY <1>1, <3>1, <3>4, <3>6 DEF CopyKey
    <3> QED BY <1>1, <1>4, <1>5, <3>2, <3>7, FiledStands DEF RowsTyped
  <2> QED BY <2>1, <2>2, <2>3
<1>6. collided' = collided
  BY <1>1
<1> QED BY <1>2, <1>3, <1>5, <1>6 DEF FiledInv

LEMMA FiledKeep ==
  ASSUME TypeInv, IntakeInv, ContentsOK, HandlersOK, JobTables, RowsTyped,
         ArchiveInv, ArchiveInv', CopyInv, BackedInv, AdmittedInv, FiledInv, [Next]_vars
  PROVE  FiledInv'
<1> USE DEF jobVars, archiveVars, inputVars, outboxVars, rowVars
<1>1. ASSUME NEW m \in Album, Post(m) \/ Edit(m) PROVE Unassessed'
  <2>1. PICK snapshot \in Snapshots : snapshot.message = m /\ Arrive(snapshot)
    BY <1>1, ArrivalIsSnapshot
  <2>2. /\ published' = published + 1 /\ published \in Nat /\ published' \in Updates
        /\ content'[published'] = snapshot
        /\ \A u \in {NoUpdate} \cup Updates : u # published' => content'[u] = content[u]
        /\ ContentsOK' /\ IntakeInv'
    BY <2>1, ArriveKeeps
  <2>3. UNCHANGED <<jobs, assessor>>
    BY <2>1 DEF Arrive
  <2>4. AssessKey(snapshot) \in AssessKeys
    BY <2>1 DEF AssessKey, AssessKeys, Snapshots
  <2>5. \A u \in 1..published : u \in 1..published' /\ content'[u] = content[u] /\ u < published'
    BY <2>2, PublishedTyped
  <2>6. \A u \in 1..published : AssessKey(content[u]) # AssessKey(snapshot)
    <3>1. published' \in 1..published'
      BY <2>2
    <3>2. \A u \in 1..published : content[u].message = snapshot.message => content[u].at < snapshot.at
      BY <2>2, <2>5, <3>1 DEF ArchiveInv, Ordered
    <3>3. \A u \in 1..published : content[u].at \in Nat
      BY PublishedTyped
    <3> QED BY <3>2, <3>3 DEF AssessKey
  <2>7. jobs[AssessKey(snapshot)] = "absent"
    BY <2>4, <2>6 DEF AdmittedInv, AssessmentsAdmitted
  <2>8. assessor.job # AssessKey(snapshot)
    <3>1. Free.job = NoJob
      BY NothingTyped
    <3> QED BY <2>4, <2>7, <3>1, KindsDiffer DEF AdmittedInv, HandlersHaveJobs
  <2>9. PICK last \in 1..published' : last = published'
    BY <2>2
  <2>10. Waits(AssessKey(content[last]))'
    BY <2>2, <2>3, <2>7, <2>8, <2>9 DEF Waits, AssessKey
  <2> QED BY <2>10 DEF Unassessed
<1>2. CASE Pump \/ HandlerRaises \/ Crash
  <2>1. /\ UNCHANGED <<published, content, world, archive, extraction, outbox, confirmed, material, overwritten, jobs, collided>>
        /\ assessor' = assessor \/ assessor' = Free
    <3>1. Pump \/ HandlerRaises => published' = published
      BY DEF Pump, HandlerRaises, Begin, RecordProcessed, WaitOver, RecordFailure
    <3>2. Crash => published' = published
      BY DEF Crash, Restart
    <3> QED BY <1>2, <3>1, <3>2 DEF Pump, HandlerRaises, Crash
  <2> QED BY <2>1, FiledInvStands
<1>3. CASE Ingest
  <2>1. UNCHANGED <<published, content, world, extraction, outbox, confirmed, material, overwritten, jobs, assessor, collided>>
    BY <1>3 DEF Ingest, Handle
  <2>2. CASE archive' = archive
    BY <2>1, <2>2, FiledInvStands
  <2>3. CASE archive' # archive
    <3>1. PICK u \in 1..published : u = worker.at
      BY <1>3, InHand DEF Ingest, Handle
    <3>2. ~Latest(u) /\ AssessKey(content[u]) \in AssessKeys
      BY <1>3, <2>3, <3>1, IngestedOnce, SnapshotKeys
    <3>3. jobs[AssessKey(content[u])] = "absent"
      <4>1. ASSUME NEW v \in 1..published, AssessKey(content[u]) = AssessKey(content[v]) PROVE ~Latest(v)
        BY <3>2, <4>1 DEF AssessKey, Latest
      <4> QED BY <3>2, <4>1 DEF AdmittedInv, AssessmentsAdmitted
    <3>4. assessor.job # AssessKey(content[u])
      <4>1. Free.job = NoJob
        BY NothingTyped
      <4> QED BY <3>2, <3>3, <4>1, KindsDiffer DEF AdmittedInv, HandlersHaveJobs
    <3>5. Waits(AssessKey(content[u]))'
      BY <2>1, <3>3, <3>4 DEF Waits, AssessKey
    <3> QED BY <2>1, <3>5 DEF FiledInv, Unassessed
  <2> QED BY <2>2, <2>3
<1>4. CASE AdmitJobs
  <2>1. UNCHANGED <<published, content, world, archive, extraction, outbox, confirmed, material, overwritten, assessor, collided>>
    BY <1>4 DEF AdmitJobs, Handle
  <2>2. \A j \in JobKeys : jobs'[j] = jobs[j] \/ jobs'[j] = "open"
    BY <1>4 DEF AdmitJobs
  <2>3. Unassessed => Unassessed'
    BY <2>1, <2>2, KindsDiffer, WaitingStands DEF Waits
  <2>4. Filed => Filed'
    BY <2>1, FiledStands DEF Live, OpsKept
  <2> QED BY <2>1, <2>3, <2>4 DEF FiledInv, RowFailed
<1>5. CASE (\E m \in Documents : LoadCandidate(m)) \/ ExtractionRaises
  <2>1. /\ UNCHANGED <<published, content, world, archive, extraction, outbox, confirmed, jobs, collided>>
        /\ UNCHANGED <<material, overwritten, assessor>>
    BY <1>5 DEF LoadCandidate, ExtractionRaises, ExtractorStays, pumpVars
  <2> QED BY <2>1, FiledInvStands
<1>6. CASE Persist
  <2>1. PICK m \in Documents : extractor.job = ExtractKey(m)
    BY <1>6 DEF HandlersOK, Persist
  <2>2. Candidate = m /\ extraction[m] = NotExtracted
    BY <1>6, <2>1 DEF Candidate, ExtractKey, Persist, AdmittedInv, HandlersHaveJobs
  <2>3. PICK outcome \in Outcomes : outcome = world.text[m]
    BY AlbumAssumption DEF ContentsOK, Worlds
  <2>4. extraction'[m] = outcome /\ UNCHANGED <<jobs, assessor>>
    BY <1>6, <2>2, <2>3 DEF Persist, ExtractorStays, JobTables
  <2>5. NotExtracted \notin Outcomes
    BY DEF NotExtracted, Outcomes
  <2>6. jobs[ReassessKey(m, outcome)] = "absent"
    BY <2>2, <2>5 DEF AdmittedInv, ReassessmentsAdmitted
  <2>7. assessor.job # ReassessKey(m, outcome)
    <3>1. Free.job = NoJob /\ ReassessKey(m, outcome) \in ReassessKeys
      BY NothingTyped DEF ReassessKey, ReassessKeys
    <3> QED BY <2>6, <3>1, KindsDiffer DEF AdmittedInv, HandlersHaveJobs
  <2>8. Waits(ReassessKey(m, extraction[m]))' /\ extraction'[m] # NotExtracted
    BY <2>4, <2>5, <2>6, <2>7 DEF Waits, ReassessKey
  <2> QED BY <2>8 DEF FiledInv, Unassessed
<1>7. CASE EnqueueReassessment
  <2>1. UNCHANGED <<published, content, world, archive, extraction, outbox, confirmed, material, overwritten, assessor, collided>>
    BY <1>7 DEF EnqueueReassessment, ExtractorStays, pumpVars
  <2>2. \A j \in AssessKeys \cup ReassessKeys : jobs'[j] = jobs[j] \/ jobs'[j] = "open"
    BY <1>7, ReassessAdmits
  <2>3. Unassessed => Unassessed'
    BY <2>1, <2>2, WaitingStands DEF Waits
  <2>4. Filed => Filed'
    BY <2>1, FiledStands DEF Live, OpsKept
  <2> QED BY <2>1, <2>3, <2>4 DEF FiledInv, RowFailed
<1>8. ASSUME NEW j \in AssessKeys \cup ReassessKeys, Read(j) PROVE FiledInv'
  <2>1. /\ UNCHANGED <<archive, extraction, world>> /\ assessor'.phase = "read"
        /\ assessor'.evidence = EvidenceNow
    BY <1>8, ReadTakes
  <2>2. Agrees(EvidenceNow)
    BY EvidenceIsTyped DEF RowsTyped, Agrees
  <2>3. Agrees(assessor.evidence)'
    BY <2>1, <2>2, ScoreStands DEF Agrees
  <2> QED BY <2>1, <2>3 DEF FiledInv, Filed
<1>9. CASE Store
  <2>1. /\ UNCHANGED <<published, content, world, archive, extraction, outbox, jobs, collided>>
        /\ assessor'.job = assessor.job /\ assessor.phase = "read"
    BY <1>9, StoreTakes DEF pumpVars
  <2>2. Unassessed => Unassessed'
    BY <2>1, WaitingStands DEF Waits
  <2>3. Filed /\ ~RowFailed => Filed'
    BY <1>9, <2>1, StoreFiles DEF Filed
  <2> QED BY <2>1, <2>2, <2>3 DEF FiledInv, RowFailed
<1>10. CASE Act
  BY <1>10, ActFiles
<1>11. CASE ActConflicts
  BY <1>11 DEF ActConflicts, FiledInv
<1>12. ASSUME NEW w \in Senders, SkipRow(w) \/ Record(w) PROVE FiledInv'
  BY <1>12, RecordFiles
<1>13. ASSUME NEW w \in Senders, Send(w) \/ SendUnanswered(w) \/ SendRefused(w) \/ ReadBack(w) PROVE FiledInv'
  <2>1. /\ UNCHANGED <<published, content, world, archive, extraction, outbox, confirmed, jobs, collided>>
        /\ UNCHANGED <<material, overwritten, assessor>>
    BY <1>13 DEF Send, SendUnanswered, SendRefused, ReadBack, SenderStays, Unlucky, pumpVars, Deliver, LoseReply, Refuse
  <2> QED BY <2>1, FiledInvStands
<1>14. ASSUME NEW w \in Senders, PollRows(w) \/ EndRow(w) PROVE FiledInv'
  <2>1. /\ UNCHANGED <<published, content, world, archive, extraction, confirmed, material, overwritten, jobs, assessor, collided>>
        /\ (\E k \in Keys : Claim(w, k)) \/ Sweep(w) \/ Sent(w) \/ Fail(w)
    BY <1>14 DEF PollRows, PollQueue, EndRow, SenderStays, pumpVars, Sweep, Claim, Sent, Fail, Release
  <2> QED BY <2>1, RowsFiled
<1>15. ASSUME NEW k \in Keys, Due(k) PROVE FiledInv'
  <2>1. /\ UNCHANGED <<published, content, world, archive, extraction, confirmed, material, overwritten, jobs, assessor, collided>>
        /\ Elapse(k)
    BY <1>15 DEF Due, SenderStays, pumpVars, Elapse
  <2> QED BY <2>1, RowsFiled
<1>16. CASE UNCHANGED vars
  BY <1>16, FiledInvStands DEF vars, pumpVars
<1>17. (\E m \in Album : Post(m)) \/ (\E m \in Captioned : Edit(m)) => FiledInv'
  BY <1>1, AlbumAssumption DEF FiledInv
<1> QED BY <1>2, <1>3, <1>4, <1>5, <1>6, <1>7, <1>8, <1>9, <1>10, <1>11, <1>12, <1>13, <1>14, <1>15, <1>16, <1>17 DEF Next

\* Once all is quiet nothing waits, every live row was sent, and so is on record.
LEMMA QuietTells ==
  ASSUME TypeInv, ContentsOK, IntakeInv, JobTables, RowsTyped, BackedInv, AdmittedInv, FiledInv,
         RecordedBeforeSent
  PROVE  MaterialIsCurrent
<1> SUFFICES ASSUME Quiet, ~collided
             PROVE  /\ RouteOf(Score(Archived)) = "auto_copy" => Archived \subseteq Scheduled
                    /\ RouteOf(Score(Archived)) = "admin_review" =>
                         Scheduled # {} \/ outbox[ReviewKey(Archived)].op = Score(Archived)
                    /\ ~overwritten =>
                         /\ material.evidence = [EvidenceNow EXCEPT !.copied = Scheduled]
                         /\ RouteOf(Score(Archived)) = "auto_copy" => material.state = "completed"
  BY DEF MaterialIsCurrent
<1>1. ~RowFailed
  BY DEF Quiet, RowFailed
<1>2. assessor = Free /\ \A j \in JobKeys : jobs[j] \in {"absent", "ended"}
  BY DEF Quiet
<1>3. ~Unassessed
  <2>1. ASSUME NEW u \in 1..published PROVE ~Waits(AssessKey(content[u]))
    <3>1. jobs[AssessKey(content[u])] # "absent"
      BY DEF Quiet, Handled, AdmittedInv, AssessmentsAdmitted
    <3>2. AssessKey(content[u]) \in JobKeys
      BY SnapshotKeys, KindsDiffer
    <3> QED BY <1>2, <3>1, <3>2 DEF Waits
  <2>2. ASSUME NEW m \in Documents, extraction[m] # NotExtracted
        PROVE  ~Waits(ReassessKey(m, extraction[m]))
    <3>1. jobs[ExtractKey(m)] # "open"
      BY <1>2, KindsDiffer
    <3>2. jobs[ReassessKey(m, extraction[m])] # "absent"
      BY <2>2, <3>1 DEF AdmittedInv, ReassessmentsAdmitted
    <3>3. ReassessKey(m, extraction[m]) \in JobKeys
      <4>1. \A outcome \in Outcomes : ReassessKey(m, outcome) \in ReassessKeys
        BY DEF ReassessKey, ReassessKeys
      <4> QED BY <2>2, <4>1, KindsDiffer DEF JobTables
    <3> QED BY <1>2, <3>2, <3>3 DEF Waits
  <2> QED BY <2>1, <2>2 DEF Unassessed
<1>4. AlbumFiled /\ (overwritten \/ RowFiled)
  BY <1>1, <1>2, <1>3, NothingTyped DEF FiledInv, Filed
<1>5. AboutToCopy = {} /\ ~AboutToReview
  BY <1>2, NothingTyped DEF AboutToCopy, AboutToReview, Action
<1>6. \A ids \in Sets : Live(ids) <=> CopyKey(ids) \in confirmed
  BY <1>1, CopyKeys, ConfirmedIsLive DEF Quiet, Live, LiveStatus, RecordedBeforeSent
<1>7. ASSUME ~overwritten
      PROVE  /\ material.evidence = [EvidenceNow EXCEPT !.copied = Scheduled]
             /\ RouteOf(Score(Archived)) = "auto_copy" => material.state = "completed"
  <2>1. Agrees(material.evidence) /\ Agrees(EvidenceNow)
    BY <1>4, <1>7, EvidenceIsTyped DEF RowFiled, RowsTyped, Agrees
  <2>2. material.evidence.copied = Scheduled
    <3>1. Scheduled \subseteq material.evidence.copied
      BY <1>6, <1>7, LiveScheduled DEF BackedInv, CopiesBacked
    <3>2. material.evidence.copied \subseteq Scheduled
      BY <1>6, LiveScheduled DEF BackedInv, RowsBacked, RowBacked
    <3> QED BY <3>1, <3>2
  <2>3. material.evidence \in Evidences /\ EvidenceNow \in Evidences
    BY EvidenceIsTyped DEF RowsTyped, MaterialRows
  <2>4. material.evidence = [EvidenceNow EXCEPT !.copied = Scheduled]
    BY <2>1, <2>2, <2>3 DEF Agrees, Evidences
  <2> QED BY <1>4, <1>5, <1>6, <1>7, <2>4 DEF RowFiled
<1> QED BY <1>4, <1>5, <1>7 DEF AlbumFiled, Reviewed

----------------------------------------------------------------------------
(***************************************************************************)
(* How often a message was copied                                          *)
(***************************************************************************)
\* A sender holds its row by itself, under a lease that does not run out before the sender
\* has reported.
HeldApart ==
  \A w \in Senders : sender[w].phase # "idle" =>
    /\ outbox[sender[w].key].status = "sending" /\ ~outbox[sender[w].key].due
    /\ outbox[sender[w].key].attempts = sender[w].attempt
    /\ \A v \in Senders : sender[v].key = sender[w].key => v = w

\* The message was copied, and its row was sent or will be unless the process dies.
Delivered(m) ==
  \E ids \in Sets : /\ m \in ids
                    /\ \/ outbox[CopyKey(ids)].status = "sent"
                       \/ \E w \in Senders : /\ sender[w].key = CopyKey(ids)
                                             /\ sender[w].phase \in {"delivered", "confirmed"}

Settled(m) == IF Delivered(m) THEN 1 ELSE 0

CopiesCounted ==
  /\ copies \in [Album -> Nat]
  /\ \A m \in Album : copies[m] <= troubles + Settled(m)

CountedInv == HeldApart /\ CopiesCounted

\* Who holds a row goes on to hold it as it is, or lets go.
HoldersStay ==
  \A w \in Senders :
    \/ sender'[w] = Idle
    \/ /\ sender[w].phase # "idle"
       /\ sender'[w].key = sender[w].key /\ sender'[w].attempt = sender[w].attempt
       /\ outbox'[sender[w].key] = outbox[sender[w].key]

LEMMA HeldStands ==
  ASSUME TypeInv, HeldApart, HoldersStay
  PROVE  HeldApart'
<1> SUFFICES ASSUME NEW w \in Senders, sender'[w].phase # "idle"
             PROVE  /\ outbox'[sender'[w].key].status = "sending" /\ ~outbox'[sender'[w].key].due
                    /\ outbox'[sender'[w].key].attempts = sender'[w].attempt
                    /\ \A v \in Senders : sender'[v].key = sender'[w].key => v = w
  BY DEF HeldApart
<1>1. /\ sender[w].phase # "idle"
      /\ sender'[w].key = sender[w].key /\ sender'[w].attempt = sender[w].attempt
      /\ outbox'[sender[w].key] = outbox[sender[w].key]
  BY DEF HoldersStay, Idle
<1>2. sender[w].key # NoKey
  BY <1>1, RowAssumption DEF TypeInv, SendersOK
<1>3. \A v \in Senders : sender'[v].key = sender'[w].key => sender[v].key = sender[w].key
  BY <1>1, <1>2 DEF HoldersStay, Idle
<1> QED BY <1>1, <1>3 DEF HeldApart

LEMMA ClaimHolds ==
  ASSUME TypeInv, HeldApart, NEW w \in Senders, NEW k \in Keys, Claim(w, k)
  PROVE  HeldApart'
<1>1. /\ outbox'[k].status = "sending" /\ \A j \in Keys \ {k} : outbox'[j] = Swept[j]
      /\ sender'[w].phase = "claimed" /\ sender'[w].key = k
      /\ \A v \in Senders \ {w} : sender'[v] = sender[v]
      /\ outbox'[k].attempts = outbox[k].attempts + 1
  BY ClaimKeeps
<1>2. sender'[w].attempt = outbox[k].attempts + 1
  BY DEF Claim, Idle, TypeInv, OutboxTypeOK
<1>3. ~outbox'[k].due
  BY DEF Claim, Swept, TypeInv, OutboxTypeOK
<1>4. \A v \in Senders : sender[v].key # k
  <2>1. outbox[k].due
    BY DEF Claim, Eligible
  <2>2. \A v \in Senders : sender[v].phase = "idle" => sender[v].key = NoKey
    BY DEF TypeInv, SendersOK, Idle
  <2> QED BY <2>1, <2>2, RowAssumption DEF HeldApart
<1>5. ASSUME NEW v \in Senders \ {w}, sender[v].phase # "idle"
      PROVE  sender[v].key \in Keys /\ outbox'[sender[v].key] = outbox[sender[v].key]
  <2>1. sender[v].key \in Keys \ {k} /\ ~outbox[sender[v].key].due
    BY <1>4, <1>5 DEF HeldApart, TypeInv, SendersOK
  <2>2. Swept[sender[v].key] = outbox[sender[v].key]
    BY <2>1 DEF Swept, Exhausted
  <2> QED BY <1>1, <2>1, <2>2
<1>6. ASSUME NEW v \in Senders, sender'[v].phase # "idle"
      PROVE  /\ outbox'[sender'[v].key].status = "sending" /\ ~outbox'[sender'[v].key].due
             /\ outbox'[sender'[v].key].attempts = sender'[v].attempt
             /\ \A u \in Senders : sender'[u].key = sender'[v].key => u = v
  <2>1. CASE v = w
    BY <1>1, <1>2, <1>3, <1>4, <2>1
  <2>2. CASE v # w
    <3>1. sender'[v] = sender[v] /\ sender[v].phase # "idle" /\ sender[v].key # k
      BY <1>1, <1>4, <1>6, <2>2
    <3>2. outbox'[sender[v].key] = outbox[sender[v].key]
      BY <1>5, <2>2, <3>1
    <3>3. \A u \in Senders : sender'[u].key = sender[v].key => u # w /\ sender[u].key = sender[v].key
      BY <1>1, <3>1
    <3> QED BY <3>1, <3>2, <3>3 DEF HeldApart
  <2> QED BY <2>1, <2>2
<1> QED BY <1>6 DEF HeldApart

\* The senders of the process hold their rows apart, one row each.
LEMMA HeldKeep ==
  ASSUME TypeInv, HandlersOK, HeldApart, [Next]_vars
  PROVE  HeldApart'
<1>a. ASSUME UNCHANGED <<outbox, sender>> PROVE HeldApart'
  BY <1>a DEF HeldApart
<1>1. CASE (\E m \in Album : Post(m)) \/ (\E m \in Captioned : Edit(m))
  BY <1>1, <1>a DEF Post, Edit, Arrive, outboxVars
<1>2. CASE Pump \/ Ingest \/ AdmitJobs \/ HandlerRaises
  BY <1>2, <1>a DEF Pump, Ingest, AdmitJobs, HandlerRaises, outboxVars
<1>3. CASE (\E m \in Documents : LoadCandidate(m)) \/ Persist \/ EnqueueReassessment \/ ExtractionRaises
  BY <1>3, <1>a DEF LoadCandidate, Persist, EnqueueReassessment, ExtractionRaises, ExtractorStays, outboxVars
<1>4. CASE (\E j \in AssessKeys \cup ReassessKeys : Read(j)) \/ Store \/ ActConflicts
  BY <1>4, <1>a DEF Read, Store, ActConflicts, outboxVars
<1>5. CASE Act
  <2>1. CASE Action.route = "leave"
    BY <1>5, <1>a, <2>1 DEF Act, outboxVars
  <2>2. CASE Action.route # "leave"
    <3>1. \A k \in Keys : outbox[k].status # "absent" => outbox'[k] = outbox[k]
      BY <1>5, <2>2 DEF Act, Enqueue, Enqueued, TypeInv, OutboxTypeOK
    <3>2. sender' = sender
      BY <1>5, <2>2 DEF Act, Enqueue
    <3> QED BY <3>1, <3>2, HeldStands DEF HoldersStay, HeldApart, TypeInv, SendersOK
  <2> QED BY <2>1, <2>2
<1>6. ASSUME NEW w \in Senders, PollRows(w) PROVE HeldApart'
  <2>1. CASE Sweep(w)
    <3>1. \A k \in Keys : ~outbox[k].due => outbox'[k] = outbox[k]
      BY <2>1 DEF Sweep, Swept, Exhausted
    <3> QED BY <2>1, <3>1, HeldStands DEF Sweep, HoldersStay, HeldApart, TypeInv, SendersOK
  <2> QED BY <1>6, <2>1, ClaimHolds DEF PollRows, PollQueue
<1>7. ASSUME NEW w \in Senders, SkipRow(w) \/ Send(w) \/ SendUnanswered(w) \/ SendRefused(w) \/ Record(w)
      PROVE  HeldApart'
  <2>1. outbox' = outbox /\ sender[w].phase # "idle" /\ \A v \in Senders \ {w} : sender'[v] = sender[v]
    BY <1>7 DEF SkipRow, Send, SendUnanswered, SendRefused, Record, Skip, Deliver, LoseReply, Refuse, Confirm,
                Reach, TypeInv, OutboxTypeOK
  <2>2. sender'[w].key = sender[w].key /\ sender'[w].attempt = sender[w].attempt
    BY <1>7 DEF SkipRow, Send, SendUnanswered, SendRefused, Record, Skip, Deliver, LoseReply, Refuse, Confirm,
                Reach, TypeInv, OutboxTypeOK
  <2>3. HoldersStay
    BY <2>1, <2>2 DEF HoldersStay, TypeInv, SendersOK
  <2> QED BY <2>3, HeldStands
<1>8. ASSUME NEW w \in Senders, EndRow(w) PROVE HeldApart'
  <2>1. /\ sender[w].phase # "idle" /\ sender' = [sender EXCEPT ![w] = Idle]
        /\ \A k \in Keys : k # sender[w].key => outbox'[k] = outbox[k]
    BY <1>8, Reports, ReleaseKeeps DEF EndRow
  <2>2. sender'[w] = Idle /\ \A v \in Senders \ {w} : sender'[v] = sender[v]
    BY <2>1 DEF TypeInv, OutboxTypeOK
  <2>3. \A v \in Senders \ {w} : sender[v].phase # "idle" =>
          sender[v].key \in Keys /\ outbox'[sender[v].key] = outbox[sender[v].key]
    BY <2>1 DEF HeldApart, TypeInv, SendersOK
  <2>4. HoldersStay
    BY <2>2, <2>3 DEF HoldersStay, TypeInv, SendersOK
  <2> QED BY <2>4, HeldStands
<1>9. ASSUME NEW w \in Senders, ReadBack(w) PROVE HeldApart'
  BY <1>9, <1>a DEF ReadBack, outboxVars
<1>10. ASSUME NEW k \in Keys, Due(k) PROVE HeldApart'
  <2>1. sender' = sender /\ \A w \in Senders : sender[w].key # k
    BY <1>10 DEF Due, Elapse, KeyOf
  <2>2. \A j \in Keys \ {k} : outbox'[j] = outbox[j]
    BY <1>10 DEF Due, Elapse, TypeInv, OutboxTypeOK
  <2>3. HoldersStay
    BY <2>1, <2>2 DEF HoldersStay, TypeInv, SendersOK
  <2> QED BY <2>3, HeldStands
<1>11. CASE Crash
  BY <1>11 DEF Crash, HeldApart, Idle
<1>12. CASE UNCHANGED vars
  BY <1>12, <1>a DEF vars, outboxVars
<1> QED BY <1>1, <1>2, <1>3, <1>4, <1>5, <1>6, <1>7, <1>8, <1>9, <1>10, <1>11, <1>12 DEF Next

\* What was copied is sent, or will be, unless the sender is lost.
SettledStays ==
  /\ \A k \in Keys : outbox[k].status = "sent" => outbox'[k].status = "sent"
  /\ \A w \in Senders : sender[w].phase \in {"delivered", "confirmed"} =>
       \/ sender'[w].key = sender[w].key /\ sender'[w].phase \in {"delivered", "confirmed"}
       \/ outbox'[sender[w].key].status = "sent"

LEMMA DeliveredStays ==
  ASSUME SettledStays, NEW m, Delivered(m)
  PROVE  Delivered(m)'
<1>1. PICK ids \in Sets : /\ m \in ids
                          /\ \/ outbox[CopyKey(ids)].status = "sent"
                             \/ \E w \in Senders : /\ sender[w].key = CopyKey(ids)
                                                   /\ sender[w].phase \in {"delivered", "confirmed"}
  BY DEF Delivered
<1>2. \/ outbox'[CopyKey(ids)].status = "sent"
      \/ \E w \in Senders : /\ sender'[w].key = CopyKey(ids)
                            /\ sender'[w].phase \in {"delivered", "confirmed"}
  BY <1>1, CopyKeys DEF SettledStays
<1> QED BY <1>1, <1>2 DEF Delivered

\* A step that copies nothing keeps the count, unless it loses a sender without a failure.
LEMMA CountStands ==
  ASSUME CopiesCounted, troubles \in Nat, copies' = copies,
         (SettledStays /\ troubles' = troubles) \/ troubles' = troubles + 1
  PROVE  CopiesCounted'
<1> SUFFICES ASSUME NEW m \in Album PROVE copies[m] <= troubles' + Settled(m)'
  BY DEF CopiesCounted
<1>1. copies[m] \in Nat /\ copies[m] <= troubles + Settled(m)
  BY DEF CopiesCounted
<1>2. Settled(m) \in {0, 1} /\ Settled(m)' \in {0, 1}
  BY DEF Settled
<1>3. CASE SettledStays /\ troubles' = troubles
  <2>1. Settled(m) <= Settled(m)'
    BY <1>3, DeliveredStays DEF Settled
  <2> QED BY <1>1, <1>2, <1>3, <2>1
<1>4. CASE troubles' = troubles + 1
  BY <1>1, <1>2, <1>4
<1> QED BY <1>3, <1>4

\* Before a copy none of its messages was in the topic but for failures.
LEMMA NotYetDelivered ==
  ASSUME TypeInv, HeldApart, CopiesDisjoint, NEW w \in Senders, IsCopy(w),
         sender[w].phase = "claimed", NEW m \in KeyOf(w)[2]
  PROVE  ~Delivered(m)
<1> SUFFICES ASSUME NEW ids \in Sets, m \in ids,
                    \/ outbox[CopyKey(ids)].status = "sent"
                    \/ \E v \in Senders : /\ sender[v].key = CopyKey(ids)
                                          /\ sender[v].phase \in {"delivered", "confirmed"}
             PROVE  FALSE
  BY DEF Delivered
<1>1. KeyOf(w)[2] \in Sets /\ sender[w].key = CopyKey(KeyOf(w)[2])
  BY CopyHasMessages DEF KeyOf
<1>2. outbox[sender[w].key].status = "sending"
  BY DEF HeldApart
<1>3. outbox[CopyKey(ids)].status \in {"sending", "sent"}
  BY DEF HeldApart
<1>4. ids = KeyOf(w)[2]
  BY <1>1, <1>2, <1>3 DEF CopiesDisjoint, Live, LiveStatus
<1>5. CASE outbox[CopyKey(ids)].status = "sent"
  BY <1>1, <1>2, <1>4, <1>5
<1>6. ASSUME NEW v \in Senders, sender[v].key = CopyKey(ids), sender[v].phase \in {"delivered", "confirmed"}
      PROVE  FALSE
  <2>1. v = w
    BY <1>1, <1>4, <1>6 DEF HeldApart
  <2> QED BY <1>6, <2>1
<1> QED BY <1>5, <1>6

LEMMA SendCounted ==
  ASSUME TypeInv, HeldApart, CopiesDisjoint, CopiesCounted, troubles \in Nat, NEW w \in Senders,
         Send(w) \/ SendUnanswered(w)
  PROVE  CopiesCounted'
<1>1. /\ sender[w].phase = "claimed"
      /\ \A m \in Album : copies'[m] = IF IsCopy(w) /\ m \in KeyOf(w)[2] THEN copies[m] + 1 ELSE copies[m]
      /\ copies' = [m \in Album |-> copies'[m]]
  BY DEF Send, SendUnanswered, Copied
<1>2. \A m \in Album : copies[m] \in Nat /\ copies[m] <= troubles + Settled(m)
  BY DEF CopiesCounted
<1>3. \A m \in Album : Settled(m) \in {0, 1} /\ Settled(m)' \in {0, 1}
  BY DEF Settled
<1>4. copies' \in [Album -> Nat]
  BY <1>1, <1>2
<1>5. outbox' = outbox /\ \A v \in Senders \ {w} : sender'[v] = sender[v]
  BY DEF Send, SendUnanswered, Deliver, LoseReply, Reach, TypeInv, OutboxTypeOK
<1>6. SettledStays
  BY <1>1, <1>5 DEF SettledStays
<1>7. \A m \in Album : Settled(m) <= Settled(m)'
  BY <1>6, DeliveredStays DEF Settled
<1>8. CASE Send(w)
  <2>1. troubles' = troubles
    BY <1>8 DEF Send, SenderStays, pumpVars
  <2>2. ASSUME NEW m \in Album, IsCopy(w), m \in KeyOf(w)[2] PROVE Settled(m) = 0 /\ Settled(m)' = 1
    <3>1. ~Delivered(m)
      BY <1>1, <2>2, NotYetDelivered
    <3>2. KeyOf(w)[2] \in Sets /\ sender[w].key = CopyKey(KeyOf(w)[2])
      BY <2>2, CopyHasMessages DEF KeyOf
    <3>3. sender'[w].key = sender[w].key /\ sender'[w].phase = "delivered"
      <4> DEFINE reached == [sender[w] EXCEPT !.phase = "delivered"]
      <4>1. PICK message \in Messages : sender' = [sender EXCEPT ![w] = [reached EXCEPT !.answer = message]]
        BY <1>8 DEF Send, Deliver
      <4>2. reached \in Claims /\ reached.phase = "delivered" /\ reached.key = sender[w].key
        BY DEF TypeInv, OutboxTypeOK, Claims
      <4> HIDE DEF reached
      <4>3. /\ [reached EXCEPT !.answer = message].key = reached.key
            /\ [reached EXCEPT !.answer = message].phase = reached.phase
        BY <4>2 DEF Claims
      <4> QED BY <4>1, <4>2, <4>3 DEF TypeInv, OutboxTypeOK
    <3>4. Delivered(m)'
      BY <2>2, <3>2, <3>3 DEF Delivered
    <3> QED BY <3>1, <3>4 DEF Settled
  <2>3. ASSUME NEW m \in Album PROVE copies'[m] <= troubles' + Settled(m)'
    <3>1. CASE IsCopy(w) /\ m \in KeyOf(w)[2]
      BY <1>1, <1>2, <2>1, <2>2, <3>1
    <3>2. CASE ~(IsCopy(w) /\ m \in KeyOf(w)[2])
      BY <1>1, <1>2, <1>3, <1>7, <2>1, <3>2
    <3> QED BY <3>1, <3>2
  <2> QED BY <1>4, <2>3 DEF CopiesCounted
<1>9. CASE SendUnanswered(w)
  <2>1. troubles' = troubles + 1
    BY <1>9 DEF SendUnanswered, Unlucky, Suffer
  <2>2. ASSUME NEW m \in Album PROVE copies'[m] <= troubles' + Settled(m)'
    <3>1. copies'[m] = copies[m] + 1 \/ copies'[m] = copies[m]
      BY <1>1
    <3> QED BY <1>2, <1>3, <1>7, <2>1, <3>1
  <2> QED BY <1>4, <2>2 DEF CopiesCounted
<1> QED BY <1>8, <1>9

LEMMA CountKeep ==
  ASSUME TypeInv, HandlersOK, CopiesDisjoint, HeldApart, CopiesCounted, troubles \in Nat, [Next]_vars
  PROVE  CopiesCounted'
<1> USE DEF rowVars
<1>a. ASSUME copies' = copies, UNCHANGED <<outbox, sender>>, troubles' = troubles \/ troubles' = troubles + 1
      PROVE  CopiesCounted'
  BY <1>a, CountStands DEF SettledStays
<1>1. CASE (\E m \in Album : Post(m)) \/ (\E m \in Captioned : Edit(m))
  BY <1>1, <1>a DEF Post, Edit, Arrive, outboxVars
<1>2. CASE Pump \/ Ingest \/ AdmitJobs \/ HandlerRaises
  BY <1>2, <1>a DEF Pump, Begin, RecordProcessed, WaitOver, Ingest, AdmitJobs, Handle, HandlerRaises, Suffer,
                    outboxVars
<1>3. CASE (\E m \in Documents : LoadCandidate(m)) \/ Persist \/ EnqueueReassessment \/ ExtractionRaises
  BY <1>3, <1>a DEF LoadCandidate, Persist, EnqueueReassessment, ExtractionRaises, ExtractorStays, Suffer,
                    outboxVars, pumpVars
<1>4. CASE (\E j \in AssessKeys \cup ReassessKeys : Read(j)) \/ Store \/ ActConflicts
  BY <1>4, <1>a DEF Read, Store, ActConflicts, AssessorStays, outboxVars, pumpVars
<1>5. CASE Act
  <2>1. copies' = copies /\ troubles' = troubles
    BY <1>5 DEF Act, AssessorStays, pumpVars
  <2>2. CASE Action.route = "leave"
    BY <1>5, <1>a, <2>1, <2>2 DEF Act, outboxVars
  <2>3. CASE Action.route # "leave"
    <3>1. \A k \in Keys : outbox[k].status # "absent" => outbox'[k] = outbox[k]
      BY <1>5, <2>3 DEF Act, Enqueue, Enqueued, TypeInv, OutboxTypeOK
    <3>2. sender' = sender
      BY <1>5, <2>3 DEF Act, Enqueue
    <3> QED BY <2>1, <3>1, <3>2, CountStands DEF SettledStays
  <2> QED BY <2>2, <2>3
<1>6. ASSUME NEW w \in Senders, PollRows(w) PROVE CopiesCounted'
  <2>1. copies' = copies /\ troubles' = troubles
    BY <1>6 DEF PollRows, SenderStays, pumpVars
  <2>2. \A k \in Keys : outbox[k].status = "sent" => Swept[k].status = "sent"
    BY DEF Swept, Exhausted
  <2>3. CASE Sweep(w)
    BY <2>1, <2>2, <2>3, CountStands DEF Sweep, SettledStays
  <2>4. ASSUME NEW k \in Keys, Claim(w, k) PROVE CopiesCounted'
    <3>1. /\ outbox[k].status \in Open /\ \A j \in Keys \ {k} : outbox'[j] = Swept[j]
          /\ \A v \in Senders \ {w} : sender'[v] = sender[v]
      BY <2>4, ClaimKeeps
    <3>2. sender[w].phase = "idle"
      BY <2>4 DEF Claim, Idle
    <3> QED BY <2>1, <2>2, <3>1, <3>2, CountStands DEF SettledStays, Open
  <2> QED BY <1>6, <2>3, <2>4 DEF PollRows, PollQueue
<1>7. ASSUME NEW w \in Senders, Send(w) \/ SendUnanswered(w) PROVE CopiesCounted'
  BY <1>7, SendCounted
<1>8. ASSUME NEW w \in Senders, SkipRow(w) \/ SendRefused(w) \/ Record(w) PROVE CopiesCounted'
  <2>1. copies' = copies /\ (troubles' = troubles \/ troubles' = troubles + 1)
    BY <1>8 DEF SkipRow, SendRefused, Record, SenderStays, Unlucky, Suffer, pumpVars
  <2>2. outbox' = outbox /\ \A v \in Senders \ {w} : sender'[v] = sender[v]
    BY <1>8 DEF SkipRow, SendRefused, Record, Skip, Refuse, Confirm, Reach, TypeInv, OutboxTypeOK
  <2>3. sender[w].phase \in {"delivered", "confirmed"} =>
          sender'[w].key = sender[w].key /\ sender'[w].phase \in {"delivered", "confirmed"}
    BY <1>8 DEF SkipRow, SendRefused, Record, Skip, Refuse, Confirm, Reach, TypeInv, OutboxTypeOK
  <2> QED BY <2>1, <2>2, <2>3, CountStands DEF SettledStays
<1>9. ASSUME NEW w \in Senders, EndRow(w) PROVE CopiesCounted'
  <2>1. copies' = copies /\ troubles' = troubles
    BY <1>9 DEF EndRow, SenderStays, pumpVars
  <2>2. /\ sender[w].phase # "idle" /\ sender' = [sender EXCEPT ![w] = Idle]
        /\ \A k \in Keys : outbox'[k] = outbox[k] \/ outbox[k].status = "sending"
    BY <1>9, Reports, ReleaseKeeps DEF EndRow
  <2>3. \A v \in Senders \ {w} : sender'[v] = sender[v]
    BY <2>2 DEF TypeInv, OutboxTypeOK
  <2>4. sender[w].phase \in {"delivered", "confirmed"} => outbox'[sender[w].key].status = "sent"
    BY <1>9 DEF EndRow, Sent, Fail, Release, Holds, HeldApart, TypeInv, OutboxTypeOK, SendersOK
  <2> QED BY <2>1, <2>2, <2>3, <2>4, CountStands DEF SettledStays
<1>10. ASSUME NEW w \in Senders, ReadBack(w) PROVE CopiesCounted'
  BY <1>10, <1>a DEF ReadBack, SenderStays, outboxVars, pumpVars
<1>11. ASSUME NEW k \in Keys, Due(k) PROVE CopiesCounted'
  <2>1. copies' = copies /\ troubles' = troubles /\ sender' = sender
    BY <1>11 DEF Due, Elapse, SenderStays, pumpVars
  <2>2. \A j \in Keys : outbox'[j].status = outbox[j].status
    BY <1>11 DEF Due, Elapse, TypeInv, OutboxTypeOK
  <2> QED BY <2>1, <2>2, CountStands DEF SettledStays
<1>12. CASE Crash
  BY <1>12, CountStands DEF Crash, Restart, Suffer
<1>13. CASE UNCHANGED vars
  BY <1>13, <1>a DEF vars, outboxVars, pumpVars
<1> QED BY <1>1, <1>2, <1>3, <1>4, <1>5, <1>6, <1>7, <1>8, <1>9, <1>10, <1>11, <1>12, <1>13 DEF Next

\* Failures and what was settled bound the copies.
LEMMA CountTells ==
  ASSUME CopiesCounted, troubles \in Nat
  PROVE  CopiedOncePerFailure
<1> SUFFICES ASSUME NEW m \in Album PROVE copies[m] <= 1 + troubles
  BY DEF CopiedOncePerFailure
<1>1. copies[m] \in Nat /\ copies[m] <= troubles + Settled(m)
  BY DEF CopiesCounted
<1>2. Settled(m) \in {0, 1}
  BY DEF Settled
<1> QED BY <1>1, <1>2

----------------------------------------------------------------------------
(***************************************************************************)
(* The process as a whole                                                  *)
(***************************************************************************)
MaterialsInv ==
  /\ RecordInv /\ IntakeInv /\ troubles \in 0..MaxTroubles
  /\ ContentsOK /\ HandlersOK /\ JobTables /\ RowsTyped
  /\ ArchiveInv /\ CopyInv /\ BackedInv /\ AdmittedInv /\ FiledInv /\ CountedInv

LEMMA StepInductive == MaterialsInv /\ [Next]_vars => MaterialsInv'
<1> SUFFICES ASSUME MaterialsInv, [Next]_vars PROVE MaterialsInv' OBVIOUS
<1> USE DEF MaterialsInv
<1>1. TypeInv
  BY DEF RecordInv
<1>2. RecordInv' /\ IntakeInv' /\ ContentsOK' /\ troubles' \in 0..MaxTroubles
  BY OutboxKeeps, IntakeKeeps
<1>3. HandlersOK' /\ JobTables' /\ RowsTyped'
  BY <1>1, HandlersKeep, RowsKeep
<1>4. ArchiveInv' /\ CopyInv'
  BY <1>1, ArchiveKeeps, CopiesKeep
<1>5. BackedInv' /\ AdmittedInv'
  BY <1>1, BackedKeep, AdmittedKeep
<1>6. FiledInv'
  BY <1>1, <1>4, FiledKeep
<1>7. CountedInv'
  <2>1. troubles \in Nat
    BY PumpAssumption
  <2> QED BY <1>1, <2>1, HeldKeep, CountKeep DEF CountedInv, CopyInv
<1> QED BY <1>2, <1>3, <1>4, <1>5, <1>6, <1>7

LEMMA InitInductive == Init => MaterialsInv
<1> SUFFICES ASSUME Init PROVE MaterialsInv OBVIOUS
<1> USE DEF Init
<1>1. RecordInv
  <2>1. TypeInv
    BY InitTyped
  <2> QED BY <2>1 DEF RecordInv, OutboxInit, ConfirmedOnRecord, RecordedBeforeSent, Idle, Absent
<1>2. IntakeInv /\ troubles \in 0..MaxTroubles
  BY PumpInitInv
<1>3. published = 0 /\ forgotten = 0 /\ poller.batch = {} /\ 1..published = {}
  BY DEF PumpInit
<1>4. NoSnapshot \in Snapshots
  BY DEF NoSnapshot, Snapshots, Seconds, Texts
<1>5. ContentsOK
  BY <1>3, <1>4 DEF ContentsOK, Worlds
<1>6. HandlersOK
  BY NothingTyped DEF HandlersOK, Waiting, NoAction, NoEvidence, NoMaterial
<1>7. JobTables
  BY DEF JobTables, JobStates
<1>8. RowsTyped
  BY NothingTyped DEF RowsTyped
<1>9. ArchiveInv
  <2>1. archive \in [Album -> Snapshots] /\ \A m \in Album : archive[m] = NoSnapshot
    BY <1>4
  <2> QED BY <1>3, <2>1 DEF ArchiveInv, Ordered, OnFile
<1>10. Action = NoAction
  BY NothingTyped DEF Action
<1>11. \A ids \in Sets : outbox[CopyKey(ids)].status = "absent"
  BY CopyKeys DEF OutboxInit, Absent
<1>12. CopyInv
  <2>1. \A ids \in Sets : ~Live(ids)
    BY <1>11 DEF Live, LiveStatus
  <2> QED BY <1>10, <2>1 DEF CopyInv, CopiesDisjoint, ActionIsFresh, NoAction
<1>13. BackedInv
  <2>1. RowsBacked
    BY NothingBacked, NothingTyped DEF RowsBacked
  <2>2. CopiesBacked
    BY <1>11 DEF CopiesBacked, OutboxInit, NoMaterial
  <2>3. CopiesArchived
    BY <1>10, <1>11, NothingTyped DEF CopiesArchived, NoAction, NoEvidence
  <2>4. SendersAtCopies
    BY DEF SendersAtCopies, OutboxInit, Idle
  <2> QED BY <2>1, <2>2, <2>3, <2>4 DEF BackedInv
<1>14. AdmittedInv
  <2>1. \A j \in JobKeys : jobs[j] = "absent"
    OBVIOUS
  <2>2. AssessmentsAdmitted
    BY <1>3, <2>1, KindsDiffer DEF AssessmentsAdmitted
  <2>3. \A m \in Documents, outcome \in Outcomes : ReassessKey(m, outcome) \in JobKeys
    BY DEF ReassessKey, ReassessKeys, JobKeys
  <2>4. ReassessmentsAdmitted
    BY <2>1, <2>3 DEF ReassessmentsAdmitted
  <2>5. HandlersHaveJobs
    BY DEF HandlersHaveJobs, Waiting
  <2> QED BY <2>2, <2>4, <2>5 DEF AdmittedInv
<1>15. FiledInv
  <2>1. Archived = {}
    BY <1>4 DEF Archived
  <2>2. Score({}) = 0 /\ RouteOf(0) = "leave"
    BY ScoreBounded DEF RouteOf
  <2>3. Agrees(NoEvidence)
    BY <2>1, <2>2 DEF Agrees, NoEvidence
  <2>4. assessor.phase = "idle" /\ material.evidence = NoEvidence
    BY NothingTyped DEF NoMaterial
  <2>5. AlbumFiled /\ RowFiled
    BY <2>1, <2>2, <2>3, <2>4 DEF AlbumFiled, RowFiled
  <2> QED BY <2>4, <2>5 DEF FiledInv, Filed
<1>16. CountedInv
  BY DEF CountedInv, HeldApart, CopiesCounted, Settled, OutboxInit, PumpInit, Idle
<1> QED BY <1>1, <1>2, <1>5, <1>6, <1>7, <1>8, <1>9, <1>12, <1>13, <1>14, <1>15, <1>16 DEF MaterialsInv

LEMMA MaterialsTyped == MaterialsInv => TypeOK
<1> SUFFICES ASSUME MaterialsInv PROVE TypeOK OBVIOUS
<1>1. PumpTypeOK /\ OutboxTypeOK
  BY PumpTyped DEF MaterialsInv, RecordInv, TypeInv
<1>2. assessor.action.route = "auto_copy" => assessor.action.ids # {}
  BY DEF MaterialsInv, HandlersOK
<1> QED BY <1>1, <1>2 DEF MaterialsInv, ContentsOK, HandlersOK, JobTables, JobStates, RowsTyped,
                          ArchiveInv, CountedInv, CopiesCounted, TypeOK

\* The tables of the archive, of extraction, of materials and of jobs keep their types beside
\* those of the inbox and the outbox, and nothing is copied that is no message (live.py,
\* automation.py and processing.py under materials).
THEOREM MaterialsAreTyped == Spec => []TypeOK
<1> QED BY MaterialsTyped, InitInductive, StepInductive, PTL DEF Spec

\* No message of an album is ever in two rows that are, or may yet be, carried out, however
\* the album grows and is edited, whatever its documents turn out to say, and wherever the
\* process dies between the transaction that reads the outbox and the one that writes it
\* (_assess_and_store, _scheduled_source_ids, assess).
THEOREM CopiesStayApart == Spec => []OneLiveCopy
<1>1. MaterialsInv => OneLiveCopy
  BY DisjointMeansOne DEF MaterialsInv, CopyInv
<1> QED BY <1>1, InitInductive, StepInductive, PTL DEF Spec

\* However often its message is edited, tried again or redelivered out of order, the archive
\* ends with the latest snapshot: with every update processed, no old retry has overwritten an
\* edit (_apply_message_snapshot; "an old retry arrives after an edit", live.py:155).
THEOREM ArchiveFollowsEdits == Spec => []ArchiveIsNewest
<1>1. MaterialsInv => ArchiveIsNewest
  BY ArchiveTells DEF MaterialsInv
<1> QED BY <1>1, InitInductive, StepInductive, PTL DEF Spec

\* Once all has come to an end, an album is filed under what its last captions and its texts
\* say, and one to be copied is copied whole: whatever was archived, extracted or copied
\* between the transactions of an assessment, however often handlers, senders and the process
\* failed, an unassessed change has left a job behind that sees to it.  The row of materials
\* says the same unless one of its two writers, which both read it outside of a transaction,
\* has overwritten what the other had written (assess, extract, _assess_and_store,
\* ApplicationTelegramSender.send; material_worker runs the assessments one at a time).
THEOREM MaterialsAreFiled == Spec => []MaterialIsCurrent
<1>1. MaterialsInv => MaterialIsCurrent
  BY QuietTells DEF MaterialsInv, RecordInv
<1> QED BY <1>1, InitInductive, StepInductive, PTL DEF Spec

\* No message of an album is copied to the topic more often than once and once for every
\* failure, however the record of its copies is overwritten: a row holds it by itself, its
\* sender is alone with it (the one worker, or several whose leases outlast their calls), and a
\* copy that is neither reported nor about to be has cost a failure (_scheduled_source_ids, ApplicationTelegramSender.send, OutboxQueue.claim_due).
THEOREM CopiesAreCounted == Spec => []CopiedOncePerFailure
<1>1. MaterialsInv => CopiedOncePerFailure
  BY CountTells, PumpAssumption DEF MaterialsInv, CountedInv
<1> QED BY <1>1, InitInductive, StepInductive, PTL DEF Spec

====
