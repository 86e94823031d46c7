---- MODULE Attendance ----
(***************************************************************************)
(* Attendance in the full profile: the card of a lesson, the reactions to  *)
(* it (AttendanceService), the roster of the group (TelegramMembership-    *)
(* Store) and the headman's summary (ApplicationJobHandlers.attendance_-   *)
(* summary), composed with the update pump and the outbox.                 *)
(*                                                                         *)
(* There is one lesson.  The unit of time is five seconds, the bucket of a *)
(* summary job; two updates of the same unit carry the same date.  Names   *)
(* are left out: a summary is who is present and who is missing.           *)
(***************************************************************************)
EXTENDS UpdatePump, Outbox

CONSTANTS
  Users,      \* of the group, bots aside
  Statuses,   \* of a member: "member", "restricted" (within the group), "left"
  OpensAt,    \* starts_at of the lesson
  ClosesAt,   \* and of the end of its window
  LastTime,   \* bound of the clock
  MaxMessages \* bound: messages in the topic, and in the headman's chat

ASSUME WindowAssumption == OpensAt \in Nat /\ ClosesAt \in Nat /\ OpensAt < ClosesAt

\* A handler that has written a mark stands there until it has enqueued the summary.
ASSUME PhaseAssumption == "marked" \in MidPhases

\* "none" stands for no row; who writes is at least a member.
ASSUME StatusAssumption ==
  Statuses \subseteq {"member", "restricted", "left"} /\ "member" \in Statuses

ASSUME BoundAssumption == LastTime \in Nat /\ MaxMessages \in Nat

VARIABLES
  now,
  real,      \* the group as it is: [in: status, heart: the message that carries the reaction]
  content,   \* of every update Telegram has published
  session,   \* table attendance_sessions: the row of the lesson
  marks,     \* table attendance_marks, by user
  roster,    \* table memberships, by user
  summaryId, \* system_settings telegram.attendance_summary.*
  jobs,      \* table jobs: the card's, and a summary's by bucket
  work,      \* the job worker's handler
  topic,     \* Telegram: cards posted
  headman,   \* Telegram: what the headman's messages say
  counted,   \* history: reactions that found the session open
  missed     \* history: whether a key was met that had been used

attendanceVars == <<session, marks, roster, summaryId>>
jobVars == <<jobs, work>>
telegramVars == <<topic, headman>>
worldVars == <<now, real, content>>
historyVars == <<counted, missed>>
vars == <<pumpVars, outboxVars, attendanceVars, jobVars, telegramVars, worldVars, historyVars>>

\* _ACTIVE_STATUSES and _ACTIVE_ROSTER_STATUSES, which differ.
Active == {"member", "restricted"}

Listed == {"member"}

NoContent == [kind |-> "none", user |-> NoKey, at |-> 0, on |-> 0, here |-> FALSE, status |-> "none"]

NoSession == [message |-> 0, status |-> "none"]

NoMark == [marked |-> FALSE, markedAt |-> 0]

NoMember == [status |-> "none", checkedAt |-> 0]

Card == [kind |-> "card", present |-> {}, missing |-> {}]

Summary(present, missing) == [kind |-> "summary", present |-> present, missing |-> missing]

NewMessage == 0

\* The rows of the module are the card and the summaries; what a row does not say by its key is
\* the message to edit.
ASSUME KeyAssumption ==
  Keys = {Card} \cup {Summary(present, missing) : present, missing \in SUBSET Users}

ASSUME MessageAssumption == 0..MaxMessages \subseteq Ops /\ 1..MaxMessages \subseteq Messages

\* The jobs by bucket, and after them the job of the card.
CardJob == LastTime + 1

NoJob == LastTime + 2

JobKeys == 0..CardJob

NoWork == [job |-> NoJob, text |-> Card, op |-> NewMessage]

Init ==
  /\ PumpInit
  /\ OutboxInit
  /\ now = 0
  /\ real = [p \in Users |-> [status |-> "member", heart |-> 0]]
  /\ content = [u \in {NoUpdate} \cup Updates |-> NoContent]
  /\ session = NoSession
  /\ marks = [p \in Users |-> NoMark]
  /\ roster = [p \in Users |-> NoMember]
  /\ summaryId = 0
  /\ jobs = [j \in JobKeys |-> IF j = CardJob THEN "open" ELSE "absent"]
  /\ work = NoWork
  /\ topic = 0
  /\ headman = [m \in 1..MaxMessages |-> Card]
  /\ counted = {}
  /\ missed = FALSE

Tick ==
  /\ now < LastTime
  /\ now' = now + 1
  /\ UNCHANGED <<pumpVars, outboxVars, attendanceVars, jobVars, telegramVars, historyVars,
                 real, content>>

(***************************************************************************)
(* What the members do, and the updates that tells of it.                  *)
(***************************************************************************)
Report(update) ==
  /\ Publish
  /\ content' = [content EXCEPT ![published + 1] = update]
  /\ UNCHANGED <<outboxVars, attendanceVars, jobVars, telegramVars, historyVars, now>>

\* A member sets or takes back the reaction on a card; other reactions are no events.
React(p, m) ==
  /\ real[p].status \in Active
  /\ m \in 1..topic
  /\ real[p].heart \in {0, m}
  /\ real' = [real EXCEPT ![p].heart = m - @]
  /\ Report([NoContent EXCEPT !.kind = "reaction", !.user = p, !.at = now, !.on = m,
                              !.here = real[p].heart = 0])

Move(p, status) ==
  /\ real[p].status # status
  /\ real' = [real EXCEPT ![p].status = status]
  /\ Report([NoContent EXCEPT !.kind = "member", !.user = p, !.at = now, !.status = status])

Write(p) ==
  /\ real[p].status \in Active
  /\ Report([NoContent EXCEPT !.kind = "message", !.user = p, !.at = now])
  /\ UNCHANGED real

(***************************************************************************)
(* The handler of a reaction: the mark in one transaction, the summary job *)
(* in another.                                                             *)
(***************************************************************************)
Update == content[worker.at]

\* Mutant of InWindow: the window includes its end.
InWindowInclusive(t) == OpensAt <= t /\ t <= ClosesAt

InWindow(t) == OpensAt <= t /\ t < ClosesAt

\* decide_attendance_action, and the status of the row.
Changes ==
  /\ session.status = "open"
  /\ InWindow(Update.at)
  /\ Update.here # marks[Update.user].marked

Found == session.message # 0 /\ session.message = Update.on

Count == counted' = IF Found /\ session.status = "open" THEN counted \cup {worker.at} ELSE counted

\* A removal dated before its mark breaks the check of the table, and the handler raises.
MarkOrUnmark ==
  /\ Update.kind = "reaction"
  /\ Found /\ Changes
  /\ Update.here \/ marks[Update.user].markedAt <= Update.at
  /\ marks' = [marks EXCEPT ![Update.user] =
       IF Update.here THEN [marked |-> TRUE, markedAt |-> Update.at] ELSE [@ EXCEPT !.marked = FALSE]]
  /\ Handle("read", "marked")
  /\ Count
  /\ UNCHANGED <<outboxVars, session, roster, summaryId, jobVars, telegramVars, worldVars, missed>>

IgnoreReaction ==
  /\ Update.kind = "reaction"
  /\ ~(Found /\ Changes)
  /\ Handle("read", "handled")
  /\ Count
  /\ UNCHANGED <<outboxVars, attendanceVars, jobVars, telegramVars, worldVars, missed>>

\* One job for a bucket; a bucket whose job has run already gets no other.
EnqueueSummary ==
  /\ Handle("marked", "handled")
  /\ jobs' = [jobs EXCEPT ![Update.at] = IF @ = "absent" THEN "open" ELSE @]
  /\ missed' = (missed \/ jobs[Update.at] = "ended" \/ work.job = Update.at)
  /\ UNCHANGED <<outboxVars, attendanceVars, work, telegramVars, worldVars, counted>>

(***************************************************************************)
(* Membership: what Telegram says, and what a message shows.               *)
(***************************************************************************)
ApplyChatMember ==
  /\ Update.kind = "member"
  /\ Handle("read", "handled")
  /\ roster' = IF roster[Update.user].status # "none" /\ Update.at < roster[Update.user].checkedAt
                 THEN roster
                 ELSE [roster EXCEPT ![Update.user] =
                        [status |-> Update.status, checkedAt |-> Update.at]]
  /\ UNCHANGED <<outboxVars, session, marks, summaryId, jobVars, telegramVars, worldVars, historyVars>>

\* Mutant of Newer: a message of the same second counts as later than a departure.
NewerOrSame(member, t) == member.status = "none" \/ member.checkedAt <= t

Newer(member, t) == member.status = "none" \/ member.checkedAt < t

\* A later message proves presence; it leaves the role of an active member alone.
ObserveSender ==
  /\ Update.kind = "message"
  /\ Handle("read", "handled")
  /\ roster' = IF Newer(roster[Update.user], Update.at)
                 THEN [roster EXCEPT ![Update.user] =
                        [status |-> IF @.status \in Active THEN @.status ELSE "member",
                         checkedAt |-> Update.at]]
                 ELSE roster
  /\ UNCHANGED <<outboxVars, session, marks, summaryId, jobVars, telegramVars, worldVars, historyVars>>

\* The database is busy, or a check of a table is broken.
HandlerRaises ==
  /\ RecordFailure
  /\ IF worker.phase = "read" /\ Update.kind = "reaction" /\ Found /\ Changes
          /\ ~Update.here /\ marks[Update.user].markedAt > Update.at
       THEN UNCHANGED troubles
       ELSE Suffer
  /\ UNCHANGED <<outboxVars, attendanceVars, jobVars, telegramVars, worldVars, historyVars>>

(***************************************************************************)
(* The jobs.                                                               *)
(***************************************************************************)
Marked == {p \in Users : marks[p].marked}

OnRoster == {p \in Users : roster[p].status \in Listed}

\* attendance_open, from the start of the lesson on.
OpenAttendance ==
  /\ work = NoWork
  /\ jobs[CardJob] = "open"
  /\ now >= OpensAt
  /\ jobs' = [jobs EXCEPT ![CardJob] = "ended"]
  /\ IF now < ClosesAt THEN Enqueue(Card, NewMessage) ELSE UNCHANGED outboxVars
  /\ UNCHANGED <<pumpVars, attendanceVars, work, telegramVars, worldVars, historyVars>>

\* attendance_summary: the text and the message on record are read in one transaction.
ReadSummary(b) ==
  /\ work = NoWork
  /\ jobs[b] = "open"
  /\ work' = [job |-> b, text |-> Summary(OnRoster \cap Marked, OnRoster \ Marked), op |-> summaryId]
  /\ UNCHANGED <<pumpVars, outboxVars, attendanceVars, jobs, telegramVars, worldVars, historyVars>>

\* Mutant of EnqueueText: a summary is sent once and never edited.
EnqueueTextOnce ==
  /\ work # NoWork
  /\ IF work.op # NewMessage \/ Conflict(work.text, work.op)
       THEN UNCHANGED outboxVars
       ELSE Enqueue(work.text, work.op)
  /\ jobs' = [jobs EXCEPT ![work.job] = "ended"]
  /\ work' = NoWork
  /\ missed' = (missed \/ outbox[work.text].status # "absent")
  /\ UNCHANGED <<pumpVars, attendanceVars, telegramVars, worldVars, counted>>

EnqueueText ==
  /\ work # NoWork
  /\ Enqueue(work.text, work.op)
  /\ jobs' = [jobs EXCEPT ![work.job] = "ended"]
  /\ work' = NoWork
  /\ missed' = (missed \/ outbox[work.text].status # "absent")
  /\ UNCHANGED <<pumpVars, attendanceVars, telegramVars, worldVars, counted>>

\* The text has been sent as a message of its own: the job raises until it is given up.
TextConflicts ==
  /\ work # NoWork
  /\ Conflict(work.text, work.op)
  /\ \/ jobs' = [jobs EXCEPT ![work.job] = "ended"]
     \/ UNCHANGED jobs
  /\ work' = NoWork
  /\ missed' = TRUE
  /\ UNCHANGED <<pumpVars, outboxVars, attendanceVars, telegramVars, worldVars, counted>>

\* maintenance_minute.
CloseDue ==
  /\ session.status = "open"
  /\ now >= ClosesAt
  /\ session' = [session EXCEPT !.status = "closed"]
  /\ UNCHANGED <<pumpVars, outboxVars, marks, roster, summaryId, jobVars, telegramVars,
                 worldVars, historyVars>>

(***************************************************************************)
(* The outbox worker on these envelopes.                                   *)
(***************************************************************************)
KeyOf(w) == sender[w].key

OpOf(w) == outbox[KeyOf(w)].op

SentToHeadman == Cardinality({m \in 1..MaxMessages : headman[m] # Card})

Carry(w) ==
  IF KeyOf(w) = Card
    THEN topic < MaxMessages /\ topic' = topic + 1 /\ UNCHANGED headman
    ELSE LET m == IF OpOf(w) = NewMessage THEN SentToHeadman + 1 ELSE OpOf(w) IN
         m <= MaxMessages /\ headman' = [headman EXCEPT ![m] = KeyOf(w)] /\ UNCHANGED topic

Reply(w) ==
  IF KeyOf(w) = Card THEN topic + 1
  ELSE IF OpOf(w) = NewMessage THEN SentToHeadman + 1 ELSE OpOf(w)

Done(w) == KeyOf(w) = Card /\ session # NoSession

ClaimRow(w, k) ==
  /\ Claim(w, k)
  /\ UNCHANGED <<pumpVars, attendanceVars, jobVars, telegramVars, worldVars, historyVars>>

SweepRows(w) ==
  /\ Sweep(w)
  /\ UNCHANGED <<pumpVars, attendanceVars, jobVars, telegramVars, worldVars, historyVars>>

SkipRow(w) ==
  /\ Done(w)
  /\ Skip(w)
  /\ UNCHANGED <<pumpVars, attendanceVars, jobVars, telegramVars, worldVars, historyVars>>

Send(w) ==
  /\ sender[w].phase = "claimed"
  /\ ~Done(w)
  /\ Carry(w)
  /\ Deliver(w, Reply(w))
  /\ UNCHANGED <<pumpVars, attendanceVars, jobVars, worldVars, historyVars>>

SendUnanswered(w) ==
  /\ sender[w].phase = "claimed"
  /\ ~Done(w)
  /\ Carry(w)
  /\ LoseReply(w)
  /\ Suffer
  /\ UNCHANGED <<published, forgotten, poller, inbox, worker, attendanceVars, jobVars, worldVars,
                 historyVars>>

\* Also the headman who is not, or cannot be shown to be, a member of the group.
SendRefused(w) ==
  /\ ~Done(w)
  /\ Refuse(w)
  /\ Suffer
  /\ UNCHANGED <<published, forgotten, poller, inbox, worker, attendanceVars, jobVars,
                 telegramVars, worldVars, historyVars>>

\* The confirmation transaction opens the session, or records the headman's message.
Record(w) ==
  /\ Confirm(w)
  /\ IF KeyOf(w) = Card
       THEN /\ session' = [message |-> sender[w].answer, status |-> "open"]
            /\ UNCHANGED summaryId
       ELSE /\ summaryId' = sender[w].answer
            /\ UNCHANGED session
  /\ UNCHANGED <<pumpVars, marks, roster, jobVars, telegramVars, worldVars, historyVars>>

EndRow(w) ==
  /\ Sent(w) \/ Fail(w)
  /\ UNCHANGED <<pumpVars, attendanceVars, jobVars, telegramVars, worldVars, historyVars>>

Due(k) ==
  /\ Elapse(k)
  /\ \A w \in Senders : KeyOf(w) # k
  /\ UNCHANGED <<pumpVars, attendanceVars, jobVars, telegramVars, worldVars, historyVars>>

(***************************************************************************)
(* The tasks of the process together.                                      *)
(***************************************************************************)
Pump ==
  /\ \/ Fetch \/ Admit \/ Begin \/ RecordProcessed
     \/ \E u \in Updates : WaitOver(u)
  /\ UNCHANGED <<outboxVars, attendanceVars, jobVars, telegramVars, worldVars, historyVars>>

\* The process dies while it has something in hand.
Crash ==
  /\ worker # Resting \/ poller.batch # {} \/ work # NoWork \/ \E w \in Senders : sender[w] # Idle
  /\ Restart
  /\ sender' = [w \in Senders |-> Idle]
  /\ work' = NoWork
  /\ UNCHANGED <<outbox, accepted, confirmed, attendanceVars, jobs, telegramVars, worldVars,
                 historyVars>>

Next ==
  \/ Tick
  \/ \E p \in Users :
       \/ \E m \in 1..MaxMessages : React(p, m)
       \/ \E status \in Statuses : Move(p, status)
       \/ Write(p)
  \/ Pump
  \/ MarkOrUnmark
  \/ IgnoreReaction
  \/ EnqueueSummary
  \/ ApplyChatMember
  \/ ObserveSender
  \/ HandlerRaises
  \/ OpenAttendance
  \/ \E b \in 0..LastTime : ReadSummary(b)
  \/ EnqueueText
  \/ TextConflicts
  \/ CloseDue
  \/ \E w \in Senders :
       \/ \E k \in Keys : ClaimRow(w, k)
       \/ SweepRows(w) \/ SkipRow(w) \/ Send(w) \/ SendUnanswered(w) \/ SendRefused(w)
       \/ Record(w) \/ EndRow(w)
  \/ \E k \in Keys : Due(k)
  \/ Crash

Spec == Init /\ [][Next]_vars

(***************************************************************************)
(* Properties.                                                             *)
(***************************************************************************)
\* Every table and task of the intake keeps its type.
TypeOK ==
  /\ PumpTypeOK
  /\ OutboxTypeOK
  /\ session.message \in 0..topic
  /\ marks \in [Users -> [marked : BOOLEAN, markedAt : 0..LastTime]]
  /\ roster \in [Users -> [status : Statuses \cup {"none"}, checkedAt : 0..LastTime]]
  /\ summaryId \in 0..SentToHeadman

\* As long as no update had to be put back, a member is marked exactly if the last reaction
\* of the window that found the session open set the heart, however often the process dies
\* between the mark and the end of the update (AttendanceService.apply_reaction).
MarksFollowReactions ==
  (\A u \in Updates : inbox[u].attempts = 0) =>
    \A p \in Users :
      LET own == {u \in counted : content[u].user = p /\ OpensAt <= content[u].at
                                    /\ content[u].at < ClosesAt} IN
      p \in Marked <=> own # {} /\ content[Max(own)].here

Told(p) == {u \in 1..published : content[u].kind = "member" /\ content[u].user = p}

\* "An old or same-second message cannot resurrect a user after an explicit leave"
\* (membership_store.py:102): once every update is processed, in whatever order the failures
\* left them, whoever is on file is on file as present exactly if present. Two moves of the
\* same second are told apart by nothing but their order.
RosterIsTrue ==
  (\A u \in 1..published : inbox[u].status = "processed") =>
    \A p \in Users :
      (\A u, v \in Told(p) : content[u].at = content[v].at => u = v) /\ roster[p] # NoMember =>
        (roster[p].status \in Active <=> real[p].status \in Active)

Quiet ==
  /\ \A u \in 1..published : inbox[u].status = "processed"
  /\ work = NoWork
  /\ \A j \in JobKeys : jobs[j] # "open"
  /\ \A k \in Keys : outbox[k].status \notin Open
  /\ \A w \in Senders : sender[w] = Idle

\* Without a failure, and unless a bucket or a text came up again, the headman's message
\* shows in the end which of the members it lists are marked (the reaction handler and
\* attendance_summary).
SummaryIsCurrent ==
  troubles = 0 /\ ~missed /\ Quiet =>
    /\ Marked # {} => summaryId # 0
    /\ summaryId # 0 =>
         headman[summaryId].present = Marked \cap (headman[summaryId].present \cup
                                                   headman[summaryId].missing)

====
