---- MODULE ScheduleDelivery ----
(***************************************************************************)
(* The timetable in the durable profile: the synchronisation of a week     *)
(* (ScheduleSyncService), the coordinator that refreshes stale weeks       *)
(* (ScheduleCoordinator), the recurring jobs and their handlers            *)
(* (app._schedule_recurring, ApplicationJobHandlers) and the schedule      *)
(* envelopes of the outbox with their confirmation transaction             *)
(* (ApplicationTelegramSender).                                            *)
(*                                                                         *)
(* The lessons of a day are one version; a change is a day with the        *)
(* version before and after.  One step is one transaction, together with   *)
(* the awaits that no other task can tell from it.  The rows of table jobs *)
(* are reduced to open and ended: JobQueue is about their leases.          *)
(***************************************************************************)
EXTENDS Outbox, Sequences

CONSTANTS
  Days,          \* the calendar, 0 .. n
  DaysPerWeek,
  Today,         \* the local date, which does not change
  Versions,      \* of the lessons of one day
  Nothing,
  MaxTries,      \* max_attempts of a job
  MaxCards,      \* messages the topic may hold
  MaxEvents,     \* changes of the source and failures the model has room for
  Interactive    \* the commands of the full profile, which refresh as well

Tomorrow == Today + 1

Week(d) == d \div DaysPerWeek

Weeks == {Week(d) : d \in Days}

DaysOf(w) == {d \in Days : Week(d) = w}

ASSUME CalendarAssumption ==
  /\ DaysPerWeek \in Nat \ {0}
  /\ Days \subseteq Nat
  /\ {Today, Today + 1} \subseteq Days
  /\ Week(Today) + 1 \in Weeks
ASSUME MessageAssumption == MaxCards \in Nat /\ 0..MaxCards \subseteq Ops \cap Messages
ASSUME TryAssumption == MaxTries \in Nat \ {0}

Timetables(w) == [DaysOf(w) -> Versions]

ASSUME SentinelAssumption ==
  Nothing \notin Weeks /\ \A w \in Weeks : Nothing \notin Timetables(w)

\* diff_schedules: the days that differ between two versions of a week.
Differences(w, old, new) ==
  {[to |-> new, day |-> d, before |-> old[d], after |-> new[d]] :
     d \in {e \in DaysOf(w) : new[e] # old[e]}}

ChangeIds == [to : UNION {Timetables(w) : w \in Weeks},
              day : Days, before : Versions, after : Versions]

Texts == [lessons : Versions, stale : BOOLEAN]

CardKey(d, text) == [kind |-> "card", day |-> d, text |-> text]

NoticeKey(ids) == [kind |-> "changes", ids |-> ids]

\* A key is the ids written one after the other: every set of changes of a week has one.
ASSUME NoticeAssumption ==
  \A w \in Weeks : \A old, new \in Timetables(w) :
    \A ids \in SUBSET Differences(w, old, new) : ids # {} => NoticeKey(ids) \in Keys

IsCard(k) == k.kind = "card"

\* The kind and the message id of an envelope: a new message, or an edit of one.
NewMessage == 0

JobKeys == {"sync", "evening"}

VARIABLES
  marker,    \* system_settings schedule.confirmation.*: what is confirmed, and whether it
             \* is fresh: confirmed within fresh_for, and no attempt has failed since
  stored,    \* table schedule_changes
  notified,  \* those with notified_at
  card,      \* system_settings telegram.schedule_card.*: the message of a day, or 0
  jobs,      \* table jobs, the schedule kinds
  work,      \* the job worker's handler
  topic,     \* Telegram: the cards of the topic by message id
  lost,      \* history: changes detected for a caller that discards them, and changes of a
             \* day whose card was still on its way when the card was looked for
  trouble,   \* history: how many calls and processes have failed
  repeated   \* history: whether a key or a change has been met a second time

storeVars == <<marker, stored, notified, card>>
taskVars == <<jobs, work>>
historyVars == <<lost, trouble, repeated>>
vars == <<outboxVars, storeVars, taskVars, topic, historyVars>>

Ended == [state |-> "ended", tries |-> 0]

NoWork == [job |-> Nothing, step |-> "idle", accesses |-> <<>>, message |-> 0]

Init ==
  /\ OutboxInit
  /\ marker = [w \in Weeks |-> [lessons |-> Nothing, fresh |-> FALSE]]
  /\ stored = {}
  /\ notified = {}
  /\ card = [d \in Days |-> 0]
  /\ jobs = [sync |-> Ended, evening |-> [state |-> "absent", tries |-> 0]]
  /\ work = NoWork
  /\ topic = <<>>
  /\ lost = [untold |-> {}, unseen |-> {}]
  /\ trouble = 0
  /\ repeated = FALSE

\* A failure, which the run of the model bounds.
Suffer ==
  /\ Cardinality(stored) + trouble < MaxEvents
  /\ trouble' = trouble + 1
  /\ UNCHANGED repeated

Mind(again) == repeated' = (repeated \/ again) /\ UNCHANGED trouble

\* The freshness window of a confirmation runs out. Nobody looks at other weeks.
GrowOld(w) ==
  /\ marker[w].fresh
  /\ w = Week(Tomorrow)
  /\ marker' = [marker EXCEPT ![w].fresh = FALSE]
  /\ UNCHANGED <<outboxVars, stored, notified, card, taskVars, topic, historyVars>>

(***************************************************************************)
(* Synchronising a week with what the source publishes for it.             *)
(***************************************************************************)
\* Between the confirmed version and the one just read.
Detected(w, lessons) ==
  IF marker[w].lessons = Nothing THEN {} ELSE Differences(w, marker[w].lessons, lessons)

\* Changes are unique by the version they lead to and their fingerprint.
New(w, lessons) == Detected(w, lessons) \ stored

Repeated(w, lessons) == Detected(w, lessons) \cap stored # {}

Synchronise(w, lessons) ==
  /\ Cardinality(stored \cup New(w, lessons)) + trouble <= MaxEvents
  /\ stored' = stored \cup New(w, lessons)
  /\ marker' = [marker EXCEPT ![w] = [lessons |-> lessons, fresh |-> TRUE]]

\* A source that fails keeps the confirmed version and makes it stale.
RecordFailedAttempt(w) ==
  /\ marker' = [marker EXCEPT ![w].fresh = FALSE]
  /\ stored' = stored

(***************************************************************************)
(* The recurring scheduler and the job worker.                             *)
(***************************************************************************)
\* One sync row at a time is open; its key is the bucket of the clock, so a new one follows.
AdmitSync ==
  /\ jobs["sync"].state # "open"
  /\ jobs' = [jobs EXCEPT !["sync"] = [state |-> "open", tries |-> 0]]
  /\ UNCHANGED <<outboxVars, storeVars, work, topic, historyVars>>

\* From the evening hour on: one row for each local day.
AdmitEvening ==
  /\ jobs["evening"].state = "absent"
  /\ jobs' = [jobs EXCEPT !["evening"] = [state |-> "open", tries |-> 0]]
  /\ UNCHANGED <<outboxVars, storeVars, work, topic, historyVars>>

ClaimJob(j) ==
  /\ work = NoWork
  /\ jobs[j].state = "open"
  /\ jobs[j].tries < MaxTries
  /\ jobs' = [jobs EXCEPT ![j].tries = @ + 1]
  /\ work' = [NoWork EXCEPT !.job = j, !.step = IF j = "sync" THEN "this week" ELSE "load"]
  /\ UNCHANGED <<outboxVars, storeVars, topic, historyVars>>

\* The last attempt died with the process.
SweepJob(j) ==
  /\ work = NoWork
  /\ jobs[j].state = "open"
  /\ jobs[j].tries >= MaxTries
  /\ jobs' = [jobs EXCEPT ![j] = Ended]
  /\ UNCHANGED <<outboxVars, storeVars, work, topic, historyVars>>

(***************************************************************************)
(* The handler of schedule.sync: both weeks first, then their notices.     *)
(***************************************************************************)
SyncWeek == Week(Today) + (IF work.step = "next week" THEN 1 ELSE 0)

\* Mutant of AfterWeek: what the first week has found is overwritten by the second.
AfterWeekKeepingLast(found) ==
  work' = [work EXCEPT
    !.accesses = IF found.changes = {} THEN @ ELSE <<found>>,
    !.step = IF @ = "this week" THEN "next week" ELSE "publish"]

AfterWeek(found) ==
  work' = [work EXCEPT
    !.accesses = IF found.changes = {} THEN @ ELSE Append(@, found),
    !.step = IF @ = "this week" THEN "next week" ELSE "publish"]

NoAccess == [week |-> 0, changes |-> {}, lessons |-> Nothing, stale |-> FALSE]

SyncSucceeds(lessons) ==
  /\ work.step \in {"this week", "next week"}
  /\ lessons \in Timetables(SyncWeek)
  /\ Synchronise(SyncWeek, lessons)
  /\ AfterWeek([week |-> SyncWeek, changes |-> New(SyncWeek, lessons),
                lessons |-> lessons, stale |-> FALSE])
  /\ Mind(Repeated(SyncWeek, lessons))
  /\ UNCHANGED <<outboxVars, notified, card, jobs, topic, lost>>

\* Without the first page nothing is tried; a source that fails later is recorded.
SyncFails ==
  /\ work.step \in {"this week", "next week"}
  /\ \/ RecordFailedAttempt(SyncWeek)
     \/ UNCHANGED <<marker, stored>>
  /\ AfterWeek(NoAccess)
  /\ UNCHANGED <<outboxVars, notified, card, jobs, topic, historyVars>>

Access == Head(work.accesses)

NextAccess == [work EXCEPT !.accesses = Tail(@), !.step = "publish", !.message = 0]

\* Mutant of PublishNotice: with the notice the week is done.
PublishNoticeOnly ==
  /\ work.step = "publish"
  /\ work.accesses # <<>>
  /\ Enqueue(NoticeKey(Access.changes), NewMessage)
  /\ work' = NextAccess
  /\ UNCHANGED <<storeVars, jobs, topic, historyVars>>

\* _publish_changes; a card of tomorrow is looked at next if tomorrow has changed.
PublishNotice ==
  /\ work.step = "publish"
  /\ work.accesses # <<>>
  /\ Enqueue(NoticeKey(Access.changes), NewMessage)
  /\ work' = IF \E c \in Access.changes : c.day = Tomorrow
               THEN [work EXCEPT !.step = "card"]
               ELSE NextAccess
  /\ UNCHANGED <<storeVars, jobs, topic, historyVars>>

(***************************************************************************)
(* _publish_day: the id on record, then the row.  The synchronisation only *)
(* edits a card that is there; the evening job sends one if none is.       *)
(***************************************************************************)
CardOpen(d) == \E k \in Keys : IsCard(k) /\ k.day = d /\ outbox[k].status \in Open

ReadCard ==
  /\ work.step = "card"
  /\ IF work.job = "sync" /\ card[Tomorrow] = 0
       THEN /\ work' = NextAccess
            /\ lost' = [lost EXCEPT !.unseen =
                 IF CardOpen(Tomorrow) THEN @ \cup Access.changes ELSE @]
       ELSE /\ work' = [work EXCEPT !.step = "enqueue", !.message = card[Tomorrow]]
            /\ UNCHANGED lost
  /\ UNCHANGED <<outboxVars, storeVars, jobs, topic, trouble, repeated>>

CardText == [lessons |-> Access.lessons[Tomorrow], stale |-> Access.stale]

EnqueueCard ==
  /\ work.step = "enqueue"
  /\ Enqueue(CardKey(Tomorrow, CardText), work.message)
  /\ work' = NextAccess
  /\ Mind(outbox' = outbox)
  /\ UNCHANGED <<storeVars, jobs, topic, lost>>

\* The text has a row of another kind: the handler raises, and the job is tried again.
CardConflicts ==
  /\ work.step = "enqueue"
  /\ Conflict(CardKey(Tomorrow, CardText), work.message)
  /\ work' = NoWork
  /\ jobs' = [jobs EXCEPT
       ![work.job] = IF @.tries >= MaxTries THEN Ended ELSE @]
  /\ Mind(TRUE)
  /\ UNCHANGED <<outboxVars, storeVars, topic, lost>>

FinishJob ==
  /\ work.step = "publish"
  /\ work.accesses = <<>>
  /\ work' = NoWork
  /\ jobs' = [jobs EXCEPT ![work.job] = Ended]
  /\ UNCHANGED <<outboxVars, storeVars, topic, historyVars>>

(***************************************************************************)
(* The handler of schedule.evening: the week of Tomorrow, refreshed by     *)
(* get_week if it is stale; the changes that finds are not looked at.      *)
(***************************************************************************)
ShowCard(w, lessons, stale) ==
  [work EXCEPT !.step = "card",
               !.accesses = <<[week |-> w, changes |-> {}, lessons |-> lessons, stale |-> stale]>>]

EveningLoad ==
  LET w == Week(Tomorrow) IN
  /\ work.step = "load"
  /\ work' = IF marker[w].fresh THEN ShowCard(w, marker[w].lessons, FALSE)
                         ELSE [work EXCEPT !.step = "refresh"]
  /\ UNCHANGED <<outboxVars, storeVars, jobs, topic, historyVars>>

Overlook(changes) == lost' = [lost EXCEPT !.untold = @ \cup changes]

EveningRefreshes(lessons) ==
  LET w == Week(Tomorrow) IN
  /\ work.step = "refresh"
  /\ lessons \in Timetables(w)
  /\ Synchronise(w, lessons)
  /\ Overlook(New(w, lessons))
  /\ Mind(Repeated(w, lessons))
  /\ work' = ShowCard(w, lessons, FALSE)
  /\ UNCHANGED <<outboxVars, notified, card, jobs, topic>>

\* The last confirmed version is shown as stale; without one there is no card.
EveningFallsBack ==
  LET w == Week(Tomorrow) IN
  /\ work.step = "refresh"
  /\ \/ RecordFailedAttempt(w)
     \/ UNCHANGED <<marker, stored>>
  /\ work' = IF marker[w].lessons = Nothing
               THEN [work EXCEPT !.step = "publish"]
               ELSE ShowCard(w, marker[w].lessons, TRUE)
  /\ UNCHANGED <<outboxVars, notified, card, jobs, topic, historyVars>>

(***************************************************************************)
(* A command of a member, handled by another task of the process.          *)
(***************************************************************************)
\* It refreshes a week it found stale, which another task may have refreshed meanwhile.
Answer(w) ==
  /\ Interactive
  /\ w \in {Week(Today), Week(Today) + 1}
  /\ \/ \E lessons \in Timetables(w) :
          /\ Synchronise(w, lessons)
          /\ Overlook(New(w, lessons))
          /\ Mind(Repeated(w, lessons))
     \/ RecordFailedAttempt(w) /\ UNCHANGED historyVars
  /\ UNCHANGED <<outboxVars, notified, card, jobs, work, topic>>

\* The process dies with its tasks; rows and markers stay.
Restart ==
  /\ work # NoWork \/ \E w \in Senders : sender[w] # Idle
  /\ work' = NoWork
  /\ sender' = [w \in Senders |-> Idle]
  /\ Suffer
  /\ UNCHANGED <<outbox, accepted, confirmed, storeVars, jobs, topic, lost>>

(***************************************************************************)
(* The outbox worker on schedule envelopes.                                *)
(***************************************************************************)
KeyOf(w) == sender[w].key

OpOf(w) == outbox[KeyOf(w)].op

Post(k) == Append(topic, [day |-> k.day, text |-> k.text])

\* What a call does to the topic: notices are posted apart from the cards.
Carry(w) ==
  IF ~IsCard(KeyOf(w)) THEN UNCHANGED topic
  ELSE IF OpOf(w) = NewMessage
    THEN Len(topic) < MaxCards /\ topic' = Post(KeyOf(w))
    ELSE topic[OpOf(w)].text # KeyOf(w).text /\ topic' = [topic EXCEPT ![OpOf(w)].text = KeyOf(w).text]

Reply(w) ==
  IF ~IsCard(KeyOf(w)) THEN NewMessage
  ELSE IF OpOf(w) = NewMessage THEN Len(topic) + 1 ELSE OpOf(w)

ClaimRow(w, k) ==
  /\ Claim(w, k)
  /\ UNCHANGED <<storeVars, taskVars, topic, historyVars>>

SweepRows(w) ==
  /\ Sweep(w)
  /\ UNCHANGED <<storeVars, taskVars, topic, historyVars>>

Send(w) ==
  /\ Deliver(w, Reply(w))
  /\ Carry(w)
  /\ UNCHANGED <<storeVars, taskVars, historyVars>>

SendUnanswered(w) ==
  /\ LoseReply(w)
  /\ Carry(w)
  /\ Suffer
  /\ UNCHANGED <<storeVars, taskVars, lost>>

\* Also an edit that changes nothing, which Telegram refuses.
SendRefused(w) ==
  /\ Refuse(w)
  /\ Suffer
  /\ UNCHANGED <<storeVars, taskVars, topic, lost>>

\* The confirmation transaction: the message id of a card, or the changes of a notice.
Record(w) ==
  /\ Confirm(w)
  /\ IF IsCard(KeyOf(w))
       THEN /\ card' = [card EXCEPT ![KeyOf(w).day] = sender[w].answer]
            /\ UNCHANGED notified
       ELSE /\ notified' = notified \cup KeyOf(w).ids
            /\ UNCHANGED card
  /\ UNCHANGED <<marker, stored, taskVars, topic, historyVars>>

Report(w) ==
  /\ Sent(w) \/ Fail(w)
  /\ UNCHANGED <<storeVars, taskVars, topic, historyVars>>

\* A lease runs out, or the delay of a row that was put off. A worker by itself does not
\* notice that its own lease ends.
Due(k) ==
  /\ Elapse(k)
  /\ Cardinality(Senders) > 1 \/ \A w \in Senders : KeyOf(w) # k
  /\ UNCHANGED <<storeVars, taskVars, topic, historyVars>>

Next ==
  \/ \E w \in Weeks : GrowOld(w) \/ Answer(w)
  \/ AdmitSync
  \/ AdmitEvening
  \/ \E j \in JobKeys : ClaimJob(j) \/ SweepJob(j)
  \/ \E w \in Weeks : \E lessons \in Timetables(w) :
       SyncSucceeds(lessons) \/ EveningRefreshes(lessons)
  \/ SyncFails
  \/ PublishNotice
  \/ ReadCard
  \/ EnqueueCard
  \/ CardConflicts
  \/ FinishJob
  \/ EveningLoad
  \/ EveningFallsBack
  \/ Restart
  \/ \E w \in Senders, k \in Keys : ClaimRow(w, k)
  \/ \E w \in Senders : SweepRows(w) \/ Send(w) \/ SendUnanswered(w) \/ SendRefused(w)
                          \/ Record(w) \/ Report(w)
  \/ \E k \in Keys : Due(k)

Spec == Init /\ [][Next]_vars

(***************************************************************************)
(* Properties.                                                             *)
(***************************************************************************)
\* Every table and task of the timetable's delivery keeps its type.
TypeOK ==
  /\ OutboxTypeOK
  /\ \A w \in Weeks : marker[w].lessons \in Timetables(w) \cup {Nothing}
  /\ stored \subseteq ChangeIds
  /\ notified \subseteq stored
  /\ card \in [Days -> 0..MaxCards]
  /\ \A j \in JobKeys : jobs[j].tries <= MaxTries
  /\ Len(topic) <= MaxCards

Quiet ==
  /\ work = NoWork
  /\ \A k \in Keys : outbox[k].status \notin Open
  /\ \A w \in Senders : sender[w] = Idle

\* What the database says of the topic is so: a change with notified_at was in a notice
\* Telegram posted, and the message on record for a day is that day's card
\* (ApplicationTelegramSender.send records only after the call returned).
RecordsAreTrue ==
  /\ \A c \in notified : \E k \in Keys : ~IsCard(k) /\ c \in k.ids /\ accepted[k] > 0
  /\ \A d \in Days : card[d] # 0 => card[d] <= Len(topic) /\ topic[card[d]].day = d

\* As long as no call failed, no process died and no key was met again, every change the
\* database knows of has been told once nothing is under way, those aside that were found by
\* a caller who does not look at them (schedule_evening, the commands).
ChangesAreTold ==
  trouble = 0 /\ ~repeated /\ Quiet => stored \subseteq notified \cup lost.untold

\* In the same circumstances the card of tomorrow shows the lessons confirmed for it, unless
\* a change of that day was lost to such a caller, or found while the card was on its way
\* (schedule_sync with only_if_existing).
CardIsCurrent ==
  LET overlooked == {c.day : c \in lost.untold \cup lost.unseen} IN
  trouble = 0 /\ ~repeated /\ Quiet /\ card[Tomorrow] # 0 /\ Tomorrow \notin overlooked =>
    topic[card[Tomorrow]].text.lessons = marker[Week(Tomorrow)].lessons[Tomorrow]

\* "Publication rows are unique by (kind, target, semantic_key), so a 20:29 -> 20:32 restart
\* creates one evening card" (docs/ARCHITECTURE.md:55): one row sends the card of a day.
OneCardPerDay ==
  \A d \in Days :
    Cardinality({k \in Keys : IsCard(k) /\ k.day = d /\ outbox[k].op = NewMessage}) <= 1

====
