---- MODULE SchedulePublisher ----
(***************************************************************************)
(* The schedule_only release: GitVerse runs fetch the university's         *)
(* schedule and hand a dated two-week envelope to GitHub; the receiver and *)
(* the reminder workflow, serialised by one concurrency group, compare it  *)
(* with the state kept in the Actions cache and update one Telegram topic. *)
(* Sources: publisher.py, schedule/ci.py and the two GitHub workflows.     *)
(* Time is a count of ticks; a day is TicksPerDay of them.                 *)
(***************************************************************************)
EXTENDS Integers, Sequences, FiniteSets

CONSTANTS
  MaxTime,        \* bound: the clock stops here
  TicksPerDay,    \* ticks in a day
  EveningTick,    \* tick of the day from which the evening digest is due (20:00)
  WeekDays,       \* days in a week; the envelope covers two of them
  LastDay,        \* bound: last day the source publishes
  FirstLead,      \* first-class reminder window (2 hours) in ticks
  NextLead,       \* next-class reminder lead (15 minutes) in ticks
  MarkerCap,      \* how many reminder markers the state keeps (100)
  Timetable,      \* what one day of the source can say
  FirstTimetable, \* what every day says at the start
  Free,           \* the timetable of a day without lessons
  Blocks,         \* Blocks[t]: the <<start, end>> lesson blocks of timetable t
  Actionable,     \* pairs <<old, new>> whose difference has an actionable kind
  SiteChanges,    \* pairs <<old, new>> by which the source may edit a day
  Fetchers,       \* GitVerse runs that may be in flight together
  RequestKinds,   \* which requests occur: "forced", "remind", "legacy"
  Senders,        \* identities a run may publish with: "bot", "user"
  QuietMode,      \* settings.schedule_quiet_mode
  MaxCards,       \* bound: cards one sender creates
  Faults          \* which failures occur, a subset of FaultKinds

FaultKinds == {"rejected", "unreachable", "lost_reply", "card_deleted",
               "runner_lost", "cache_evicted", "calendar_failed", "late_read",
               "bad_request"}

ASSUME TimeAssumption ==
  /\ MaxTime \in Nat
  /\ TicksPerDay \in Nat \ {0}
  /\ WeekDays \in Nat \ {0}
  /\ LastDay \in Nat
  /\ {EveningTick, FirstLead, NextLead} \subseteq Nat
  /\ MarkerCap \in Nat \ {0}

ASSUME TimetableAssumption ==
  /\ {Free, FirstTimetable} \subseteq Timetable
  /\ Blocks \in [Timetable -> SUBSET (Nat \X Nat)]
  /\ Blocks[Free] = {}

ASSUME EnvironmentAssumption ==
  /\ MaxCards \in Nat
  /\ Senders \subseteq {"bot", "user"} /\ Senders # {}
  /\ RequestKinds \subseteq {"forced", "remind", "legacy"}
  /\ QuietMode \in BOOLEAN
  /\ Faults \subseteq FaultKinds

VARIABLES
  now,      \* the clock
  site,     \* site[d]: what the source says of day d
  fetch,    \* fetch[f]: the GitVerse run in slot f
  pending,  \* the newest run waiting for the concurrency group
  run,      \* the workflow run that holds the concurrency group
  disk,     \* the state file in the runner's workspace
  cache,    \* the newest state saved in the Actions cache
  cards,    \* schedule cards that exist in the topic
  created,  \* created[s]: how many cards sender s has created
  posted,   \* notifications the topic received
  repeated  \* those it received more than once

vars == <<now, site, fetch, pending, run, disk, cache, cards, created, posted, repeated>>
telegram == <<cards, created, posted, repeated>>

Times == 0 .. MaxTime
Days == 0 .. LastDay
DayOf(t) == t \div TicksPerDay
TickOf(t) == t % TicksPerDay

(***************************************************************************)
(* Envelopes and the delivery state                                        *)
(***************************************************************************)
Envelope == [stamp : -1 .. MaxTime, lessons : [Days -> Timetable], force : BOOLEAN]
NoEnvelope == [stamp |-> -1, lessons |-> [d \in Days |-> Free], force |-> FALSE]

\* The two weeks from the Monday of the day the envelope was stamped on.
Horizon(stamp) ==
  LET monday == DayOf(stamp) - (DayOf(stamp) % WeekDays)
  IN  {d \in Days : monday <= d /\ d < monday + 2 * WeekDays}

Fetched(stamp) == [d \in Days |-> IF d \in Horizon(stamp) THEN site[d] ELSE Free]

Marker == [kind : {"first", "next"}, day : Int, ended : Nat, start : Nat]

DeliveryState == [prev : Envelope, digest : Int, reminders : Seq(Marker),
                  card : [Senders -> 0 .. MaxCards]]

\* A missing or damaged cache is an empty state, so "no file" needs no value of its own.
NoState == [prev |-> NoEnvelope, digest |-> -1, reminders |-> <<>>,
            card |-> [s \in Senders |-> 0]]

\* Mutant of Changes: days that are new to the horizon count as changed.
ChangesWithoutOverlap(prev, cur, today) ==
  IF prev = NoEnvelope THEN {}
  ELSE {[day |-> d, old |-> prev.lessons[d], new |-> cur.lessons[d]] :
          d \in {e \in Horizon(cur.stamp) :
                   e >= today /\ prev.lessons[e] # cur.lessons[e]}}

\* overlapping_changes, at the grain of a day.
Changes(prev, cur, today) ==
  IF prev = NoEnvelope THEN {}
  ELSE {[day |-> d, old |-> prev.lessons[d], new |-> cur.lessons[d]] :
          d \in {e \in Horizon(prev.stamp) \cap Horizon(cur.stamp) :
                   e >= today /\ prev.lessons[e] # cur.lessons[e]}}

Urgent(changes, at) ==
  {c \in changes :
     /\ <<c.old, c.new>> \in Actionable
     /\ \E b \in Blocks[c.old] \cup Blocks[c.new] :
          c.day * TicksPerDay + b[1] \in at .. at + TicksPerDay}

ShouldPublishDigest(state, env, at) ==
  \/ env.force
  \/ TickOf(at) >= EveningTick /\ state.digest # DayOf(at)

(***************************************************************************)
(* due_reminder: the marker of the reminder due now, as a set of at most   *)
(* one marker.                                                             *)
(***************************************************************************)
Earlier(a, b) == a[1] < b[1] \/ (a[1] = b[1] /\ a[2] <= b[2])
FirstOf(blocks) == {b \in blocks : \A c \in blocks : Earlier(b, c)}

DueMarkers(env, at, sent) ==
  LET day     == DayOf(at)
      tick    == TickOf(at)
      blocks  == IF day \in Days THEN Blocks[env.lessons[day]] ELSE {}
      next(b) == FirstOf({c \in blocks : c[1] >= b[2]})
      closing == FirstOf({b \in blocks : /\ b[1] <= tick /\ tick >= b[2] - NextLead
                                         /\ \A n \in next(b) : tick < n[1]})
      opening == {b \in FirstOf(blocks) : b[1] - FirstLead <= tick /\ tick < b[1]}
      due == IF closing # {}
             THEN UNION {{[kind |-> "next", day |-> day, ended |-> b[2], start |-> n[1]] :
                            n \in next(b)} : b \in closing}
             ELSE {[kind |-> "first", day |-> day, ended |-> 0, start |-> b[1]] :
                     b \in opening}
  IN  {m \in due : \A i \in 1 .. Len(sent) : sent[i] # m}

KeepLast(s, n) == IF Len(s) <= n THEN s ELSE SubSeq(s, Len(s) - n + 1, Len(s))

(***************************************************************************)
(* The workflow run that holds the concurrency group                       *)
(***************************************************************************)
Request(kind, env) == [kind |-> kind, env |-> env]
NoRequest == Request("none", NoEnvelope)
RequestType == [kind : {"none", "receive", "remind", "legacy"}, env : Envelope]

Sends == {"notice", "evening", "reminder", "legacy"}

RunType == [kind : {"none", "receive", "remind", "legacy"}, env : Envelope,
            sender : Senders, at : Times, loaded : DeliveryState,
            card : 0 .. MaxCards, due : SUBSET Sends,
            pc : {"idle", "load", "edit", "create", "pin", "send", "done", "failed"}]

NoRun == [kind |-> "none", env |-> NoEnvelope, sender |-> CHOOSE s \in Senders : TRUE,
          at |-> 0, loaded |-> NoState, card |-> 0, due |-> {}, pc |-> "idle"]

\* Mutant of WithCard: the mapping keeps only the sender that saved it.
WithOnlyThisCard(state, sender, id) == [state EXCEPT !.card = [s \in {sender} |-> id]]

WithCard(state, sender, id) == [state EXCEPT !.card[sender] = id]

\* Change set of a receive run; a forced digest rebaselines without comparing.
RunChanges(r) ==
  IF r.env.force THEN {} ELSE Changes(r.loaded.prev, r.env, DayOf(r.at))

NoticeChanges(r) == IF QuietMode THEN Urgent(RunChanges(r), r.at) ELSE RunChanges(r)

\* The plan whose lessons a run reminds of, and the marker it is due to send.
Plan(r) == IF r.kind = "receive" THEN r.env ELSE r.loaded.prev
RunMarkers(r) ==
  IF QuietMode THEN {} ELSE DueMarkers(Plan(r), r.at, r.loaded.reminders)

PublishesDigest(r) == r.kind = "receive" /\ ShouldPublishDigest(r.loaded, r.env, r.at)

\* Mutant of ReceiveSends: a digest that shows the new plan stands in for the notice.
DigestInsteadOfNotice(r) ==
  {k \in {"notice", "evening", "reminder"} :
     \/ k = "notice" /\ NoticeChanges(r) # {} /\ ~PublishesDigest(r)
     \/ k = "evening" /\ PublishesDigest(r) /\ ~r.env.force /\ ~QuietMode
     \/ k = "reminder" /\ RunMarkers(r) # {}}

ReceiveSends(r) ==
  {k \in {"notice", "evening", "reminder"} :
     \/ k = "notice" /\ NoticeChanges(r) # {}
     \/ k = "evening" /\ PublishesDigest(r) /\ ~r.env.force /\ ~QuietMode
     \/ k = "reminder" /\ RunMarkers(r) # {}}

RemindSends(r) == IF RunMarkers(r) = {} THEN {} ELSE {"reminder"}

\* The order of the sends in publish_dispatched.
FirstDue(due) ==
  IF "notice" \in due THEN "notice"
  ELSE IF "evening" \in due THEN "evening"
  ELSE IF "reminder" \in due THEN "reminder" ELSE "legacy"

Message(r, k) ==
  IF k = "notice" THEN [type |-> k, base |-> r.loaded.prev.stamp, to |-> r.env.stamp,
                        changes |-> NoticeChanges(r)]
  ELSE IF k = "evening" THEN [type |-> k, day |-> DayOf(r.at)]
  ELSE IF k = "reminder" THEN [type |-> k, marker |-> CHOOSE m \in RunMarkers(r) : TRUE]
  ELSE [type |-> k]

Init ==
  /\ now = 0
  /\ site = [d \in Days |-> FirstTimetable]
  /\ fetch = [f \in Fetchers |-> [phase |-> "idle", env |-> NoEnvelope]]
  /\ pending = NoRequest
  /\ run = NoRun
  /\ disk = NoState
  /\ cache = NoState
  /\ cards = {}
  /\ created = [s \in Senders |-> 0]
  /\ posted = {}
  /\ repeated = {}

(***************************************************************************)
(* The world: time, edits at the source, and people in the topic           *)
(***************************************************************************)
Tick ==
  /\ now < MaxTime
  /\ now' = now + 1
  /\ UNCHANGED <<site, fetch, pending, run, disk, cache, telegram>>

EditSite(d, t) ==
  /\ <<site[d], t>> \in SiteChanges
  /\ site' = [site EXCEPT ![d] = t]
  /\ UNCHANGED <<now, fetch, pending, run, disk, cache, telegram>>

DeleteCard(c) ==
  /\ "card_deleted" \in Faults
  /\ cards' = cards \ {c}
  /\ UNCHANGED <<now, site, fetch, pending, run, disk, cache, created, posted, repeated>>

\* GitHub evicts the cache entries.
EvictCache ==
  /\ "cache_evicted" \in Faults
  /\ cache # NoState
  /\ cache' = NoState
  /\ UNCHANGED <<now, site, fetch, pending, run, disk, telegram>>

(***************************************************************************)
(* GitVerse: dispatch_schedule stamps its clock, reads the source and      *)
(* hands the envelope to GitHub. Runs overlap and finish in any order.     *)
(***************************************************************************)
BeginFetch(f, force) ==
  /\ fetch[f].phase = "idle"
  /\ force => "forced" \in RequestKinds
  /\ LET late == "late_read" \in Faults
         env  == [stamp |-> now, force |-> force,
                  lessons |-> IF late THEN NoEnvelope.lessons ELSE Fetched(now)]
     IN  fetch' = [fetch EXCEPT ![f] =
                     [phase |-> IF late THEN "stamped" ELSE "read", env |-> env]]
  /\ UNCHANGED <<now, site, pending, run, disk, cache, telegram>>

\* The pages are read after the clock was: other fetches may lie between.
ReadSource(f) ==
  /\ fetch[f].phase = "stamped"
  /\ fetch' = [fetch EXCEPT ![f].phase = "read",
                            ![f].env.lessons = Fetched(fetch[f].env.stamp)]
  /\ UNCHANGED <<now, site, pending, run, disk, cache, telegram>>

\* Only the newest pending run of the group is kept; the one it replaces is cancelled.
Submit(request) == pending' = request

HandOff(f) ==
  /\ fetch[f].phase = "read"
  /\ Submit(Request("receive", fetch[f].env))
  /\ fetch' = [fetch EXCEPT ![f] = [phase |-> "idle", env |-> NoEnvelope]]
  /\ UNCHANGED <<now, site, run, disk, cache, telegram>>

\* The source or the dispatch call failed: the GitVerse run ends with nothing handed over.
AbandonFetch(f) ==
  /\ fetch[f].phase # "idle"
  /\ fetch' = [fetch EXCEPT ![f] = [phase |-> "idle", env |-> NoEnvelope]]
  /\ UNCHANGED <<now, site, pending, run, disk, cache, telegram>>

\* The 15-minute reminder cron, and GitVerse code that still sends the old text card.
RequestOther(kind) ==
  /\ kind \in RequestKinds \cap {"remind", "legacy"}
  /\ Submit(Request(kind, NoEnvelope))
  /\ UNCHANGED <<now, site, fetch, run, disk, cache, telegram>>

(***************************************************************************)
(* A workflow run: take the group, restore the newest state, load it       *)
(***************************************************************************)
StartRun(s) ==
  /\ run.pc = "idle"
  /\ pending # NoRequest
  /\ run' = [NoRun EXCEPT !.kind = pending.kind, !.env = pending.env,
                          !.sender = s, !.pc = "load"]
  /\ pending' = NoRequest
  /\ disk' = cache
  /\ UNCHANGED <<now, site, fetch, cache, telegram>>

\* A wrong group, a malformed envelope or a failed preflight ends the run before any send.
RejectRun ==
  /\ "bad_request" \in Faults
  /\ run.pc = "load"
  /\ run' = [run EXCEPT !.pc = "failed"]
  /\ UNCHANGED <<now, site, fetch, pending, disk, cache, telegram>>

Loaded == [run EXCEPT !.at = now, !.loaded = disk, !.card = disk.card[run.sender]]

\* Mutant of Stale: the age of an envelope is not checked.
NeverStale(env, state) == FALSE

Stale(env, state) == env.stamp <= state.prev.stamp

AfterCalendar == {"done"} \cup (IF "calendar_failed" \in Faults THEN {"failed"} ELSE {})

\* An envelope no newer than the baseline only rewrites the calendar file.
LoadStale ==
  /\ run.pc = "load" /\ run.kind = "receive"
  /\ Stale(run.env, disk)
  /\ \E pc \in AfterCalendar : run' = [Loaded EXCEPT !.pc = pc]
  /\ UNCHANGED <<now, site, fetch, pending, disk, cache, telegram>>

LoadFresh ==
  /\ run.pc = "load" /\ run.kind = "receive"
  /\ ~Stale(run.env, disk)
  /\ run' = [Loaded EXCEPT !.due = ReceiveSends(Loaded),
                           !.pc = IF Loaded.card = 0 THEN "create" ELSE "edit"]
  /\ UNCHANGED <<now, site, fetch, pending, disk, cache, telegram>>

\* publish_due_reminder: nothing to do without a baseline, or with neither card nor reminder.
LoadReminder ==
  /\ run.pc = "load" /\ run.kind = "remind"
  /\ LET r == Loaded
         idle == disk.prev = NoEnvelope \/ (RunMarkers(r) = {} /\ r.card = 0)
     IN  run' = IF idle THEN [r EXCEPT !.pc = "done"]
                ELSE [r EXCEPT !.due = RemindSends(r),
                               !.pc = IF r.card = 0 THEN "send" ELSE "edit"]
  /\ UNCHANGED <<now, site, fetch, pending, disk, cache, telegram>>

LoadLegacy ==
  /\ run.pc = "load" /\ run.kind = "legacy"
  /\ run' = [run EXCEPT !.due = {"legacy"}, !.pc = "send"]
  /\ UNCHANGED <<now, site, fetch, pending, disk, cache, telegram>>

(***************************************************************************)
(* _upsert_calendar. A call is rejected (an HTTP error, a RuntimeError),   *)
(* unreachable, or delivered with its reply lost (transport errors, which  *)
(* are RuntimeErrors only for the personal sender).                        *)
(***************************************************************************)
CallFaults == Faults \cap {"rejected", "unreachable", "lost_reply"}

Card(s, id) == [by |-> s, id |-> id]

FailRun == run' = [run EXCEPT !.pc = "failed"]

\* What the last save_delivery_state of a run writes.
CommittedState(r) ==
  [prev      |-> Plan(r),
   digest    |-> IF PublishesDigest(r) THEN DayOf(r.at) ELSE r.loaded.digest,
   reminders |-> IF RunMarkers(r) = {} THEN r.loaded.reminders
                 ELSE KeepLast(Append(r.loaded.reminders, CHOOSE m \in RunMarkers(r) : TRUE),
                               MarkerCap),
   card      |-> WithCard(r.loaded, r.sender, r.card).card]

\* Mutant of KeepCard: the new card is only remembered in memory.
KeepCardInMemory(id) ==
  /\ run' = [run EXCEPT !.card = id, !.pc = "send"]
  /\ UNCHANGED disk

\* Mutant of KeepCard: the first save already writes the final state.
KeepEverythingEarly(id) ==
  /\ run' = [run EXCEPT !.card = id, !.pc = "send"]
  /\ disk' = IF run.kind = "receive" THEN CommittedState([run EXCEPT !.card = id]) ELSE disk

\* The receiver saves the card at once; the reminder path saves at its end only.
KeepCard(id) ==
  /\ run' = [run EXCEPT !.card = id, !.pc = "send"]
  /\ disk' = IF run.kind = "receive" THEN WithCard(run.loaded, run.sender, id) ELSE disk

EditCard ==
  /\ run.pc = "edit"
  /\ Card(run.sender, run.card) \in cards
  /\ KeepCard(run.card)
  /\ UNCHANGED <<now, site, fetch, pending, cache, telegram>>

EditFails ==
  /\ run.pc = "edit"
  /\ CallFaults # {}
  /\ FailRun
  /\ UNCHANGED <<now, site, fetch, pending, disk, cache, telegram>>

\* Only a confirmed missing message permits a replacement.
EditFindsNoCard ==
  /\ run.pc = "edit"
  /\ Card(run.sender, run.card) \notin cards
  /\ run' = [run EXCEPT !.pc = "create"]
  /\ UNCHANGED <<now, site, fetch, pending, disk, cache, telegram>>

PostCard ==
  /\ created[run.sender] < MaxCards
  /\ created' = [created EXCEPT ![run.sender] = @ + 1]
  /\ cards' = cards \cup {Card(run.sender, created[run.sender] + 1)}

CreateCard ==
  /\ run.pc = "create"
  /\ PostCard
  /\ run' = [run EXCEPT !.card = created[run.sender] + 1, !.pc = "pin"]
  /\ UNCHANGED <<now, site, fetch, pending, disk, cache, posted, repeated>>

CreateFails ==
  /\ run.pc = "create"
  /\ \E fault \in CallFaults :
       IF fault = "lost_reply" THEN PostCard ELSE UNCHANGED <<cards, created>>
  /\ FailRun
  /\ UNCHANGED <<now, site, fetch, pending, disk, cache, posted, repeated>>

\* A RuntimeError from the pin call is suppressed.
PinCard ==
  /\ run.pc = "pin"
  /\ KeepCard(run.card)
  /\ UNCHANGED <<now, site, fetch, pending, cache, telegram>>

\* A transport error of the bot's pin call is not a RuntimeError and escapes.
PinFails ==
  /\ run.pc = "pin"
  /\ run.sender = "bot"
  /\ CallFaults \cap {"unreachable", "lost_reply"} # {}
  /\ FailRun
  /\ UNCHANGED <<now, site, fetch, pending, disk, cache, telegram>>

(***************************************************************************)
(* Notifications, the final save, and the workflow's save step             *)
(***************************************************************************)
Post(m) ==
  /\ posted' = posted \cup {m}
  /\ repeated' = IF m \in posted THEN repeated \cup {m} ELSE repeated

Deliver(k) == IF k = "legacy" THEN UNCHANGED <<posted, repeated>> ELSE Post(Message(run, k))

Send ==
  /\ run.pc = "send"
  /\ run.due # {}
  /\ LET k == FirstDue(run.due)
     IN  Deliver(k) /\ run' = [run EXCEPT !.due = @ \ {k}]
  /\ UNCHANGED <<now, site, fetch, pending, disk, cache, cards, created>>

SendFails ==
  /\ run.pc = "send"
  /\ run.due # {}
  /\ \E fault \in CallFaults :
       IF fault = "lost_reply" THEN Deliver(FirstDue(run.due))
       ELSE UNCHANGED <<posted, repeated>>
  /\ FailRun
  /\ UNCHANGED <<now, site, fetch, pending, disk, cache, cards, created>>

\* The receiver writes its calendar file after the save; a legacy card saves nothing.
Commit ==
  /\ run.pc = "send"
  /\ run.due = {}
  /\ disk' = IF run.kind = "legacy" THEN disk ELSE CommittedState(run)
  /\ \E pc \in IF run.kind = "receive" THEN AfterCalendar ELSE {"done"} :
       run' = [run EXCEPT !.pc = pc]
  /\ UNCHANGED <<now, site, fetch, pending, cache, telegram>>

\* Mutant of EndRun: the receiver's save step, too, runs after a success only.
EndRunSavingSuccessOnly ==
  /\ run.pc \in {"done", "failed"}
  /\ cache' = IF run.pc = "done" THEN disk ELSE cache
  /\ run' = NoRun
  /\ disk' = NoState
  /\ UNCHANGED <<now, site, fetch, pending, telegram>>

\* receive-schedule.yml saves the state even after a failure, remind-schedule.yml does not.
EndRun ==
  /\ run.pc \in {"done", "failed"}
  /\ cache' = IF run.kind # "remind" \/ run.pc = "done" THEN disk ELSE cache
  /\ run' = NoRun
  /\ disk' = NoState
  /\ UNCHANGED <<now, site, fetch, pending, telegram>>

\* The runner dies: no later step of the job runs.
LoseRunner ==
  /\ "runner_lost" \in Faults
  /\ run.pc # "idle"
  /\ run' = NoRun
  /\ disk' = NoState
  /\ UNCHANGED <<now, site, fetch, pending, cache, telegram>>

Next ==
  \/ Tick
  \/ \E d \in Days, t \in Timetable : EditSite(d, t)
  \/ \E c \in cards : DeleteCard(c)
  \/ EvictCache
  \/ \E f \in Fetchers, force \in BOOLEAN : BeginFetch(f, force)
  \/ \E f \in Fetchers : ReadSource(f) \/ HandOff(f) \/ AbandonFetch(f)
  \/ \E kind \in {"remind", "legacy"} : RequestOther(kind)
  \/ \E s \in Senders : StartRun(s)
  \/ RejectRun \/ LoadStale \/ LoadFresh \/ LoadReminder \/ LoadLegacy
  \/ EditCard \/ EditFails \/ EditFindsNoCard
  \/ CreateCard \/ CreateFails \/ PinCard \/ PinFails
  \/ Send \/ SendFails \/ Commit \/ EndRun \/ LoseRunner

Spec == Init /\ [][Next]_vars

----------------------------------------------------------------------------
(***************************************************************************)
(* Properties                                                              *)
(***************************************************************************)
FetchType == [phase : {"idle", "stamped", "read"}, env : Envelope]

\* Every variable has the shape the code gives it.
TypeOK ==
  /\ now \in Times
  /\ site \in [Days -> Timetable]
  /\ fetch \in [Fetchers -> FetchType]
  /\ pending \in RequestType
  /\ run \in RunType
  /\ disk \in DeliveryState
  /\ cache \in DeliveryState
  /\ cards \subseteq [by : Senders, id : 1 .. MaxCards]
  /\ created \in [Senders -> 0 .. MaxCards]
  /\ repeated \subseteq posted

Notices == {m \in posted : m.type = "notice"}

\* publisher.py "Never regress the comparison baseline": whatever order envelopes, reruns
\* and reminder runs end in, the cached baseline only moves to a later stamp; eviction empties it.
BaselineStep == cache'.prev.stamp >= cache.prev.stamp \/ cache' = NoState
BaselineNeverRegresses == [][BaselineStep]_cache

\* "The comparison baseline still advances only after notifications succeed": when the cached
\* baseline moves on, the topic has received a notice of every change this skips over.
AnnouncedStep ==
  LET old     == cache.prev
      new     == cache'.prev
      skipped == Changes(old, new, DayOf(run.at))
      due     == IF QuietMode THEN Urgent(skipped, run.at) ELSE skipped
  IN  (new.stamp > old.stamp /\ ~new.force /\ due # {})
        => [type |-> "notice", base |-> old.stamp, to |-> new.stamp, changes |-> due] \in posted
ChangesAreAnnounced == [][AnnouncedStep]_cache

\* Nothing is recorded as delivered that the topic has not received: each saved reminder
\* marker was sent, and the recorded evening was announced (forced and quiet digests aside).
RecordedMeansDelivered ==
  /\ \A i \in 1 .. Len(cache.reminders) :
       [type |-> "reminder", marker |-> cache.reminders[i]] \in posted
  /\ (cache.digest # -1 /\ ~QuietMode /\ "forced" \notin RequestKinds)
       => [type |-> "evening", day |-> cache.digest] \in posted

\* "Refresh the single pinned card": a sender never has two schedule cards in the topic.
SingleCard ==
  \A c, d \in cards : c.by = d.by => c = d

\* While Telegram answers, no notice, evening summary or reminder is posted twice, although
\* two workflows send reminders and a calendar failure can end a run after its sends.
NothingRepeated == repeated = {}

\* "Never emit reverse/duplicate changes": a notice leads from an older snapshot to a newer
\* one, and no two notices cover the same span of the source's history.
NoticesChain ==
  \A m, n \in Notices : /\ m.base < m.to
                        /\ m # n => (m.to <= n.base \/ n.to <= m.base)

\* A change the topic is told of is one the source really made, never its reverse.
AnnouncedChangesHappened ==
  \A m \in Notices : \A c \in m.changes : <<c.old, c.new>> \in SiteChanges

====
