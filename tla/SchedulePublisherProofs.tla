---- MODULE SchedulePublisherProofs ----
(***************************************************************************)
(* Proofs about SchedulePublisher for any clock, calendar, timetables,     *)
(* senders, number of overlapping GitVerse runs and set of failures.       *)
(***************************************************************************)
EXTENDS SchedulePublisher, FiniteSetTheorems, TLAPS

----------------------------------------------------------------------------
(***************************************************************************)
(* The operators the actions are built from                                *)
(***************************************************************************)
LEMMA DayIsInt == ASSUME NEW t \in Nat PROVE DayOf(t) \in Int
BY TimeAssumption DEF DayOf

LEMMA NoEnvelopeType == NoEnvelope \in Envelope
BY TimeAssumption, TimetableAssumption DEF NoEnvelope, Envelope

LEMMA NoStateType == NoState \in DeliveryState
<1>1. <<>> \in Seq(Marker) OBVIOUS
<1> QED BY <1>1, NoEnvelopeType, EnvironmentAssumption DEF NoState, DeliveryState

LEMMA NoRunType == NoRun \in RunType
<1>1. (CHOOSE s \in Senders : TRUE) \in Senders
  BY EnvironmentAssumption
<1>2. 0 \in Times /\ 0 \in 0 .. MaxCards
  BY TimeAssumption, EnvironmentAssumption DEF Times
<1> QED BY <1>1, <1>2, NoEnvelopeType, NoStateType DEF NoRun, RunType

LEMMA NoRequestType == NoRequest \in RequestType
BY NoEnvelopeType DEF NoRequest, Request, RequestType

\* What a fetch reads is a plan of the whole calendar.
LEMMA FetchedType ==
  ASSUME TypeOK, NEW stamp \in -1 .. MaxTime PROVE Fetched(stamp) \in [Days -> Timetable]
BY TimetableAssumption DEF Fetched, TypeOK

\* due_reminder yields markers only.
LEMMA DueMarkersType ==
  ASSUME NEW env \in Envelope, NEW at \in Times, NEW sent PROVE DueMarkers(env, at, sent) \subseteq Marker
<1> DEFINE day     == DayOf(at)
           tick    == TickOf(at)
           blocks  == IF day \in Days THEN Blocks[env.lessons[day]] ELSE {}
           next(b) == FirstOf({c \in blocks : c[1] >= b[2]})
           closing == FirstOf({b \in blocks : /\ b[1] <= tick /\ tick >= b[2] - NextLead
                                              /\ \A n \in next(b) : tick < n[1]})
           opening == {b \in FirstOf(blocks) : b[1] - FirstLead <= tick /\ tick < b[1]}
           due == IF closing # {}
                  THEN UNION {{[kind |-> "next", day |-> day, ended |-> b[2], start |-> n[1]] :
                                 n \in next(b)} : b \in closing}
                  ELSE {[kind |-> "first", day |-> day, ended |-> 0, start |-> b[1]] :
                          b \in opening}
<1>1. blocks \subseteq Nat \X Nat
  BY TimetableAssumption DEF Envelope
<1>2. day \in Int
  BY DayIsInt DEF Times
<1>3. closing \subseteq blocks /\ opening \subseteq blocks /\ \A b : next(b) \subseteq blocks
  BY DEF FirstOf
<1> HIDE DEF day, tick, blocks, next, closing, opening
<1>4. due \subseteq Marker
  BY <1>1, <1>2, <1>3 DEF Marker
<1>5. DueMarkers(env, at, sent) \subseteq due
  BY DEF DueMarkers, day, tick, blocks, next, closing, opening
<1> QED BY <1>4, <1>5

\* Trimming the marker list leaves a marker list.
LEMMA KeepLastType ==
  ASSUME NEW S, NEW s \in Seq(S), NEW n \in Nat \ {0} PROVE KeepLast(s, n) \in Seq(S)
<1>1. CASE Len(s) <= n
  BY <1>1 DEF KeepLast
<1>2. CASE ~(Len(s) <= n)
  <2>1. Len(s) - n + 1 \in 1 .. Len(s) /\ Len(s) \in 1 .. Len(s)
    BY <1>2
  <2> QED BY <1>2, <2>1 DEF KeepLast
<1> QED BY <1>1, <1>2

LEMMA WithCardType ==
  ASSUME NEW state \in DeliveryState, NEW s \in Senders, NEW id \in 0 .. MaxCards
  PROVE  WithCard(state, s, id) \in DeliveryState /\ WithCard(state, s, id).prev = state.prev
BY DEF WithCard, DeliveryState

LEMMA CommittedType ==
  ASSUME NEW r \in RunType
  PROVE  CommittedState(r) \in DeliveryState /\ CommittedState(r).prev = Plan(r)
<1>1. /\ r.env \in Envelope /\ r.loaded \in DeliveryState /\ r.at \in Times
      /\ r.sender \in Senders /\ r.card \in 0 .. MaxCards
  BY DEF RunType
<1>2. Plan(r) \in Envelope
  BY <1>1 DEF Plan, DeliveryState
<1>3. RunMarkers(r) \subseteq Marker
  BY <1>1, <1>2, DueMarkersType DEF RunMarkers
<1>4. (IF RunMarkers(r) = {} THEN r.loaded.reminders
       ELSE KeepLast(Append(r.loaded.reminders, CHOOSE m \in RunMarkers(r) : TRUE), MarkerCap))
        \in Seq(Marker)
  <2>1. r.loaded.reminders \in Seq(Marker)
    BY <1>1 DEF DeliveryState
  <2>2. CASE RunMarkers(r) = {}
    BY <2>1, <2>2
  <2>3. CASE RunMarkers(r) # {}
    <3>1. (CHOOSE m \in RunMarkers(r) : TRUE) \in Marker
      BY <1>3, <2>3
    <3>2. Append(r.loaded.reminders, CHOOSE m \in RunMarkers(r) : TRUE) \in Seq(Marker)
      BY <2>1, <3>1
    <3> QED BY <2>3, <3>2, KeepLastType, TimeAssumption
  <2> QED BY <2>2, <2>3
<1>5. (IF PublishesDigest(r) THEN DayOf(r.at) ELSE r.loaded.digest) \in Int
  BY <1>1, DayIsInt DEF Times, DeliveryState
<1>6. WithCard(r.loaded, r.sender, r.card).card \in [Senders -> 0 .. MaxCards]
  BY <1>1, WithCardType DEF DeliveryState
<1> QED BY <1>2, <1>4, <1>5, <1>6 DEF CommittedState, DeliveryState

LEMMA LoadedType ==
  ASSUME TypeOK
  PROVE  /\ Loaded \in RunType
         /\ Loaded.kind = run.kind /\ Loaded.env = run.env /\ Loaded.sender = run.sender
         /\ Loaded.pc = run.pc /\ Loaded.loaded = disk /\ Loaded.at = now
BY DEF Loaded, TypeOK, RunType, DeliveryState

LEMMA SendsType == \A r : ReceiveSends(r) \subseteq Sends /\ RemindSends(r) \subseteq Sends
BY DEF ReceiveSends, RemindSends, Sends

----------------------------------------------------------------------------
(***************************************************************************)
(* Type correctness                                                        *)
(***************************************************************************)
LEMMA InitTyped == Init => TypeOK
<1> SUFFICES ASSUME Init PROVE TypeOK OBVIOUS
<1>1. [phase |-> "idle", env |-> NoEnvelope] \in FetchType
  BY NoEnvelopeType DEF FetchType
<1>2. 0 \in Times /\ 0 \in 0 .. MaxCards
  BY TimeAssumption, EnvironmentAssumption DEF Times
<1> QED BY <1>1, <1>2, NoRequestType, NoRunType, NoStateType, TimetableAssumption DEF Init, TypeOK

\* The world and GitVerse.
WorldStep ==
  \/ Tick
  \/ \E d \in Days, t \in Timetable : EditSite(d, t)
  \/ \E c \in cards : DeleteCard(c)
  \/ EvictCache
  \/ \E f \in Fetchers, force \in BOOLEAN : BeginFetch(f, force)
  \/ \E f \in Fetchers : ReadSource(f) \/ HandOff(f) \/ AbandonFetch(f)
  \/ \E kind \in {"remind", "legacy"} : RequestOther(kind)

LEMMA WorldTyped == ASSUME TypeOK, WorldStep PROVE TypeOK'
<1> USE DEF TypeOK
<1>1. CASE Tick
  BY <1>1, TimeAssumption DEF Tick, Times, telegram
<1>2. ASSUME NEW d \in Days, NEW t \in Timetable, EditSite(d, t) PROVE TypeOK'
  BY <1>2 DEF EditSite, telegram
<1>3. ASSUME NEW c \in cards, DeleteCard(c) PROVE TypeOK'
  BY <1>3 DEF DeleteCard
<1>4. CASE EvictCache
  BY <1>4, NoStateType DEF EvictCache, telegram
<1>5. ASSUME NEW f \in Fetchers, NEW force \in BOOLEAN, BeginFetch(f, force) PROVE TypeOK'
  <2> DEFINE late == "late_read" \in Faults
             lessons == IF late THEN NoEnvelope.lessons ELSE Fetched(now)
             env == [stamp |-> now, force |-> force, lessons |-> lessons]
  <2>1. now \in -1 .. MaxTime
    BY TimeAssumption DEF Times
  <2>2. lessons \in [Days -> Timetable]
    BY <2>1, FetchedType, NoEnvelopeType DEF Envelope
  <2>3. env \in Envelope
    BY <2>1, <2>2 DEF Envelope
  <2>4. [phase |-> IF late THEN "stamped" ELSE "read", env |-> env] \in FetchType
    BY <2>3 DEF FetchType
  <2>5. fetch' = [fetch EXCEPT ![f] = [phase |-> IF late THEN "stamped" ELSE "read", env |-> env]]
    BY <1>5 DEF BeginFetch
  <2> HIDE DEF env, lessons, late
  <2>6. fetch' \in [Fetchers -> FetchType]
    BY <2>4, <2>5
  <2> QED BY <1>5, <2>6 DEF BeginFetch, telegram
<1>6. ASSUME NEW f \in Fetchers, ReadSource(f) PROVE TypeOK'
  <2>1. fetch[f] \in FetchType /\ fetch[f].env \in Envelope /\ fetch[f].env.stamp \in -1 .. MaxTime
    BY DEF FetchType, Envelope
  <2>2. Fetched(fetch[f].env.stamp) \in [Days -> Timetable]
    BY <2>1, FetchedType
  <2>3. [fetch[f].env EXCEPT !.lessons = Fetched(fetch[f].env.stamp)] \in Envelope
    BY <2>1, <2>2 DEF Envelope
  <2>4. fetch' = [fetch EXCEPT ![f] =
                    [[fetch[f] EXCEPT !.phase = "read"] EXCEPT
                       !.env = [fetch[f].env EXCEPT !.lessons = Fetched(fetch[f].env.stamp)]]]
    BY <1>6, <2>1 DEF ReadSource, FetchType
  <2>5. fetch' \in [Fetchers -> FetchType]
    BY <2>1, <2>3, <2>4 DEF FetchType
  <2> QED BY <1>6, <2>5 DEF ReadSource, telegram
<1>7. ASSUME NEW f \in Fetchers, HandOff(f) \/ AbandonFetch(f) PROVE TypeOK'
  <2>1. [phase |-> "idle", env |-> NoEnvelope] \in FetchType
    BY NoEnvelopeType DEF FetchType
  <2>2. Request("receive", fetch[f].env) \in RequestType
    BY DEF FetchType, Request, RequestType
  <2>3. fetch' \in [Fetchers -> FetchType]
    BY <1>7, <2>1 DEF HandOff, AbandonFetch
  <2>4. pending' \in RequestType
    BY <1>7, <2>2 DEF HandOff, AbandonFetch, Submit
  <2> QED BY <1>7, <2>3, <2>4 DEF HandOff, AbandonFetch, telegram
<1>8. ASSUME NEW kind \in {"remind", "legacy"}, RequestOther(kind) PROVE TypeOK'
  <2>1. Request(kind, NoEnvelope) \in RequestType
    BY NoEnvelopeType DEF Request, RequestType
  <2> QED BY <1>8, <2>1 DEF RequestOther, Submit, telegram
<1> QED BY <1>1, <1>2, <1>3, <1>4, <1>5, <1>6, <1>7, <1>8 DEF WorldStep

\* A run takes the concurrency group, loads its state, ends or dies.
GroupStep ==
  \/ \E s \in Senders : StartRun(s)
  \/ RejectRun \/ LoadStale \/ LoadFresh \/ LoadReminder \/ LoadLegacy
  \/ EndRun \/ LoseRunner

LEMMA GroupTyped == ASSUME TypeOK, GroupStep PROVE TypeOK'
<1> USE DEF TypeOK
<1>1. ASSUME NEW s \in Senders, StartRun(s) PROVE TypeOK'
  <2>1. run' \in RunType
    BY <1>1, NoRunType DEF StartRun, RunType, RequestType
  <2> QED BY <1>1, <2>1, NoRequestType DEF StartRun, telegram
<1>2. CASE RejectRun
  BY <1>2 DEF RejectRun, RunType, telegram
<1>3. CASE LoadStale
  <2>1. AfterCalendar \subseteq {"done", "failed"}
    BY DEF AfterCalendar
  <2>2. run' \in RunType
    BY <1>3, <2>1, LoadedType DEF LoadStale, RunType
  <2> QED BY <1>3, <2>2 DEF LoadStale, telegram
<1>4. CASE LoadFresh
  <2>1. run' \in RunType
    BY <1>4, LoadedType, SendsType DEF LoadFresh, RunType
  <2> QED BY <1>4, <2>1 DEF LoadFresh, telegram
<1>5. CASE LoadReminder
  <2>1. run' \in RunType
    BY <1>5, LoadedType, SendsType DEF LoadReminder, RunType
  <2> QED BY <1>5, <2>1 DEF LoadReminder, telegram
<1>6. CASE LoadLegacy
  BY <1>6 DEF LoadLegacy, RunType, Sends, telegram
<1>7. CASE EndRun
  BY <1>7, NoRunType, NoStateType DEF EndRun, telegram
<1>8. CASE LoseRunner
  BY <1>8, NoRunType, NoStateType DEF LoseRunner, telegram
<1> QED BY <1>1, <1>2, <1>3, <1>4, <1>5, <1>6, <1>7, <1>8 DEF GroupStep

\* A run talks to Telegram and saves its state.
PublishStep ==
  \/ EditCard \/ EditFails \/ EditFindsNoCard
  \/ CreateCard \/ CreateFails \/ PinCard \/ PinFails
  \/ Send \/ SendFails \/ Commit

LEMMA PostCardTyped ==
  ASSUME TypeOK, PostCard
  PROVE  /\ created' \in [Senders -> 0 .. MaxCards]
         /\ cards' \subseteq [by : Senders, id : 1 .. MaxCards]
         /\ created[run.sender] + 1 \in 0 .. MaxCards
<1>1. run.sender \in Senders /\ created[run.sender] \in 0 .. MaxCards
  BY DEF TypeOK, RunType
<1>2. created[run.sender] + 1 \in 1 .. MaxCards
  BY <1>1, EnvironmentAssumption DEF PostCard
<1> QED BY <1>1, <1>2 DEF PostCard, TypeOK, Card

LEMMA KeepCardTyped ==
  ASSUME TypeOK, NEW id \in 0 .. MaxCards, KeepCard(id)
  PROVE  run' \in RunType /\ disk' \in DeliveryState
<1>1. run \in RunType /\ run.sender \in Senders /\ run.loaded \in DeliveryState
  BY DEF TypeOK, RunType
<1>2. run' \in RunType
  BY <1>1 DEF KeepCard, RunType
<1> QED BY <1>1, <1>2, WithCardType DEF KeepCard, TypeOK

LEMMA DeliverTyped ==
  ASSUME TypeOK, NEW k, Deliver(k) PROVE (repeated \subseteq posted)' /\ posted \subseteq posted'
BY DEF Deliver, Post, TypeOK

LEMMA PublishTyped == ASSUME TypeOK, PublishStep PROVE TypeOK'
<1>0. run \in RunType /\ run.card \in 0 .. MaxCards /\ run.due \in SUBSET Sends
  BY DEF TypeOK, RunType
<1>1. ASSUME FailRun PROVE run' \in RunType
  BY <1>0, <1>1 DEF FailRun, RunType
<1>2. CASE EditCard
  BY <1>0, <1>2, KeepCardTyped DEF EditCard, TypeOK, telegram
<1>3. CASE EditFails \/ PinFails
  BY <1>1, <1>3 DEF EditFails, PinFails, TypeOK, telegram
<1>4. CASE EditFindsNoCard
  <2>1. run' \in RunType
    BY <1>0, <1>4 DEF EditFindsNoCard, RunType
  <2> QED BY <1>4, <2>1 DEF EditFindsNoCard, TypeOK, telegram
<1>5. CASE CreateCard
  <2>1. run' \in RunType
    BY <1>0, <1>5, PostCardTyped DEF CreateCard, RunType
  <2> QED BY <1>5, <2>1, PostCardTyped DEF CreateCard, TypeOK
<1>6. CASE CreateFails
  <2>1. PostCard \/ UNCHANGED <<cards, created>>
    BY <1>6 DEF CreateFails
  <2> QED BY <1>1, <1>6, <2>1, PostCardTyped DEF CreateFails, TypeOK
<1>7. CASE PinCard
  BY <1>0, <1>7, KeepCardTyped DEF PinCard, TypeOK, telegram
<1>8. CASE Send
  <2>1. run' \in RunType
    BY <1>0, <1>8 DEF Send, RunType
  <2>2. Deliver(FirstDue(run.due))
    BY <1>8 DEF Send
  <2> QED BY <1>8, <2>1, <2>2, DeliverTyped DEF Send, TypeOK
<1>9. CASE SendFails
  <2>1. Deliver(FirstDue(run.due)) \/ UNCHANGED <<posted, repeated>>
    BY <1>9 DEF SendFails
  <2>2. (repeated \subseteq posted)'
    BY <2>1, DeliverTyped DEF TypeOK
  <2> QED BY <1>1, <1>9, <2>2 DEF SendFails, TypeOK
<1>10. CASE Commit
  <2>1. AfterCalendar \subseteq {"done", "failed"}
    BY DEF AfterCalendar
  <2>2. run' \in RunType
    BY <1>0, <1>10, <2>1 DEF Commit, RunType
  <2>3. disk' \in DeliveryState
    BY <1>0, <1>10, CommittedType DEF Commit, TypeOK
  <2> QED BY <1>10, <2>2, <2>3 DEF Commit, TypeOK, telegram
<1> QED BY <1>2, <1>3, <1>4, <1>5, <1>6, <1>7, <1>8, <1>9, <1>10 DEF PublishStep

LEMMA Steps == Next => WorldStep \/ GroupStep \/ PublishStep
BY DEF Next, WorldStep, GroupStep, PublishStep

\* The publisher's state, its runs and its Telegram ledger keep their types. (publisher.py,
\* schedule/ci.py save_delivery_state and load_delivery_state)
THEOREM TypeCorrect == Spec => []TypeOK
<1>1. TypeOK /\ [Next]_vars => TypeOK'
  <2>1. ASSUME TypeOK, UNCHANGED vars PROVE TypeOK'
    BY <2>1 DEF vars, TypeOK
  <2> QED BY <2>1, Steps, WorldTyped, GroupTyped, PublishTyped
<1> QED BY <1>1, InitTyped, PTL DEF Spec

----------------------------------------------------------------------------
(***************************************************************************)
(* What a run knows about the cached baseline                              *)
(***************************************************************************)
Serving == run.pc \in {"edit", "create", "pin", "send"}

Notice == Message(run, "notice")
Announced == NoticeChanges(run) # {} => Notice \in posted

\* The run compared its envelope with the cached baseline, announced the difference and
\* saved the envelope in the workspace.
Moved ==
  /\ run.kind = "receive" /\ run.pc \in {"done", "failed"}
  /\ run.loaded.prev = cache.prev
  /\ disk.prev = run.env
  /\ run.env.stamp > run.loaded.prev.stamp
  /\ Announced

\* Between the restore and the save of a run the baseline in its workspace is the cached
\* one, unless the cache was evicted or the run has moved the baseline.
WorkspaceBasis ==
  run.pc # "idle" => \/ cache.prev = NoEnvelope
                     \/ disk.prev = cache.prev
                     \/ Moved

\* A serving run loaded the cached baseline, a receiver with an older stamp than its own,
\* and it still owes the notice of its changes or has posted it.
RunBasis ==
  /\ Serving /\ run.kind # "legacy" =>
       cache.prev = NoEnvelope \/ run.loaded.prev = cache.prev
  /\ Serving /\ run.kind = "receive" =>
       /\ run.env.stamp > run.loaded.prev.stamp
       /\ "notice" \in run.due \/ Announced

\* The inductive invariant.
Basis == TypeOK /\ WorkspaceBasis /\ RunBasis

LEMMA InitBasis == Init => Basis
BY InitTyped DEF Init, Basis, WorkspaceBasis, RunBasis, Serving, NoRun

\* The changes a run announces depend on its envelope, its loaded state and its clock only.
LEMMA SameNotice ==
  ASSUME NEW r, NEW q, r.env = q.env, r.loaded = q.loaded, r.at = q.at
  PROVE  NoticeChanges(r) = NoticeChanges(q) /\ Message(r, "notice") = Message(q, "notice")
BY DEF NoticeChanges, RunChanges, Message

LEMMA WorldKeepsBasis == ASSUME Basis, WorldStep PROVE Basis'
<1>1. TypeOK'
  BY WorldTyped DEF Basis
<1>2. UNCHANGED <<run, disk, posted>>
  BY DEF WorldStep, Tick, EditSite, DeleteCard, EvictCache, BeginFetch, ReadSource, HandOff,
         AbandonFetch, RequestOther, telegram
<1>3. cache' = cache \/ cache' = NoState
  BY DEF WorldStep, Tick, EditSite, DeleteCard, EvictCache, BeginFetch, ReadSource, HandOff,
         AbandonFetch, RequestOther, telegram
<1>4. NoState.prev = NoEnvelope
  BY DEF NoState
<1>5. Announced' = Announced /\ Serving' = Serving
  BY <1>2 DEF Announced, Notice, Serving
<1> QED BY <1>1, <1>2, <1>3, <1>4, <1>5 DEF Basis, WorkspaceBasis, RunBasis, Moved

LEMMA GroupKeepsBasis == ASSUME Basis, GroupStep PROVE Basis'
<1> USE DEF Basis
<1>0. TypeOK'
  BY GroupTyped
<1>1. CASE EndRun \/ LoseRunner
  BY <1>0, <1>1 DEF EndRun, LoseRunner, NoRun, WorkspaceBasis, RunBasis, Serving
<1>2. ASSUME NEW s \in Senders, StartRun(s) PROVE Basis'
  <2>1. run'.pc = "load" /\ disk' = cache /\ cache' = cache
    BY <1>2 DEF StartRun, NoRun
  <2> QED BY <1>0, <2>1 DEF WorkspaceBasis, RunBasis, Serving
<1>3. ASSUME run.pc = "load", UNCHANGED <<disk, cache, posted>>, run'.pc # "idle"
      PROVE  WorkspaceBasis'
  BY <1>3 DEF WorkspaceBasis, Moved
<1>4. CASE RejectRun \/ LoadStale
  <2>1. run'.pc \in {"done", "failed"}
    BY <1>4, LoadedType DEF RejectRun, LoadStale, AfterCalendar, TypeOK, RunType
  <2> QED BY <1>0, <1>3, <1>4, <2>1 DEF RejectRun, LoadStale, telegram, RunBasis, Serving
<1>5. CASE LoadFresh
  <2>1. /\ run' = [Loaded EXCEPT !.due = ReceiveSends(Loaded),
                                 !.pc = IF Loaded.card = 0 THEN "create" ELSE "edit"]
        /\ run.pc = "load" /\ ~Stale(run.env, disk) /\ UNCHANGED <<disk, cache, posted>>
    BY <1>5 DEF LoadFresh, telegram
  <2>2. /\ run'.due = ReceiveSends(Loaded) /\ run'.loaded = disk /\ run'.env = run.env
        /\ run'.at = Loaded.at /\ run'.env = Loaded.env /\ run'.loaded = Loaded.loaded
        /\ run'.pc \in {"create", "edit"}
    BY <2>1, LoadedType DEF RunType
  <2>3. run'.env.stamp > run'.loaded.prev.stamp
    <3>1. run.env.stamp \in -1 .. MaxTime /\ disk.prev.stamp \in -1 .. MaxTime
      BY DEF TypeOK, RunType, DeliveryState, Envelope
    <3> QED BY <2>1, <2>2, <3>1, TimeAssumption DEF Stale
  <2>4. NoticeChanges(run') # {} => "notice" \in run'.due
    BY <2>2, SameNotice DEF ReceiveSends
  <2>5. cache.prev = NoEnvelope \/ disk.prev = cache.prev
    BY <2>1 DEF WorkspaceBasis, Moved
  <2>6. RunBasis'
    BY <2>1, <2>2, <2>3, <2>4, <2>5 DEF RunBasis, Announced
  <2> QED BY <1>0, <1>3, <2>1, <2>2, <2>6
<1>6. CASE LoadReminder
  <2>1. /\ run'.kind = "remind" /\ run'.loaded = disk
        /\ run'.pc \in {"done", "send", "edit"} /\ run.pc = "load"
        /\ UNCHANGED <<disk, cache, posted>>
    BY <1>6, LoadedType DEF LoadReminder, RunType, telegram
  <2>2. cache.prev = NoEnvelope \/ disk.prev = cache.prev
    BY <2>1 DEF WorkspaceBasis, Moved
  <2> QED BY <1>0, <1>3, <2>1, <2>2 DEF RunBasis
<1>7. CASE LoadLegacy
  <2>1. /\ run'.kind = "legacy" /\ run'.pc = "send" /\ run.pc = "load"
        /\ UNCHANGED <<disk, cache, posted>>
    BY <1>7 DEF LoadLegacy, TypeOK, RunType, telegram
  <2> QED BY <1>0, <1>3, <2>1 DEF RunBasis
<1> QED BY <1>1, <1>2, <1>4, <1>5, <1>6, <1>7 DEF GroupStep

\* A step of a serving run that does not touch the cache.
LEMMA ServingCore ==
  ASSUME Basis, Serving, UNCHANGED cache, posted \subseteq posted',
         UNCHANGED <<run.kind, run.env, run.loaded, run.at>>,
         disk'.prev = disk.prev \/ (disk'.prev = run.loaded.prev /\ run.kind # "legacy"),
         run'.pc \in {"edit", "create", "pin", "send", "failed"},
         run'.due = run.due \/ "notice" \notin run.due \/ Notice \in posted'
  PROVE  (WorkspaceBasis /\ RunBasis)'
<1>1. NoticeChanges(run') = NoticeChanges(run) /\ Notice' = Notice
  BY SameNotice DEF Notice
<1>2. Announced => Announced'
  BY <1>1 DEF Announced
<1>3. WorkspaceBasis'
  BY DEF Basis, WorkspaceBasis, Moved, Serving, RunBasis
<1>4. RunBasis'
  BY <1>1, <1>2 DEF Basis, RunBasis, Serving, Announced
<1> QED BY <1>3, <1>4

LEMMA PublishKeepsBasis == ASSUME Basis, PublishStep PROVE Basis'
<1>0. TypeOK /\ TypeOK' /\ run \in RunType
  BY PublishTyped DEF Basis, TypeOK
<1>1. ASSUME FailRun
      PROVE  /\ UNCHANGED <<run.kind, run.env, run.loaded, run.at>>
             /\ run'.due = run.due /\ run'.pc = "failed"
  BY <1>0, <1>1 DEF FailRun, RunType
<1>2. ASSUME NEW id, id \in 0 .. MaxCards, KeepCard(id)
      PROVE  /\ UNCHANGED <<run.kind, run.env, run.loaded, run.at>>
             /\ run'.due = run.due /\ run'.pc = "send"
             /\ disk'.prev = disk.prev \/ (disk'.prev = run.loaded.prev /\ run.kind # "legacy")
  <2>1. run.loaded \in DeliveryState /\ run.sender \in Senders
    BY <1>0 DEF RunType
  <2> QED BY <1>0, <1>2, <2>1, WithCardType DEF KeepCard, RunType
<1>3. CASE EditCard \/ PinCard
  <2>1. KeepCard(run.card) /\ run.card \in 0 .. MaxCards /\ Serving /\ UNCHANGED <<cache, posted>>
    BY <1>0, <1>3 DEF EditCard, PinCard, RunType, Serving, telegram
  <2> QED BY <1>0, <1>2, <2>1, ServingCore DEF Basis
<1>4. CASE EditFails \/ PinFails \/ CreateFails
  <2>1. FailRun /\ Serving /\ UNCHANGED <<cache, posted, disk>>
    BY <1>4 DEF EditFails, PinFails, CreateFails, Serving, telegram
  <2> QED BY <1>0, <1>1, <2>1, ServingCore DEF Basis
<1>5. CASE EditFindsNoCard \/ CreateCard
  <2>1. /\ Serving /\ UNCHANGED <<cache, posted, disk>>
        /\ UNCHANGED <<run.kind, run.env, run.loaded, run.at, run.due>>
        /\ run'.pc \in {"create", "pin"}
    BY <1>0, <1>5 DEF EditFindsNoCard, CreateCard, RunType, Serving, telegram
  <2> QED BY <1>0, <2>1, ServingCore DEF Basis
<1>6. CASE Send
  <2> DEFINE k == FirstDue(run.due)
  <2>1. /\ Serving /\ UNCHANGED <<cache, disk>> /\ Deliver(k) /\ run' = [run EXCEPT !.due = @ \ {k}]
    BY <1>6 DEF Send, Serving
  <2>2. /\ UNCHANGED <<run.kind, run.env, run.loaded, run.at, run.pc>>
        /\ run'.due = run.due \ {k}
    BY <1>0, <2>1 DEF RunType
  <2>3. posted \subseteq posted'
    BY <1>0, <2>1, DeliverTyped
  <2>4. "notice" \in run.due => Notice \in posted'
    BY <2>1 DEF FirstDue, Deliver, Post, Notice
  <2>5. run'.pc \in {"edit", "create", "pin", "send", "failed"}
    BY <2>1, <2>2 DEF Serving
  <2> QED BY <1>0, <2>1, <2>2, <2>3, <2>4, <2>5, ServingCore DEF Basis
<1>7. CASE SendFails
  <2>1. FailRun /\ Serving /\ UNCHANGED <<cache, disk>>
    BY <1>7 DEF SendFails, Serving
  <2>2. posted \subseteq posted'
    BY <1>0, <1>7, DeliverTyped DEF SendFails
  <2> QED BY <1>0, <1>1, <2>1, <2>2, ServingCore DEF Basis
<1>8. CASE Commit
  <2>1. /\ UNCHANGED <<cache, posted>> /\ Serving /\ run.due = {}
        /\ disk' = IF run.kind = "legacy" THEN disk ELSE CommittedState(run)
        /\ \E pc \in {"done", "failed"} : run' = [run EXCEPT !.pc = pc]
    BY <1>8 DEF Commit, AfterCalendar, Serving, telegram
  <2>2. /\ UNCHANGED <<run.kind, run.env, run.loaded, run.at>>
        /\ run'.pc \in {"done", "failed"}
    BY <1>0, <2>1 DEF RunType
  <2>3. run.kind # "legacy" => disk'.prev = Plan(run)
    BY <1>0, <2>1, CommittedType
  <2>4. NoticeChanges(run') = NoticeChanges(run) /\ Notice' = Notice
    BY <2>2, SameNotice DEF Notice
  <2>5. WorkspaceBasis'
    <3>1. CASE run.kind = "legacy"
      BY <2>1, <2>2, <3>1 DEF Basis, WorkspaceBasis, Moved, Serving
    <3>2. CASE run.kind = "receive"
      BY <2>1, <2>2, <2>3, <2>4, <3>2 DEF Basis, WorkspaceBasis, Moved, RunBasis, Plan, Announced
    <3>3. CASE run.kind \notin {"legacy", "receive"}
      BY <2>1, <2>2, <2>3, <3>3 DEF Basis, WorkspaceBasis, RunBasis, Plan
    <3> QED BY <3>1, <3>2, <3>3
  <2>6. RunBasis'
    BY <2>2 DEF RunBasis, Serving
  <2> QED BY <1>0, <2>5, <2>6 DEF Basis
<1> QED BY <1>3, <1>4, <1>5, <1>6, <1>7, <1>8 DEF PublishStep

LEMMA BasisInvariant == Spec => []Basis
<1>1. Basis /\ [Next]_vars => Basis'
  <2>1. ASSUME Basis, UNCHANGED vars PROVE Basis'
    BY <2>1 DEF vars, Basis, TypeOK, WorkspaceBasis, RunBasis, Moved, Announced, Notice, Serving
  <2> QED BY <2>1, Steps, WorldKeepsBasis, GroupKeepsBasis, PublishKeepsBasis
<1> QED BY <1>1, InitBasis, PTL DEF Spec

----------------------------------------------------------------------------
(***************************************************************************)
(* The baseline                                                            *)
(***************************************************************************)
LEMMA CacheSteps ==
  ASSUME Next, cache' # cache
  PROVE  cache' = NoState \/ (cache' = disk /\ run.pc # "idle" /\ UNCHANGED posted)
<1>1. CASE WorldStep
  BY <1>1 DEF WorldStep, Tick, EditSite, DeleteCard, EvictCache, BeginFetch, ReadSource,
              HandOff, AbandonFetch, RequestOther
<1>2. CASE GroupStep
  BY <1>2 DEF GroupStep, StartRun, RejectRun, LoadStale, LoadFresh, LoadReminder, LoadLegacy,
              EndRun, LoseRunner, telegram
<1>3. CASE PublishStep
  BY <1>3 DEF PublishStep, EditCard, EditFails, EditFindsNoCard, CreateCard, CreateFails,
              PinCard, PinFails, Send, SendFails, Commit
<1> QED BY <1>1, <1>2, <1>3, Steps

LEMMA StampsAreInt ==
  ASSUME TypeOK PROVE {cache.prev.stamp, disk.prev.stamp} \subseteq Int /\ cache.prev.stamp >= -1
BY TimeAssumption DEF TypeOK, DeliveryState, Envelope

\* The cached comparison baseline only moves to a later stamp, or is evicted, however the
\* runs overlap, fail, lose their runner or are repeated. (publisher.py "Never regress the
\* comparison baseline", the save steps of both workflows)
THEOREM BaselineIsMonotone == Spec => BaselineNeverRegresses
<1>1. Basis /\ [Next]_vars => [BaselineStep]_cache
  <2> SUFFICES ASSUME Basis, [Next]_vars, cache' # cache PROVE BaselineStep
    OBVIOUS
  <2>1. cache' = NoState \/ (cache' = disk /\ run.pc # "idle")
    BY CacheSteps DEF vars
  <2>2. CASE cache' = disk /\ run.pc # "idle"
    <3>1. TypeOK /\ NoEnvelope.stamp = -1
      BY DEF Basis, NoEnvelope
    <3>2. disk.prev.stamp >= -1
      BY <3>1, TimeAssumption DEF TypeOK, DeliveryState, Envelope
    <3>3. disk.prev.stamp >= cache.prev.stamp
      BY <2>2, <3>1, <3>2, StampsAreInt DEF Basis, WorkspaceBasis, Moved
    <3> QED BY <2>2, <3>3 DEF BaselineStep
  <2> QED BY <2>1, <2>2 DEF BaselineStep
<1> QED BY <1>1, BasisInvariant, PTL DEF Spec, BaselineNeverRegresses

\* When the cached baseline moves on, the topic has received a notice of every change it
\* skips over, forced rebaselining aside. (publisher.py "The comparison baseline still
\* advances only after notifications succeed")
THEOREM BaselineAdvancesAnnounced == Spec => ChangesAreAnnounced
<1>1. Basis /\ [Next]_vars => [AnnouncedStep]_cache
  <2> SUFFICES ASSUME Basis, [Next]_vars, cache' # cache PROVE AnnouncedStep
    OBVIOUS
  <2> DEFINE skipped == Changes(cache.prev, cache'.prev, DayOf(run.at))
             due     == IF QuietMode THEN Urgent(skipped, run.at) ELSE skipped
  <2>0. TypeOK /\ NoEnvelope.stamp = -1 /\ NoState.prev = NoEnvelope
    BY DEF Basis, NoEnvelope, NoState
  <2>1. CASE cache' = NoState
    BY <2>0, <2>1, StampsAreInt DEF AnnouncedStep
  <2>2. CASE cache' = disk /\ run.pc # "idle" /\ UNCHANGED posted
    <3>1. CASE cache.prev = NoEnvelope
      <4>1. due = {}
        BY <3>1 DEF Changes, Urgent
      <4> QED BY <4>1 DEF AnnouncedStep
    <3>2. CASE disk.prev = cache.prev
      BY <2>0, <2>2, <3>2, StampsAreInt DEF AnnouncedStep
    <3>3. CASE Moved
      <4>1. cache.prev = run.loaded.prev /\ cache'.prev = run.env
        BY <2>2, <3>3 DEF Moved
      <4>2. ~cache'.prev.force => due = NoticeChanges(run)
        BY <4>1 DEF NoticeChanges, RunChanges
      <4>3. Notice = [type |-> "notice", base |-> cache.prev.stamp, to |-> cache'.prev.stamp,
                      changes |-> NoticeChanges(run)]
        BY <4>1 DEF Notice, Message
      <4> QED BY <3>3, <4>2, <4>3 DEF Moved, Announced, AnnouncedStep
    <3> QED BY <2>2, <3>1, <3>2, <3>3 DEF Basis, WorkspaceBasis
  <2> QED BY <2>1, <2>2, CacheSteps DEF vars
<1> QED BY <1>1, BasisInvariant, PTL DEF Spec, ChangesAreAnnounced

----------------------------------------------------------------------------
(***************************************************************************)
(* What the saved state says was delivered                                 *)
(***************************************************************************)
Reminded(m, mail) == [type |-> "reminder", marker |-> m] \in mail

EveningTold(state, mail) ==
  (state.digest # -1 /\ ~QuietMode /\ "forced" \notin RequestKinds)
     => [type |-> "evening", day |-> state.digest] \in mail

Truthful(state, mail) ==
  /\ \A i \in 1 .. Len(state.reminders) : Reminded(state.reminders[i], mail)
  /\ EveningTold(state, mail)

\* The sends a serving run has to make, and those it has made.
Duties(r) == IF r.kind = "receive" THEN ReceiveSends(r) ELSE RemindSends(r)

DutiesDone ==
  Serving /\ run.kind # "legacy" =>
    /\ run.kind \in {"receive", "remind"}
    /\ \A k \in Duties(run) : k \in run.due \/ Message(run, k) \in posted

\* Nothing is forced unless someone forces it.
Unforced ==
  "forced" \notin RequestKinds =>
    /\ \A f \in Fetchers : ~fetch[f].env.force
    /\ ~pending.env.force
    /\ ~run.env.force

\* The inductive invariant.
Records ==
  /\ TypeOK
  /\ Truthful(cache, posted)
  /\ Truthful(disk, posted)
  /\ Truthful(run.loaded, posted)
  /\ DutiesDone
  /\ Unforced

LEMMA NoStateTruthful == \A mail : Truthful(NoState, mail)
BY DEF Truthful, EveningTold, NoState

LEMMA TruthStays ==
  ASSUME NEW state, NEW mail, NEW more, Truthful(state, mail), mail \subseteq more
  PROVE  Truthful(state, more)
BY DEF Truthful, EveningTold, Reminded

\* What a run has to send, and the messages, depend on what it has loaded only.
LEMMA SameDuties ==
  ASSUME NEW r, NEW q, r.kind = q.kind, r.env = q.env, r.loaded = q.loaded, r.at = q.at
  PROVE  Duties(r) = Duties(q) /\ \A k : Message(r, k) = Message(q, k)
<1>1. RunMarkers(r) = RunMarkers(q) /\ PublishesDigest(r) = PublishesDigest(q)
      /\ NoticeChanges(r) = NoticeChanges(q)
  BY SameNotice DEF RunMarkers, Plan, PublishesDigest
<1> QED BY <1>1 DEF Duties, ReceiveSends, RemindSends, Message

\* Trimming keeps members of the list only.
LEMMA KeepLastMembers ==
  ASSUME NEW S, NEW s \in Seq(S), NEW n \in Nat \ {0}, NEW i \in 1 .. Len(KeepLast(s, n))
  PROVE  \E j \in 1 .. Len(s) : KeepLast(s, n)[i] = s[j]
<1>1. CASE Len(s) <= n
  BY <1>1 DEF KeepLast
<1>2. CASE ~(Len(s) <= n)
  <2>1. Len(s) - n + 1 \in 1 .. Len(s) /\ Len(s) \in 1 .. Len(s) /\ Len(s) \in Nat
    BY <1>2
  <2>2. PICK t : t = SubSeq(s, Len(s) - n + 1, Len(s))
    OBVIOUS
  <2>3. Len(t) = n /\ \A k \in 1 .. n : t[k] = s[(Len(s) - n + 1) + k - 1]
    BY <2>1, <2>2
  <2>4. i \in 1 .. n /\ KeepLast(s, n)[i] = s[(Len(s) - n + 1) + i - 1]
    BY <1>2, <2>2, <2>3 DEF KeepLast
  <2>5. (Len(s) - n + 1) + i - 1 \in 1 .. Len(s)
    BY <2>1, <2>4
  <2> QED BY <2>4, <2>5
<1> QED BY <1>1, <1>2

\* What a run commits when everything it had to send is sent.
LEMMA CommittedTruthful ==
  ASSUME Records, Serving, run.kind # "legacy", run.due = {}
  PROVE  Truthful(CommittedState(run), posted)
<1>0. run \in RunType /\ run.loaded \in DeliveryState /\ Truthful(run.loaded, posted)
  BY DEF Records, TypeOK, RunType
<1>1. \A k \in Duties(run) : Message(run, k) \in posted
  BY DEF Records, DutiesDone
<1>2. run.kind \in {"receive", "remind"}
  BY DEF Records, DutiesDone
<1> DEFINE marker == CHOOSE m \in RunMarkers(run) : TRUE
           loaded == run.loaded.reminders
<1>3. CommittedState(run).reminders =
        IF RunMarkers(run) = {} THEN loaded ELSE KeepLast(Append(loaded, marker), MarkerCap)
  BY DEF CommittedState
<1>4. CommittedState(run).digest =
        IF PublishesDigest(run) THEN DayOf(run.at) ELSE run.loaded.digest
  BY DEF CommittedState
<1>5. \A i \in 1 .. Len(loaded) : Reminded(loaded[i], posted)
  BY <1>0 DEF Truthful
<1>6. loaded \in Seq(Marker)
  BY <1>0 DEF DeliveryState
<1>7. ASSUME RunMarkers(run) # {} PROVE marker \in Marker /\ Reminded(marker, posted)
  <2>1. "reminder" \in Duties(run)
    BY <1>2, <1>7 DEF Duties, ReceiveSends, RemindSends
  <2>2. Message(run, "reminder") = [type |-> "reminder", marker |-> marker]
    BY DEF Message
  <2>3. RunMarkers(run) \subseteq Marker
    <3>1. Plan(run) \in Envelope /\ run.at \in Times
      BY <1>0 DEF Plan, RunType, DeliveryState
    <3> QED BY <3>1, DueMarkersType DEF RunMarkers
  <2> QED BY <1>1, <1>7, <2>1, <2>2, <2>3 DEF Reminded
<1> HIDE DEF marker, loaded
<1>8. \A i \in 1 .. Len(CommittedState(run).reminders) :
         Reminded(CommittedState(run).reminders[i], posted)
  <2>1. CASE RunMarkers(run) = {}
    BY <1>3, <1>5, <2>1
  <2>2. CASE RunMarkers(run) # {}
    <3>1. PICK s : s = Append(loaded, marker)
      OBVIOUS
    <3>2. s \in Seq(Marker) /\ \A j \in 1 .. Len(s) : s[j] = marker \/ \E i \in 1 .. Len(loaded) : s[j] = loaded[i]
      BY <1>6, <1>7, <2>2, <3>1
    <3>3. \A j \in 1 .. Len(s) : Reminded(s[j], posted)
      BY <1>5, <1>7, <2>2, <3>2
    <3>4. CommittedState(run).reminders = KeepLast(s, MarkerCap) /\ MarkerCap \in Nat \ {0}
      BY <1>3, <2>2, <3>1, TimeAssumption
    <3>5. ASSUME NEW i \in 1 .. Len(KeepLast(s, MarkerCap))
        PROVE  Reminded(KeepLast(s, MarkerCap)[i], posted)
      BY <3>2, <3>3, <3>4, KeepLastMembers
    <3> QED BY <3>4, <3>5
  <2> QED BY <2>1, <2>2
<1>9. EveningTold(CommittedState(run), posted)
  <2>1. CASE ~PublishesDigest(run)
    BY <1>0, <1>4, <2>1 DEF Truthful, EveningTold
  <2>2. CASE PublishesDigest(run)
    <3> SUFFICES ASSUME ~QuietMode, "forced" \notin RequestKinds
                 PROVE  [type |-> "evening", day |-> DayOf(run.at)] \in posted
      BY <1>4, <2>2 DEF EveningTold
    <3>1. run.kind = "receive" /\ ~run.env.force
      BY <2>2 DEF PublishesDigest, Records, Unforced
    <3>2. "evening" \in Duties(run)
      BY <2>2, <3>1 DEF Duties, ReceiveSends
    <3>3. Message(run, "evening") = [type |-> "evening", day |-> DayOf(run.at)]
      BY DEF Message
    <3> QED BY <1>1, <3>2, <3>3
  <2> QED BY <2>1, <2>2
<1> QED BY <1>8, <1>9 DEF Truthful

LEMMA InitRecords == Init => Records
<1> SUFFICES ASSUME Init PROVE Records OBVIOUS
<1>1. cache = NoState /\ disk = NoState /\ run.loaded = NoState /\ run.pc = "idle"
      /\ ~run.env.force /\ ~pending.env.force /\ \A f \in Fetchers : ~fetch[f].env.force
  BY DEF Init, NoRun, NoRequest, Request, NoEnvelope
<1> QED BY <1>1, InitTyped, NoStateTruthful DEF Records, DutiesDone, Serving, Unforced

LEMMA WorldKeepsRecords == ASSUME Records, WorldStep PROVE Records'
<1>1. TypeOK /\ TypeOK' /\ posted' = posted /\ run' = run /\ disk' = disk
      /\ (cache' = cache \/ cache' = NoState)
  BY WorldTyped DEF Records, WorldStep, Tick, EditSite, DeleteCard, EvictCache, BeginFetch,
     ReadSource, HandOff, AbandonFetch, RequestOther, telegram
<1>2. Truthful(cache, posted)' /\ Truthful(disk, posted)' /\ Truthful(run.loaded, posted)'
  BY <1>1, NoStateTruthful DEF Records
<1>3. DutiesDone'
  BY <1>1 DEF Records, DutiesDone, Serving
<1>4. Unforced'
  <2> SUFFICES ASSUME "forced" \notin RequestKinds
               PROVE  (\A f \in Fetchers : ~fetch'[f].env.force) /\ ~pending'.env.force
    BY <1>1 DEF Records, Unforced
  <2>1. (\A f \in Fetchers : ~fetch[f].env.force) /\ ~pending.env.force
    BY DEF Records, Unforced
  <2>2. ~NoEnvelope.force
    BY DEF NoEnvelope
  <2>3. ASSUME NEW f \in Fetchers, NEW force \in BOOLEAN, BeginFetch(f, force)
        PROVE  (\A g \in Fetchers : ~fetch'[g].env.force) /\ ~pending'.env.force
    <3>1. PICK phase, lessons :
            fetch' = [fetch EXCEPT ![f] =
              [phase |-> phase, env |-> [stamp |-> now, force |-> force, lessons |-> lessons]]]
      BY <2>3 DEF BeginFetch
    <3>2. force = FALSE /\ pending' = pending
      BY <2>3 DEF BeginFetch
    <3> QED BY <1>1, <2>1, <3>1, <3>2 DEF TypeOK
  <2>4. ASSUME NEW f \in Fetchers, ReadSource(f)
        PROVE  (\A g \in Fetchers : ~fetch'[g].env.force) /\ ~pending'.env.force
    <3>1. fetch[f] \in FetchType /\ fetch[f].env \in Envelope
      BY <1>1 DEF TypeOK, FetchType
    <3>2. fetch'[f].env.force = fetch[f].env.force
          /\ \A g \in Fetchers \ {f} : fetch'[g] = fetch[g]
      BY <1>1, <2>4, <3>1 DEF ReadSource, TypeOK, FetchType, Envelope
    <3> QED BY <2>1, <2>4, <3>2 DEF ReadSource
  <2>5. ASSUME NEW f \in Fetchers, HandOff(f) \/ AbandonFetch(f)
        PROVE  (\A g \in Fetchers : ~fetch'[g].env.force) /\ ~pending'.env.force
    BY <1>1, <2>1, <2>2, <2>5 DEF HandOff, AbandonFetch, Submit, Request, TypeOK
  <2>6. ASSUME NEW kind, RequestOther(kind) PROVE fetch' = fetch /\ ~pending'.env.force
    BY <2>2, <2>6 DEF RequestOther, Submit, Request
  <2>7. ASSUME \/ Tick \/ EvictCache \/ \E d \in Days, t \in Timetable : EditSite(d, t)
               \/ \E c \in cards : DeleteCard(c)
        PROVE  fetch' = fetch /\ pending' = pending
    BY <2>7 DEF Tick, EvictCache, EditSite, DeleteCard
  <2> QED BY <2>1, <2>3, <2>4, <2>5, <2>6, <2>7 DEF WorldStep
<1> QED BY <1>1, <1>2, <1>3, <1>4 DEF Records

LEMMA GroupKeepsRecords == ASSUME Records, GroupStep PROVE Records'
<1>0. TypeOK /\ TypeOK' /\ posted' = posted /\ fetch' = fetch
  BY GroupTyped DEF Records, GroupStep, StartRun, RejectRun, LoadStale, LoadFresh, LoadReminder,
     LoadLegacy, EndRun, LoseRunner, telegram
<1>1. Truthful(cache, posted) /\ Truthful(disk, posted) /\ Truthful(run.loaded, posted)
      /\ Truthful(NoState, posted) /\ Unforced
  BY NoStateTruthful DEF Records
<1>2. ASSUME UNCHANGED <<disk, cache, pending>>, run'.env = run.env,
             run'.loaded \in {run.loaded, disk}, DutiesDone'
      PROVE  Records'
  BY <1>0, <1>1, <1>2 DEF Records, Unforced
<1>3. CASE EndRun \/ LoseRunner
  <2>1. /\ disk' = NoState /\ cache' \in {cache, disk} /\ run' = NoRun /\ pending' = pending
    BY <1>3 DEF EndRun, LoseRunner
  <2>2. run'.loaded = NoState /\ run'.pc = "idle" /\ ~run'.env.force
    BY <2>1 DEF NoRun, NoEnvelope
  <2> QED BY <1>0, <1>1, <2>1, <2>2 DEF Records, DutiesDone, Serving, Unforced
<1>4. ASSUME NEW s \in Senders, StartRun(s) PROVE Records'
  <2>1. /\ run'.pc = "load" /\ run'.loaded = NoState /\ run'.env = pending.env
        /\ disk' = cache /\ cache' = cache /\ pending' = NoRequest /\ ~NoRequest.env.force
    BY <1>4 DEF StartRun, NoRun, NoRequest, Request, NoEnvelope
  <2> QED BY <1>0, <1>1, <2>1 DEF Records, DutiesDone, Serving, Unforced
<1>5. CASE RejectRun
  <2>1. run'.pc = "failed" /\ run'.env = run.env /\ run'.loaded = run.loaded
        /\ UNCHANGED <<disk, cache, pending>>
    BY <1>0, <1>5 DEF RejectRun, TypeOK, RunType
  <2> QED BY <1>2, <2>1 DEF DutiesDone, Serving
<1>6. CASE LoadStale
  <2>1. run'.pc \in {"done", "failed"} /\ run'.env = run.env /\ run'.loaded = disk
        /\ UNCHANGED <<disk, cache, pending>>
    BY <1>0, <1>6, LoadedType DEF LoadStale, AfterCalendar, RunType
  <2> QED BY <1>2, <2>1 DEF DutiesDone, Serving
<1>7. CASE LoadFresh
  <2>1. /\ run' = [Loaded EXCEPT !.due = ReceiveSends(Loaded),
                                 !.pc = IF Loaded.card = 0 THEN "create" ELSE "edit"]
        /\ run.kind = "receive" /\ UNCHANGED <<disk, cache, pending>>
    BY <1>7 DEF LoadFresh
  <2>2. /\ run'.due = ReceiveSends(Loaded) /\ run'.loaded = disk /\ run'.env = run.env
        /\ run'.kind = "receive" /\ run'.kind = Loaded.kind /\ run'.env = Loaded.env
        /\ run'.loaded = Loaded.loaded /\ run'.at = Loaded.at
    BY <1>0, <2>1, LoadedType DEF RunType
  <2>3. Duties(run') = run'.due
    BY <2>2, SameDuties DEF Duties
  <2>4. DutiesDone'
    BY <2>2, <2>3 DEF DutiesDone
  <2> QED BY <1>2, <2>1, <2>2, <2>4
<1>8. CASE LoadReminder
  <2>1. \/ run' = [Loaded EXCEPT !.pc = "done"]
        \/ \E pc \in {"send", "edit"} :
             run' = [Loaded EXCEPT !.due = RemindSends(Loaded), !.pc = pc]
    BY <1>8 DEF LoadReminder
  <2>2. run.kind = "remind" /\ UNCHANGED <<disk, cache, pending>>
    BY <1>8 DEF LoadReminder
  <2>3. /\ run'.loaded = disk /\ run'.env = run.env
        /\ run'.kind = "remind" /\ run'.kind = Loaded.kind /\ run'.env = Loaded.env
        /\ run'.loaded = Loaded.loaded /\ run'.at = Loaded.at
        /\ run'.pc = "done" \/ run'.due = RemindSends(Loaded)
    BY <1>0, <2>1, <2>2, LoadedType DEF RunType
  <2>4. run'.pc = "done" \/ Duties(run') = run'.due
    BY <2>3, SameDuties DEF Duties
  <2>5. DutiesDone'
    BY <2>3, <2>4 DEF DutiesDone, Serving
  <2> QED BY <1>2, <2>2, <2>3, <2>5
<1>9. CASE LoadLegacy
  <2>1. run'.kind = "legacy" /\ run'.env = run.env /\ run'.loaded = run.loaded
        /\ UNCHANGED <<disk, cache, pending>>
    BY <1>0, <1>9 DEF LoadLegacy, TypeOK, RunType
  <2> QED BY <1>2, <2>1 DEF DutiesDone
<1> QED BY <1>3, <1>4, <1>5, <1>6, <1>7, <1>8, <1>9 DEF GroupStep

\* A step of a serving run that owes no less than it has not sent.
LEMMA ServingRecords ==
  ASSUME Records, TypeOK', Serving, UNCHANGED <<cache, fetch, pending>>, posted \subseteq posted',
         UNCHANGED <<run.kind, run.env, run.loaded, run.at>>,
         Truthful(disk', posted'),
         \A k \in run.due \ {"legacy"} : k \in run'.due \/ Message(run, k) \in posted'
  PROVE  Records'
<1>1. Truthful(cache, posted)' /\ Truthful(run.loaded, posted)'
  BY TruthStays DEF Records
<1>2. Duties(run') = Duties(run) /\ \A k : Message(run', k) = Message(run, k)
  BY SameDuties
<1>3. "legacy" \notin Duties(run)
  BY DEF Duties, ReceiveSends, RemindSends
<1>4. DutiesDone'
  BY <1>2, <1>3 DEF Records, DutiesDone
<1>5. Unforced'
  BY DEF Records, Unforced
<1> QED BY <1>1, <1>4, <1>5 DEF Records

LEMMA PublishKeepsRecords == ASSUME Records, PublishStep PROVE Records'
<1>0. TypeOK /\ TypeOK' /\ run \in RunType
  BY PublishTyped DEF Records, TypeOK
<1>1. Truthful(disk, posted) /\ Truthful(run.loaded, posted)
  BY DEF Records
<1>2. ASSUME FailRun
      PROVE  UNCHANGED <<run.kind, run.env, run.loaded, run.at>> /\ run'.due = run.due
  BY <1>0, <1>2 DEF FailRun, RunType
<1>3. CASE EditCard \/ PinCard
  <2>1. /\ KeepCard(run.card) /\ Serving /\ UNCHANGED <<cache, fetch, pending, posted>>
    BY <1>3 DEF EditCard, PinCard, Serving, telegram
  <2>2. UNCHANGED <<run.kind, run.env, run.loaded, run.at, run.due>>
    BY <1>0, <2>1 DEF KeepCard, RunType
  <2>3. Truthful(disk', posted')
    <3>1. /\ WithCard(run.loaded, run.sender, run.card).reminders = run.loaded.reminders
          /\ WithCard(run.loaded, run.sender, run.card).digest = run.loaded.digest
      BY <1>0 DEF WithCard, RunType, DeliveryState
    <3>2. Truthful(WithCard(run.loaded, run.sender, run.card), posted)
      BY <1>1, <3>1 DEF Truthful, EveningTold
    <3> QED BY <1>1, <2>1, <3>2 DEF KeepCard
  <2> QED BY <1>0, <2>1, <2>2, <2>3, ServingRecords
<1>4. CASE EditFails \/ PinFails \/ CreateFails
  <2>1. FailRun /\ Serving /\ UNCHANGED <<cache, fetch, pending, posted, disk>>
    BY <1>4 DEF EditFails, PinFails, CreateFails, Serving, telegram
  <2> QED BY <1>0, <1>1, <1>2, <2>1, ServingRecords
<1>5. CASE EditFindsNoCard \/ CreateCard
  <2>1. /\ Serving /\ UNCHANGED <<cache, fetch, pending, posted, disk>>
        /\ UNCHANGED <<run.kind, run.env, run.loaded, run.at, run.due>>
    BY <1>0, <1>5 DEF EditFindsNoCard, CreateCard, RunType, Serving, telegram
  <2> QED BY <1>0, <1>1, <2>1, ServingRecords
<1>6. CASE Send
  <2> DEFINE j == FirstDue(run.due)
  <2>1. /\ Serving /\ UNCHANGED <<cache, fetch, pending, disk>> /\ Deliver(j)
        /\ run' = [run EXCEPT !.due = @ \ {j}]
    BY <1>6 DEF Send, Serving
  <2>2. UNCHANGED <<run.kind, run.env, run.loaded, run.at>> /\ run'.due = run.due \ {j}
    BY <1>0, <2>1 DEF RunType
  <2>3. posted \subseteq posted'
    BY <1>0, <2>1, DeliverTyped
  <2>4. Truthful(disk', posted')
    BY <1>1, <2>1, <2>3, TruthStays
  <2> QED BY <1>0, <2>1, <2>2, <2>3, <2>4, ServingRecords DEF Deliver, Post
<1>7. CASE SendFails
  <2>1. FailRun /\ Serving /\ UNCHANGED <<cache, fetch, pending, disk>>
    BY <1>7 DEF SendFails, Serving
  <2>2. posted \subseteq posted'
    BY <1>0, <1>7, DeliverTyped DEF SendFails
  <2>3. Truthful(disk', posted')
    BY <1>1, <2>1, <2>2, TruthStays
  <2> QED BY <1>0, <1>2, <2>1, <2>2, <2>3, ServingRecords
<1>8. CASE Commit
  <2>1. /\ UNCHANGED <<cache, fetch, pending, posted>> /\ Serving /\ run.due = {}
        /\ disk' = IF run.kind = "legacy" THEN disk ELSE CommittedState(run)
        /\ \E pc \in {"done", "failed"} : run' = [run EXCEPT !.pc = pc]
    BY <1>8 DEF Commit, AfterCalendar, Serving, telegram
  <2>2. UNCHANGED <<run.kind, run.env, run.loaded, run.at, run.due>>
    BY <1>0, <2>1 DEF RunType
  <2>3. Truthful(disk', posted')
    BY <1>1, <2>1, CommittedTruthful
  <2> QED BY <1>0, <2>1, <2>2, <2>3, ServingRecords
<1> QED BY <1>3, <1>4, <1>5, <1>6, <1>7, <1>8 DEF PublishStep

\* Nothing is recorded as delivered that the topic has not received, whatever fails, is lost
\* or evicted, and in whatever order runs follow each other. (publisher.py publish_dispatched,
\* publish_due_reminder and save_delivery_state: the state is saved after the sends)
THEOREM RecordsAreDelivered == Spec => []RecordedMeansDelivered
<1>1. Records => RecordedMeansDelivered
  BY DEF Records, Truthful, Reminded, EveningTold, RecordedMeansDelivered
<1>2. Records /\ [Next]_vars => Records'
  <2>1. ASSUME Records, UNCHANGED vars PROVE Records'
    <3>1. UNCHANGED <<cache, disk, run, posted, fetch, pending>> /\ TypeOK'
      BY <2>1 DEF vars, Records, TypeOK, telegram
    <3> QED BY <2>1, <3>1 DEF Records, DutiesDone, Unforced, Serving
  <2> QED BY <2>1, Steps, WorldKeepsRecords, GroupKeepsRecords, PublishKeepsRecords
<1> QED BY <1>1, <1>2, InitRecords, PTL DEF Spec

----------------------------------------------------------------------------
(***************************************************************************)
(* The card of each sender                                                 *)
(***************************************************************************)
\* No reply, no runner and no cache is lost; and either no call fails, or no reminder run may
\* create a card it does not save and no pin call may end a run.
Steady ==
  /\ Faults \cap {"lost_reply", "runner_lost", "cache_evicted"} = {}
  /\ \/ CallFaults = {}
     \/ /\ "remind" \notin RequestKinds
        /\ "unreachable" \notin Faults \/ "bot" \notin Senders

\* Every card in the topic is the one the state names for its sender.
Known(state) == \A c \in cards : c.id = state.card[c.by]

\* A serving run knows its sender's card, and there is none when it is about to create one.
ServingCards ==
  /\ run.kind \in {"receive", "remind"}
  /\ \A c \in cards : /\ c.by = run.sender => run.pc # "create" /\ c.id = run.card
                      /\ c.by # run.sender => c.id = run.loaded.card[c.by]
  /\ run.kind = "receive" /\ run.pc # "pin" => Known(disk)

\* The inductive invariant.
CardsOnRecord ==
  /\ TypeOK
  /\ "remind" \notin RequestKinds => pending.kind # "remind" /\ run.kind # "remind"
  /\ run.pc = "idle" => Known(cache)
  /\ run.pc = "load" => disk = cache /\ Known(cache)
  /\ run.pc \in {"done", "failed"} =>
       Known(disk) /\ (run.kind = "remind" /\ run.pc = "failed" => Known(cache))
  /\ Serving /\ run.kind = "legacy" => Known(disk) /\ run.pc = "send"
  /\ Serving /\ run.kind # "legacy" => ServingCards

LEMMA InitCards == Init => CardsOnRecord
BY InitTyped DEF Init, CardsOnRecord, Known, NoRun, NoRequest, Request, Serving

LEMMA WorldKeepsCards == ASSUME Steady, CardsOnRecord, WorldStep PROVE CardsOnRecord'
<1>1. TypeOK' /\ UNCHANGED <<run, disk>>
  BY WorldTyped DEF CardsOnRecord, WorldStep, Tick, EditSite, DeleteCard, EvictCache, BeginFetch,
     ReadSource, HandOff, AbandonFetch, RequestOther, telegram
<1>2. cache' = cache /\ cards' \subseteq cards
  BY DEF Steady, WorldStep, Tick, EditSite, DeleteCard, EvictCache, BeginFetch,
     ReadSource, HandOff, AbandonFetch, RequestOther, telegram
<1>3. pending' = pending \/ pending'.kind # "remind" \/ "remind" \in RequestKinds
  <2>1. ASSUME NEW kind \in {"remind", "legacy"}, RequestOther(kind)
        PROVE  pending'.kind = kind /\ kind \in RequestKinds
    BY <2>1 DEF RequestOther, Submit, Request
  <2>2. ASSUME NEW f \in Fetchers, HandOff(f) PROVE pending'.kind = "receive"
    BY <2>2 DEF HandOff, Submit, Request
  <2>3. ASSUME \/ Tick \/ EvictCache \/ \E d \in Days, t \in Timetable : EditSite(d, t)
               \/ \E c \in cards : DeleteCard(c)
               \/ \E f \in Fetchers, force \in BOOLEAN : BeginFetch(f, force)
               \/ \E f \in Fetchers : ReadSource(f) \/ AbandonFetch(f)
        PROVE  pending' = pending
    BY <2>3 DEF Tick, EvictCache, EditSite, DeleteCard, BeginFetch, ReadSource, AbandonFetch
  <2> QED BY <2>1, <2>2, <2>3 DEF WorldStep
<1> QED BY <1>1, <1>2, <1>3 DEF CardsOnRecord, Known, Serving, ServingCards

LEMMA GroupKeepsCards == ASSUME Steady, CardsOnRecord, GroupStep PROVE CardsOnRecord'
<1>0. TypeOK /\ TypeOK' /\ cards' = cards /\ run \in RunType
  BY GroupTyped DEF CardsOnRecord, TypeOK, GroupStep, StartRun, RejectRun, LoadStale, LoadFresh,
     LoadReminder, LoadLegacy, EndRun, LoseRunner, telegram
<1>1. "remind" \notin RequestKinds => pending.kind # "remind" /\ run.kind # "remind"
  BY DEF CardsOnRecord
<1>2. \A c \in cards : c.by \in Senders /\ c.id \in 1 .. MaxCards
  BY <1>0 DEF TypeOK
<1>3. CASE EndRun
  <2>1. /\ run.pc \in {"done", "failed"} /\ run' = NoRun /\ pending' = pending
        /\ cache' = IF run.kind # "remind" \/ run.pc = "done" THEN disk ELSE cache
    BY <1>3 DEF EndRun
  <2>2. run'.pc = "idle" /\ run'.kind = "none"
    BY <2>1 DEF NoRun
  <2>3. \A c \in cards : c.id = cache'.card[c.by]
    BY <2>1 DEF CardsOnRecord, Known
  <2> QED BY <1>0, <1>1, <2>1, <2>2, <2>3 DEF CardsOnRecord, Known, Serving
<1>4. CASE LoseRunner
  BY <1>4 DEF LoseRunner, Steady
<1>5. ASSUME NEW s \in Senders, StartRun(s) PROVE CardsOnRecord'
  <2>1. /\ run'.pc = "load" /\ run'.kind = pending.kind /\ pending'.kind = "none"
        /\ disk' = cache /\ cache' = cache /\ run.pc = "idle"
    BY <1>5 DEF StartRun, NoRun, NoRequest, Request
  <2> QED BY <1>0, <1>1, <2>1 DEF CardsOnRecord, Known, Serving
<1>6. ASSUME run.pc = "load", UNCHANGED <<disk, cache, pending>>, run'.kind = run.kind,
             run'.pc \in {"done", "failed"}
      PROVE  CardsOnRecord'
  BY <1>0, <1>1, <1>6 DEF CardsOnRecord, Known, Serving
<1>7. CASE RejectRun
  <2>1. run.pc = "load" /\ UNCHANGED <<disk, cache, pending>> /\ run'.kind = run.kind
        /\ run'.pc = "failed"
    BY <1>0, <1>7 DEF RejectRun, RunType
  <2> QED BY <1>6, <2>1
<1>8. CASE LoadStale
  <2>1. run.pc = "load" /\ UNCHANGED <<disk, cache, pending>> /\ run'.kind = run.kind
        /\ run'.pc \in {"done", "failed"}
    BY <1>0, <1>8, LoadedType DEF LoadStale, AfterCalendar, RunType
  <2> QED BY <1>6, <2>1
<1>9. ASSUME run.pc = "load", UNCHANGED <<disk, cache, pending>>, run.kind \in {"receive", "remind"},
             NEW due, NEW pc \in {"edit", "create", "send"}, pc = "create" => Loaded.card = 0,
             run' = [Loaded EXCEPT !.due = due, !.pc = pc]
      PROVE  CardsOnRecord'
  <2>1. Loaded.card = disk.card[run.sender]
    BY <1>0 DEF Loaded, RunType
  <2>2. /\ run'.kind = run.kind /\ run'.sender = run.sender /\ run'.pc = pc
        /\ run'.card = disk.card[run.sender] /\ run'.loaded = disk
    BY <1>0, <1>9, <2>1, LoadedType DEF RunType
  <2>3. Known(disk)
    BY <1>9 DEF CardsOnRecord
  <2>4. pc = "create" => \A c \in cards : c.by # run.sender
    BY <1>2, <1>9, <2>1, <2>3, EnvironmentAssumption DEF Known
  <2>5. ServingCards'
    BY <1>0, <1>9, <2>2, <2>3, <2>4 DEF ServingCards, Known
  <2> QED BY <1>0, <1>1, <1>9, <2>2, <2>5 DEF CardsOnRecord, Serving
<1>10. CASE LoadFresh
  BY <1>9, <1>10 DEF LoadFresh
<1>11. CASE LoadReminder
  <2>1. CASE run' = [Loaded EXCEPT !.pc = "done"]
    <3>1. run'.pc = "done" /\ run'.kind = run.kind
      BY <1>0, <2>1, LoadedType DEF RunType
    <3> QED BY <1>6, <1>11, <3>1 DEF LoadReminder
  <2>2. CASE \E pc \in {"send", "edit"} :
               run' = [Loaded EXCEPT !.due = RemindSends(Loaded), !.pc = pc]
    BY <1>9, <1>11, <2>2 DEF LoadReminder
  <2> QED BY <1>11, <2>1, <2>2 DEF LoadReminder
<1>12. CASE LoadLegacy
  <2>1. run'.kind = "legacy" /\ run'.pc = "send" /\ UNCHANGED <<disk, cache, pending>>
        /\ run.pc = "load"
    BY <1>0, <1>12 DEF LoadLegacy, RunType
  <2> QED BY <1>0, <1>1, <2>1 DEF CardsOnRecord, Known, Serving
<1> QED BY <1>3, <1>4, <1>5, <1>7, <1>8, <1>10, <1>11, <1>12 DEF GroupStep

LEMMA PublishKeepsCards == ASSUME Steady, CardsOnRecord, PublishStep PROVE CardsOnRecord'
<1>0. TypeOK /\ TypeOK' /\ run \in RunType /\ run.loaded \in DeliveryState /\ run.sender \in Senders
  BY PublishTyped DEF CardsOnRecord, TypeOK, RunType
<1>1. UNCHANGED <<cache, pending>>
  BY DEF PublishStep, EditCard, EditFails, EditFindsNoCard, CreateCard, CreateFails, PinCard,
     PinFails, Send, SendFails, Commit
<1>2. /\ "remind" \notin RequestKinds => pending.kind # "remind" /\ run.kind # "remind"
      /\ Serving
  BY DEF CardsOnRecord, PublishStep, EditCard, EditFails, EditFindsNoCard, CreateCard, CreateFails,
     PinCard, PinFails, Send, SendFails, Commit, Serving
<1>3. \A c \in cards : c = Card(c.by, c.id) /\ c.by \in Senders
  BY <1>0 DEF TypeOK, Card
<1>4. WithCard(run.loaded, run.sender, run.card).card = [run.loaded.card EXCEPT ![run.sender] = run.card]
      /\ run.loaded.card \in [Senders -> 0 .. MaxCards]
  BY <1>0 DEF WithCard, DeliveryState
\* A call that fails leaves the run of a receiver, which has its card on disk, or of the old card.
<1>5. ASSUME FailRun, CallFaults # {}, UNCHANGED <<cards, disk>>, run.pc # "pin"
      PROVE  CardsOnRecord'
  <2>1. run'.pc = "failed" /\ run'.kind = run.kind
    BY <1>0, <1>5 DEF FailRun, RunType
  <2>2. run.kind # "remind"
    BY <1>2, <1>5 DEF Steady
  <2>3. Known(disk)
    BY <1>2, <1>5, <2>2 DEF CardsOnRecord, ServingCards
  <2> QED BY <1>0, <1>1, <1>2, <1>5, <2>1, <2>2, <2>3 DEF CardsOnRecord, Known, Serving
<1>6. CASE EditCard \/ PinCard
  <2>1. /\ KeepCard(run.card) /\ UNCHANGED cards /\ run.pc \in {"edit", "pin"}
    BY <1>6 DEF EditCard, PinCard, telegram
  <2>2. UNCHANGED <<run.kind, run.sender, run.card, run.loaded>> /\ run'.pc = "send"
    BY <1>0, <2>1 DEF KeepCard, RunType
  <2>3. ServingCards
    BY <1>2, <2>1 DEF CardsOnRecord
  <2>4. run.kind = "receive" => \A c \in cards : c.id = disk'.card[c.by]
    BY <1>3, <1>4, <2>1, <2>3 DEF KeepCard, ServingCards
  <2>5. ServingCards'
    BY <2>1, <2>2, <2>3, <2>4 DEF ServingCards, Known
  <2> QED BY <1>0, <1>1, <1>2, <2>2, <2>5, <2>3 DEF CardsOnRecord, ServingCards, Serving
<1>7. CASE EditFails
  BY <1>5, <1>7 DEF EditFails, telegram
<1>8. CASE PinFails
  <2>1. CallFaults # {} /\ "unreachable" \in Faults /\ "bot" \in Senders
    BY <1>0, <1>8 DEF PinFails, CallFaults, Steady
  <2> QED BY <2>1 DEF Steady
<1>9. CASE EditFindsNoCard
  <2>1. /\ UNCHANGED <<cards, disk>> /\ run.pc = "edit" /\ Card(run.sender, run.card) \notin cards
    BY <1>9 DEF EditFindsNoCard, telegram
  <2>2. UNCHANGED <<run.kind, run.sender, run.card, run.loaded>> /\ run'.pc = "create"
    BY <1>0, <1>9 DEF EditFindsNoCard, RunType
  <2>3. ServingCards
    BY <1>2, <2>1 DEF CardsOnRecord
  <2>4. \A c \in cards : c.by # run.sender
    BY <1>3, <2>1, <2>3 DEF ServingCards
  <2>5. ServingCards'
    BY <2>1, <2>2, <2>3, <2>4 DEF ServingCards, Known
  <2> QED BY <1>0, <1>1, <1>2, <2>2, <2>3, <2>5 DEF CardsOnRecord, ServingCards, Serving
<1>10. CASE CreateCard
  <2>1. /\ UNCHANGED disk /\ run.pc = "create"
        /\ cards' = cards \cup {Card(run.sender, created[run.sender] + 1)}
    BY <1>10 DEF CreateCard, PostCard
  <2>2. UNCHANGED <<run.kind, run.sender, run.loaded>> /\ run'.pc = "pin"
        /\ run'.card = created[run.sender] + 1
    BY <1>0, <1>10 DEF CreateCard, RunType
  <2>3. ServingCards
    BY <1>2, <2>1 DEF CardsOnRecord
  <2>4. ServingCards'
    BY <2>1, <2>2, <2>3 DEF ServingCards, Known, Card
  <2> QED BY <1>0, <1>1, <1>2, <2>2, <2>3, <2>4 DEF CardsOnRecord, ServingCards, Serving
<1>11. CASE CreateFails
  BY <1>5, <1>11 DEF CreateFails, CallFaults, Steady
<1>12. CASE Send
  <2>1. UNCHANGED <<cards, disk>>
    BY <1>12 DEF Send
  <2>2. UNCHANGED <<run.kind, run.sender, run.card, run.loaded, run.pc>>
    BY <1>0, <1>12 DEF Send, RunType
  <2> QED BY <1>0, <1>1, <1>2, <2>1, <2>2 DEF CardsOnRecord, ServingCards, Known, Serving
<1>13. CASE SendFails
  BY <1>5, <1>13 DEF SendFails
<1>14. CASE Commit
  <2>1. /\ UNCHANGED cards /\ run.pc = "send"
        /\ disk' = IF run.kind = "legacy" THEN disk ELSE CommittedState(run)
        /\ \E pc \in {"done", "failed"} :
             run' = [run EXCEPT !.pc = pc] /\ (pc = "done" \/ run.kind = "receive")
    BY <1>14 DEF Commit, AfterCalendar, telegram
  <2>2. run'.kind = run.kind /\ run'.pc \in {"done", "failed"}
        /\ (run'.pc = "failed" => run.kind = "receive")
    BY <1>0, <2>1 DEF RunType
  <2>3. Known(disk)'
    <3>1. CASE run.kind = "legacy"
      BY <1>2, <2>1, <3>1 DEF CardsOnRecord, Known
    <3>2. CASE run.kind # "legacy"
      <4>1. disk'.card = [run.loaded.card EXCEPT ![run.sender] = run.card]
        BY <1>4, <2>1, <3>2 DEF CommittedState
      <4>2. ServingCards
        BY <1>2, <3>2 DEF CardsOnRecord
      <4> QED BY <1>3, <1>4, <2>1, <4>1, <4>2 DEF ServingCards, Known
    <3> QED BY <3>1, <3>2
  <2> QED BY <1>0, <1>1, <1>2, <2>2, <2>3 DEF CardsOnRecord, Serving
<1> QED BY <1>6, <1>7, <1>8, <1>9, <1>10, <1>11, <1>12, <1>13, <1>14 DEF PublishStep

\* A sender never has two schedule cards in the topic, however cards are deleted, requests are
\* refused and runs of either workflow follow each other, as long as the state of every run is
\* kept; PublisherSecondCard shows that this is needed. (publisher.py _upsert_calendar "Refresh
\* the single pinned card", the save steps of both workflows)
THEOREM OneCardEach == ASSUME Steady PROVE Spec => []SingleCard
<1>1. CardsOnRecord => SingleCard
  <2> SUFFICES ASSUME CardsOnRecord, NEW c \in cards, NEW d \in cards, c.by = d.by
               PROVE  c.id = d.id
    BY DEF CardsOnRecord, TypeOK, SingleCard
  <2>1. run.pc \in {"idle", "load", "done", "failed"} \/ Serving
    BY DEF CardsOnRecord, TypeOK, RunType, Serving
  <2> QED BY <2>1 DEF CardsOnRecord, Known, ServingCards, Serving
<1>2. CardsOnRecord /\ [Next]_vars => CardsOnRecord'
  <2>1. ASSUME CardsOnRecord, UNCHANGED vars PROVE CardsOnRecord'
    <3>1. UNCHANGED <<cache, disk, run, pending, cards>> /\ TypeOK'
      BY <2>1 DEF vars, CardsOnRecord, TypeOK, telegram
    <3> QED BY <2>1, <3>1 DEF CardsOnRecord, ServingCards, Known, Serving
  <2> QED BY <2>1, Steps, WorldKeepsCards, GroupKeepsCards, PublishKeepsCards
<1> QED BY <1>1, <1>2, InitCards, PTL DEF Spec

----------------------------------------------------------------------------
(***************************************************************************)
(* Days and reminder markers                                               *)
(***************************************************************************)
\* A later moment is not of an earlier day.
LEMMA DayGrows ==
  ASSUME NEW a \in Nat, NEW b \in Nat, a <= b
  PROVE  DayOf(a) \in Nat /\ DayOf(b) \in Nat /\ DayOf(a) <= DayOf(b)
<1>1. PICK k \in Nat \ {0} : k = TicksPerDay
  BY TimeAssumption
<1>2. ASSUME NEW n \in Nat
      PROVE  n \div k \in Nat /\ k * (n \div k) <= n /\ n < k * (n \div k + 1)
  BY Z3
<1>3. ASSUME NEW p \in Nat, NEW q \in Nat, q + 1 <= p PROVE k * (q + 1) <= k * p
  <2>1. p = (q + 1) + (p - (q + 1)) /\ p - (q + 1) \in Nat
    BY <1>3
  <2>2. k * p = k * (q + 1) + k * (p - (q + 1)) /\ k * (p - (q + 1)) >= 0
    BY <2>1
  <2> QED BY <2>2
<1>4. a \div k <= b \div k
  BY <1>2, <1>3
<1> QED BY <1>1, <1>2, <1>4 DEF DayOf

\* What a reminder of a day can be about: a first lesson, or one that follows another.
Lessons == UNION {Blocks[t] : t \in Timetable}

DayMarkers(day) ==
  {[kind |-> "first", day |-> day, ended |-> 0, start |-> b[1]] : b \in Lessons}
    \cup {[kind |-> "next", day |-> day, ended |-> p[1][2], start |-> p[2][1]] :
            p \in {q \in Lessons \X Lessons : q[1][2] <= q[2][1]}}

\* The state has room for the reminders of one day: the code keeps 100 of them, and the lessons
\* of a university day begin and end at a few fixed hours.
MarkersFit ==
  \A day \in Days : IsFiniteSet(DayMarkers(day)) /\ Cardinality(DayMarkers(day)) <= MarkerCap

\* due_reminder yields a marker of today that is not in the list.
LEMMA DueMarkersToday ==
  ASSUME NEW env \in Envelope, NEW at \in Times, NEW sent, NEW m \in DueMarkers(env, at, sent)
  PROVE  /\ m \in DayMarkers(DayOf(at)) /\ m.day = DayOf(at) /\ DayOf(at) \in Days
         /\ \A i \in 1 .. Len(sent) : sent[i] # m
<1> DEFINE day     == DayOf(at)
           tick    == TickOf(at)
           blocks  == IF day \in Days THEN Blocks[env.lessons[day]] ELSE {}
           next(b) == FirstOf({c \in blocks : c[1] >= b[2]})
           closing == FirstOf({b \in blocks : /\ b[1] <= tick /\ tick >= b[2] - NextLead
                                              /\ \A n \in next(b) : tick < n[1]})
           opening == {b \in FirstOf(blocks) : b[1] - FirstLead <= tick /\ tick < b[1]}
           due == IF closing # {}
                  THEN UNION {{[kind |-> "next", day |-> day, ended |-> b[2], start |-> n[1]] :
                                 n \in next(b)} : b \in closing}
                  ELSE {[kind |-> "first", day |-> day, ended |-> 0, start |-> b[1]] :
                          b \in opening}
<1>1. m \in due /\ \A i \in 1 .. Len(sent) : sent[i] # m
  BY DEF DueMarkers
<1>2. closing \subseteq blocks /\ opening \subseteq blocks
      /\ \A b : next(b) \subseteq {c \in blocks : c[1] >= b[2]}
  BY DEF FirstOf
<1>3. blocks \subseteq Lessons /\ (blocks # {} => day \in Days)
  BY DEF Lessons, Envelope
<1>4. Lessons \subseteq Nat \X Nat
  BY TimetableAssumption DEF Lessons
<1> HIDE DEF day, tick, blocks, next, closing, opening
<1>5. CASE closing # {}
  <2>0. PICK b \in closing :
          \E n \in next(b) : m = [kind |-> "next", day |-> day, ended |-> b[2], start |-> n[1]]
    BY <1>1, <1>5
  <2>1. PICK n \in next(b) :
          m = [kind |-> "next", day |-> day, ended |-> b[2], start |-> n[1]]
    BY <2>0
  <2>2. b \in Lessons /\ n \in Lessons /\ n[1] >= b[2] /\ day \in Days
    BY <1>2, <1>3, <2>1
  <2>3. b[2] <= n[1] /\ <<b, n>> \in Lessons \X Lessons
    BY <1>4, <2>2
  <2>4. PICK p \in {q \in Lessons \X Lessons : q[1][2] <= q[2][1]} : p[1] = b /\ p[2] = n
    BY <2>3
  <2>5. m = [kind |-> "next", day |-> day, ended |-> p[1][2], start |-> p[2][1]]
    BY <2>1, <2>4
  <2>6. m \in {[kind |-> "next", day |-> day, ended |-> r[1][2], start |-> r[2][1]] :
                r \in {q \in Lessons \X Lessons : q[1][2] <= q[2][1]}}
    BY <2>5
  <2>7. m \in DayMarkers(day) /\ m.day = day
    BY <2>1, <2>6 DEF DayMarkers
  <2> QED BY <1>1, <2>2, <2>7 DEF day
<1>6. CASE closing = {}
  <2>1. PICK b \in opening :
          m = [kind |-> "first", day |-> day, ended |-> 0, start |-> b[1]]
    BY <1>1, <1>6
  <2>2. b \in Lessons /\ day \in Days
    BY <1>2, <1>3, <2>1
  <2> QED BY <1>1, <2>1, <2>2 DEF DayMarkers, day
<1> QED BY <1>5, <1>6

\* The list of a state: the reminders sent, in the order of their days, none twice.
Listed(list) ==
  /\ list \in Seq(Marker) /\ Len(list) <= MarkerCap
  /\ \A i \in 1 .. Len(list) : list[i].day \in Days /\ list[i] \in DayMarkers(list[i].day)
  /\ \A i, j \in 1 .. Len(list) : i < j => list[i].day <= list[j].day /\ list[i] # list[j]

\* A marker is on the list, or was dropped for one of a later day.
Kept(list, m) == \E i \in 1 .. Len(list) : list[i] = m \/ list[i].day > m.day

\* One more than a list has room for are not all of one day.
LEMMA FullListTurns ==
  ASSUME MarkersFit, NEW s \in Seq(Marker), Len(s) = MarkerCap + 1,
         \A i \in 1 .. Len(s) : s[i].day \in Days /\ s[i] \in DayMarkers(s[i].day),
         \A i, j \in 1 .. Len(s) : i < j => s[i].day <= s[j].day /\ s[i] # s[j]
  PROVE  \E i \in 2 .. Len(s) : s[i].day > s[1].day
<1>1. MarkerCap \in Nat /\ MarkerCap > 0 /\ Len(s) \in Nat /\ 1 \in 1 .. Len(s)
  BY TimeAssumption
<1>2. Days \subseteq Int
  BY TimeAssumption DEF Days
<1> SUFFICES ASSUME \A i \in 2 .. Len(s) : ~(s[i].day > s[1].day) PROVE FALSE
  OBVIOUS
<1>3. ASSUME NEW i \in 1 .. Len(s) PROVE s[i].day = s[1].day
  <2>1. CASE i = 1
    BY <2>1
  <2>2. CASE i # 1
    <3>1. i \in 2 .. Len(s) /\ 1 < i
      BY <1>1, <2>2
    <3>2. s[1].day <= s[i].day /\ s[1].day \in Int /\ s[i].day \in Int
      BY <1>1, <1>2, <3>1
    <3> QED BY <3>1, <3>2
  <2> QED BY <2>1, <2>2
<1> DEFINE T == DayMarkers(s[1].day)
           f == [i \in 1 .. Len(s) |-> s[i]]
<1>4. f \in [1 .. Len(s) -> T]
  BY <1>3
<1>5. IsFiniteSet(T) /\ Cardinality(T) <= MarkerCap
  BY <1>1 DEF MarkersFit
<1>6. IsFiniteSet(1 .. Len(s)) /\ Cardinality(1 .. Len(s)) = MarkerCap + 1
  BY <1>1, FS_Interval
<1>7. Cardinality(T) \in Nat
  BY <1>5, FS_CardinalityType
<1> HIDE DEF T
<1>8. PICK i, j \in 1 .. Len(s) : i # j /\ f[i] = f[j]
  BY <1>1, <1>4, <1>5, <1>6, <1>7, FS_PigeonHole
<1>9. s[i] = s[j] /\ (i < j \/ j < i)
  BY <1>1, <1>8
<1> QED BY <1>9

\* What an entry more does to a list that is not trimmed yet.
LEMMA AppendListed ==
  ASSUME NEW list, Listed(list), NEW day \in Days, NEW m \in Marker, m \in DayMarkers(day),
         m.day = day, \A i \in 1 .. Len(list) : list[i] # m /\ list[i].day <= day
  PROVE  \E s : /\ s = Append(list, m) /\ s \in Seq(Marker)
                /\ Len(s) <= MarkerCap + 1 /\ Len(s) \in Nat /\ Len(s) > 0
                /\ \A i \in 1 .. Len(s) : s[i].day \in Days /\ s[i] \in DayMarkers(s[i].day)
                                          /\ s[i].day <= day
                /\ \A i, j \in 1 .. Len(s) : i < j => s[i].day <= s[j].day /\ s[i] # s[j]
                /\ s[Len(s)] = m /\ \A x \in Marker : Kept(list, x) => Kept(s, x)
<1>1. PICK s : s = Append(list, m)
  OBVIOUS
<1>2. list \in Seq(Marker) /\ Len(list) \in Nat /\ Len(list) <= MarkerCap /\ MarkerCap \in Nat
  BY TimeAssumption DEF Listed
<1>3. /\ s \in Seq(Marker) /\ Len(s) = Len(list) + 1 /\ s[Len(s)] = m
      /\ \A i \in 1 .. Len(list) : s[i] = list[i]
  BY <1>1, <1>2
<1>4. ASSUME NEW i \in 1 .. Len(s)
      PROVE  s[i].day \in Days /\ s[i] \in DayMarkers(s[i].day) /\ s[i].day <= day
  <2>1. CASE i = Len(s)
    <3>1. day \in Int
      BY DEF Days
    <3> QED BY <1>3, <2>1, <3>1
  <2>2. CASE i # Len(s)
    <3>1. i \in 1 .. Len(list)
      BY <1>2, <1>3, <2>2
    <3> QED BY <1>3, <3>1 DEF Listed
  <2> QED BY <2>1, <2>2
<1>5. ASSUME NEW i \in 1 .. Len(s), NEW j \in 1 .. Len(s), i < j
      PROVE  s[i].day <= s[j].day /\ s[i] # s[j]
  <2>1. i \in 1 .. Len(list)
    BY <1>2, <1>3, <1>5
  <2>2. CASE j = Len(s)
    BY <1>3, <2>1, <2>2
  <2>3. CASE j # Len(s)
    <3>1. j \in 1 .. Len(list)
      BY <1>2, <1>3, <2>3
    <3> QED BY <1>3, <1>5, <2>1, <3>1 DEF Listed
  <2> QED BY <2>2, <2>3
<1>6. ASSUME NEW x \in Marker, Kept(list, x) PROVE Kept(s, x)
  <2>1. PICK i \in 1 .. Len(list) : list[i] = x \/ list[i].day > x.day
    BY <1>6 DEF Kept
  <2>2. i \in 1 .. Len(s) /\ s[i] = list[i]
    BY <1>2, <1>3
  <2> QED BY <2>1, <2>2 DEF Kept
<1>7. /\ Len(s) <= MarkerCap + 1 /\ Len(s) \in Nat /\ Len(s) > 0
      /\ \A i, j \in 1 .. Len(s) : i < j => s[i].day <= s[j].day /\ s[i] # s[j]
  BY <1>2, <1>3, <1>5
<1> HIDE DEF Kept
<1> QED BY <1>1, <1>3, <1>4, <1>6, <1>7

\* The list a run commits: the new marker is kept, and no older one is forgotten that could be
\* due again.
LEMMA ListGrows ==
  ASSUME MarkersFit, NEW list, Listed(list), NEW day \in Days, NEW m \in Marker,
         m \in DayMarkers(day), m.day = day,
         \A i \in 1 .. Len(list) : list[i] # m /\ list[i].day <= day
  PROVE  \E new : /\ new = KeepLast(Append(list, m), MarkerCap) /\ Listed(new)
                  /\ \A i \in 1 .. Len(new) : new[i].day <= day
                  /\ Kept(new, m) /\ \A x \in Marker : Kept(list, x) => Kept(new, x)
<1>1. PICK s : /\ s = Append(list, m) /\ s \in Seq(Marker)
               /\ Len(s) <= MarkerCap + 1 /\ Len(s) \in Nat /\ Len(s) > 0
               /\ \A i \in 1 .. Len(s) : s[i].day \in Days /\ s[i] \in DayMarkers(s[i].day)
                                         /\ s[i].day <= day
               /\ \A i, j \in 1 .. Len(s) : i < j => s[i].day <= s[j].day /\ s[i] # s[j]
               /\ s[Len(s)] = m /\ \A x \in Marker : Kept(list, x) => Kept(s, x)
  BY AppendListed
<1>2. MarkerCap \in Nat /\ MarkerCap > 0
  BY TimeAssumption
<1>3. CASE Len(s) <= MarkerCap
  <2>1. KeepLast(Append(list, m), MarkerCap) = s
    BY <1>1, <1>3 DEF KeepLast
  <2>2. Listed(s) /\ Kept(s, m)
    BY <1>1, <1>3 DEF Listed, Kept
  <2> QED BY <1>1, <2>1, <2>2
<1>4. CASE ~(Len(s) <= MarkerCap)
  <2>1. Len(s) = MarkerCap + 1
    BY <1>1, <1>2, <1>4
  <2>2. PICK t : t = SubSeq(s, 2, Len(s))
    OBVIOUS
  <2>3. KeepLast(Append(list, m), MarkerCap) = t
    <3>1. Len(s) - MarkerCap + 1 = 2
      BY <1>2, <2>1
    <3> QED BY <1>1, <1>4, <2>2, <3>1 DEF KeepLast
  <2>4. /\ t \in Seq(Marker) /\ Len(t) = MarkerCap
        /\ \A i \in 1 .. MarkerCap : i + 1 \in 1 .. Len(s) /\ t[i] = s[i + 1]
    <3>1. 2 \in 1 .. Len(s) /\ Len(s) \in 1 .. Len(s)
      BY <1>2, <2>1
    <3>2. t \in Seq(Marker) /\ Len(t) = Len(s) - 2 + 1
          /\ \A i \in 1 .. Len(s) - 2 + 1 : t[i] = s[2 + i - 1]
      BY <1>1, <2>2, <3>1
    <3>3. \A i \in 1 .. MarkerCap : 2 + i - 1 = i + 1 /\ i + 1 \in 1 .. Len(s)
      BY <1>2, <2>1
    <3>4. Len(s) - 2 + 1 = MarkerCap
      BY <1>2, <2>1
    <3> QED BY <3>2, <3>3, <3>4
  <2>5. /\ \A i \in 1 .. MarkerCap : /\ t[i].day \in Days /\ t[i] \in DayMarkers(t[i].day)
                                     /\ t[i].day <= day
    BY <1>1, <2>4
  <2>6. \A i, j \in 1 .. MarkerCap : i < j => t[i].day <= t[j].day /\ t[i] # t[j]
    <3> SUFFICES ASSUME NEW i \in 1 .. MarkerCap, NEW j \in 1 .. MarkerCap, i < j
                 PROVE  t[i].day <= t[j].day /\ t[i] # t[j]
      OBVIOUS
    <3>1. i + 1 \in 1 .. Len(s) /\ j + 1 \in 1 .. Len(s)
          /\ t[i] = s[i + 1] /\ t[j] = s[j + 1]
      BY <2>4
    <3>2. i + 1 < j + 1
      OBVIOUS
    <3>3. s[i + 1].day <= s[j + 1].day /\ s[i + 1] # s[j + 1]
      BY <1>1, <3>1, <3>2
    <3> QED BY <3>1, <3>3
  <2>7. Listed(t)
    BY <1>2, <2>4, <2>5, <2>6 DEF Listed
  <2>8. \A i \in 2 .. Len(s) : i - 1 \in 1 .. MarkerCap /\ t[i - 1] = s[i]
    BY <1>2, <2>1, <2>4
  <2>9. Kept(t, m)
    <3>1. Len(s) \in 2 .. Len(s)
      BY <1>2, <2>1
    <3> QED BY <1>1, <2>4, <2>8, <3>1 DEF Kept
  <2>10. ASSUME NEW x \in Marker, Kept(list, x) PROVE Kept(t, x)
    <3>1. PICK i \in 1 .. Len(s) : s[i] = x \/ s[i].day > x.day
      BY <1>1, <2>10 DEF Kept
    <3>2. CASE i # 1
      <4>1. i \in 2 .. Len(s)
        BY <1>1, <3>2
      <4> QED BY <2>4, <2>8, <3>1, <4>1 DEF Kept
    <3>3. CASE i = 1
      <4>1. PICK j \in 2 .. Len(s) : s[j].day > s[1].day
        BY <1>1, <2>1, FullListTurns
      <4>2. j \in 1 .. Len(s) /\ 1 \in 1 .. Len(s)
        BY <1>2, <2>1
      <4>3. s[j].day \in Int /\ s[1].day \in Int /\ x.day \in Int
        <5>1. s[j].day \in Days /\ s[1].day \in Days
          BY <1>1, <4>2
        <5>2. x.day \in Int
          BY DEF Marker
        <5> QED BY <5>1, <5>2 DEF Days
      <4>4. s[j].day > x.day
        BY <3>1, <3>3, <4>1, <4>3
      <4> QED BY <2>4, <2>8, <4>1, <4>4 DEF Kept
    <3> QED BY <3>2, <3>3
  <2> QED BY <2>3, <2>4, <2>5, <2>7, <2>9, <2>10
<1> QED BY <1>3, <1>4

----------------------------------------------------------------------------
(***************************************************************************)
(* What has been told, and what a run tells                                *)
(***************************************************************************)
\* Telegram answers every call, and the state of a run is kept.
Calm == CallFaults = {} /\ Faults \cap {"runner_lost", "cache_evicted"} = {}

\* A state accounts for a message: it will not be sent from there again.
Tells(state, m) ==
  \/ /\ m.type = "notice"
     /\ m.base \in Int /\ m.to \in Int /\ m.base < m.to /\ m.to <= state.prev.stamp
  \/ m.type = "evening" /\ m.day \in Int /\ m.day <= state.digest
  \/ m.type = "reminder" /\ m.marker \in Marker /\ Kept(state.reminders, m.marker)

ToldBy(state) == \A m \in posted : Tells(state, m)

\* The state is not ahead of the clock.
Until(state, t) ==
  /\ Listed(state.reminders)
  /\ state.digest <= DayOf(t)
  /\ \A i \in 1 .. Len(state.reminders) : state.reminders[i].day <= DayOf(t)

\* A run has sent what is no longer due of its duties, and nothing else since it loaded.
SentSoFar ==
  \A m \in posted :
    Tells(run.loaded, m) \/ \E k \in Duties(run) \ run.due : m = Message(run, k)

ServingOnce ==
  /\ run.kind \in {"receive", "remind"}
  /\ run.due \subseteq Duties(run)
  /\ Until(run.loaded, run.at) /\ run.at <= now
  /\ run.kind = "receive" => run.env.stamp > run.loaded.prev.stamp
  /\ SentSoFar

Chained ==
  \A m, n \in posted : m.type = "notice" /\ n.type = "notice" /\ m # n
                         => m.to <= n.base \/ n.to <= m.base

\* The inductive invariant.
Once ==
  /\ TypeOK
  /\ repeated = {} /\ Chained
  /\ Until(cache, now) /\ Until(disk, now)
  /\ run.pc = "idle" => ToldBy(cache)
  /\ run.pc = "load" => disk = cache /\ ToldBy(cache)
  /\ run.pc \in {"done", "failed"} =>
       ToldBy(disk) /\ (run.kind = "remind" /\ run.pc = "failed" => ToldBy(cache))
  /\ Serving /\ run.kind = "legacy" => ToldBy(disk) /\ run.due \subseteq {"legacy"}
  /\ Serving /\ run.kind # "legacy" => ServingOnce

LEMMA UntilLater ==
  ASSUME NEW state \in DeliveryState, NEW a \in Nat, NEW b \in Nat, a <= b, Until(state, a)
  PROVE  Until(state, b)
<1>1. DayOf(a) \in Nat /\ DayOf(b) \in Nat /\ DayOf(a) <= DayOf(b) /\ state.digest \in Int
  BY DayGrows DEF DeliveryState
<1>2. state.digest <= DayOf(b)
  BY <1>1 DEF Until
<1>3. ASSUME NEW i \in 1 .. Len(state.reminders) PROVE state.reminders[i].day <= DayOf(b)
  <2>1. state.reminders[i].day <= DayOf(a) /\ state.reminders[i].day \in Days
    BY DEF Until, Listed
  <2> QED BY <1>1, <2>1 DEF Days
<1> QED BY <1>2, <1>3 DEF Until

\* The messages of a run, by their kinds.
LEMMA MessageKinds ==
  ASSUME NEW r, NEW k \in Duties(r)
  PROVE  Message(r, k).type = k /\ k \in {"notice", "evening", "reminder"}
BY DEF Duties, ReceiveSends, RemindSends, Message

\* The marker a run reminds of is one of today that its list has not.
LEMMA RunMarker ==
  ASSUME NEW r \in RunType, RunMarkers(r) # {}
  PROVE  \E m \in Marker : /\ m = CHOOSE x \in RunMarkers(r) : TRUE
                           /\ m \in DayMarkers(DayOf(r.at)) /\ m.day = DayOf(r.at)
                           /\ DayOf(r.at) \in Days
                           /\ \A i \in 1 .. Len(r.loaded.reminders) : r.loaded.reminders[i] # m
<1>1. PICK m : m = CHOOSE x \in RunMarkers(r) : TRUE
  OBVIOUS
<1>2. Plan(r) \in Envelope /\ r.at \in Times
  BY DEF Plan, RunType, DeliveryState
<1>3. m \in DueMarkers(Plan(r), r.at, r.loaded.reminders)
  BY <1>1 DEF RunMarkers
<1> QED BY <1>1, <1>2, <1>3, DueMarkersToday, DueMarkersType

\* Nothing a run has to send is accounted for in the state it has loaded.
LEMMA DutiesAreNew ==
  ASSUME TypeOK, ServingOnce, NEW k \in Duties(run)
  PROVE  ~Tells(run.loaded, Message(run, k))
<1>0. run \in RunType /\ run.loaded \in DeliveryState /\ run.env \in Envelope /\ run.at \in Nat
      /\ run.loaded.prev \in Envelope /\ run.loaded.digest \in Int
  BY TimeAssumption DEF TypeOK, RunType, DeliveryState, Times
<1>1. Message(run, k).type = k
  BY MessageKinds
<1>2. CASE k = "notice"
  <2>1. run.kind = "receive" /\ Message(run, k).to = run.env.stamp
    BY <1>2 DEF Duties, RemindSends, Message, ServingOnce
  <2>2. run.env.stamp \in Int /\ run.loaded.prev.stamp \in Int
        /\ run.env.stamp > run.loaded.prev.stamp
    BY <1>0, <2>1, TimeAssumption DEF ServingOnce, Envelope
  <2> QED BY <1>1, <1>2, <2>1, <2>2 DEF Tells
<1>3. CASE k = "evening"
  <2>1. PublishesDigest(run) /\ ~run.env.force /\ Message(run, k).day = DayOf(run.at)
    BY <1>3 DEF Duties, RemindSends, ReceiveSends, Message, ServingOnce
  <2>2. run.loaded.digest # DayOf(run.at) /\ run.loaded.digest <= DayOf(run.at)
    BY <2>1 DEF PublishesDigest, ShouldPublishDigest, ServingOnce, Until
  <2>3. DayOf(run.at) \in Nat
    BY <1>0, DayGrows
  <2> QED BY <1>0, <1>1, <1>3, <2>1, <2>2, <2>3 DEF Tells
<1>4. CASE k = "reminder"
  <2>1. RunMarkers(run) # {}
    BY <1>4 DEF Duties, RemindSends, ReceiveSends
  <2>2. PICK m \in Marker : /\ m = CHOOSE x \in RunMarkers(run) : TRUE
                            /\ m.day = DayOf(run.at) /\ DayOf(run.at) \in Days
                            /\ \A i \in 1 .. Len(run.loaded.reminders) : run.loaded.reminders[i] # m
    BY <1>0, <2>1, RunMarker
  <2>3. Message(run, k).marker = m
    BY <1>4, <2>2 DEF Message
  <2>4. ASSUME NEW i \in 1 .. Len(run.loaded.reminders)
        PROVE  ~(run.loaded.reminders[i].day > m.day)
    <3>1. run.loaded.reminders[i].day <= m.day /\ run.loaded.reminders[i].day \in Days
      BY <2>2 DEF ServingOnce, Until, Listed
    <3> QED BY <2>2, <3>1 DEF Days
  <2> QED BY <1>1, <1>4, <2>2, <2>3, <2>4 DEF Tells, Kept
<1> QED BY <1>2, <1>3, <1>4, MessageKinds

\* The state a run commits accounts for what the loaded one did, and for what the run had to send.
LEMMA CommittedTells ==
  ASSUME MarkersFit, TypeOK, ServingOnce
  PROVE  /\ Until(CommittedState(run), run.at)
         /\ \A m : Tells(run.loaded, m) => Tells(CommittedState(run), m)
         /\ \A k \in Duties(run) : Tells(CommittedState(run), Message(run, k))
<1>0. run \in RunType /\ run.loaded \in DeliveryState /\ run.env \in Envelope /\ run.at \in Nat
      /\ run.loaded.prev \in Envelope /\ run.loaded.digest \in Int
      /\ run.kind \in {"receive", "remind"} /\ Until(run.loaded, run.at)
  BY TimeAssumption DEF TypeOK, RunType, DeliveryState, Times, ServingOnce
<1> DEFINE loaded == run.loaded.reminders
           marker == CHOOSE m \in RunMarkers(run) : TRUE
           day    == DayOf(run.at)
<1>1. PICK state : state = CommittedState(run)
  OBVIOUS
<1>2. /\ state.prev = Plan(run)
      /\ state.digest = IF PublishesDigest(run) THEN day ELSE run.loaded.digest
      /\ state.reminders = IF RunMarkers(run) = {} THEN loaded
                           ELSE KeepLast(Append(loaded, marker), MarkerCap)
  BY <1>1 DEF CommittedState
<1>3. day \in Nat
  BY <1>0, DayGrows
<1>4. run.loaded.digest <= state.digest /\ state.digest <= day /\ state.digest \in Int
  BY <1>0, <1>2, <1>3 DEF Until
<1>5. /\ Listed(state.reminders) /\ \A i \in 1 .. Len(state.reminders) : state.reminders[i].day <= day
      /\ \A x \in Marker : Kept(loaded, x) => Kept(state.reminders, x)
      /\ RunMarkers(run) # {} => marker \in Marker /\ Kept(state.reminders, marker)
  <2>1. Listed(loaded) /\ \A i \in 1 .. Len(loaded) : loaded[i].day <= day
    BY <1>0 DEF Until
  <2>2. CASE RunMarkers(run) = {}
    BY <1>2, <2>1, <2>2
  <2>3. CASE RunMarkers(run) # {}
    <3>1. PICK m \in Marker : /\ m = marker /\ m \in DayMarkers(day) /\ m.day = day /\ day \in Days
                              /\ \A i \in 1 .. Len(loaded) : loaded[i] # m
      BY <1>0, <2>3, RunMarker
    <3>2. PICK new : /\ new = KeepLast(Append(loaded, m), MarkerCap) /\ Listed(new)
                     /\ \A i \in 1 .. Len(new) : new[i].day <= day
                     /\ Kept(new, m) /\ \A x \in Marker : Kept(loaded, x) => Kept(new, x)
      <4> HIDE DEF loaded, marker, day
      <4> QED BY <2>1, <3>1, ListGrows
    <3>3. state.reminders = new
      BY <1>2, <2>3, <3>1, <3>2
    <3> QED BY <3>1, <3>2, <3>3
  <2> QED BY <2>2, <2>3
<1>6. run.loaded.prev.stamp <= state.prev.stamp /\ state.prev.stamp \in Int
      /\ run.loaded.prev.stamp \in Int /\ run.env.stamp \in Int
      /\ (run.kind = "receive" => state.prev = run.env /\ run.env.stamp > run.loaded.prev.stamp)
  BY <1>0, <1>2, TimeAssumption DEF Plan, ServingOnce, Envelope
<1> HIDE DEF loaded, marker, day
<1>7. Until(state, run.at)
  BY <1>4, <1>5 DEF Until, day
<1>8. ASSUME NEW m, Tells(run.loaded, m) PROVE Tells(state, m)
  <2>1. CASE m.type = "notice"
    BY <1>6, <1>8, <2>1 DEF Tells
  <2>2. CASE m.type = "evening"
    BY <1>0, <1>4, <1>8, <2>2 DEF Tells
  <2>3. CASE m.type = "reminder"
    BY <1>5, <1>8, <2>3 DEF Tells, loaded
  <2> QED BY <1>8, <2>1, <2>2, <2>3 DEF Tells
<1>9. ASSUME NEW k \in Duties(run) PROVE Tells(state, Message(run, k))
  <2>1. Message(run, k).type = k /\ k \in {"notice", "evening", "reminder"}
    BY MessageKinds
  <2>2. CASE k = "notice"
    <3>1. run.kind = "receive"
      BY <1>0, <2>2 DEF Duties, RemindSends
    <3>2. Message(run, k).to = run.env.stamp /\ Message(run, k).base = run.loaded.prev.stamp
      BY <2>2 DEF Message
    <3> QED BY <1>6, <2>1, <2>2, <3>1, <3>2 DEF Tells
  <2>3. CASE k = "evening"
    <3>1. PublishesDigest(run) /\ Message(run, k).day = day
      BY <1>0, <2>3 DEF Duties, RemindSends, ReceiveSends, Message, day
    <3> QED BY <1>2, <1>3, <2>1, <2>3, <3>1 DEF Tells
  <2>4. CASE k = "reminder"
    <3>1. RunMarkers(run) # {} /\ Message(run, k).marker = marker
      BY <2>4 DEF Duties, RemindSends, ReceiveSends, Message, marker
    <3> QED BY <1>5, <2>1, <2>4, <3>1 DEF Tells
  <2> QED BY <2>1, <2>2, <2>3, <2>4
<1> QED BY <1>1, <1>7, <1>8, <1>9

LEMMA NoStateUntil == \A t \in Nat : Until(NoState, t)
<1>1. ASSUME NEW t \in Nat PROVE Until(NoState, t)
  <2>1. DayOf(t) \in Nat
    BY DayGrows
  <2>2. NoState.reminders = <<>> /\ NoState.digest = -1
    BY DEF NoState
  <2>3. <<>> \in Seq(Marker) /\ Len(<<>>) = 0 /\ 1 .. 0 = {}
    OBVIOUS
  <2>4. Listed(<<>>)
    BY <2>3, TimeAssumption DEF Listed
  <2> QED BY <2>1, <2>2, <2>3, <2>4 DEF Until
<1> QED BY <1>1

LEMMA InitOnce == Init => Once
<1> SUFFICES ASSUME Init PROVE Once OBVIOUS
<1>1. TypeOK /\ now = 0 /\ cache = NoState /\ disk = NoState /\ posted = {} /\ repeated = {}
      /\ run.pc = "idle"
  BY InitTyped DEF Init, NoRun
<1>2. Until(NoState, 0)
  BY NoStateUntil
<1> QED BY <1>1, <1>2 DEF Once, ToldBy, Chained, Serving

LEMMA WorldKeepsOnce == ASSUME Calm, Once, WorldStep PROVE Once'
<1>0. TypeOK /\ TypeOK'
  BY WorldTyped DEF Once
<1>1. UNCHANGED <<run, disk, cache, posted, repeated>>
  BY DEF WorldStep, Tick, EditSite, DeleteCard, EvictCache, BeginFetch, ReadSource, HandOff,
         AbandonFetch, RequestOther, telegram, Calm
<1>2. now \in Nat /\ now' \in Nat /\ now <= now'
  <2>1. now' = now \/ now' = now + 1
    BY DEF WorldStep, Tick, EditSite, DeleteCard, EvictCache, BeginFetch, ReadSource, HandOff,
           AbandonFetch, RequestOther
  <2>2. now \in Nat
    BY <1>0 DEF TypeOK, Times
  <2> QED BY <2>1, <2>2
<1>3. cache \in DeliveryState /\ disk \in DeliveryState
  BY <1>0 DEF TypeOK
<1>4. Until(cache, now') /\ Until(disk, now')
  BY <1>2, <1>3, UntilLater DEF Once
<1>5. Chained' /\ (repeated = {})'
  BY <1>1 DEF Once, Chained
<1>6. ASSUME ServingOnce PROVE ServingOnce'
  <2>1. run.at <= now'
    <3>1. run.at \in Nat
      BY <1>0 DEF TypeOK, RunType, Times
    <3> QED BY <1>2, <1>6, <3>1 DEF ServingOnce
  <2>2. SentSoFar'
    BY <1>1, <1>6 DEF ServingOnce, SentSoFar
  <2> QED BY <1>1, <1>6, <2>1, <2>2 DEF ServingOnce
<1>7. Serving' = Serving /\ (ToldBy(cache) => ToldBy(cache)') /\ (ToldBy(disk) => ToldBy(disk)')
  BY <1>1 DEF Serving, ToldBy
<1> QED BY <1>0, <1>1, <1>4, <1>5, <1>6, <1>7 DEF Once

\* A run that has loaded a fresh state has sent nothing yet.
LEMMA FreshRun ==
  ASSUME TypeOK, ToldBy(cache), disk = cache, Until(cache, now), UNCHANGED posted,
         run'.kind \in {"receive", "remind"}, run'.loaded = disk, run'.at = now, now' = now,
         run'.due = Duties(run'),
         run'.kind = "receive" => run'.env.stamp > disk.prev.stamp
  PROVE  ServingOnce'
<1>1. SentSoFar'
  BY DEF ToldBy, SentSoFar
<1>2. now <= now
  BY DEF TypeOK, Times
<1> QED BY <1>1, <1>2 DEF ServingOnce

LEMMA GroupKeepsOnce == ASSUME Calm, Once, GroupStep PROVE Once'
<1>0. TypeOK /\ TypeOK' /\ run \in RunType /\ now \in Nat
  BY GroupTyped DEF Once, TypeOK, Times
<1>1. UNCHANGED <<now, posted, repeated>>
  BY DEF GroupStep, StartRun, RejectRun, LoadStale, LoadFresh, LoadReminder, LoadLegacy,
         EndRun, LoseRunner, telegram
<1>2. Chained' /\ (repeated = {})'
  BY <1>1 DEF Once, Chained
<1>3. \A s : ToldBy(s) => \A m \in posted' : Tells(s, m)
  BY <1>1 DEF ToldBy
<1>4. ASSUME UNCHANGED <<disk, cache>> PROVE Until(cache, now)' /\ Until(disk, now)'
  BY <1>1, <1>4 DEF Once
<1>5. ASSUME NEW s \in Senders, StartRun(s) PROVE Once'
  <2>1. run'.pc = "load" /\ disk' = cache /\ cache' = cache /\ run.pc = "idle"
    BY <1>5 DEF StartRun, NoRun
  <2>2. Until(cache, now)' /\ Until(disk, now)'
    BY <1>1, <2>1 DEF Once
  <2> QED BY <1>0, <1>2, <1>3, <2>1, <2>2 DEF Once, Serving, ToldBy
<1>6. CASE RejectRun \/ LoadStale
  <2>1. run'.pc \in {"done", "failed"} /\ run.pc = "load" /\ UNCHANGED <<disk, cache>>
    BY <1>0, <1>6, LoadedType DEF RejectRun, LoadStale, AfterCalendar, RunType
  <2> QED BY <1>0, <1>2, <1>3, <1>4, <2>1 DEF Once, Serving, ToldBy
<1>7. CASE LoadFresh
  <2>1. /\ run' = [Loaded EXCEPT !.due = ReceiveSends(Loaded),
                                 !.pc = IF Loaded.card = 0 THEN "create" ELSE "edit"]
        /\ run.pc = "load" /\ run.kind = "receive" /\ ~Stale(run.env, disk)
        /\ UNCHANGED <<disk, cache>>
    BY <1>7 DEF LoadFresh
  <2>2. /\ run'.due = ReceiveSends(Loaded) /\ run'.loaded = disk /\ run'.env = run.env
        /\ run'.at = Loaded.at /\ run'.env = Loaded.env /\ run'.loaded = Loaded.loaded
        /\ run'.at = now /\ run'.kind = "receive" /\ run'.kind = Loaded.kind
        /\ run'.pc \in {"create", "edit"}
    BY <1>0, <2>1, LoadedType DEF RunType
  <2>3. run'.env.stamp > disk.prev.stamp
    <3>1. run.env.stamp \in -1 .. MaxTime /\ disk.prev.stamp \in -1 .. MaxTime
      BY <1>0 DEF TypeOK, RunType, DeliveryState, Envelope
    <3> QED BY <2>1, <2>2, <3>1, TimeAssumption DEF Stale
  <2>4. run'.due = Duties(run')
    BY <2>2, SameDuties DEF Duties
  <2>5. ServingOnce'
    BY <1>0, <1>1, <2>1, <2>2, <2>3, <2>4, FreshRun DEF Once
  <2> QED BY <1>0, <1>2, <1>4, <2>1, <2>2, <2>5 DEF Once, Serving
<1>8. CASE LoadReminder
  <2>1. \/ run' = [Loaded EXCEPT !.pc = "done"]
        \/ \E pc \in {"send", "edit"} :
             run' = [Loaded EXCEPT !.due = RemindSends(Loaded), !.pc = pc]
    BY <1>8 DEF LoadReminder
  <2>2. run.pc = "load" /\ run.kind = "remind" /\ UNCHANGED <<disk, cache>>
    BY <1>8 DEF LoadReminder
  <2>3. /\ run'.loaded = disk /\ run'.at = now
        /\ run'.kind = "remind" /\ run'.kind = Loaded.kind /\ run'.env = Loaded.env
        /\ run'.loaded = Loaded.loaded /\ run'.at = Loaded.at
        /\ run'.pc = "done" \/ (run'.pc \in {"send", "edit"} /\ run'.due = RemindSends(Loaded))
    BY <1>0, <2>1, <2>2, LoadedType DEF RunType
  <2>4. CASE run'.pc = "done"
    BY <1>0, <1>2, <1>3, <1>4, <2>2, <2>4 DEF Once, Serving, ToldBy
  <2>5. CASE run'.pc \in {"send", "edit"}
    <3>1. run'.due = Duties(run')
      BY <2>3, <2>5, SameDuties DEF Duties
    <3>2. ServingOnce'
      BY <1>0, <1>1, <2>2, <2>3, <3>1, FreshRun DEF Once
    <3> QED BY <1>0, <1>2, <1>4, <2>2, <2>3, <2>5, <3>2 DEF Once, Serving
  <2> QED BY <2>3, <2>4, <2>5
<1>9. CASE LoadLegacy
  <2>1. /\ run'.kind = "legacy" /\ run'.due = {"legacy"} /\ run'.pc = "send"
        /\ run.pc = "load" /\ UNCHANGED <<disk, cache>>
    BY <1>0, <1>9 DEF LoadLegacy, RunType
  <2> QED BY <1>0, <1>2, <1>3, <1>4, <2>1 DEF Once, Serving, ToldBy
<1>10. CASE EndRun
  <2>1. /\ run.pc \in {"done", "failed"} /\ run'.pc = "idle" /\ disk' = NoState
        /\ cache' = IF run.kind # "remind" \/ run.pc = "done" THEN disk ELSE cache
    BY <1>10 DEF EndRun, NoRun
  <2>2. ToldBy(cache)'
    BY <1>3, <2>1 DEF Once, ToldBy
  <2>3. Until(cache, now)' /\ Until(disk, now)'
    BY <1>0, <1>1, <2>1, NoStateUntil DEF Once
  <2> QED BY <1>0, <1>2, <2>1, <2>2, <2>3 DEF Once, Serving
<1>11. ~LoseRunner
  BY DEF LoseRunner, Calm
<1> QED BY <1>5, <1>6, <1>7, <1>8, <1>9, <1>10, <1>11 DEF GroupStep

\* A call that posts no notification leaves a serving run where it was.
LEMMA ServingGoesOn ==
  ASSUME Once, Serving, TypeOK', UNCHANGED <<now, cache, posted, repeated>>,
         UNCHANGED <<run.kind, run.env, run.loaded, run.at, run.due>>,
         run'.pc \in {"edit", "create", "pin", "send"},
         disk' = disk \/ (run.kind = "receive" /\ disk' = WithCard(run.loaded, run.sender, run'.card))
  PROVE  Once'
<1>0. TypeOK /\ run \in RunType /\ run.loaded \in DeliveryState /\ now \in Nat /\ run.at \in Nat
  BY DEF Once, TypeOK, RunType, Times
<1>1. Chained' /\ (repeated = {})'
  BY DEF Once, Chained
<1>2. Duties(run') = Duties(run) /\ \A k : Message(run', k) = Message(run, k)
  BY SameDuties
<1>3. Serving /\ run.kind # "legacy" => ServingOnce'
  BY <1>2 DEF Once, ServingOnce, SentSoFar
<1>4. run.kind = "legacy" => ToldBy(disk)' /\ run'.due \subseteq {"legacy"}
  BY DEF Once, ToldBy
<1>5. Until(cache, now)'
  BY DEF Once
<1>6. Until(disk, now)'
  <2>1. CASE disk' = disk
    BY <2>1 DEF Once
  <2>2. CASE run.kind = "receive" /\ disk' = WithCard(run.loaded, run.sender, run'.card)
    <3>1. disk'.reminders = run.loaded.reminders /\ disk'.digest = run.loaded.digest
      BY <1>0, <2>2 DEF WithCard, DeliveryState
    <3>2. Until(run.loaded, now)
      BY <1>0, <2>2, UntilLater DEF Once, ServingOnce
    <3> QED BY <3>1, <3>2 DEF Until
  <2> QED BY <2>1, <2>2
<1>7. Serving' /\ run'.pc \notin {"idle", "load", "done", "failed"}
  BY DEF Serving
<1> QED BY <1>1, <1>3, <1>4, <1>5, <1>6, <1>7 DEF Once

\* A notification is sent for the first time, and follows all earlier ones.
LEMMA SendKeepsOnce == ASSUME Once, Send, TypeOK' PROVE Once'
<1> DEFINE k == FirstDue(run.due)
<1>0. TypeOK /\ run \in RunType /\ Serving /\ run.due # {} /\ run.due \subseteq Sends
  BY DEF Once, TypeOK, RunType, Send, Serving
<1>1. /\ UNCHANGED <<now, cache, disk>> /\ Deliver(k)
      /\ UNCHANGED <<run.kind, run.env, run.loaded, run.at, run.pc>>
      /\ run'.due = run.due \ {k}
  BY <1>0 DEF Send, RunType
<1>2. k \in run.due
  BY <1>0 DEF FirstDue, Sends
<1>3. Duties(run') = Duties(run) /\ \A j : Message(run', j) = Message(run, j)
  BY <1>1, SameDuties
<1>4. Serving' /\ run'.pc \notin {"idle", "load", "done", "failed"}
      /\ Until(cache, now)' /\ Until(disk, now)'
  BY <1>0, <1>1 DEF Once, Serving
<1> HIDE DEF k
<1>5. CASE run.kind = "legacy"
  <2>1. k = "legacy"
    BY <1>0, <1>2, <1>5 DEF Once
  <2>2. UNCHANGED <<posted, repeated>>
    BY <1>1, <2>1 DEF Deliver
  <2>3. Chained' /\ (repeated = {})' /\ ToldBy(disk)'
    BY <1>0, <1>1, <1>5, <2>2 DEF Once, Chained, ToldBy
  <2>4. run'.due \subseteq {"legacy"}
    BY <1>0, <1>1, <1>5 DEF Once
  <2> QED BY <1>1, <1>4, <1>5, <2>3, <2>4 DEF Once
<1>6. CASE run.kind # "legacy"
  <2>1. ServingOnce /\ k \in Duties(run) /\ run.loaded \in DeliveryState
    BY <1>0, <1>2, <1>6 DEF Once, ServingOnce, RunType
  <2>2. PICK m : m = Message(run, k)
    OBVIOUS
  <2>3. ~Tells(run.loaded, m) /\ m.type = k /\ k \in {"notice", "evening", "reminder"}
    BY <1>0, <2>1, <2>2, DutiesAreNew, MessageKinds
  <2>4. ASSUME NEW n \in posted
        PROVE  Tells(run.loaded, n) \/ (n.type # k /\ \E j \in Duties(run) \ run.due : n = Message(run, j))
    <3>1. ASSUME NEW j \in Duties(run) \ run.due, n = Message(run, j) PROVE n.type # k
      BY <1>2, <3>1, MessageKinds
    <3> QED BY <2>1, <3>1 DEF ServingOnce, SentSoFar
  <2>5. m \notin posted
    BY <2>3, <2>4
  <2>6. posted' = posted \cup {m} /\ repeated' = repeated
    BY <1>1, <2>2, <2>3, <2>5 DEF Deliver, Post
  <2>7. ASSUME k = "notice", NEW n \in posted, n.type = "notice" PROVE n.to <= m.base
    <3>1. Tells(run.loaded, n)
      BY <2>4, <2>7
    <3>2. m.base = run.loaded.prev.stamp
      BY <2>2, <2>7 DEF Message
    <3> QED BY <2>7, <3>1, <3>2 DEF Tells
  <2>8. Chained'
    <3> SUFFICES ASSUME NEW a \in posted', NEW b \in posted',
                        a.type = "notice", b.type = "notice", a # b
                 PROVE  a.to <= b.base \/ b.to <= a.base
      BY DEF Chained
    <3>1. CASE a \in posted /\ b \in posted
      BY <3>1 DEF Once, Chained
    <3>2. CASE a = m \/ b = m
      <4>1. k = "notice"
        BY <2>3, <3>2
      <4> QED BY <2>6, <2>7, <3>2, <4>1
    <3> QED BY <2>6, <3>1, <3>2
  <2>9. SentSoFar'
    <3> SUFFICES ASSUME NEW n \in posted'
                 PROVE  Tells(run.loaded, n) \/ \E j \in Duties(run) \ (run.due \ {k}) : n = Message(run, j)
      BY <1>1, <1>3 DEF SentSoFar
    <3>1. CASE n = m
      BY <2>1, <2>2, <3>1
    <3>2. CASE n \in posted
      BY <2>4, <3>2
    <3> QED BY <2>6, <3>1, <3>2
  <2>10. ServingOnce'
    BY <1>1, <1>3, <2>1, <2>9 DEF ServingOnce
  <2>11. (repeated = {})'
    BY <2>6 DEF Once
  <2> QED BY <1>1, <1>4, <1>6, <2>8, <2>10, <2>11 DEF Once
<1> QED BY <1>5, <1>6

LEMMA PublishKeepsOnce == ASSUME Calm, MarkersFit, Once, PublishStep PROVE Once'
<1>0. TypeOK /\ TypeOK' /\ run \in RunType /\ now \in Nat /\ run.at \in Nat
  BY PublishTyped DEF Once, TypeOK, RunType, Times
<1>1. ~EditFails /\ ~CreateFails /\ ~PinFails /\ ~SendFails
  BY DEF Calm, EditFails, CreateFails, PinFails, SendFails
<1>2. CASE EditCard \/ PinCard
  <2>1. /\ KeepCard(run.card) /\ Serving /\ UNCHANGED <<now, cache, posted, repeated>>
    BY <1>2 DEF EditCard, PinCard, Serving, telegram
  <2>2. /\ UNCHANGED <<run.kind, run.env, run.loaded, run.at, run.due>>
        /\ run'.card = run.card /\ run'.pc = "send"
        /\ disk' = disk \/ (run.kind = "receive" /\ disk' = WithCard(run.loaded, run.sender, run'.card))
    BY <1>0, <2>1 DEF KeepCard, RunType
  <2> QED BY <1>0, <2>1, <2>2, ServingGoesOn
<1>3. CASE EditFindsNoCard \/ CreateCard
  <2>1. /\ Serving /\ UNCHANGED <<now, cache, disk, posted, repeated>>
        /\ UNCHANGED <<run.kind, run.env, run.loaded, run.at, run.due>>
        /\ run'.pc \in {"create", "pin"}
    BY <1>0, <1>3 DEF EditFindsNoCard, CreateCard, RunType, Serving, telegram
  <2> QED BY <1>0, <2>1, ServingGoesOn
<1>4. CASE Send
  BY <1>0, <1>4, SendKeepsOnce
<1>5. CASE Commit
  <2>1. /\ UNCHANGED <<now, cache, posted, repeated>> /\ Serving /\ run.due = {}
        /\ disk' = IF run.kind = "legacy" THEN disk ELSE CommittedState(run)
        /\ \E pc \in {"done", "failed"} : run' = [run EXCEPT !.pc = pc]
        /\ run.kind # "receive" => run' = [run EXCEPT !.pc = "done"]
    BY <1>5 DEF Commit, AfterCalendar, Serving, telegram
  <2>2. /\ run'.kind = run.kind /\ run'.pc \in {"done", "failed"}
        /\ run'.kind = "remind" => run'.pc = "done"
    BY <1>0, <2>1 DEF RunType
  <2>3. Chained' /\ (repeated = {})' /\ Until(cache, now)'
    BY <2>1 DEF Once, Chained
  <2>4. ToldBy(disk)' /\ Until(disk, now)'
    <3>1. CASE run.kind = "legacy"
      BY <2>1, <3>1 DEF Once, ToldBy
    <3>2. CASE run.kind # "legacy"
      <4>1. ServingOnce /\ disk' = CommittedState(run) /\ run.at <= now
        BY <2>1, <3>2 DEF Once, ServingOnce
      <4>2. /\ Until(disk', run.at)
            /\ \A m : Tells(run.loaded, m) => Tells(disk', m)
            /\ \A k \in Duties(run) : Tells(disk', Message(run, k))
        BY <1>0, <4>1, CommittedTells
      <4>3. disk' \in DeliveryState
        BY <1>0 DEF TypeOK
      <4>4. Until(disk', now)
        BY <1>0, <4>1, <4>2, <4>3, UntilLater
      <4>5. \A m \in posted : Tells(disk', m)
        BY <4>1, <4>2 DEF ServingOnce, SentSoFar
      <4> QED BY <2>1, <4>4, <4>5 DEF ToldBy
    <3> QED BY <3>1, <3>2
  <2>5. ~Serving' /\ run'.pc \notin {"idle", "load"}
    BY <2>2 DEF Serving
  <2> QED BY <1>0, <2>2, <2>3, <2>4, <2>5 DEF Once
<1> QED BY <1>1, <1>2, <1>3, <1>4, <1>5 DEF PublishStep

LEMMA OnceInvariant == ASSUME Calm, MarkersFit PROVE Spec => []Once
<1>1. Once /\ [Next]_vars => Once'
  <2>1. ASSUME Once, UNCHANGED vars PROVE Once'
    <3>1. UNCHANGED <<now, run, disk, cache, posted, repeated>>
      BY <2>1 DEF vars
    <3>2. TypeOK'
      BY <2>1 DEF Once, vars, TypeOK
    <3>3. ServingOnce => ServingOnce'
      BY <3>1 DEF ServingOnce, SentSoFar
    <3> QED BY <2>1, <3>1, <3>2, <3>3 DEF Once, Chained, ToldBy, Serving
  <2> QED BY <2>1, Steps, WorldKeepsOnce, GroupKeepsOnce, PublishKeepsOnce
<1> QED BY <1>1, InitOnce, PTL DEF Spec

\* While Telegram answers and the state is kept, no notification is posted twice, however the
\* two workflows alternate and the calendar fails. (publisher.py publish_dispatched and
\* publish_due_reminder; the markers of two days fit into the list of schedule/ci.py)
THEOREM NothingIsRepeated == ASSUME Calm, MarkersFit PROVE Spec => []NothingRepeated
<1>1. Once => NothingRepeated
  BY DEF Once, NothingRepeated
<1> QED BY <1>1, OnceInvariant, PTL

\* What is told of a span of the source's history.
LEMMA PostedIsTold ==
  ASSUME Once, NEW m \in posted, m.type = "notice" PROVE m.base < m.to
<1>0. TypeOK /\ run \in RunType
  BY DEF Once, TypeOK
<1>1. run.pc \in {"idle", "load", "done", "failed"} \/ Serving
  BY <1>0 DEF RunType, Serving
<1>2. ASSUME NEW s, Tells(s, m) PROVE m.base < m.to
  BY <1>2 DEF Tells
<1>3. CASE ~Serving \/ run.kind = "legacy"
  BY <1>1, <1>2, <1>3 DEF Once, ToldBy
<1>4. CASE Serving /\ run.kind # "legacy"
  <2>1. ServingOnce
    BY <1>4 DEF Once
  <2>2. CASE Tells(run.loaded, m)
    BY <1>2, <2>2
  <2>3. ASSUME NEW k \in Duties(run), m = Message(run, k) PROVE m.base < m.to
    <3>1. k = "notice"
      BY <2>3, MessageKinds
    <3>2. run.kind = "receive"
      BY <2>1, <2>3, <3>1 DEF Duties, RemindSends, ServingOnce
    <3>3. run.env.stamp \in Int /\ run.loaded.prev.stamp \in Int
      <4>1. run.env.stamp \in -1 .. MaxTime /\ run.loaded.prev.stamp \in -1 .. MaxTime
        BY <1>0 DEF RunType, DeliveryState, Envelope
      <4> QED BY <4>1, TimeAssumption
    <3> QED BY <2>1, <2>3, <3>1, <3>2, <3>3 DEF ServingOnce, Message
  <2> QED BY <2>1, <2>2, <2>3 DEF ServingOnce, SentSoFar
<1> QED BY <1>3, <1>4

\* Under the same conditions every notice leads forwards in the source's history, and no two
\* notices cover the same span of it. (publisher.py "Never emit reverse/duplicate changes")
THEOREM NoticesFollow == ASSUME Calm, MarkersFit PROVE Spec => []NoticesChain
<1>1. Once => NoticesChain
  <2> SUFFICES ASSUME Once, NEW m \in Notices, NEW n \in Notices
               PROVE  m.base < m.to /\ (m # n => m.to <= n.base \/ n.to <= m.base)
    BY DEF NoticesChain
  <2>1. m \in posted /\ n \in posted /\ m.type = "notice" /\ n.type = "notice"
    BY DEF Notices
  <2> QED BY <2>1, PostedIsTold DEF Once, Chained
<1> QED BY <1>1, OnceInvariant, PTL

----------------------------------------------------------------------------
(***************************************************************************)
(* The history of the source                                               *)
(***************************************************************************)
\* GitVerse reads the pages when it stamps its clock, and what the source makes of a day in two
\* edits it could make of it in one.
Forwards ==
  /\ "late_read" \notin Faults
  /\ \A a, b, c \in Timetable :
       <<a, b>> \in SiteChanges /\ <<b, c>> \in SiteChanges => <<a, c>> \in SiteChanges

Becomes(a, b) == a = b \/ <<a, b>> \in SiteChanges

\* The envelopes in flight and the baselines kept.
Envelopes ==
  ({fetch[f].env : f \in Fetchers}
     \cup {pending.env, run.env, run.loaded.prev, disk.prev, cache.prev}) \ {NoEnvelope}

\* An envelope is a snapshot of a past of the source.
Past(e, t, content) ==
  e.stamp <= t /\ \A d \in Horizon(e.stamp) : Becomes(e.lessons[d], content[d])

Ordered(S) ==
  \A e, g \in S : e.stamp < g.stamp =>
    \A d \in Horizon(e.stamp) \cap Horizon(g.stamp) : Becomes(e.lessons[d], g.lessons[d])

\* The inductive invariant, next to Basis.
History ==
  /\ \A e \in Envelopes : Past(e, now, site)
  /\ Ordered(Envelopes)
  /\ \A f \in Fetchers : fetch[f].phase # "stamped"
  /\ "notice" \in run.due => run.kind = "receive"
  /\ AnnouncedChangesHappened

LEMMA InitHistory == Init => History
<1> SUFFICES ASSUME Init PROVE History OBVIOUS
<1>1. Envelopes = {}
  BY DEF Init, Envelopes, NoRequest, Request, NoRun, NoState
<1> QED BY <1>1 DEF History, Ordered, AnnouncedChangesHappened, Notices, Init, NoRun

\* Envelopes are only moved about, except where GitVerse reads the source.
LEMMA EnvelopesMove ==
  ASSUME TypeOK, TypeOK', Next, \A f \in Fetchers : fetch[f].phase # "stamped",
         ~\E f \in Fetchers, force \in BOOLEAN : BeginFetch(f, force)
  PROVE  Envelopes' \subseteq Envelopes /\ \A f \in Fetchers : fetch'[f].phase # "stamped"
<1>0. /\ run \in RunType /\ run.loaded \in DeliveryState /\ pending \in RequestType
      /\ disk \in DeliveryState /\ cache \in DeliveryState /\ fetch \in [Fetchers -> FetchType]
  BY DEF TypeOK, RunType
<1>1. NoRun.env = NoEnvelope /\ NoRun.loaded.prev = NoEnvelope /\ NoState.prev = NoEnvelope
      /\ NoRequest.env = NoEnvelope
  BY DEF NoRun, NoState, NoRequest, Request
<1>2. ASSUME UNCHANGED fetch,
             pending'.env \in {pending.env, NoEnvelope},
             run'.env \in {run.env, pending.env, NoEnvelope},
             run'.loaded.prev \in {run.loaded.prev, disk.prev, NoEnvelope},
             disk'.prev \in {disk.prev, cache.prev, run.loaded.prev, run.env, NoEnvelope},
             cache'.prev \in {cache.prev, disk.prev, NoEnvelope}
      PROVE  Envelopes' \subseteq Envelopes /\ \A f \in Fetchers : fetch'[f].phase # "stamped"
  BY <1>2 DEF Envelopes
<1>3. CASE WorldStep
  <2>1. CASE Tick \/ \E d \in Days, t \in Timetable : EditSite(d, t)
    BY <1>2, <2>1 DEF Tick, EditSite
  <2>2. CASE \E c \in cards : DeleteCard(c)
    BY <1>2, <2>2 DEF DeleteCard
  <2>3. CASE EvictCache
    BY <1>1, <1>2, <2>3 DEF EvictCache
  <2>4. ASSUME NEW f \in Fetchers, HandOff(f) \/ AbandonFetch(f)
        PROVE  Envelopes' \subseteq Envelopes /\ \A g \in Fetchers : fetch'[g].phase # "stamped"
    <3>1. fetch' = [fetch EXCEPT ![f] = [phase |-> "idle", env |-> NoEnvelope]]
      BY <2>4 DEF HandOff, AbandonFetch
    <3>2. \A g \in Fetchers : fetch'[g].env \in {fetch[g].env, NoEnvelope}
                              /\ fetch'[g].phase # "stamped"
      BY <1>0, <3>1
    <3>3. UNCHANGED <<run, disk, cache>> /\ pending'.env \in {pending.env, fetch[f].env}
      BY <2>4 DEF HandOff, AbandonFetch, Submit, Request
    <3> QED BY <3>2, <3>3 DEF Envelopes
  <2>5. CASE \E kind \in {"remind", "legacy"} : RequestOther(kind)
    <3>1. pending'.env = NoEnvelope /\ UNCHANGED <<fetch, run, disk, cache>>
      BY <2>5 DEF RequestOther, Submit, Request
    <3> QED BY <1>2, <3>1
  <2>6. ~\E f \in Fetchers : ReadSource(f)
    BY DEF ReadSource
  <2> QED BY <1>3, <2>1, <2>2, <2>3, <2>4, <2>5, <2>6 DEF WorldStep
<1>4. CASE GroupStep
  <2>1. ASSUME NEW s \in Senders, StartRun(s)
        PROVE  Envelopes' \subseteq Envelopes /\ \A f \in Fetchers : fetch'[f].phase # "stamped"
    <3>1. run'.env = pending.env /\ run'.loaded.prev = NoEnvelope /\ pending' = NoRequest
          /\ disk' = cache /\ UNCHANGED <<fetch, cache>>
      BY <2>1 DEF StartRun, NoRun, NoState
    <3> QED BY <1>1, <1>2, <3>1
  <2>2. CASE RejectRun \/ LoadStale \/ LoadFresh \/ LoadReminder \/ LoadLegacy
    <3>1. UNCHANGED <<fetch, pending, disk, cache>>
      BY <2>2 DEF RejectRun, LoadStale, LoadFresh, LoadReminder, LoadLegacy
    <3>2. run'.env = run.env /\ run'.loaded \in {run.loaded, disk}
      BY <1>0, <2>2, LoadedType DEF RejectRun, LoadStale, LoadFresh, LoadReminder, LoadLegacy, RunType
    <3> QED BY <1>2, <3>1, <3>2
  <2>3. CASE EndRun \/ LoseRunner
    <3>1. run' = NoRun /\ disk' = NoState /\ cache' \in {cache, disk} /\ UNCHANGED <<fetch, pending>>
      BY <2>3 DEF EndRun, LoseRunner
    <3> QED BY <1>1, <1>2, <3>1
  <2> QED BY <1>4, <2>1, <2>2, <2>3 DEF GroupStep
<1>5. CASE PublishStep
  <2>1. UNCHANGED <<fetch, pending, cache>>
    BY <1>5 DEF PublishStep, EditCard, EditFails, EditFindsNoCard, CreateCard, CreateFails,
                PinCard, PinFails, Send, SendFails, Commit
  <2>2. run'.env = run.env /\ run'.loaded = run.loaded
    <3>1. \/ FailRun \/ KeepCard(run.card)
          \/ \E pc \in {"create", "done", "failed"} : run' = [run EXCEPT !.pc = pc]
          \/ \E id : run' = [run EXCEPT !.card = id, !.pc = "pin"]
          \/ \E k : run' = [run EXCEPT !.due = run.due \ {k}]
      BY <1>5 DEF PublishStep, EditCard, EditFails, EditFindsNoCard, CreateCard, CreateFails,
                  PinCard, PinFails, Send, SendFails, Commit, AfterCalendar
    <3> QED BY <1>0, <3>1 DEF FailRun, KeepCard, RunType
  <2>3. disk'.prev \in {disk.prev, run.loaded.prev, run.env}
    <3>1. \/ disk' = disk
          \/ \E id : disk' = WithCard(run.loaded, run.sender, id)
          \/ disk' = CommittedState(run)
      BY <1>5 DEF PublishStep, EditCard, EditFails, EditFindsNoCard, CreateCard, CreateFails,
                  PinCard, PinFails, Send, SendFails, Commit, KeepCard
    <3>2. \A id : WithCard(run.loaded, run.sender, id).prev = run.loaded.prev
      BY <1>0 DEF WithCard, DeliveryState
    <3>3. CommittedState(run).prev \in {run.env, run.loaded.prev}
      BY <1>0, CommittedType DEF Plan
    <3> QED BY <3>1, <3>2, <3>3
  <2> QED BY <1>2, <2>1, <2>2, <2>3
<1> QED BY <1>3, <1>4, <1>5, Steps

LEMMA BecomesChain ==
  ASSUME Forwards, NEW a \in Timetable, NEW b \in Timetable, NEW c \in Timetable,
         Becomes(a, b), Becomes(b, c)
  PROVE  Becomes(a, c)
BY DEF Forwards, Becomes

\* What a snapshot shows stays in the past of the source.
LEMMA PastStays ==
  ASSUME Forwards, TypeOK, Next, NEW e \in Envelope, Past(e, now, site)
  PROVE  Past(e, now', site')
<1>0. site \in [Days -> Timetable] /\ now \in Nat /\ e.lessons \in [Days -> Timetable]
      /\ e.stamp \in -1 .. MaxTime /\ Horizon(e.stamp) \subseteq Days
  BY DEF TypeOK, Times, Envelope, Horizon
<1>1. now' = now \/ now' = now + 1
  BY DEF Next, Tick, EditSite, DeleteCard, EvictCache, BeginFetch, ReadSource, HandOff, AbandonFetch,
         RequestOther, StartRun, RejectRun, LoadStale, LoadFresh, LoadReminder, LoadLegacy,
         EditCard, EditFails, EditFindsNoCard, CreateCard, CreateFails, PinCard, PinFails,
         Send, SendFails, Commit, EndRun, LoseRunner
<1>2. site' = site \/ \E d \in Days, t \in Timetable : EditSite(d, t)
  BY DEF Next, Tick, DeleteCard, EvictCache, BeginFetch, ReadSource, HandOff, AbandonFetch,
         RequestOther, StartRun, RejectRun, LoadStale, LoadFresh, LoadReminder, LoadLegacy,
         EditCard, EditFails, EditFindsNoCard, CreateCard, CreateFails, PinCard, PinFails,
         Send, SendFails, Commit, EndRun, LoseRunner
<1>3. \A d \in Days : site'[d] \in Timetable /\ Becomes(site[d], site'[d])
  BY <1>0, <1>2 DEF EditSite, Becomes
<1>4. e.stamp <= now'
  BY <1>0, <1>1, TimeAssumption DEF Past
<1>5. ASSUME NEW d \in Horizon(e.stamp) PROVE Becomes(e.lessons[d], site'[d])
  <2>1. Becomes(e.lessons[d], site[d])
    BY DEF Past
  <2> QED BY <1>0, <1>3, <2>1, BecomesChain
<1> QED BY <1>4, <1>5 DEF Past

LEMMA EnvelopesType == ASSUME TypeOK PROVE Envelopes \subseteq Envelope
BY DEF TypeOK, Envelopes, FetchType, RequestType, RunType, DeliveryState

\* A notice is posted by a run that compared two snapshots.
LEMMA PostsAreCompared ==
  ASSUME Basis, Next, NEW m \in posted' \ posted, m.type = "notice",
         "notice" \in run.due => run.kind = "receive"
  PROVE  /\ m.changes \subseteq Changes(run.loaded.prev, run.env, DayOf(run.at))
         /\ run.env.stamp > run.loaded.prev.stamp
<1>1. Send \/ SendFails
  BY DEF Next, Tick, EditSite, DeleteCard, EvictCache, BeginFetch, ReadSource, HandOff, AbandonFetch,
         RequestOther, StartRun, RejectRun, LoadStale, LoadFresh, LoadReminder, LoadLegacy,
         EditCard, EditFails, EditFindsNoCard, CreateCard, CreateFails, PinCard, PinFails,
         Commit, EndRun, LoseRunner, telegram
<1>2. run.pc = "send" /\ \E k : k = FirstDue(run.due) /\ k # "legacy" /\ m = Message(run, k)
  BY <1>1 DEF Send, SendFails, Deliver, Post
<1>3. m = Message(run, "notice") /\ "notice" \in run.due
  BY <1>2 DEF Message, FirstDue
<1>4. run.kind = "receive"
  BY <1>3
<1>5. m.changes = NoticeChanges(run)
  BY <1>3 DEF Message
<1>6. NoticeChanges(run) \subseteq Changes(run.loaded.prev, run.env, DayOf(run.at))
  BY DEF NoticeChanges, RunChanges, Urgent
<1> QED BY <1>2, <1>4, <1>5, <1>6 DEF Basis, RunBasis, Serving

\* Only a receiver owes a notice.
LEMMA NoticesOfReceivers ==
  ASSUME TypeOK, Next, "notice" \in run.due => run.kind = "receive"
  PROVE  "notice" \in run'.due => run'.kind = "receive"
<1>0. run \in RunType
  BY DEF TypeOK
<1>1. CASE WorldStep
  BY <1>1 DEF WorldStep, Tick, EditSite, DeleteCard, EvictCache, BeginFetch, ReadSource, HandOff,
              AbandonFetch, RequestOther
<1>2. CASE GroupStep
  <2>1. ASSUME NEW s \in Senders, StartRun(s) PROVE run'.due = {}
    BY <2>1 DEF StartRun, NoRun
  <2>2. CASE EndRun \/ LoseRunner
    BY <2>2 DEF EndRun, LoseRunner, NoRun
  <2>3. CASE RejectRun \/ LoadStale
    BY <1>0, <2>3 DEF RejectRun, LoadStale, Loaded, RunType
  <2>4. CASE LoadFresh
    BY <1>0, <2>4, LoadedType DEF LoadFresh, RunType
  <2>5. CASE LoadReminder
    <3>1. run'.due = Loaded.due \/ run'.due = RemindSends(Loaded)
      BY LoadedType, <2>5 DEF LoadReminder, RunType
    <3>2. run'.kind = run.kind /\ Loaded.due = run.due
      BY <1>0, LoadedType, <2>5 DEF LoadReminder, RunType, Loaded
    <3> QED BY <3>1, <3>2 DEF RemindSends
  <2>6. CASE LoadLegacy
    BY <1>0, <2>6 DEF LoadLegacy, RunType
  <2> QED BY <1>2, <2>1, <2>2, <2>3, <2>4, <2>5, <2>6 DEF GroupStep
<1>3. CASE PublishStep
  <2>1. \/ FailRun \/ KeepCard(run.card)
        \/ \E pc \in {"create", "done", "failed"} : run' = [run EXCEPT !.pc = pc]
        \/ \E id : run' = [run EXCEPT !.card = id, !.pc = "pin"]
        \/ \E k : run' = [run EXCEPT !.due = run.due \ {k}]
    BY <1>3 DEF PublishStep, EditCard, EditFails, EditFindsNoCard, CreateCard, CreateFails,
                PinCard, PinFails, Send, SendFails, Commit, AfterCalendar
  <2> QED BY <1>0, <2>1 DEF FailRun, KeepCard, RunType
<1> QED BY <1>1, <1>2, <1>3, Steps

LEMMA KeepHistory == ASSUME Forwards, Basis, TypeOK', History, Next PROVE History'
<1>0. TypeOK /\ Envelopes \subseteq Envelope /\ now \in Nat
  BY EnvelopesType DEF Basis, TypeOK, Times
<1>1. PICK S : S = Envelopes'
  OBVIOUS
<1>2. CASE \E f \in Fetchers, force \in BOOLEAN : BeginFetch(f, force)
  <2>1. PICK f \in Fetchers, force \in BOOLEAN : BeginFetch(f, force)
    BY <1>2
  <2>2. PICK env : env = [stamp |-> now, force |-> force, lessons |-> Fetched(now)]
    OBVIOUS
  <2>3. /\ fetch' = [fetch EXCEPT ![f] = [phase |-> "read", env |-> env]]
        /\ UNCHANGED <<now, site, pending, run, disk, cache, posted>>
    BY <2>1, <2>2 DEF BeginFetch, telegram, Forwards
  <2>4. \A g \in Fetchers : /\ fetch'[g].env \in {fetch[g].env, env}
                            /\ fetch'[g].phase # "stamped"
    BY <1>0, <2>3 DEF TypeOK, History
  <2>5. S \subseteq Envelopes \cup {env}
    BY <1>1, <2>3, <2>4 DEF Envelopes
  <2>6. Past(env, now, site)
    <3>1. now <= now
      BY <1>0
    <3>2. \A d \in Horizon(now) : Fetched(now)[d] = site[d]
      BY DEF Fetched, Horizon
    <3> QED BY <2>2, <3>1, <3>2 DEF Past, Becomes
  <2>7. \A e \in S : Past(e, now, site)
    BY <2>5, <2>6 DEF History
  <2>8. Ordered(S)
    <3> SUFFICES ASSUME NEW e \in S, NEW g \in S, e.stamp < g.stamp,
                        NEW d \in Horizon(e.stamp) \cap Horizon(g.stamp)
                 PROVE  Becomes(e.lessons[d], g.lessons[d])
      BY DEF Ordered
    <3>1. CASE e \in Envelopes /\ g \in Envelopes
      BY <3>1 DEF History, Ordered
    <3>2. CASE g = env
      <4>1. d \in Days /\ g.lessons[d] = site[d]
        BY <2>2, <3>2 DEF Fetched, Horizon
      <4> QED BY <2>7, <4>1 DEF Past
    <3>3. CASE e = env /\ g \in Envelopes
      <4>1. g.stamp <= now /\ g.stamp \in -1 .. MaxTime /\ e.stamp = now
        BY <1>0, <2>2, <3>3 DEF History, Past, Envelope
      <4> QED BY <1>0, <4>1, TimeAssumption
    <3> QED BY <2>5, <3>1, <3>2, <3>3
  <2>9. AnnouncedChangesHappened' /\ ("notice" \in run.due => run.kind = "receive")'
    BY <2>3 DEF History, AnnouncedChangesHappened, Notices
  <2> QED BY <1>1, <2>3, <2>4, <2>7, <2>8, <2>9 DEF History
<1>3. CASE ~\E f \in Fetchers, force \in BOOLEAN : BeginFetch(f, force)
  <2>1. S \subseteq Envelopes /\ \A f \in Fetchers : fetch'[f].phase # "stamped"
    BY <1>0, <1>1, <1>3, EnvelopesMove DEF History
  <2>2. \A e \in S : Past(e, now', site')
    BY <1>0, <2>1, PastStays DEF History
  <2>3. Ordered(S)
    BY <2>1 DEF History, Ordered
  <2>4. ASSUME NEW m \in posted', m.type = "notice", NEW c \in m.changes
        PROVE  <<c.old, c.new>> \in SiteChanges
    <3>1. CASE m \in posted
      BY <2>4, <3>1 DEF History, AnnouncedChangesHappened, Notices
    <3>2. CASE m \notin posted
      <4>1. /\ c \in Changes(run.loaded.prev, run.env, DayOf(run.at))
            /\ run.env.stamp > run.loaded.prev.stamp
        BY <2>4, <3>2, PostsAreCompared DEF History
      <4>2. run.loaded.prev # NoEnvelope
        BY <4>1 DEF Changes
      <4>3. PICK d \in Horizon(run.loaded.prev.stamp) \cap Horizon(run.env.stamp) :
              /\ run.loaded.prev.lessons[d] # run.env.lessons[d]
              /\ c.old = run.loaded.prev.lessons[d] /\ c.new = run.env.lessons[d]
        BY <4>1, <4>2 DEF Changes
      <4>4. run.loaded.prev.stamp \in -1 .. MaxTime /\ run.env.stamp \in -1 .. MaxTime
        BY <1>0 DEF TypeOK, RunType, DeliveryState, Envelope
      <4>5. run.env # NoEnvelope /\ run.loaded.prev.stamp < run.env.stamp
        BY <4>1, <4>4, TimeAssumption DEF NoEnvelope
      <4>6. run.env \in Envelopes /\ run.loaded.prev \in Envelopes
        BY <4>2, <4>5 DEF Envelopes
      <4>7. Becomes(c.old, c.new)
        BY <4>3, <4>5, <4>6 DEF History, Ordered
      <4> QED BY <4>3, <4>7 DEF Becomes
    <3> QED BY <3>1, <3>2
  <2>5. AnnouncedChangesHappened'
    BY <2>4 DEF AnnouncedChangesHappened, Notices
  <2>6. ("notice" \in run.due => run.kind = "receive")'
    BY <1>0, NoticesOfReceivers DEF History
  <2> QED BY <1>1, <2>1, <2>2, <2>3, <2>5, <2>6 DEF History
<1> QED BY <1>2, <1>3

\* While GitVerse reads the pages at the time it stamps, every change the topic is told of is one
\* the source made, never its reverse, in whatever order the runs overtake each other, fail or are
\* evicted. (publisher.py "Never emit reverse/duplicate changes", overlapping_changes)
THEOREM ToldChangesHappened == ASSUME Forwards PROVE Spec => []AnnouncedChangesHappened
<1>1. Basis /\ Basis' /\ History /\ [Next]_vars => History'
  <2>1. ASSUME History, UNCHANGED vars PROVE History'
    BY <2>1 DEF vars, History, Envelopes, AnnouncedChangesHappened, Notices
  <2>2. Basis' => TypeOK'
    BY DEF Basis
  <2> QED BY <2>1, <2>2, KeepHistory
<1>2. History => AnnouncedChangesHappened
  BY DEF History
<1> QED BY <1>1, <1>2, InitHistory, BasisInvariant, PTL DEF Spec

====
