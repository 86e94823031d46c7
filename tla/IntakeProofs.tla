---- MODULE IntakeProofs ----
(***************************************************************************)
(* Proofs about the intake of updates and the tables its handlers write,   *)
(* in the process of Attendance: for any members, any number of updates,   *)
(* any limit of a poll, any number of attempts and any failures and        *)
(* restarts.  IntakeInv is about the inbox and the offset; TablesInv adds  *)
(* what the updates say, what of it the roster shows, and the order in     *)
(* which reactions reach the marks as long as none is put back; WorkInv    *)
(* what jobs, outbox and Telegram hold; SummaryInv what a summary on its   *)
(* way tells of the marks.                                                 *)
(***************************************************************************)
EXTENDS Attendance, OutboxProofs, PumpProofs

----------------------------------------------------------------------------
(***************************************************************************)
(* The steps of the process                                                *)
(***************************************************************************)
\* Of the intake, a step of the process is a step of the pump, of a handler, or none.
LEMMA StepsOfIntake ==
  ASSUME [Next]_vars
  PROVE  \/ Fetch \/ Admit \/ Begin
         \/ RecordProcessed \/ RecordFailure \/ \E u \in Updates : WaitOver(u)
         \/ \E from \in {"read", "marked"}, to \in {"marked", "handled"} : Handle(from, to)
         \/ Restart \/ Publish
         \/ UNCHANGED <<published, forgotten, poller, inbox, worker>>
<1> USE DEF pumpVars, Suffer
<1>1. CASE Tick \/ OpenAttendance \/ EnqueueText \/ TextConflicts \/ CloseDue
  BY <1>1 DEF Tick, OpenAttendance, EnqueueText, TextConflicts, CloseDue
<1>2. CASE \E p \in Users : \/ \E m \in 1..MaxMessages : React(p, m)
                            \/ \E status \in Statuses : Move(p, status)
                            \/ Write(p)
  BY <1>2 DEF React, Move, Write, Report, Publish
<1>3. CASE Pump \/ Crash \/ HandlerRaises
  BY <1>3 DEF Pump, Crash, HandlerRaises
<1>4. CASE MarkOrUnmark \/ IgnoreReaction \/ EnqueueSummary \/ ApplyChatMember \/ ObserveSender
  BY <1>4 DEF MarkOrUnmark, IgnoreReaction, EnqueueSummary, ApplyChatMember, ObserveSender
<1>5. CASE \E b \in 0..LastTime : ReadSummary(b)
  BY <1>5 DEF ReadSummary
<1>6. CASE \E w \in Senders :
             \/ \E k \in Keys : ClaimRow(w, k)
             \/ SweepRows(w) \/ SkipRow(w) \/ Send(w) \/ SendUnanswered(w) \/ SendRefused(w) \/ Record(w) \/ EndRow(w)
  BY <1>6 DEF ClaimRow, SweepRows, SkipRow, Send, SendUnanswered, SendRefused, Record, EndRow
<1>7. CASE \E k \in Keys : Due(k)
  BY <1>7 DEF Due
<1>8. CASE UNCHANGED vars
  BY <1>8 DEF vars
<1> QED BY <1>1, <1>2, <1>3, <1>4, <1>5, <1>6, <1>7, <1>8 DEF Next

\* The phases of the handlers are some of the pump's.
LEMMA HandlerPhases == {"read", "marked", "handled"} \subseteq Phases \ {"idle"}
<1> QED BY PhaseAssumption DEF Phases

LEMMA StepKeepsIntake == IntakeInv /\ [Next]_vars => IntakeInv'
<1> SUFFICES ASSUME IntakeInv, [Next]_vars PROVE IntakeInv' OBVIOUS
<1>1. CASE \E from \in {"read", "marked"}, to \in {"marked", "handled"} : Handle(from, to)
  BY <1>1, HandlerPhases, HandleKeeps
<1> QED BY <1>1, StepsOfIntake, PublishKeeps, FetchKeeps, AdmitKeeps, BeginKeeps, ProcessedKeeps,
           FailureKeeps, WaitKeeps, RestartKeeps, PumpStands

\* Whatever Telegram has dropped because a later offset was used is in the durable inbox, for
\* any number of updates, any size of a poll and any failures and restarts ("Persist polling
\* results before advancing the Telegram offset", DurableUpdatePump).
THEOREM OffsetFollowsInbox == Spec => []NothingForgotten
<1>1. IntakeInv => NothingForgotten
  BY DEF IntakeInv
<1>2. Init => IntakeInv
  BY PumpInitInv DEF Init
<1> QED BY <1>1, <1>2, StepKeepsIntake, PTL DEF Spec

----------------------------------------------------------------------------
(***************************************************************************)
(* The tables behind the pump                                              *)
(***************************************************************************)
\* The handlers' variables, as far as the roster and the marks go.
deeds == <<now, content, real, roster, marks, counted>>

PumpStep ==
  /\ \/ Fetch \/ Admit \/ Begin \/ RecordProcessed \/ RecordFailure \/ Restart
     \/ \E u \in Updates : WaitOver(u)
  /\ UNCHANGED deeds

Elsewhere ==
  /\ UNCHANGED <<published, poller, inbox, worker, content, real, roster, marks, counted>>
  /\ now' \in {now, now + 1}

\* Something that happens in the group, and the update that tells of it.
Event(p) ==
  \/ \E m \in 1..MaxMessages : React(p, m)
  \/ \E status \in Statuses : Move(p, status)
  \/ Write(p)

Contents == [kind : {"none", "reaction", "member", "message"}, user : Users \cup {NoKey},
             at : Nat, on : Nat, here : BOOLEAN, status : Statuses \cup {"none"}]

Members == [status : Statuses \cup {"none", "member"}, checkedAt : Nat]

Mark == [marked : BOOLEAN, markedAt : Nat]

\* Updates are dated in the order of their ids and tell of someone in the group; what is in
\* the inbox has been published, and only reactions have a second transaction.
Chronicle ==
  /\ now \in Nat /\ published <= LastUpdate
  /\ content \in [{NoUpdate} \cup Updates -> Contents]
  /\ \A u \in 1..published :
       /\ content[u].at <= now /\ content[u].user \in Users
       /\ content[u].kind = "member" => content[u].status \in Statuses
  /\ \A u, v \in 1..published : u <= v => content[u].at <= content[v].at
  /\ \A u \in Updates : OnRecord(u) \/ u \in poller.batch => u <= published
  /\ worker.phase = "marked" => content[worker.at].kind = "reaction"

\* What the handler of an update does to the roster has been done.
Applied(u) == inbox[u].status = "processed" \/ (worker.at = u /\ worker.phase = "handled")

\* The group is as the last update about a member says, or as it was at first; who writes is
\* in it until an update says otherwise.
Real(p) ==
  /\ real[p].status \in Statuses \cup {"member"}
  /\ Told(p) = {} => real[p].status \in Active
  /\ \A u \in 1..published :
       (\A v \in Told(p) : v <= u) /\ content[u].user = p =>
         /\ content[u].kind = "member" => real[p].status = content[u].status
         /\ content[u].kind = "message" => real[p].status \in Active

\* A row of the roster says what some update said, or what a message shows.
Shows(u, p) ==
  /\ content[u].user = p /\ content[u].at = roster[p].checkedAt
  /\ \/ content[u].kind = "member" /\ roster[p].status = content[u].status
     \/ content[u].kind = "message" /\ roster[p].status \in Active

Grounded(p) ==
  \/ roster[p] = NoMember
  \/ roster[p].status # "none" /\ (\E u \in 1..published : Shows(u, p))

\* A row is as late as every update applied to it, and says what an update of its date said.
Recorded(p) ==
  \A u \in Told(p) : Applied(u) =>
    /\ roster[p].status # "none" /\ content[u].at <= roster[p].checkedAt
    /\ content[u].at = roster[p].checkedAt => roster[p].status = content[u].status

Spaced(p) == \A u, v \in Told(p) : content[u].at = content[v].at => u = v

RosterInv ==
  /\ real \in [Users -> [status : Statuses \cup {"member"}, heart : Nat]]
  /\ roster \in [Users -> Members]
  /\ \A p \in Users : Real(p) /\ Grounded(p) /\ (Spaced(p) => Recorded(p))

Unprocessed == {u \in Updates : inbox[u].status # "processed"}

NoRetries == \A u \in Updates : inbox[u].attempts = 0

\* Without a failure the updates are dispatched in their order: the worker has the least in
\* hand of those that are not closed, and the next ones in its list.
InOrder ==
  /\ \A u \in Updates : inbox[u].status # "failed" /\ (inbox[u].status = "open" => inbox[u].due)
  /\ \A u \in Updates : \A v \in Unprocessed : u \notin Unprocessed => u < v
  /\ worker.phase = "idle" => worker.at = NoUpdate
  /\ worker.phase # "idle" => /\ worker.at \in Unprocessed \ worker.list
                              /\ \A v \in Unprocessed : worker.at <= v
  /\ \A u \in worker.list : u \in Unprocessed
  /\ \A u \in worker.list, v \in Unprocessed : v \notin worker.list /\ v # worker.at => u < v

Own(p) == {u \in counted : content[u].user = p /\ OpensAt <= content[u].at /\ content[u].at < ClosesAt}

CountedInOrder ==
  /\ counted \subseteq Updates
  /\ \A u \in counted : OnRecord(u) /\ \A v \in Unprocessed : u <= v

\* A row that is not there has not been tried.
FreshRows == \A u \in Updates : ~OnRecord(u) => inbox[u].attempts = 0

\* A member is marked as the last of the reactions that count says.
LastCounts == \A p \in Users : p \in Marked <=> Own(p) # {} /\ content[Max(Own(p))].here

MarksInv ==
  /\ marks \in [Users -> Mark]
  /\ FreshRows
  /\ NoRetries => InOrder /\ CountedInOrder /\ LastCounts

TablesInv == IntakeInv /\ Chronicle /\ RosterInv /\ MarksInv

\* Of the tables, a step of the process is one of the pump or of a handler, or an update that
\* is published; or it leaves them alone.
LEMMA StepsOfHandlers ==
  ASSUME [Next]_vars
  PROVE  \/ PumpStep \/ Elsewhere \/ \E p \in Users : Event(p)
         \/ MarkOrUnmark \/ IgnoreReaction \/ EnqueueSummary \/ ApplyChatMember \/ ObserveSender
<1> USE DEF pumpVars, attendanceVars, worldVars, historyVars, deeds, Suffer
<1>1. CASE Tick \/ OpenAttendance \/ EnqueueText \/ TextConflicts \/ CloseDue
  BY <1>1 DEF Tick, OpenAttendance, EnqueueText, TextConflicts, CloseDue, Elsewhere
<1>2. CASE Pump \/ Crash \/ HandlerRaises
  BY <1>2 DEF Pump, Crash, HandlerRaises, PumpStep
<1>3. CASE \E b \in 0..LastTime : ReadSummary(b)
  BY <1>3 DEF ReadSummary, Elsewhere
<1>4. CASE \E w \in Senders :
             \/ \E k \in Keys : ClaimRow(w, k)
             \/ SweepRows(w) \/ SkipRow(w) \/ Send(w) \/ SendUnanswered(w) \/ SendRefused(w) \/ Record(w) \/ EndRow(w)
  BY <1>4 DEF ClaimRow, SweepRows, SkipRow, Send, SendUnanswered, SendRefused, Record, EndRow, Elsewhere
<1>5. CASE \E k \in Keys : Due(k)
  BY <1>5 DEF Due, Elsewhere
<1>6. CASE UNCHANGED vars
  BY <1>6 DEF vars, Elsewhere
<1> QED BY <1>1, <1>2, <1>3, <1>4, <1>5, <1>6 DEF Next, Event

\* A handler at work on an update: it is in the inbox, and so it has been published.
LEMMA AtWork ==
  ASSUME IntakeInv, Chronicle, worker.phase # "idle"
  PROVE  /\ worker.at \in Updates /\ worker.at \in 1..published
         /\ Update = content[worker.at] /\ Update \in Contents
         /\ Update.user \in Users
<1>1. worker.at \in Updates /\ OnRecord(worker.at)
  BY InHand
<1>2. worker.at \in 1..published
  BY <1>1 DEF Chronicle, Updates, IntakeInv, IntakeTypeOK
<1> QED BY <1>1, <1>2 DEF Chronicle, Update

\* An update is published behind all others, and is not in the inbox yet.
LEMMA Publication ==
  ASSUME IntakeInv, Chronicle, NEW update, Report(update)
  PROVE  /\ published' = published + 1 /\ published + 1 \in Updates
         /\ published \in Nat /\ 1..published \subseteq Updates
         /\ \A u \in 1..published' : u = published' \/ u \in 1..published
         /\ content'[published'] = update
         /\ \A u \in {NoUpdate} \cup Updates : u # published' => content'[u] = content[u]
         /\ content' = [content EXCEPT ![published'] = update]
         /\ \A u \in 1..published : content'[u] = content[u]
         /\ ~OnRecord(published + 1)
         /\ UNCHANGED <<forgotten, poller, inbox, worker, roster, marks, counted, now>>
<1> USE PumpAssumption DEF IntakeInv, IntakeTypeOK
<1>1. /\ published' = published + 1 /\ published < LastUpdate
      /\ content' = [content EXCEPT ![published + 1] = update]
      /\ UNCHANGED <<forgotten, poller, inbox, worker, roster, marks, counted, now>>
  BY DEF Report, Publish, attendanceVars, historyVars
<1>2. published \in Nat /\ published + 1 \in Updates /\ 1..published \subseteq Updates
  BY <1>1 DEF Updates
<1>3. content \in [{NoUpdate} \cup Updates -> Contents]
  BY DEF Chronicle
<1>4. ~OnRecord(published + 1)
  BY <1>2 DEF Chronicle
<1>5. \A u \in 1..published' : u = published' \/ u \in 1..published
  BY <1>1, <1>2
<1>6. \A u \in {NoUpdate} \cup Updates : u # published' => content'[u] = content[u]
  BY <1>1, <1>2, <1>3
<1>7. content'[published'] = update
  BY <1>1, <1>2, <1>3
<1>8. \A u \in 1..published : content'[u] = content[u]
  BY <1>1, <1>2, <1>6
<1> QED BY <1>1, <1>2, <1>4, <1>5, <1>6, <1>7, <1>8

\* What a step of the pump does to the tables its handlers know.
LEMMA PumpDoes ==
  ASSUME IntakeInv, Chronicle, PumpStep
  PROVE  /\ published' = published /\ UNCHANGED deeds
         /\ \A u \in Updates : OnRecord(u)' \/ u \in poller'.batch => u <= published
         /\ worker' = worker \/ worker'.phase \in {"idle", "read"}
         /\ \A u \in Updates : Applied(u)' => Applied(u)
<1> USE PumpAssumption DEF IntakeInv, IntakeTypeOK
<1>0. published' = published /\ UNCHANGED deeds
  BY DEF PumpStep, Fetch, Admit, Begin, RecordProcessed, RecordFailure, Restart, WaitOver
<1>1. CASE Fetch
  BY <1>1 DEF PumpStep, Fetch, Batch, Chronicle, OnRecord, Applied
<1>2. CASE Admit
  <2>1. /\ worker' = worker /\ poller'.batch = {}
        /\ \A u \in Updates : inbox'[u] = inbox[u] \/ (u \in poller.batch /\ inbox'[u].status = "open")
    BY <1>2 DEF Admit
  <2> QED BY <1>0, <2>1 DEF Chronicle, OnRecord, Applied
<1>3. CASE Begin
  <2>1. UNCHANGED <<poller, inbox>> /\ worker'.phase = "read"
    BY <1>3 DEF Begin
  <2> QED BY <1>0, <2>1 DEF Chronicle, OnRecord, Applied
<1>4. CASE RecordProcessed
  <2>1. worker.at \in Updates /\ OnRecord(worker.at) /\ worker.phase = "handled"
    BY <1>4, InHand DEF RecordProcessed
  <2>2. /\ poller' = poller /\ worker'.phase = "idle"
        /\ \A u \in Updates : u # worker.at => inbox'[u] = inbox[u]
    BY <1>4, <2>1 DEF RecordProcessed, LetGo
  <2> QED BY <1>0, <2>1, <2>2 DEF Chronicle, OnRecord, Applied
<1>5. CASE RecordFailure
  <2>1. worker.at \in Updates /\ OnRecord(worker.at)
    BY <1>5, InHand, PumpAssumption DEF RecordFailure
  <2> DEFINE row == [status |-> IF inbox[worker.at].attempts + 1 >= MaxTries THEN "failed" ELSE "open",
                     attempts |-> inbox[worker.at].attempts + 1, due |-> FALSE]
  <2>2. inbox' = [inbox EXCEPT ![worker.at] = row] /\ row.status \in {"open", "failed"}
    BY <1>5 DEF RecordFailure
  <2> HIDE DEF row
  <2>3. /\ poller' = poller /\ worker'.phase = "idle"
        /\ \A u \in Updates : u # worker.at => inbox'[u] = inbox[u]
        /\ inbox'[worker.at] = row
    BY <1>5, <2>1, <2>2 DEF RecordFailure, LetGo
  <2> QED BY <1>0, <2>1, <2>2, <2>3 DEF Chronicle, OnRecord, Applied
<1>6. CASE Restart
  <2>1. worker'.phase = "idle" /\ poller'.batch = {} /\ inbox' = inbox
    BY <1>6 DEF Restart, Resting
  <2> QED BY <1>0, <2>1 DEF Chronicle, OnRecord, Applied
<1>7. ASSUME NEW u \in Updates, WaitOver(u)
      PROVE  /\ \A v \in Updates : OnRecord(v)' \/ v \in poller'.batch => v <= published
             /\ worker' = worker
             /\ \A v \in Updates : Applied(v)' => Applied(v)
  <2>1. UNCHANGED <<poller, worker>> /\ \A v \in Updates : inbox'[v].status = inbox[v].status
    BY <1>7 DEF WaitOver
  <2> QED BY <1>0, <2>1 DEF Chronicle, OnRecord, Applied
<1> QED BY <1>0, <1>1, <1>2, <1>3, <1>4, <1>5, <1>6, <1>7 DEF PumpStep

\* A transaction of a handler changes nothing of the pump but its phase.
LEMMA HandleDoes ==
  ASSUME IntakeInv, NEW from \in {"read", "marked"}, NEW to \in {"marked", "handled"}, Handle(from, to)
  PROVE  /\ worker.phase = from /\ worker'.phase = to
         /\ worker'.list = worker.list /\ worker'.at = worker.at
         /\ UNCHANGED <<published, forgotten, poller, inbox>>
BY DEF Handle, IntakeInv, IntakeTypeOK, Phases

----------------------------------------------------------------------------
\* An event and what it publishes.
LEMMA Events ==
  ASSUME IntakeInv, Chronicle, NEW p \in Users, Event(p)
  PROVE  \E update \in Contents :
           /\ Report(update)
           /\ update.user = p /\ update.at = now
           /\ update.kind \in {"reaction", "member", "message"}
           /\ update.kind = "member" => update.status \in Statuses
<1> DEFINE Goal == \E update \in Contents :
                     /\ Report(update)
                     /\ update.user = p /\ update.at = now
                     /\ update.kind \in {"reaction", "member", "message"}
                     /\ update.kind = "member" => update.status \in Statuses
<1> USE DEF Contents
<1>1. NoContent \in Contents
  BY DEF NoContent
<1>2. now \in Nat
  BY DEF Chronicle
<1>3. ASSUME NEW m \in 1..MaxMessages, React(p, m) PROVE Goal
  <2>0. PICK here \in BOOLEAN : here = (real[p].heart = 0)
    OBVIOUS
  <2>4. m \in Nat
    OBVIOUS
  <2> DEFINE but == [NoContent EXCEPT !.kind = "reaction", !.user = p, !.at = now, !.on = m]
  <2>1. but \in Contents /\ but.kind = "reaction" /\ but.user = p /\ but.at = now
    BY <1>2, <2>4 DEF NoContent
  <2>2. Report([but EXCEPT !.here = here])
    <3>1. Report([NoContent EXCEPT !.kind = "reaction", !.user = p, !.at = now, !.on = m, !.here = here])
      BY <1>3, <2>0 DEF React
    <3> QED BY <3>1
  <2> HIDE DEF but
  <2>3. /\ [but EXCEPT !.here = here] \in Contents
        /\ [but EXCEPT !.here = here].kind = but.kind
        /\ [but EXCEPT !.here = here].user = but.user
        /\ [but EXCEPT !.here = here].at = but.at
    BY <2>1
  <2> QED BY <2>1, <2>2, <2>3
<1>4. ASSUME NEW status \in Statuses, Move(p, status) PROVE Goal
  <2> DEFINE update == [NoContent EXCEPT !.kind = "member", !.user = p, !.at = now, !.status = status]
  <2>1. Report(update)
    BY <1>4 DEF Move
  <2>2. update \in Contents /\ update.user = p /\ update.at = now /\ update.kind = "member"
        /\ update.status = status
    BY <1>2 DEF NoContent
  <2> QED BY <2>1, <2>2
<1>5. CASE Write(p)
  <2> DEFINE update == [NoContent EXCEPT !.kind = "message", !.user = p, !.at = now]
  <2>1. Report(update)
    BY <1>5 DEF Write
  <2>2. update \in Contents /\ update.user = p /\ update.at = now /\ update.kind = "message"
    BY <1>2 DEF NoContent
  <2> QED BY <2>1, <2>2
<1> QED BY <1>3, <1>4, <1>5 DEF Event

LEMMA ChronicleKeeps ==
  ASSUME IntakeInv, Chronicle, [Next]_vars PROVE Chronicle'
<1>0. published \in Nat /\ now \in Nat /\ 1..published \subseteq Updates
  BY PumpAssumption DEF IntakeInv, IntakeTypeOK, Chronicle, Updates
<1>1. CASE PumpStep
  <2>1. \/ worker'.phase # "marked"
        \/ worker' = worker
    BY <1>1, PumpDoes
  <2> QED BY <1>1, <2>1, PumpDoes DEF Chronicle, deeds
<1>2. CASE Elsewhere
  <2>1. UNCHANGED <<published, poller, inbox, worker, content>> /\ now' \in Nat /\ now <= now'
    BY <1>0, <1>2 DEF Elsewhere
  <2>2. \A u \in 1..published : content[u].at \in Nat
    BY <1>0 DEF Chronicle, Contents
  <2>3. \A u \in 1..published : content[u].at <= now'
    BY <1>0, <2>1, <2>2 DEF Chronicle
  <2> QED BY <2>1, <2>3 DEF Chronicle, OnRecord
<1>3. ASSUME NEW p \in Users, Event(p) PROVE Chronicle'
  <2>1. PICK update \in Contents :
          /\ Report(update)
          /\ update.user = p /\ update.at = now
          /\ update.kind \in {"reaction", "member", "message"}
          /\ update.kind = "member" => update.status \in Statuses
    BY <1>3, Events
  <2>2. /\ published' = published + 1 /\ published + 1 \in Updates
        /\ \A u \in 1..published' : u = published' \/ u \in 1..published
        /\ content'[published'] = update
        /\ \A u \in 1..published : content'[u] = content[u]
        /\ content' = [content EXCEPT ![published'] = update]
        /\ UNCHANGED <<poller, inbox, worker, now>>
    BY <2>1, Publication
  <2>3. published' <= LastUpdate
    BY <2>2, <1>0 DEF Updates
  <2>4. content' \in [{NoUpdate} \cup Updates -> Contents]
    BY <2>1, <2>2 DEF Chronicle
  <2>5. \A u \in 1..published' :
          /\ content'[u].at <= now' /\ content'[u].user \in Users
          /\ content'[u].kind = "member" => content'[u].status \in Statuses
    BY <1>0, <2>1, <2>2 DEF Chronicle
  <2>6. \A u, v \in 1..published' : u <= v => content'[u].at <= content'[v].at
    <3>1. SUFFICES ASSUME NEW u \in 1..published', NEW v \in 1..published', u <= v
                   PROVE  content'[u].at <= content'[v].at
      OBVIOUS
    <3>2. CASE v = published'
      BY <3>2, <2>1, <2>2, <2>5
    <3>3. CASE v # published'
      <4>1. v \in 1..published /\ u \in 1..published
        BY <3>1, <3>3, <2>2, <1>0
      <4> QED BY <4>1, <3>1, <2>2 DEF Chronicle
    <3> QED BY <3>2, <3>3
  <2>7. \A u \in Updates : OnRecord(u)' \/ u \in poller'.batch => u <= published'
    BY <1>0, <2>2 DEF Chronicle, OnRecord, Updates
  <2>8. worker'.phase = "marked" => content'[worker'.at].kind = "reaction"
    BY <2>2, AtWork DEF Chronicle
  <2> QED BY <1>0, <2>2, <2>3, <2>4, <2>5, <2>6, <2>7, <2>8 DEF Chronicle
<1>4. CASE MarkOrUnmark \/ IgnoreReaction \/ EnqueueSummary \/ ApplyChatMember \/ ObserveSender
  <2>1. \E from \in {"read", "marked"}, to \in {"marked", "handled"} :
          Handle(from, to) /\ (to = "marked" => Update.kind = "reaction")
    BY <1>4 DEF MarkOrUnmark, IgnoreReaction, EnqueueSummary, ApplyChatMember, ObserveSender
  <2>2. UNCHANGED <<now, content>>
    BY <1>4 DEF MarkOrUnmark, IgnoreReaction, EnqueueSummary, ApplyChatMember, ObserveSender, worldVars
  <2>3. /\ UNCHANGED <<published, poller, inbox>> /\ worker'.at = worker.at
        /\ worker'.phase = "marked" => Update.kind = "reaction"
    BY <2>1, HandleDoes
  <2> QED BY <2>2, <2>3 DEF Chronicle, OnRecord, Update
<1> QED BY <1>1, <1>2, <1>3, <1>4, StepsOfHandlers

----------------------------------------------------------------------------
(***************************************************************************)
(* The roster                                                              *)
(***************************************************************************)
\* The updates about a member are some of those that are published.
LEMMA ToldPublished ==
  ASSUME IntakeInv, Chronicle, NEW p \in Users
  PROVE  /\ published \in Nat /\ 1..published \subseteq Updates
         /\ Told(p) \subseteq 1..published
         /\ \A u \in Told(p) : content[u].kind = "member" /\ content[u].user = p
         /\ \A u \in 1..published : content[u] \in Contents /\ content[u].at \in Nat
<1>1. published \in Nat /\ 1..published \subseteq Updates
  BY PumpAssumption DEF IntakeInv, IntakeTypeOK, Chronicle, Updates
<1>2. \A u \in 1..published : content[u] \in Contents
  BY <1>1 DEF Chronicle
<1>3. \A c \in Contents : c.at \in Nat
  BY DEF Contents
<1> QED BY <1>1, <1>2, <1>3 DEF Told

\* What is said of a member is not disturbed by a step that leaves the tables and the group
\* alone and applies no update about them.
LEMMA RosterStands ==
  ASSUME IntakeInv, Chronicle, RosterInv, UNCHANGED <<published, content, real, roster>>,
         \A p \in Users : \A u \in Told(p) : Applied(u)' => Applied(u)
  PROVE  RosterInv'
<1>1. \A p \in Users : Told(p)' = Told(p) /\ Real(p)' = Real(p) /\ Grounded(p)' = Grounded(p)
                       /\ Spaced(p)' = Spaced(p)
  BY DEF Told, Real, Grounded, Shows, Spaced
<1>2. ASSUME NEW p \in Users, Recorded(p) PROVE Recorded(p)'
  BY <1>1, <1>2 DEF Recorded
<1> QED BY <1>1, <1>2 DEF RosterInv

\* Nobody has heard yet of what is published now.
LEMMA RosterEvent ==
  ASSUME IntakeInv, Chronicle, RosterInv, NEW p \in Users, Event(p) PROVE RosterInv'
<1>1. PICK update \in Contents :
        /\ Report(update)
        /\ update.user = p /\ update.at = now
        /\ update.kind \in {"reaction", "member", "message"}
        /\ update.kind = "member" => update.status \in Statuses
  BY Events
<1>2. /\ published' = published + 1 /\ published + 1 \in Updates /\ published \in Nat
      /\ \A u \in 1..published' : u = published' \/ u \in 1..published
      /\ content'[published'] = update
      /\ \A u \in 1..published : content'[u] = content[u]
      /\ ~OnRecord(published + 1)
      /\ UNCHANGED <<inbox, worker, roster>>
  BY <1>1, Publication
<1>3. /\ real' \in [Users -> [status : Statuses \cup {"member"}, heart : Nat]]
      /\ \A q \in Users : q # p => real'[q] = real[q]
      /\ real'[p].status \in Statuses \cup {"member"}
      /\ update.kind # "member" => real'[p].status = real[p].status /\ real[p].status \in Active
      /\ update.kind = "member" => real'[p].status = update.status
  <2>0. real \in [Users -> [status : Statuses \cup {"member"}, heart : Nat]] /\ published' \in Updates
    BY <1>2 DEF RosterInv
  <2>1. ASSUME NEW m \in 1..MaxMessages, React(p, m) PROVE <1>3
    <3>1. real' = [real EXCEPT ![p].heart = m - @] /\ real[p].status \in Active /\ real[p].heart \in {0, m}
      BY <2>1 DEF React
    <3>2. m \in Nat /\ m - real[p].heart \in Nat
      BY <2>0, <3>1
    <3>3. update.kind = "reaction"
      <4>1. content'[published + 1].kind = "reaction"
        <5>1. PICK here : content' = [content EXCEPT ![published + 1] =
                 [NoContent EXCEPT !.kind = "reaction", !.user = p, !.at = now, !.on = m, !.here = here]]
          BY <2>1 DEF React, Report
        <5> QED BY <1>2, <5>1 DEF NoContent, Chronicle
      <4> QED BY <4>1, <1>2
    <3> QED BY <2>0, <3>1, <3>2, <3>3
  <2>2. ASSUME NEW status \in Statuses, Move(p, status) PROVE <1>3
    <3>1. real' = [real EXCEPT ![p].status = status]
      BY <2>2 DEF Move
    <3>2. update.kind = "member" /\ update.status = status
      <4>1. content' = [content EXCEPT ![published + 1] =
              [NoContent EXCEPT !.kind = "member", !.user = p, !.at = now, !.status = status]]
        BY <2>2 DEF Move, Report
      <4> QED BY <1>2, <4>1 DEF NoContent, Chronicle
    <3> QED BY <2>0, <3>1, <3>2
  <2>3. CASE Write(p)
    <3>1. real' = real /\ real[p].status \in Active
      BY <2>3 DEF Write
    <3>2. update.kind = "message"
      <4>1. content' = [content EXCEPT ![published + 1] =
              [NoContent EXCEPT !.kind = "message", !.user = p, !.at = now]]
        BY <2>3 DEF Write, Report
      <4> QED BY <1>2, <4>1 DEF NoContent, Chronicle
    <3> QED BY <2>0, <3>1, <3>2
  <2> QED BY <2>1, <2>2, <2>3 DEF Event
<1>4. \A q \in Users : Told(q)' = IF q = p /\ update.kind = "member" THEN Told(q) \cup {published'} ELSE Told(q)
  <2>1. \A u \in 1..published : u \in 1..published' /\ u # published'
    BY <1>2
  <2>2. published' \in 1..published'
    BY <1>2
  <2> QED BY <1>1, <1>2, <2>1, <2>2 DEF Told
<1>5. ASSUME NEW q \in Users PROVE Real(q)'
  <2>1. CASE q # p
    <3>1. real'[q] = real[q] /\ Told(q)' = Told(q)
      BY <1>3, <1>4, <2>1
    <3>2. content'[published'].user # q
      BY <1>1, <1>2, <2>1
    <3>3. Real(q) /\ real'[q].status \in Statuses \cup {"member"}
      BY <3>1 DEF Real, RosterInv
    <3>4. \A u \in 1..published' : content'[u].user = q => u \in 1..published /\ content'[u] = content[u]
      BY <1>2, <3>2
    <3> QED BY <3>1, <3>3, <3>4 DEF Real
  <2>2. CASE q = p /\ update.kind = "member"
    <3>1. Told(p)' = Told(p) \cup {published'} /\ real'[p].status = update.status
      BY <1>3, <1>4, <2>2
    <3>2. \A u \in 1..published' : (\A v \in Told(p)' : v <= u) => u = published'
      <4>1. \A u \in 1..published' : published' <= u => u = published'
        BY <1>2
      <4> QED BY <3>1, <4>1
    <3> QED BY <1>2, <1>3, <2>2, <3>1, <3>2 DEF Real
  <2>3. CASE q = p /\ update.kind # "member"
    <3>1. Told(p)' = Told(p) /\ real'[p].status = real[p].status /\ real[p].status \in Active
      BY <1>3, <1>4, <2>3
    <3> QED BY <1>2, <2>3, <3>1 DEF Real, RosterInv
  <2> QED BY <2>1, <2>2, <2>3
<1>6. ASSUME NEW q \in Users PROVE Grounded(q)'
  <2>1. ASSUME NEW u \in 1..published, Shows(u, q) PROVE Shows(u, q)' /\ u \in 1..published'
    BY <1>2, <2>1 DEF Shows
  <2> QED BY <1>2, <2>1 DEF Grounded, RosterInv
<1>7. ASSUME NEW q \in Users, Spaced(q)' PROVE Recorded(q)'
  <2>1. Told(q) \subseteq Told(q)' /\ \A u \in Told(q) : content'[u] = content[u]
    BY <1>2, <1>4, ToldPublished
  <2>2. Spaced(q)
    BY <1>7, <2>1 DEF Spaced
  <2>3. Recorded(q)
    BY <2>2 DEF RosterInv
  <2>4. \A u \in Updates : Applied(u)' <=> Applied(u)
    BY <1>2 DEF Applied
  <2>5. ~Applied(published + 1)
    <3>1. inbox[published + 1].status = "absent"
      BY <1>2 DEF OnRecord
    <3>2. worker.phase = "handled" => worker.at # published + 1
      BY <1>2, AtWork
    <3> QED BY <3>1, <3>2 DEF Applied
  <2>6. \A u \in Told(q)' : Applied(u)' => u \in Told(q) /\ Applied(u)
    BY <1>2, <1>4, <2>4, <2>5, ToldPublished
  <2> QED BY <1>2, <2>1, <2>3, <2>6 DEF Recorded
<1> QED BY <1>2, <1>3, <1>5, <1>6, <1>7 DEF RosterInv

\* A row that is written keeps what it showed of the others.
LEMMA Rewritten ==
  ASSUME IntakeInv, Chronicle, RosterInv, worker.phase = "read", worker'.at = worker.at,
         UNCHANGED <<published, inbox, content, real>>,
         NEW row \in Members, row.status # "none", roster' = [roster EXCEPT ![Update.user] = row],
         row.checkedAt = Update.at,
         \/ Update.kind = "member" /\ row.status = Update.status
         \/ Update.kind = "message" /\ row.status \in Active,
         roster[Update.user].status # "none" => roster[Update.user].checkedAt <= Update.at,
         Update.kind = "message" /\ roster[Update.user].status # "none" =>
           roster[Update.user].checkedAt < Update.at
  PROVE  RosterInv'
<1>0. PICK p \in Users : p = Update.user
  BY AtWork
<1>1. p = Update.user /\ worker.at \in 1..published /\ Update = content[worker.at] /\ Update.at \in Nat
  BY <1>0, AtWork, ToldPublished
<1>2. /\ roster' \in [Users -> Members]
      /\ roster'[p] = row
      /\ \A q \in Users : q # p => roster'[q] = roster[q]
  BY <1>1 DEF RosterInv
<1>3. \A q \in Users : Told(q)' = Told(q) /\ Real(q)' = Real(q) /\ Spaced(q)' = Spaced(q)
  BY DEF Told, Real, Spaced
<1>4. Shows(worker.at, p)' /\ roster'[p].status # "none" /\ worker.at \in 1..published'
  <2>1. content'[worker'.at] = Update
    BY <1>1
  <2> QED BY <1>1, <1>2, <2>1 DEF Shows
<1>5. ASSUME NEW q \in Users PROVE Grounded(q)'
  <2>1. CASE q = p
    BY <1>1, <1>2, <1>4, <2>1 DEF Grounded
  <2>2. CASE q # p
    <3>1. Grounded(q) /\ roster'[q] = roster[q]
      BY <1>2, <2>2 DEF RosterInv
    <3> QED BY <3>1 DEF Grounded, Shows
  <2> QED BY <2>1, <2>2
<1>6. \A u \in Updates : Applied(u)' => Applied(u) \/ u = worker.at
  BY DEF Applied
<1>7. ASSUME NEW q \in Users, Spaced(q) PROVE Recorded(q)'
  <2>1. Recorded(q) /\ Told(q) \subseteq 1..published /\ Told(q) \subseteq Updates
        /\ \A u \in Told(q) : content[u].at \in Nat /\ content[u].kind = "member" /\ content[u].user = q
    BY <1>7, ToldPublished DEF RosterInv
  <2>2. CASE q # p
    <3>1. roster'[q] = roster[q] /\ worker.at \notin Told(q)
      BY <1>1, <1>2, <2>1, <2>2
    <3> QED BY <1>3, <1>6, <2>1, <3>1 DEF Recorded
  <2>3. CASE q = p
    <3>1. SUFFICES ASSUME NEW u \in Told(p), Applied(u)'
                   PROVE  /\ content[u].at <= row.checkedAt
                          /\ content[u].at = row.checkedAt => row.status = content[u].status
      BY <1>2, <1>3, <2>3 DEF Recorded
    <3>2. CASE u = worker.at
      <4>1. content[u] = Update /\ Update.kind = "member"
        BY <1>1, <2>1, <2>3, <3>2
      <4> QED BY <1>1, <4>1
    <3>3. CASE u # worker.at
      <4>1. /\ roster[p].status # "none" /\ content[u].at <= roster[p].checkedAt
            /\ roster[p].checkedAt \in Nat
        BY <1>1, <1>6, <2>1, <2>3, <3>1, <3>3 DEF Recorded, RosterInv, Members
      <4>2. content[u].at <= Update.at /\ content[u].at \in Nat
        BY <1>1, <2>1, <2>3, <4>1
      <4>3. CASE Update.kind = "member"
        <5>1. worker.at \in Told(p)
          BY <1>1, <4>3 DEF Told
        <5>2. content[u].at # Update.at
          BY <1>1, <1>7, <2>3, <3>3, <5>1 DEF Spaced
        <5> QED BY <4>2, <5>2
      <4>4. CASE Update.kind = "message"
        <5>1. content[u].at < Update.at
          BY <1>1, <4>1, <4>2, <4>4
        <5> QED BY <1>1, <4>2, <5>1
      <4> QED BY <4>3, <4>4
    <3> QED BY <3>2, <3>3
  <2> QED BY <2>2, <2>3
<1> QED BY <1>2, <1>3, <1>5, <1>7 DEF RosterInv

\* A row that says something later already is left as it is.
LEMMA LeftAlone ==
  ASSUME IntakeInv, Chronicle, RosterInv, worker.phase = "read", worker'.at = worker.at,
         UNCHANGED <<published, inbox, content, real, roster>>,
         roster[Update.user].status # "none",
         Update.kind = "member" => Update.at < roster[Update.user].checkedAt
  PROVE  RosterInv'
<1>1. Update.user \in Users /\ worker.at \in 1..published /\ Update = content[worker.at] /\ Update.at \in Nat
  BY AtWork, ToldPublished
<1>2. \A q \in Users : Told(q)' = Told(q) /\ Real(q)' = Real(q) /\ Spaced(q)' = Spaced(q)
                       /\ Grounded(q)' = Grounded(q)
  BY DEF Told, Real, Spaced, Grounded, Shows
<1>3. \A u \in Updates : Applied(u)' => Applied(u) \/ u = worker.at
  BY DEF Applied
<1>4. ASSUME NEW q \in Users, Spaced(q) PROVE Recorded(q)'
  <2>1. Recorded(q) /\ Told(q) \subseteq Updates
        /\ \A u \in Told(q) : content[u].kind = "member" /\ content[u].user = q
    BY <1>4, ToldPublished DEF RosterInv
  <2>2. SUFFICES ASSUME NEW u \in Told(q), Applied(u)'
                 PROVE  /\ roster[q].status # "none" /\ content[u].at <= roster[q].checkedAt
                        /\ content[u].at = roster[q].checkedAt => roster[q].status = content[u].status
    BY <1>2 DEF Recorded
  <2>3. CASE u = worker.at
    <3>1. content[u] = Update /\ Update.kind = "member" /\ Update.user = q
      BY <1>1, <2>1, <2>3
    <3>2. Update.at < roster[q].checkedAt /\ roster[q].checkedAt \in Nat
      BY <1>1, <3>1 DEF RosterInv, Members
    <3> QED BY <1>1, <3>1, <3>2
  <2>4. CASE u # worker.at
    BY <1>3, <2>1, <2>2, <2>4 DEF Recorded
  <2> QED BY <2>3, <2>4
<1> QED BY <1>2, <1>4 DEF RosterInv

LEMMA ApplyChatMemberKeeps ==
  ASSUME IntakeInv, Chronicle, RosterInv, ApplyChatMember PROVE RosterInv'
<1>1. /\ worker.phase = "read" /\ worker'.at = worker.at
      /\ UNCHANGED <<published, inbox, content, real>> /\ Update.kind = "member"
  BY HandleDoes DEF ApplyChatMember, worldVars
<1>2. worker.at \in 1..published /\ Update = content[worker.at] /\ Update.user \in Users
      /\ Update.at \in Nat /\ Update.status \in Statuses
  BY <1>1, AtWork, ToldPublished DEF Chronicle
<1>3. roster[Update.user].checkedAt \in Nat
  BY <1>2 DEF RosterInv, Members
<1>4. CASE roster[Update.user].status # "none" /\ Update.at < roster[Update.user].checkedAt
  BY <1>1, <1>4, LeftAlone DEF ApplyChatMember
<1>5. CASE ~(roster[Update.user].status # "none" /\ Update.at < roster[Update.user].checkedAt)
  <2> DEFINE row == [status |-> Update.status, checkedAt |-> Update.at]
  <2>1. row \in Members /\ row.status = Update.status /\ row.checkedAt = Update.at /\ row.status # "none"
    BY <1>2, StatusAssumption DEF Members
  <2>2. roster' = [roster EXCEPT ![Update.user] = row]
    BY <1>5 DEF ApplyChatMember
  <2>3. roster[Update.user].status # "none" => roster[Update.user].checkedAt <= Update.at
    BY <1>2, <1>3, <1>5
  <2> HIDE DEF row
  <2> QED BY <1>1, <2>1, <2>2, <2>3, Rewritten
<1> QED BY <1>4, <1>5

LEMMA ObserveSenderKeeps ==
  ASSUME IntakeInv, Chronicle, RosterInv, ObserveSender PROVE RosterInv'
<1>1. /\ worker.phase = "read" /\ worker'.at = worker.at
      /\ UNCHANGED <<published, inbox, content, real>> /\ Update.kind = "message"
  BY HandleDoes DEF ObserveSender, worldVars
<1>2. Update.user \in Users /\ Update.at \in Nat
  BY <1>1, AtWork, ToldPublished
<1>3. CASE ~Newer(roster[Update.user], Update.at)
  BY <1>1, <1>3, LeftAlone DEF ObserveSender, Newer
<1>4. CASE Newer(roster[Update.user], Update.at)
  <2> DEFINE row == [status |-> IF roster[Update.user].status \in Active
                                  THEN roster[Update.user].status ELSE "member",
                     checkedAt |-> Update.at]
  <2>1. row \in Members /\ row.status \in Active /\ row.checkedAt = Update.at /\ row.status # "none"
    BY <1>2 DEF Members, Active, RosterInv
  <2>2. roster' = [roster EXCEPT ![Update.user] = row]
    BY <1>4 DEF ObserveSender
  <2>3. roster[Update.user].status # "none" => roster[Update.user].checkedAt < Update.at
    BY <1>4 DEF Newer
  <2>4. roster[Update.user].status # "none" => roster[Update.user].checkedAt <= Update.at
    BY <1>2, <2>3 DEF RosterInv, Members
  <2> HIDE DEF row
  <2> QED BY <1>1, <2>1, <2>2, <2>3, <2>4, Rewritten
<1> QED BY <1>3, <1>4

LEMMA RosterKeeps ==
  ASSUME IntakeInv, Chronicle, RosterInv, [Next]_vars PROVE RosterInv'
<1>1. CASE PumpStep
  <2>1. UNCHANGED <<published, content, real, roster>> /\ \A u \in Updates : Applied(u)' => Applied(u)
    BY <1>1, PumpDoes DEF deeds
  <2>2. \A p \in Users : Told(p) \subseteq Updates
    BY ToldPublished
  <2> QED BY <2>1, <2>2, RosterStands
<1>2. CASE Elsewhere
  BY <1>2, RosterStands DEF Elsewhere, Applied
<1>3. ASSUME NEW p \in Users, Event(p) PROVE RosterInv'
  BY <1>3, RosterEvent
<1>4. CASE MarkOrUnmark \/ IgnoreReaction \/ EnqueueSummary
  <2>1. /\ UNCHANGED <<published, inbox, content, real, roster>> /\ worker'.at = worker.at
        /\ worker.phase # "idle" /\ content[worker.at].kind = "reaction"
    BY <1>4, HandleDoes DEF MarkOrUnmark, IgnoreReaction, EnqueueSummary, worldVars, attendanceVars,
                            Update, Chronicle
  <2>2. \A p \in Users : worker.at \notin Told(p)
    BY <2>1 DEF Told
  <2>3. \A p \in Users : \A u \in Told(p) : Applied(u)' => Applied(u)
    BY <2>1, <2>2 DEF Applied
  <2> QED BY <2>1, <2>3, RosterStands
<1> QED BY <1>1, <1>2, <1>3, <1>4, ApplyChatMemberKeeps, ObserveSenderKeeps, StepsOfHandlers

\* Once everything is processed, the latest update about a member decides, or a message of
\* later.
LEMMA RosterTells ==
  ASSUME IntakeInv, Chronicle, RosterInv PROVE RosterIsTrue
<1>1. SUFFICES ASSUME \A u \in 1..published : inbox[u].status = "processed",
                      NEW p \in Users, Spaced(p), roster[p] # NoMember
               PROVE  roster[p].status \in Active <=> real[p].status \in Active
  BY DEF RosterIsTrue, Spaced
<1>2. /\ Real(p) /\ Recorded(p) /\ published \in Nat /\ Told(p) \subseteq 1..published
      /\ Told(p) \subseteq Updates /\ roster[p].checkedAt \in Nat
      /\ \A u \in 1..published : content[u].at \in Nat
      /\ \A u \in Told(p) : content[u].kind = "member" /\ content[u].user = p
  BY <1>1, ToldPublished DEF RosterInv, Members
<1>3. PICK u \in 1..published : Shows(u, p)
  BY <1>1 DEF RosterInv, Grounded
<1>4. CASE Told(p) = {}
  <2>1. content[u].kind # "member"
    BY <1>3, <1>4 DEF Told, Shows
  <2> QED BY <1>2, <1>3, <1>4, <2>1 DEF Shows, Real
<1>5. CASE Told(p) # {}
  <2>1. PICK g \in Told(p) : \A v \in Told(p) : v <= g
    BY <1>2, <1>5, GreatestUpdate
  <2>2. real[p].status = content[g].status
    BY <1>2, <2>1 DEF Real
  <2>3. content[g].at <= roster[p].checkedAt
        /\ (content[g].at = roster[p].checkedAt => roster[p].status = content[g].status)
    BY <1>1, <1>2, <2>1 DEF Recorded, Applied
  <2>4. CASE content[g].at = roster[p].checkedAt
    BY <2>2, <2>3, <2>4
  <2>5. CASE content[g].at # roster[p].checkedAt
    <3>1. content[g].at < content[u].at
      BY <1>2, <1>3, <2>1, <2>3, <2>5 DEF Shows
    <3>2. g < u
      BY <1>2, <2>1, <3>1 DEF Chronicle
    <3>3. u \notin Told(p) /\ \A v \in Told(p) : v <= u
      BY <1>2, <2>1, <3>2
    <3>4. content[u].kind = "message" /\ roster[p].status \in Active
      BY <1>3, <3>3 DEF Told, Shows
    <3>5. real[p].status \in Active
      BY <1>2, <1>3, <3>3, <3>4 DEF Real, Shows
    <3> QED BY <3>4, <3>5
  <2> QED BY <2>4, <2>5
<1> QED BY <1>4, <1>5

----------------------------------------------------------------------------
(***************************************************************************)
(* The marks                                                               *)
(***************************************************************************)
\* A failure is counted, and nothing else adds to the number of attempts of a row.
LEMMA FailureCounts ==
  ASSUME IntakeInv, FreshRows, RecordFailure
  PROVE  FreshRows' /\ ~NoRetries' /\ \A u \in Updates : OnRecord(u) => OnRecord(u)'
<1>1. worker.at \in Updates /\ OnRecord(worker.at)
  BY InHand, PumpAssumption DEF RecordFailure
<1> DEFINE row == [status |-> IF inbox[worker.at].attempts + 1 >= MaxTries THEN "failed" ELSE "open",
                   attempts |-> inbox[worker.at].attempts + 1, due |-> FALSE]
<1>2. inbox' = [inbox EXCEPT ![worker.at] = row]
  BY DEF RecordFailure
<1>3. row.attempts # 0 /\ row.status # "absent"
  BY <1>1 DEF InboxRows, IntakeInv, IntakeTypeOK
<1> HIDE DEF row
<1>4. inbox'[worker.at] = row /\ \A u \in Updates : u # worker.at => inbox'[u] = inbox[u]
  BY <1>1, <1>2 DEF IntakeInv, IntakeTypeOK
<1> QED BY <1>1, <1>3, <1>4 DEF FreshRows, NoRetries, OnRecord

LEMMA PumpTries ==
  ASSUME IntakeInv, FreshRows, PumpStep
  PROVE  FreshRows' /\ (NoRetries' => NoRetries)
<1> USE DEF IntakeInv, IntakeTypeOK
<1>1. CASE Fetch \/ Begin \/ Restart
  BY <1>1 DEF PumpStep, Fetch, Begin, Restart, FreshRows, NoRetries, OnRecord
<1>2. CASE Admit
  <2>1. \A u \in Updates : \/ inbox'[u] = inbox[u]
                           \/ ~OnRecord(u) /\ inbox'[u].attempts = 0 /\ inbox'[u].status = "open"
    BY <1>2 DEF Admit, OnRecord
  <2>2. FreshRows'
    BY <2>1 DEF FreshRows, OnRecord
  <2>3. NoRetries' => NoRetries
    BY <2>1 DEF FreshRows, NoRetries
  <2> QED BY <2>2, <2>3
<1>3. CASE RecordProcessed
  <2>1. worker.at \in Updates
    BY <1>3, InHand DEF RecordProcessed
  <2>2. \A u \in Updates : inbox'[u].attempts = inbox[u].attempts /\ (OnRecord(u) => OnRecord(u)')
    BY <1>3, <2>1 DEF RecordProcessed, OnRecord, InboxRows
  <2> QED BY <2>2 DEF FreshRows, NoRetries
<1>4. ASSUME NEW u \in Updates, WaitOver(u) PROVE FreshRows' /\ (NoRetries' => NoRetries)
  <2>1. \A v \in Updates : inbox'[v].attempts = inbox[v].attempts /\ inbox'[v].status = inbox[v].status
    BY <1>4 DEF WaitOver, InboxRows
  <2> QED BY <2>1 DEF FreshRows, NoRetries, OnRecord
<1> QED BY <1>1, <1>2, <1>3, <1>4, FailureCounts DEF PumpStep

\* The updates in order stay in order where nothing is tried again.
LEMMA PumpOrder ==
  ASSUME IntakeInv, FreshRows, InOrder, PumpStep, NoRetries'
  PROVE  InOrder' /\ Unprocessed' \subseteq Unprocessed
<1> USE DEF IntakeInv, IntakeTypeOK
<1>1. CASE Fetch
  BY <1>1 DEF Fetch, InOrder, Unprocessed
<1>2. CASE Restart
  BY <1>2 DEF Restart, Resting, InOrder, Unprocessed
<1>3. CASE Admit
  <2>1. /\ worker' = worker
        /\ \A u \in Updates : \/ inbox'[u] = inbox[u]
                              \/ inbox[u].status = "absent" /\ inbox'[u].status = "open" /\ inbox'[u].due
    BY <1>3 DEF Admit
  <2>2. Unprocessed' = Unprocessed
    BY <2>1 DEF Unprocessed
  <2> QED BY <2>1, <2>2 DEF InOrder
<1>4. CASE Begin
  <2>1. /\ inbox' = inbox /\ worker.phase = "idle" /\ worker.at = NoUpdate
        /\ worker' = [list |-> Backlog \ {Min(Backlog)}, at |-> Min(Backlog), phase |-> "read"]
    BY <1>4 DEF Begin, InOrder
  <2>2. /\ Backlog \in SUBSET Updates /\ Backlog \subseteq Unprocessed
        /\ \A u \in Backlog, v \in Unprocessed : v \notin Backlog => u < v
    <3>1. CASE worker.list = {}
      <4>1. Backlog = Ready
        BY <3>1 DEF Backlog
      <4>2. \A v \in Unprocessed : v \notin Ready => ~OnRecord(v) /\ v \in Updates
        BY DEF Unprocessed, Ready, InOrder, OnRecord, InboxRows
      <4>3. \A u \in Ready : u \in Updates /\ OnRecord(u) /\ u \in Unprocessed
        BY DEF Ready, OnRecord, Unprocessed
      <4>4. \A u \in Ready, v \in Unprocessed : v \notin Ready => u < v
        BY <4>2, <4>3 DEF NoGaps, Updates
      <4> QED BY <4>1, <4>3, <4>4
    <3>2. CASE worker.list # {}
      <4>1. Backlog = worker.list /\ NoUpdate \notin Unprocessed
        BY <3>2 DEF Backlog, Unprocessed, Updates, NoUpdate
      <4>2. worker.list \subseteq Updates
        BY DEF WorkerStates
      <4> QED BY <2>1, <4>1, <4>2 DEF InOrder
    <3> QED BY <3>1, <3>2
  <2>3. Min(Backlog) \in Backlog /\ \A u \in Backlog : Min(Backlog) <= u
    BY <1>4, <2>2, LeastUpdate DEF Begin
  <2>4. PICK least \in Backlog :
          /\ worker'.list = Backlog \ {least} /\ worker'.at = least /\ worker'.phase = "read"
          /\ \A u \in Backlog : least <= u
    BY <2>1, <2>3
  <2>5. \A v \in Unprocessed : least <= v
    <3>1. SUFFICES ASSUME NEW v \in Unprocessed, v \notin Backlog PROVE least <= v
      BY <2>4
    <3>2. least < v /\ least \in Updates /\ v \in Updates
      BY <2>2, <2>4, <3>1 DEF Unprocessed
    <3> QED BY <3>2 DEF Updates
  <2>6. least \in Unprocessed /\ Unprocessed' = Unprocessed
    BY <2>1, <2>2, <2>4 DEF Unprocessed
  <2>7. \A u \in Backlog \ {least}, v \in Unprocessed : v \notin Backlog \ {least} /\ v # least => u < v
    BY <2>2
  <2> QED BY <2>1, <2>2, <2>4, <2>5, <2>6, <2>7 DEF InOrder
<1>5. CASE RecordProcessed
  <2>1. /\ worker.at \in Updates /\ worker.phase = "handled"
        /\ worker.at \in Unprocessed \ worker.list /\ \A v \in Unprocessed : worker.at <= v
    BY <1>5, InHand DEF RecordProcessed, InOrder
  <2>2. /\ worker'.list = worker.list /\ worker'.at = NoUpdate /\ worker'.phase = "idle"
        /\ \A u \in Updates : u # worker.at => inbox'[u] = inbox[u]
        /\ inbox'[worker.at].status = "processed"
    BY <1>5, <2>1 DEF RecordProcessed, LetGo
  <2>3. Unprocessed' = Unprocessed \ {worker.at}
    BY <2>1, <2>2 DEF Unprocessed
  <2>4. \A u \in Updates : \A v \in Unprocessed' : u \notin Unprocessed' => u < v
    BY <2>1, <2>3 DEF InOrder, Updates, Unprocessed
  <2>5. \A u \in worker.list : u \in Unprocessed'
    BY <2>1, <2>3 DEF InOrder
  <2>6. \A u \in worker.list, v \in Unprocessed' : v \notin worker.list => u < v
    BY <2>3 DEF InOrder
  <2>7. \A u \in Updates : inbox'[u].status # "failed" /\ (inbox'[u].status = "open" => inbox'[u].due)
    BY <2>2 DEF InOrder
  <2> QED BY <2>2, <2>3, <2>4, <2>5, <2>6, <2>7 DEF InOrder
<1>6. ASSUME NEW u \in Updates, WaitOver(u) PROVE InOrder' /\ Unprocessed' \subseteq Unprocessed
  <2>1. worker' = worker
        /\ \A v \in Updates : inbox'[v].status = inbox[v].status /\ (inbox[v].due => inbox'[v].due)
    BY <1>6 DEF WaitOver, InboxRows
  <2>2. Unprocessed' = Unprocessed
    BY <2>1 DEF Unprocessed
  <2> QED BY <2>1, <2>2 DEF InOrder
<1> QED BY <1>1, <1>2, <1>3, <1>4, <1>5, <1>6, FailureCounts DEF PumpStep

LEMMA MaxIsLast ==
  ASSUME NEW S \in SUBSET Updates, NEW a \in Updates, \A u \in S : u <= a
  PROVE  Max(S \cup {a}) = a
<1>1. S \cup {a} \in SUBSET Updates /\ S \cup {a} # {}
  OBVIOUS
<1>2. PICK m \in S \cup {a} : m = Max(S \cup {a}) /\ a <= m
  BY <1>1, GreatestUpdate
<1>3. m \in Nat /\ a \in Nat /\ m <= a
  BY <1>2, PumpAssumption DEF Updates
<1> QED BY <1>2, <1>3

LEMMA MarksStand ==
  ASSUME CountedInOrder, LastCounts, UNCHANGED <<marks, counted>>,
         \A u \in counted : content'[u] = content[u] /\ OnRecord(u)',
         Unprocessed' \subseteq Unprocessed
  PROVE  CountedInOrder' /\ LastCounts'
<1>1. CountedInOrder'
  BY DEF CountedInOrder
<1>2. ASSUME NEW p \in Users PROVE p \in Marked' <=> Own(p)' # {} /\ content'[Max(Own(p)')].here
  <2>1. PICK own : own = Own(p) /\ own \in SUBSET Updates /\ own \subseteq counted
    BY DEF Own, CountedInOrder
  <2>2. Own(p)' = own
    BY <2>1 DEF Own
  <2>3. Marked' = Marked
    BY DEF Marked
  <2>4. own # {} => content'[Max(own)] = content[Max(own)]
    <3>1. own # {} => Max(own) \in own
      BY <2>1, GreatestUpdate
    <3> QED BY <2>1, <3>1
  <2> QED BY <2>1, <2>2, <2>3, <2>4 DEF LastCounts
<1> QED BY <1>1, <1>2 DEF LastCounts

\* The reaction in hand is later than all that count.
LEMMA LastInHand ==
  ASSUME IntakeInv, Chronicle, NoRetries, InOrder, CountedInOrder, worker.phase # "idle"
  PROVE  /\ worker.at \in Updates /\ OnRecord(worker.at)
         /\ \A v \in Unprocessed : worker.at <= v
         /\ \A u \in counted : u \in Updates /\ u <= worker.at
         /\ \A p \in Users : Own(p) \in SUBSET Updates /\ \A u \in Own(p) : u <= worker.at
         /\ \A p \in Users : Max(Own(p) \cup {worker.at}) = worker.at
<1>1. worker.at \in Updates /\ OnRecord(worker.at)
  BY InHand
<1>2. worker.at \in Unprocessed /\ \A v \in Unprocessed : worker.at <= v
  BY DEF InOrder
<1>3. \A u \in counted : u \in Updates /\ u <= worker.at
  BY <1>2 DEF CountedInOrder
<1>4. \A p \in Users : Own(p) \in SUBSET Updates /\ \A u \in Own(p) : u <= worker.at
  BY <1>3 DEF Own
<1> QED BY <1>1, <1>2, <1>3, <1>4, MaxIsLast

LEMMA ReactionTypesMarks ==
  ASSUME IntakeInv, Chronicle, marks \in [Users -> Mark], MarkOrUnmark \/ IgnoreReaction
  PROVE  marks' \in [Users -> Mark]
<1>1. CASE MarkOrUnmark
  <2>1. worker.phase # "idle"
    BY <1>1 DEF MarkOrUnmark, Handle
  <2>2. Update.user \in Users /\ Update.at \in Nat
    BY <2>1, AtWork, ToldPublished
  <2>3. [marked |-> TRUE, markedAt |-> Update.at] \in Mark
        /\ [marks[Update.user] EXCEPT !.marked = FALSE] \in Mark
    BY <2>2 DEF Mark
  <2> QED BY <1>1, <2>2, <2>3 DEF MarkOrUnmark
<1>2. CASE IgnoreReaction
  BY <1>2 DEF IgnoreReaction, attendanceVars
<1> QED BY <1>1, <1>2

\* Nothing leaves the inbox.
LEMMA RowsStay ==
  ASSUME IntakeInv, FreshRows, PumpStep
  PROVE  \A u \in Updates : OnRecord(u) => OnRecord(u)'
<1>1. CASE Fetch \/ Begin \/ Restart
  BY <1>1 DEF PumpStep, Fetch, Begin, Restart, OnRecord
<1>2. CASE Admit
  BY <1>2 DEF Admit, OnRecord
<1>3. CASE RecordProcessed
  BY <1>3 DEF RecordProcessed, OnRecord, InboxRows, IntakeInv, IntakeTypeOK
<1>4. CASE RecordFailure
  BY <1>4, FailureCounts
<1>5. ASSUME NEW u \in Updates, WaitOver(u) PROVE \A v \in Updates : OnRecord(v) => OnRecord(v)'
  BY <1>5 DEF WaitOver, OnRecord, InboxRows, IntakeInv, IntakeTypeOK
<1> QED BY <1>1, <1>2, <1>3, <1>4, <1>5 DEF PumpStep

\* The two transactions of a reaction: it counts if it finds the session open, and it is in
\* the window and says something new or leaves the mark as it is.
LEMMA ReactionKeepsMarks ==
  ASSUME IntakeInv, Chronicle, NoRetries, InOrder, CountedInOrder, LastCounts,
         marks \in [Users -> Mark], MarkOrUnmark \/ IgnoreReaction
  PROVE  CountedInOrder' /\ LastCounts'
<1>1. /\ worker.phase = "read" /\ worker'.list = worker.list /\ worker'.at = worker.at
      /\ UNCHANGED <<inbox, content>> /\ Update.kind = "reaction" /\ Count
  BY HandleDoes DEF MarkOrUnmark, IgnoreReaction, worldVars
<1>2. PICK p \in Users : p = Update.user /\ Update = content[worker.at] /\ Update \in Contents
  BY <1>1, AtWork
<1>3. PICK last \in Updates :
        /\ last = worker.at /\ OnRecord(last)
        /\ \A v \in Unprocessed : last <= v
        /\ \A q \in Users : Own(q) \in SUBSET Updates /\ Max(Own(q) \cup {last}) = last
  BY <1>1, LastInHand
<1>4. /\ Unprocessed' = Unprocessed /\ \A u \in Updates : OnRecord(u)' <=> OnRecord(u)
      /\ counted' \in {counted, counted \cup {last}}
  BY <1>1, <1>3 DEF Unprocessed, OnRecord, Count
<1>5. CountedInOrder'
  BY <1>1, <1>3, <1>4 DEF CountedInOrder
<1>6. Update.here \in BOOLEAN /\ content[last] = Update /\ marks[p].marked \in BOOLEAN
  BY <1>2, <1>3 DEF Contents, Mark
<1>7. PICK counts \in BOOLEAN :
        counts = (Found /\ session.status = "open" /\ OpensAt <= content[last].at /\ content[last].at < ClosesAt)
  OBVIOUS
<1>12. \A q \in Users : Own(q)' = IF counts /\ q = p THEN Own(q) \cup {last} ELSE Own(q)
  BY <1>1, <1>2, <1>3, <1>6, <1>7 DEF Own, Count
<1>8. \A q \in Users : q # p => marks'[q] = marks[q]
  BY <1>2 DEF MarkOrUnmark, IgnoreReaction, attendanceVars
<1>10. ASSUME NEW q \in Users, q # p PROVE q \in Marked' <=> Own(q)' # {} /\ content'[Max(Own(q)')].here
  <2>1. Own(q)' = Own(q) /\ (q \in Marked' <=> q \in Marked)
    BY <1>12, <1>8, <1>10 DEF Marked
  <2> QED BY <1>1, <2>1 DEF LastCounts
<1>11. p \in Marked' <=> Own(p)' # {} /\ content'[Max(Own(p)')].here
  <2>1. CASE counts
    <3>1. Own(p)' = Own(p) \cup {last} /\ Max(Own(p)') = last
      BY <1>3, <1>12, <2>1
    <3>2. content'[last].here = Update.here
      BY <1>1, <1>6
    <3>3. marks'[p].marked = Update.here
      <4>1. CASE MarkOrUnmark
        <5>1. marks' = [marks EXCEPT ![p] = IF Update.here THEN [marked |-> TRUE, markedAt |-> Update.at]
                                           ELSE [@ EXCEPT !.marked = FALSE]]
          BY <4>1, <1>2 DEF MarkOrUnmark
        <5>2. CASE Update.here
          BY <5>1, <5>2, <1>6
        <5>3. CASE ~Update.here
          BY <5>1, <5>3, <1>6 DEF Mark
        <5> QED BY <5>2, <5>3
      <4>2. CASE IgnoreReaction
        <5>1. ~Changes
          BY <4>2, <1>7, <2>1 DEF IgnoreReaction
        <5>2. Update.here = marks[p].marked
          BY <5>1, <1>2, <1>6, <1>7, <2>1 DEF Changes, InWindow
        <5> QED BY <4>2, <5>2 DEF IgnoreReaction, attendanceVars
      <4> QED BY <4>1, <4>2
    <3>4. p \in Marked' <=> marks'[p].marked
      BY DEF Marked
    <3> QED BY <3>1, <3>2, <3>3, <3>4, <1>6
  <2>2. CASE ~counts
    <3>1. ~(Found /\ Changes)
      BY <1>2, <1>6, <1>7, <2>2 DEF Changes, InWindow
    <3>2. marks' = marks
      BY <3>1 DEF MarkOrUnmark, IgnoreReaction, attendanceVars
    <3>3. Own(p)' = Own(p) /\ (p \in Marked' <=> p \in Marked)
      BY <1>12, <2>2, <3>2 DEF Marked
    <3> QED BY <1>1, <3>3 DEF LastCounts
  <2> QED BY <2>1, <2>2
<1> QED BY <1>5, <1>10, <1>11 DEF LastCounts

LEMMA MarksKeep ==
  ASSUME IntakeInv, Chronicle, MarksInv, [Next]_vars PROVE MarksInv'
<1>1. CASE PumpStep
  <2>1. FreshRows' /\ (NoRetries' => NoRetries) /\ UNCHANGED <<content, marks, counted>>
    BY <1>1, PumpTries DEF MarksInv, PumpStep, deeds
  <2>2. SUFFICES ASSUME NoRetries' PROVE InOrder' /\ CountedInOrder' /\ LastCounts'
    BY <2>1 DEF MarksInv
  <2>3. InOrder /\ CountedInOrder /\ LastCounts
    BY <2>1, <2>2 DEF MarksInv
  <2>4. InOrder' /\ Unprocessed' \subseteq Unprocessed
    BY <1>1, <2>2, <2>3, PumpOrder DEF MarksInv, FreshRows
  <2>5. \A u \in counted : OnRecord(u)'
    BY <1>1, <2>3, RowsStay DEF CountedInOrder, MarksInv
  <2> QED BY <2>1, <2>3, <2>4, <2>5, MarksStand
<1>2. ASSUME UNCHANGED <<inbox, marks, counted>>,
             worker'.at = worker.at, worker'.list = worker.list,
             worker'.phase = "idle" <=> worker.phase = "idle",
             \A u \in 1..published : content'[u] = content[u]
      PROVE  MarksInv'
  <2>1. FreshRows' /\ (NoRetries' <=> NoRetries) /\ Unprocessed' = Unprocessed /\ (InOrder' <=> InOrder)
    BY <1>2 DEF MarksInv, FreshRows, OnRecord, NoRetries, Unprocessed, InOrder
  <2>2. SUFFICES ASSUME NoRetries' PROVE InOrder' /\ CountedInOrder' /\ LastCounts'
    BY <1>2, <2>1 DEF MarksInv
  <2>3. InOrder /\ CountedInOrder /\ LastCounts
    BY <2>1, <2>2 DEF MarksInv
  <2>4. \A u \in counted : OnRecord(u)' /\ content'[u] = content[u]
    <3>1. SUFFICES ASSUME NEW u \in counted PROVE OnRecord(u)' /\ content'[u] = content[u]
      OBVIOUS
    <3>2. u \in Updates /\ OnRecord(u)
      BY <2>3 DEF CountedInOrder
    <3>3. u \in 1..published
      BY <3>2 DEF Chronicle, Updates, IntakeInv, IntakeTypeOK
    <3> QED BY <1>2, <3>2, <3>3 DEF OnRecord
  <2> QED BY <1>2, <2>1, <2>3, <2>4, MarksStand
<1>3. CASE Elsewhere
  BY <1>3, <1>2 DEF Elsewhere
<1>4. ASSUME NEW p \in Users, Event(p) PROVE MarksInv'
  BY <1>2, <1>4, Events, Publication
<1>5. CASE EnqueueSummary \/ ApplyChatMember \/ ObserveSender
  <2>1. /\ UNCHANGED <<inbox, content, marks, counted>> /\ worker'.at = worker.at
        /\ worker'.list = worker.list /\ worker.phase # "idle" /\ worker'.phase # "idle"
    BY <1>5, HandleDoes DEF EnqueueSummary, ApplyChatMember, ObserveSender, worldVars, attendanceVars,
                            historyVars
  <2> QED BY <1>2, <2>1
<1>6. CASE MarkOrUnmark \/ IgnoreReaction
  <2>1. /\ UNCHANGED inbox /\ worker'.at = worker.at
        /\ worker'.list = worker.list /\ worker.phase # "idle" /\ worker'.phase # "idle"
    BY <1>6, HandleDoes DEF MarkOrUnmark, IgnoreReaction
  <2>2. FreshRows' /\ (NoRetries' <=> NoRetries) /\ (InOrder' <=> InOrder)
    BY <2>1 DEF MarksInv, FreshRows, OnRecord, NoRetries, Unprocessed, InOrder
  <2>3. marks' \in [Users -> Mark]
    BY <1>6, ReactionTypesMarks DEF MarksInv
  <2>4. SUFFICES ASSUME NoRetries' PROVE InOrder' /\ CountedInOrder' /\ LastCounts'
    BY <2>2, <2>3 DEF MarksInv
  <2> QED BY <1>6, <2>2, <2>4, ReactionKeepsMarks DEF MarksInv
<1> QED BY <1>1, <1>3, <1>4, <1>5, <1>6, StepsOfHandlers

----------------------------------------------------------------------------
LEMMA TablesInit == Init => TablesInv
<1> SUFFICES ASSUME Init PROVE TablesInv OBVIOUS
<1> USE PumpAssumption DEF Init, PumpInit
<1>1. IntakeInv
  BY PumpInitInv DEF Init
<1>2. Chronicle
  <2>1. NoContent \in Contents
    BY DEF NoContent, Contents
  <2> QED BY <2>1 DEF Chronicle, OnRecord, NoRow, Resting
<1>3. RosterInv
  <2>1. NoMember \in Members /\ NoMember.status = "none"
    BY DEF NoMember, Members
  <2>2. ASSUME NEW p \in Users PROVE Real(p) /\ Grounded(p) /\ Recorded(p)
    <3>1. Told(p) = {} /\ 1..published = {}
      BY DEF Told
    <3> QED BY <3>1 DEF Real, Grounded, Recorded, Active
  <2> QED BY <2>1, <2>2 DEF RosterInv
<1>4. MarksInv
  <2>1. \A u \in Updates : inbox[u].status = "absent" /\ inbox[u].attempts = 0
    BY DEF NoRow
  <2>2. Unprocessed = Updates
    BY <2>1 DEF Unprocessed
  <2>3. InOrder
    BY <2>1, <2>2 DEF InOrder, Resting
  <2>4. CountedInOrder /\ LastCounts
    BY DEF CountedInOrder, LastCounts, Own, Marked, NoMark
  <2>5. marks \in [Users -> Mark]
    BY DEF NoMark, Mark
  <2> QED BY <2>1, <2>3, <2>4, <2>5 DEF MarksInv, FreshRows
<1> QED BY <1>1, <1>2, <1>3, <1>4 DEF TablesInv

LEMMA TablesStep == TablesInv /\ [Next]_vars => TablesInv'
BY StepKeepsIntake, ChronicleKeeps, RosterKeeps, MarksKeep DEF TablesInv

\* Whatever the failures and restarts did to the order of the updates, once all are processed
\* the roster shows a member it knows as present exactly if they are, unless two moves of theirs
\* carry one date ("An old or same-second message cannot resurrect a user after an explicit
\* leave", TelegramMembershipStore).
THEOREM RosterFollowsGroup == Spec => []RosterIsTrue
<1>1. TablesInv => RosterIsTrue
  BY RosterTells DEF TablesInv
<1> QED BY <1>1, TablesInit, TablesStep, PTL DEF Spec

\* As long as no handler has failed, a member is marked as their last reaction says that found
\* the session open within its window, however often the process died on the way
\* (AttendanceService.apply_reaction, decide_attendance_action).
THEOREM MarksAreTrue == Spec => []MarksFollowReactions
<1>1. TablesInv => MarksFollowReactions
  BY DEF TablesInv, MarksInv, MarksFollowReactions, NoRetries, LastCounts, Own
<1> QED BY <1>1, TablesInit, TablesStep, PTL DEF Spec

----------------------------------------------------------------------------
(***************************************************************************)
(* The tables of the jobs, the topic and the headman                       *)
(***************************************************************************)
Summaries == Keys \ {Card}

ClockOK ==
  /\ now \in 0..LastTime
  /\ \A p \in Users : marks[p].markedAt <= now /\ roster[p].checkedAt <= now

Works == [job : 0..LastTime, text : Summaries, op : 0..SentToHeadman]

JobsOK ==
  /\ jobs \in [JobKeys -> {"absent", "open", "ended"}]
  /\ work = NoWork \/ work \in Works

\* The headman's messages are filled in their order, and whoever names one names one of them.
HeadmanOK ==
  /\ headman \in [1..MaxMessages -> Keys]
  /\ SentToHeadman \in 0..MaxMessages
  /\ \A m \in 1..MaxMessages : headman[m] # Card <=> m <= SentToHeadman

MessagesOK ==
  /\ topic \in 0..MaxMessages /\ HeadmanOK
  /\ session \in [message : 0..topic, status : {"none", "open", "closed"}]
  /\ summaryId \in 0..SentToHeadman

OpsOK == \A k \in Summaries : outbox[k].status # "absent" => outbox[k].op \in 0..SentToHeadman

AnswersOK ==
  \A w \in Senders : sender[w].phase = "delivered" =>
    sender[w].answer \in IF KeyOf(w) = Card THEN 1..topic ELSE 1..SentToHeadman

EnvelopesOK == OpsOK /\ AnswersOK /\ SendersAtRows

WorkInv ==
  /\ troubles \in 0..MaxTroubles
  /\ RecordInv /\ ClockOK /\ JobsOK /\ MessagesOK /\ EnvelopesOK

LEMMA CardIsKey == Card \in Keys
BY KeyAssumption

\* Messages filled in their order are counted by the last.
LEMMA PrefixCounted ==
  ASSUME NEW h, NEW n \in 0..MaxMessages, \A m \in 1..MaxMessages : h[m] # Card <=> m <= n
  PROVE  Cardinality({m \in 1..MaxMessages : h[m] # Card}) = n
<1>1. {m \in 1..MaxMessages : h[m] # Card} = 1..n
  BY BoundAssumption
<1>2. n \in Int /\ 1 \in Int /\ n - 1 + 1 = n /\ (1 > n <=> n = 0)
  BY BoundAssumption
<1>3. Cardinality(1..n) = IF 1 > n THEN 0 ELSE n - 1 + 1
  BY <1>2, FS_Interval
<1> QED BY <1>1, <1>2, <1>3

\* What Telegram carries out adds a message or edits one that is there.
LEMMA CarryKeeps ==
  ASSUME TypeInv, MessagesOK, EnvelopesOK, NEW w \in Senders, sender[w].phase = "claimed", Carry(w)
  PROVE  /\ topic' \in 0..MaxMessages /\ topic <= topic' /\ HeadmanOK'
         /\ SentToHeadman <= SentToHeadman'
         /\ KeyOf(w) \in Keys
         /\ KeyOf(w) = Card => Reply(w) \in 1..topic' /\ headman' = headman
         /\ KeyOf(w) # Card =>
              /\ Reply(w) \in 1..SentToHeadman' /\ headman'[Reply(w)] = KeyOf(w)
              /\ topic' = topic
<1> USE BoundAssumption DEF MessagesOK, HeadmanOK
<1>1. KeyOf(w) \in Keys
  BY DEF TypeInv, SendersOK, KeyOf
<1>2. CASE KeyOf(w) = Card
  <2>1. topic' = topic + 1 /\ topic < MaxMessages /\ headman' = headman /\ Reply(w) = topic + 1
    BY <1>2 DEF Carry, Reply
  <2>2. SentToHeadman' = SentToHeadman
    BY <2>1 DEF SentToHeadman
  <2> QED BY <1>1, <1>2, <2>1, <2>2
<1>3. CASE KeyOf(w) # Card
  <2>0. PICK n \in 0..MaxMessages : n = SentToHeadman
    OBVIOUS
  <2>1. PICK m : m = Reply(w)
    OBVIOUS
  <2>2. m = IF OpOf(w) = NewMessage THEN n + 1 ELSE OpOf(w)
    BY <1>3, <2>0, <2>1 DEF Reply
  <2>3. m <= MaxMessages /\ headman' = [headman EXCEPT ![m] = KeyOf(w)] /\ topic' = topic
    BY <1>3, <2>0, <2>2 DEF Carry
  <2>4. OpOf(w) \in 0..n
    <3>1. outbox[KeyOf(w)].status # "absent"
      BY DEF EnvelopesOK, SendersAtRows, KeyOf
    <3> QED BY <1>1, <1>3, <2>0, <3>1 DEF EnvelopesOK, OpsOK, OpOf, Summaries
  <2>5. m \in 1..n + 1 /\ m \in 1..MaxMessages
    BY <2>2, <2>3, <2>4 DEF NewMessage
  <2>6. PICK after \in 0..MaxMessages : after = IF m = n + 1 THEN n + 1 ELSE n
    BY <2>5
  <2>7. \A i \in 1..MaxMessages : headman'[i] = IF i = m THEN KeyOf(w) ELSE headman[i]
    BY <2>3
  <2>8. \A i \in 1..MaxMessages : headman'[i] # Card <=> i <= after
    BY <1>3, <2>0, <2>5, <2>6, <2>7
  <2>9. SentToHeadman' = after
    BY <2>8, PrefixCounted DEF SentToHeadman
  <2>10. headman' \in [1..MaxMessages -> Keys]
    BY <1>1, <2>3
  <2>11. n <= after /\ m \in 1..after
    BY <2>5, <2>6
  <2> QED BY <1>1, <1>3, <2>0, <2>1, <2>3, <2>5, <2>7, <2>8, <2>9, <2>10, <2>11
<1> QED BY <1>2, <1>3

----------------------------------------------------------------------------
\* The steps that leave the jobs, the outbox and Telegram's messages alone.
Outside ==
  \/ Tick \/ Pump \/ MarkOrUnmark \/ IgnoreReaction \/ ApplyChatMember \/ ObserveSender
  \/ HandlerRaises \/ UNCHANGED vars
  \/ \E p \in Users : Event(p)

Sending(w) ==
  \/ \E k \in Keys : ClaimRow(w, k)
  \/ SweepRows(w) \/ SkipRow(w) \/ Send(w) \/ SendUnanswered(w) \/ SendRefused(w) \/ Record(w) \/ EndRow(w)

LEMMA StepsOfWork ==
  ASSUME [Next]_vars
  PROVE  \/ Outside \/ EnqueueSummary \/ OpenAttendance \/ (\E b \in 0..LastTime : ReadSummary(b))
         \/ EnqueueText \/ TextConflicts \/ CloseDue
         \/ (\E w \in Senders : Sending(w)) \/ (\E k \in Keys : Due(k)) \/ Crash
BY DEF Next, Outside, Sending, Event

LEMMA OutsideDoes ==
  ASSUME Outside
  PROVE  UNCHANGED <<outboxVars, jobVars, session, summaryId, telegramVars, missed>>
<1>1. CASE \E p \in Users : Event(p)
  BY <1>1 DEF Event, React, Move, Write, Report, attendanceVars, historyVars
<1>2. CASE Tick \/ Pump \/ HandlerRaises
  BY <1>2 DEF Tick, Pump, HandlerRaises, attendanceVars, historyVars
<1>3. CASE MarkOrUnmark \/ IgnoreReaction \/ ApplyChatMember \/ ObserveSender
  BY <1>3 DEF MarkOrUnmark, IgnoreReaction, ApplyChatMember, ObserveSender, attendanceVars, historyVars
<1>4. CASE UNCHANGED vars
  BY <1>4 DEF vars, attendanceVars, historyVars
<1> QED BY <1>1, <1>2, <1>3, <1>4 DEF Outside

\* A summary that is enqueued has a key and is told the message on record.
LEMMA WorkHasRow ==
  ASSUME JobsOK, MessagesOK, work # NoWork
  PROVE  /\ work.job \in 0..LastTime /\ work.job \in JobKeys
         /\ work.text \in Summaries /\ work.text \in Keys /\ work.text # Card
         /\ work.op \in 0..SentToHeadman /\ work.op \in Ops
<1>1. work \in Works
  BY DEF JobsOK
<1>2. work.job \in 0..LastTime /\ work.text \in Summaries /\ work.op \in 0..SentToHeadman
  BY <1>1 DEF Works
<1>3. work.job \in JobKeys
  BY <1>2, BoundAssumption DEF JobKeys, CardJob
<1>4. work.op \in 0..MaxMessages
  BY <1>2, BoundAssumption DEF MessagesOK, HeadmanOK
<1> QED BY <1>2, <1>3, <1>4, MessageAssumption DEF Summaries

\* Every step is one of the outbox or leaves it alone, but for a row whose effect is there
\* already and for a crash, which takes all senders at once.
LEMMA StepsOfOutbox ==
  ASSUME RecordInv, JobsOK, MessagesOK, EnvelopesOK, [Next]_vars
  PROVE  [OutboxNext]_outboxVars \/ (\E w \in Senders : SkipRow(w)) \/ Crash
<1>1. CASE Outside \/ EnqueueSummary \/ (\E b \in 0..LastTime : ReadSummary(b)) \/ TextConflicts \/ CloseDue
  BY <1>1, OutsideDoes DEF EnqueueSummary, ReadSummary, TextConflicts, CloseDue
<1>2. CASE OpenAttendance
  <2>1. NewMessage \in Ops
    BY BoundAssumption, MessageAssumption DEF NewMessage
  <2> QED BY <1>2, <2>1, EnqueueIsStep DEF OpenAttendance, RecordInv
<1>3. CASE EnqueueText
  BY <1>3, WorkHasRow, EnqueueIsStep DEF EnqueueText, RecordInv
<1>4. ASSUME NEW w \in Senders, Send(w) PROVE OutboxNext
  <2>1. Reply(w) \in 1..MaxMessages
    <3>1. /\ topic' \in 0..MaxMessages /\ SentToHeadman' \in 0..MaxMessages
          /\ Reply(w) \in 1..topic' \/ Reply(w) \in 1..SentToHeadman'
      BY <1>4, CarryKeeps DEF Send, HeadmanOK, RecordInv
    <3> QED BY <3>1, BoundAssumption
  <2> QED BY <1>4, <2>1, MessageAssumption DEF Send, OutboxNext
<1>5. ASSUME NEW w \in Senders,
             \/ \E k \in Keys : ClaimRow(w, k)
             \/ SweepRows(w) \/ SendUnanswered(w) \/ SendRefused(w) \/ Record(w) \/ EndRow(w)
      PROVE  OutboxNext
  BY <1>5 DEF ClaimRow, SweepRows, SendUnanswered, SendRefused, Record, EndRow, OutboxNext
<1>6. CASE \E k \in Keys : Due(k)
  BY <1>6 DEF Due, OutboxNext
<1> QED BY <1>1, <1>2, <1>3, <1>4, <1>5, <1>6, StepsOfWork DEF Sending

LEMMA OutboxKeeps ==
  ASSUME RecordInv, JobsOK, MessagesOK, EnvelopesOK, [Next]_vars
  PROVE  RecordInv'
<1>1. CASE [OutboxNext]_outboxVars
  BY <1>1, StepRecords
<1>2. ASSUME NEW w \in Senders, SkipRow(w) PROVE RecordInv'
  BY <1>2, SkipTyped, ConfirmRecords DEF SkipRow, RecordInv
<1>3. CASE Crash
  BY <1>3, AllIdleTyped DEF Crash, RecordInv, ConfirmedOnRecord, RecordedBeforeSent, Idle
<1> QED BY <1>1, <1>2, <1>3, StepsOfOutbox

----------------------------------------------------------------------------
\* The clock, and the dates on file.
LEMMA ClockKeeps ==
  ASSUME TablesInv, ClockOK, [Next]_vars
  PROVE  ClockOK'
<1> USE BoundAssumption
<1>1. now' \in 0..LastTime /\ now <= now'
  <2>1. now' = now \/ (now < LastTime /\ now' = now + 1)
    <3>1. CASE Tick
      BY <3>1 DEF Tick
    <3>2. CASE Outside /\ ~Tick
      <4>1. CASE \E p \in Users : Event(p)
        BY <4>1 DEF Event, React, Move, Write, Report
      <4> QED BY <3>2, <4>1 DEF Outside, Pump, MarkOrUnmark, IgnoreReaction, ApplyChatMember,
                 ObserveSender, HandlerRaises, vars, worldVars
    <3>3. ASSUME NEW w \in Senders, Sending(w) PROVE now' = now
      BY <3>3 DEF Sending, ClaimRow, SweepRows, SkipRow, Send, SendUnanswered, SendRefused, Record, EndRow, worldVars
    <3>4. CASE \/ EnqueueSummary \/ OpenAttendance \/ (\E b \in 0..LastTime : ReadSummary(b))
               \/ EnqueueText \/ TextConflicts \/ CloseDue \/ (\E k \in Keys : Due(k)) \/ Crash
      BY <3>4 DEF EnqueueSummary, OpenAttendance, ReadSummary, EnqueueText, TextConflicts, CloseDue,
                  Due, Crash, worldVars
    <3> QED BY <3>1, <3>2, <3>3, <3>4, StepsOfWork
  <2> QED BY <2>1 DEF ClockOK
<1>2. marks \in [Users -> Mark] /\ roster \in [Users -> Members]
  BY DEF TablesInv, MarksInv, RosterInv
<1>3. CASE UNCHANGED <<marks, roster>>
  <2>1. \A p \in Users : marks[p].markedAt \in Nat /\ roster[p].checkedAt \in Nat
    BY <1>2 DEF Mark, Members
  <2> QED BY <1>1, <1>3, <2>1 DEF ClockOK
<1>4. CASE MarkOrUnmark \/ ApplyChatMember \/ ObserveSender
  <2>1. worker.phase = "read" /\ now' = now
    BY <1>4 DEF MarkOrUnmark, ApplyChatMember, ObserveSender, Handle, worldVars
  <2>2. worker.at \in 1..published /\ Update = content[worker.at] /\ Update \in Contents
    BY <2>1, AtWork DEF TablesInv
  <2>3. Update.at <= now
    BY <2>2 DEF TablesInv, Chronicle
  <2>4. CASE MarkOrUnmark
    <3>1. roster' = roster
      BY <2>4 DEF MarkOrUnmark
    <3>2. \A p \in Users : marks'[p].markedAt \in {marks[p].markedAt, Update.at}
      BY <1>2, <2>4 DEF MarkOrUnmark, Mark
    <3> QED BY <2>1, <2>3, <3>1, <3>2 DEF ClockOK
  <2>5. CASE ApplyChatMember \/ ObserveSender
    <3>1. marks' = marks
      BY <2>5 DEF ApplyChatMember, ObserveSender
    <3>2. \A p \in Users : roster'[p].checkedAt \in {roster[p].checkedAt, Update.at}
      BY <1>2, <2>5 DEF ApplyChatMember, ObserveSender, Members
    <3> QED BY <2>1, <2>3, <3>1, <3>2 DEF ClockOK
  <2> QED BY <1>4, <2>4, <2>5
<1>5. UNCHANGED <<marks, roster>> \/ MarkOrUnmark \/ ApplyChatMember \/ ObserveSender
  <2>1. ASSUME NEW w \in Senders, Sending(w) PROVE UNCHANGED <<marks, roster>>
    BY <2>1 DEF Sending, ClaimRow, SweepRows, SkipRow, Send, SendUnanswered, SendRefused, Record, EndRow, attendanceVars
  <2>2. CASE \/ EnqueueSummary \/ OpenAttendance \/ (\E b \in 0..LastTime : ReadSummary(b))
             \/ EnqueueText \/ TextConflicts \/ CloseDue \/ (\E k \in Keys : Due(k)) \/ Crash
    BY <2>2 DEF EnqueueSummary, OpenAttendance, ReadSummary, EnqueueText, TextConflicts, CloseDue,
                Due, Crash, attendanceVars
  <2>3. CASE \E p \in Users : Event(p)
    BY <2>3 DEF Event, React, Move, Write, Report, attendanceVars
  <2>4. CASE Outside
    BY <2>3, <2>4 DEF Outside, Tick, Pump, IgnoreReaction, HandlerRaises, vars, attendanceVars
  <2> QED BY <2>1, <2>2, <2>4, StepsOfWork
<1> QED BY <1>3, <1>4, <1>5

----------------------------------------------------------------------------
\* No message is taken back.
LEMMA MessagesGrow ==
  ASSUME RecordInv, MessagesOK, EnvelopesOK, [Next]_vars
  PROVE  /\ topic' \in 0..MaxMessages /\ topic <= topic' /\ HeadmanOK'
         /\ SentToHeadman <= SentToHeadman'
<1>1. CASE UNCHANGED telegramVars
  <2>1. UNCHANGED <<topic, headman>> /\ SentToHeadman' = SentToHeadman
    BY <1>1 DEF telegramVars, SentToHeadman
  <2> QED BY <2>1, BoundAssumption DEF MessagesOK, HeadmanOK
<1>2. ASSUME NEW w \in Senders, Send(w) \/ SendUnanswered(w)
      PROVE  /\ topic' \in 0..MaxMessages /\ topic <= topic' /\ HeadmanOK'
             /\ SentToHeadman <= SentToHeadman'
  BY <1>2, CarryKeeps DEF Send, SendUnanswered, RecordInv
<1>3. ASSUME NEW w \in Senders, Sending(w) PROVE UNCHANGED telegramVars \/ Send(w) \/ SendUnanswered(w)
  BY <1>3 DEF Sending, ClaimRow, SweepRows, SkipRow, SendRefused, Record, EndRow
<1>4. CASE \/ EnqueueSummary \/ OpenAttendance \/ (\E b \in 0..LastTime : ReadSummary(b))
           \/ EnqueueText \/ TextConflicts \/ CloseDue \/ (\E k \in Keys : Due(k)) \/ Crash
  BY <1>1, <1>4 DEF EnqueueSummary, OpenAttendance, ReadSummary, EnqueueText, TextConflicts, CloseDue,
              Due, Crash
<1> QED BY <1>1, <1>2, <1>3, <1>4, StepsOfWork, OutsideDoes

LEMMA JobsKeep ==
  ASSUME TablesInv, RecordInv, JobsOK, MessagesOK, EnvelopesOK, [Next]_vars
  PROVE  JobsOK'
<1> USE BoundAssumption
<1>0. PICK n \in Nat, n1 \in Nat : n = SentToHeadman /\ n1 = SentToHeadman' /\ n <= n1
  BY MessagesGrow DEF HeadmanOK, MessagesOK
<1>1. work # NoWork => work.job \in 0..LastTime /\ work.text \in Summaries /\ work.op \in 0..n
  BY <1>0, WorkHasRow
<1>a. ASSUME work' = work PROVE work' = NoWork \/ work' \in Works'
  <2>1. work = NoWork \/ work \in [job : 0..LastTime, text : Summaries, op : 0..n]
    BY <1>0 DEF JobsOK, Works
  <2>2. [job : 0..LastTime, text : Summaries, op : 0..n]
          \subseteq [job : 0..LastTime, text : Summaries, op : 0..n1]
    BY <1>0
  <2>3. Works' = [job : 0..LastTime, text : Summaries, op : 0..n1]
    BY <1>0 DEF Works, Summaries
  <2> QED BY <1>a, <2>1, <2>2, <2>3
<1>2. CASE UNCHANGED jobVars
  BY <1>2, <1>a DEF jobVars, JobsOK
<1>3. CASE EnqueueSummary \/ OpenAttendance
  <2>1. work' = work /\ jobs' \in [JobKeys -> {"absent", "open", "ended"}]
    BY <1>3 DEF EnqueueSummary, OpenAttendance, JobsOK
  <2> QED BY <2>1, <1>a DEF JobsOK
<1>4. ASSUME NEW b \in 0..LastTime, ReadSummary(b) PROVE JobsOK'
  <2>1. jobs' = jobs
    BY <1>4 DEF ReadSummary
  <2>2. PICK text : text = Summary(OnRoster \cap Marked, OnRoster \ Marked)
    OBVIOUS
  <2>3. text \in Summaries
    <3>1. OnRoster \cap Marked \in SUBSET Users /\ OnRoster \ Marked \in SUBSET Users
      BY DEF OnRoster, Marked
    <3>2. text # Card
      BY <2>2 DEF Summary, Card
    <3> QED BY <2>2, <3>1, <3>2, KeyAssumption DEF Summaries
  <2>4. summaryId \in 0..n1
    BY <1>0 DEF MessagesOK
  <2>5. work' = [job |-> b, text |-> text, op |-> summaryId]
    BY <1>4, <2>2 DEF ReadSummary
  <2>6. Works' = [job : 0..LastTime, text : Summaries, op : 0..n1]
    BY <1>0 DEF Works, Summaries
  <2> QED BY <2>1, <2>3, <2>4, <2>5, <2>6 DEF JobsOK
<1>5. CASE EnqueueText \/ TextConflicts
  <2>1. work' = NoWork /\ jobs' \in [JobKeys -> {"absent", "open", "ended"}]
    BY <1>5 DEF EnqueueText, TextConflicts, JobsOK
  <2> QED BY <2>1 DEF JobsOK
<1>6. CASE Crash
  BY <1>6 DEF Crash, JobsOK
<1>7. CASE CloseDue \/ (\E k \in Keys : Due(k))
  BY <1>2, <1>7 DEF CloseDue, Due
<1>8. ASSUME NEW w \in Senders, Sending(w) PROVE UNCHANGED jobVars
  BY <1>8 DEF Sending, ClaimRow, SweepRows, SkipRow, Send, SendUnanswered, SendRefused, Record, EndRow
<1> QED BY <1>2, <1>3, <1>4, <1>5, <1>6, <1>7, <1>8, StepsOfWork, OutsideDoes

LEMMA MessagesKeep ==
  ASSUME RecordInv, MessagesOK, EnvelopesOK, [Next]_vars
  PROVE  MessagesOK'
<1> USE BoundAssumption
<1>1. /\ topic' \in 0..MaxMessages /\ topic <= topic' /\ HeadmanOK'
      /\ SentToHeadman <= SentToHeadman'
      /\ SentToHeadman \in Nat /\ SentToHeadman' \in Nat /\ topic \in Nat /\ topic' \in Nat
  BY MessagesGrow DEF HeadmanOK, MessagesOK
<1>2. session \in [message : 0..topic', status : {"none", "open", "closed"}]
  <2>1. 0..topic \subseteq 0..topic'
    BY <1>1
  <2> QED BY <2>1 DEF MessagesOK
<1>3. summaryId \in 0..SentToHeadman'
  BY <1>1 DEF MessagesOK
<1>a. ASSUME UNCHANGED <<session, summaryId>> PROVE MessagesOK'
  BY <1>1, <1>2, <1>3, <1>a DEF MessagesOK
<1>4. CASE CloseDue
  <2>1. session' \in [message : 0..topic', status : {"none", "open", "closed"}] /\ summaryId' = summaryId
    BY <1>2, <1>4 DEF CloseDue
  <2> QED BY <1>1, <1>3, <2>1 DEF MessagesOK
<1>5. ASSUME NEW w \in Senders, Record(w) PROVE MessagesOK'
  <2>1. sender[w].phase = "delivered"
    BY <1>5 DEF Record, Confirm
  <2>2. sender[w].answer \in IF KeyOf(w) = Card THEN 1..topic ELSE 1..SentToHeadman
    BY <2>1 DEF EnvelopesOK, AnswersOK
  <2>3. CASE KeyOf(w) = Card
    <3>1. session' = [message |-> sender[w].answer, status |-> "open"] /\ summaryId' = summaryId
      BY <1>5, <2>3 DEF Record
    <3>2. sender[w].answer \in 0..topic'
      BY <1>1, <2>2, <2>3
    <3> QED BY <1>1, <1>3, <3>1, <3>2 DEF MessagesOK
  <2>4. CASE KeyOf(w) # Card
    <3>1. session' = session /\ summaryId' = sender[w].answer
      BY <1>5, <2>4 DEF Record
    <3>2. sender[w].answer \in 0..SentToHeadman'
      BY <1>1, <2>2, <2>4
    <3> QED BY <1>1, <1>2, <3>1, <3>2 DEF MessagesOK
  <2> QED BY <2>3, <2>4
<1>6. ASSUME NEW w \in Senders, Sending(w) PROVE UNCHANGED <<session, summaryId>> \/ Record(w)
  BY <1>6 DEF Sending, ClaimRow, SweepRows, SkipRow, Send, SendUnanswered, SendRefused, EndRow, attendanceVars
<1>7. CASE \/ EnqueueSummary \/ OpenAttendance \/ (\E b \in 0..LastTime : ReadSummary(b))
           \/ EnqueueText \/ TextConflicts \/ (\E k \in Keys : Due(k)) \/ Crash
  BY <1>a, <1>7 DEF EnqueueSummary, OpenAttendance, ReadSummary, EnqueueText, TextConflicts,
                    Due, Crash, attendanceVars
<1> QED BY <1>a, <1>4, <1>5, <1>6, <1>7, StepsOfWork, OutsideDoes

----------------------------------------------------------------------------
\* A row keeps what it is told and when it came.
LEMMA SendingKeepsRows ==
  ASSUME TypeInv, NEW w \in Senders, Sending(w), NEW k \in Keys
  PROVE  SameRow(k)
<1>1. CASE SkipRow(w) \/ Send(w) \/ SendUnanswered(w) \/ SendRefused(w) \/ Record(w)
  BY <1>1 DEF SkipRow, Send, SendUnanswered, SendRefused, Record, Skip, Deliver, LoseReply, Refuse,
     Confirm, SameRow
<1>2. CASE SweepRows(w)
  BY <1>2 DEF SweepRows, Sweep, Swept, Exhausted, TypeInv, OutboxTypeOK, SameRow
<1> QED BY <1>1, <1>2, SendingKeepsRow DEF Sending, ClaimRow, EndRow

LEMMA DueKeepsRows ==
  ASSUME TypeInv, NEW j \in Keys, Due(j), NEW k \in Keys
  PROVE  SameRow(k)
BY ElapseKeepsRow DEF Due

\* Enqueueing adds a row or changes nothing.
LEMMA EnqueueAdds ==
  ASSUME TypeInv, NEW k \in Keys, NEW op \in Ops, Enqueue(k, op)
  PROVE  /\ UNCHANGED <<sender, confirmed>>
         /\ \A j \in Keys \ {k} : outbox'[j] = outbox[j]
         /\ \/ outbox' = outbox /\ outbox[k].status # "absent"
            \/ /\ outbox[k].status = "absent"
               /\ outbox'[k] = [status |-> "pending", id |-> NextId, attempts |-> 0, due |-> TRUE, op |-> op]
BY DEF Enqueue, Enqueued, TypeInv, OutboxTypeOK

\* What a sender's step makes of the sender.
LEMMA SenderDoes ==
  ASSUME TypeInv, NEW w \in Senders, Sending(w)
  PROVE  /\ \A v \in Senders \ {w} : sender'[v] = sender[v]
         /\ \/ \E k \in Keys : ClaimRow(w, k) /\ sender'[w].key = k /\ sender'[w].phase = "claimed"
            \/ /\ SkipRow(w) \/ Record(w)
               /\ sender'[w].key = KeyOf(w) /\ sender'[w].phase = "confirmed"
            \/ /\ Send(w) /\ sender'[w].key = KeyOf(w) /\ sender'[w].phase = "delivered"
               /\ sender'[w].answer = Reply(w)
            \/ /\ SendUnanswered(w) \/ SendRefused(w)
               /\ sender'[w].key = KeyOf(w) /\ sender'[w].phase = "raised"
            \/ EndRow(w) /\ sender'[w] = Idle
            \/ SweepRows(w) /\ sender' = sender
<1> USE DEF TypeInv, OutboxTypeOK
<1>1. ASSUME NEW k \in Keys, ClaimRow(w, k)
      PROVE  /\ \A v \in Senders \ {w} : sender'[v] = sender[v]
             /\ sender'[w].key = k /\ sender'[w].phase = "claimed"
  BY <1>1, ClaimKeeps DEF ClaimRow
<1>2. CASE SkipRow(w) \/ Record(w)
  BY <1>2 DEF SkipRow, Record, Skip, Confirm, Reach, KeyOf
<1>3. CASE Send(w)
  BY <1>3 DEF Send, Deliver, KeyOf
<1>4. CASE SendUnanswered(w) \/ SendRefused(w)
  BY <1>4 DEF SendUnanswered, SendRefused, LoseReply, Refuse, Reach, KeyOf
<1>5. CASE EndRow(w)
  BY <1>5 DEF EndRow, Sent, Fail, Release
<1>6. CASE SweepRows(w)
  BY <1>6 DEF SweepRows, Sweep
<1> QED BY <1>1, <1>2, <1>3, <1>4, <1>5, <1>6 DEF Sending

LEMMA EnvelopesKeep ==
  ASSUME RecordInv, RecordInv', JobsOK, MessagesOK, EnvelopesOK, [Next]_vars
  PROVE  EnvelopesOK'
<1> USE BoundAssumption
<1>0. TypeInv
  BY DEF RecordInv
<1>1. PICK n \in Nat, n1 \in Nat : n = SentToHeadman /\ n1 = SentToHeadman' /\ n <= n1
  BY MessagesGrow DEF HeadmanOK, MessagesOK
<1>2. /\ topic \in Nat /\ topic' \in Nat /\ topic <= topic'
  BY MessagesGrow DEF MessagesOK
<1>3. OpsOK /\ AnswersOK /\ SendersAtRows
  BY DEF EnvelopesOK
<1>a. ASSUME \A k \in Keys : SameRow(k) \/ (outbox[k].status = "absent" /\ outbox'[k].status # "absent"
                                              /\ (k # Card => outbox'[k].op \in 0..n1))
      PROVE  OpsOK' /\ \A k \in Keys : outbox[k].status # "absent" => outbox'[k].status # "absent"
  BY <1>1, <1>3, <1>a DEF OpsOK, Summaries, SameRow
<1>b. ASSUME \A k \in Keys : outbox[k].status # "absent" => outbox'[k].status # "absent",
             NEW w \in Senders, sender'[w] = sender[w]
      PROVE  /\ sender'[w].phase # "idle" => outbox'[KeyOf(w)'].status # "absent"
             /\ sender'[w].phase = "delivered" =>
                  sender'[w].answer \in IF KeyOf(w)' = Card THEN 1..topic' ELSE 1..n1
  <2>1. KeyOf(w)' = KeyOf(w) /\ (sender[w].phase # "idle" => KeyOf(w) \in Keys)
    BY <1>0, <1>b DEF KeyOf, TypeInv, SendersOK
  <2>2. 1..topic \subseteq 1..topic' /\ 1..n \subseteq 1..n1
    BY <1>1, <1>2
  <2> QED BY <1>1, <1>3, <1>b, <2>1, <2>2 DEF AnswersOK, SendersAtRows, KeyOf
<1>c. ASSUME \A w \in Senders : 
               /\ sender'[w].phase # "idle" => outbox'[KeyOf(w)'].status # "absent"
               /\ sender'[w].phase = "delivered" =>
                    sender'[w].answer \in IF KeyOf(w)' = Card THEN 1..topic' ELSE 1..n1
      PROVE  AnswersOK' /\ SendersAtRows'
  BY <1>1, <1>c DEF AnswersOK, SendersAtRows, KeyOf
<1>d. ASSUME UNCHANGED outboxVars PROVE EnvelopesOK'
  <2>1. OpsOK' /\ \A k \in Keys : outbox[k].status # "absent" => outbox'[k].status # "absent"
    BY <1>a, <1>d DEF outboxVars, SameRow
  <2> QED BY <1>b, <1>c, <1>d, <2>1 DEF outboxVars, EnvelopesOK
<1>e. ASSUME NEW k \in Keys, NEW op \in Ops, Enqueue(k, op), k = Card \/ op \in 0..n1
      PROVE  EnvelopesOK'
  <2>1. \A j \in Keys : SameRow(j) \/ (outbox[j].status = "absent" /\ outbox'[j].status # "absent"
                                              /\ (j # Card => outbox'[j].op \in 0..n1))
    <3>1. \A j \in Keys : j # k => SameRow(j)
      BY <1>0, <1>e, EnqueueAdds DEF SameRow
    <3>2. CASE outbox' = outbox
      BY <3>2 DEF SameRow
    <3>3. CASE /\ outbox[k].status = "absent"
               /\ outbox'[k] = [status |-> "pending", id |-> NextId, attempts |-> 0, due |-> TRUE, op |-> op]
      <4>1. outbox'[k].status = "pending" /\ outbox'[k].op = op
        BY <3>3
      <4> QED BY <1>e, <3>1, <3>3, <4>1
    <3> QED BY <1>0, <1>e, <3>2, <3>3, EnqueueAdds
  <2>2. OpsOK' /\ \A j \in Keys : outbox[j].status # "absent" => outbox'[j].status # "absent"
    BY <1>a, <2>1
  <2>3. sender' = sender
    BY <1>0, <1>e, EnqueueAdds
  <2> QED BY <1>b, <1>c, <2>2, <2>3 DEF EnvelopesOK
<1>4. CASE Outside \/ EnqueueSummary \/ (\E b \in 0..LastTime : ReadSummary(b)) \/ TextConflicts \/ CloseDue
  BY <1>4, <1>d, OutsideDoes DEF EnqueueSummary, ReadSummary, TextConflicts, CloseDue
<1>5. CASE OpenAttendance
  <2>1. NewMessage \in Ops
    BY MessageAssumption DEF NewMessage
  <2> QED BY <1>5, <1>d, <1>e, <2>1, CardIsKey DEF OpenAttendance
<1>6. CASE EnqueueText
  <2>1. work.text \in Keys /\ work.op \in Ops /\ work.op \in 0..n1
    BY <1>1, <1>6, WorkHasRow DEF EnqueueText
  <2> QED BY <1>6, <1>e, <2>1 DEF EnqueueText
<1>7. ASSUME NEW w \in Senders, Sending(w) PROVE EnvelopesOK'
  <2>1. OpsOK' /\ \A k \in Keys : outbox[k].status # "absent" => outbox'[k].status # "absent"
    BY <1>0, <1>7, <1>a, SendingKeepsRows
  <2>2. /\ sender'[w].phase # "idle" => outbox'[KeyOf(w)'].status # "absent"
        /\ sender'[w].phase = "delivered" =>
             sender'[w].answer \in IF KeyOf(w)' = Card THEN 1..topic' ELSE 1..n1
    <3>0. KeyOf(w)' = sender'[w].key
      BY DEF KeyOf
    <3>1. ASSUME NEW k \in Keys, ClaimRow(w, k), sender'[w].key = k, sender'[w].phase = "claimed"
          PROVE  outbox'[KeyOf(w)'].status # "absent"
      <4>1. outbox[k].status # "absent"
        BY <3>1 DEF ClaimRow, Claim, Eligible, Open
      <4> QED BY <2>1, <3>0, <3>1, <4>1
    <3>2. CASE /\ sender' # sender /\ sender[w].phase # "idle"
               /\ sender'[w].key = KeyOf(w) /\ sender'[w].phase \in {"raised", "confirmed", "delivered"}
      <4>1. KeyOf(w) \in Keys /\ outbox[KeyOf(w)].status # "absent"
        BY <1>0, <1>3, <3>2 DEF SendersAtRows, TypeInv, SendersOK, KeyOf
      <4>2. outbox'[KeyOf(w)'].status # "absent"
        BY <2>1, <3>0, <3>2, <4>1
      <4>3. CASE Send(w) /\ sender'[w].answer = Reply(w)
        <5>1. KeyOf(w) = Card => Reply(w) \in 1..topic'
          BY <1>0, <4>3, CarryKeeps DEF Send
        <5>2. KeyOf(w) # Card => Reply(w) \in 1..n1
          BY <1>1, <1>0, <4>3, CarryKeeps DEF Send
        <5> QED BY <3>0, <3>2, <4>2, <4>3, <5>1, <5>2
      <4> QED BY <1>7, <3>2, <4>2, <1>0, <4>3, SenderDoes DEF Idle
    <3>3. SkipRow(w) \/ Record(w) \/ Send(w) \/ SendUnanswered(w) \/ SendRefused(w) => sender[w].phase # "idle"
      BY DEF SkipRow, Record, Send, SendUnanswered, SendRefused, Skip, Confirm, Refuse
    <3>4. CASE sender' = sender
      BY <1>b, <2>1, <3>4
    <3> QED BY <1>7, <3>1, <3>2, <3>4, <1>0, <3>3, SenderDoes DEF Idle
  <2>3. \A v \in Senders : v # w => sender'[v] = sender[v]
    BY <1>0, <1>7, SenderDoes
  <2> QED BY <1>b, <1>c, <2>1, <2>2, <2>3 DEF EnvelopesOK
<1>8. CASE \E k \in Keys : Due(k)
  <2>1. sender' = sender
    BY <1>8 DEF Due, Elapse
  <2>2. OpsOK' /\ \A k \in Keys : outbox[k].status # "absent" => outbox'[k].status # "absent"
    BY <1>8, <1>0, <1>a, DueKeepsRows
  <2> QED BY <1>b, <1>c, <2>1, <2>2 DEF EnvelopesOK
<1>9. CASE Crash
  <2>1. outbox' = outbox /\ \A w \in Senders : sender'[w] = Idle
    BY <1>9 DEF Crash
  <2>2. OpsOK' /\ \A k \in Keys : outbox[k].status # "absent" => outbox'[k].status # "absent"
    BY <1>a, <2>1 DEF SameRow
  <2> QED BY <1>c, <2>1, <2>2 DEF EnvelopesOK, Idle
<1> QED BY <1>4, <1>5, <1>6, <1>7, <1>8, <1>9, StepsOfWork

----------------------------------------------------------------------------
LEMMA TroublesKeep ==
  ASSUME troubles \in 0..MaxTroubles, [Next]_vars
  PROVE  troubles' \in 0..MaxTroubles /\ (troubles' = 0 => troubles = 0)
<1>1. troubles' = troubles \/ Suffer
  <2> USE DEF pumpVars
  <2>1. ASSUME NEW w \in Senders, Sending(w) PROVE troubles' = troubles \/ Suffer
    BY <2>1 DEF Sending, ClaimRow, SweepRows, SkipRow, Send, SendUnanswered, SendRefused, Record, EndRow
  <2>2. CASE \/ EnqueueSummary \/ OpenAttendance \/ (\E b \in 0..LastTime : ReadSummary(b))
             \/ EnqueueText \/ TextConflicts \/ CloseDue \/ (\E k \in Keys : Due(k)) \/ Crash
    BY <2>2 DEF EnqueueSummary, OpenAttendance, ReadSummary, EnqueueText, TextConflicts, CloseDue,
                Due, Crash, Handle, Restart
  <2>3. CASE \E p \in Users : Event(p)
    BY <2>3 DEF Event, React, Move, Write, Report, Publish
  <2>4. CASE Outside /\ ~\E p \in Users : Event(p)
    <3>1. CASE Pump
      BY <3>1 DEF Pump, Fetch, Admit, Begin, RecordProcessed, WaitOver
    <3>2. CASE HandlerRaises
      BY <3>2 DEF HandlerRaises
    <3> QED BY <2>4, <3>1, <3>2 DEF Outside, Tick, MarkOrUnmark, IgnoreReaction, ApplyChatMember,
                                    ObserveSender, Handle, vars
  <2> QED BY <2>1, <2>2, <2>3, <2>4, StepsOfWork
<1> QED BY <1>1, PumpAssumption DEF Suffer

LEMMA WorkInit == Init => WorkInv
<1> SUFFICES ASSUME Init PROVE WorkInv OBVIOUS
<1> USE BoundAssumption DEF Init
<1>1. RecordInv
  <2>1. TypeInv
    BY InitTyped
  <2> QED BY <2>1 DEF OutboxInit, RecordInv, ConfirmedOnRecord, RecordedBeforeSent, Idle, Absent
<1>2. troubles \in 0..MaxTroubles
  BY PumpInitInv
<1>3. ClockOK
  BY DEF ClockOK, NoMark, NoMember
<1>4. JobsOK
  BY DEF JobsOK
<1>5. SentToHeadman = 0 /\ HeadmanOK
  <2>1. \A m \in 1..MaxMessages : headman[m] = Card
    OBVIOUS
  <2>2. 0 \in 0..MaxMessages /\ \A m \in 1..MaxMessages : headman[m] # Card <=> m <= 0
    BY <2>1
  <2>3. SentToHeadman = 0
    BY <2>2, PrefixCounted DEF SentToHeadman
  <2> QED BY <2>2, <2>3, CardIsKey DEF HeadmanOK
<1>6. MessagesOK
  BY <1>5 DEF MessagesOK, NoSession
<1>7. EnvelopesOK
  BY DEF EnvelopesOK, OpsOK, AnswersOK, SendersAtRows, OutboxInit, Absent, Idle, Summaries, KeyOf
<1> QED BY <1>1, <1>2, <1>3, <1>4, <1>6, <1>7 DEF WorkInv

LEMMA WorkStep == TablesInv /\ WorkInv /\ [Next]_vars => WorkInv'
<1> SUFFICES ASSUME TablesInv, WorkInv, [Next]_vars PROVE WorkInv' OBVIOUS
<1>1. /\ troubles \in 0..MaxTroubles
      /\ RecordInv /\ ClockOK /\ JobsOK /\ MessagesOK /\ EnvelopesOK
  BY DEF WorkInv
<1>2. RecordInv' /\ ClockOK' /\ MessagesOK'
  BY <1>1, OutboxKeeps, ClockKeeps, MessagesKeep
<1>3. JobsOK' /\ EnvelopesOK' /\ troubles' \in 0..MaxTroubles
  BY <1>1, <1>2, JobsKeep, EnvelopesKeep, TroublesKeep
<1> QED BY <1>2, <1>3 DEF WorkInv

\* Intake, attendance, jobs and outbox keep their types together: a mark and a row of the roster
\* carry a date that has been, the session is that of a card that is in the topic, and the
\* headman's message on record has been sent (the tables of storage/models.py as
\* AttendanceService, TelegramMembershipStore and ApplicationTelegramSender write them).
THEOREM AttendanceIsTyped == Spec => []TypeOK
<1>1. TablesInv /\ WorkInv => TypeOK
  <2> SUFFICES ASSUME TablesInv, WorkInv PROVE TypeOK OBVIOUS
  <2>1. PumpTypeOK
    BY PumpTyped DEF TablesInv, WorkInv
  <2>2. OutboxTypeOK
    BY DEF WorkInv, RecordInv, TypeInv
  <2>3. session.message \in 0..topic /\ summaryId \in 0..SentToHeadman
    BY DEF WorkInv, MessagesOK
  <2>4. now \in 0..LastTime /\ \A p \in Users : marks[p].markedAt <= now /\ roster[p].checkedAt <= now
    BY DEF WorkInv, ClockOK
  <2>5. marks \in [Users -> Mark] /\ roster \in [Users -> Members]
    BY DEF TablesInv, MarksInv, RosterInv
  <2>6. ASSUME NEW p \in Users PROVE marks[p] \in [marked : BOOLEAN, markedAt : 0..LastTime]
    <3>1. marks[p] \in Mark /\ marks[p].markedAt \in 0..LastTime
      BY <2>4, <2>5, BoundAssumption DEF Mark
    <3> QED BY <3>1 DEF Mark
  <2>7. ASSUME NEW p \in Users
        PROVE  roster[p] \in [status : Statuses \cup {"none"}, checkedAt : 0..LastTime]
    <3>1. roster[p] \in Members /\ roster[p].checkedAt \in 0..LastTime
      BY <2>4, <2>5, BoundAssumption DEF Members
    <3> QED BY <3>1, StatusAssumption DEF Members
  <2> QED BY <2>1, <2>2, <2>3, <2>5, <2>6, <2>7 DEF TypeOK
<1> QED BY <1>1, TablesInit, TablesStep, WorkInit, WorkStep, PTL DEF Spec

----------------------------------------------------------------------------
(***************************************************************************)
(* The headman's summary.  In the process there is one outbox worker, and  *)
(* the process lock keeps a second process away; two of them would send    *)
(* two summaries in either order.                                          *)
(***************************************************************************)
Posted == Summaries \cap confirmed

BeingPosted == \E w \in Senders : sender[w].phase = "delivered" /\ KeyOf(w) # Card

ShownRows ==
  \A k \in Summaries : k \in confirmed <=>
    \/ outbox[k].status = "sent"
    \/ \E w \in Senders : KeyOf(w) = k /\ sender[w].phase = "confirmed"

ShownReplies ==
  \A w \in Senders :
    sender[w].phase = "delivered" /\ KeyOf(w) # Card => headman[sender[w].answer] = KeyOf(w)

ShownLast ==
  /\ summaryId # 0 <=> Posted # {}
  /\ Posted # {} => \E k \in Posted : Newest(Posted, k)
  /\ ~BeingPosted => \A k \in Posted : Newest(Posted, k) => headman[summaryId] = k

\* The headman's message shows the last summary that was sent, and is on record unless it is
\* just being recorded.
Shown == ShownRows /\ ShownReplies /\ ShownLast

Written == Rowed \ {Card}

Right(text) == text.present = Marked \cap (text.present \cup text.missing)

\* A summary is yet to be read.
ToBeRead == worker.phase = "marked" \/ \E b \in 0..LastTime : jobs[b] = "open" /\ work.job # b

\* The last summary that was read is right about the marks, or another is to come.
LastIsRight ==
  /\ Written # {} => \E k \in Written : Newest(Written, k)
  /\ \/ ToBeRead
     \/ work # NoWork /\ Right(work.text)
     \/ work = NoWork /\ Written = {} /\ Marked = {}
     \/ work = NoWork /\ Written # {} /\ \A k \in Written : Newest(Written, k) => Right(k)

Undisturbed == troubles = 0 /\ ~missed

SummaryInv ==
  /\ IdsOK
  /\ Undisturbed => InTurn /\ Shown /\ LastIsRight

----------------------------------------------------------------------------
\* What a step of the outbox is to a row: it stays, or a new row comes.
LEMMA IdsKeep ==
  ASSUME RecordInv, JobsOK, MessagesOK, IdsOK, [Next]_vars
  PROVE  IdsOK'
<1>0. TypeInv
  BY DEF RecordInv
<1>a. ASSUME outbox' = outbox PROVE IdsOK'
  BY <1>a, IdsStand DEF SameRow
<1>b. ASSUME NEW k \in Keys, NEW op \in Ops, Enqueue(k, op) PROVE IdsOK'
  BY <1>0, <1>a, <1>b, EnqueueAddsRow, IdsGrow
<1>1. CASE Outside \/ EnqueueSummary \/ (\E b \in 0..LastTime : ReadSummary(b)) \/ TextConflicts \/ CloseDue \/ Crash
  BY <1>1, <1>a, OutsideDoes DEF EnqueueSummary, ReadSummary, TextConflicts, CloseDue, Crash, outboxVars
<1>2. CASE OpenAttendance
  <2>1. NewMessage \in Ops
    BY BoundAssumption, MessageAssumption DEF NewMessage
  <2> QED BY <1>2, <1>a, <1>b, <2>1, CardIsKey DEF OpenAttendance, outboxVars
<1>3. CASE EnqueueText
  BY <1>3, <1>b, WorkHasRow DEF EnqueueText
<1>4. CASE \E w \in Senders : Sending(w)
  BY <1>0, <1>4, SendingKeepsRows, IdsStand
<1>5. CASE \E k \in Keys : Due(k)
  BY <1>0, <1>5, DueKeepsRows, IdsStand
<1> QED BY <1>1, <1>2, <1>3, <1>4, <1>5, StepsOfWork

----------------------------------------------------------------------------
Calm == troubles \in 0..MaxTroubles /\ troubles' = 0

LEMMA CalmDoes == ASSUME Calm PROVE ~Suffer /\ ~Crash
BY PumpAssumption DEF Calm, Suffer, Crash, Restart

\* Without a failure the outbox is changed by an enqueueing or by the sender.
LEMMA CalmSteps ==
  ASSUME TypeInv, JobsOK, MessagesOK, InTurn, Calm, [Next]_vars
  PROVE  \/ UNCHANGED <<outbox, sender, confirmed, summaryId, headman>>
         \/ /\ \E k \in Keys, op \in Ops : Enqueue(k, op)
            /\ UNCHANGED <<summaryId, headman>>
         \/ \E w \in Senders : Sending(w)
<1> USE DEF outboxVars, telegramVars
<1>1. CASE \/ Outside \/ EnqueueSummary \/ (\E b \in 0..LastTime : ReadSummary(b))
           \/ TextConflicts \/ CloseDue
  BY <1>1, OutsideDoes DEF EnqueueSummary, ReadSummary, TextConflicts, CloseDue, attendanceVars
<1>2. CASE OpenAttendance
  <2>1. NewMessage \in Ops
    BY BoundAssumption, MessageAssumption DEF NewMessage
  <2> QED BY <1>2, <2>1, CardIsKey DEF OpenAttendance, attendanceVars
<1>3. CASE EnqueueText
  BY <1>3, WorkHasRow DEF EnqueueText, attendanceVars
<1>4. ASSUME NEW k \in Keys, Due(k) PROVE FALSE
  BY <1>4 DEF Due, Elapse, Open, InTurn, TypeInv, OutboxTypeOK, KeyOf
<1> QED BY <1>1, <1>2, <1>3, <1>4, StepsOfWork, CalmDoes

\* In turn the sender claims the first row that waits, is on its way with it, or is done with it.
LEMMA SenderTurns ==
  ASSUME TypeInv, IdsOK, OneSender, InTurn, Calm, NEW w \in Senders, Sending(w)
  PROVE  \/ \E k \in Keys : ClaimRow(w, k) /\ TakesUp(w, k)
         \/ SkipRow(w) /\ GoesOn(w)
         \/ Send(w) /\ GoesOn(w)
         \/ Record(w) /\ GoesOn(w)
         \/ EndRow(w) /\ Finishes(w)
<1>1. ASSUME NEW k \in Keys, ClaimRow(w, k) PROVE TakesUp(w, k)
  BY <1>1, ClaimTakesUp DEF ClaimRow
<1>2. CASE SkipRow(w) \/ Send(w) \/ Record(w)
  BY <1>2, CallGoesOn DEF SkipRow, Send, Record
<1>3. CASE EndRow(w)
  BY <1>3, ReportFinishes DEF EndRow
<1>4. ~SendUnanswered(w) /\ ~SendRefused(w)
  BY CalmDoes DEF SendUnanswered, SendRefused
<1>5. ~SweepRows(w)
  BY NothingToSweep DEF SweepRows
<1> QED BY <1>1, <1>2, <1>3, <1>4, <1>5 DEF Sending

LEMMA InTurnKeeps ==
  ASSUME RecordInv, JobsOK, MessagesOK, EnvelopesOK, IdsOK, OneSender, InTurn, Calm, [Next]_vars
  PROVE  InTurn'
<1>1. TypeInv /\ SendersAtRows
  BY DEF RecordInv, EnvelopesOK
<1>2. ASSUME NEW k \in Keys, NEW op \in Ops, Enqueue(k, op) PROVE InTurn'
  BY <1>1, <1>2, EnqueueAddsRow, InTurnStands, InTurnGrows
<1>3. ASSUME NEW w \in Senders, Sending(w) PROVE InTurn'
  BY <1>1, <1>3, SenderTurns, SendingKeepsRows, InTurnTaken, InTurnGoesOn, InTurnFinished
<1> QED BY <1>1, <1>2, <1>3, CalmSteps, InTurnStands

----------------------------------------------------------------------------
\* What the headman is shown stands as long as no summary is sent or recorded.
LEMMA ShownStands ==
  ASSUME ShownLast, Posted' = Posted, summaryId' = summaryId, headman' = headman, BeingPosted' <=> BeingPosted,
         \A k \in Posted : outbox'[k].id = outbox[k].id
  PROVE  ShownLast'
<1>1. \A k : Newest(Posted, k) <=> Newest(Posted, k)'
  BY DEF Newest
<1> QED BY <1>1 DEF ShownLast

LEMMA ShownKeeps ==
  ASSUME RecordInv, JobsOK, MessagesOK, EnvelopesOK, IdsOK, OneSender, InTurn, Shown, Calm, [Next]_vars
  PROVE  Shown'
<1>0. TypeInv /\ ShownRows /\ ShownReplies /\ ShownLast
  BY DEF Shown, RecordInv
<1>1. CASE UNCHANGED <<outbox, sender, confirmed, summaryId, headman>>
  BY <1>1 DEF Shown, ShownRows, ShownReplies, ShownLast, Posted, BeingPosted, Newest, KeyOf, Summaries
<1>2. ASSUME NEW k \in Keys, NEW op \in Ops, Enqueue(k, op), UNCHANGED <<summaryId, headman>> PROVE Shown'
  <2>1. /\ sender' = sender /\ confirmed' = confirmed
        /\ \A j \in Keys \ {k} : outbox'[j] = outbox[j]
        /\ \/ outbox' = outbox /\ outbox[k].status # "absent"
           \/ /\ outbox[k].status = "absent"
              /\ outbox'[k] = [status |-> "pending", id |-> NextId, attempts |-> 0, due |-> TRUE, op |-> op]
    BY <1>0, <1>2, EnqueueAdds
  <2>2. CASE outbox' = outbox
    BY <1>2, <2>1, <2>2 DEF Shown, ShownRows, ShownReplies, ShownLast, Posted, BeingPosted, Newest, KeyOf, Summaries
  <2>3. CASE /\ outbox[k].status = "absent"
             /\ outbox'[k] = [status |-> "pending", id |-> NextId, attempts |-> 0, due |-> TRUE, op |-> op]
    <3>1. outbox'[k].status = "pending"
      BY <2>3
    <3>2. k \in Summaries => k \notin confirmed
      BY <1>0, <2>3 DEF ShownRows, EnvelopesOK, SendersAtRows, KeyOf
    <3>3. ShownRows'
      BY <1>0, <2>1, <2>3, <3>1 DEF ShownRows, KeyOf, Summaries
    <3>4. ShownReplies'
      BY <1>0, <1>2, <2>1 DEF ShownReplies, KeyOf
    <3>5. /\ Posted' = Posted /\ (BeingPosted' <=> BeingPosted)
          /\ \A j \in Posted : outbox'[j].id = outbox[j].id
      BY <2>1, <3>2 DEF Posted, BeingPosted, KeyOf, Summaries
    <3>6. summaryId' = summaryId /\ headman' = headman
      BY <1>2
    <3>7. ShownLast'
      BY <1>0, <3>5, <3>6, ShownStands
    <3> QED BY <3>3, <3>4, <3>7 DEF Shown
  <2> QED BY <2>1, <2>2, <2>3
<1>3. ASSUME NEW w \in Senders, Sending(w) PROVE Shown'
  <2>0. \A v \in Senders : v = w
    BY DEF OneSender
  <2>1. Summaries' = Summaries /\ \A k \in Keys : outbox'[k].id = outbox[k].id
    BY <1>0, <1>3, SendingKeepsRows DEF SameRow, Summaries
  <2>2. BeingPosted <=> sender[w].phase = "delivered" /\ KeyOf(w) # Card
    BY <2>0 DEF BeingPosted
  <2>3. BeingPosted' <=> sender'[w].phase = "delivered" /\ sender'[w].key # Card
    BY <2>0 DEF BeingPosted, KeyOf
  <2>4. ShownRows' <=> \A k \in Summaries : k \in confirmed' <=>
          outbox'[k].status = "sent" \/ (sender'[w].key = k /\ sender'[w].phase = "confirmed")
    BY <2>0, <2>1 DEF ShownRows, KeyOf
  <2>5. ShownReplies' <=>
          (sender'[w].phase = "delivered" /\ sender'[w].key # Card => headman'[sender'[w].answer] = sender'[w].key)
    BY <2>0 DEF ShownReplies, KeyOf
  <2>6. \A k \in Summaries : k \in confirmed <=>
          outbox[k].status = "sent" \/ (KeyOf(w) = k /\ sender[w].phase = "confirmed")
    BY <1>0, <2>0 DEF ShownRows
  <2>7. Posted \subseteq Keys
    BY DEF Posted, Summaries
  <2>8. ASSUME NEW k \in Keys, ClaimRow(w, k), TakesUp(w, k) PROVE Shown'
    <3>1. sender[w].phase = "idle" /\ summaryId' = summaryId /\ headman' = headman
      BY <2>8 DEF TakesUp, Idle, ClaimRow, SweepRows, attendanceVars, telegramVars
    <3>2. ShownRows' /\ ShownReplies'
      BY <2>4, <2>5, <2>6, <2>8, <3>1 DEF TakesUp, Summaries
    <3>3. BeingPosted' <=> BeingPosted
      BY <2>2, <2>3, <2>8, <3>1 DEF TakesUp, BeingPosted
    <3>4. Posted' = Posted
      BY <2>1, <2>8 DEF TakesUp, Posted
    <3> QED BY <1>0, <2>1, <2>7, <3>1, <3>2, <3>3, <3>4, ShownStands DEF Shown
  <2>9. CASE EndRow(w) /\ Finishes(w)
    <3>1. summaryId' = summaryId /\ headman' = headman
      BY <2>9 DEF Finishes, EndRow, attendanceVars, telegramVars
    <3>2. KeyOf(w) \in confirmed /\ KeyOf(w) \in Keys
      BY <1>0, <2>9 DEF Finishes, RecordInv, ConfirmedOnRecord, KeyOf, TypeInv, SendersOK
    <3>3. ShownRows' /\ ShownReplies'
      BY <2>4, <2>5, <2>6, <2>9, <3>2 DEF Finishes, Idle, Summaries, KeyOf
    <3>4. BeingPosted' <=> BeingPosted
      BY <2>2, <2>3, <2>9 DEF Finishes, Idle, BeingPosted, KeyOf
    <3>5. Posted' = Posted
      BY <2>1, <2>9 DEF Finishes, Posted
    <3> QED BY <1>0, <2>1, <2>7, <3>1, <3>3, <3>4, <3>5, ShownStands DEF Shown
  <2>10. CASE Send(w) /\ GoesOn(w)
    <3>1. /\ sender[w].phase = "claimed" /\ Carry(w) /\ confirmed' = confirmed /\ outbox' = outbox
          /\ summaryId' = summaryId /\ sender'[w].key = KeyOf(w) /\ sender'[w].phase = "delivered"
          /\ sender'[w].answer = Reply(w)
      BY <1>0, <2>10 DEF Send, Deliver, attendanceVars, GoesOn, KeyOf, TypeInv, OutboxTypeOK
    <3>2. /\ KeyOf(w) = Card => headman' = headman
          /\ KeyOf(w) # Card => headman'[Reply(w)] = KeyOf(w)
      BY <1>0, <3>1, CarryKeeps
    <3>3. ShownRows' /\ ShownReplies'
      BY <2>4, <2>5, <2>6, <3>1, <3>2
    <3>4. Posted' = Posted
      BY <2>1, <3>1 DEF Posted
    <3>5. CASE KeyOf(w) = Card
      <4>1. BeingPosted' <=> BeingPosted
        BY <2>2, <2>3, <3>1, <3>5 DEF BeingPosted
      <4> QED BY <1>0, <2>1, <2>7, <3>1, <3>2, <3>3, <3>4, <3>5, <4>1, ShownStands DEF Shown
    <3>6. CASE KeyOf(w) # Card
      <4>1. BeingPosted'
        BY <2>3, <3>1, <3>6
      <4>2. \A k : Newest(Posted, k) <=> Newest(Posted, k)'
        BY <3>1, <3>4 DEF Newest
      <4>3. ShownLast'
        <5>1. summaryId' # 0 <=> Posted' # {}
          BY <1>0, <3>1, <3>4 DEF ShownLast
        <5>2. Posted' # {} => \E k \in Posted' : Newest(Posted, k)'
          BY <1>0, <3>4, <4>2 DEF ShownLast
        <5> QED BY <4>1, <5>1, <5>2 DEF ShownLast
      <4> QED BY <3>3, <4>3 DEF Shown
    <3> QED BY <3>5, <3>6
  <2>11. CASE GoesOn(w) /\ (SkipRow(w) \/ Record(w)) /\ KeyOf(w) = Card
    <3>1. /\ confirmed' = confirmed \cup {Card} /\ outbox' = outbox
          /\ sender'[w].key = Card /\ sender'[w].phase = "confirmed"
          /\ sender[w].phase \in {"claimed", "delivered"}
          /\ summaryId' = summaryId /\ headman' = headman
      <4>1. Reach(w, "confirmed") /\ confirmed' = confirmed \cup {sender[w].key} /\ outbox' = outbox
            /\ sender[w].phase \in {"claimed", "delivered"}
        BY <2>11 DEF SkipRow, Record, Skip, Confirm
      <4>2. summaryId' = summaryId /\ headman' = headman
        BY <2>11 DEF SkipRow, Record, attendanceVars, telegramVars
      <4> QED BY <1>0, <2>11, <4>1, <4>2 DEF Reach, KeyOf, TypeInv, OutboxTypeOK
    <3>2. ShownRows' /\ ShownReplies'
      BY <2>4, <2>5, <2>6, <3>1 DEF Summaries
    <3>3. BeingPosted' <=> BeingPosted
      BY <2>2, <2>3, <2>11, <3>1 DEF BeingPosted
    <3>4. Posted' = Posted
      BY <2>1, <3>1 DEF Posted, Summaries
    <3> QED BY <1>0, <2>1, <2>7, <3>1, <3>2, <3>3, <3>4, ShownStands DEF Shown
  <2>12. CASE GoesOn(w) /\ Record(w) /\ KeyOf(w) # Card
    <3>1. PICK key : key = KeyOf(w)
      OBVIOUS
    <3>2. /\ confirmed' = confirmed \cup {key} /\ outbox' = outbox
          /\ sender'[w].key = key /\ sender'[w].phase = "confirmed"
          /\ sender[w].phase = "delivered"
          /\ summaryId' = sender[w].answer /\ headman' = headman
      <4>1. Reach(w, "confirmed") /\ confirmed' = confirmed \cup {key} /\ outbox' = outbox
            /\ sender[w].phase = "delivered"
        BY <2>12, <3>1 DEF Record, Confirm, KeyOf
      <4>2. summaryId' = sender[w].answer /\ headman' = headman
        BY <2>12 DEF Record, telegramVars
      <4> QED BY <1>0, <3>1, <4>1, <4>2 DEF Reach, KeyOf, TypeInv, OutboxTypeOK
    <3>3. key \in Summaries /\ key \in Keys
      BY <1>0, <2>12, <3>1, <3>2 DEF TypeInv, SendersOK, KeyOf, Summaries
    <3>4. ShownRows' /\ ShownReplies'
      BY <2>4, <2>5, <2>6, <3>1, <3>2, <3>3
    <3>5. headman'[summaryId'] = key /\ summaryId' # 0
      <4>1. headman[sender[w].answer] = key
        BY <1>0, <2>12, <3>1, <3>2 DEF ShownReplies
      <4>2. sender[w].answer \in 1..SentToHeadman
        BY <2>12, <3>2 DEF EnvelopesOK, AnswersOK
      <4> QED BY <3>2, <4>1, <4>2
    <3>6. Posted' = Posted \cup {key}
      BY <2>1, <3>2, <3>3 DEF Posted
    <3>7. ASSUME NEW j \in Posted PROVE outbox[j].id < outbox[key].id /\ outbox[j].id \in Nat
      <4>1. outbox[j].status = "sent" /\ j \in Keys
        BY <2>6, <3>2, <3>7 DEF Posted, Summaries
      <4>2. outbox[key].status = "sending"
        BY <3>1, <3>2 DEF InTurn, Idle, Holds, KeyOf
      <4>3. j \in Rowed /\ key \in Rowed /\ Before(j, key)
        BY <3>3, <4>1, <4>2 DEF Rowed, Before, Open
      <4> QED BY <1>0, <4>1, <4>3 DEF InTurn, TypeInv, OutboxTypeOK
    <3>8. outbox[key].id \in Nat
      BY <1>0, <3>3 DEF TypeInv, OutboxTypeOK
    <3>9. Newest(Posted, key)'
      BY <3>2, <3>6, <3>7, <3>8 DEF Newest
    <3>10. \A k \in Posted' : Newest(Posted, k)' => k = key
      BY <3>2, <3>6, <3>7, <3>8 DEF Newest
    <3>11. ShownLast'
      <4>1. summaryId' # 0 <=> Posted' # {}
        BY <3>5, <3>6
      <4>2. Posted' # {} => \E k \in Posted' : Newest(Posted, k)'
        BY <3>6, <3>9
      <4>3. \A k \in Posted' : Newest(Posted, k)' => headman'[summaryId'] = k
        BY <3>5, <3>10
      <4> QED BY <4>1, <4>2, <4>3 DEF ShownLast
    <3> QED BY <3>4, <3>11 DEF Shown
  <2>13. SkipRow(w) => KeyOf(w) = Card
    BY DEF SkipRow, Done
  <2> QED BY <1>3, <1>0, <2>8, <2>9, <2>10, <2>11, <2>12, <2>13, SenderTurns
<1> QED BY <1>0, <1>1, <1>2, <1>3, CalmSteps

----------------------------------------------------------------------------
LEMMA OutsideMarks ==
  ASSUME IntakeInv, Calm, Outside
  PROVE  \/ worker'.phase = "marked"
         \/ worker.phase # "marked" /\ marks' = marks
<1>1. CASE MarkOrUnmark
  BY <1>1, HandleDoes DEF MarkOrUnmark
<1>2. CASE \E p \in Users : Event(p)
  BY <1>2 DEF Event, React, Move, Write, Report, Publish, attendanceVars
<1>3. CASE Pump
  BY <1>3 DEF Pump, Fetch, Admit, Begin, RecordProcessed, WaitOver, attendanceVars
<1>4. CASE HandlerRaises
  <2>1. worker.phase = "read" /\ marks' = marks
    BY <1>4, CalmDoes DEF HandlerRaises, attendanceVars
  <2> QED BY <2>1
<1>5. CASE IgnoreReaction \/ ApplyChatMember \/ ObserveSender
  BY <1>5 DEF IgnoreReaction, ApplyChatMember, ObserveSender, Handle, attendanceVars
<1>6. CASE Tick \/ UNCHANGED vars
  BY <1>6 DEF Tick, vars, pumpVars, attendanceVars
<1> QED BY <1>1, <1>2, <1>3, <1>4, <1>5, <1>6 DEF Outside

LEMMA RightStands ==
  ASSUME LastIsRight, Written' = Written, \A k \in Written : outbox'[k].id = outbox[k].id,
         marks' = marks, work' = work, \A b \in 0..LastTime : jobs[b] = "open" => jobs'[b] = "open",
         worker.phase = "marked" => worker'.phase = "marked"
  PROVE  LastIsRight'
<1>1. Marked' = Marked
  BY DEF Marked
<1>2. \A k \in Written : Newest(Written, k) <=> Newest(Written, k)'
  BY DEF Newest
<1>3. \A text : Right(text) <=> text.present = Marked' \cap (text.present \cup text.missing)
  BY <1>1 DEF Right
<1>4. ToBeRead => ToBeRead'
  BY DEF ToBeRead
<1> QED BY <1>1, <1>2, <1>3, <1>4 DEF LastIsRight, Newest, Right

LEMMA LastIsRightKeeps ==
  ASSUME TablesInv, RecordInv, ClockOK, JobsOK, MessagesOK, EnvelopesOK, IdsOK, Calm,
         ~missed', LastIsRight, [Next]_vars
  PROVE  LastIsRight'
<1> USE BoundAssumption
<1>0. TypeInv /\ IntakeInv /\ Chronicle
  BY DEF RecordInv, TablesInv
<1>a. Written \subseteq Keys /\ Written \subseteq Rowed
  BY DEF Written, Rowed
<1>b. ASSUME outbox' = outbox PROVE Written' = Written
  BY <1>b DEF Written, Rowed
<1>1. CASE Outside
  <2>1. outbox' = outbox /\ jobs' = jobs /\ work' = work
    BY <1>1, OutsideDoes DEF outboxVars, jobVars
  <2>2. CASE worker'.phase = "marked"
    <3>1. Written' = Written /\ \A k \in Written : Newest(Written, k) => Newest(Written, k)'
      BY <1>b, <2>1 DEF Newest
    <3>2. ToBeRead'
      BY <2>2 DEF ToBeRead
    <3> QED BY <3>1, <3>2 DEF LastIsRight
  <2>3. CASE worker.phase # "marked" /\ marks' = marks
    BY <1>b, <2>1, <2>3, RightStands
  <2> QED BY <1>0, <1>1, <2>2, <2>3, OutsideMarks
<1>2. CASE EnqueueSummary
  <2>1. /\ outbox' = outbox /\ work' = work /\ worker.phase = "marked"
        /\ jobs' = [jobs EXCEPT ![Update.at] = IF @ = "absent" THEN "open" ELSE @]
        /\ jobs[Update.at] # "ended" /\ work.job # Update.at
    BY <1>2 DEF EnqueueSummary, outboxVars, Handle
  <2>2. Update.at \in 0..LastTime
    <3>1. worker.at \in 1..published /\ Update = content[worker.at] /\ Update \in Contents
      BY <1>0, <2>1, AtWork
    <3>2. Update.at <= now /\ Update.at \in Nat
      BY <1>0, <3>1 DEF Chronicle, Contents
    <3> QED BY <3>2 DEF ClockOK
  <2>3. jobs'[Update.at] = "open"
    <3>1. Update.at \in JobKeys
      BY <2>2 DEF JobKeys, CardJob
    <3> QED BY <2>1, <3>1 DEF JobsOK
  <2>4. ToBeRead'
    BY <2>1, <2>2, <2>3 DEF ToBeRead
  <2>5. Written' = Written /\ \A k \in Written : Newest(Written, k) => Newest(Written, k)'
    BY <1>b, <2>1 DEF Newest
  <2> QED BY <2>4, <2>5 DEF LastIsRight
<1>3. CASE OpenAttendance
  <2>1. /\ marks' = marks /\ work' = work /\ worker' = worker
        /\ \A b \in 0..LastTime : jobs[b] = "open" => jobs'[b] = "open"
    <3>1. \A b \in 0..LastTime : b # CardJob
      BY DEF CardJob
    <3> QED BY <1>3, <3>1 DEF OpenAttendance, attendanceVars, pumpVars, JobsOK, JobKeys, CardJob
  <2>2. \A k \in Keys \ {Card} : outbox'[k] = outbox[k]
    <3>1. NewMessage \in Ops
      BY MessageAssumption DEF NewMessage
    <3> QED BY <1>0, <1>3, <3>1, CardIsKey, EnqueueAdds DEF OpenAttendance, outboxVars
  <2>3. Written' = Written /\ \A k \in Written : outbox'[k].id = outbox[k].id
    BY <2>2 DEF Written, Rowed
  <2> QED BY <2>1, <2>3, RightStands
<1>4. ASSUME NEW b \in 0..LastTime, ReadSummary(b) PROVE LastIsRight'
  <2>1. outbox' = outbox /\ marks' = marks
    BY <1>4 DEF ReadSummary, outboxVars, attendanceVars
  <2>2. work'.text = Summary(OnRoster \cap Marked, OnRoster \ Marked) /\ work'.job = b
    BY <1>4 DEF ReadSummary
  <2>3. work' # NoWork
    BY <2>2 DEF NoWork, NoJob
  <2>4. Right(work.text)'
    <3>1. Marked' = Marked
      BY <2>1 DEF Marked
    <3> QED BY <2>2, <3>1 DEF Right, Summary
  <2>5. Written' = Written /\ \A k \in Written : Newest(Written, k) => Newest(Written, k)'
    BY <1>b, <2>1 DEF Newest
  <2> QED BY <2>3, <2>4, <2>5 DEF LastIsRight
<1>5. CASE EnqueueText
  <2>1. PICK key : key = work.text
    OBVIOUS
  <2>2. /\ work # NoWork /\ work' = NoWork /\ marks' = marks /\ worker' = worker
        /\ jobs' = [jobs EXCEPT ![work.job] = "ended"]
        /\ outbox[key].status = "absent"
    BY <1>5, <2>1 DEF EnqueueText, attendanceVars, pumpVars
  <2>3. /\ key \in Keys \ {Card} /\ work.op \in Ops /\ work.job \in 0..LastTime
    BY <2>1, <2>2, WorkHasRow
  <2>4. /\ \A j \in Keys \ {key} : outbox'[j] = outbox[j]
        /\ outbox'[key] = [status |-> "pending", id |-> NextId, attempts |-> 0, due |-> TRUE, op |-> work.op]
    BY <1>0, <1>5, <2>1, <2>2, <2>3, EnqueueAdds DEF EnqueueText
  <2>5. outbox'[key].id = NextId /\ Written' = Written \cup {key}
    <3>1. Rowed' = Rowed \cup {key} /\ outbox'[key].id = NextId
      BY <1>0, <2>2, <2>3, <2>4, IdsGrow DEF NewRow
    <3> QED BY <2>3, <3>1 DEF Written
  <2>6. ASSUME NEW j \in Written PROVE j # key /\ outbox'[j].id < NextId /\ outbox'[j].id \in Nat
    <3>1. j # key /\ outbox'[j] = outbox[j]
      BY <1>a, <2>2, <2>4, <2>6 DEF Written, Rowed
    <3> QED BY <1>0, <1>a, <2>6, <3>1 DEF IdsOK, TypeInv, OutboxTypeOK
  <2>7. NextId \in Nat
    BY NextIdIsNat
  <2>8. Newest(Written, key)' /\ \A k \in Written' : Newest(Written, k)' => k = key
    BY <2>5, <2>6, <2>7 DEF Newest
  <2>9. CASE ToBeRead
    <3>1. ToBeRead'
      <4>1. \A b \in 0..LastTime : work'.job # b
        BY <2>2 DEF NoWork, NoJob
      <4>2. \A b \in 0..LastTime : jobs[b] = "open" /\ work.job # b => jobs'[b] = "open"
        BY <2>2, <2>3 DEF JobsOK, JobKeys, CardJob
      <4> QED BY <2>2, <2>9, <4>1, <4>2 DEF ToBeRead
    <3> QED BY <2>5, <2>8, <3>1 DEF LastIsRight
  <2>10. CASE Right(key)
    <3>1. Right(key)'
      <4>1. Marked' = Marked
        BY <2>2 DEF Marked
      <4> QED BY <2>10, <4>1 DEF Right
    <3>2. \A k \in Written' : Newest(Written, k)' => Right(k)'
      BY <2>8, <3>1
    <3>3. \E k \in Written' : Newest(Written, k)'
      BY <2>5, <2>8
    <3>4. Written' # {} /\ work' = NoWork
      BY <2>2, <2>5
    <3> QED BY <3>2, <3>3, <3>4 DEF LastIsRight
  <2> QED BY <2>1, <2>2, <2>9, <2>10 DEF LastIsRight
<1>6. CASE TextConflicts
  BY <1>6 DEF TextConflicts
<1>7. CASE CloseDue
  BY <1>7, <1>b, RightStands DEF CloseDue, outboxVars, jobVars, pumpVars
<1>8. ASSUME NEW w \in Senders, Sending(w) PROVE LastIsRight'
  <2>1. Written' = Written /\ \A k \in Written : outbox'[k].id = outbox[k].id
    BY <1>0, <1>8, SendingKeepsRows DEF SameRow, Written, Rowed
  <2>2. marks' = marks /\ work' = work /\ jobs' = jobs /\ worker' = worker
    <3>1. ~SendUnanswered(w) /\ ~SendRefused(w)
      BY CalmDoes DEF SendUnanswered, SendRefused
    <3> QED BY <1>8, <3>1 DEF Sending, ClaimRow, SweepRows, SkipRow, Send, Record, EndRow, attendanceVars, jobVars, pumpVars
  <2> QED BY <2>1, <2>2, RightStands
<1>9. ASSUME NEW j \in Keys, Due(j) PROVE LastIsRight'
  <2>1. Written' = Written /\ \A k \in Written : outbox'[k].id = outbox[k].id
    BY <1>0, <1>9, DueKeepsRows DEF SameRow, Written, Rowed
  <2> QED BY <1>9, <2>1, RightStands DEF Due, attendanceVars, jobVars, pumpVars
<1> QED BY <1>1, <1>2, <1>3, <1>4, <1>5, <1>6, <1>7, <1>8, <1>9, StepsOfWork, CalmDoes

----------------------------------------------------------------------------
LEMMA SummaryInit == Init => SummaryInv
<1> SUFFICES ASSUME Init PROVE SummaryInv OBVIOUS
<1> USE BoundAssumption DEF Init, OutboxInit
<1>1. \A k \in Keys : outbox[k].status = "absent"
  BY DEF Absent
<1>2. Rowed = {} /\ Written = {} /\ Posted = {}
  BY <1>1 DEF Rowed, Written, Posted
<1>3. \A w \in Senders : sender[w] = Idle /\ sender[w].phase = "idle"
  BY DEF Idle
<1>4. IdsOK
  BY <1>2 DEF IdsOK
<1>5. InTurn
  BY <1>1, <1>2, <1>3 DEF InTurn
<1>6. ShownRows /\ ShownReplies
  BY <1>1, <1>3 DEF ShownRows, ShownReplies, Summaries
<1>7. ShownLast
  BY <1>2 DEF ShownLast
<1>8. Marked = {}
  BY DEF Marked, NoMark
<1>9. LastIsRight
  BY <1>2, <1>8 DEF LastIsRight
<1> QED BY <1>4, <1>5, <1>6, <1>7, <1>9 DEF SummaryInv, Shown

LEMMA SummaryStep ==
  ASSUME OneSender, TablesInv, WorkInv, SummaryInv, [Next]_vars PROVE SummaryInv'
<1>1. /\ troubles \in 0..MaxTroubles
      /\ RecordInv /\ ClockOK /\ JobsOK /\ MessagesOK /\ EnvelopesOK /\ IdsOK
  BY DEF WorkInv, SummaryInv
<1>2. IdsOK'
  BY <1>1, IdsKeep
<1>3. ASSUME Undisturbed' PROVE InTurn' /\ Shown' /\ LastIsRight'
  <2>1. Calm /\ ~missed' /\ Undisturbed
    <3>1. troubles' = 0 /\ troubles = 0 /\ ~missed'
      BY <1>1, <1>3, TroublesKeep DEF Undisturbed
    <3>2. missed => missed'
      <4>1. ASSUME NEW w \in Senders, Sending(w) PROVE missed' = missed
        BY <4>1 DEF Sending, ClaimRow, SweepRows, SkipRow, Send, SendUnanswered, SendRefused, Record, EndRow, historyVars
      <4>2. CASE \/ OpenAttendance \/ (\E b \in 0..LastTime : ReadSummary(b))
                 \/ CloseDue \/ (\E k \in Keys : Due(k)) \/ Crash
        BY <4>2 DEF OpenAttendance, ReadSummary, CloseDue, Due, Crash, historyVars
      <4>3. CASE EnqueueSummary \/ EnqueueText \/ TextConflicts
        BY <4>3 DEF EnqueueSummary, EnqueueText, TextConflicts
      <4> QED BY <4>1, <4>2, <4>3, StepsOfWork, OutsideDoes
    <3> QED BY <1>1, <3>1, <3>2 DEF Calm, Undisturbed
  <2>2. InTurn /\ Shown /\ LastIsRight
    BY <2>1 DEF SummaryInv
  <2>3. InTurn' /\ Shown'
    BY <1>1, <2>1, <2>2, InTurnKeeps, ShownKeeps
  <2>4. LastIsRight'
    BY <1>1, <2>1, <2>2, LastIsRightKeeps
  <2> QED BY <2>3, <2>4
<1> QED BY <1>2, <1>3 DEF SummaryInv

LEMMA SummaryTells ==
  ASSUME TablesInv, WorkInv, SummaryInv PROVE SummaryIsCurrent
<1>1. SUFFICES ASSUME Undisturbed, Quiet
               PROVE  /\ Marked # {} => summaryId # 0
                      /\ summaryId # 0 =>
                           headman[summaryId].present = Marked \cap (headman[summaryId].present \cup
                                                                     headman[summaryId].missing)
  BY DEF SummaryIsCurrent, Undisturbed
<1>2. InTurn /\ ShownRows /\ ShownLast /\ LastIsRight /\ work = NoWork
  BY <1>1 DEF SummaryInv, Shown, Quiet
<1>3. ~ToBeRead
  <2>1. worker.phase # "marked"
    <3>1. SUFFICES ASSUME worker.phase = "marked" PROVE FALSE
      OBVIOUS
    <3>2. worker.at \in 1..published /\ inbox[worker.at].status = "open"
      BY <3>1, AtWork, InHand DEF TablesInv
    <3> QED BY <1>1, <3>2 DEF Quiet
  <2>2. \A b \in 0..LastTime : jobs[b] # "open"
    BY <1>1, BoundAssumption DEF Quiet, JobKeys, CardJob
  <2> QED BY <2>1, <2>2 DEF ToBeRead
<1>4. Posted = Written
  <2>1. \A w \in Senders : sender[w].phase # "confirmed"
    BY <1>1 DEF Quiet, Idle
  <2>2. \A k \in Keys : outbox[k].status \in {"absent", "sent"}
    BY <1>1, <1>2 DEF Quiet, InTurn, Open, WorkInv, RecordInv, TypeInv, OutboxTypeOK
  <2> QED BY <1>2, <2>1, <2>2 DEF ShownRows, Posted, Written, Rowed, Summaries
<1>5. ~BeingPosted
  BY <1>1 DEF Quiet, Idle, BeingPosted
<1>6. CASE Written = {} /\ Marked = {}
  BY <1>2, <1>4, <1>6 DEF ShownLast
<1>7. CASE Written # {} /\ \A k \in Written : Newest(Written, k) => Right(k)
  <2>1. PICK k \in Written : Newest(Written, k)
    BY <1>2, <1>7 DEF LastIsRight
  <2>2. summaryId # 0 /\ headman[summaryId] = k
    BY <1>2, <1>4, <1>5, <1>7, <2>1 DEF ShownLast
  <2>3. Right(k)
    BY <1>7, <2>1
  <2> QED BY <2>2, <2>3 DEF Right
<1> QED BY <1>2, <1>3, <1>6, <1>7 DEF LastIsRight

\* With one outbox worker, whatever the order of reactions, jobs and sends: once a calm process
\* has nothing left to do, the headman's message tells who of those it lists is marked, and
\* there is one if anybody is marked (AttendanceService.apply_reaction and attendance_summary
\* of ApplicationJobHandlers; ApplicationTelegramSender.confirm).
THEOREM SummaryFollowsMarks == ASSUME OneSender PROVE Spec => []SummaryIsCurrent
<1>1. TablesInv /\ WorkInv /\ SummaryInv => SummaryIsCurrent
  BY SummaryTells
<1>2. TablesInv /\ WorkInv /\ SummaryInv /\ [Next]_vars => SummaryInv'
  BY SummaryStep
<1> QED BY <1>1, <1>2, TablesInit, TablesStep, WorkInit, WorkStep, SummaryInit, PTL DEF Spec

----------------------------------------------------------------------------
(***************************************************************************)
(* The outbox under attendance                                             *)
(***************************************************************************)
\* The session that keeps a sender from sending the card again was opened by a confirmation of
\* that card's own row.
CardOnRecord == session # NoSession => Card \in confirmed

LEMMA SkipIsStep ==
  ASSUME CardOnRecord, NEW w \in Senders, SkipRow(w)
  PROVE  OutboxNext
<1> QED BY DEF CardOnRecord, SkipRow, Done, KeyOf, OutboxNext

LEMMA CardStaysOnRecord ==
  ASSUME RecordInv, JobsOK, MessagesOK, EnvelopesOK, CardOnRecord, [Next]_vars
  PROVE  CardOnRecord'
<1>1. confirmed \subseteq confirmed'
  BY StepsOfOutbox, SkipIsStep, RecordsGrow DEF Crash
<1>2. CASE session' = session
  BY <1>1, <1>2 DEF CardOnRecord
<1>3. CASE CloseDue
  <2>1. session # NoSession
    BY <1>3 DEF CloseDue, NoSession
  <2> QED BY <1>1, <2>1 DEF CardOnRecord
<1>4. ASSUME NEW w \in Senders, Record(w), KeyOf(w) = Card PROVE CardOnRecord'
  BY <1>4 DEF Record, Confirm, KeyOf, CardOnRecord
<1>5. CASE \/ Outside \/ EnqueueSummary \/ OpenAttendance \/ (\E b \in 0..LastTime : ReadSummary(b))
           \/ EnqueueText \/ TextConflicts \/ (\E k \in Keys : Due(k)) \/ Crash
  BY <1>2, <1>5, OutsideDoes
     DEF EnqueueSummary, OpenAttendance, ReadSummary, EnqueueText, TextConflicts, Due, Crash, attendanceVars
<1>6. ASSUME NEW w \in Senders, Sending(w) PROVE session' = session \/ (Record(w) /\ KeyOf(w) = Card)
  BY <1>6 DEF Sending, ClaimRow, SweepRows, SkipRow, Send, SendUnanswered, SendRefused, Record, EndRow, attendanceVars
<1> QED BY <1>2, <1>3, <1>4, <1>5, <1>6, StepsOfWork

\* Attendance, its jobs and its senders use the outbox as it is meant: what their confirmations
\* find done was sent by an attempt of that row, and the outbox still implements the mailbox,
\* crashes included. (ApplicationTelegramSender.send, OutboxWorker.run_once)
THEOREM AttendanceImplementsMailbox == Spec => ImplementsMailbox
<1>1. Init => MailInv /\ CardOnRecord /\ Mailbox!Init
  BY InitMail, InitIsMailbox DEF Init, CardOnRecord
<1>2. ASSUME WorkInv, MailInv, CardOnRecord, [Next]_vars
      PROVE  MailInv' /\ CardOnRecord' /\ [Mailbox!Next]_(Mailbox!vars)
  <2>1. RecordInv /\ JobsOK /\ MessagesOK /\ EnvelopesOK
    BY <1>2 DEF WorkInv
  <2>2. CardOnRecord'
    BY <1>2, <2>1, CardStaysOnRecord
  <2>3. [OutboxNext]_outboxVars \/ Crash
    BY <1>2, <2>1, StepsOfOutbox, SkipIsStep
  <2>4. CASE [OutboxNext]_outboxVars
    BY <1>2, <2>2, <2>4, StepAnswered, StepIsMailbox
  <2>5. CASE Crash
    BY <1>2, <2>2, <2>5, AllIdleKeepsMail, AllIdleIsMailbox DEF Crash
  <2> QED BY <2>3, <2>4, <2>5
<1> QED BY <1>1, <1>2, TablesInit, TablesStep, WorkInit, WorkStep, PTL
        DEF Spec, ImplementsMailbox, Mailbox!Spec

====
