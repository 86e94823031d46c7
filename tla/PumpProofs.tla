---- MODULE PumpProofs ----
(***************************************************************************)
(* Lemmas about UpdatePump, for any number of updates, any limit of a      *)
(* poll, any number of attempts and any phases of a handler: what its      *)
(* actions keep, for the modules that conjoin their own to them.           *)
(***************************************************************************)
EXTENDS UpdatePump, WellFoundedInduction, TLAPS

InboxRows == [status : {"absent", "open", "processed", "failed"}, attempts : 0..MaxTries, due : BOOLEAN]

WorkerStates == [list : SUBSET Updates, at : {NoUpdate} \cup Updates, phase : Phases]

OnRecord(u) == inbox[u].status # "absent"

\* PumpTypeOK but for the number of troubles.
IntakeTypeOK ==
  /\ published \in 0..LastUpdate /\ forgotten \in 0..published
  /\ poller \in [offset : 0..LastUpdate + 1, batch : SUBSET Updates]
  /\ inbox \in [Updates -> InboxRows]
  /\ worker \in WorkerStates

\* The offset and what Telegram has dropped do not outrun the inbox; the inbox and the batch
\* about to be admitted to it have no gaps.
NoGaps ==
  /\ poller.offset <= published + 1
  /\ \A u \in Updates : u < poller.offset => OnRecord(u)
  /\ \A u, v \in Updates : u <= v /\ OnRecord(v) => OnRecord(u)
  /\ \A u \in Updates, v \in poller.batch : u <= v => u \in poller.batch \/ OnRecord(u)
  /\ \A u \in Updates : OnRecord(u) \/ u \in poller.batch => u <= published

\* What the worker has read and what it has in hand is open, and nothing but its own reports
\* closes it.
WorkerHolds ==
  /\ \A u \in worker.list : inbox[u].status = "open"
  /\ worker.phase = "idle" <=> worker.at = NoUpdate
  /\ worker.phase # "idle" => inbox[worker.at].status = "open" /\ worker.at \notin worker.list

\* A row that is open can be tried once more, and one that is not there has not been tried.
AttemptsLeft ==
  \A u \in Updates : /\ inbox[u].status = "open" => inbox[u].attempts < MaxTries
                     /\ inbox[u].status = "absent" => inbox[u].attempts = 0

IntakeInv == IntakeTypeOK /\ NoGaps /\ WorkerHolds /\ AttemptsLeft /\ NothingForgotten

LEMMA PumpTyped == IntakeInv /\ troubles \in 0..MaxTroubles => PumpTypeOK
<1> QED BY DEF IntakeInv, IntakeTypeOK, PumpTypeOK, InboxRows, WorkerStates

LEMMA PumpTypedGives == PumpTypeOK => IntakeTypeOK /\ troubles \in 0..MaxTroubles
<1> QED BY DEF IntakeTypeOK, PumpTypeOK, InboxRows, WorkerStates

\* A set of updates that is not empty has a greatest one.
LEMMA GreatestUpdate ==
  ASSUME NEW S \in SUBSET Updates, S # {}
  PROVE  /\ Max(S) \in S
         /\ \A u \in S : u <= Max(S)
<1> DEFINE Bounds == {n \in Nat : \A u \in S : u <= n}
<1>1. LastUpdate \in Bounds
  BY PumpAssumption DEF Updates
<1>2. IsWellFoundedOn(OpToRel(<, Nat), Nat)
  BY NatLessThanWellFounded
<1>3. PICK n \in Bounds : \A m \in Bounds : ~(<<m, n>> \in OpToRel(<, Nat))
  <2>1. Bounds \subseteq Nat /\ Bounds # {}
    BY <1>1
  <2> HIDE DEF Bounds
  <2> QED BY <1>2, <2>1, WFMin
<1>4. \A m \in Bounds : ~(m < n)
  BY <1>3 DEF OpToRel
<1>5. n \in S
  <2>1. SUFFICES ASSUME n \notin S PROVE FALSE
    OBVIOUS
  <2>2. PICK u \in S : TRUE
    OBVIOUS
  <2>3. u \in 1..LastUpdate /\ u <= n /\ n \in Nat
    BY <2>2, <1>3 DEF Updates
  <2>4. n - 1 \in Bounds
    BY <2>1, <2>3, PumpAssumption DEF Updates
  <2> QED BY <1>4, <2>3, <2>4
<1>6. \E x \in S : \A y \in S : x >= y
  <2>1. \A y \in S : n >= y
    BY <1>3 DEF Updates
  <2> QED BY <1>5, <2>1
<1>7. Max(S) \in S /\ \A y \in S : Max(S) >= y
  BY <1>6 DEF Max
<1> QED BY <1>7, PumpAssumption DEF Updates

\* And a least one.
LEMMA LeastUpdate ==
  ASSUME NEW S \in SUBSET Updates, S # {}
  PROVE  Min(S) \in S /\ \A u \in S : Min(S) <= u
<1>1. IsWellFoundedOn(OpToRel(<, Nat), Nat)
  BY NatLessThanWellFounded
<1>2. S \subseteq Nat
  BY DEF Updates
<1>3. PICK n \in S : \A m \in S : ~(<<m, n>> \in OpToRel(<, Nat))
  BY <1>1, <1>2, WFMin
<1>4. \A m \in S : ~(m < n)
  BY <1>2, <1>3 DEF OpToRel
<1>5. \E x \in S : \A y \in S : x <= y
  <2>1. \A y \in S : n <= y
    BY <1>2, <1>4
  <2> QED BY <2>1
<1>6. Min(S) \in S /\ \A y \in S : Min(S) <= y
  BY <1>5 DEF Min
<1> QED BY <1>6

\* The update in hand is one of those that are published.
LEMMA InHand ==
  ASSUME IntakeInv, worker.phase # "idle"
  PROVE  /\ worker.at \in Updates /\ worker.at \in 1..published
         /\ inbox[worker.at].status = "open" /\ OnRecord(worker.at)
<1>1. worker.at \in Updates /\ inbox[worker.at].status = "open"
  BY DEF IntakeInv, IntakeTypeOK, WorkerHolds, WorkerStates
<1>2. worker.at \in 1..published
  BY <1>1, PumpAssumption DEF IntakeInv, IntakeTypeOK, NoGaps, OnRecord, Updates
<1> QED BY <1>1, <1>2 DEF OnRecord

----------------------------------------------------------------------------
(***************************************************************************)
(* The steps of the pump                                                   *)
(***************************************************************************)
\* A step that takes no row from the inbox and adds none keeps what is known of it, as long
\* as the offset and what Telegram has dropped stay where they are.
LEMMA SameRows ==
  ASSUME IntakeInv, \A u \in Updates : OnRecord(u)' <=> OnRecord(u),
         UNCHANGED <<published, forgotten, poller>>
  PROVE  NoGaps' /\ NothingForgotten'
<1>1. NoGaps'
  BY DEF IntakeInv, IntakeTypeOK, NoGaps
<1>2. ASSUME NEW u \in 1..forgotten PROVE inbox'[u].status # "absent"
  <2>1. u \in Updates
    BY <1>2, PumpAssumption DEF IntakeInv, IntakeTypeOK, Updates
  <2> QED BY <1>2, <2>1 DEF IntakeInv, NothingForgotten, OnRecord
<1> QED BY <1>1, <1>2 DEF NothingForgotten

LEMMA PublishKeeps ==
  ASSUME IntakeInv, Publish PROVE IntakeInv'
<1> USE PumpAssumption DEF IntakeInv, IntakeTypeOK
<1>1. published' = published + 1 /\ published' \in 0..LastUpdate /\ UNCHANGED <<forgotten, poller, inbox, worker>>
  BY DEF Publish
<1>2. NoGaps'
  BY <1>1 DEF NoGaps, OnRecord, Updates
<1> QED BY <1>1, <1>2 DEF WorkerHolds, AttemptsLeft, NothingForgotten

LEMMA FetchKeeps ==
  ASSUME IntakeInv, Fetch PROVE IntakeInv'
<1> USE PumpAssumption DEF IntakeInv, IntakeTypeOK
<1>1. /\ forgotten' = Dropped /\ Dropped \in 0..published
      /\ \A u \in Updates : u <= Dropped => OnRecord(u)
  <2>1. CASE poller.offset > forgotten + 1
    BY <2>1 DEF Fetch, Dropped, NoGaps, Updates
  <2>2. CASE ~(poller.offset > forgotten + 1)
    BY <2>2 DEF Fetch, Dropped, NothingForgotten, OnRecord, Updates
  <2> QED BY <2>1, <2>2
<1>2. /\ inbox' = inbox /\ worker' = worker
      /\ published' = published
      /\ poller'.offset = poller.offset /\ poller'.batch = Batch
      /\ poller' \in [offset : 0..LastUpdate + 1, batch : SUBSET Updates]
  BY DEF Fetch, Batch
<1>3. \A u \in Updates, v \in Batch : u <= v => u \in Batch \/ OnRecord(u)
  <2>1. SUFFICES ASSUME NEW u \in Updates, NEW v \in Batch, u <= v, ~OnRecord(u) PROVE u \in Batch
    OBVIOUS
  <2>2. v \in Updates /\ v <= published /\ v <= Dropped + Limit /\ Dropped < u
    BY <1>1, <2>1 DEF Batch, Updates
  <2>3. u <= published /\ u <= Dropped + Limit
    BY <1>1, <2>1, <2>2 DEF Updates
  <2> QED BY <2>2, <2>3 DEF Batch
<1>4. NoGaps'
  BY <1>1, <1>2, <1>3 DEF NoGaps, OnRecord, Batch
<1>5. NothingForgotten' /\ WorkerHolds' /\ AttemptsLeft'
  BY <1>1, <1>2 DEF NothingForgotten, WorkerHolds, AttemptsLeft, OnRecord, Updates
<1> QED BY <1>1, <1>2, <1>4, <1>5

LEMMA AdmitKeeps ==
  ASSUME IntakeInv, Admit PROVE IntakeInv'
<1> USE PumpAssumption DEF IntakeInv, IntakeTypeOK
<1>1. /\ Max(poller.batch) \in poller.batch
      /\ \A u \in poller.batch : u <= Max(poller.batch)
      /\ Max(poller.batch) <= published /\ Max(poller.batch) \in Updates
  BY GreatestUpdate DEF Admit, NoGaps
<1>2. /\ poller'.offset = Max(poller.batch) + 1 /\ poller'.batch = {}
      /\ poller' \in [offset : 0..LastUpdate + 1, batch : SUBSET Updates]
      /\ poller'.offset <= published + 1
      /\ UNCHANGED <<published, forgotten, worker>>
  BY <1>1 DEF Admit, Updates
<1>3. /\ inbox' \in [Updates -> InboxRows]
      /\ \A u \in Updates : OnRecord(u)' <=> OnRecord(u) \/ u \in poller.batch
      /\ \A u \in Updates : inbox'[u] = inbox[u]
           \/ (inbox[u].status = "absent" /\ inbox'[u].status = "open" /\ inbox'[u].attempts = 0)
  BY DEF Admit, OnRecord, InboxRows
<1>4. \A u \in Updates : u <= Max(poller.batch) => OnRecord(u)'
  BY <1>1, <1>3 DEF NoGaps
<1>5. \A u \in Updates : u < poller'.offset => OnRecord(u)'
  BY <1>1, <1>2, <1>4 DEF Updates
<1>6. \A u, v \in Updates : u <= v /\ OnRecord(v)' => OnRecord(u)'
  BY <1>3 DEF NoGaps
<1>7. NothingForgotten'
  <2>1. forgotten' = forgotten /\ \A u \in 1..forgotten : u \in Updates
    BY <1>2 DEF Updates
  <2> QED BY <1>3, <2>1 DEF NothingForgotten, OnRecord
<1>8. NoGaps'
  <2>1. \A u \in Updates : OnRecord(u)' \/ u \in poller'.batch => u <= published'
    BY <1>2, <1>3 DEF NoGaps
  <2> QED BY <1>2, <1>5, <1>6, <2>1 DEF NoGaps
<1>9. WorkerHolds'
  BY <1>2, <1>3 DEF WorkerHolds, WorkerStates, Phases
<1>10. AttemptsLeft'
  BY <1>3 DEF AttemptsLeft
<1> QED BY <1>2, <1>3, <1>7, <1>8, <1>9, <1>10

LEMMA BeginKeeps ==
  ASSUME IntakeInv, Begin PROVE IntakeInv'
<1> USE DEF IntakeInv, IntakeTypeOK
<1>1. Backlog \in SUBSET Updates /\ \A u \in Backlog : inbox[u].status = "open"
  BY DEF Backlog, Ready, WorkerHolds, WorkerStates
<1>2. Min(Backlog) \in Backlog
  BY <1>1, LeastUpdate DEF Begin
<1>3. worker' = [list |-> Backlog \ {Min(Backlog)}, at |-> Min(Backlog), phase |-> "read"]
      /\ inbox' = inbox /\ UNCHANGED <<published, forgotten, poller>>
  BY DEF Begin
<1>4. Min(Backlog) # NoUpdate
  BY <1>1, <1>2, PumpAssumption DEF Updates, NoUpdate
<1>5. WorkerHolds'
  BY <1>1, <1>2, <1>3, <1>4 DEF WorkerHolds
<1>6. NoGaps' /\ NothingForgotten'
  BY <1>3, SameRows DEF OnRecord
<1>7. worker' \in WorkerStates
  BY <1>1, <1>2, <1>3 DEF WorkerStates, Phases
<1> QED BY <1>3, <1>5, <1>6, <1>7 DEF AttemptsLeft

\* A report of the worker closes the row in hand or puts it back.
LEMMA ReportKeeps ==
  ASSUME IntakeInv, worker.phase # "idle", worker' = LetGo, UNCHANGED <<published, forgotten, poller>>,
         NEW row \in InboxRows, row.status # "absent",
         row.status = "open" => row.attempts < MaxTries,
         inbox' = [inbox EXCEPT ![worker.at] = row]
  PROVE  IntakeInv'
<1> USE DEF IntakeInv, IntakeTypeOK
<1>1. worker.at \in Updates /\ OnRecord(worker.at)
  BY InHand
<1>2. inbox' \in [Updates -> InboxRows] /\ \A u \in Updates : OnRecord(u)' <=> OnRecord(u)
  BY <1>1 DEF OnRecord
<1>3. NoGaps' /\ NothingForgotten'
  BY <1>2, SameRows
<1>4. AttemptsLeft'
  BY <1>1 DEF AttemptsLeft
<1>5. /\ worker' \in WorkerStates /\ worker'.phase = "idle" /\ worker'.at = NoUpdate
      /\ worker'.list = worker.list
  BY DEF LetGo, WorkerStates, Phases
<1>6. WorkerHolds'
  BY <1>1, <1>5 DEF WorkerHolds, WorkerStates
<1> QED BY <1>2, <1>3, <1>4, <1>5, <1>6

LEMMA ProcessedKeeps ==
  ASSUME IntakeInv, RecordProcessed
  PROVE  /\ IntakeInv'
         /\ inbox'[worker.at].status = "processed"
         /\ \A u \in Updates : u # worker.at => inbox'[u] = inbox[u]
<1>1. worker.phase # "idle" /\ worker.phase = "handled" /\ inbox \in [Updates -> InboxRows]
  BY DEF RecordProcessed, IntakeInv, IntakeTypeOK
<1>2. worker.at \in Updates
  BY <1>1, InHand
<1> DEFINE row == [inbox[worker.at] EXCEPT !.status = "processed"]
<1>3. row \in InboxRows /\ row.status = "processed"
  BY <1>1, <1>2 DEF InboxRows
<1>4. inbox' = [inbox EXCEPT ![worker.at] = row] /\ worker' = LetGo /\ UNCHANGED <<published, forgotten, poller>>
  BY DEF RecordProcessed
<1> HIDE DEF row
<1>5. IntakeInv'
  BY <1>1, <1>3, <1>4, ReportKeeps
<1> QED BY <1>1, <1>2, <1>3, <1>4, <1>5

LEMMA FailureKeeps ==
  ASSUME IntakeInv, RecordFailure
  PROVE  /\ IntakeInv'
         /\ inbox'[worker.at].status \in {"open", "failed"}
         /\ \A u \in Updates : u # worker.at => inbox'[u] = inbox[u]
<1>1. worker.phase # "idle" /\ inbox \in [Updates -> InboxRows]
  BY PumpAssumption DEF RecordFailure, IntakeInv, IntakeTypeOK
<1>2. worker.at \in Updates /\ inbox[worker.at].status = "open"
  BY <1>1, InHand
<1>3. inbox[worker.at].attempts \in Nat /\ inbox[worker.at].attempts < MaxTries
  BY <1>1, <1>2, PumpAssumption DEF IntakeInv, AttemptsLeft, InboxRows
<1> DEFINE row == [status |-> IF inbox[worker.at].attempts + 1 >= MaxTries THEN "failed" ELSE "open",
                   attempts |-> inbox[worker.at].attempts + 1, due |-> FALSE]
<1>4. row \in InboxRows /\ row.status \in {"open", "failed"} /\ (row.status = "open" => row.attempts < MaxTries)
  BY <1>3, PumpAssumption DEF InboxRows
<1>5. inbox' = [inbox EXCEPT ![worker.at] = row] /\ worker' = LetGo /\ UNCHANGED <<published, forgotten, poller>>
  BY DEF RecordFailure
<1> HIDE DEF row
<1>6. IntakeInv'
  BY <1>1, <1>4, <1>5, ReportKeeps
<1> QED BY <1>1, <1>2, <1>4, <1>5, <1>6

LEMMA WaitKeeps ==
  ASSUME IntakeInv, NEW u \in Updates, WaitOver(u)
  PROVE  /\ IntakeInv'
         /\ \A v \in Updates : inbox'[v].status = inbox[v].status /\ inbox'[v].attempts = inbox[v].attempts
<1> USE DEF IntakeInv, IntakeTypeOK
<1>1. [inbox[u] EXCEPT !.due = TRUE] \in InboxRows
      /\ [inbox[u] EXCEPT !.due = TRUE].status = inbox[u].status
      /\ [inbox[u] EXCEPT !.due = TRUE].attempts = inbox[u].attempts
  BY DEF InboxRows
<1>2. inbox' = [inbox EXCEPT ![u] = [inbox[u] EXCEPT !.due = TRUE]]
      /\ UNCHANGED <<published, forgotten, poller, worker>>
  BY DEF WaitOver
<1>3. \A v \in Updates : inbox'[v].status = inbox[v].status /\ inbox'[v].attempts = inbox[v].attempts
  BY <1>1, <1>2
<1>4. NoGaps' /\ NothingForgotten'
  BY <1>2, <1>3, SameRows DEF OnRecord
<1>5. WorkerHolds' /\ AttemptsLeft'
  BY <1>2, <1>3, InHand DEF WorkerHolds, AttemptsLeft, WorkerStates
<1> QED BY <1>1, <1>2, <1>3, <1>4, <1>5

\* A transaction of a handler leaves the update in hand, and changes nothing but the phase.
LEMMA HandleKeeps ==
  ASSUME IntakeInv, NEW from \in Phases \ {"idle"}, NEW to \in Phases \ {"idle"}, Handle(from, to)
  PROVE  /\ IntakeInv'
         /\ worker.phase = from /\ worker'.phase = to
         /\ worker'.list = worker.list /\ worker'.at = worker.at
         /\ UNCHANGED <<published, forgotten, poller, inbox>>
<1> USE DEF IntakeInv, IntakeTypeOK
<1>1. /\ worker' \in WorkerStates
      /\ worker'.list = worker.list /\ worker'.at = worker.at /\ worker.phase = from /\ worker'.phase = to
      /\ inbox' = inbox /\ UNCHANGED <<published, forgotten, poller>>
  BY DEF Handle, WorkerStates
<1>2. NoGaps' /\ NothingForgotten'
  BY <1>1, SameRows DEF OnRecord
<1>3. WorkerHolds' /\ AttemptsLeft'
  BY <1>1 DEF WorkerHolds, AttemptsLeft
<1> QED BY <1>1, <1>2, <1>3

\* A new process starts at the end of what is in the inbox.
LEMMA RestartKeeps ==
  ASSUME IntakeInv, Restart
  PROVE  IntakeInv' /\ worker' = Resting /\ UNCHANGED <<published, inbox>>
<1> USE PumpAssumption DEF IntakeInv, IntakeTypeOK
<1>1. UNCHANGED <<inbox, published, forgotten>> /\ worker' = Resting
      /\ poller' = [offset |-> InitialOffset, batch |-> {}]
  BY DEF Restart
<1>2. /\ InitialOffset \in 0..LastUpdate + 1 /\ InitialOffset <= published + 1
      /\ \A u \in Updates : u < InitialOffset => OnRecord(u)
  <2>1. CASE Admitted = {}
    BY <2>1 DEF InitialOffset, Updates
  <2>2. CASE Admitted # {}
    <3>1. Admitted \in SUBSET Updates /\ Max(Admitted) \in Admitted
      BY <2>2, GreatestUpdate DEF Admitted
    <3>2. Max(Admitted) \in Updates /\ OnRecord(Max(Admitted))
      BY <3>1 DEF Admitted, OnRecord
    <3>3. \A u \in Updates : u <= Max(Admitted) => OnRecord(u)
      BY <3>2 DEF NoGaps
    <3>4. InitialOffset = Max(Admitted) + 1 /\ Max(Admitted) <= published
      BY <2>2, <3>2 DEF InitialOffset, NoGaps
    <3> QED BY <3>2, <3>3, <3>4 DEF Updates
  <2> QED BY <2>1, <2>2
<1>3. NoGaps'
  BY <1>1, <1>2 DEF NoGaps, OnRecord
<1>4. NothingForgotten' /\ WorkerHolds' /\ AttemptsLeft'
  BY <1>1 DEF NothingForgotten, WorkerHolds, AttemptsLeft, Resting
<1>5. worker' \in WorkerStates
  BY <1>1 DEF Resting, Phases, WorkerStates
<1>6. poller' \in [offset : 0..LastUpdate + 1, batch : SUBSET Updates]
  BY <1>1, <1>2
<1> QED BY <1>1, <1>3, <1>4, <1>5, <1>6

LEMMA PumpInitInv == PumpInit => IntakeInv /\ troubles \in 0..MaxTroubles
<1> SUFFICES ASSUME PumpInit PROVE IntakeInv /\ troubles \in 0..MaxTroubles OBVIOUS
<1> USE PumpAssumption DEF PumpInit
<1>1. NoRow \in InboxRows /\ NoRow.status = "absent" /\ NoRow.attempts = 0
  BY DEF NoRow, InboxRows
<1>2. IntakeTypeOK
  BY <1>1 DEF IntakeTypeOK, Resting, Phases, WorkerStates
<1>3. NoGaps
  BY <1>1 DEF NoGaps, OnRecord, Updates
<1>4. WorkerHolds /\ AttemptsLeft /\ NothingForgotten
  BY <1>1 DEF WorkerHolds, AttemptsLeft, NothingForgotten, Resting
<1> QED BY <1>2, <1>3, <1>4 DEF IntakeInv

\* What does not touch the pump keeps its invariant.
LEMMA PumpStands ==
  ASSUME IntakeInv, UNCHANGED <<published, forgotten, poller, inbox, worker>>
  PROVE  IntakeInv'
<1> QED BY DEF IntakeInv, IntakeTypeOK, NoGaps, WorkerHolds, AttemptsLeft, NothingForgotten, OnRecord

====
