---- MODULE UpdatePump ----
(***************************************************************************)
(* The intake of Telegram updates: long polling into a durable inbox       *)
(* (DurableUpdatePump.poll_once, admit) and a worker that dispatches the   *)
(* rows one by one (process_ready).  Telegram forgets an update once it is *)
(* asked for a later one, so the offset must not outrun the inbox.         *)
(*                                                                         *)
(* Update ids are consecutive.  The handlers belong to the modules that    *)
(* extend this one: they conjoin their transactions to Handle, and may     *)
(* pass through phases of their own (MidPhases) between two transactions.  *)
(***************************************************************************)
EXTENDS Naturals, FiniteSets, FiniteSetsExt

CONSTANTS
  LastUpdate,   \* bound: updates Telegram will ever have
  Limit,        \* of get_updates
  MaxTries,     \* max_attempts of DurableUpdatePump
  MidPhases,    \* where a handler stands between two of its transactions
  MaxTroubles   \* bound: failures and restarts

ASSUME PumpAssumption ==
  /\ LastUpdate \in Nat /\ MaxTroubles \in Nat
  /\ Limit \in Nat \ {0} /\ MaxTries \in Nat \ {0}
  /\ MidPhases \cap {"idle", "read", "handled"} = {}

Updates == 1..LastUpdate

VARIABLES
  published,   \* Telegram: updates 1 .. published exist
  forgotten,   \* Telegram: the first of them are gone, an offset beyond them was used
  poller,      \* task _poll_updates: its offset, and what it has fetched
  inbox,       \* tables inbox_updates and processed_updates
  worker,      \* task _process_updates: the ids it has read, and the one in hand
  troubles     \* history: failures and restarts so far

pumpVars == <<published, forgotten, poller, inbox, worker, troubles>>

NoUpdate == 0

NoRow == [status |-> "absent", attempts |-> 0, due |-> FALSE]

Phases == {"idle", "read", "handled"} \cup MidPhases

PumpTypeOK ==
  /\ published \in 0..LastUpdate
  /\ forgotten \in 0..published
  /\ poller \in [offset : 0..LastUpdate + 1, batch : SUBSET Updates]
  /\ inbox \in [Updates -> [status : {"absent", "open", "processed", "failed"},
                            attempts : 0..MaxTries, due : BOOLEAN]]
  /\ worker \in [list : SUBSET Updates, at : {NoUpdate} \cup Updates, phase : Phases]
  /\ troubles \in 0..MaxTroubles

Resting == [list |-> {}, at |-> NoUpdate, phase |-> "idle"]

PumpInit ==
  /\ published = 0
  /\ forgotten = 0
  /\ poller = [offset |-> 0, batch |-> {}]
  /\ inbox = [u \in Updates |-> NoRow]
  /\ worker = Resting
  /\ troubles = 0

Publish ==
  /\ published < LastUpdate
  /\ published' = published + 1
  /\ UNCHANGED <<forgotten, poller, inbox, worker, troubles>>

(***************************************************************************)
(* Polling.  Offset 0 stands for none: Telegram starts where it forgot.    *)
(* A poll without a reply changes nothing the next one does not.           *)
(***************************************************************************)
\* What Telegram drops when it is asked with this offset.
Dropped == IF poller.offset > forgotten + 1 THEN poller.offset - 1 ELSE forgotten

\* The reply: the earliest updates from the offset on.
Batch == {u \in Updates : Dropped < u /\ u <= published /\ u <= Dropped + Limit}

\* Mutant of Fetch: the offset moves on before the batch is stored.
FetchAdvancing ==
  /\ poller.batch = {}
  /\ Batch # {}
  /\ forgotten' = Max(Batch)
  /\ poller' = [offset |-> Max(Batch) + 1, batch |-> Batch]
  /\ UNCHANGED <<published, inbox, worker, troubles>>

Fetch ==
  /\ poller.batch = {}
  /\ Batch # {}
  /\ forgotten' = Dropped
  /\ poller' = [poller EXCEPT !.batch = Batch]
  /\ UNCHANGED <<published, inbox, worker, troubles>>

\* One transaction for the batch; a row that is there stays as it is.
Admit ==
  /\ poller.batch # {}
  /\ inbox' = [u \in Updates |->
       IF u \in poller.batch /\ inbox[u].status = "absent"
         THEN [status |-> "open", attempts |-> 0, due |-> TRUE]
         ELSE inbox[u]]
  /\ poller' = [offset |-> Max(poller.batch) + 1, batch |-> {}]
  /\ UNCHANGED <<published, forgotten, worker, troubles>>

(***************************************************************************)
(* Dispatching, in the order of arrival, which is that of the ids.         *)
(***************************************************************************)
\* Mutant of Ready: only what has not been tried.
ReadyUntried == {u \in Updates : inbox[u].status = "open" /\ inbox[u].due /\ inbox[u].attempts = 0}

Ready == {u \in Updates : inbox[u].status = "open" /\ inbox[u].due}

\* What is left of the ids process_ready has read, or else what it reads now.
Backlog == IF worker.list = {} THEN Ready ELSE worker.list

Begin ==
  /\ worker.phase = "idle"
  /\ Backlog # {}
  /\ worker' = [list |-> Backlog \ {Min(Backlog)}, at |-> Min(Backlog), phase |-> "read"]
  /\ UNCHANGED <<published, forgotten, poller, inbox, troubles>>

\* A transaction of the handler, from one phase to the next.
Handle(from, to) ==
  /\ worker.phase = from
  /\ worker' = [worker EXCEPT !.phase = to]
  /\ UNCHANGED <<published, forgotten, poller, inbox, troubles>>

LetGo == [worker EXCEPT !.at = NoUpdate, !.phase = "idle"]

\* record_processed_update: the result once, and the row is closed.
RecordProcessed ==
  /\ worker.phase = "handled"
  /\ inbox' = [inbox EXCEPT ![worker.at].status = "processed"]
  /\ worker' = LetGo
  /\ UNCHANGED <<published, forgotten, poller, troubles>>

\* Mutant of RecordFailure: max_attempts is not looked at.
RecordFailureForever ==
  /\ worker.phase \in {"read"} \cup MidPhases
  /\ inbox' = [inbox EXCEPT ![worker.at].attempts = @ + 1, ![worker.at].due = FALSE]
  /\ worker' = LetGo
  /\ UNCHANGED <<published, forgotten, poller>>

\* The handler raises: the row waits for a while, or is closed after its last attempt.
RecordFailure ==
  /\ worker.phase \in {"read"} \cup MidPhases
  /\ LET tries == inbox[worker.at].attempts + 1 IN
       inbox' = [inbox EXCEPT ![worker.at] =
         [status |-> IF tries >= MaxTries THEN "failed" ELSE "open",
          attempts |-> tries, due |-> FALSE]]
  /\ worker' = LetGo
  /\ UNCHANGED <<published, forgotten, poller>>

Suffer == troubles < MaxTroubles /\ troubles' = troubles + 1

WaitOver(u) ==
  /\ inbox[u].status = "open"
  /\ ~inbox[u].due
  /\ inbox' = [inbox EXCEPT ![u].due = TRUE]
  /\ UNCHANGED <<published, forgotten, poller, worker, troubles>>

Admitted == {u \in Updates : inbox[u].status # "absent"}

\* A new process takes its offset from the inbox.
InitialOffset == IF Admitted = {} THEN 0 ELSE Max(Admitted) + 1

Restart ==
  /\ poller' = [offset |-> InitialOffset, batch |-> {}]
  /\ worker' = Resting
  /\ Suffer
  /\ UNCHANGED <<published, forgotten, inbox>>

(***************************************************************************)
(* Properties.                                                             *)
(***************************************************************************)
\* "Persist polling results before advancing the Telegram offset" (runtime.py:33): what
\* Telegram has forgotten is in the inbox, whatever fails and whenever the process dies.
NothingForgotten == \A u \in 1..forgotten : inbox[u].status # "absent"

\* Every update Telegram has is one day closed, as processed or as failed.
EveryUpdateEnds ==
  \A u \in Updates : u <= published ~> inbox[u].status \in {"processed", "failed"}

====
