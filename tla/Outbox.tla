---- MODULE Outbox ----
(***************************************************************************)
(* The durable outbox: rows unique by idempotency key, claimed under a     *)
(* lease, sent to Telegram, confirmed in a transaction of the application  *)
(* and then marked sent (OutboxQueue, OutboxWorker and the frame of        *)
(* ApplicationTelegramSender.send).                                        *)
(*                                                                         *)
(* One column, available_at, is the date of the next attempt of a pending  *)
(* row and the end of the lease of a sending one.  `due' says that it has  *)
(* passed; how long that takes is left open.  Nothing but the number of    *)
(* the attempt tells a worker from its successor.                          *)
(*                                                                         *)
(* A module that uses the outbox conjoins its own variables to Claim,      *)
(* Deliver, Confirm and the others; OutboxNext is the outbox by itself.    *)
(***************************************************************************)
EXTENDS Naturals, FiniteSets

CONSTANTS
  Keys,         \* idempotency keys; a key determines the text it stands for
  Ops,          \* what a key does not determine: the kind and the message to edit
  NoOp,         \* of a key without a row
  Senders,      \* outbox workers, one in every running process
  NoKey,
  Messages,     \* ids Telegram may answer with
  NoMessage,
  MaxAttempts   \* of every row

ASSUME RowAssumption == NoOp \notin Ops /\ NoKey \notin Keys
ASSUME AnswerAssumption == NoMessage \notin Messages
ASSUME AttemptAssumption == MaxAttempts \in Nat \ {0}
ASSUME FiniteAssumption == IsFiniteSet(Keys) /\ IsFiniteSet(Senders)

VARIABLES
  outbox,     \* table outbox
  sender,     \* what each worker holds, and how far it got with it
  accepted,   \* history: how often Telegram carried out a row
  confirmed   \* history: rows whose effect the application has recorded

outboxVars == <<outbox, sender, accepted, confirmed>>

Absent == [status |-> "absent", id |-> 0, attempts |-> 0, due |-> FALSE, op |-> NoOp]

Idle == [key |-> NoKey, attempt |-> 0, phase |-> "idle", answer |-> NoMessage]

Open == {"pending", "sending"}

OutboxTypeOK ==
  /\ outbox \in [Keys -> [status : {"absent", "pending", "sending", "sent", "failed"},
                          id : Nat, attempts : 0..MaxAttempts, due : BOOLEAN,
                          op : Ops \cup {NoOp}]]
  /\ sender \in [Senders -> [key : Keys \cup {NoKey}, attempt : 0..MaxAttempts,
                             phase : {"idle", "claimed", "delivered", "raised", "confirmed"},
                             answer : Messages \cup {NoMessage}]]
  /\ accepted \in [Keys -> Nat]
  /\ confirmed \subseteq Keys

OutboxInit ==
  /\ outbox = [k \in Keys |-> Absent]
  /\ sender = [w \in Senders |-> Idle]
  /\ accepted = [k \in Keys |-> 0]
  /\ confirmed = {}

(***************************************************************************)
(* Enqueueing, as the transaction of a caller.  The same content under the *)
(* same key is the row that is there; other content is a conflict, which   *)
(* raises in the caller and changes nothing.                               *)
(***************************************************************************)
Conflict(k, op) == outbox[k].status # "absent" /\ outbox[k].op # op

NextId == Cardinality({k \in Keys : outbox[k].status # "absent"}) + 1

Enqueued(k, op) ==
  IF outbox[k].status = "absent"
    THEN [outbox EXCEPT ![k] = [status |-> "pending", id |-> NextId, attempts |-> 0,
                                due |-> TRUE, op |-> op]]
    ELSE outbox

Enqueue(k, op) ==
  /\ ~Conflict(k, op)
  /\ outbox' = Enqueued(k, op)
  /\ UNCHANGED <<sender, accepted, confirmed>>

(***************************************************************************)
(* Claiming: exhausted rows are failed first; pending rows go before those *)
(* whose lease has expired, rows never tried in the order they came in.    *)
(* How a row that was put off compares with the others is left open.       *)
(***************************************************************************)
\* Mutant of Exhausted: off by one, a row whose attempts are spent is neither failed nor claimed.
ExhaustedOffByOne(k) ==
  /\ outbox[k].status = "sending"
  /\ outbox[k].due
  /\ outbox[k].attempts > MaxAttempts

Exhausted(k) ==
  /\ outbox[k].status = "sending"
  /\ outbox[k].due
  /\ outbox[k].attempts >= MaxAttempts

Swept ==
  [k \in Keys |-> IF Exhausted(k) THEN [outbox[k] EXCEPT !.status = "failed"] ELSE outbox[k]]

\* Mutant of Eligible: max_attempts is not looked at.
EligibleWithoutLimit(k) == outbox[k].status \in Open /\ outbox[k].due

Eligible(k) ==
  /\ outbox[k].status \in Open
  /\ outbox[k].due
  /\ outbox[k].attempts < MaxAttempts

Untried(k) == outbox[k].status = "pending" /\ outbox[k].attempts = 0

First(k) ==
  /\ outbox[k].status = "sending" => ~\E j \in Keys : Eligible(j) /\ outbox[j].status = "pending"
  /\ Untried(k) => ~\E j \in Keys : Eligible(j) /\ Untried(j) /\ outbox[j].id < outbox[k].id

Claim(w, k) ==
  /\ sender[w] = Idle
  /\ Eligible(k)
  /\ First(k)
  /\ outbox' = [Swept EXCEPT ![k].status = "sending", ![k].due = FALSE, ![k].attempts = @ + 1]
  /\ sender' = [sender EXCEPT
       ![w] = [Idle EXCEPT !.key = k, !.attempt = outbox[k].attempts + 1, !.phase = "claimed"]]
  /\ UNCHANGED <<accepted, confirmed>>

\* A poll that finds nothing to send still fails the exhausted rows.
Sweep(w) ==
  /\ sender[w] = Idle
  /\ ~\E k \in Keys : Eligible(k)
  /\ \E k \in Keys : Exhausted(k)
  /\ outbox' = Swept
  /\ UNCHANGED <<sender, accepted, confirmed>>

(***************************************************************************)
(* Sending.  A call may be carried out and answered, carried out without   *)
(* an answer, or not carried out.                                          *)
(***************************************************************************)
Reach(w, phase) == sender' = [sender EXCEPT ![w].phase = phase]

CarriedOut(w) == accepted' = [accepted EXCEPT ![sender[w].key] = @ + 1]

Deliver(w, message) ==
  /\ sender[w].phase = "claimed"
  /\ CarriedOut(w)
  /\ sender' = [sender EXCEPT ![w].phase = "delivered", ![w].answer = message]
  /\ UNCHANGED <<outbox, confirmed>>

LoseReply(w) ==
  /\ sender[w].phase = "claimed"
  /\ CarriedOut(w)
  /\ Reach(w, "raised")
  /\ UNCHANGED <<outbox, confirmed>>

\* Mutant of Refuse: the result of the call is not looked at.
RefuseTreatedAsSent(w) ==
  /\ sender[w].phase = "claimed"
  /\ sender' = [sender EXCEPT ![w].phase = "delivered",
                              ![w].answer = CHOOSE message \in Messages : TRUE]
  /\ UNCHANGED <<outbox, accepted, confirmed>>

\* Telegram refuses, does not answer, or the sender's own checks raise.
Refuse(w) ==
  /\ sender[w].phase = "claimed"
  /\ Reach(w, "raised")
  /\ UNCHANGED <<outbox, accepted, confirmed>>

\* The effect of the row is on record already: nothing is sent.
Skip(w) ==
  /\ sender[w].phase = "claimed"
  /\ Reach(w, "confirmed")
  /\ confirmed' = confirmed \cup {sender[w].key}
  /\ UNCHANGED <<outbox, accepted>>

\* The transaction that records the message id and what depends on it.
Confirm(w) ==
  /\ sender[w].phase = "delivered"
  /\ Reach(w, "confirmed")
  /\ confirmed' = confirmed \cup {sender[w].key}
  /\ UNCHANGED <<outbox, accepted>>

(***************************************************************************)
(* Reporting, fenced by the attempt.                                       *)
(***************************************************************************)
Holds(w) ==
  /\ outbox[sender[w].key].status = "sending"
  /\ outbox[sender[w].key].attempts = sender[w].attempt

Release(w, status, due) ==
  /\ outbox' = IF Holds(w)
                 THEN [outbox EXCEPT ![sender[w].key].status = status, ![sender[w].key].due = due]
                 ELSE outbox
  /\ sender' = [sender EXCEPT ![w] = Idle]
  /\ UNCHANGED <<accepted, confirmed>>

\* Mutant of Sent: a row is marked sent as soon as Telegram has answered.
SentUnrecorded(w) == sender[w].phase \in {"delivered", "confirmed"} /\ Release(w, "sent", TRUE)

Sent(w) == sender[w].phase = "confirmed" /\ Release(w, "sent", TRUE)

Fail(w) ==
  /\ sender[w].phase = "raised"
  /\ IF sender[w].attempt >= MaxAttempts THEN Release(w, "failed", TRUE)
                                         ELSE Release(w, "pending", FALSE)

\* The process dies; the lease of the row it held runs out by itself.
Die(w) ==
  /\ sender[w] # Idle
  /\ sender' = [sender EXCEPT ![w] = Idle]
  /\ UNCHANGED <<outbox, accepted, confirmed>>

\* available_at passes: the end of a delay or of a lease.
Elapse(k) ==
  /\ outbox[k].status \in Open
  /\ ~outbox[k].due
  /\ outbox' = [outbox EXCEPT ![k].due = TRUE]
  /\ UNCHANGED <<sender, accepted, confirmed>>

\* What a worker does without end: it polls, its call ends, it reports.
PollQueue(w) == Sweep(w) \/ \E k \in Keys : Claim(w, k)

EndCall(w) ==
  \/ \E message \in Messages : Deliver(w, message)
  \/ LoseReply(w)
  \/ Refuse(w)
  \/ sender[w].key \in confirmed /\ Skip(w)

Settle(w) == Confirm(w) \/ Sent(w) \/ Fail(w)

WorkOn(w) == PollQueue(w) \/ EndCall(w) \/ Settle(w)

OutboxNext ==
  \/ \E k \in Keys, op \in Ops : Enqueue(k, op)
  \/ \E w \in Senders, k \in Keys : Claim(w, k)
  \/ \E w \in Senders :
       \/ Sweep(w)
       \/ \E message \in Messages : Deliver(w, message)
       \/ LoseReply(w)
       \/ Refuse(w)
       \/ Confirm(w)
       \/ Sent(w)
       \/ Fail(w)
       \/ Die(w)
  \/ \E w \in Senders : sender[w].key \in confirmed /\ Skip(w)
  \/ \E k \in Keys : Elapse(k)

OutboxSpec == OutboxInit /\ [][OutboxNext]_outboxVars

(***************************************************************************)
(* Properties.                                                             *)
(***************************************************************************)

\* A row is sent to Telegram at most once for each of its attempts, counting the one that
\* is under way as not yet sent: at-least-once delivery has a bound (OutboxQueue.claim_due
\* counts the attempt before the send; docs/OPERATIONS.md:366).
SendsWithinAttempts ==
  \A k \in Keys :
    accepted[k] + Cardinality({w \in Senders : sender[w].key = k /\ sender[w].phase = "claimed"})
      <= outbox[k].attempts

\* "Sender records the resulting Telegram message ID before marking the outbox row complete"
\* (docs/ARCHITECTURE.md:45): no row is marked sent whose effect is not on record.
RecordedBeforeSent == \A k \in Keys : outbox[k].status = "sent" => k \in confirmed

\* A row that was sent or has failed for good is never touched again, whatever a worker that
\* lost its lease reports (the WHERE clauses of OutboxQueue.sent and fail).
EndedMessagesStay ==
  [][\A k \in Keys : outbox[k].status \in {"sent", "failed"} => outbox'[k] = outbox[k]]_outboxVars

\* Every message that was enqueued is sent or given up in the end, whatever Telegram does and
\* however often processes die: a crash costs an attempt (OutboxQueue.claim_due counts it before
\* the call), and a row whose attempts are spent is failed by the next poll.
EveryMessageEnds ==
  \A k \in Keys : outbox[k].status \in Open ~> outbox[k].status \in {"sent", "failed"}

\* The outbox is a mailbox that delivers at least once what it reports as sent, and never more
\* often than it was tried; leases, workers and their answers are hidden (OutboxQueue,
\* OutboxWorker.run_once).
Stage == [k \in Keys |-> IF outbox[k].status \in Open THEN "open" ELSE outbox[k].status]

Mailbox ==
  INSTANCE AtLeastOnce WITH
    Limit <- MaxAttempts,
    stage <- Stage,
    tried <- [k \in Keys |-> outbox[k].attempts],
    carried <- accepted,
    recorded <- confirmed

ImplementsMailbox == Mailbox!Spec

====
