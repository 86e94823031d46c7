---- MODULE OutboxProofs ----
(***************************************************************************)
(* Proofs about Outbox for any finite sets of keys and senders, any number *)
(* of attempts and any operations and answers of Telegram.                 *)
(***************************************************************************)
EXTENDS Outbox, FiniteSetTheorems, TLAPS

\* Only an idle sender holds the empty claim, and every other one holds a row.
SendersOK ==
  \A w \in Senders :
    /\ sender[w].phase = "idle" <=> sender[w] = Idle
    /\ sender[w].phase # "idle" => sender[w].key \in Keys

TypeInv == OutboxTypeOK /\ SendersOK

\* What is on record for a sender that has got as far as the confirmation transaction.
ConfirmedOnRecord ==
  \A w \in Senders : sender[w].phase = "confirmed" => sender[w].key \in confirmed

RecordInv == TypeInv /\ ConfirmedOnRecord /\ RecordedBeforeSent

\* Before it is enqueued a row has not been tried.
AbsentUntried == \A k \in Keys : outbox[k].status = "absent" => outbox[k].attempts = 0

AttemptInv == TypeInv /\ AbsentUntried /\ SendsWithinAttempts

\* The senders that are about to send row k.
Claimants(k) == {w \in Senders : sender[w].key = k /\ sender[w].phase = "claimed"}

Rows == [status : {"absent", "pending", "sending", "sent", "failed"},
         id : Nat, attempts : 0..MaxAttempts, due : BOOLEAN, op : Ops \cup {NoOp}]

Claims == [key : Keys \cup {NoKey}, attempt : 0..MaxAttempts,
           phase : {"idle", "claimed", "delivered", "raised", "confirmed"},
           answer : Messages \cup {NoMessage}]

----------------------------------------------------------------------------
(***************************************************************************)
(* What the helpers of a claim and of a report do to the table             *)
(***************************************************************************)
\* The ids of new rows are numbers.
LEMMA NextIdIsNat == NextId \in Nat
<1>1. IsFiniteSet({k \in Keys : outbox[k].status # "absent"})
  BY FiniteAssumption, FS_Subset
<1> QED BY <1>1, FS_CardinalityType DEF NextId

\* The sweep keeps types and attempts, and fails only rows that are being sent.
LEMMA SweptKeeps ==
  ASSUME OutboxTypeOK
  PROVE  /\ Swept \in [Keys -> Rows]
         /\ \A k \in Keys : /\ Swept[k].attempts = outbox[k].attempts
                            /\ \/ Swept[k] = outbox[k]
                               \/ outbox[k].status = "sending" /\ Swept[k].status = "failed"
<1> QED BY DEF OutboxTypeOK, Swept, Exhausted, Rows

\* One more attempt is still within the limit.
LEMMA CountedRow ==
  ASSUME NEW row \in Rows, row.attempts < MaxAttempts
  PROVE  [row EXCEPT !.status = "sending", !.due = FALSE, !.attempts = @ + 1] \in Rows
<1> DEFINE sending == [row EXCEPT !.status = "sending"]
           leased == [sending EXCEPT !.due = FALSE]
<1>1. row.attempts + 1 \in 0..MaxAttempts
  BY AttemptAssumption DEF Rows
<1>2. sending \in Rows /\ sending.attempts = row.attempts
  BY DEF Rows
<1>3. leased \in Rows /\ leased.attempts = row.attempts
  BY <1>2 DEF Rows
<1>4. [leased EXCEPT !.attempts = row.attempts + 1] \in Rows
  BY <1>1, <1>3 DEF Rows
<1> QED BY <1>2, <1>3, <1>4 DEF Rows

\* A row that is reported on keeps its type.
LEMMA ReportedRow ==
  ASSUME NEW row \in Rows, NEW status \in {"pending", "sent", "failed"}, NEW due \in BOOLEAN
  PROVE  [row EXCEPT !.status = status, !.due = due] \in Rows
<1> DEFINE marked == [row EXCEPT !.status = status]
<1>1. marked \in Rows
  BY DEF Rows
<1>2. [marked EXCEPT !.due = due] \in Rows
  BY <1>1 DEF Rows
<1> QED BY <1>2

\* A claimed row is as the sweep leaves it but for its lease, and is counted.
LEMMA ClaimKeeps ==
  ASSUME TypeInv, NEW w \in Senders, NEW k \in Keys, Claim(w, k)
  PROVE  /\ outbox' \in [Keys -> Rows]
         /\ outbox[k].status \in Open
         /\ outbox'[k].status = "sending"
         /\ outbox'[k].attempts = outbox[k].attempts + 1
         /\ \A j \in Keys \ {k} : outbox'[j] = Swept[j]
         /\ sender' \in [Senders -> Claims]
         /\ sender'[w].phase = "claimed" /\ sender'[w].key = k
         /\ \A v \in Senders \ {w} : sender'[v] = sender[v]
<1> USE DEF TypeInv, OutboxTypeOK
<1>1. Swept \in [Keys -> Rows] /\ Swept[k].attempts = outbox[k].attempts
  BY SweptKeeps
<1>2. outbox[k].attempts \in 0..MaxAttempts /\ outbox[k].attempts < MaxAttempts
  BY DEF Claim, Eligible
<1>3. outbox' = [Swept EXCEPT ![k] =
        [Swept[k] EXCEPT !.status = "sending", !.due = FALSE, !.attempts = @ + 1]]
  BY <1>1 DEF Claim, Rows
<1>4. Swept[k] \in Rows
  BY <1>1
<1>5. [Swept[k] EXCEPT !.status = "sending", !.due = FALSE, !.attempts = @ + 1] \in Rows
  BY <1>1, <1>2, <1>4, CountedRow
<1>6. outbox' \in [Keys -> Rows] /\ outbox'[k].status = "sending"
      /\ outbox'[k].attempts = outbox[k].attempts + 1
      /\ \A j \in Keys \ {k} : outbox'[j] = Swept[j]
  BY <1>1, <1>3, <1>4, <1>5 DEF Rows
<1>7. [Idle EXCEPT !.key = k, !.attempt = outbox[k].attempts + 1, !.phase = "claimed"] \in Claims
  <2>1. outbox[k].attempts + 1 \in 0..MaxAttempts
    BY <1>2, AttemptAssumption
  <2>2. Idle \in Claims
    BY AttemptAssumption DEF Idle, Claims
  <2>3. [Idle EXCEPT !.key = k] \in Claims
    BY <2>2 DEF Claims
  <2> QED BY <2>1, <2>2, <2>3 DEF Claims
<1>8. sender' \in [Senders -> Claims]
      /\ sender'[w].phase = "claimed" /\ sender'[w].key = k
      /\ \A v \in Senders \ {w} : sender'[v] = sender[v]
  BY <1>7 DEF Claim, Idle, Claims
<1> QED BY <1>6, <1>8 DEF Claim, Eligible

\* A report changes at most the status and the lease of the row it was about.
LEMMA ReleaseKeeps ==
  ASSUME TypeInv, NEW w \in Senders, sender[w].phase # "idle",
         NEW status \in {"pending", "sent", "failed"}, NEW due \in BOOLEAN,
         Release(w, status, due)
  PROVE  /\ outbox' \in [Keys -> Rows]
         /\ \A k \in Keys : /\ outbox'[k].attempts = outbox[k].attempts
                            /\ \/ outbox'[k] = outbox[k]
                               \/ /\ k = sender[w].key
                                  /\ outbox[k].status = "sending"
                                  /\ outbox'[k].status = status
         /\ sender' = [sender EXCEPT ![w] = Idle]
<1> USE DEF TypeInv, OutboxTypeOK
<1>1. sender[w].key \in Keys
  BY DEF SendersOK
<1>2. CASE Holds(w)
  <2> DEFINE key == sender[w].key
  <2>1. outbox' = [outbox EXCEPT ![key] = [outbox[key] EXCEPT !.status = status, !.due = due]]
    BY <1>1, <1>2 DEF Release
  <2>2. [outbox[key] EXCEPT !.status = status, !.due = due] \in Rows
    <3>1. outbox[key] \in Rows
      BY <1>1 DEF Rows
    <3> QED BY <3>1, ReportedRow
  <2> QED BY <1>1, <1>2, <2>1, <2>2 DEF Release, Holds, Rows
<1>3. CASE ~Holds(w)
  BY <1>3 DEF Release, Rows
<1> QED BY <1>2, <1>3

\* A report comes from a sender that has ended its call, with one of three outcomes.
LEMMA Reports ==
  ASSUME TypeInv, NEW w \in Senders, Sent(w) \/ Fail(w)
  PROVE  /\ sender[w].phase # "idle"
         /\ \/ Sent(w) /\ sender[w].phase = "confirmed" /\ Release(w, "sent", TRUE)
            \/ Fail(w) /\ Release(w, "failed", TRUE)
            \/ Fail(w) /\ Release(w, "pending", FALSE)
<1> QED BY DEF Sent, Fail

----------------------------------------------------------------------------
(***************************************************************************)
(* Type correctness                                                        *)
(***************************************************************************)
LEMMA InitTyped == OutboxInit => TypeInv
<1> SUFFICES ASSUME OutboxInit PROVE TypeInv OBVIOUS
<1>1. Absent \in Rows
  BY AttemptAssumption DEF Absent, Rows
<1>2. Idle \in Claims
  BY AttemptAssumption DEF Idle, Claims
<1>3. SendersOK
  BY DEF OutboxInit, SendersOK, Idle
<1> QED BY <1>1, <1>2, <1>3 DEF OutboxInit, TypeInv, OutboxTypeOK, Rows, Claims

\* A new phase of a sender that holds a row keeps what is known of the senders.
LEMMA ReachTyped ==
  ASSUME TypeInv, NEW w \in Senders, sender[w].phase # "idle",
         NEW phase \in {"delivered", "raised", "confirmed"}, Reach(w, phase)
  PROVE  /\ sender' \in [Senders -> Claims]
         /\ SendersOK'
<1> USE DEF TypeInv, OutboxTypeOK
<1>1. sender' = [sender EXCEPT ![w] = [sender[w] EXCEPT !.phase = phase]]
  BY DEF Reach
<1>2. [sender[w] EXCEPT !.phase = phase] \in Claims
  BY DEF Claims
<1>3. sender' \in [Senders -> Claims]
  BY <1>1, <1>2 DEF Claims
<1>4. ASSUME NEW v \in Senders
      PROVE  /\ sender'[v].phase = "idle" <=> sender'[v] = Idle
             /\ sender'[v].phase # "idle" => sender'[v].key \in Keys
  <2>1. CASE v = w
    BY <1>1, <1>2, <2>1 DEF SendersOK, Idle, Claims
  <2>2. CASE v # w
    BY <1>1, <2>2 DEF SendersOK
  <2> QED BY <2>1, <2>2
<1> QED BY <1>3, <1>4 DEF SendersOK

\* A sender that finds the effect of its row on record keeps types, for whatever reason it
\* takes the effect to be there.
LEMMA SkipTyped ==
  ASSUME TypeInv, NEW w \in Senders, Skip(w)
  PROVE  TypeInv'
<1>1. sender[w].phase # "idle" /\ sender[w].key \in Keys
  BY DEF Skip, TypeInv, SendersOK
<1> QED BY <1>1, ReachTyped DEF Skip, Claims, TypeInv, OutboxTypeOK

\* All senders of a process let go at once.
LEMMA AllIdleTyped ==
  ASSUME TypeInv, sender' = [w \in Senders |-> Idle], UNCHANGED <<outbox, accepted, confirmed>>
  PROVE  TypeInv'
<1> QED BY AttemptAssumption DEF TypeInv, OutboxTypeOK, SendersOK, Idle

\* Enqueueing is a step of the outbox, or changes no table where the key stands for no row.
LEMMA EnqueueIsStep ==
  ASSUME TypeInv, NEW k, NEW op \in Ops, Enqueue(k, op)
  PROVE  [OutboxNext]_outboxVars
<1>1. CASE k \in Keys
  BY <1>1 DEF OutboxNext
<1>2. CASE k \notin Keys
  <2>1. outbox' = outbox
    BY <1>2 DEF Enqueue, Enqueued, TypeInv, OutboxTypeOK
  <2> QED BY <2>1 DEF Enqueue, outboxVars
<1> QED BY <1>1, <1>2

LEMMA StepTyped == TypeInv /\ [OutboxNext]_outboxVars => TypeInv'
<1> SUFFICES ASSUME TypeInv, [OutboxNext]_outboxVars PROVE TypeInv' OBVIOUS
<1> USE DEF TypeInv, OutboxTypeOK
<1>1. ASSUME NEW k \in Keys, NEW op \in Ops, Enqueue(k, op) PROVE TypeInv'
  <2>1. outbox' \in [Keys -> Rows]
    BY <1>1, NextIdIsNat, AttemptAssumption DEF Enqueue, Enqueued, Rows
  <2> QED BY <1>1, <2>1 DEF Enqueue, SendersOK, Rows
<1>2. ASSUME NEW w \in Senders, NEW k \in Keys, Claim(w, k) PROVE TypeInv'
  <2>1. SendersOK'
    BY <1>2, ClaimKeeps DEF SendersOK, Idle
  <2> QED BY <1>2, <2>1, ClaimKeeps DEF Claim, Rows, Claims
<1>3. ASSUME NEW w \in Senders, Sweep(w) PROVE TypeInv'
  BY <1>3, SweptKeeps DEF Sweep, SendersOK, Rows
<1>4. ASSUME NEW w \in Senders, NEW message \in Messages, Deliver(w, message) PROVE TypeInv'
  <2>1. sender[w].key \in Keys
    BY <1>4 DEF Deliver, SendersOK
  <2>2. accepted' \in [Keys -> Nat]
    BY <1>4, <2>1 DEF Deliver, CarriedOut
  <2> DEFINE answered == [sender[w] EXCEPT !.phase = "delivered"]
  <2>3. sender' = [sender EXCEPT ![w] = [answered EXCEPT !.answer = message]]
    BY <1>4 DEF Deliver
  <2>4. answered \in Claims /\ answered.phase = "delivered" /\ answered.key = sender[w].key
    BY DEF Claims
  <2>5. /\ [answered EXCEPT !.answer = message] \in Claims
        /\ [answered EXCEPT !.answer = message].phase = "delivered"
        /\ [answered EXCEPT !.answer = message].key = sender[w].key
    BY <2>4 DEF Claims
  <2>6. sender' \in [Senders -> Claims]
    BY <2>3, <2>5 DEF Claims
  <2>7. SendersOK'
    BY <2>1, <2>3, <2>5 DEF SendersOK, Idle
  <2> QED BY <1>4, <2>2, <2>6, <2>7 DEF Deliver, Claims
<1>5. ASSUME NEW w \in Senders, LoseReply(w) PROVE TypeInv'
  <2>1. sender[w].phase # "idle" /\ sender[w].key \in Keys
    BY <1>5 DEF LoseReply, SendersOK
  <2>2. accepted' \in [Keys -> Nat]
    BY <1>5, <2>1 DEF LoseReply, CarriedOut
  <2> QED BY <1>5, <2>1, <2>2, ReachTyped DEF LoseReply, Claims
<1>6. ASSUME NEW w \in Senders, Refuse(w) PROVE TypeInv'
  BY <1>6, ReachTyped DEF Refuse, Claims
<1>7. ASSUME NEW w \in Senders, Skip(w) PROVE TypeInv'
  BY <1>7, SkipTyped
<1>8. ASSUME NEW w \in Senders, Confirm(w) PROVE TypeInv'
  <2>1. sender[w].phase # "idle" /\ sender[w].key \in Keys
    BY <1>8 DEF Confirm, SendersOK
  <2> QED BY <1>8, <2>1, ReachTyped DEF Confirm, Claims
<1>9. ASSUME NEW w \in Senders, Sent(w) \/ Fail(w) PROVE TypeInv'
  <2>1. outbox' \in [Keys -> Rows] /\ sender' = [sender EXCEPT ![w] = Idle]
    BY <1>9, Reports, ReleaseKeeps
  <2>2. sender' \in [Senders -> Claims] /\ SendersOK'
    BY <2>1, AttemptAssumption DEF SendersOK, Idle, Claims
  <2> QED BY <1>9, <2>1, <2>2 DEF Sent, Fail, Release, Rows, Claims
<1>10. ASSUME NEW w \in Senders, Die(w) PROVE TypeInv'
  <2>1. sender' \in [Senders -> Claims] /\ SendersOK'
    BY <1>10, AttemptAssumption DEF Die, SendersOK, Idle, Claims
  <2> QED BY <1>10, <2>1 DEF Die, Claims
<1>11. ASSUME NEW k \in Keys, Elapse(k) PROVE TypeInv'
  <2>1. outbox' = [outbox EXCEPT ![k] = [outbox[k] EXCEPT !.due = TRUE]]
    BY <1>11 DEF Elapse
  <2>2. outbox[k] \in Rows
    BY DEF Rows
  <2>3. [outbox[k] EXCEPT !.due = TRUE] \in Rows
    BY <2>2 DEF Rows
  <2> QED BY <1>11, <2>1, <2>3 DEF Elapse, SendersOK, Rows
<1>12. CASE UNCHANGED outboxVars
  BY <1>12 DEF outboxVars, SendersOK
<1> QED BY <1>1, <1>2, <1>3, <1>4, <1>5, <1>6, <1>7, <1>8, <1>9, <1>10, <1>11, <1>12
        DEF OutboxNext

\* The outbox, what its senders hold and the records of its effects keep their types, and no
\* row is claimed more often than max_attempts. (jobs/queue.py, jobs/worker.py)
THEOREM OutboxTypeCorrect == OutboxSpec => []OutboxTypeOK
<1>1. TypeInv => OutboxTypeOK
  BY DEF TypeInv
<1> QED BY <1>1, InitTyped, StepTyped, PTL DEF OutboxSpec

----------------------------------------------------------------------------
(***************************************************************************)
(* Sends are bounded by attempts                                           *)
(***************************************************************************)
\* The senders about to send a row are finitely many.
LEMMA ClaimantsCounted ==
  ASSUME NEW k
  PROVE  IsFiniteSet(Claimants(k)) /\ Cardinality(Claimants(k)) \in Nat
<1>1. IsFiniteSet(Claimants(k))
  BY FiniteAssumption, FS_Subset DEF Claimants
<1> QED BY <1>1, FS_CardinalityType

\* Fewer senders about to send a row are no larger a number.
LEMMA FewerClaimants ==
  ASSUME NEW k, Claimants(k)' \subseteq Claimants(k)
  PROVE  /\ Cardinality(Claimants(k)') <= Cardinality(Claimants(k))
         /\ Cardinality(Claimants(k)') \in Nat
<1>1. IsFiniteSet(Claimants(k)) /\ IsFiniteSet(Claimants(k)')
  BY ClaimantsCounted, FS_Subset
<1> QED BY <1>1, FS_Subset, FS_CardinalityType

\* The bound of one row.
Within(k) == accepted[k] + Cardinality(Claimants(k)) <= outbox[k].attempts

LEMMA BoundIsWithin == SendsWithinAttempts <=> \A k \in Keys : Within(k)
<1> QED BY DEF SendsWithinAttempts, Within, Claimants

\* A step that neither sends nor claims keeps the bound of a row.
LEMMA WithinKept ==
  ASSUME OutboxTypeOK, NEW k \in Keys, Within(k), accepted'[k] = accepted[k],
         outbox'[k].attempts >= outbox[k].attempts, outbox'[k].attempts \in Nat,
         Claimants(k)' \subseteq Claimants(k)
  PROVE  Within(k)'
<1>1. /\ Cardinality(Claimants(k)') <= Cardinality(Claimants(k))
      /\ Cardinality(Claimants(k)') \in Nat /\ Cardinality(Claimants(k)) \in Nat
  BY FewerClaimants, ClaimantsCounted
<1>2. accepted[k] \in Nat /\ outbox[k].attempts \in Nat
  BY AttemptAssumption DEF OutboxTypeOK
<1> QED BY <1>1, <1>2 DEF Within

\* A sender that sends leaves the claimants of its row, and no others.
LEMMA ClaimantLeaves ==
  ASSUME TypeInv, NEW w \in Senders, sender[w].phase = "claimed",
         \A v \in Senders \ {w} : sender'[v] = sender[v],
         sender'[w].phase # "claimed", NEW k \in Keys
  PROVE  /\ Claimants(k)' = Claimants(k) \ {w}
         /\ Cardinality(Claimants(k)') =
              IF k = sender[w].key THEN Cardinality(Claimants(k)) - 1 ELSE Cardinality(Claimants(k))
<1>1. Claimants(k)' = Claimants(k) \ {w}
  BY DEF Claimants
<1>2. w \in Claimants(k) <=> k = sender[w].key
  BY DEF Claimants
<1> QED BY <1>1, <1>2, ClaimantsCounted, FS_RemoveElement

\* A call that is carried out uses up the attempt of the sender that made it.
LEMMA SendingKeepsBound ==
  ASSUME AttemptInv, NEW w \in Senders, sender[w].phase = "claimed", CarriedOut(w),
         \A v \in Senders \ {w} : sender'[v] = sender[v],
         sender'[w].phase # "claimed", outbox' = outbox
  PROVE  SendsWithinAttempts'
<1>1. SUFFICES ASSUME NEW k \in Keys PROVE Within(k)'
  BY BoundIsWithin, <1>1 DEF SendsWithinAttempts, Within, Claimants
<1>2. Within(k) /\ accepted[k] \in Nat /\ outbox[k].attempts \in Nat
  BY BoundIsWithin, AttemptAssumption DEF AttemptInv, TypeInv, OutboxTypeOK
<1>3. accepted'[k] = IF k = sender[w].key THEN accepted[k] + 1 ELSE accepted[k]
  BY <1>2 DEF CarriedOut, AttemptInv, TypeInv, OutboxTypeOK
<1>4. Cardinality(Claimants(k)') =
        IF k = sender[w].key THEN Cardinality(Claimants(k)) - 1 ELSE Cardinality(Claimants(k))
  BY ClaimantLeaves DEF AttemptInv
<1>5. Cardinality(Claimants(k)) \in Nat
  BY ClaimantsCounted
<1> QED BY <1>2, <1>3, <1>4, <1>5 DEF Within

\* Only a claim changes the attempts of a row, and no step takes a row away.
LEMMA StepAttempts ==
  ASSUME TypeInv, AbsentUntried, [OutboxNext]_outboxVars
  PROVE  /\ AbsentUntried'
         /\ \A k \in Keys : outbox'[k].attempts >= outbox[k].attempts
<1> USE DEF TypeInv, OutboxTypeOK
<1>0. \A k \in Keys : outbox[k].attempts \in Nat
  BY AttemptAssumption
<1> SUFFICES ASSUME NEW j \in Keys
             PROVE  /\ outbox'[j].attempts >= outbox[j].attempts
                    /\ outbox'[j].status = "absent" => outbox'[j].attempts = 0
  BY DEF AbsentUntried
<1>1. ASSUME NEW k \in Keys, NEW op \in Ops, Enqueue(k, op)
      PROVE  /\ outbox'[j].attempts >= outbox[j].attempts
             /\ outbox'[j].status = "absent" => outbox'[j].attempts = 0
  BY <1>0, <1>1 DEF Enqueue, Enqueued, AbsentUntried
<1>2. ASSUME NEW w \in Senders, NEW k \in Keys, Claim(w, k)
      PROVE  /\ outbox'[j].attempts >= outbox[j].attempts
             /\ outbox'[j].status = "absent" => outbox'[j].attempts = 0
  <2>1. CASE j = k
    BY <1>0, <1>2, <2>1, ClaimKeeps
  <2>2. CASE j # k
    <3>1. outbox'[j] = Swept[j]
      BY <1>2, <2>2, ClaimKeeps
    <3> QED BY <1>0, <3>1, SweptKeeps DEF AbsentUntried
  <2> QED BY <2>1, <2>2
<1>3. ASSUME NEW w \in Senders, Sweep(w)
      PROVE  /\ outbox'[j].attempts >= outbox[j].attempts
             /\ outbox'[j].status = "absent" => outbox'[j].attempts = 0
  <2>1. outbox'[j] = Swept[j]
    BY <1>3 DEF Sweep
  <2> QED BY <1>0, <2>1, SweptKeeps DEF AbsentUntried
<1>4. ASSUME NEW w \in Senders, Sent(w) \/ Fail(w)
      PROVE  /\ outbox'[j].attempts >= outbox[j].attempts
             /\ outbox'[j].status = "absent" => outbox'[j].attempts = 0
  <2>1. /\ outbox'[j].attempts = outbox[j].attempts
        /\ outbox'[j] = outbox[j] \/ outbox'[j].status \in {"sent", "failed", "pending"}
    BY <1>4, Reports, ReleaseKeeps
  <2> QED BY <1>0, <2>1 DEF AbsentUntried
<1>5. ASSUME NEW k \in Keys, Elapse(k)
      PROVE  /\ outbox'[j].attempts >= outbox[j].attempts
             /\ outbox'[j].status = "absent" => outbox'[j].attempts = 0
  BY <1>0, <1>5 DEF Elapse, AbsentUntried
<1>6. ASSUME outbox' = outbox
      PROVE  /\ outbox'[j].attempts >= outbox[j].attempts
             /\ outbox'[j].status = "absent" => outbox'[j].attempts = 0
  BY <1>0, <1>6 DEF AbsentUntried
<1> QED BY <1>1, <1>2, <1>3, <1>4, <1>5, <1>6
        DEF OutboxNext, outboxVars, Deliver, LoseReply, Refuse, Skip, Confirm, Die

LEMMA StepWithinAttempts == AttemptInv /\ [OutboxNext]_outboxVars => AttemptInv'
<1> SUFFICES ASSUME AttemptInv, [OutboxNext]_outboxVars PROVE SendsWithinAttempts'
  BY StepTyped, StepAttempts DEF AttemptInv
<1> USE DEF AttemptInv
<1>0. /\ OutboxTypeOK /\ \A k \in Keys : Within(k)
      /\ \A k \in Keys : /\ outbox[k].attempts \in Nat /\ outbox'[k].attempts \in Nat
                         /\ outbox'[k].attempts >= outbox[k].attempts
  <2>1. TypeInv'
    BY StepTyped
  <2> QED BY <2>1, StepAttempts, BoundIsWithin, AttemptAssumption DEF TypeInv, OutboxTypeOK
\* The steps that send nothing: it is enough that no new sender is about to send.
<1>a. ASSUME accepted' = accepted,
             \A v \in Senders : sender'[v].phase = "claimed" => sender'[v] = sender[v]
      PROVE  SendsWithinAttempts'
  <2>1. SUFFICES ASSUME NEW k \in Keys PROVE Within(k)'
    BY <2>1 DEF SendsWithinAttempts, Within, Claimants
  <2>2. Claimants(k)' \subseteq Claimants(k)
    BY <1>a DEF Claimants
  <2> QED BY <1>0, <1>a, <2>2, WithinKept
<1>1. ASSUME NEW k \in Keys, NEW op \in Ops, Enqueue(k, op) PROVE SendsWithinAttempts'
  BY <1>1, <1>a DEF Enqueue
<1>2. ASSUME NEW w \in Senders, NEW k \in Keys, Claim(w, k) PROVE SendsWithinAttempts'
  <2>1. SUFFICES ASSUME NEW j \in Keys PROVE Within(j)'
    BY <2>1 DEF SendsWithinAttempts, Within, Claimants
  <2>2. accepted' = accepted /\ accepted[j] \in Nat
    BY <1>0, <1>2 DEF Claim, OutboxTypeOK
  <2>3. CASE j = k
    <3>1. Claimants(j)' = Claimants(j) \cup {w}
      BY <1>2, <2>3, ClaimKeeps DEF Claimants
    <3>2. Cardinality(Claimants(j)') <= Cardinality(Claimants(j)) + 1
          /\ Cardinality(Claimants(j)') \in Nat /\ Cardinality(Claimants(j)) \in Nat
      <4>1. IsFiniteSet(Claimants(j)) /\ Cardinality(Claimants(j)) \in Nat
        BY ClaimantsCounted
      <4>2. Cardinality(Claimants(j) \cup {w}) =
              IF w \in Claimants(j) THEN Cardinality(Claimants(j)) ELSE Cardinality(Claimants(j)) + 1
        BY <4>1, FS_AddElement
      <4> QED BY <3>1, <4>1, <4>2
    <3>3. outbox'[j].attempts = outbox[j].attempts + 1
      BY <1>2, <2>3, ClaimKeeps
    <3> QED BY <1>0, <2>2, <3>2, <3>3 DEF Within
  <2>4. CASE j # k
    <3>1. Claimants(j)' \subseteq Claimants(j)
      BY <1>2, <2>4, ClaimKeeps DEF Claimants
    <3> QED BY <1>0, <2>2, <3>1, WithinKept
  <2> QED BY <2>3, <2>4
<1>3. ASSUME NEW w \in Senders, Sweep(w) PROVE SendsWithinAttempts'
  BY <1>3, <1>a DEF Sweep
<1>4. ASSUME NEW w \in Senders, NEW message \in Messages, Deliver(w, message)
      PROVE  SendsWithinAttempts'
  BY <1>4, SendingKeepsBound DEF Deliver, TypeInv, OutboxTypeOK
<1>5. ASSUME NEW w \in Senders, LoseReply(w) PROVE SendsWithinAttempts'
  BY <1>5, SendingKeepsBound DEF LoseReply, Reach, TypeInv, OutboxTypeOK
<1>6. ASSUME NEW w \in Senders, Refuse(w) \/ Skip(w) \/ Confirm(w) PROVE SendsWithinAttempts'
  BY <1>6, <1>a DEF Refuse, Skip, Confirm, Reach, TypeInv, OutboxTypeOK
<1>7. ASSUME NEW w \in Senders, Sent(w) \/ Fail(w) PROVE SendsWithinAttempts'
  <2>1. sender' = [sender EXCEPT ![w] = Idle] /\ accepted' = accepted
    BY <1>7 DEF Sent, Fail, Release
  <2> QED BY <1>a, <2>1 DEF Idle, TypeInv, OutboxTypeOK
<1>8. ASSUME NEW w \in Senders, Die(w) PROVE SendsWithinAttempts'
  BY <1>8, <1>a DEF Die, Idle, TypeInv, OutboxTypeOK
<1>9. ASSUME NEW k \in Keys, Elapse(k) PROVE SendsWithinAttempts'
  BY <1>9, <1>a DEF Elapse
<1>10. CASE UNCHANGED outboxVars
  BY <1>10, <1>a DEF outboxVars
<1> QED BY <1>1, <1>2, <1>3, <1>4, <1>5, <1>6, <1>7, <1>8, <1>9, <1>10 DEF OutboxNext

LEMMA InitWithinAttempts == OutboxInit => AttemptInv
<1> SUFFICES ASSUME OutboxInit PROVE AbsentUntried /\ SendsWithinAttempts
  BY InitTyped DEF AttemptInv
<1>1. ASSUME NEW k \in Keys PROVE Within(k)
  <2>1. Claimants(k) = {}
    BY DEF OutboxInit, Claimants, Idle
  <2> QED BY <2>1, FS_EmptySet DEF Within, OutboxInit, Absent
<1> QED BY <1>1, BoundIsWithin DEF OutboxInit, AbsentUntried, Absent

\* However often senders die, replies are lost and leases run out, Telegram carries out a row
\* at most once for each attempt counted before the call, so at most max_attempts times.
\* (OutboxQueue.claim_due)
THEOREM SendsAreBounded == OutboxSpec => []SendsWithinAttempts
<1>1. AttemptInv => SendsWithinAttempts
  BY DEF AttemptInv
<1> QED BY <1>1, InitWithinAttempts, StepWithinAttempts, PTL DEF OutboxSpec

----------------------------------------------------------------------------
(***************************************************************************)
(* Records before completion                                               *)
(***************************************************************************)
\* Who passes the confirmation is on record, for whatever reason nothing was sent.
LEMMA ConfirmRecords ==
  ASSUME RecordInv, NEW w \in Senders, Skip(w) \/ Confirm(w)
  PROVE  ConfirmedOnRecord' /\ RecordedBeforeSent'
<1>1. /\ sender' = [sender EXCEPT ![w].phase = "confirmed"]
      /\ confirmed' = confirmed \cup {sender[w].key} /\ outbox' = outbox
  BY DEF Skip, Confirm, Reach
<1>2. ConfirmedOnRecord'
  BY <1>1 DEF RecordInv, ConfirmedOnRecord, TypeInv, OutboxTypeOK
<1> QED BY <1>1, <1>2 DEF RecordInv, RecordedBeforeSent

LEMMA StepRecords == RecordInv /\ [OutboxNext]_outboxVars => RecordInv'
<1> SUFFICES ASSUME RecordInv, [OutboxNext]_outboxVars
             PROVE  ConfirmedOnRecord' /\ RecordedBeforeSent'
  BY StepTyped DEF RecordInv
<1> USE DEF RecordInv
\* The steps that mark no row sent and move no sender past the confirmation.
<1>a. ASSUME confirmed \subseteq confirmed',
             \A v \in Senders : sender'[v].phase = "confirmed" => sender'[v] = sender[v],
             \A k \in Keys : outbox'[k].status = "sent" => outbox[k].status = "sent"
      PROVE  ConfirmedOnRecord' /\ RecordedBeforeSent'
  BY <1>a DEF ConfirmedOnRecord, RecordedBeforeSent
<1>1. ASSUME NEW k \in Keys, NEW op \in Ops, Enqueue(k, op)
      PROVE  ConfirmedOnRecord' /\ RecordedBeforeSent'
  BY <1>1, <1>a DEF Enqueue, Enqueued, TypeInv, OutboxTypeOK
<1>2. ASSUME NEW w \in Senders, NEW k \in Keys, Claim(w, k)
      PROVE  ConfirmedOnRecord' /\ RecordedBeforeSent'
  <2>1. \A j \in Keys : outbox'[j].status = "sent" => outbox[j].status = "sent"
    <3>1. ASSUME NEW j \in Keys \ {k} PROVE outbox'[j].status = "sent" => outbox[j].status = "sent"
      <4>1. outbox'[j] = Swept[j]
        BY <1>2, ClaimKeeps
      <4> QED BY <4>1, SweptKeeps DEF TypeInv
    <3> QED BY <1>2, <3>1, ClaimKeeps
  <2>2. \A v \in Senders : sender'[v].phase = "confirmed" => sender'[v] = sender[v]
    BY <1>2, ClaimKeeps
  <2> QED BY <1>2, <1>a, <2>1, <2>2 DEF Claim
<1>3. ASSUME NEW w \in Senders, Sweep(w)
      PROVE  ConfirmedOnRecord' /\ RecordedBeforeSent'
  <2>1. \A j \in Keys : outbox'[j].status = "sent" => outbox[j].status = "sent"
    BY <1>3, SweptKeeps DEF Sweep, TypeInv
  <2> QED BY <1>3, <1>a, <2>1 DEF Sweep
<1>4. ASSUME NEW w \in Senders,
             (\E message \in Messages : Deliver(w, message)) \/ LoseReply(w) \/ Refuse(w)
      PROVE  ConfirmedOnRecord' /\ RecordedBeforeSent'
  BY <1>4, <1>a DEF Deliver, LoseReply, Refuse, Reach, TypeInv, OutboxTypeOK
<1>5. ASSUME NEW w \in Senders, Skip(w) \/ Confirm(w)
      PROVE  ConfirmedOnRecord' /\ RecordedBeforeSent'
  BY <1>5, ConfirmRecords
<1>6. ASSUME NEW w \in Senders, Sent(w) \/ Fail(w)
      PROVE  ConfirmedOnRecord' /\ RecordedBeforeSent'
  <2>1. sender' = [sender EXCEPT ![w] = Idle] /\ confirmed' = confirmed
    BY <1>6 DEF Sent, Fail, Release
  <2>2. ConfirmedOnRecord'
    BY <2>1 DEF ConfirmedOnRecord, Idle, TypeInv, OutboxTypeOK
  <2>3. ASSUME NEW k \in Keys, outbox'[k].status = "sent" PROVE k \in confirmed'
    <3>1. CASE outbox'[k] = outbox[k]
      BY <2>1, <2>3, <3>1 DEF RecordedBeforeSent
    <3>2. CASE outbox'[k] # outbox[k]
      <4>1. k = sender[w].key /\ sender[w].phase = "confirmed"
        BY <1>6, <2>3, <3>2, Reports, ReleaseKeeps
      <4> QED BY <2>1, <4>1 DEF ConfirmedOnRecord
    <3> QED BY <3>1, <3>2
  <2> QED BY <2>2, <2>3 DEF RecordedBeforeSent
<1>7. ASSUME NEW w \in Senders, Die(w)
      PROVE  ConfirmedOnRecord' /\ RecordedBeforeSent'
  BY <1>7, <1>a DEF Die, Idle, TypeInv, OutboxTypeOK
<1>8. ASSUME NEW k \in Keys, Elapse(k)
      PROVE  ConfirmedOnRecord' /\ RecordedBeforeSent'
  BY <1>8, <1>a DEF Elapse, TypeInv, OutboxTypeOK
<1>9. CASE UNCHANGED outboxVars
  BY <1>9, <1>a DEF outboxVars
<1> QED BY <1>1, <1>2, <1>3, <1>4, <1>5, <1>6, <1>7, <1>8, <1>9 DEF OutboxNext

\* A row marked sent has its effect on record, whoever marked it and in whatever order the
\* workers confirm and report (ApplicationTelegramSender.send, OutboxWorker.run_once).
THEOREM RecordsPrecedeCompletion == OutboxSpec => []RecordedBeforeSent
<1>1. OutboxInit => RecordInv
  BY InitTyped DEF OutboxInit, RecordInv, ConfirmedOnRecord, RecordedBeforeSent, Idle, Absent
<1>2. RecordInv => RecordedBeforeSent
  BY DEF RecordInv
<1> QED BY <1>1, <1>2, StepRecords, PTL DEF OutboxSpec

----------------------------------------------------------------------------
(***************************************************************************)
(* Rows that have ended                                                    *)
(***************************************************************************)
\* A row that was sent or has failed is not touched by any step.
LEMMA StepKeepsEnded ==
  ASSUME TypeInv, [OutboxNext]_outboxVars, NEW k \in Keys, outbox[k].status \in {"sent", "failed"}
  PROVE  outbox'[k] = outbox[k]
<1> USE DEF TypeInv, OutboxTypeOK
<1>1. ASSUME NEW j \in Keys, NEW op \in Ops, Enqueue(j, op) PROVE outbox'[k] = outbox[k]
  BY <1>1 DEF Enqueue, Enqueued
<1>2. ASSUME NEW w \in Senders, NEW j \in Keys, Claim(w, j) PROVE outbox'[k] = outbox[k]
  <2>1. j # k
    BY <1>2, ClaimKeeps DEF Open
  <2>2. outbox'[k] = Swept[k]
    BY <1>2, <2>1, ClaimKeeps
  <2> QED BY <2>2, SweptKeeps
<1>3. ASSUME NEW w \in Senders, Sweep(w) PROVE outbox'[k] = outbox[k]
  BY <1>3, SweptKeeps DEF Sweep
<1>4. ASSUME NEW w \in Senders, Sent(w) \/ Fail(w) PROVE outbox'[k] = outbox[k]
  BY <1>4, Reports, ReleaseKeeps
<1>5. ASSUME NEW j \in Keys, Elapse(j) PROVE outbox'[k] = outbox[k]
  BY <1>5 DEF Elapse, Open
<1> QED BY <1>1, <1>2, <1>3, <1>4, <1>5
        DEF OutboxNext, outboxVars, Deliver, LoseReply, Refuse, Skip, Confirm, Die

\* A row that has ended stays as it is, whatever a worker without a lease reports (the WHERE
\* clauses of OutboxQueue.sent and OutboxQueue.fail).
THEOREM EndedMessagesAreFinal == OutboxSpec => EndedMessagesStay
<1>1. TypeInv /\ [OutboxNext]_outboxVars =>
        [\A k \in Keys : outbox[k].status \in {"sent", "failed"} => outbox'[k] = outbox[k]]_outboxVars
  BY StepKeepsEnded
<1> QED BY <1>1, InitTyped, StepTyped, PTL DEF OutboxSpec, EndedMessagesStay

----------------------------------------------------------------------------
(***************************************************************************)
(* The outbox as a mailbox that delivers at least once                     *)
(***************************************************************************)
\* What a sender was answered Telegram has carried out.
AnsweredCarried == \A w \in Senders : sender[w].phase = "delivered" => accepted[sender[w].key] > 0

MailInv == AttemptInv /\ RecordInv /\ AnsweredCarried

\* A sender about to call has an attempt of its row to itself that nothing was carried out on.
LEMMA RoomToSend ==
  ASSUME AttemptInv, NEW w \in Senders, sender[w].phase = "claimed"
  PROVE  /\ sender[w].key \in Keys
         /\ accepted[sender[w].key] < outbox[sender[w].key].attempts
<1> DEFINE k == sender[w].key
<1>1. k \in Keys
  BY DEF AttemptInv, TypeInv, SendersOK
<1>2. accepted[k] \in Nat /\ outbox[k].attempts \in Nat
  BY <1>1, AttemptAssumption DEF AttemptInv, TypeInv, OutboxTypeOK
<1>3. Within(k)
  BY <1>1, BoundIsWithin DEF AttemptInv
<1>4. IsFiniteSet(Claimants(k)) /\ Cardinality(Claimants(k)) \in Nat
  BY ClaimantsCounted
<1>5. w \in Claimants(k)
  BY DEF Claimants
<1>6. Cardinality(Claimants(k)) # 0
  BY <1>4, <1>5, FS_EmptySet
<1> QED BY <1>1, <1>2, <1>3, <1>4, <1>6 DEF Within

\* A call that is carried out is counted, and no other row's calls are.
LEMMA CarriedOutCounts ==
  ASSUME TypeInv, NEW w \in Senders, sender[w].key \in Keys, CarriedOut(w)
  PROVE  /\ accepted' = [accepted EXCEPT ![sender[w].key] = @ + 1]
         /\ accepted'[sender[w].key] > 0
         /\ \A k \in Keys : accepted[k] > 0 => accepted'[k] > 0
<1> QED BY DEF CarriedOut, TypeInv, OutboxTypeOK

LEMMA StepAnswered == MailInv /\ [OutboxNext]_outboxVars => MailInv'
<1> SUFFICES ASSUME MailInv, [OutboxNext]_outboxVars PROVE AnsweredCarried'
  BY StepWithinAttempts, StepRecords DEF MailInv
<1>0. TypeInv /\ AnsweredCarried
  BY DEF MailInv, AttemptInv
<1> USE DEF TypeInv, OutboxTypeOK
\* The steps that carry nothing out: it is enough that no sender is answered.
<1>a. ASSUME accepted' = accepted,
             \A v \in Senders : sender'[v].phase = "delivered" => sender'[v] = sender[v]
      PROVE  AnsweredCarried'
  BY <1>0, <1>a DEF AnsweredCarried
<1>1. ASSUME NEW w \in Senders,
             (\E message \in Messages : Deliver(w, message)) \/ LoseReply(w)
      PROVE  AnsweredCarried'
  <2>1. sender[w].phase = "claimed" /\ CarriedOut(w)
    BY <1>1 DEF Deliver, LoseReply
  <2>2. sender[w].key \in Keys
    BY <1>0, <2>1 DEF SendersOK
  <2>3. /\ accepted'[sender[w].key] > 0
        /\ \A k \in Keys : accepted[k] > 0 => accepted'[k] > 0
    BY <1>0, <2>1, <2>2, CarriedOutCounts
  <2>4. /\ sender'[w].key = sender[w].key
        /\ \A v \in Senders \ {w} : sender'[v] = sender[v]
    BY <1>0, <1>1 DEF Deliver, LoseReply, Reach
  <2>5. SUFFICES ASSUME NEW v \in Senders, sender'[v].phase = "delivered"
                 PROVE  accepted'[sender'[v].key] > 0
    BY DEF AnsweredCarried
  <2>6. CASE v = w
    BY <2>3, <2>4, <2>6
  <2>7. CASE v # w
    <3>1. sender'[v] = sender[v] /\ accepted[sender[v].key] > 0
      BY <1>0, <2>4, <2>5, <2>7 DEF AnsweredCarried
    <3>2. sender[v].key \in Keys
      BY <1>0, <2>5, <3>1 DEF SendersOK
    <3> QED BY <2>3, <3>1, <3>2
  <2> QED BY <2>6, <2>7
<1>2. ASSUME NEW w \in Senders, NEW k \in Keys, Claim(w, k) PROVE AnsweredCarried'
  <2>1. \A v \in Senders : sender'[v].phase = "delivered" => sender'[v] = sender[v]
    BY <1>0, <1>2, ClaimKeeps
  <2> QED BY <1>2, <1>a, <2>1 DEF Claim
<1>3. ASSUME NEW w \in Senders, Refuse(w) \/ Skip(w) \/ Confirm(w) PROVE AnsweredCarried'
  BY <1>0, <1>3, <1>a DEF Refuse, Skip, Confirm, Reach
<1>4. ASSUME NEW w \in Senders, Sent(w) \/ Fail(w) \/ Die(w) PROVE AnsweredCarried'
  <2>1. sender' = [sender EXCEPT ![w] = Idle] /\ accepted' = accepted
    BY <1>4 DEF Sent, Fail, Release, Die
  <2> QED BY <1>0, <1>a, <2>1 DEF Idle
<1>5. CASE sender' = sender /\ accepted' = accepted
  BY <1>5, <1>a
<1> QED BY <1>1, <1>2, <1>3, <1>4, <1>5 DEF OutboxNext, outboxVars, Enqueue, Sweep, Elapse

LEMMA InitMail == OutboxInit => MailInv
<1> SUFFICES ASSUME OutboxInit PROVE RecordInv /\ AnsweredCarried
  BY InitWithinAttempts DEF MailInv
<1> QED BY InitTyped
        DEF OutboxInit, RecordInv, ConfirmedOnRecord, RecordedBeforeSent, AnsweredCarried, Idle, Absent

\* All senders of a process let go at once, which the outbox knows only one by one.
LEMMA AllIdleKeepsMail ==
  ASSUME MailInv, sender' = [w \in Senders |-> Idle], UNCHANGED <<outbox, accepted, confirmed>>
  PROVE  MailInv'
<1>1. TypeInv'
  BY AllIdleTyped DEF MailInv, AttemptInv
<1>2. AbsentUntried' /\ RecordedBeforeSent' /\ ConfirmedOnRecord' /\ AnsweredCarried'
  BY DEF MailInv, AttemptInv, RecordInv, AbsentUntried, RecordedBeforeSent, ConfirmedOnRecord,
         AnsweredCarried, Idle
<1>3. ASSUME NEW k \in Keys PROVE Within(k)'
  <2>1. Claimants(k)' \subseteq Claimants(k)
    BY DEF Claimants, Idle
  <2>2. Within(k) /\ outbox[k].attempts \in Nat /\ OutboxTypeOK
    BY BoundIsWithin, AttemptAssumption DEF MailInv, AttemptInv, TypeInv, OutboxTypeOK
  <2> QED BY <2>1, <2>2, WithinKept
<1>4. SendsWithinAttempts'
  BY <1>3 DEF SendsWithinAttempts, Within, Claimants
<1> QED BY <1>1, <1>2, <1>4 DEF MailInv, AttemptInv, RecordInv

\* Nothing the application has recorded is taken off the record.
LEMMA RecordsGrow ==
  ASSUME [OutboxNext]_outboxVars
  PROVE  confirmed \subseteq confirmed'
<1> QED BY DEF OutboxNext, outboxVars, Enqueue, Claim, Sweep, Deliver, LoseReply, Refuse, Skip,
               Confirm, Sent, Fail, Release, Die, Elapse

\* How often a message was tried.
Tried == [k \in Keys |-> outbox[k].attempts]

LEMMA InitIsMailbox == OutboxInit => Mailbox!Init
<1> QED BY DEF OutboxInit, Mailbox!Init, Stage, Absent, Open

\* The sweep gives up rows that are out of attempts.
LEMMA SweepGivesUp ==
  ASSUME TypeInv
  PROVE  LET gone == {k \in Keys : Exhausted(k)}
         IN  /\ gone \in SUBSET Keys
             /\ Mailbox!OutOfTries(gone)
             /\ \A k \in Keys : Mailbox!GivenUp(gone)[k] =
                  IF Swept[k].status \in Open THEN "open" ELSE Swept[k].status
<1> DEFINE gone == {k \in Keys : Exhausted(k)}
<1>1. Mailbox!OutOfTries(gone)
  BY DEF Mailbox!OutOfTries, Exhausted, Stage, Open
<1>2. ASSUME NEW k \in Keys
      PROVE  Mailbox!GivenUp(gone)[k] = IF Swept[k].status \in Open THEN "open" ELSE Swept[k].status
  <2>1. outbox[k] \in Rows
    BY DEF TypeInv, OutboxTypeOK, Rows
  <2>2. CASE Exhausted(k)
    BY <2>1, <2>2 DEF Mailbox!GivenUp, Swept, Open, Rows
  <2>3. CASE ~Exhausted(k)
    BY <2>1, <2>3 DEF Mailbox!GivenUp, Swept, Stage, Open
  <2> QED BY <2>2, <2>3
<1> QED BY <1>1, <1>2

LEMMA StepIsMailbox == MailInv /\ [OutboxNext]_outboxVars => [Mailbox!Next]_(Mailbox!vars)
<1> SUFFICES ASSUME MailInv, [OutboxNext]_outboxVars
             PROVE  Mailbox!Next \/ UNCHANGED <<Stage, Tried, accepted, confirmed>>
  BY DEF Mailbox!vars, Tried
<1>0. /\ AttemptInv /\ TypeInv /\ TypeInv' /\ ConfirmedOnRecord /\ AnsweredCarried
      /\ outbox \in [Keys -> Rows] /\ outbox' \in [Keys -> Rows]
  BY StepTyped DEF MailInv, AttemptInv, RecordInv, TypeInv, OutboxTypeOK, Rows
<1>1. ASSUME NEW k \in Keys, NEW op \in Ops, Enqueue(k, op)
      PROVE  Mailbox!Post(k) \/ UNCHANGED <<Stage, Tried, accepted, confirmed>>
  <2>1. CASE outbox[k].status = "absent"
    <3>1. Stage[k] = "absent" /\ Stage' = [Stage EXCEPT ![k] = "open"]
      BY <1>0, <1>1, <2>1 DEF Enqueue, Enqueued, Stage, Open, Rows
    <3>2. outbox[k].attempts = 0
      BY <1>0, <2>1 DEF AttemptInv, AbsentUntried
    <3>3. Tried' = Tried
      BY <1>0, <1>1, <2>1, <3>2 DEF Enqueue, Enqueued, Tried
    <3> QED BY <1>1, <3>1, <3>3 DEF Enqueue, Mailbox!Post, Tried
  <2>2. CASE outbox[k].status # "absent"
    BY <1>1, <2>2 DEF Enqueue, Enqueued, Stage, Tried
  <2> QED BY <2>1, <2>2
<1>2. ASSUME NEW w \in Senders, NEW k \in Keys, Claim(w, k)
      PROVE  \E gone \in SUBSET Keys : Mailbox!Try(k, gone)
  <2> DEFINE gone == {j \in Keys : Exhausted(j)}
  <2>1. /\ gone \in SUBSET Keys
        /\ Mailbox!OutOfTries(gone)
        /\ \A j \in Keys : Mailbox!GivenUp(gone)[j] =
             IF Swept[j].status \in Open THEN "open" ELSE Swept[j].status
    BY <1>0, SweepGivesUp
  <2>2. /\ outbox[k].status \in Open /\ outbox'[k].status = "sending"
        /\ outbox'[k].attempts = outbox[k].attempts + 1
        /\ \A j \in Keys \ {k} : outbox'[j] = Swept[j]
    BY <1>0, <1>2, ClaimKeeps
  <2>3. /\ outbox[k].attempts < MaxAttempts
        /\ UNCHANGED <<accepted, confirmed>>
    BY <1>2 DEF Claim, Eligible
  <2>4. Stage[k] = "open" /\ k \notin gone
    BY <1>0, <2>2, <2>3, AttemptAssumption DEF Stage, Exhausted, Rows
  <2>5. Stage' = Mailbox!GivenUp(gone)
    <3>1. ASSUME NEW j \in Keys PROVE Stage'[j] = Mailbox!GivenUp(gone)[j]
      <4>1. CASE j = k
        BY <2>2, <2>4, <4>1 DEF Stage, Open, Mailbox!GivenUp
      <4>2. CASE j # k
        BY <2>1, <2>2, <4>2 DEF Stage
      <4> QED BY <4>1, <4>2
    <3> QED BY <3>1 DEF Stage, Mailbox!GivenUp
  <2>6. Tried' = [Tried EXCEPT ![k] = @ + 1]
    <3>1. \A j \in Keys \ {k} : outbox'[j].attempts = outbox[j].attempts
      BY <1>0, <2>2, SweptKeeps DEF TypeInv
    <3> QED BY <2>2, <3>1 DEF Tried
  <2> QED BY <2>1, <2>3, <2>4, <2>5, <2>6 DEF Mailbox!Try, Tried
<1>3. ASSUME NEW w \in Senders, Sweep(w)
      PROVE  \E gone \in SUBSET Keys : Mailbox!GiveUp(gone)
  <2> DEFINE gone == {j \in Keys : Exhausted(j)}
  <2>1. /\ gone \in SUBSET Keys
        /\ Mailbox!OutOfTries(gone)
        /\ \A j \in Keys : Mailbox!GivenUp(gone)[j] =
             IF Swept[j].status \in Open THEN "open" ELSE Swept[j].status
    BY <1>0, SweepGivesUp
  <2>2. outbox' = Swept /\ UNCHANGED <<accepted, confirmed>>
    BY <1>3 DEF Sweep
  <2>3. Stage' = Mailbox!GivenUp(gone)
    BY <2>1, <2>2 DEF Stage, Mailbox!GivenUp
  <2>4. Tried' = Tried
    BY <1>0, <2>2, SweptKeeps DEF TypeInv, Tried
  <2> QED BY <2>1, <2>2, <2>3, <2>4 DEF Mailbox!GiveUp, Tried
<1>4. ASSUME NEW w \in Senders,
             (\E message \in Messages : Deliver(w, message)) \/ LoseReply(w)
      PROVE  \E k \in Keys : Mailbox!Carry(k)
  <2>1. sender[w].phase = "claimed" /\ CarriedOut(w) /\ outbox' = outbox /\ confirmed' = confirmed
    BY <1>4 DEF Deliver, LoseReply
  <2>2. sender[w].key \in Keys /\ accepted[sender[w].key] < outbox[sender[w].key].attempts
    BY <1>0, <2>1, RoomToSend
  <2>3. accepted' = [accepted EXCEPT ![sender[w].key] = @ + 1]
    BY <2>1 DEF CarriedOut
  <2>4. Mailbox!Carry(sender[w].key)
    BY <2>1, <2>2, <2>3 DEF Mailbox!Carry, Stage
  <2> QED BY <2>2, <2>4
<1>5. ASSUME NEW w \in Senders, Confirm(w) PROVE \E k \in Keys : Mailbox!Record(k)
  <2>1. sender[w].key \in Keys /\ accepted[sender[w].key] > 0
    BY <1>0, <1>5 DEF Confirm, TypeInv, SendersOK, AnsweredCarried
  <2>2. Mailbox!Record(sender[w].key)
    BY <1>5, <2>1 DEF Confirm, Mailbox!Record, Stage
  <2> QED BY <2>1, <2>2
\* A report without a lease changes nothing; what is put off stays open.
<1>6. ASSUME NEW w \in Senders, Sent(w) \/ Fail(w)
      PROVE  Mailbox!Next \/ UNCHANGED <<Stage, Tried, accepted, confirmed>>
  <2> DEFINE k == sender[w].key
  <2>1. k \in Keys /\ sender[w].attempt \in Nat /\ UNCHANGED <<accepted, confirmed>>
    BY <1>0, <1>6, AttemptAssumption DEF Sent, Fail, Release, TypeInv, SendersOK, OutboxTypeOK
  <2>2. CASE ~Holds(w)
    <3>1. outbox' = outbox
      BY <1>6, <2>2 DEF Sent, Fail, Release
    <3> QED BY <2>1, <3>1 DEF Stage, Tried
  <2>3. CASE Holds(w) /\ Sent(w)
    <3>1. outbox' = [outbox EXCEPT ![k].status = "sent", ![k].due = TRUE]
      BY <2>3 DEF Sent, Release
    <3>2. outbox[k].status = "sending" /\ k \in confirmed
      BY <1>0, <2>3 DEF Holds, Sent, ConfirmedOnRecord
    <3>3. Stage[k] = "open" /\ Stage' = [Stage EXCEPT ![k] = "sent"] /\ Tried' = Tried
      BY <1>0, <2>1, <3>1, <3>2 DEF Stage, Tried, Open, Rows
    <3>4. Mailbox!Complete(k)
      BY <2>1, <3>2, <3>3 DEF Mailbox!Complete, Tried
    <3> QED BY <2>1, <3>4 DEF Mailbox!Next
  <2>4. CASE Holds(w) /\ Fail(w) /\ sender[w].attempt >= MaxAttempts
    <3>1. outbox' = [outbox EXCEPT ![k].status = "failed", ![k].due = TRUE]
      BY <2>4 DEF Fail, Release
    <3>2. outbox[k].status = "sending" /\ outbox[k].attempts >= MaxAttempts
      BY <2>4 DEF Holds
    <3>3. Stage' = Mailbox!GivenUp({k}) /\ Tried' = Tried
      BY <1>0, <2>1, <3>1, <3>2 DEF Stage, Tried, Open, Rows, Mailbox!GivenUp
    <3>4. Mailbox!OutOfTries({k})
      BY <2>1, <3>2 DEF Mailbox!OutOfTries, Stage, Open
    <3>5. Mailbox!GiveUp({k})
      BY <2>1, <3>3, <3>4 DEF Mailbox!GiveUp, Tried
    <3> QED BY <2>1, <3>5 DEF Mailbox!Next
  <2>5. CASE Holds(w) /\ Fail(w) /\ ~(sender[w].attempt >= MaxAttempts)
    <3>1. outbox' = [outbox EXCEPT ![k].status = "pending", ![k].due = FALSE]
      BY <2>5 DEF Fail, Release
    <3>2. outbox[k].status = "sending"
      BY <2>5 DEF Holds
    <3> QED BY <1>0, <2>1, <3>1, <3>2 DEF Stage, Tried, Open, Rows
  <2> QED BY <1>6, <2>2, <2>3, <2>4, <2>5
<1>7. ASSUME NEW w \in Senders, Refuse(w) \/ Die(w) \/ (sender[w].key \in confirmed /\ Skip(w))
      PROVE  UNCHANGED <<Stage, Tried, accepted, confirmed>>
  BY <1>7 DEF Refuse, Die, Skip, Stage, Tried
<1>8. ASSUME NEW k \in Keys, Elapse(k)
      PROVE  UNCHANGED <<Stage, Tried, accepted, confirmed>>
  BY <1>0, <1>8 DEF Elapse, Stage, Tried, Rows
<1>9. CASE UNCHANGED outboxVars
  BY <1>9 DEF outboxVars, Stage, Tried
<1> QED BY <1>1, <1>2, <1>3, <1>4, <1>5, <1>6, <1>7, <1>8, <1>9 DEF OutboxNext, Mailbox!Next

\* To the mailbox it is nothing when senders let go.
LEMMA AllIdleIsMailbox ==
  ASSUME UNCHANGED <<outbox, accepted, confirmed>>
  PROVE  UNCHANGED Mailbox!vars
<1> QED BY DEF Mailbox!vars, Stage

\* The outbox implements the mailbox: what it reports as sent was carried and recorded, what it
\* gives up has no try left, and nothing is carried more often than tried, whichever senders
\* die, answer late or share a row (OutboxQueue, OutboxWorker.run_once).
THEOREM OutboxImplementsMailbox == OutboxSpec => ImplementsMailbox
BY InitMail, StepAnswered, InitIsMailbox, StepIsMailbox, PTL
   DEF OutboxSpec, ImplementsMailbox, Mailbox!Spec

----------------------------------------------------------------------------
(***************************************************************************)
(* The order of the rows.  With one sender and no failure the rows are     *)
(* taken one by one in the order in which they came, each of them once;    *)
(* with two, or after a failure, a later row may overtake an earlier one.  *)
(***************************************************************************)
OneSender == \A v, w \in Senders : v = w

Rowed == {k \in Keys : outbox[k].status # "absent"}

\* Rows carry different ids, in the order in which they came.
IdsOK ==
  /\ \A k \in Rowed : outbox[k].id < NextId
  /\ \A j, k \in Rowed : outbox[j].id = outbox[k].id => j = k

Newest(rows, k) == k \in rows /\ \A j \in rows : outbox[j].id <= outbox[k].id

SendersAtRows ==
  \A w \in Senders : sender[w].phase # "idle" => outbox[sender[w].key].status # "absent"

\* The sender is done with j and not with k, or is at j and not yet at k.
Before(j, k) ==
  \/ outbox[j].status = "sent" /\ outbox[k].status \in Open
  \/ outbox[j].status = "sending" /\ outbox[k].status = "pending"

InTurn ==
  /\ \A k \in Keys :
       /\ outbox[k].status # "failed"
       /\ outbox[k].status = "pending" => outbox[k].attempts = 0 /\ outbox[k].due
       /\ outbox[k].status = "sending" => ~outbox[k].due /\ \E w \in Senders : sender[w].key = k
  /\ \A w \in Senders : sender[w] # Idle => Holds(w) /\ sender[w].phase # "raised"
  /\ \A j, k \in Rowed : Before(j, k) => outbox[j].id < outbox[k].id

\* What a step keeps of a row that is there, and what a new row looks like.
SameRow(k) ==
  /\ outbox'[k].op = outbox[k].op /\ outbox'[k].id = outbox[k].id
  /\ outbox'[k].status = "absent" <=> outbox[k].status = "absent"

NewRow(k, op) ==
  /\ outbox[k].status = "absent"
  /\ outbox'[k] = [status |-> "pending", id |-> NextId, attempts |-> 0, due |-> TRUE, op |-> op]
  /\ \A j \in Keys \ {k} : outbox'[j] = outbox[j]

\* The sender claims the first row that waits, is on its way with it, or is done with it.
TakesUp(w, k) ==
  /\ sender[w] = Idle /\ outbox[k].status = "pending"
  /\ \A j \in Keys : outbox[j].status # "sending"
  /\ \A j \in Keys \ {k} : outbox[j].status = "pending" => outbox[k].id < outbox[j].id
  /\ outbox'[k].status = "sending" /\ ~outbox'[k].due /\ outbox'[k].attempts = sender'[w].attempt
  /\ \A j \in Keys \ {k} : outbox'[j] = outbox[j]
  /\ sender'[w].key = k /\ sender'[w].phase = "claimed" /\ confirmed' = confirmed

GoesOn(w) ==
  /\ outbox' = outbox /\ sender[w] # Idle
  /\ sender'[w].key = sender[w].key /\ sender'[w].attempt = sender[w].attempt
  /\ sender'[w].phase \in {"delivered", "confirmed"}

Finishes(w) ==
  /\ sender[w].phase = "confirmed" /\ sender'[w] = Idle /\ confirmed' = confirmed
  /\ outbox[sender[w].key].status = "sending" /\ outbox'[sender[w].key].status = "sent"
  /\ \A j \in Keys \ {sender[w].key} : outbox'[j] = outbox[j]

LEMMA EnqueueAddsRow ==
  ASSUME TypeInv, NEW k \in Keys, NEW op, Enqueue(k, op)
  PROVE  /\ UNCHANGED <<sender, confirmed>>
         /\ \/ outbox' = outbox /\ outbox[k].status # "absent"
            \/ NewRow(k, op)
BY DEF Enqueue, Enqueued, TypeInv, OutboxTypeOK, NewRow

LEMMA SendingKeepsRow ==
  ASSUME TypeInv, NEW w \in Senders, NEW k \in Keys,
         (\E j \in Keys : Claim(w, j)) \/ Sent(w) \/ Fail(w)
  PROVE  SameRow(k)
<1> USE DEF TypeInv, OutboxTypeOK, SameRow
<1>1. ASSUME NEW j \in Keys, Claim(w, j) PROVE SameRow(k)
  <2>1. /\ Swept[k].op = outbox[k].op /\ Swept[k].id = outbox[k].id
        /\ Swept[k].status = "absent" <=> outbox[k].status = "absent"
    BY DEF Swept, Exhausted
  <2>2. outbox[j].status # "absent"
    BY <1>1 DEF Claim, Eligible, Open
  <2>3. Swept \in [Keys -> Rows]
    BY SweptKeeps
  <2>4. outbox' = [Swept EXCEPT ![j].status = "sending", ![j].due = FALSE, ![j].attempts = @ + 1]
    BY <1>1 DEF Claim
  <2>5. k # j => outbox'[k] = Swept[k]
    BY <2>3, <2>4
  <2>6. /\ outbox'[j].op = Swept[j].op /\ outbox'[j].id = Swept[j].id
        /\ outbox'[j].status = "sending"
    BY <2>3, <2>4 DEF Rows
  <2> QED BY <2>1, <2>2, <2>5, <2>6
<1>2. CASE Sent(w) \/ Fail(w)
  <2>1. PICK status \in {"pending", "sent", "failed"}, due \in BOOLEAN : Release(w, status, due)
    BY <1>2, Reports
  <2>2. CASE Holds(w) /\ k = sender[w].key
    BY <2>1, <2>2 DEF Release, Holds
  <2>3. CASE ~(Holds(w) /\ k = sender[w].key)
    BY <2>1, <2>3 DEF Release
  <2> QED BY <2>2, <2>3
<1> QED BY <1>1, <1>2

LEMMA ElapseKeepsRow ==
  ASSUME TypeInv, NEW j \in Keys, Elapse(j), NEW k \in Keys
  PROVE  SameRow(k)
BY DEF Elapse, TypeInv, OutboxTypeOK, SameRow

LEMMA IdsStand ==
  ASSUME IdsOK, \A k \in Keys : SameRow(k)
  PROVE  IdsOK' /\ Rowed' = Rowed
<1>1. Rowed' = Rowed /\ \A k \in Rowed : outbox'[k].id = outbox[k].id
  BY DEF SameRow, Rowed
<1>2. NextId' = NextId
  BY <1>1 DEF NextId, Rowed
<1> QED BY <1>1, <1>2 DEF IdsOK

\* A new row carries an id of its own, later than all others.
LEMMA IdsGrow ==
  ASSUME TypeInv, IdsOK, NEW k \in Keys, NEW op, NewRow(k, op)
  PROVE  IdsOK' /\ Rowed' = Rowed \cup {k} /\ outbox'[k].id = NextId /\ outbox'[k].status = "pending"
<1>1. /\ k \notin Rowed /\ outbox'[k].id = NextId /\ outbox'[k].status = "pending"
      /\ \A j \in Keys \ {k} : outbox'[j] = outbox[j]
  BY DEF NewRow, Rowed
<1>2. Rowed' = Rowed \cup {k}
  BY <1>1 DEF Rowed
<1>3. IsFiniteSet(Rowed)
  BY FiniteAssumption, FS_Subset DEF Rowed
<1>4. Cardinality(Rowed \cup {k}) = Cardinality(Rowed) + 1 /\ Cardinality(Rowed) \in Nat
  BY <1>1, <1>3, FS_AddElement, FS_CardinalityType
<1>5. NextId = Cardinality(Rowed) + 1 /\ NextId' = Cardinality(Rowed') + 1
  BY DEF NextId, Rowed
<1>6. NextId' = NextId + 1 /\ NextId \in Nat
  BY <1>2, <1>4, <1>5
<1>7. \A j \in Rowed : outbox[j].id \in Nat /\ outbox'[j].id = outbox[j].id
  BY <1>1 DEF Rowed, TypeInv, OutboxTypeOK
<1> QED BY <1>1, <1>2, <1>6, <1>7 DEF IdsOK

----------------------------------------------------------------------------
(***************************************************************************)
(* What the one sender does, and that the rows stay in turn                *)
(***************************************************************************)
LEMMA ClaimTakesUp ==
  ASSUME TypeInv, IdsOK, OneSender, InTurn, NEW w \in Senders, NEW k \in Keys, Claim(w, k)
  PROVE  TakesUp(w, k)
<1>1. sender[w] = Idle /\ Eligible(k) /\ First(k)
  BY DEF Claim
<1>2. ASSUME NEW j \in Keys, outbox[j].status = "sending" PROVE FALSE
  <2>1. PICK v \in Senders : sender[v].key = j
    BY <1>2 DEF InTurn
  <2>2. v = w
    BY DEF OneSender
  <2> QED BY <1>1, <2>1, <2>2, RowAssumption DEF Idle
<1>3. outbox[k].status = "pending"
  BY <1>1, <1>2 DEF Eligible, Open
<1>4. \A j \in Keys : outbox[j].status = "pending" =>
        outbox[j].attempts = 0 /\ outbox[j].due /\ Eligible(j) /\ Untried(j)
  BY AttemptAssumption DEF InTurn, Eligible, Untried, Open
<1>5. ASSUME NEW j \in Keys \ {k}, outbox[j].status = "pending" PROVE outbox[k].id < outbox[j].id
  <2>1. ~(outbox[j].id < outbox[k].id)
    BY <1>1, <1>3, <1>4, <1>5 DEF First
  <2>2. outbox[j].id # outbox[k].id
    BY <1>3, <1>5 DEF IdsOK, Rowed
  <2>3. PICK m \in Nat, n \in Nat : m = outbox[j].id /\ n = outbox[k].id
    BY DEF TypeInv, OutboxTypeOK
  <2>4. n < m
    BY <2>1, <2>2, <2>3
  <2> QED BY <2>3, <2>4
<1>6. Swept = outbox
  BY <1>2 DEF Swept, Exhausted, TypeInv, OutboxTypeOK
<1>7. /\ outbox' = [outbox EXCEPT ![k].status = "sending", ![k].due = FALSE, ![k].attempts = @ + 1]
      /\ sender' = [sender EXCEPT
           ![w] = [Idle EXCEPT !.key = k, !.attempt = outbox[k].attempts + 1, !.phase = "claimed"]]
      /\ confirmed' = confirmed
  BY <1>6 DEF Claim
<1>8. /\ outbox'[k].status = "sending" /\ ~outbox'[k].due
      /\ outbox'[k].attempts = outbox[k].attempts + 1
      /\ \A j \in Keys \ {k} : outbox'[j] = outbox[j]
  BY <1>7 DEF TypeInv, OutboxTypeOK
<1>9. sender'[w].key = k /\ sender'[w].phase = "claimed" /\ sender'[w].attempt = outbox[k].attempts + 1
  BY <1>7 DEF Idle, TypeInv, OutboxTypeOK
<1> QED BY <1>1, <1>2, <1>3, <1>5, <1>7, <1>8, <1>9 DEF TakesUp

LEMMA CallGoesOn ==
  ASSUME TypeInv, NEW w \in Senders, Skip(w) \/ Confirm(w) \/ \E message : Deliver(w, message)
  PROVE  GoesOn(w)
BY DEF Skip, Confirm, Deliver, Reach, GoesOn, Idle, TypeInv, OutboxTypeOK

LEMMA ReportFinishes ==
  ASSUME TypeInv, InTurn, NEW w \in Senders, Sent(w) \/ Fail(w)
  PROVE  Finishes(w)
<1>1. sender[w].phase \in {"confirmed", "raised"}
  BY DEF Sent, Fail
<1>2. Holds(w) /\ sender[w].phase # "raised"
  BY <1>1 DEF InTurn, Idle
<1>3. Sent(w) /\ sender[w].phase = "confirmed"
  BY <1>1, <1>2 DEF Fail, Sent
<1>4. /\ outbox' = [outbox EXCEPT ![sender[w].key].status = "sent", ![sender[w].key].due = TRUE]
      /\ sender' = [sender EXCEPT ![w] = Idle] /\ confirmed' = confirmed
  BY <1>2, <1>3 DEF Sent, Release
<1>5. sender[w].key \in Keys
  BY <1>1 DEF TypeInv, SendersOK
<1> QED BY <1>2, <1>3, <1>4, <1>5 DEF Finishes, Holds, TypeInv, OutboxTypeOK

\* The lease of a row in hand does not run out under a sender that is alone.
LEMMA NothingToSweep ==
  ASSUME InTurn, NEW w \in Senders, Sweep(w)
  PROVE  FALSE
BY DEF InTurn, Sweep, Exhausted

LEMMA InTurnStands ==
  ASSUME InTurn, UNCHANGED <<outbox, sender>>
  PROVE  InTurn'
BY DEF InTurn, Before, Rowed, Holds

LEMMA InTurnGrows ==
  ASSUME TypeInv, SendersAtRows, IdsOK, InTurn, sender' = sender,
         NEW k \in Keys, NEW op, NewRow(k, op)
  PROVE  InTurn'
<1>1. /\ outbox[k].status = "absent"
      /\ outbox'[k].status = "pending" /\ outbox'[k].attempts = 0 /\ outbox'[k].due
      /\ outbox'[k].id = NextId
      /\ \A j \in Keys \ {k} : outbox'[j] = outbox[j]
  BY DEF NewRow
<1>2. \A w \in Senders : sender[w] # Idle => sender[w].key \in Keys \ {k}
  BY <1>1 DEF SendersAtRows, TypeInv, SendersOK
<1>3. ASSUME NEW i \in Rowed', NEW j \in Rowed', Before(i, j)' PROVE outbox'[i].id < outbox'[j].id
  <2>1. i \in Keys /\ j \in Keys /\ i # k
    BY <1>1, <1>3 DEF Before, Rowed
  <2>2. outbox'[i] = outbox[i] /\ i \in Rowed
    BY <1>1, <1>3, <2>1 DEF Rowed
  <2>3. CASE j = k
    BY <1>1, <2>2, <2>3 DEF IdsOK
  <2>4. CASE j # k
    BY <1>1, <1>3, <2>1, <2>2, <2>4 DEF InTurn, Before, Rowed
  <2> QED BY <2>3, <2>4
<1>4. \A j \in Keys :
        /\ outbox'[j].status # "failed"
        /\ outbox'[j].status = "pending" => outbox'[j].attempts = 0 /\ outbox'[j].due
        /\ outbox'[j].status = "sending" => ~outbox'[j].due /\ \E w \in Senders : sender'[w].key = j
  BY <1>1 DEF InTurn
<1>5. \A w \in Senders : sender'[w] # Idle => Holds(w)' /\ sender'[w].phase # "raised"
  BY <1>1, <1>2 DEF InTurn, Holds
<1> QED BY <1>3, <1>4, <1>5 DEF InTurn

LEMMA InTurnTaken ==
  ASSUME TypeInv, OneSender, InTurn, NEW w \in Senders, NEW k \in Keys, TakesUp(w, k),
         \A j \in Keys : SameRow(j)
  PROVE  InTurn'
<1>0. \A v \in Senders : v = w
  BY DEF OneSender
<1>1. \A j \in Keys :
        /\ outbox'[j].status # "failed"
        /\ outbox'[j].status = "pending" => outbox'[j].attempts = 0 /\ outbox'[j].due
        /\ outbox'[j].status = "sending" => ~outbox'[j].due /\ \E v \in Senders : sender'[v].key = j
  BY DEF InTurn, TakesUp
<1>2. \A v \in Senders : sender'[v] # Idle => Holds(v)' /\ sender'[v].phase # "raised"
  BY <1>0 DEF TakesUp, Holds
<1>3. \A j \in Keys : outbox'[j].id = outbox[j].id /\ (j \in Rowed' => j \in Rowed)
  BY DEF SameRow, Rowed
<1>4. ASSUME NEW i \in Rowed', NEW j \in Rowed', Before(i, j)' PROVE outbox'[i].id < outbox'[j].id
  <2>1. i \in Keys /\ j \in Keys /\ i \in Rowed /\ j \in Rowed
    BY <1>3 DEF Rowed
  <2>2. outbox'[i].id = outbox[i].id /\ outbox'[j].id = outbox[j].id
    BY <1>3, <2>1
  <2>3. outbox[i].id < outbox[j].id
    BY <1>4, <2>1 DEF Before, InTurn, TakesUp, Open
  <2> QED BY <2>2, <2>3
<1> QED BY <1>1, <1>2, <1>4 DEF InTurn

LEMMA InTurnGoesOn ==
  ASSUME OneSender, InTurn, NEW w \in Senders, GoesOn(w)
  PROVE  InTurn'
<1>1. \A v \in Senders : v = w
  BY DEF OneSender
<1>2. /\ outbox' = outbox /\ sender[w] # Idle
      /\ sender'[w].key = sender[w].key /\ sender'[w].attempt = sender[w].attempt
      /\ sender'[w].phase # "raised"
  BY DEF GoesOn
<1>3. \A v \in Senders : sender'[v].key = sender[v].key /\ Holds(v)' = Holds(v)
  BY <1>1, <1>2 DEF Holds
<1> QED BY <1>1, <1>2, <1>3 DEF InTurn, Before, Rowed

LEMMA InTurnFinished ==
  ASSUME TypeInv, OneSender, InTurn, NEW w \in Senders, Finishes(w),
         \A j \in Keys : SameRow(j)
  PROVE  InTurn'
<1>0. \A v \in Senders : v = w
  BY DEF OneSender
<1>1. sender[w].key \in Keys
  BY DEF Finishes, TypeInv, SendersOK
<1>2. \A j \in Keys \ {sender[w].key} : outbox[j].status # "sending"
  BY <1>0 DEF InTurn
<1>3. \A j \in Keys : outbox'[j].status \notin {"sending", "failed"}
  BY <1>1, <1>2 DEF Finishes, InTurn
<1>4. \A j \in Keys : outbox'[j].id = outbox[j].id /\ (j \in Rowed' => j \in Rowed)
  BY DEF SameRow, Rowed
<1>5. ASSUME NEW i \in Rowed', NEW j \in Rowed', Before(i, j)' PROVE outbox'[i].id < outbox'[j].id
  <2>1. i \in Keys /\ j \in Keys /\ i \in Rowed /\ j \in Rowed
    BY <1>4 DEF Rowed
  <2>2. outbox'[i].status = "sent" /\ outbox'[j].status = "pending"
    BY <1>3, <1>5, <2>1 DEF Before, Open
  <2>3. outbox[j].status = "pending" /\ outbox[i].status \in {"sent", "sending"}
    BY <1>1, <2>1, <2>2 DEF Finishes
  <2>4. outbox[i].id < outbox[j].id
    BY <2>1, <2>3 DEF Before, InTurn, Open
  <2> QED BY <1>4, <2>1, <2>4
<1>6. \A j \in Keys : outbox'[j].status = "pending" => outbox'[j].attempts = 0 /\ outbox'[j].due
  BY <1>1 DEF Finishes, InTurn
<1>7. \A v \in Senders : sender'[v] = Idle
  BY <1>0 DEF Finishes
<1> QED BY <1>3, <1>5, <1>6, <1>7 DEF InTurn

====
