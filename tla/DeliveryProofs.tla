---- MODULE DeliveryProofs ----
(***************************************************************************)
(* Proofs about ScheduleDelivery for any calendar, any versions of the     *)
(* lessons, any keys and any number of workers.  Every step of the         *)
(* composed system is a step of the outbox, leaves the outbox alone, or is *)
(* a restart, in which all senders lose their claims at once; so what      *)
(* OutboxProofs shows of the outbox carries over.  On top of it stand the  *)
(* invariants that tie message ids to the cards of the topic, stored       *)
(* changes to their notices, and tomorrow's card to what is confirmed.     *)
(***************************************************************************)
EXTENDS ScheduleDelivery, OutboxProofs, SequenceTheorems

\* What the topic can hold.
CardKeys == {k \in Keys : IsCard(k)}

Posts == [day : {k.day : k \in CardKeys}, text : {k.text : k \in CardKeys}]

TopicOK == topic \in Seq(Posts) /\ Len(topic) <= MaxCards

\* Message m is a card of day d, if it is a message.
Shows(d, m) == m # 0 => m \in DOMAIN topic /\ topic[m].day = d

CardsOK == card = [d \in Days |-> card[d]] /\ \A d \in Days : Shows(d, card[d])

\* The handler that is about to enqueue an edit of the card has the id of that card.
WorkOK ==
  /\ work = [job |-> work.job, step |-> work.step,
             accesses |-> work.accesses, message |-> work.message]
  /\ work.step = "enqueue" => Shows(Tomorrow, work.message)

\* An envelope edits a card of its own day.
EnvelopesOK ==
  \A k \in Keys : IsCard(k) /\ outbox[k].status # "absent" => Shows(k.day, outbox[k].op)

\* A sender holds a row that exists; once it has an answer, the row was sent and the answer
\* is the card of its day.
AnswersOK ==
  \A w \in Senders :
    /\ sender[w].phase # "idle" => outbox[sender[w].key].status # "absent"
    /\ sender[w].phase = "delivered" =>
         /\ accepted[sender[w].key] > 0
         /\ IsCard(sender[w].key) => Shows(sender[w].key.day, sender[w].answer)

NoticesOK == \A c \in notified : \E k \in Keys : ~IsCard(k) /\ c \in k.ids /\ accepted[k] > 0

ContentInv == TopicOK /\ CardsOK /\ WorkOK /\ EnvelopesOK /\ AnswersOK /\ NoticesOK

DeliveryInv == MailInv /\ ContentInv

----------------------------------------------------------------------------
(***************************************************************************)
(* What a step keeps                                                       *)
(***************************************************************************)
\* No card leaves the topic or changes its day.
TopicGrows ==
  /\ TopicOK'
  /\ \A m \in DOMAIN topic : m \in DOMAIN topic' /\ topic'[m].day = topic[m].day

\* No row appears, disappears or changes what it is to do.
SameRows ==
  \A k \in Keys : /\ outbox'[k].op = outbox[k].op
                  /\ outbox'[k].status = "absent" <=> outbox[k].status = "absent"

AcceptedGrows == \A k \in Keys : accepted[k] > 0 => accepted'[k] > 0

LEMMA CardsKept ==
  ASSUME CardsOK, TopicGrows, card' = card
  PROVE  CardsOK'
<1> QED BY DEF CardsOK, TopicGrows, Shows

LEMMA WorkKept ==
  ASSUME WorkOK, TopicGrows, work' = work
  PROVE  WorkOK'
<1> QED BY DEF WorkOK, TopicGrows, Shows

LEMMA EnvelopesKept ==
  ASSUME EnvelopesOK, TopicGrows, SameRows
  PROVE  EnvelopesOK'
<1> QED BY DEF EnvelopesOK, TopicGrows, SameRows, Shows

LEMMA NoticesKept ==
  ASSUME NoticesOK, AcceptedGrows, notified' = notified
  PROVE  NoticesOK'
<1> QED BY DEF NoticesOK, AcceptedGrows

\* A topic that is left alone grows by nothing.
LEMMA TopicStays ==
  ASSUME TopicOK, topic' = topic
  PROVE  TopicGrows
<1> QED BY DEF TopicOK, TopicGrows

\* The message a handler or an envelope means is one the outbox can hold.
LEMMA ShownIsMessage ==
  ASSUME TopicOK, NEW d, NEW m, Shows(d, m)
  PROVE  m \in Ops /\ m \in Messages
<1>1. Len(topic) \in Nat /\ DOMAIN topic = 1..Len(topic)
  BY DEF TopicOK
<1> QED BY <1>1, MessageAssumption DEF TopicOK, Shows

----------------------------------------------------------------------------
(***************************************************************************)
(* Steps that leave the outbox, the topic and the records alone            *)
(***************************************************************************)
LEMMA TaskKeeps ==
  ASSUME ContentInv, UNCHANGED <<outboxVars, topic, card, notified>>, WorkOK'
  PROVE  ContentInv'
<1> USE DEF ContentInv
<1>1. TopicGrows
  BY TopicStays
<1>2. SameRows /\ AcceptedGrows
  BY DEF SameRows, AcceptedGrows, outboxVars
<1>3. AnswersOK'
  BY DEF AnswersOK, Shows, outboxVars
<1> QED BY <1>1, <1>2, <1>3, CardsKept, EnvelopesKept, NoticesKept DEF TopicGrows

\* The steps of jobs and handlers that enqueue nothing.
TaskStep ==
  \/ \E w \in Weeks : GrowOld(w) \/ Answer(w)
  \/ AdmitSync
  \/ AdmitEvening
  \/ \E j \in JobKeys : ClaimJob(j) \/ SweepJob(j)
  \/ \E w \in Weeks : \E lessons \in Timetables(w) :
       SyncSucceeds(lessons) \/ EveningRefreshes(lessons)
  \/ SyncFails
  \/ ReadCard
  \/ CardConflicts
  \/ FinishJob
  \/ EveningLoad
  \/ EveningFallsBack

LEMMA TaskStepFrame == TaskStep => UNCHANGED <<outboxVars, topic, card, notified>>
<1> QED BY DEF TaskStep, GrowOld, Answer, AdmitSync, AdmitEvening, ClaimJob, SweepJob,
               SyncSucceeds, EveningRefreshes, SyncFails, ReadCard, CardConflicts, FinishJob,
               EveningLoad, EveningFallsBack, Synchronise, RecordFailedAttempt, storeVars

\* Only ReadCard leads a handler to the step that enqueues, with the id it has just read.
LEMMA TaskStepWork == ContentInv /\ TaskStep => WorkOK'
<1> SUFFICES ASSUME ContentInv, TaskStep PROVE WorkOK' OBVIOUS
<1> USE DEF ContentInv
<1>1. topic' = topic /\ TopicGrows
  BY TaskStepFrame, TopicStays
<1>a. CASE work' = work
  BY <1>1, <1>a, WorkKept
<1>b. CASE work' = NoWork
  BY <1>b DEF NoWork, WorkOK
<1>c. ASSUME NEW job, NEW step, NEW accesses, NEW message, step # "enqueue",
             work' = [job |-> job, step |-> step, accesses |-> accesses, message |-> message]
      PROVE  WorkOK'
  BY <1>c DEF WorkOK
<1>2. ASSUME NEW w \in Weeks, GrowOld(w) \/ Answer(w) PROVE WorkOK'
  BY <1>2, <1>a DEF GrowOld, Answer, taskVars
<1>3. CASE AdmitSync \/ AdmitEvening
  BY <1>3, <1>a DEF AdmitSync, AdmitEvening
<1>4. ASSUME NEW j \in JobKeys, ClaimJob(j) PROVE WorkOK'
  <2>1. work' = [job |-> j, step |-> IF j = "sync" THEN "this week" ELSE "load",
                 accesses |-> <<>>, message |-> 0]
    BY <1>4 DEF ClaimJob, NoWork
  <2> QED BY <2>1 DEF WorkOK
<1>5. ASSUME NEW j \in JobKeys, SweepJob(j) PROVE WorkOK'
  BY <1>5, <1>a DEF SweepJob
<1>6. ASSUME NEW lessons, SyncSucceeds(lessons) PROVE WorkOK'
  BY <1>6 DEF SyncSucceeds, AfterWeek, WorkOK
<1>7. ASSUME NEW lessons, EveningRefreshes(lessons) PROVE WorkOK'
  BY <1>7 DEF EveningRefreshes, ShowCard, WorkOK
<1>8. CASE SyncFails
  BY <1>8 DEF SyncFails, AfterWeek, WorkOK
<1>9. CASE ReadCard
  <2>1. Shows(Tomorrow, card[Tomorrow])
    BY CalendarAssumption DEF CardsOK, Tomorrow
  <2> QED BY <1>1, <1>9, <2>1 DEF ReadCard, NextAccess, WorkOK, Shows
<1>10. CASE CardConflicts \/ FinishJob
  BY <1>10, <1>b DEF CardConflicts, FinishJob
<1>11. CASE EveningLoad
  BY <1>11 DEF EveningLoad, ShowCard, WorkOK
<1>12. CASE EveningFallsBack
  BY <1>12 DEF EveningFallsBack, ShowCard, WorkOK
<1> QED BY <1>2, <1>3, <1>4, <1>5, <1>6, <1>7, <1>8, <1>9, <1>10, <1>11, <1>12 DEF TaskStep

LEMMA TaskStepKeeps == ContentInv /\ TaskStep => ContentInv'
<1> QED BY TaskStepFrame, TaskStepWork, TaskKeeps

----------------------------------------------------------------------------
(***************************************************************************)
(* Enqueueing                                                              *)
(***************************************************************************)
\* A new row that edits a card edits one of its day.
LEMMA EnqueueKeeps ==
  ASSUME ContentInv, TypeInv, NEW k, NEW op, Enqueue(k, op),
         IsCard(k) => Shows(k.day, op),
         UNCHANGED <<topic, card, notified>>, WorkOK'
  PROVE  ContentInv'
<1> USE DEF ContentInv
<1>1. TopicGrows
  BY TopicStays
<1>2. /\ outbox' = outbox \/ outbox' = [outbox EXCEPT ![k] =
            [status |-> "pending", id |-> NextId, attempts |-> 0, due |-> TRUE, op |-> op]]
      /\ sender' = sender /\ accepted' = accepted
  BY DEF Enqueue, Enqueued
<1>3. \A j \in Keys : \/ outbox'[j] = outbox[j]
                      \/ j = k /\ outbox'[j].status # "absent" /\ outbox'[j].op = op
  BY <1>2 DEF TypeInv, OutboxTypeOK
<1>4. EnvelopesOK'
  BY <1>1, <1>3 DEF EnvelopesOK, TopicGrows, Shows
<1>5. AnswersOK'
  BY <1>2, <1>3 DEF AnswersOK, Shows, TypeInv, SendersOK
<1>6. AcceptedGrows
  BY <1>2 DEF AcceptedGrows
<1> QED BY <1>1, <1>4, <1>5, <1>6, CardsKept, NoticesKept DEF TopicGrows

LEMMA PublishNoticeKeeps == ContentInv /\ TypeInv /\ PublishNotice => ContentInv'
<1> SUFFICES ASSUME ContentInv, TypeInv, PublishNotice PROVE ContentInv' OBVIOUS
<1>1. WorkOK'
  BY DEF PublishNotice, NextAccess, WorkOK, ContentInv
<1>2. ~IsCard(NoticeKey(Access.changes))
  BY DEF IsCard, NoticeKey
<1> QED BY <1>1, <1>2, EnqueueKeeps DEF PublishNotice, storeVars

LEMMA EnqueueCardKeeps == ContentInv /\ TypeInv /\ EnqueueCard => ContentInv'
<1> SUFFICES ASSUME ContentInv, TypeInv, EnqueueCard PROVE ContentInv' OBVIOUS
<1>1. WorkOK'
  BY DEF EnqueueCard, NextAccess, WorkOK, ContentInv
<1>2. Shows(CardKey(Tomorrow, CardText).day, work.message)
  BY DEF EnqueueCard, CardKey, WorkOK, ContentInv
<1> QED BY <1>1, <1>2, EnqueueKeeps DEF EnqueueCard, storeVars

----------------------------------------------------------------------------
(***************************************************************************)
(* Claims, refusals, reports, leases and restarts                          *)
(***************************************************************************)
\* A step of the senders that tells Telegram and the records nothing.
LEMMA QuietStepKeeps ==
  ASSUME ContentInv, SameRows, UNCHANGED <<accepted, storeVars, taskVars, topic>>, AnswersOK'
  PROVE  ContentInv'
<1> USE DEF ContentInv
<1>1. TopicGrows /\ AcceptedGrows
  BY TopicStays DEF AcceptedGrows
<1> QED BY <1>1, CardsKept, WorkKept, EnvelopesKept, NoticesKept
        DEF TopicGrows, storeVars, taskVars

LEMMA SweptSame ==
  ASSUME TypeInv, NEW k \in Keys
  PROVE  /\ Swept[k].op = outbox[k].op
         /\ Swept[k].status = "absent" <=> outbox[k].status = "absent"
<1> QED BY DEF Swept, Exhausted, TypeInv, OutboxTypeOK

\* A sender keeps its row and its answer, lets go of both, or has just taken a row that exists.
SendersKeep ==
  \A w \in Senders :
    sender'[w].phase # "idle" =>
      \/ sender'[w] = sender[w]
      \/ /\ sender'[w].phase # "delivered"
         /\ sender'[w].key \in Keys
         /\ outbox[sender'[w].key].status # "absent"

LEMMA AnswersKept ==
  ASSUME AnswersOK, TypeInv, SameRows, AcceptedGrows, topic' = topic, SendersKeep
  PROVE  AnswersOK'
<1> SUFFICES ASSUME NEW w \in Senders, sender'[w].phase # "idle"
             PROVE  /\ outbox'[sender'[w].key].status # "absent"
                    /\ sender'[w].phase = "delivered" =>
                         /\ accepted'[sender'[w].key] > 0
                         /\ IsCard(sender'[w].key) => Shows(sender[w].key.day, sender[w].answer)'
  BY DEF AnswersOK, Shows
<1>1. CASE sender'[w] = sender[w]
  <2>1. sender[w].phase # "idle" /\ sender[w].key \in Keys
    BY <1>1 DEF TypeInv, SendersOK
  <2> QED BY <1>1, <2>1 DEF AnswersOK, SameRows, AcceptedGrows, Shows
<1>2. CASE sender'[w] # sender[w]
  BY <1>2 DEF SameRows, SendersKeep
<1> QED BY <1>1, <1>2

LEMMA ClaimSame ==
  ASSUME TypeInv, NEW w \in Senders, NEW k \in Keys, Claim(w, k)
  PROVE  SameRows
<1>1. outbox' = [Swept EXCEPT ![k].status = "sending", ![k].due = FALSE, ![k].attempts = @ + 1]
  BY DEF Claim
<1>2. outbox[k].status # "absent"
  BY ClaimKeeps DEF Open
<1>3. ASSUME NEW j \in Keys \ {k} PROVE outbox'[j] = Swept[j]
  BY ClaimKeeps
<1>4. Swept \in [Keys -> Rows]
  BY SweptKeeps DEF TypeInv
<1>5. outbox'[k].op = Swept[k].op /\ outbox'[k].status = "sending"
  BY <1>1, <1>4 DEF Rows
<1> QED BY <1>2, <1>3, <1>5, SweptSame DEF SameRows

LEMMA ReleaseSame ==
  ASSUME TypeInv, NEW w \in Senders, sender[w].phase # "idle",
         NEW status \in {"sent", "failed", "pending"}, NEW due \in BOOLEAN,
         Release(w, status, due)
  PROVE  SameRows
<1>1. sender[w].key \in Keys
  BY DEF TypeInv, SendersOK
<1> QED BY <1>1 DEF SameRows, Release, Holds, TypeInv, OutboxTypeOK

LEMMA ClaimRowKeeps ==
  ASSUME ContentInv, TypeInv, NEW w \in Senders, NEW k \in Keys, ClaimRow(w, k)
  PROVE  ContentInv'
<1>1. Claim(w, k) /\ UNCHANGED <<accepted, storeVars, taskVars, topic>>
  BY DEF ClaimRow, Claim
<1>3. outbox[k].status # "absent"
  BY <1>1, ClaimKeeps DEF Open
<1>4. SameRows
  BY <1>1, ClaimSame
<1>5. AcceptedGrows
  BY <1>1 DEF AcceptedGrows
<1>6. SendersKeep
  <2>1. ASSUME NEW v \in Senders \ {w} PROVE sender'[v] = sender[v]
    BY <1>1, ClaimKeeps
  <2>2. sender'[w].phase = "claimed" /\ sender'[w].key = k
    BY <1>1, ClaimKeeps
  <2> QED BY <1>3, <2>1, <2>2 DEF SendersKeep
<1>7. AnswersOK'
  BY <1>1, <1>4, <1>5, <1>6, AnswersKept DEF ContentInv
<1> QED BY <1>1, <1>4, <1>7, QuietStepKeeps

LEMMA SweepRowsKeeps ==
  ASSUME ContentInv, TypeInv, NEW w \in Senders, SweepRows(w)
  PROVE  ContentInv'
<1>1. /\ outbox' = Swept /\ sender' = sender
      /\ UNCHANGED <<accepted, storeVars, taskVars, topic>>
  BY DEF SweepRows, Sweep
<1>2. SameRows
  BY <1>1, SweptSame DEF SameRows
<1>3. AcceptedGrows
  BY <1>1 DEF AcceptedGrows
<1>4. SendersKeep
  BY <1>1 DEF SendersKeep
<1>5. AnswersOK'
  BY <1>1, <1>2, <1>3, <1>4, AnswersKept DEF ContentInv
<1> QED BY <1>1, <1>2, <1>5, QuietStepKeeps

LEMMA SendRefusedKeeps ==
  ASSUME ContentInv, TypeInv, NEW w \in Senders, SendRefused(w)
  PROVE  ContentInv'
<1>1. /\ sender[w].phase = "claimed" /\ sender' = [sender EXCEPT ![w].phase = "raised"]
      /\ UNCHANGED <<outbox, accepted, storeVars, taskVars, topic>>
  BY DEF SendRefused, Refuse, Reach
<1>2. SameRows /\ AcceptedGrows
  BY <1>1 DEF SameRows, AcceptedGrows
<1>3. SendersKeep
  <2>1. sender[w].key \in Keys /\ outbox[sender[w].key].status # "absent"
    BY <1>1 DEF ContentInv, AnswersOK, TypeInv, SendersOK
  <2> QED BY <1>1, <2>1 DEF SendersKeep, TypeInv, OutboxTypeOK
<1>4. AnswersOK'
  BY <1>1, <1>2, <1>3, AnswersKept DEF ContentInv
<1> QED BY <1>1, <1>2, <1>4, QuietStepKeeps

\* A sender that lets go of its row holds none.
LEMMA IdleSenders ==
  ASSUME TypeInv, NEW w \in Senders, sender' = [sender EXCEPT ![w] = Idle],
         NEW v \in Senders, sender'[v].phase # "idle"
  PROVE  sender'[v] = sender[v]
<1> QED BY DEF Idle, TypeInv, OutboxTypeOK

LEMMA ReportKeeps ==
  ASSUME ContentInv, TypeInv, NEW w \in Senders, Report(w)
  PROVE  ContentInv'
<1>1. (Sent(w) \/ Fail(w)) /\ UNCHANGED <<accepted, storeVars, taskVars, topic>>
  BY DEF Report, Sent, Fail, Release
<1>2. PICK status \in {"sent", "failed", "pending"}, due \in BOOLEAN :
        sender[w].phase # "idle" /\ Release(w, status, due)
  BY <1>1, Reports
<1>3. SameRows
  BY <1>2, ReleaseSame
<1>4. AcceptedGrows
  BY <1>1 DEF AcceptedGrows
<1>5. sender' = [sender EXCEPT ![w] = Idle]
  BY <1>2 DEF Release
<1>6. SendersKeep
  BY <1>5, IdleSenders DEF SendersKeep
<1>7. AnswersOK'
  BY <1>1, <1>3, <1>4, <1>6, AnswersKept DEF ContentInv
<1> QED BY <1>1, <1>3, <1>7, QuietStepKeeps

LEMMA DueKeeps ==
  ASSUME ContentInv, TypeInv, NEW k \in Keys, Due(k)
  PROVE  ContentInv'
<1>1. /\ outbox' = [outbox EXCEPT ![k].due = TRUE] /\ sender' = sender
      /\ UNCHANGED <<accepted, storeVars, taskVars, topic>>
  BY DEF Due, Elapse
<1>2. SameRows /\ AcceptedGrows
  BY <1>1 DEF SameRows, AcceptedGrows, TypeInv, OutboxTypeOK
<1>3. SendersKeep
  BY <1>1 DEF SendersKeep
<1>4. AnswersOK'
  BY <1>1, <1>2, <1>3, AnswersKept DEF ContentInv
<1> QED BY <1>1, <1>2, <1>4, QuietStepKeeps

LEMMA RestartKeeps == ContentInv /\ TypeInv /\ Restart => ContentInv'
<1> SUFFICES ASSUME ContentInv, TypeInv, Restart PROVE ContentInv' OBVIOUS
<1>1. /\ sender' = [w \in Senders |-> Idle] /\ work' = NoWork
      /\ UNCHANGED <<outbox, accepted, card, notified, topic>>
  BY DEF Restart, storeVars
<1>2. SameRows /\ AcceptedGrows /\ TopicGrows
  BY <1>1, TopicStays DEF SameRows, AcceptedGrows, ContentInv
<1>3. AnswersOK'
  BY <1>1 DEF AnswersOK, Idle
<1>4. WorkOK'
  BY <1>1 DEF WorkOK, NoWork
<1> QED BY <1>1, <1>2, <1>3, <1>4, CardsKept, EnvelopesKept, NoticesKept
        DEF ContentInv, TopicGrows

----------------------------------------------------------------------------
(***************************************************************************)
(* Sending and recording                                                   *)
(***************************************************************************)
\* A call that is carried out posts a card of the row's day or edits one, and its reply is
\* the message id of that card.
LEMMA CarryGrows ==
  ASSUME ContentInv, TypeInv, NEW w \in Senders, sender[w].phase = "claimed", Carry(w)
  PROVE  /\ TopicGrows
         /\ Reply(w) \in Messages
         /\ IsCard(KeyOf(w)) => Reply(w) \in DOMAIN topic' /\ topic'[Reply(w)].day = KeyOf(w).day
<1> USE DEF ContentInv, TopicOK
<1> DEFINE k == KeyOf(w)
<1>1. k \in Keys /\ outbox[k].status # "absent"
  BY DEF KeyOf, AnswersOK, TypeInv, SendersOK
<1>2. Len(topic) \in Nat /\ DOMAIN topic = 1..Len(topic) /\ MaxCards \in Nat
      /\ \A m \in 0..MaxCards : m \in Messages
  BY MessageAssumption
<1>3. CASE ~IsCard(k)
  <2>1. topic' = topic /\ Reply(w) = 0
    BY <1>3 DEF Carry, Reply, NewMessage
  <2> QED BY <1>2, <1>3, <2>1, TopicStays
<1>4. CASE IsCard(k) /\ OpOf(w) = 0
  <2> DEFINE post == [day |-> k.day, text |-> k.text]
  <2>1. Len(topic) < MaxCards /\ topic' = Append(topic, post) /\ Reply(w) = Len(topic) + 1
    BY <1>4 DEF Carry, Reply, Post, NewMessage
  <2>2. post \in Posts
    BY <1>1, <1>4 DEF Posts, CardKeys
  <2>3. topic' \in Seq(Posts) /\ Len(topic') = Len(topic) + 1
    BY <2>1, <2>2
  <2>4. /\ \A m \in 1..Len(topic) : topic'[m] = topic[m]
        /\ topic'[Len(topic) + 1] = post
    BY <2>1, <2>2
  <2>5. DOMAIN topic' = 1..Len(topic) + 1
    BY <2>3
  <2> QED BY <1>2, <2>1, <2>3, <2>4, <2>5 DEF TopicGrows
<1>5. CASE IsCard(k) /\ OpOf(w) # 0
  <2> DEFINE m == OpOf(w)
  <2>1. m \in DOMAIN topic /\ topic[m].day = k.day /\ Reply(w) = m
    BY <1>1, <1>5 DEF EnvelopesOK, Shows, Reply, OpOf, NewMessage
  <2>2. topic' = [topic EXCEPT ![m] = [topic[m] EXCEPT !.text = k.text]]
    BY <1>5 DEF Carry, NewMessage
  <2> DEFINE edited == [topic[m] EXCEPT !.text = k.text]
  <2>3. topic[m] \in Posts /\ k.text \in {j.text : j \in CardKeys}
    BY <1>1, <1>5, <2>1 DEF CardKeys
  <2>4. edited \in Posts /\ edited.day = topic[m].day
    BY <2>3 DEF Posts
  <2>5. topic' \in Seq(Posts) /\ Len(topic') = Len(topic)
    BY <1>2, <2>1, <2>2, <2>4, ExceptSeq
  <2>6. \A n \in DOMAIN topic : n \in DOMAIN topic' /\ topic'[n].day = topic[n].day
    BY <2>2, <2>4
  <2> QED BY <1>2, <2>1, <2>5, <2>6 DEF TopicGrows
<1> QED BY <1>3, <1>4, <1>5

\* A call that is carried out counts for its row.
LEMMA CarriedOutGrows ==
  ASSUME TypeInv, NEW w \in Senders, sender[w].phase # "idle", CarriedOut(w)
  PROVE  AcceptedGrows /\ accepted'[sender[w].key] > 0
<1>1. sender[w].key \in Keys
  BY DEF TypeInv, SendersOK
<1> QED BY <1>1 DEF CarriedOut, AcceptedGrows, TypeInv, OutboxTypeOK

LEMMA SendKeeps ==
  ASSUME ContentInv, TypeInv, NEW w \in Senders, Send(w)
  PROVE  ContentInv'
<1> USE DEF ContentInv
<1>1. /\ sender[w].phase = "claimed" /\ CarriedOut(w) /\ Carry(w)
      /\ sender' = [sender EXCEPT ![w].phase = "delivered", ![w].answer = Reply(w)]
      /\ UNCHANGED <<outbox, card, notified, work>>
  BY DEF Send, Deliver, storeVars, taskVars
<1>2. TopicGrows
  BY <1>1, CarryGrows
<1>3. AcceptedGrows /\ accepted'[sender[w].key] > 0
  BY <1>1, CarriedOutGrows
<1>4. SameRows
  BY <1>1 DEF SameRows
<1>5. ASSUME NEW v \in Senders, sender'[v].phase # "idle"
      PROVE  /\ outbox'[sender'[v].key].status # "absent"
             /\ sender'[v].phase = "delivered" =>
                  /\ accepted'[sender'[v].key] > 0
                  /\ IsCard(sender'[v].key) =>
                       (sender'[v].answer # 0 =>
                          /\ sender'[v].answer \in DOMAIN topic'
                          /\ topic'[sender'[v].answer].day = sender'[v].key.day)
  <2>1. CASE v = w
    <3>1. /\ sender'[v].key = sender[w].key /\ sender'[v].answer = Reply(w)
          /\ sender'[v].phase = "delivered"
      BY <1>1, <2>1 DEF TypeInv, OutboxTypeOK
    <3>2. outbox[sender[w].key].status # "absent"
      BY <1>1 DEF AnswersOK
    <3> QED BY <1>1, <1>3, <3>1, <3>2, CarryGrows DEF KeyOf
  <2>2. CASE v # w
    <3>1. sender'[v] = sender[v]
      BY <1>1, <2>2 DEF TypeInv, OutboxTypeOK
    <3>2. sender[v].phase # "idle" /\ sender[v].key \in Keys
      BY <1>5, <3>1 DEF TypeInv, SendersOK
    <3> QED BY <1>1, <1>2, <1>3, <3>1, <3>2 DEF AnswersOK, AcceptedGrows, TopicGrows, Shows
  <2> QED BY <2>1, <2>2
<1>6. AnswersOK'
  BY <1>5 DEF AnswersOK, Shows
<1> QED BY <1>1, <1>2, <1>3, <1>4, <1>6, CardsKept, WorkKept, EnvelopesKept, NoticesKept
        DEF TopicGrows

LEMMA SendUnansweredKeeps ==
  ASSUME ContentInv, TypeInv, NEW w \in Senders, SendUnanswered(w)
  PROVE  ContentInv'
<1> USE DEF ContentInv
<1>1. /\ sender[w].phase = "claimed" /\ CarriedOut(w) /\ Carry(w)
      /\ sender' = [sender EXCEPT ![w].phase = "raised"]
      /\ UNCHANGED <<outbox, card, notified, work>>
  BY DEF SendUnanswered, LoseReply, Reach, storeVars, taskVars
<1>2. TopicGrows /\ AcceptedGrows
  BY <1>1, CarryGrows, CarriedOutGrows
<1>3. SameRows
  BY <1>1 DEF SameRows
<1>4. ASSUME NEW v \in Senders, sender'[v].phase # "idle"
      PROVE  /\ outbox'[sender'[v].key].status # "absent"
             /\ sender'[v].phase = "delivered" =>
                  /\ accepted'[sender'[v].key] > 0
                  /\ IsCard(sender'[v].key) =>
                       (sender'[v].answer # 0 =>
                          /\ sender'[v].answer \in DOMAIN topic'
                          /\ topic'[sender'[v].answer].day = sender'[v].key.day)
  <2>1. CASE v = w
    BY <1>1, <2>1 DEF AnswersOK, TypeInv, OutboxTypeOK
  <2>2. CASE v # w
    <3>1. sender'[v] = sender[v]
      BY <1>1, <2>2 DEF TypeInv, OutboxTypeOK
    <3>2. sender[v].phase # "idle" /\ sender[v].key \in Keys
      BY <1>4, <3>1 DEF TypeInv, SendersOK
    <3> QED BY <1>1, <1>2, <3>1, <3>2 DEF AnswersOK, AcceptedGrows, TopicGrows, Shows
  <2> QED BY <2>1, <2>2
<1>5. AnswersOK'
  BY <1>4 DEF AnswersOK, Shows
<1> QED BY <1>1, <1>2, <1>3, <1>5, CardsKept, WorkKept, EnvelopesKept, NoticesKept
        DEF TopicGrows

\* What is recorded is the answer of the call, or the changes of the notice that was posted.
LEMMA RecordKeeps ==
  ASSUME ContentInv, TypeInv, NEW w \in Senders, Record(w)
  PROVE  ContentInv'
<1> USE DEF ContentInv
<1> DEFINE k == sender[w].key
<1>1. /\ sender[w].phase = "delivered" /\ sender' = [sender EXCEPT ![w].phase = "confirmed"]
      /\ UNCHANGED <<outbox, accepted, work, topic>>
  BY DEF Record, Confirm, Reach, taskVars
<1>2. SameRows /\ AcceptedGrows /\ TopicGrows
  BY <1>1, TopicStays DEF SameRows, AcceptedGrows
<1>3. /\ k \in Keys /\ outbox[k].status # "absent" /\ accepted[k] > 0
      /\ IsCard(k) => Shows(k.day, sender[w].answer)
  BY <1>1 DEF AnswersOK, TypeInv, SendersOK
<1>4. SendersKeep
  BY <1>1, <1>3 DEF SendersKeep, TypeInv, OutboxTypeOK
<1>5. AnswersOK'
  BY <1>1, <1>2, <1>4, AnswersKept
<1>6. CASE IsCard(k)
  <2>1. card' = [card EXCEPT ![k.day] = sender[w].answer] /\ notified' = notified
    BY <1>6 DEF Record, KeyOf
  <2>2. CardsOK'
    BY <1>1, <1>3, <1>6, <2>1 DEF CardsOK, Shows
  <2> QED BY <1>1, <1>2, <1>5, <2>1, <2>2, WorkKept, EnvelopesKept, NoticesKept DEF TopicGrows
<1>7. CASE ~IsCard(k)
  <2>1. notified' = notified \cup k.ids /\ card' = card
    BY <1>7 DEF Record, KeyOf
  <2>2. NoticesOK'
    BY <1>1, <1>3, <1>7, <2>1 DEF NoticesOK
  <2> QED BY <1>1, <1>2, <1>5, <2>1, <2>2, WorkKept, EnvelopesKept, CardsKept DEF TopicGrows
<1> QED BY <1>6, <1>7

----------------------------------------------------------------------------
(***************************************************************************)
(* The composed system and the outbox                                      *)
(***************************************************************************)
\* The steps by which the composed system uses the outbox.
EnvelopeStep ==
  \/ PublishNotice
  \/ EnqueueCard
  \/ \E w \in Senders, k \in Keys : ClaimRow(w, k)
  \/ \E w \in Senders : SweepRows(w) \/ Send(w) \/ SendUnanswered(w) \/ SendRefused(w)
                          \/ Record(w) \/ Report(w)
  \/ \E k \in Keys : Due(k)

\* They are steps of the outbox itself.
LEMMA EnvelopeIsStep ==
  ASSUME ContentInv, TypeInv, EnvelopeStep
  PROVE  [OutboxNext]_outboxVars
<1>1. ASSUME PublishNotice PROVE [OutboxNext]_outboxVars
  BY <1>1, EnqueueIsStep, MessageAssumption DEF PublishNotice, NewMessage
<1>2. ASSUME EnqueueCard PROVE [OutboxNext]_outboxVars
  <2>1. work.message \in Ops
    BY <1>2, ShownIsMessage DEF EnqueueCard, WorkOK, ContentInv
  <2> QED BY <1>2, <2>1, EnqueueIsStep DEF EnqueueCard
<1>3. ASSUME NEW w \in Senders, Send(w) PROVE [OutboxNext]_outboxVars
  <2>1. Reply(w) \in Messages
    BY <1>3, CarryGrows DEF Send, Deliver
  <2> QED BY <1>3, <2>1 DEF Send, OutboxNext
<1>4. ASSUME NEW w \in Senders, SweepRows(w) \/ SendUnanswered(w) \/ SendRefused(w)
                                  \/ Record(w) \/ Report(w)
      PROVE  [OutboxNext]_outboxVars
  BY <1>4 DEF SweepRows, SendUnanswered, SendRefused, Record, Report, OutboxNext
<1>5. ASSUME NEW w \in Senders, NEW k \in Keys, ClaimRow(w, k) PROVE [OutboxNext]_outboxVars
  BY <1>5 DEF ClaimRow, OutboxNext
<1>6. ASSUME NEW k \in Keys, Due(k) PROVE [OutboxNext]_outboxVars
  BY <1>6 DEF Due, OutboxNext
<1> QED BY <1>1, <1>2, <1>3, <1>4, <1>5, <1>6 DEF EnvelopeStep

LEMMA EnvelopeStepKeeps ==
  ASSUME ContentInv, TypeInv, EnvelopeStep
  PROVE  ContentInv'
<1> QED BY PublishNoticeKeeps, EnqueueCardKeeps, ClaimRowKeeps, SweepRowsKeeps, SendKeeps,
           SendUnansweredKeeps, SendRefusedKeeps, RecordKeeps, ReportKeeps, DueKeeps
        DEF EnvelopeStep

LEMMA StepDelivers == DeliveryInv /\ [Next]_vars => DeliveryInv'
<1> SUFFICES ASSUME DeliveryInv, [Next]_vars PROVE DeliveryInv' OBVIOUS
<1> USE DEF DeliveryInv
<1>1. TypeInv
  BY DEF MailInv, AttemptInv
<1>2. CASE TaskStep
  BY <1>2, TaskStepFrame, TaskStepKeeps, StepAnswered
<1>3. CASE EnvelopeStep
  BY <1>1, <1>3, EnvelopeIsStep, EnvelopeStepKeeps, StepAnswered
<1>4. CASE Restart
  <2>1. MailInv'
    BY <1>4, AllIdleKeepsMail DEF Restart
  <2> QED BY <1>1, <1>4, <2>1, RestartKeeps
<1>5. CASE UNCHANGED vars
  <2>1. UNCHANGED <<outboxVars, topic, card, notified, work>>
    BY <1>5 DEF vars, storeVars, taskVars
  <2>2. WorkOK'
    BY <2>1, TopicStays, WorkKept DEF ContentInv
  <2> QED BY <2>1, <2>2, TaskKeeps, StepAnswered
<1> QED BY <1>2, <1>3, <1>4, <1>5 DEF Next, TaskStep, EnvelopeStep

LEMMA InitDelivers == Init => DeliveryInv
<1> SUFFICES ASSUME Init PROVE DeliveryInv OBVIOUS
<1>1. MailInv
  BY InitMail DEF Init
<1>2. TopicOK
  BY MessageAssumption DEF Init, TopicOK
<1>3. CardsOK /\ WorkOK /\ NoticesOK
  BY DEF Init, CardsOK, WorkOK, NoticesOK, NoWork, Shows
<1>4. EnvelopesOK /\ AnswersOK
  BY DEF Init, OutboxInit, EnvelopesOK, AnswersOK, Idle, Absent
<1> QED BY <1>1, <1>2, <1>3, <1>4 DEF DeliveryInv, ContentInv

----------------------------------------------------------------------------
(***************************************************************************)
(* The tables and the handler's knowledge                                  *)
(***************************************************************************)
\* The rows of the tables, and what a handler knows of a week.
JobRows == [state : {"absent", "open", "ended"}, tries : 0..MaxTries]

Lessons == {Nothing} \cup UNION {Timetables(w) : w \in Weeks}

Accesses == [week : Weeks, changes : SUBSET ChangeIds, lessons : Lessons, stale : BOOLEAN]

\* The accesses whose changes are still to be published.
Unpublished ==
  {i \in DOMAIN work.accesses : i > 1 \/ work.step \notin {"card", "enqueue"}}

JobsOK == jobs \in [JobKeys -> JobRows]

MarkerOK ==
  /\ marker \in [Weeks -> [lessons : Lessons, fresh : BOOLEAN]]
  /\ \A w \in Weeks : marker[w].lessons \in Timetables(w) \cup {Nothing}

\* What is told is stored, and so is what a notice tells.
StoredOK ==
  /\ stored \subseteq ChangeIds
  /\ notified \subseteq stored
  /\ \A k \in Keys : ~IsCard(k) /\ outbox[k].status # "absent" => k.ids \subseteq stored

AccessesOK ==
  /\ work.accesses \in Seq(Accesses)
  /\ work.step \in {"idle", "load", "refresh"} => work.accesses = <<>>
  /\ work.step \in {"card", "enqueue"} => work.accesses # <<>>
  /\ \A i \in Unpublished :
       /\ work.accesses[i].changes \subseteq stored
       /\ NoticeKey(work.accesses[i].changes) \in Keys

TablesInv == JobsOK /\ MarkerOK /\ StoredOK /\ AccessesOK

\* A notice that has a row is on its way, or its changes are told.
Held(k) == \E w \in Senders : sender[w].key = k /\ sender[w].phase \in {"claimed", "delivered"}

Arrives(k) == outbox[k].status = "pending" \/ Held(k) \/ k.ids \subseteq notified

NoticesArrive ==
  \A k \in Keys : ~IsCard(k) /\ outbox[k].status # "absent" => Arrives(k)

\* A change is told, or was overlooked, or has a notice, or is about to get one.
Noticed(c) == \E k \in Keys : ~IsCard(k) /\ c \in k.ids /\ outbox[k].status # "absent"

Waiting(c) == \E i \in Unpublished : c \in work.accesses[i].changes

Announced(c) == c \in lost.untold \/ Noticed(c) \/ Waiting(c)

NothingRaised == \A w \in Senders : sender[w].phase # "raised"

Undisturbed == trouble = 0 /\ ~repeated

ToldInv ==
  /\ trouble \in Nat
  /\ lost = [untold |-> lost.untold, unseen |-> lost.unseen]
  /\ Undisturbed => NothingRaised /\ NoticesArrive /\ \A c \in stored : Announced(c)

LEMMA Calendar ==
  /\ Week(Today) \in Weeks /\ Week(Tomorrow) \in Weeks /\ SyncWeek \in Weeks
  /\ Today \in Nat
<1>1. Today \in Days /\ Tomorrow \in Days /\ Today \in Nat /\ Week(Today) + 1 \in Weeks
  BY CalendarAssumption DEF Tomorrow
<1>2. Week(Today) \in Weeks /\ Week(Tomorrow) \in Weeks
  BY <1>1 DEF Weeks
<1>3. Week(Today) \in Nat
  BY <1>1, CalendarAssumption DEF Week
<1>4. SyncWeek \in Weeks
  <2>1. CASE work.step = "next week"
    BY <1>1, <2>1 DEF SyncWeek
  <2>2. CASE work.step # "next week"
    <3>1. SyncWeek = Week(Today) + 0
      BY <2>2 DEF SyncWeek
    <3>2. SyncWeek = Week(Today)
      BY <1>3, <3>1
    <3> QED BY <1>2, <3>2
  <2> QED BY <2>1, <2>2
<1> QED BY <1>1, <1>2, <1>4

\* A change that is found is one of the week, and any set of new ones has a key for its notice.
LEMMA NewTyped ==
  ASSUME MarkerOK, NEW w \in Weeks, NEW lessons \in Timetables(w)
  PROVE  /\ New(w, lessons) \subseteq ChangeIds
         /\ New(w, lessons) # {} => NoticeKey(New(w, lessons)) \in Keys
<1>1. CASE marker[w].lessons = Nothing
  BY <1>1 DEF New, Detected
<1>2. CASE marker[w].lessons # Nothing
  <2> DEFINE old == marker[w].lessons
             found == Differences(w, old, lessons)
  <2>1. old \in Timetables(w)
    BY <1>2 DEF MarkerOK
  <2>2. Detected(w, lessons) = found
    BY <1>2 DEF Detected
  <2>3. found \subseteq ChangeIds
    <3>1. ASSUME NEW d \in DaysOf(w) PROVE d \in Days /\ old[d] \in Versions /\ lessons[d] \in Versions
      BY <2>1 DEF Timetables, DaysOf
    <3>2. lessons \in UNION {Timetables(v) : v \in Weeks}
      OBVIOUS
    <3> QED BY <3>1, <3>2 DEF Differences, ChangeIds
  <2>4. New(w, lessons) \in SUBSET found
    BY <2>2 DEF New
  <2> HIDE DEF old, found
  <2>5. New(w, lessons) # {} => NoticeKey(New(w, lessons)) \in Keys
    BY <2>1, <2>4, NoticeAssumption DEF found
  <2> QED BY <2>3, <2>4, <2>5
<1> QED BY <1>1, <1>2

LEMMA SynchroniseMarks ==
  ASSUME MarkerOK, NEW w \in Weeks, NEW lessons \in Timetables(w), Synchronise(w, lessons)
  PROVE  MarkerOK'
<1>1. marker' = [marker EXCEPT ![w] = [lessons |-> lessons, fresh |-> TRUE]]
  BY DEF Synchronise
<1>2. [lessons |-> lessons, fresh |-> TRUE] \in [lessons : Lessons, fresh : BOOLEAN]
  BY DEF Lessons
<1> QED BY <1>1, <1>2 DEF MarkerOK

LEMMA MarkerAges ==
  ASSUME MarkerOK, NEW w, marker' = [marker EXCEPT ![w].fresh = FALSE] \/ marker' = marker
  PROVE  MarkerOK'
BY DEF MarkerOK

\* A marker ages, or learns what a refresh has read: for the handler that synchronises, or for
\* a caller who does not look at the changes.
MarkersStep ==
  \/ marker' = marker
  \/ \E w \in Weeks : marker' = [marker EXCEPT ![w].fresh = FALSE]
  \/ \E w \in Weeks : \E lessons \in Timetables(w) :
       /\ Synchronise(w, lessons) /\ Mind(Repeated(w, lessons))
       /\ Overlook(New(w, lessons)) \/ (SyncSucceeds(lessons) /\ w = SyncWeek)

LEMMA StepOfMarkers ==
  ASSUME [Next]_vars
  PROVE  MarkersStep
<1>1. ASSUME NEW w \in Weeks, GrowOld(w) PROVE MarkersStep
  BY <1>1 DEF GrowOld, MarkersStep
<1>2. ASSUME NEW w \in Weeks, Answer(w) PROVE MarkersStep
  BY <1>2 DEF Answer, RecordFailedAttempt, MarkersStep
<1>3. ASSUME NEW lessons, SyncSucceeds(lessons) PROVE MarkersStep
  BY <1>3, Calendar DEF SyncSucceeds, MarkersStep
<1>4. ASSUME NEW lessons, EveningRefreshes(lessons) PROVE MarkersStep
  BY <1>4, Calendar DEF EveningRefreshes, MarkersStep
<1>5. ASSUME SyncFails \/ EveningFallsBack PROVE MarkersStep
  <2>1. PICK w \in Weeks : RecordFailedAttempt(w) \/ UNCHANGED <<marker, stored>>
    BY <1>5, Calendar DEF SyncFails, EveningFallsBack
  <2> QED BY <2>1 DEF RecordFailedAttempt, MarkersStep
<1>6. ASSUME NEW j \in JobKeys, ClaimJob(j) \/ SweepJob(j) PROVE MarkersStep
  BY <1>6 DEF ClaimJob, SweepJob, storeVars, MarkersStep
<1>7. ASSUME \/ AdmitSync \/ AdmitEvening \/ PublishNotice \/ ReadCard \/ EnqueueCard
             \/ CardConflicts \/ FinishJob \/ EveningLoad \/ Restart \/ UNCHANGED vars
      PROVE  MarkersStep
  BY <1>7 DEF AdmitSync, AdmitEvening, PublishNotice, ReadCard, EnqueueCard,
     CardConflicts, FinishJob, EveningLoad, Restart, vars, storeVars, MarkersStep
<1>8. ASSUME NEW w \in Senders, NEW k \in Keys, ClaimRow(w, k) PROVE MarkersStep
  BY <1>8 DEF ClaimRow, storeVars, MarkersStep
<1>9. ASSUME NEW w \in Senders, \/ SweepRows(w) \/ Send(w) \/ SendUnanswered(w)
                                \/ SendRefused(w) \/ Record(w) \/ Report(w)
      PROVE  MarkersStep
  BY <1>9 DEF SweepRows, Send, SendUnanswered, SendRefused, Record, Report, storeVars, MarkersStep
<1>10. ASSUME NEW k \in Keys, Due(k) PROVE MarkersStep
  BY <1>10 DEF Due, storeVars, MarkersStep
<1> QED BY <1>1, <1>2, <1>3, <1>4, <1>5, <1>6, <1>7, <1>8, <1>9, <1>10 DEF Next

LEMMA StepMarks ==
  ASSUME MarkerOK, [Next]_vars
  PROVE  MarkerOK'
BY StepOfMarkers, MarkerAges, SynchroniseMarks DEF MarkersStep

LEMMA StepJobs ==
  ASSUME JobsOK, [Next]_vars
  PROVE  JobsOK'
<1>1. MaxTries \in Nat /\ MaxTries > 0 /\ 0 \in 0..MaxTries
  BY TryAssumption
<1>2. ASSUME jobs' = jobs PROVE JobsOK'
  BY <1>2 DEF JobsOK
<1>3. ASSUME NEW j, NEW row \in JobRows, jobs' = [jobs EXCEPT ![j] = row] PROVE JobsOK'
  BY <1>3 DEF JobsOK
<1>4. Ended \in JobRows /\ [state |-> "open", tries |-> 0] \in JobRows
  BY <1>1 DEF Ended, JobRows
<1>5. ASSUME AdmitSync \/ AdmitEvening PROVE JobsOK'
  BY <1>3, <1>4, <1>5 DEF AdmitSync, AdmitEvening
<1>6. ASSUME NEW j \in JobKeys, ClaimJob(j) PROVE JobsOK'
  <2>1. jobs[j] \in JobRows /\ jobs[j].tries < MaxTries
    BY <1>6 DEF JobsOK, ClaimJob
  <2>2. [jobs[j] EXCEPT !.tries = @ + 1] \in JobRows
    BY <1>1, <2>1 DEF JobRows
  <2>3. jobs' = [jobs EXCEPT ![j] = [jobs[j] EXCEPT !.tries = @ + 1]]
    BY <1>6 DEF ClaimJob
  <2> QED BY <1>3, <2>2, <2>3
<1>7. ASSUME NEW j \in JobKeys, SweepJob(j) PROVE JobsOK'
  BY <1>3, <1>4, <1>7 DEF SweepJob
<1>8. ASSUME FinishJob PROVE JobsOK'
  BY <1>3, <1>4, <1>8 DEF FinishJob
<1>9. ASSUME CardConflicts PROVE JobsOK'
  <2>1. jobs' = [jobs EXCEPT ![work.job] = Ended] \/ jobs' = jobs
    <3>1. jobs' = [jobs EXCEPT ![work.job] = IF @.tries >= MaxTries THEN Ended ELSE @]
      BY <1>9 DEF CardConflicts
    <3>2. jobs = [j \in JobKeys |-> jobs[j]]
      BY DEF JobsOK
    <3> QED BY <3>1, <3>2
  <2> QED BY <1>2, <1>3, <1>4, <2>1
<1>10. ASSUME NEW w \in Weeks, GrowOld(w) \/ Answer(w) PROVE JobsOK'
  BY <1>2, <1>10 DEF GrowOld, Answer, taskVars
<1>11. ASSUME NEW lessons, SyncSucceeds(lessons) \/ EveningRefreshes(lessons) PROVE JobsOK'
  BY <1>2, <1>11 DEF SyncSucceeds, EveningRefreshes
<1>12. ASSUME \/ SyncFails \/ PublishNotice \/ ReadCard \/ EnqueueCard \/ EveningLoad
              \/ EveningFallsBack \/ Restart \/ UNCHANGED vars
       PROVE  JobsOK'
  BY <1>2, <1>12 DEF SyncFails, PublishNotice, ReadCard, EnqueueCard, EveningLoad,
     EveningFallsBack, Restart, vars, taskVars
<1>13. ASSUME NEW w \in Senders, NEW k \in Keys, ClaimRow(w, k) PROVE JobsOK'
  BY <1>2, <1>13 DEF ClaimRow, taskVars
<1>14. ASSUME NEW w \in Senders, \/ SweepRows(w) \/ Send(w) \/ SendUnanswered(w)
                                 \/ SendRefused(w) \/ Record(w) \/ Report(w)
       PROVE  JobsOK'
  BY <1>2, <1>14 DEF SweepRows, Send, SendUnanswered, SendRefused, Record, Report, taskVars
<1>15. ASSUME NEW k \in Keys, Due(k) PROVE JobsOK'
  BY <1>2, <1>15 DEF Due, taskVars
<1> QED BY <1>5, <1>6, <1>7, <1>8, <1>9, <1>10, <1>11, <1>12, <1>13, <1>14, <1>15 DEF Next

----------------------------------------------------------------------------
(***************************************************************************)
(* What a handler has still to publish                                     *)
(***************************************************************************)
WaitKept == \A c \in ChangeIds : Waiting(c) => Waiting(c)'

LEMMA SameAccesses ==
  ASSUME AccessesOK, work' = work, stored \subseteq stored'
  PROVE  AccessesOK' /\ WaitKept
BY DEF AccessesOK, Unpublished, WaitKept, Waiting

LEMMA NothingWaits ==
  ASSUME AccessesOK, work.accesses = <<>>
  PROVE  WaitKept
BY DEF Unpublished, WaitKept, Waiting

LEMMA NoAccesses ==
  ASSUME work'.accesses = <<>>, work'.step \notin {"card", "enqueue"}
  PROVE  AccessesOK'
BY DEF AccessesOK, Unpublished

\* t is s with e after it.
Extended(t, s, e) ==
  /\ \A i \in DOMAIN s : i \in DOMAIN t /\ t[i] = s[i]
  /\ \A i \in DOMAIN t : i \in DOMAIN s \/ t[i] = e
  /\ \E i \in DOMAIN t : t[i] = e

LEMMA AppendOne ==
  ASSUME NEW S, NEW s \in Seq(S), NEW e \in S
  PROVE  Append(s, e) \in Seq(S) /\ Extended(Append(s, e), s, e)
<1>1. PICK t : t = Append(s, e)
  OBVIOUS
<1>2. /\ t \in Seq(S) /\ Len(t) = Len(s) + 1 /\ Len(s) \in Nat
      /\ DOMAIN s = 1..Len(s) /\ t[Len(s) + 1] = e
      /\ \A i \in 1..Len(s) : t[i] = s[i]
  BY <1>1, AppendProperties
<1>3. DOMAIN t = 1..Len(s) + 1
  BY <1>2
<1>4. Extended(t, s, e)
  BY <1>2, <1>3 DEF Extended
<1> QED BY <1>1, <1>2, <1>4

LEMMA TailOne ==
  ASSUME NEW S, NEW s \in Seq(S), s # <<>>
  PROVE  /\ Tail(s) \in Seq(S)
         /\ \A j \in DOMAIN Tail(s) : \E i \in DOMAIN s : i > 1 /\ Tail(s)[j] = s[i]
         /\ \A i \in DOMAIN s : i > 1 => \E j \in DOMAIN Tail(s) : Tail(s)[j] = s[i]
<1>1. /\ Tail(s) \in Seq(S) /\ Len(Tail(s)) = Len(s) - 1 /\ Len(s) \in Nat /\ Len(s) > 0
      /\ DOMAIN s = 1..Len(s)
      /\ \A i \in 1..Len(Tail(s)) : Tail(s)[i] = s[i + 1]
  BY HeadTailProperties
<1>2. DOMAIN Tail(s) = 1..Len(s) - 1
  BY <1>1
<1>3. ASSUME NEW j \in DOMAIN Tail(s) PROVE \E i \in DOMAIN s : i > 1 /\ Tail(s)[j] = s[i]
  <2>1. j + 1 \in DOMAIN s /\ j + 1 > 1 /\ Tail(s)[j] = s[j + 1]
    BY <1>1, <1>2
  <2> QED BY <2>1
<1>4. ASSUME NEW i \in DOMAIN s, i > 1 PROVE \E j \in DOMAIN Tail(s) : Tail(s)[j] = s[i]
  <2>1. i - 1 \in 1..Len(s) - 1 /\ (i - 1) + 1 = i
    BY <1>1, <1>4
  <2>2. i - 1 \in DOMAIN Tail(s) /\ Tail(s)[i - 1] = s[i]
    BY <1>1, <1>2, <2>1
  <2> QED BY <2>2
<1> QED BY <1>1, <1>3, <1>4

\* The first access is done with: it had been published, or it is by this step.
LEMMA NextKeeps ==
  ASSUME AccessesOK, WorkOK, work.accesses # <<>>, work' = NextAccess, stored' = stored
  PROVE  /\ AccessesOK'
         /\ \A i \in Unpublished : i > 1 =>
              \E j \in Unpublished' : work'.accesses[j] = work.accesses[i]
<1>1. PICK s : s = work.accesses
  OBVIOUS
<1>2. s \in Seq(Accesses) /\ s # <<>>
  BY <1>1 DEF AccessesOK
<1>3. PICK t : t = Tail(s)
  OBVIOUS
<1>4. /\ t \in Seq(Accesses)
      /\ \A j \in DOMAIN t : \E i \in DOMAIN s : i > 1 /\ t[j] = s[i]
      /\ \A i \in DOMAIN s : i > 1 => \E j \in DOMAIN t : t[j] = s[i]
  BY <1>2, <1>3, TailOne
<1>5. work' = [job |-> work.job, step |-> "publish", accesses |-> t, message |-> 0]
  BY <1>1, <1>3 DEF NextAccess, WorkOK
<1>6. Unpublished' = DOMAIN t /\ \A i \in Unpublished : i \in DOMAIN s
  <2>1. work'.accesses = t /\ work'.step = "publish"
    BY <1>5
  <2>2. Unpublished' = DOMAIN t
    BY <2>1 DEF Unpublished
  <2> QED BY <1>1, <2>2 DEF Unpublished
<1>7. \A i \in DOMAIN s : i > 1 => i \in Unpublished
  BY <1>1 DEF Unpublished
<1>8. ASSUME NEW j \in DOMAIN t
      PROVE  t[j].changes \subseteq stored /\ NoticeKey(t[j].changes) \in Keys
  BY <1>1, <1>4, <1>7 DEF AccessesOK
<1>9. AccessesOK'
  BY <1>4, <1>5, <1>6, <1>8 DEF AccessesOK
<1> QED BY <1>1, <1>4, <1>5, <1>6, <1>9

\* At a card the first access has been published.
LEMMA NextFromCard ==
  ASSUME AccessesOK, WorkOK, work.step \in {"card", "enqueue"}, work' = NextAccess, stored' = stored
  PROVE  AccessesOK' /\ WaitKept
<1>1. work.accesses # <<>> /\ \A i \in Unpublished : i > 1
  BY DEF AccessesOK, Unpublished
<1> QED BY <1>1, NextKeeps DEF WaitKept, Waiting

\* What a synchronisation hands on can be published.
Publishable(found) ==
  found.changes # {} =>
    /\ found \in Accesses /\ found.changes \subseteq stored
    /\ NoticeKey(found.changes) \in Keys

LEMMA AfterKeeps ==
  ASSUME AccessesOK, WorkOK, work.step \in {"this week", "next week"}, stored \subseteq stored',
         NEW found, AfterWeek(found), Publishable(found)'
  PROVE  AccessesOK' /\ WaitKept /\ \A c \in found.changes : Waiting(c)'
<1>1. PICK s : s = work.accesses
  OBVIOUS
<1>2. s \in Seq(Accesses) /\ Unpublished = DOMAIN s
  BY <1>1 DEF AccessesOK, Unpublished
<1>3. PICK t : t = IF found.changes = {} THEN s ELSE Append(s, found)
  OBVIOUS
<1>4. PICK step \in {"next week", "publish"} :
        work' = [job |-> work.job, step |-> step, accesses |-> t, message |-> work.message]
  BY <1>1, <1>3 DEF AfterWeek, WorkOK
<1>5. Unpublished' = DOMAIN t
  BY <1>4 DEF Unpublished
<1>6. /\ t \in Seq(Accesses)
      /\ \A i \in DOMAIN s : i \in DOMAIN t /\ t[i] = s[i]
      /\ \A i \in DOMAIN t : i \in DOMAIN s \/ (found.changes # {} /\ t[i] = found)
      /\ found.changes # {} => \E i \in DOMAIN t : t[i] = found
  <2>1. CASE found.changes = {}
    BY <1>2, <1>3, <2>1
  <2>2. CASE found.changes # {}
    <3>1. t = Append(s, found) /\ found \in Accesses
      BY <1>3, <2>2 DEF Publishable
    <3>2. t \in Seq(Accesses) /\ Extended(t, s, found)
      BY <1>2, <3>1, AppendOne
    <3> QED BY <2>2, <3>2 DEF Extended
  <2> QED BY <2>1, <2>2
<1>7. ASSUME NEW i \in DOMAIN t
      PROVE  t[i].changes \subseteq stored' /\ NoticeKey(t[i].changes) \in Keys
  BY <1>1, <1>2, <1>6 DEF AccessesOK, Publishable
<1>8. AccessesOK'
  BY <1>4, <1>5, <1>6, <1>7 DEF AccessesOK
<1>9. WaitKept
  BY <1>1, <1>2, <1>4, <1>5, <1>6 DEF WaitKept, Waiting
<1>10. \A c \in found.changes : Waiting(c)'
  BY <1>4, <1>5, <1>6 DEF Waiting
<1> QED BY <1>8, <1>9, <1>10

\* What the evening job shows has nothing to publish.
LEMMA ShowKeeps ==
  ASSUME AccessesOK, WorkOK, NEW w \in Weeks, NEW lessons \in Lessons, NEW stale \in BOOLEAN,
         work' = ShowCard(w, lessons, stale)
  PROVE  AccessesOK'
<1> DEFINE access == [week |-> w, changes |-> {}, lessons |-> lessons, stale |-> stale]
<1>1. work' = [job |-> work.job, step |-> "card", accesses |-> <<access>>, message |-> work.message]
  BY DEF ShowCard, WorkOK
<1>2. access \in Accesses
  BY DEF Accesses
<1>3. <<access>> \in Seq(Accesses) /\ DOMAIN <<access>> = {1} /\ <<access>> # <<>>
  BY <1>2
<1> HIDE DEF access
<1>4. Unpublished' = {}
  BY <1>1, <1>3 DEF Unpublished
<1> QED BY <1>1, <1>3, <1>4 DEF AccessesOK

----------------------------------------------------------------------------
(***************************************************************************)
(* The tables under the steps of jobs and handlers                         *)
(***************************************************************************)
LEMMA StoredKept ==
  ASSUME StoredOK, stored \subseteq stored', stored' \subseteq ChangeIds, notified' = notified,
         SameRows
  PROVE  StoredOK'
BY DEF StoredOK, SameRows

\* What a refresh finds is stored, told or not.
LEMMA SynchroniseStores ==
  ASSUME StoredOK, MarkerOK, NEW w \in Weeks, NEW lessons \in Timetables(w),
         Synchronise(w, lessons)
  PROVE  /\ stored' = stored \cup New(w, lessons)
         /\ stored \subseteq stored' /\ stored' \subseteq ChangeIds
BY NewTyped DEF Synchronise, StoredOK

LEMMA TaskStored ==
  ASSUME StoredOK, MarkerOK, TaskStep
  PROVE  StoredOK' /\ stored \subseteq stored'
<1>1. UNCHANGED <<outboxVars, notified>>
  BY TaskStepFrame
<1>2. SameRows
  BY <1>1 DEF SameRows, outboxVars
<1>3. stored \subseteq ChangeIds
  BY DEF StoredOK
<1>a. ASSUME stored' = stored PROVE stored \subseteq stored' /\ stored' \subseteq ChangeIds
  BY <1>3, <1>a
<1>4. stored \subseteq stored' /\ stored' \subseteq ChangeIds
  <2>1. ASSUME NEW w \in Weeks, GrowOld(w) PROVE stored' = stored
    BY <2>1 DEF GrowOld
  <2>2. ASSUME NEW w \in Weeks, Answer(w) PROVE stored \subseteq stored' /\ stored' \subseteq ChangeIds
    BY <1>a, <2>2, SynchroniseStores DEF Answer, RecordFailedAttempt
  <2>3. ASSUME NEW lessons, SyncSucceeds(lessons)
        PROVE  stored \subseteq stored' /\ stored' \subseteq ChangeIds
    BY <2>3, Calendar, SynchroniseStores DEF SyncSucceeds
  <2>4. ASSUME NEW lessons, EveningRefreshes(lessons)
        PROVE  stored \subseteq stored' /\ stored' \subseteq ChangeIds
    BY <2>4, Calendar, SynchroniseStores DEF EveningRefreshes
  <2>5. ASSUME NEW j \in JobKeys, ClaimJob(j) \/ SweepJob(j) PROVE stored' = stored
    BY <2>5 DEF ClaimJob, SweepJob, storeVars
  <2>6. ASSUME \/ AdmitSync \/ AdmitEvening \/ SyncFails \/ ReadCard \/ CardConflicts
               \/ FinishJob \/ EveningLoad \/ EveningFallsBack
        PROVE  stored' = stored
    BY <2>6 DEF AdmitSync, AdmitEvening, SyncFails, ReadCard, CardConflicts, FinishJob,
       EveningLoad, EveningFallsBack, RecordFailedAttempt, storeVars
  <2> QED BY <1>a, <2>1, <2>2, <2>3, <2>4, <2>5, <2>6 DEF TaskStep
<1> QED BY <1>1, <1>2, <1>4, StoredKept

\* Whatever a synchronisation finds can be published.
LEMMA SyncPublishes ==
  ASSUME StoredOK, MarkerOK, NEW lessons, SyncSucceeds(lessons)
  PROVE  /\ work.step \in {"this week", "next week"}
         /\ \E found : /\ AfterWeek(found) /\ Publishable(found)'
                       /\ found.changes = New(SyncWeek, lessons)
<1> DEFINE found == [week |-> SyncWeek, changes |-> New(SyncWeek, lessons),
                     lessons |-> lessons, stale |-> FALSE]
<1>1. /\ work.step \in {"this week", "next week"} /\ lessons \in Timetables(SyncWeek)
      /\ Synchronise(SyncWeek, lessons) /\ AfterWeek(found) /\ SyncWeek \in Weeks
  BY Calendar DEF SyncSucceeds
<1>2. /\ New(SyncWeek, lessons) \subseteq ChangeIds /\ New(SyncWeek, lessons) \subseteq stored'
      /\ New(SyncWeek, lessons) # {} => NoticeKey(New(SyncWeek, lessons)) \in Keys
  BY <1>1, NewTyped, SynchroniseStores
<1>3. lessons \in Lessons
  BY <1>1 DEF Lessons
<1>4. found \in Accesses
  BY <1>1, <1>2, <1>3 DEF Accesses
<1>5. PICK f : f = found
  OBVIOUS
<1>6. f \in Accesses /\ f.changes = New(SyncWeek, lessons) /\ AfterWeek(f)
  BY <1>1, <1>4, <1>5
<1> HIDE DEF found
<1>7. Publishable(f)'
  BY <1>2, <1>6 DEF Publishable
<1> QED BY <1>1, <1>6, <1>7

\* A handler loses no change it knows of before it is published; the conflict of a card apart,
\* which ends the handler.
LEMMA TaskAccesses ==
  ASSUME StoredOK, MarkerOK, AccessesOK, WorkOK, TaskStep
  PROVE  AccessesOK' /\ (WaitKept \/ CardConflicts)
<1>1. stored \subseteq stored'
  BY TaskStored
<1>2. ASSUME work' = work PROVE AccessesOK' /\ WaitKept
  BY <1>1, <1>2, SameAccesses
<1>3. ASSUME NEW w \in Weeks, GrowOld(w) \/ Answer(w) PROVE AccessesOK' /\ WaitKept
  BY <1>2, <1>3 DEF GrowOld, Answer, taskVars
<1>4. CASE AdmitSync \/ AdmitEvening
  BY <1>2, <1>4 DEF AdmitSync, AdmitEvening
<1>5. ASSUME NEW j \in JobKeys, ClaimJob(j) PROVE AccessesOK' /\ WaitKept
  <2>1. /\ work.accesses = <<>>
        /\ work'.accesses = <<>> /\ work'.step \in {"this week", "load"}
    BY <1>5 DEF ClaimJob, NoWork
  <2> QED BY <2>1, NothingWaits, NoAccesses
<1>6. ASSUME NEW j \in JobKeys, SweepJob(j) PROVE AccessesOK' /\ WaitKept
  BY <1>2, <1>6 DEF SweepJob
<1>7. ASSUME NEW lessons, SyncSucceeds(lessons) PROVE AccessesOK' /\ WaitKept
  <2>1. /\ work.step \in {"this week", "next week"}
        /\ \E found : AfterWeek(found) /\ Publishable(found)'
    BY <1>7, SyncPublishes
  <2> QED BY <1>1, <2>1, AfterKeeps
<1>8. ASSUME SyncFails PROVE AccessesOK' /\ WaitKept
  <2>1. Publishable(NoAccess)'
    BY DEF Publishable, NoAccess
  <2> QED BY <1>1, <1>8, <2>1, AfterKeeps DEF SyncFails
<1>9. ASSUME ReadCard PROVE AccessesOK' /\ WaitKept
  <2>1. work.step = "card" /\ stored' = stored
    BY <1>9 DEF ReadCard, storeVars
  <2>2. CASE work' = NextAccess
    BY <2>1, <2>2, NextFromCard
  <2>3. CASE work' = [work EXCEPT !.step = "enqueue", !.message = card[Tomorrow]]
    <3>1. work' = [job |-> work.job, step |-> "enqueue", accesses |-> work.accesses,
                   message |-> card[Tomorrow]]
      BY <2>3 DEF WorkOK
    <3>2. Unpublished' = Unpublished
      BY <2>1, <3>1 DEF Unpublished
    <3> QED BY <2>1, <3>1, <3>2 DEF AccessesOK, WaitKept, Waiting
  <2> QED BY <1>9, <2>2, <2>3 DEF ReadCard
<1>10. ASSUME CardConflicts \/ FinishJob PROVE AccessesOK' /\ (WaitKept \/ CardConflicts)
  <2>1. work'.accesses = <<>> /\ work'.step = "idle"
    <3>1. work' = NoWork
      BY <1>10 DEF CardConflicts, FinishJob
    <3> QED BY <3>1 DEF NoWork
  <2>2. FinishJob => work.accesses = <<>>
    BY DEF FinishJob
  <2> QED BY <1>10, <2>1, <2>2, NoAccesses, NothingWaits
<1>11. ASSUME EveningLoad PROVE AccessesOK' /\ WaitKept
  <2>1. work.accesses = <<>> /\ Week(Tomorrow) \in Weeks
        /\ marker[Week(Tomorrow)].lessons \in Lessons
    BY <1>11, Calendar DEF EveningLoad, AccessesOK, MarkerOK
  <2>2. CASE work' = ShowCard(Week(Tomorrow), marker[Week(Tomorrow)].lessons, FALSE)
    BY <2>1, <2>2, ShowKeeps, NothingWaits
  <2>3. CASE work' = [work EXCEPT !.step = "refresh"]
    <3>1. work'.accesses = <<>> /\ work'.step = "refresh"
      BY <2>1, <2>3 DEF WorkOK
    <3> QED BY <2>1, <3>1, NoAccesses, NothingWaits
  <2> QED BY <1>11, <2>2, <2>3 DEF EveningLoad
<1>12. ASSUME NEW lessons, EveningRefreshes(lessons) PROVE AccessesOK' /\ WaitKept
  <2>1. /\ work.accesses = <<>> /\ Week(Tomorrow) \in Weeks /\ lessons \in Lessons
        /\ work' = ShowCard(Week(Tomorrow), lessons, FALSE)
    BY <1>12, Calendar DEF EveningRefreshes, AccessesOK, Lessons
  <2> QED BY <2>1, ShowKeeps, NothingWaits
<1>13. ASSUME EveningFallsBack PROVE AccessesOK' /\ WaitKept
  <2>1. work.accesses = <<>> /\ Week(Tomorrow) \in Weeks
        /\ marker[Week(Tomorrow)].lessons \in Lessons
    BY <1>13, Calendar DEF EveningFallsBack, AccessesOK, MarkerOK
  <2>2. CASE work' = ShowCard(Week(Tomorrow), marker[Week(Tomorrow)].lessons, TRUE)
    BY <2>1, <2>2, ShowKeeps, NothingWaits
  <2>3. CASE work' = [work EXCEPT !.step = "publish"]
    <3>1. work'.accesses = <<>> /\ work'.step = "publish"
      BY <2>1, <2>3 DEF WorkOK
    <3> QED BY <2>1, <3>1, NoAccesses, NothingWaits
  <2> QED BY <1>13, <2>2, <2>3 DEF EveningFallsBack
<1> QED BY <1>3, <1>4, <1>5, <1>6, <1>7, <1>8, <1>9, <1>10, <1>11, <1>12, <1>13 DEF TaskStep

----------------------------------------------------------------------------
(***************************************************************************)
(* A change on its way to the topic                                        *)
(***************************************************************************)
\* What the database knows of is on its way as before, and nothing new is disturbed.
OnTheWay == NothingRaised /\ NoticesArrive /\ \A c \in stored : Announced(c)

LEMMA DisturbanceStays ==
  ASSUME ToldInv, [Next]_vars
  PROVE  trouble' \in Nat /\ (Undisturbed' => Undisturbed)
<1>1. ASSUME Suffer PROVE trouble' \in Nat /\ (Undisturbed' => Undisturbed)
  BY <1>1 DEF Suffer, ToldInv, Undisturbed
<1>2. ASSUME NEW again, Mind(again) PROVE trouble' \in Nat /\ (Undisturbed' => Undisturbed)
  BY <1>2 DEF Mind, ToldInv, Undisturbed
<1>3. ASSUME UNCHANGED <<trouble, repeated>> PROVE trouble' \in Nat /\ (Undisturbed' => Undisturbed)
  BY <1>3 DEF ToldInv, Undisturbed
<1>4. ASSUME NEW w \in Weeks, GrowOld(w) \/ Answer(w)
      PROVE  trouble' \in Nat /\ (Undisturbed' => Undisturbed)
  BY <1>2, <1>3, <1>4 DEF GrowOld, Answer, historyVars
<1>5. ASSUME NEW j \in JobKeys, ClaimJob(j) \/ SweepJob(j) PROVE UNCHANGED <<trouble, repeated>>
  BY <1>5 DEF ClaimJob, SweepJob, historyVars
<1>6. ASSUME NEW lessons, SyncSucceeds(lessons) \/ EveningRefreshes(lessons)
      PROVE  \E again : Mind(again)
  BY <1>6 DEF SyncSucceeds, EveningRefreshes
<1>7. ASSUME \/ AdmitSync \/ AdmitEvening \/ SyncFails \/ PublishNotice \/ ReadCard \/ FinishJob
             \/ EveningLoad \/ EveningFallsBack \/ UNCHANGED vars
      PROVE  UNCHANGED <<trouble, repeated>>
  BY <1>7 DEF AdmitSync, AdmitEvening, SyncFails, PublishNotice, ReadCard, FinishJob, EveningLoad,
     EveningFallsBack, vars, historyVars
<1>8. ASSUME EnqueueCard \/ CardConflicts PROVE \E again : Mind(again)
  BY <1>8 DEF EnqueueCard, CardConflicts
<1>9. ASSUME NEW w \in Senders, NEW k \in Keys, ClaimRow(w, k)
      PROVE  UNCHANGED <<trouble, repeated>>
  BY <1>9 DEF ClaimRow, historyVars
<1>10. ASSUME NEW w \in Senders, SweepRows(w) \/ Send(w) \/ Record(w) \/ Report(w)
       PROVE  UNCHANGED <<trouble, repeated>>
  BY <1>10 DEF SweepRows, Send, Record, Report, historyVars
<1>11. ASSUME NEW w \in Senders, SendUnanswered(w) \/ SendRefused(w) PROVE Suffer
  BY <1>11 DEF SendUnanswered, SendRefused
<1>12. ASSUME NEW k \in Keys, Due(k) PROVE UNCHANGED <<trouble, repeated>>
  BY <1>12 DEF Due, historyVars
<1>13. Restart => Suffer
  BY DEF Restart
<1> QED BY <1>1, <1>2, <1>3, <1>4, <1>5, <1>6, <1>7, <1>8, <1>9, <1>10, <1>11, <1>12, <1>13 DEF Next

LEMMA CallsThatFail ==
  ASSUME trouble \in Nat, Suffer
  PROVE  ~Undisturbed'
BY DEF Suffer, Undisturbed

\* A step that leaves the rows, the senders and what is told alone.
LEMMA SameDelivery ==
  ASSUME OnTheWay, UNCHANGED <<outbox, sender, notified>>
  PROVE  NothingRaised' /\ NoticesArrive' /\ \A c : Noticed(c) => Noticed(c)'
BY DEF OnTheWay, NothingRaised, NoticesArrive, Arrives, Held, Noticed

LEMMA OldChangesTold ==
  ASSUME OnTheWay, stored \subseteq ChangeIds, WaitKept, lost.untold \subseteq lost'.untold,
         \A c : Noticed(c) => Noticed(c)'
  PROVE  \A c \in stored : Announced(c)'
BY DEF OnTheWay, Announced, WaitKept

\* A change that is found is kept for a notice, or overlooked.
FoundKept ==
  /\ (lost = [untold |-> lost.untold, unseen |-> lost.unseen])'
  /\ lost.untold \subseteq lost'.untold
  /\ \A c \in stored' \ stored : c \in lost'.untold \/ Waiting(c)'

LEMMA Overlooked ==
  ASSUME lost = [untold |-> lost.untold, unseen |-> lost.unseen], StoredOK, MarkerOK,
         NEW w \in Weeks, NEW lessons \in Timetables(w), Synchronise(w, lessons),
         Overlook(New(w, lessons))
  PROVE  FoundKept
<1>1. stored' = stored \cup New(w, lessons)
  BY SynchroniseStores
<1>2. lost' = [untold |-> lost.untold \cup New(w, lessons), unseen |-> lost.unseen]
  BY DEF Overlook
<1> QED BY <1>1, <1>2 DEF FoundKept

LEMMA TaskFound ==
  ASSUME lost = [untold |-> lost.untold, unseen |-> lost.unseen], StoredOK, MarkerOK, AccessesOK,
         WorkOK, TaskStep
  PROVE  FoundKept
<1>1. ASSUME stored' = stored, lost' = lost PROVE FoundKept
  BY <1>1 DEF FoundKept
<1>2. ASSUME NEW w \in Weeks, GrowOld(w) PROVE FoundKept
  BY <1>1, <1>2 DEF GrowOld, historyVars
<1>3. ASSUME NEW w \in Weeks, Answer(w) PROVE FoundKept
  BY <1>1, <1>3, Overlooked DEF Answer, RecordFailedAttempt, historyVars
<1>4. ASSUME NEW j \in JobKeys, ClaimJob(j) \/ SweepJob(j) PROVE FoundKept
  BY <1>1, <1>4 DEF ClaimJob, SweepJob, historyVars, storeVars
<1>5. ASSUME NEW lessons, SyncSucceeds(lessons) PROVE FoundKept
  <2>1. /\ SyncWeek \in Weeks /\ lessons \in Timetables(SyncWeek)
        /\ Synchronise(SyncWeek, lessons) /\ lost' = lost
    BY <1>5, Calendar DEF SyncSucceeds
  <2>2. stored' = stored \cup New(SyncWeek, lessons) /\ stored \subseteq stored'
    BY <2>1, SynchroniseStores
  <2>3. \A c \in New(SyncWeek, lessons) : Waiting(c)'
    BY <1>5, <2>2, SyncPublishes, AfterKeeps
  <2> QED BY <2>1, <2>2, <2>3 DEF FoundKept
<1>6. ASSUME NEW lessons, EveningRefreshes(lessons) PROVE FoundKept
  BY <1>6, Calendar, Overlooked DEF EveningRefreshes
<1>7. ASSUME ReadCard PROVE FoundKept
  <2>1. stored' = stored /\ lost'.untold = lost.untold
        /\ lost' = [untold |-> lost'.untold, unseen |-> lost'.unseen]
    BY <1>7 DEF ReadCard, storeVars
  <2> QED BY <2>1 DEF FoundKept
<1>8. ASSUME \/ AdmitSync \/ AdmitEvening \/ SyncFails \/ CardConflicts \/ FinishJob
             \/ EveningLoad \/ EveningFallsBack
      PROVE  FoundKept
  BY <1>1, <1>8 DEF AdmitSync, AdmitEvening, SyncFails, CardConflicts, FinishJob, EveningLoad,
     EveningFallsBack, RecordFailedAttempt, storeVars, historyVars
<1> QED BY <1>2, <1>3, <1>4, <1>5, <1>6, <1>7, <1>8 DEF TaskStep

LEMMA TaskTold ==
  ASSUME TablesInv, ToldInv, WorkOK, TaskStep
  PROVE  ToldInv'
<1>1. UNCHANGED <<outbox, sender, notified>>
  BY TaskStepFrame DEF outboxVars
<1>2. StoredOK /\ MarkerOK /\ AccessesOK /\ stored \subseteq ChangeIds
  BY DEF TablesInv, StoredOK
<1>3. FoundKept
  BY <1>2, TaskFound DEF ToldInv
<1>4. trouble' \in Nat /\ (Undisturbed' => Undisturbed)
  BY DisturbanceStays DEF Next, TaskStep
<1>5. CardConflicts => ~Undisturbed'
  BY DEF CardConflicts, Mind, Undisturbed
<1>6. ASSUME Undisturbed' PROVE OnTheWay'
  <2>1. OnTheWay
    BY <1>4, <1>6 DEF ToldInv, OnTheWay
  <2>2. WaitKept
    BY <1>2, <1>5, <1>6, TaskAccesses
  <2>3. NothingRaised' /\ NoticesArrive' /\ \A c : Noticed(c) => Noticed(c)'
    BY <1>1, <2>1, SameDelivery
  <2>4. \A c \in stored : Announced(c)'
    BY <1>2, <1>3, <2>1, <2>2, <2>3, OldChangesTold DEF FoundKept
  <2>5. \A c \in stored' \ stored : Announced(c)'
    BY <1>3 DEF FoundKept, Announced
  <2> QED BY <2>3, <2>4, <2>5 DEF OnTheWay
<1> QED BY <1>3, <1>4, <1>6 DEF ToldInv, OnTheWay, FoundKept

----------------------------------------------------------------------------
(***************************************************************************)
(* A notice on its way                                                     *)
(***************************************************************************)
LEMMA EnqueueAdds ==
  ASSUME TypeInv, NEW k, NEW op, Enqueue(k, op)
  PROVE  /\ \A j \in Keys : outbox'[j] = outbox[j] \/ (j = k /\ outbox'[j].status = "pending")
         /\ k \in Keys => outbox'[k].status # "absent"
         /\ sender' = sender
<1>1. /\ \/ outbox' = outbox /\ outbox[k].status # "absent"
         \/ outbox' = [outbox EXCEPT ![k] =
              [status |-> "pending", id |-> NextId, attempts |-> 0, due |-> TRUE, op |-> op]]
      /\ sender' = sender
  BY DEF Enqueue, Enqueued
<1> QED BY <1>1 DEF TypeInv, OutboxTypeOK

\* A new row waits for a sender.
LEMMA EnqueueOnTheWay ==
  ASSUME TypeInv, NEW k, NEW op, Enqueue(k, op), notified' = notified, OnTheWay
  PROVE  NothingRaised' /\ NoticesArrive' /\ \A c : Noticed(c) => Noticed(c)'
<1>1. /\ \A j \in Keys : outbox'[j] = outbox[j] \/ (j = k /\ outbox'[j].status = "pending")
      /\ sender' = sender
  BY EnqueueAdds
<1> QED BY <1>1 DEF OnTheWay, NothingRaised, NoticesArrive, Arrives, Held, Noticed

LEMMA EnqueueStored ==
  ASSUME TypeInv, StoredOK, NEW k, NEW op, Enqueue(k, op), UNCHANGED <<stored, notified>>,
         IsCard(k) \/ k.ids \subseteq stored
  PROVE  StoredOK'
BY EnqueueAdds DEF StoredOK

\* The notice of the first access has a row when the handler goes on.
LEMMA PublishTold ==
  ASSUME TypeInv, TablesInv, ToldInv, WorkOK, PublishNotice
  PROVE  StoredOK' /\ AccessesOK' /\ ToldInv'
<1> DEFINE k == NoticeKey(Access.changes)
<1>1. /\ work.step = "publish" /\ work.accesses # <<>> /\ Enqueue(k, NewMessage)
      /\ UNCHANGED <<stored, notified, lost, trouble, repeated>>
  BY DEF PublishNotice, storeVars, historyVars
<1>2. AccessesOK /\ StoredOK /\ stored \subseteq ChangeIds
  BY DEF TablesInv, StoredOK
<1>3. 1 \in Unpublished /\ Access = work.accesses[1]
  <2>1. work.accesses \in Seq(Accesses) /\ work.accesses # <<>>
    BY <1>1, <1>2 DEF AccessesOK
  <2>2. 1 \in DOMAIN work.accesses /\ Head(work.accesses) = work.accesses[1]
    BY <2>1
  <2> QED BY <1>1, <2>2 DEF Unpublished, Access
<1>4. Access.changes \subseteq stored /\ k \in Keys
  BY <1>2, <1>3 DEF AccessesOK
<1>5. ~IsCard(k) /\ k.ids = Access.changes
  BY DEF IsCard, NoticeKey
<1> HIDE DEF k
<1>6. StoredOK'
  BY <1>1, <1>2, <1>4, <1>5, EnqueueStored
<1>7. AccessesOK' /\ \A i \in Unpublished : i > 1 =>
                       \E j \in Unpublished' : work'.accesses[j] = work.accesses[i]
  <2>1. CASE work' = NextAccess
    BY <1>1, <1>2, <2>1, NextKeeps
  <2>2. CASE work' = [work EXCEPT !.step = "card"]
    <3>1. work' = [job |-> work.job, step |-> "card", accesses |-> work.accesses,
                   message |-> work.message]
      BY <2>2 DEF WorkOK
    <3>2. /\ \A i \in Unpublished' : i \in Unpublished
          /\ \A i \in Unpublished : i > 1 => i \in Unpublished'
      BY <1>1, <3>1 DEF Unpublished
    <3> QED BY <1>1, <1>2, <3>1, <3>2 DEF AccessesOK
  <2> QED BY <2>1, <2>2 DEF PublishNotice
<1>8. ASSUME NEW c \in stored, Waiting(c) PROVE Noticed(c)' \/ Waiting(c)'
  <2>1. PICK i \in Unpublished : c \in work.accesses[i].changes
    BY <1>8 DEF Waiting
  <2>2. CASE i > 1
    BY <1>7, <2>1, <2>2 DEF Waiting
  <2>3. CASE ~(i > 1)
    <3>1. i = 1
      <4>1. work.accesses \in Seq(Accesses) /\ i \in DOMAIN work.accesses
        BY <1>2 DEF AccessesOK, Unpublished
      <4> QED BY <2>3, <4>1
    <3>2. c \in k.ids /\ outbox'[k].status # "absent"
      BY <1>1, <1>3, <1>4, <1>5, <2>1, <3>1, EnqueueAdds
    <3> QED BY <1>4, <1>5, <3>2 DEF Noticed
  <2> QED BY <2>2, <2>3
<1>9. ASSUME Undisturbed' PROVE OnTheWay'
  <2>1. OnTheWay
    BY <1>1, <1>9 DEF ToldInv, OnTheWay, Undisturbed
  <2>2. NothingRaised' /\ NoticesArrive' /\ \A c : Noticed(c) => Noticed(c)'
    BY <1>1, <2>1, EnqueueOnTheWay
  <2>3. \A c \in stored : Announced(c)'
    BY <1>1, <1>8, <2>1, <2>2 DEF OnTheWay, Announced
  <2> QED BY <1>1, <2>2, <2>3 DEF OnTheWay
<1> QED BY <1>1, <1>6, <1>7, <1>9 DEF ToldInv, OnTheWay

LEMMA CardTold ==
  ASSUME TypeInv, TablesInv, ToldInv, WorkOK, EnqueueCard
  PROVE  StoredOK' /\ AccessesOK' /\ ToldInv'
<1> DEFINE k == CardKey(Tomorrow, CardText)
<1>1. /\ work.step = "enqueue" /\ Enqueue(k, work.message) /\ work' = NextAccess
      /\ UNCHANGED <<stored, notified, lost>> /\ IsCard(k)
  BY DEF EnqueueCard, storeVars, IsCard, CardKey
<1> HIDE DEF k
<1>2. AccessesOK /\ StoredOK /\ stored \subseteq ChangeIds
  BY DEF TablesInv, StoredOK
<1>3. StoredOK'
  BY <1>1, <1>2, EnqueueStored
<1>4. AccessesOK' /\ WaitKept
  BY <1>1, <1>2, NextFromCard
<1>5. trouble' \in Nat /\ (Undisturbed' => Undisturbed)
  BY DisturbanceStays DEF Next
<1>6. ASSUME Undisturbed' PROVE OnTheWay'
  <2>1. OnTheWay
    BY <1>5, <1>6 DEF ToldInv, OnTheWay
  <2>2. NothingRaised' /\ NoticesArrive' /\ \A c : Noticed(c) => Noticed(c)'
    BY <1>1, <2>1, EnqueueOnTheWay
  <2>3. \A c \in stored : Announced(c)'
    BY <1>1, <1>2, <1>4, <2>1, <2>2, OldChangesTold
  <2> QED BY <1>1, <2>2, <2>3 DEF OnTheWay
<1> QED BY <1>1, <1>3, <1>4, <1>5, <1>6 DEF ToldInv, OnTheWay

----------------------------------------------------------------------------
(***************************************************************************)
(* The senders and what they tell                                          *)
(***************************************************************************)
\* A step of a sender fills no table of the timetable, except that it may tell what is stored.
LEMMA SenderTold ==
  ASSUME TablesInv, ToldInv, [Next]_vars, SameRows, UNCHANGED <<stored, lost, work>>,
         notified \subseteq notified', notified' \subseteq stored,
         Undisturbed' => NothingRaised' /\ \A k \in Keys : ~IsCard(k) /\ Arrives(k) => Arrives(k)'
  PROVE  StoredOK' /\ AccessesOK' /\ ToldInv'
<1>1. StoredOK /\ AccessesOK /\ stored \subseteq ChangeIds
  BY DEF TablesInv, StoredOK
<1>2. StoredOK'
  BY <1>1 DEF StoredOK, SameRows
<1>3. AccessesOK' /\ WaitKept
  BY <1>1, SameAccesses
<1>4. trouble' \in Nat /\ (Undisturbed' => Undisturbed)
  BY DisturbanceStays
<1>5. ASSUME Undisturbed' PROVE OnTheWay'
  <2>1. OnTheWay
    BY <1>4, <1>5 DEF ToldInv, OnTheWay
  <2>2. \A c : Noticed(c) => Noticed(c)'
    BY DEF Noticed, SameRows
  <2>3. \A c \in stored : Announced(c)'
    BY <1>1, <1>3, <2>1, <2>2, OldChangesTold
  <2>4. NothingRaised' /\ NoticesArrive'
    BY <1>5, <2>1 DEF OnTheWay, NoticesArrive, SameRows
  <2> QED BY <2>3, <2>4 DEF OnTheWay
<1> QED BY <1>2, <1>3, <1>4, <1>5 DEF ToldInv, OnTheWay

\* A step that fails a call disturbs the delivery.
LEMMA FailedTold ==
  ASSUME TablesInv, ToldInv, [Next]_vars, Suffer, SameRows,
         UNCHANGED <<stored, notified, lost, work>>
  PROVE  StoredOK' /\ AccessesOK' /\ ToldInv'
<1>1. ~Undisturbed'
  BY CallsThatFail DEF ToldInv
<1>2. notified \subseteq notified' /\ notified' \subseteq stored
  BY DEF TablesInv, StoredOK
<1> QED BY <1>1, <1>2, SenderTold

LEMMA ClaimTold ==
  ASSUME TypeInv, TablesInv, ToldInv, NEW w \in Senders, NEW k \in Keys, ClaimRow(w, k)
  PROVE  StoredOK' /\ AccessesOK' /\ ToldInv'
<1>1. Claim(w, k) /\ UNCHANGED <<stored, notified, lost, work, trouble, repeated>>
  BY DEF ClaimRow, storeVars, taskVars, historyVars
<1>2. SameRows
  BY <1>1, ClaimSame
<1>3. sender[w] = Idle /\ sender'[w].phase = "claimed" /\ sender'[w].key = k
      /\ \A v \in Senders \ {w} : sender'[v] = sender[v]
  BY <1>1, ClaimKeeps DEF Claim
<1>4. NothingRaised => NothingRaised'
  BY <1>3 DEF NothingRaised
<1>5. ASSUME NEW j \in Keys, Arrives(j) PROVE Arrives(j)'
  <2>1. CASE j = k
    BY <1>3, <2>1 DEF Arrives, Held
  <2>2. CASE j # k
    <3>1. outbox'[j] = Swept[j]
      BY <1>1, <2>2, ClaimKeeps
    <3>2. outbox[j].status = "pending" => outbox'[j].status = "pending"
      BY <3>1 DEF Swept, Exhausted
    <3>3. Held(j) => Held(j)'
      BY <1>3 DEF Held, Idle
    <3> QED BY <1>1, <1>5, <3>2, <3>3 DEF Arrives
  <2> QED BY <2>1, <2>2
<1>6. notified \subseteq notified' /\ notified' \subseteq stored
  BY <1>1 DEF TablesInv, StoredOK
<1>7. Undisturbed' => NothingRaised
  BY <1>1 DEF ToldInv, Undisturbed
<1>8. [Next]_vars
  BY DEF Next
<1> QED BY <1>1, <1>2, <1>4, <1>5, <1>6, <1>7, <1>8, SenderTold

LEMMA SweepTold ==
  ASSUME TypeInv, TablesInv, ToldInv, NEW w \in Senders, SweepRows(w)
  PROVE  StoredOK' /\ AccessesOK' /\ ToldInv'
<1>1. outbox' = Swept /\ UNCHANGED <<sender, stored, notified, lost, work, trouble, repeated>>
  BY DEF SweepRows, Sweep, storeVars, taskVars, historyVars
<1>2. SameRows
  BY <1>1, SweptSame DEF SameRows
<1>3. ASSUME NEW j \in Keys, Arrives(j) PROVE Arrives(j)'
  <2>1. outbox[j].status = "pending" => outbox'[j].status = "pending"
    BY <1>1 DEF Swept, Exhausted
  <2>2. Held(j) => Held(j)'
    BY <1>1 DEF Held
  <2> QED BY <1>1, <1>3, <2>1, <2>2 DEF Arrives
<1>4. notified \subseteq notified' /\ notified' \subseteq stored
  BY <1>1 DEF TablesInv, StoredOK
<1>5. Undisturbed' => NothingRaised'
  BY <1>1 DEF ToldInv, Undisturbed, NothingRaised
<1>6. [Next]_vars
  BY DEF Next
<1> QED BY <1>1, <1>2, <1>3, <1>4, <1>5, <1>6, SenderTold

LEMMA DueTold ==
  ASSUME TypeInv, TablesInv, ToldInv, NEW k \in Keys, Due(k)
  PROVE  StoredOK' /\ AccessesOK' /\ ToldInv'
<1>1. outbox' = [outbox EXCEPT ![k].due = TRUE]
      /\ UNCHANGED <<sender, stored, notified, lost, work, trouble, repeated>>
  BY DEF Due, Elapse, storeVars, taskVars, historyVars
<1>2. \A j \in Keys : outbox'[j].status = outbox[j].status /\ outbox'[j].op = outbox[j].op
  BY <1>1 DEF TypeInv, OutboxTypeOK
<1>3. SameRows
  BY <1>2 DEF SameRows
<1>4. ASSUME NEW j \in Keys, Arrives(j) PROVE Arrives(j)'
  BY <1>1, <1>2, <1>4 DEF Arrives, Held
<1>5. notified \subseteq notified' /\ notified' \subseteq stored
  BY <1>1 DEF TablesInv, StoredOK
<1>6. Undisturbed' => NothingRaised'
  BY <1>1 DEF ToldInv, Undisturbed, NothingRaised
<1>7. [Next]_vars
  BY DEF Next
<1> QED BY <1>1, <1>3, <1>4, <1>5, <1>6, <1>7, SenderTold

LEMMA SendTold ==
  ASSUME TypeInv, TablesInv, ToldInv, NEW w \in Senders, Send(w)
  PROVE  StoredOK' /\ AccessesOK' /\ ToldInv'
<1>1. /\ sender[w].phase = "claimed"
      /\ sender' = [sender EXCEPT ![w].phase = "delivered", ![w].answer = Reply(w)]
      /\ UNCHANGED <<outbox, stored, notified, lost, work, trouble, repeated>>
  BY DEF Send, Deliver, storeVars, taskVars, historyVars
<1>2. sender'[w].phase = "delivered" /\ sender'[w].key = sender[w].key
      /\ \A v \in Senders \ {w} : sender'[v] = sender[v]
  BY <1>1 DEF TypeInv, OutboxTypeOK
<1>3. SameRows
  BY <1>1 DEF SameRows
<1>4. ASSUME NEW j \in Keys, Arrives(j) PROVE Arrives(j)'
  <2>1. Held(j) => Held(j)'
    BY <1>2 DEF Held
  <2> QED BY <1>1, <1>4, <2>1 DEF Arrives
<1>5. notified \subseteq notified' /\ notified' \subseteq stored
  BY <1>1 DEF TablesInv, StoredOK
<1>6. Undisturbed' => NothingRaised'
  BY <1>1, <1>2 DEF ToldInv, Undisturbed, NothingRaised
<1>7. [Next]_vars
  BY DEF Next
<1> QED BY <1>1, <1>3, <1>4, <1>5, <1>6, <1>7, SenderTold

\* The changes of a notice are told when its row leaves the sender's hands.
LEMMA RecordTold ==
  ASSUME TypeInv, ContentInv, TablesInv, ToldInv, NEW w \in Senders, Record(w)
  PROVE  StoredOK' /\ AccessesOK' /\ ToldInv'
<1> DEFINE k == sender[w].key
<1>1. /\ sender[w].phase = "delivered" /\ sender' = [sender EXCEPT ![w].phase = "confirmed"]
      /\ UNCHANGED <<outbox, stored, lost, work, trouble, repeated>>
  BY DEF Record, Confirm, Reach, taskVars, historyVars
<1>2. sender'[w].phase = "confirmed"
      /\ \A v \in Senders \ {w} : sender'[v] = sender[v]
  BY <1>1 DEF TypeInv, OutboxTypeOK
<1>3. k \in Keys /\ outbox[k].status # "absent"
  BY <1>1 DEF ContentInv, AnswersOK, TypeInv, SendersOK
<1>4. IF IsCard(k) THEN notified' = notified ELSE notified' = notified \cup k.ids
  BY DEF Record, KeyOf
<1>5. notified \subseteq notified' /\ notified' \subseteq stored
  BY <1>3, <1>4 DEF TablesInv, StoredOK
<1>6. SameRows
  BY <1>1 DEF SameRows
<1>7. ASSUME NEW j \in Keys, ~IsCard(j), Arrives(j) PROVE Arrives(j)'
  <2>1. CASE j = k
    BY <1>4, <1>7, <2>1 DEF Arrives
  <2>2. CASE j # k
    <3>1. Held(j) => Held(j)'
      BY <1>2, <2>2 DEF Held
    <3> QED BY <1>1, <1>5, <1>7, <3>1 DEF Arrives
  <2> QED BY <2>1, <2>2
<1>8. Undisturbed' => NothingRaised'
  BY <1>1, <1>2 DEF ToldInv, Undisturbed, NothingRaised
<1>9. [Next]_vars
  BY DEF Next
<1> QED BY <1>1, <1>5, <1>6, <1>7, <1>8, <1>9, SenderTold

\* A report that is not of a failure is made of a row whose effect is recorded.
LEMMA ReportTold ==
  ASSUME TypeInv, TablesInv, ToldInv, NEW w \in Senders, Report(w)
  PROVE  StoredOK' /\ AccessesOK' /\ ToldInv'
<1>1. (Sent(w) \/ Fail(w)) /\ UNCHANGED <<stored, notified, lost, work, trouble, repeated>>
  BY DEF Report, storeVars, taskVars, historyVars
<1>2. PICK status \in {"sent", "failed", "pending"}, due \in BOOLEAN :
        sender[w].phase # "idle" /\ Release(w, status, due)
  BY <1>1, Reports
<1>3. SameRows
  BY <1>2, ReleaseSame
<1>4. sender' = [sender EXCEPT ![w] = Idle]
      /\ outbox' = IF Holds(w)
                     THEN [outbox EXCEPT ![sender[w].key].status = status,
                                         ![sender[w].key].due = due]
                     ELSE outbox
  BY <1>2 DEF Release
<1>5. sender'[w] = Idle /\ \A v \in Senders \ {w} : sender'[v] = sender[v]
  BY <1>4 DEF TypeInv, OutboxTypeOK
<1>6. ASSUME NothingRaised PROVE NothingRaised' /\ sender[w].phase = "confirmed"
  <2>1. sender'[w].phase # "raised"
    BY <1>5 DEF Idle
  <2>2. sender[w].phase = "confirmed"
    BY <1>1, <1>6 DEF NothingRaised, Sent, Fail
  <2> QED BY <1>5, <1>6, <2>1, <2>2 DEF NothingRaised
<1>7. \A j \in Keys : outbox[j].status = "pending" => outbox'[j].status = "pending"
  BY <1>4 DEF Holds, TypeInv, OutboxTypeOK
<1>8. ASSUME NothingRaised, NEW j \in Keys, Arrives(j) PROVE Arrives(j)'
  <2>1. Held(j) => Held(j)'
    BY <1>5, <1>6, <1>8 DEF Held
  <2> QED BY <1>1, <1>7, <1>8, <2>1 DEF Arrives
<1>9. notified \subseteq notified' /\ notified' \subseteq stored
  BY <1>1 DEF TablesInv, StoredOK
<1>10. Undisturbed' => NothingRaised
  BY <1>1 DEF ToldInv, Undisturbed
<1>11. [Next]_vars
  BY DEF Next
<1> QED BY <1>1, <1>3, <1>6, <1>8, <1>9, <1>10, <1>11, SenderTold

LEMMA RestartTold ==
  ASSUME TablesInv, ToldInv, Restart
  PROVE  StoredOK' /\ AccessesOK' /\ ToldInv'
<1>1. /\ work' = NoWork /\ Suffer
      /\ UNCHANGED <<outbox, stored, notified, lost>>
  BY DEF Restart, storeVars
<1>2. StoredOK'
  BY <1>1 DEF TablesInv, StoredOK
<1>3. AccessesOK'
  BY <1>1, NoAccesses DEF NoWork
<1>4. trouble' \in Nat
  BY DisturbanceStays DEF Next
<1>5. ~Undisturbed'
  BY <1>1, CallsThatFail DEF ToldInv
<1> QED BY <1>1, <1>2, <1>3, <1>4, <1>5 DEF ToldInv

LEMMA EnvelopeTold ==
  ASSUME TypeInv, ContentInv, TablesInv, ToldInv, EnvelopeStep
  PROVE  StoredOK' /\ AccessesOK' /\ ToldInv'
<1>1. WorkOK
  BY DEF ContentInv
<1>2. ASSUME NEW w \in Senders, SendUnanswered(w) \/ SendRefused(w)
      PROVE  StoredOK' /\ AccessesOK' /\ ToldInv'
  <2>1. Suffer /\ UNCHANGED <<outbox, stored, notified, lost, work>>
    BY <1>2 DEF SendUnanswered, SendRefused, LoseReply, Refuse, storeVars, taskVars
  <2>2. SameRows
    BY <2>1 DEF SameRows
  <2>3. [Next]_vars
    BY <1>2 DEF Next
  <2> QED BY <2>1, <2>2, <2>3, FailedTold
<1> QED BY <1>1, <1>2, PublishTold, CardTold, ClaimTold, SweepTold, SendTold, RecordTold,
           ReportTold, DueTold DEF EnvelopeStep

(***************************************************************************)
(* The invariant of the whole delivery                                     *)
(***************************************************************************)
FullInv == DeliveryInv /\ TablesInv /\ ToldInv

LEMMA StepTells == FullInv /\ [Next]_vars => FullInv'
<1> SUFFICES ASSUME FullInv, [Next]_vars PROVE FullInv' OBVIOUS
<1>1. DeliveryInv /\ TablesInv /\ ToldInv
  BY DEF FullInv
<1>2. TypeInv /\ ContentInv /\ WorkOK
  BY <1>1 DEF DeliveryInv, MailInv, AttemptInv, ContentInv
<1>3. DeliveryInv'
  BY <1>1, StepDelivers
<1>4. JobsOK' /\ MarkerOK'
  BY <1>1, StepJobs, StepMarks DEF TablesInv
<1>5. CASE TaskStep
  <2>1. StoredOK' /\ AccessesOK'
    BY <1>1, <1>2, <1>5, TaskStored, TaskAccesses DEF TablesInv
  <2>2. ToldInv'
    BY <1>1, <1>2, <1>5, TaskTold
  <2> QED BY <1>3, <1>4, <2>1, <2>2 DEF FullInv, TablesInv
<1>6. CASE EnvelopeStep
  <2>1. StoredOK' /\ AccessesOK' /\ ToldInv'
    BY <1>1, <1>2, <1>6, EnvelopeTold
  <2> QED BY <1>3, <1>4, <2>1 DEF FullInv, TablesInv
<1>7. CASE Restart
  <2>1. StoredOK' /\ AccessesOK' /\ ToldInv'
    BY <1>1, <1>7, RestartTold
  <2> QED BY <1>3, <1>4, <2>1 DEF FullInv, TablesInv
<1>8. CASE UNCHANGED vars
  <2>1. UNCHANGED <<outbox, sender, work, stored, notified, lost, trouble, repeated>>
    BY <1>8 DEF vars, outboxVars, storeVars, taskVars, historyVars
  <2>2. StoredOK'
    BY <1>1, <2>1 DEF TablesInv, StoredOK
  <2>3. AccessesOK'
    BY <1>1, <2>1, SameAccesses DEF TablesInv
  <2>4. ToldInv'
    BY <1>1, <2>1 DEF ToldInv, Undisturbed, NothingRaised, NoticesArrive, Arrives, Held,
       Announced, Noticed, Waiting, Unpublished
  <2> QED BY <1>3, <1>4, <2>2, <2>3, <2>4 DEF FullInv, TablesInv
<1> QED BY <1>5, <1>6, <1>7, <1>8 DEF Next, TaskStep, EnvelopeStep

LEMMA InitTells == Init => FullInv
<1> SUFFICES ASSUME Init PROVE FullInv OBVIOUS
<1>1. DeliveryInv
  BY InitDelivers
<1>2. JobsOK
  BY TryAssumption DEF Init, JobsOK, JobKeys, JobRows, Ended
<1>3. MarkerOK
  <2>1. [lessons |-> Nothing, fresh |-> FALSE] \in [lessons : Lessons, fresh : BOOLEAN]
    BY DEF Lessons
  <2>2. marker = [w \in Weeks |-> [lessons |-> Nothing, fresh |-> FALSE]]
    BY DEF Init
  <2> QED BY <2>1, <2>2 DEF MarkerOK
<1>4. StoredOK
  BY DEF Init, OutboxInit, Absent, StoredOK
<1>5. AccessesOK
  BY DEF Init, AccessesOK, NoWork, Unpublished
<1>6. trouble \in Nat /\ lost = [untold |-> lost.untold, unseen |-> lost.unseen]
  BY DEF Init
<1>7. NothingRaised /\ NoticesArrive /\ \A c \in stored : Announced(c)
  BY DEF Init, OutboxInit, NothingRaised, NoticesArrive, Idle, Absent
<1> QED BY <1>1, <1>2, <1>3, <1>4, <1>5, <1>6, <1>7 DEF FullInv, TablesInv, ToldInv

----------------------------------------------------------------------------
\* What the database says of the topic is so, whatever the two tasks of the process, its
\* restarts, lost replies and expired leases do: a change with notified_at was in a notice that
\* was posted, and the message on record for a day is a card of that day.
\* (ApplicationTelegramSender.send, ApplicationJobHandlers._publish_day)
THEOREM RecordsStayTrue == Spec => []RecordsAreTrue
<1>1. DeliveryInv => RecordsAreTrue
  BY DEF DeliveryInv, MailInv, ContentInv, CardsOK, NoticesOK, TopicOK, Shows, RecordsAreTrue
<1> QED BY <1>1, InitDelivers, StepDelivers, PTL DEF Spec

\* The outbox keeps its bound on sends when the timetable's jobs and handlers use it, and when
\* a restart takes all its senders at once. (OutboxQueue.claim_due)
THEOREM DeliveryIsBounded == Spec => []SendsWithinAttempts
<1>1. DeliveryInv => SendsWithinAttempts
  BY DEF DeliveryInv, MailInv, AttemptInv
<1> QED BY <1>1, InitDelivers, StepDelivers, PTL DEF Spec

\* No schedule envelope is marked sent before its message id, or the changes it told of, are
\* on record. (ApplicationTelegramSender.send, OutboxWorker.run_once)
THEOREM DeliveryRecordsFirst == Spec => []RecordedBeforeSent
<1>1. DeliveryInv => RecordedBeforeSent
  BY DEF DeliveryInv, MailInv, RecordInv
<1> QED BY <1>1, InitDelivers, StepDelivers, PTL DEF Spec

\* Every step of the composed system is one of the mailbox, or nothing to it.
LEMMA StepIsMail == DeliveryInv /\ [Next]_vars => [Mailbox!Next]_(Mailbox!vars)
<1> SUFFICES ASSUME DeliveryInv, [Next]_vars PROVE [Mailbox!Next]_(Mailbox!vars) OBVIOUS
<1> USE DEF DeliveryInv
<1>1. TypeInv
  BY DEF MailInv, AttemptInv
<1>2. CASE TaskStep
  BY <1>2, TaskStepFrame, StepIsMailbox
<1>3. CASE EnvelopeStep
  BY <1>1, <1>3, EnvelopeIsStep, StepIsMailbox
<1>4. CASE Restart
  BY <1>4, AllIdleIsMailbox DEF Restart
<1>5. CASE UNCHANGED vars
  <2>1. UNCHANGED outboxVars
    BY <1>5 DEF vars
  <2> QED BY <2>1, AllIdleIsMailbox DEF outboxVars
<1> QED BY <1>2, <1>3, <1>4, <1>5 DEF Next, TaskStep, EnvelopeStep

\* Used by the timetable's jobs and handlers, and with restarts that take all its senders at
\* once, the outbox still implements the mailbox. (OutboxQueue, OutboxWorker.run_once)
THEOREM DeliveryImplementsMailbox == Spec => ImplementsMailbox
<1>1. Init => Mailbox!Init
  BY InitIsMailbox DEF Init
<1> QED BY <1>1, InitDelivers, StepDelivers, StepIsMail, PTL
        DEF Spec, ImplementsMailbox, Mailbox!Spec

\* Nothing the database knows of is forgotten: unless a call failed, the process died or a text
\* was met again, every stored change has been told once nothing is under way, those aside that
\* were found by a caller who does not look at them.
\* (ApplicationJobHandlers._publish_changes, ApplicationTelegramSender.send)
THEOREM ChangesGetTold == Spec => []ChangesAreTold
<1>1. FullInv => ChangesAreTold
  <2> SUFFICES ASSUME FullInv, Undisturbed, Quiet, NEW c \in stored
               PROVE  c \in notified \cup lost.untold
    BY DEF ChangesAreTold, Undisturbed
  <2>1. NoticesArrive /\ Announced(c)
    BY DEF FullInv, ToldInv
  <2>2. ~Waiting(c)
    BY DEF Quiet, NoWork, Waiting, Unpublished
  <2>3. ASSUME NEW k \in Keys, ~IsCard(k), outbox[k].status # "absent"
        PROVE  k.ids \subseteq notified
    <3>1. Arrives(k)
      BY <2>1, <2>3 DEF NoticesArrive
    <3>2. outbox[k].status # "pending"
      BY DEF Quiet, Open
    <3>3. ~Held(k)
      BY DEF Quiet, Held, Idle
    <3> QED BY <3>1, <3>2, <3>3 DEF Arrives
  <2> QED BY <2>1, <2>2, <2>3 DEF Announced, Noticed
<1> QED BY <1>1, InitTells, StepTells, PTL DEF Spec

\* Every table and task of the delivery keeps its type; what is told is stored; a day's card is
\* a message the topic holds.
THEOREM DeliveryIsTyped == Spec => []TypeOK
<1>1. FullInv => TypeOK
  <2> SUFFICES ASSUME FullInv PROVE TypeOK OBVIOUS
  <2>1. OutboxTypeOK /\ TopicOK /\ CardsOK
    BY DEF FullInv, DeliveryInv, MailInv, AttemptInv, TypeInv, ContentInv
  <2>2. MarkerOK /\ StoredOK /\ JobsOK
    BY DEF FullInv, TablesInv
  <2>3. card \in [Days -> 0..MaxCards]
    <3>1. Len(topic) \in Nat /\ DOMAIN topic = 1..Len(topic) /\ Len(topic) <= MaxCards
          /\ MaxCards \in Nat
      BY <2>1, MessageAssumption DEF TopicOK
    <3>2. ASSUME NEW d \in Days PROVE card[d] \in 0..MaxCards
      BY <2>1, <3>1 DEF CardsOK, Shows
    <3> QED BY <2>1, <3>2 DEF CardsOK
  <2>4. \A j \in JobKeys : jobs[j].tries <= MaxTries
    BY <2>2, TryAssumption DEF JobsOK, JobRows
  <2> QED BY <2>1, <2>2, <2>3, <2>4 DEF TypeOK, MarkerOK, StoredOK, TopicOK
<1> QED BY <1>1, InitTells, StepTells, PTL DEF Spec

----------------------------------------------------------------------------
(***************************************************************************)
(* The card of tomorrow.  In the process there is one outbox worker, and   *)
(* the process lock keeps a second process away.  Of two, one could give   *)
(* up the row of a card that the other is just sending.                    *)
(***************************************************************************)
\* The cards of tomorrow that have a row, and those whose message is on record.
TomorrowsCards == {k \in Rowed : IsCard(k) /\ k.day = Tomorrow}

ShownCards ==
  {k \in TomorrowsCards : \/ outbox[k].status = "sent"
                          \/ \E w \in Senders : sender[w].key = k /\ sender[w].phase = "confirmed"}

Answered(w) == sender[w].phase = "delivered" /\ sender[w].key \in TomorrowsCards

RepliesShow ==
  \A w \in Senders : Answered(w) =>
    sender[w].answer # 0 /\ topic[sender[w].answer].text = sender[w].key.text

LastShown ==
  /\ card[Tomorrow] # 0 <=> ShownCards # {}
  /\ ShownCards # {} => \E k \in ShownCards : Newest(ShownCards, k)
  /\ \/ \E w \in Senders : Answered(w)
     \/ \A k \in ShownCards : Newest(ShownCards, k) => topic[card[Tomorrow]].text = k.text

\* The message on record shows the last card that was sent, unless one is just being recorded.
CardShown == RepliesShow /\ LastShown

Confirmed == marker[Week(Tomorrow)].lessons

\* An access the handler has a card of tomorrow to enqueue for.
Concerns(i) ==
  \/ i = 1 /\ work.step \in {"card", "enqueue"}
  \/ \E c \in work.accesses[i].changes : c.day = Tomorrow

\* Where the handlers are, whatever happens around them.
StepsOK ==
  /\ work.step = "this week" => work.accesses = <<>>
  /\ work.step = "next week" =>
       \A i \in DOMAIN work.accesses : \A c \in work.accesses[i].changes : Week(c.day) = Week(Today)
  /\ work.step \in {"load", "refresh"} => work.job # "sync"
  /\ work.step \in {"card", "enqueue"} /\ work.job = "sync" =>
       \E c \in work.accesses[1].changes : c.day = Tomorrow

\* What is fresh has been confirmed.
FreshOK == \A w \in Weeks : marker[w].fresh => marker[w].lessons # Nothing

AccessesAreRight ==
  \A i \in DOMAIN work.accesses : Concerns(i) =>
    Confirmed # Nothing /\ work.accesses[i].lessons[Tomorrow] = Confirmed[Tomorrow]

\* The last card that was enqueued shows what is confirmed, or another is to come.
LastIsRight ==
  /\ Confirmed = Nothing => TomorrowsCards = {}
  /\ TomorrowsCards # {} => \E k \in TomorrowsCards : Newest(TomorrowsCards, k)
  /\ \/ TomorrowsCards = {}
     \/ \E i \in DOMAIN work.accesses : Concerns(i)
     \/ \A k \in TomorrowsCards :
          Newest(TomorrowsCards, k) => k.text.lessons = Confirmed[Tomorrow]

Attended == Undisturbed /\ \A c \in lost.untold \cup lost.unseen : c.day # Tomorrow

CardInv ==
  /\ IdsOK /\ FreshOK /\ StepsOK
  /\ Attended => InTurn /\ CardShown /\ AccessesAreRight /\ LastIsRight

----------------------------------------------------------------------------
(***************************************************************************)
(* Rows, senders and what is overlooked                                    *)
(***************************************************************************)
\* What was overlooked stays overlooked.
LEMMA LostGrows ==
  ASSUME lost = [untold |-> lost.untold, unseen |-> lost.unseen], [Next]_vars
  PROVE  lost.untold \subseteq lost'.untold /\ lost.unseen \subseteq lost'.unseen
<1> DEFINE Grows == lost.untold \subseteq lost'.untold /\ lost.unseen \subseteq lost'.unseen
<1>1. ASSUME lost' = lost PROVE Grows
  BY <1>1
<1>2. ASSUME NEW changes, Overlook(changes) PROVE Grows
  <2>1. lost' = [untold |-> lost.untold \cup changes, unseen |-> lost.unseen]
    BY <1>2 DEF Overlook
  <2> QED BY <2>1
<1>3. ASSUME NEW w \in Weeks, GrowOld(w) \/ Answer(w) PROVE Grows
  BY <1>1, <1>2, <1>3 DEF GrowOld, Answer, historyVars
<1>4. ASSUME NEW lessons, SyncSucceeds(lessons) \/ EveningRefreshes(lessons) PROVE Grows
  BY <1>1, <1>2, <1>4 DEF SyncSucceeds, EveningRefreshes
<1>5. ASSUME ReadCard PROVE Grows
  <2>1. PICK unseen : lost.unseen \subseteq unseen
                      /\ (lost' = [lost EXCEPT !.unseen = unseen] \/ lost' = lost)
    BY <1>5 DEF ReadCard
  <2>2. CASE lost' = [lost EXCEPT !.unseen = unseen]
    <3>1. lost' = [untold |-> lost.untold, unseen |-> unseen]
      BY <2>2
    <3> QED BY <2>1, <3>1
  <2> QED BY <1>1, <2>1, <2>2
<1>6. ASSUME NEW j \in JobKeys, ClaimJob(j) \/ SweepJob(j) PROVE Grows
  BY <1>1, <1>6 DEF ClaimJob, SweepJob, historyVars
<1>7. ASSUME \/ AdmitSync \/ AdmitEvening \/ SyncFails \/ PublishNotice \/ EnqueueCard
             \/ CardConflicts \/ FinishJob \/ EveningLoad \/ EveningFallsBack \/ Restart
             \/ UNCHANGED vars
      PROVE  Grows
  BY <1>1, <1>7 DEF AdmitSync, AdmitEvening, SyncFails, PublishNotice, EnqueueCard, CardConflicts,
     FinishJob, EveningLoad, EveningFallsBack, Restart, vars, historyVars
<1>8. ASSUME NEW w \in Senders, NEW k \in Keys, ClaimRow(w, k) PROVE Grows
  BY <1>1, <1>8 DEF ClaimRow, historyVars
<1>9. ASSUME NEW w \in Senders, \/ SweepRows(w) \/ Send(w) \/ SendUnanswered(w)
                                \/ SendRefused(w) \/ Record(w) \/ Report(w)
      PROVE  Grows
  BY <1>1, <1>9 DEF SweepRows, Send, SendUnanswered, SendRefused, Record, Report, historyVars
<1>10. ASSUME NEW k \in Keys, Due(k) PROVE Grows
  BY <1>1, <1>10 DEF Due, historyVars
<1> QED BY <1>3, <1>4, <1>5, <1>6, <1>7, <1>8, <1>9, <1>10 DEF Next

LEMMA AttendedBefore ==
  ASSUME ToldInv, [Next]_vars, Attended'
  PROVE  Attended
BY LostGrows, DisturbanceStays DEF Attended, ToldInv, Undisturbed

\* Enqueueing is done by the handlers, for a key of the table unless nothing comes of it.
LEMMA HandlersEnqueue ==
  ASSUME TypeInv, AccessesOK, PublishNotice \/ EnqueueCard
  PROVE  /\ UNCHANGED <<sender, confirmed, topic, card, marker>>
         /\ outbox' = outbox \/ \E k \in Keys : \E op : NewRow(k, op)
<1>1. UNCHANGED <<sender, confirmed, topic, card, marker>>
  BY DEF PublishNotice, EnqueueCard, Enqueue, storeVars
<1>2. PICK k, op : Enqueue(k, op)
  BY DEF PublishNotice, EnqueueCard
<1>3. CASE k \in Keys
  BY <1>1, <1>2, <1>3, EnqueueAddsRow
<1>4. CASE k \notin Keys
  BY <1>1, <1>2, <1>4 DEF Enqueue, Enqueued, TypeInv, OutboxTypeOK
<1> QED BY <1>3, <1>4

\* The one sender takes the rows in turn, as long as nothing fails.
SenderStep(w) ==
  \/ \E k \in Keys : ClaimRow(w, k) /\ TakesUp(w, k)
  \/ Send(w) /\ GoesOn(w)
  \/ Record(w) /\ GoesOn(w)
  \/ Report(w) /\ Finishes(w)

LEMMA SenderSteps ==
  ASSUME FullInv, IdsOK, OneSender, InTurn, Undisturbed', NEW w \in Senders,
         \/ \E k \in Keys : ClaimRow(w, k)
         \/ SweepRows(w) \/ Send(w) \/ SendUnanswered(w) \/ SendRefused(w) \/ Record(w) \/ Report(w)
  PROVE  SenderStep(w)
<1>1. TypeInv /\ trouble \in Nat
  BY DEF FullInv, DeliveryInv, MailInv, AttemptInv, ToldInv
<1>2. ASSUME NEW k \in Keys, ClaimRow(w, k) PROVE SenderStep(w)
  BY <1>1, <1>2, ClaimTakesUp DEF ClaimRow, SenderStep
<1>3. CASE SweepRows(w)
  BY <1>3, NothingToSweep DEF SweepRows
<1>4. CASE Send(w) \/ Record(w)
  BY <1>1, <1>4, CallGoesOn DEF Send, Record, SenderStep
<1>5. CASE Report(w)
  BY <1>1, <1>5, ReportFinishes DEF Report, SenderStep
<1>6. CASE SendUnanswered(w) \/ SendRefused(w)
  BY <1>1, <1>6, CallsThatFail DEF SendUnanswered, SendRefused
<1> QED BY <1>2, <1>3, <1>4, <1>5, <1>6

\* A lease does not run out: a row in hand belongs to the only worker.
LEMMA NothingDue ==
  ASSUME TypeInv, OneSender, InTurn, NEW k \in Keys, Due(k)
  PROVE  FALSE
<1>1. /\ outbox[k].status \in Open /\ ~outbox[k].due
      /\ Cardinality(Senders) > 1 \/ \A w \in Senders : sender[w].key # k
  BY DEF Due, Elapse, KeyOf
<1>2. PICK w \in Senders : sender[w].key = k
  BY <1>1 DEF InTurn, Open
<1>3. Senders = {w}
  BY DEF OneSender
<1>4. Cardinality(Senders) = 1
  BY <1>3, FS_Singleton
<1> QED BY <1>1, <1>2, <1>4

\* Without trouble a step is one of a handler, which may enqueue, or of the sender.
HandlerStep == TaskStep \/ UNCHANGED vars

LEMMA CalmSteps ==
  ASSUME FullInv, IdsOK, OneSender, InTurn, Undisturbed', [Next]_vars
  PROVE  HandlerStep \/ PublishNotice \/ EnqueueCard \/ \E w \in Senders : SenderStep(w)
<1>1. TypeInv /\ trouble \in Nat
  BY DEF FullInv, DeliveryInv, MailInv, AttemptInv, ToldInv
<1>2. ~Restart
  BY <1>1, CallsThatFail DEF Restart
<1>3. \A k \in Keys : ~Due(k)
  BY <1>1, NothingDue
<1>4. ASSUME NEW w \in Senders,
             \/ \E k \in Keys : ClaimRow(w, k)
             \/ SweepRows(w) \/ Send(w) \/ SendUnanswered(w) \/ SendRefused(w) \/ Record(w) \/ Report(w)
      PROVE  SenderStep(w)
  BY <1>4, SenderSteps
<1> QED BY <1>2, <1>3, <1>4 DEF Next, TaskStep, HandlerStep

\* What the sender's steps keep of the rows.
LEMMA SenderKeepsRows ==
  ASSUME TypeInv, NEW w \in Senders, SenderStep(w), NEW k \in Keys
  PROVE  SameRow(k)
<1>1. CASE Send(w) \/ Record(w)
  BY <1>1 DEF Send, Deliver, Record, Confirm, SameRow
<1> QED BY <1>1, SendingKeepsRow DEF SenderStep, ClaimRow, Report

LEMMA HandlerKeeps ==
  ASSUME HandlerStep
  PROVE  UNCHANGED <<outbox, sender, confirmed, topic, card>>
BY TaskStepFrame DEF HandlerStep, vars, outboxVars, storeVars

LEMMA DeliveryIds ==
  ASSUME FullInv, IdsOK, [Next]_vars
  PROVE  IdsOK'
<1>1. TypeInv /\ AccessesOK
  BY DEF FullInv, DeliveryInv, MailInv, AttemptInv, TablesInv
<1>2. ASSUME outbox' = outbox PROVE IdsOK'
  BY <1>2, IdsStand DEF SameRow
<1>3. CASE HandlerStep
  BY <1>2, <1>3, HandlerKeeps
<1>4. CASE PublishNotice \/ EnqueueCard
  BY <1>1, <1>2, <1>4, HandlersEnqueue, IdsGrow
<1>5. ASSUME NEW w \in Senders,
             (\E k \in Keys : ClaimRow(w, k)) \/ Report(w)
      PROVE  IdsOK'
  BY <1>1, <1>5, SendingKeepsRow, IdsStand DEF ClaimRow, Report
<1>6. ASSUME NEW w \in Senders, SweepRows(w) PROVE IdsOK'
  <2>1. \A k \in Keys : SameRow(k)
    BY <1>1, <1>6 DEF SweepRows, Sweep, Swept, Exhausted, TypeInv, OutboxTypeOK, SameRow
  <2> QED BY <2>1, IdsStand
<1>7. ASSUME NEW w \in Senders, Send(w) \/ SendUnanswered(w) \/ SendRefused(w) \/ Record(w) PROVE IdsOK'
  BY <1>2, <1>7 DEF Send, Deliver, SendUnanswered, LoseReply, SendRefused, Refuse, Record, Confirm
<1>8. ASSUME NEW k \in Keys, Due(k) PROVE IdsOK'
  BY <1>1, <1>8, ElapseKeepsRow, IdsStand DEF Due
<1>9. CASE Restart
  BY <1>2, <1>9 DEF Restart
<1> QED BY <1>3, <1>4, <1>5, <1>6, <1>7, <1>8, <1>9 DEF Next, TaskStep, HandlerStep

LEMMA DeliveryInTurn ==
  ASSUME FullInv, IdsOK, OneSender, InTurn, Undisturbed', [Next]_vars
  PROVE  InTurn'
<1>1. TypeInv /\ AccessesOK /\ AnswersOK
  BY DEF FullInv, DeliveryInv, MailInv, AttemptInv, TablesInv, ContentInv
<1>2. SendersAtRows
  BY <1>1 DEF AnswersOK, SendersAtRows
<1>3. CASE HandlerStep
  BY <1>3, HandlerKeeps, InTurnStands
<1>4. CASE PublishNotice \/ EnqueueCard
  BY <1>1, <1>2, <1>4, HandlersEnqueue, InTurnStands, InTurnGrows
<1>5. ASSUME NEW w \in Senders, SenderStep(w) PROVE InTurn'
  BY <1>1, <1>5, SenderKeepsRows, InTurnTaken, InTurnGoesOn, InTurnFinished DEF SenderStep
<1> QED BY <1>3, <1>4, <1>5, CalmSteps

----------------------------------------------------------------------------
(***************************************************************************)
(* What the topic shows                                                    *)
(***************************************************************************)
\* A card's call shows its text in the message it answers with; other messages stay.
LEMMA CarryShows ==
  ASSUME ContentInv, TypeInv, NEW w \in Senders, sender[w].phase = "claimed", Carry(w)
  PROVE  /\ IsCard(sender[w].key) => Reply(w) # 0 /\ topic'[Reply(w)].text = sender[w].key.text
         /\ \A m \in DOMAIN topic :
              (IsCard(sender[w].key) /\ topic[m].day = sender[w].key.day) \/ topic'[m] = topic[m]
<1> USE DEF ContentInv, TopicOK
<1>1. PICK k : k = KeyOf(w)
  OBVIOUS
<1>2. k = sender[w].key /\ k \in Keys /\ outbox[k].status # "absent"
  BY <1>1 DEF KeyOf, AnswersOK, TypeInv, SendersOK
<1>3. CASE ~IsCard(k)
  BY <1>1, <1>2, <1>3 DEF Carry
<1>4. CASE IsCard(k) /\ OpOf(w) = 0
  <2> DEFINE post == [day |-> k.day, text |-> k.text]
  <2>1. topic' = Append(topic, post) /\ Reply(w) = Len(topic) + 1
    BY <1>1, <1>4 DEF Carry, Reply, Post, NewMessage
  <2>2. post \in Posts
    BY <1>2, <1>4 DEF Posts, CardKeys
  <2>3. Len(topic) \in Nat /\ DOMAIN topic = 1..Len(topic)
    OBVIOUS
  <2>4. /\ \A m \in 1..Len(topic) : topic'[m] = topic[m]
        /\ topic'[Len(topic) + 1] = post
    BY <2>1, <2>2
  <2>5. post.text = k.text
    OBVIOUS
  <2> QED BY <1>2, <2>1, <2>3, <2>4, <2>5
<1>5. CASE IsCard(k) /\ OpOf(w) # 0
  <2>1. PICK m : m = OpOf(w)
    OBVIOUS
  <2>2. m \in DOMAIN topic /\ topic[m].day = k.day /\ Reply(w) = m /\ m # 0
    BY <1>1, <1>2, <1>5, <2>1 DEF EnvelopesOK, Shows, Reply, OpOf, NewMessage
  <2>3. topic' = [topic EXCEPT ![m] = [topic[m] EXCEPT !.text = k.text]]
    BY <1>1, <1>5, <2>1 DEF Carry, NewMessage
  <2>4. topic[m] \in Posts
    BY <2>2
  <2>5. [topic[m] EXCEPT !.text = k.text].text = k.text
    BY <2>4 DEF Posts
  <2>6. topic'[m].text = k.text
    BY <2>2, <2>3, <2>5
  <2>7. \A n \in DOMAIN topic : n # m => topic'[n] = topic[n]
    BY <2>3
  <2> QED BY <1>2, <1>5, <2>2, <2>6, <2>7
<1> QED BY <1>3, <1>4, <1>5

\* What is shown stands as long as no card of tomorrow is sent or recorded.
LEMMA ShownStands ==
  ASSUME LastShown, ShownCards' = ShownCards, \A k \in ShownCards : outbox'[k].id = outbox[k].id,
         card'[Tomorrow] = card[Tomorrow],
         card[Tomorrow] # 0 => topic'[card[Tomorrow]].text = topic[card[Tomorrow]].text,
         \A w \in Senders : Answered(w) => Answered(w)'
  PROVE  LastShown'
<1>1. \A k : Newest(ShownCards, k)' <=> Newest(ShownCards, k)
  BY DEF Newest
<1>2. card'[Tomorrow] # 0 <=> ShownCards' # {}
  BY DEF LastShown
<1>3. ShownCards' # {} => \E k \in ShownCards' : Newest(ShownCards, k)'
  BY <1>1 DEF LastShown
<1>4. (\E w \in Senders : Answered(w)') \/
      \A k \in ShownCards' : Newest(ShownCards, k)' => topic'[card'[Tomorrow]].text = k.text
  BY <1>1 DEF LastShown
<1> QED BY <1>2, <1>3, <1>4 DEF LastShown

\* A handler enqueues a card, which is not yet on its way, or something else.
LEMMA EnqueuedShown ==
  ASSUME TypeInv, SendersAtRows, CardShown, NEW k \in Keys, NEW op, NewRow(k, op),
         UNCHANGED <<sender, topic, card>>
  PROVE  CardShown'
<1>1. /\ k \notin Rowed /\ outbox'[k].status = "pending"
      /\ \A j \in Keys \ {k} : outbox'[j] = outbox[j]
  BY DEF NewRow, Rowed
<1>2. \A w \in Senders : sender[w].phase # "idle" => sender[w].key \in Rowed
  BY DEF SendersAtRows, TypeInv, SendersOK, Rowed
<1>3. \A j \in Keys \ {k} : j \in TomorrowsCards' <=> j \in TomorrowsCards
  BY <1>1 DEF TomorrowsCards, Rowed
<1>4. \A w \in Senders : Answered(w)' <=> Answered(w)
  BY <1>1, <1>2, <1>3 DEF Answered, Rowed
<1>5. ShownCards' = ShownCards
  <2>1. k \notin ShownCards /\ k \notin ShownCards'
    BY <1>1, <1>2 DEF ShownCards, TomorrowsCards
  <2>2. \A j \in Keys \ {k} : j \in ShownCards' <=> j \in ShownCards
    BY <1>1, <1>3 DEF ShownCards
  <2> QED BY <2>1, <2>2 DEF ShownCards, TomorrowsCards, Rowed
<1>6. \A j \in ShownCards : outbox'[j].id = outbox[j].id
  BY <1>1 DEF ShownCards, TomorrowsCards, Rowed
<1>7. LastShown'
  BY <1>4, <1>5, <1>6, ShownStands DEF CardShown
<1>8. RepliesShow'
  BY <1>4 DEF CardShown, RepliesShow
<1> QED BY <1>7, <1>8 DEF CardShown

LEMMA SentShown ==
  ASSUME FullInv, OneSender, InTurn, CardShown, NEW w \in Senders, SenderStep(w)
  PROVE  CardShown'
<1>1. /\ TypeInv /\ ContentInv /\ CardsOK /\ TopicOK /\ RepliesShow /\ LastShown
      /\ \A v \in Senders : v = w
  BY DEF FullInv, DeliveryInv, MailInv, AttemptInv, ContentInv, CardShown, OneSender
<1>2. TomorrowsCards' = TomorrowsCards /\ \A k \in Keys : outbox'[k].id = outbox[k].id
  BY <1>1, SenderKeepsRows DEF SameRow, TomorrowsCards, Rowed
<1>3. TomorrowsCards \subseteq Keys /\ ShownCards \subseteq TomorrowsCards
  BY DEF TomorrowsCards, ShownCards, Rowed
<1>4. \A k : k \in ShownCards <=>
        /\ k \in TomorrowsCards
        /\ outbox[k].status = "sent" \/ (sender[w].key = k /\ sender[w].phase = "confirmed")
  BY <1>1 DEF ShownCards
<1>5. \A k : k \in ShownCards' <=>
        /\ k \in TomorrowsCards
        /\ outbox'[k].status = "sent" \/ (sender'[w].key = k /\ sender'[w].phase = "confirmed")
  BY <1>1, <1>2 DEF ShownCards
<1>6. RepliesShow' <=>
        (sender'[w].phase = "delivered" /\ sender'[w].key \in TomorrowsCards =>
           sender'[w].answer # 0 /\ topic'[sender'[w].answer].text = sender'[w].key.text)
  BY <1>1, <1>2 DEF RepliesShow, Answered
<1>7. Answered(w)' <=> sender'[w].phase = "delivered" /\ sender'[w].key \in TomorrowsCards
  BY <1>2 DEF Answered
<1>a. ASSUME ShownCards' = ShownCards, card'[Tomorrow] = card[Tomorrow],
             card[Tomorrow] # 0 => topic'[card[Tomorrow]].text = topic[card[Tomorrow]].text,
             Answered(w) => Answered(w)'
      PROVE  LastShown'
  BY <1>1, <1>2, <1>3, <1>a, ShownStands
<1>8. ASSUME NEW k \in Keys, ClaimRow(w, k), TakesUp(w, k) PROVE CardShown'
  <2>1. /\ sender[w].phase = "idle" /\ sender'[w].phase = "claimed"
        /\ outbox[k].status = "pending" /\ outbox'[k].status = "sending"
        /\ \A j \in Keys \ {k} : outbox'[j] = outbox[j]
    BY <1>8 DEF TakesUp, Idle
  <2>2. card' = card /\ topic' = topic
    BY <1>8 DEF ClaimRow, storeVars
  <2>3. \A j : j \in ShownCards' <=> j \in ShownCards
    BY <1>3, <1>4, <1>5, <2>1
  <2>4. LastShown'
    BY <1>a, <2>1, <2>2, <2>3 DEF Answered
  <2> QED BY <1>6, <2>1, <2>4 DEF CardShown
<1>9. CASE Send(w) /\ GoesOn(w)
  <2>1. PICK k : k = sender[w].key
    OBVIOUS
  <2>2. /\ sender[w].phase = "claimed" /\ Carry(w) /\ outbox' = outbox /\ card' = card
        /\ sender'[w].key = k /\ sender'[w].phase = "delivered" /\ sender'[w].answer = Reply(w)
    BY <1>1, <1>9, <2>1 DEF Send, Deliver, storeVars, TypeInv, OutboxTypeOK
  <2>3. \A j : j \in ShownCards' <=> j \in ShownCards
    BY <1>4, <1>5, <2>2
  <2>4. /\ IsCard(k) => Reply(w) # 0 /\ topic'[Reply(w)].text = k.text
        /\ \A m \in DOMAIN topic : (IsCard(k) /\ topic[m].day = k.day) \/ topic'[m] = topic[m]
    BY <1>1, <2>1, <2>2, CarryShows
  <2>5. RepliesShow'
    BY <1>6, <2>2, <2>4 DEF TomorrowsCards
  <2>6. CASE k \in TomorrowsCards
    <3>1. Answered(w)'
      BY <1>7, <2>2, <2>6
    <3>2. \A j : Newest(ShownCards, j)' <=> Newest(ShownCards, j)
      BY <2>2, <2>3 DEF Newest
    <3>3. (card'[Tomorrow] # 0 <=> ShownCards' # {})
          /\ (ShownCards' # {} => \E j \in ShownCards' : Newest(ShownCards, j)')
      BY <1>1, <2>2, <2>3, <3>2 DEF LastShown
    <3>4. LastShown'
      BY <3>1, <3>3 DEF LastShown
    <3> QED BY <2>5, <3>4 DEF CardShown
  <2>7. CASE k \notin TomorrowsCards
    <3>1. ~(IsCard(k) /\ k.day = Tomorrow)
      BY <1>1, <2>1, <2>2, <2>7 DEF ContentInv, AnswersOK, TypeInv, SendersOK, TomorrowsCards, Rowed
    <3>2. card[Tomorrow] # 0 =>
            card[Tomorrow] \in DOMAIN topic /\ topic[card[Tomorrow]].day = Tomorrow
      BY <1>1, CalendarAssumption DEF CardsOK, Shows, Tomorrow
    <3>3. card[Tomorrow] # 0 => topic'[card[Tomorrow]] = topic[card[Tomorrow]]
      BY <2>4, <3>1, <3>2
    <3>4. LastShown'
      BY <1>a, <2>2, <2>3, <3>3 DEF Answered
    <3> QED BY <2>5, <3>4 DEF CardShown
  <2> QED BY <2>6, <2>7
<1>10. CASE Record(w) /\ GoesOn(w)
  <2>1. PICK k : k = sender[w].key
    OBVIOUS
  <2>2. /\ sender[w].phase = "delivered" /\ outbox' = outbox /\ topic' = topic
        /\ sender'[w].key = k /\ sender'[w].phase = "confirmed"
        /\ k \in Keys /\ outbox[k].status = "sending"
    BY <1>1, <1>10, <2>1 DEF Record, Confirm, Reach, InTurn, Idle, Holds, TypeInv, OutboxTypeOK, SendersOK
  <2>3. card' = IF IsCard(k) THEN [card EXCEPT ![k.day] = sender[w].answer] ELSE card
    BY <1>10, <2>1 DEF Record, KeyOf
  <2>4. RepliesShow'
    BY <1>6, <2>2
  <2>5. Tomorrow \in DOMAIN card
    BY <1>1, CalendarAssumption DEF CardsOK, Tomorrow
  <2>6. CASE k \in TomorrowsCards
    <3>1. IsCard(k) /\ k.day = Tomorrow
      BY <2>6 DEF TomorrowsCards
    <3>2. card'[Tomorrow] = sender[w].answer
      BY <2>3, <2>5, <3>1
    <3>3. sender[w].answer # 0 /\ topic[sender[w].answer].text = k.text
      BY <1>1, <2>1, <2>2, <2>6 DEF RepliesShow, Answered
    <3>4. \A j : j \in ShownCards' <=> j \in ShownCards \/ j = k
      BY <1>4, <1>5, <2>2, <2>6
    <3>5. ASSUME NEW j \in ShownCards PROVE outbox[j].id < outbox[k].id /\ j \in Keys
      <4>1. j \in Rowed /\ k \in Rowed /\ outbox[j].status = "sent" /\ j \in Keys
        BY <1>3, <1>4, <2>2, <2>6, <3>5 DEF TomorrowsCards, Rowed
      <4>2. Before(j, k)
        BY <2>2, <4>1 DEF Before, Open
      <4> QED BY <4>1, <4>2 DEF InTurn
    <3>6. \A j \in Keys : outbox[j].id \in Nat
      BY <1>1 DEF TypeInv, OutboxTypeOK
    <3>7. ASSUME NEW j \in ShownCards PROVE outbox[j].id <= outbox[k].id /\ ~(outbox[k].id <= outbox[j].id)
      BY <2>2, <3>5, <3>6
    <3>8. outbox[k].id <= outbox[k].id
      BY <2>2, <3>6
    <3>9. Newest(ShownCards, k)' /\ \A j : Newest(ShownCards, j)' => j = k
      BY <2>2, <3>4, <3>7, <3>8 DEF Newest
    <3>10. card'[Tomorrow] # 0 <=> ShownCards' # {}
      BY <3>2, <3>3, <3>4
    <3>11. \E j \in ShownCards' : Newest(ShownCards, j)'
      BY <3>4, <3>9
    <3>12. \A j \in ShownCards' : Newest(ShownCards, j)' => topic'[card'[Tomorrow]].text = j.text
      BY <2>2, <3>2, <3>3, <3>9
    <3>13. LastShown'
      BY <3>10, <3>11, <3>12 DEF LastShown
    <3> QED BY <2>4, <3>13 DEF CardShown
  <2>7. CASE k \notin TomorrowsCards
    <3>1. ~(IsCard(k) /\ k.day = Tomorrow)
      BY <2>2, <2>7 DEF TomorrowsCards, Rowed
    <3>2. card'[Tomorrow] = card[Tomorrow]
      BY <2>3, <3>1
    <3>3. \A j : j \in ShownCards' <=> j \in ShownCards
      BY <1>4, <1>5, <2>2, <2>7
    <3>4. ~Answered(w)
      BY <2>1, <2>7 DEF Answered
    <3>5. LastShown'
      BY <1>a, <2>2, <3>2, <3>3, <3>4
    <3> QED BY <2>4, <3>5 DEF CardShown
  <2> QED BY <2>6, <2>7
<1>11. CASE Report(w) /\ Finishes(w)
  <2>1. PICK k : k = sender[w].key
    OBVIOUS
  <2>2. /\ sender[w].phase = "confirmed" /\ sender'[w].phase = "idle"
        /\ outbox[k].status = "sending" /\ outbox'[k].status = "sent"
        /\ \A j \in Keys \ {k} : outbox'[j] = outbox[j]
    BY <1>11, <2>1 DEF Finishes, Idle
  <2>3. card' = card /\ topic' = topic
    BY <1>11 DEF Report, storeVars
  <2>4. \A j : j \in ShownCards' <=> j \in ShownCards
    BY <1>3, <1>4, <1>5, <2>1, <2>2
  <2>5. LastShown'
    BY <1>a, <2>2, <2>3, <2>4 DEF Answered
  <2> QED BY <1>6, <2>2, <2>5 DEF CardShown
<1> QED BY <1>8, <1>9, <1>10, <1>11 DEF SenderStep

LEMMA CardStaysShown ==
  ASSUME FullInv, IdsOK, OneSender, InTurn, CardShown, Undisturbed', [Next]_vars
  PROVE  CardShown'
<1>1. TypeInv /\ AccessesOK /\ SendersAtRows
  BY DEF FullInv, DeliveryInv, MailInv, AttemptInv, TablesInv, ContentInv, AnswersOK, SendersAtRows
<1>2. ASSUME UNCHANGED <<outbox, sender, topic, card>> PROVE CardShown'
  BY <1>2 DEF CardShown, RepliesShow, LastShown, Answered, ShownCards, TomorrowsCards, Rowed, Newest
<1>3. CASE HandlerStep
  BY <1>2, <1>3, HandlerKeeps
<1>4. CASE PublishNotice \/ EnqueueCard
  BY <1>1, <1>2, <1>4, HandlersEnqueue, EnqueuedShown
<1>5. ASSUME NEW w \in Senders, SenderStep(w) PROVE CardShown'
  BY <1>5, SentShown
<1> QED BY <1>3, <1>4, <1>5, CalmSteps

----------------------------------------------------------------------------
(***************************************************************************)
(* What the handlers have in hand                                          *)
(***************************************************************************)
LEMMA FreshStays ==
  ASSUME MarkerOK, FreshOK, [Next]_vars
  PROVE  FreshOK'
<1>1. CASE marker' = marker
  BY <1>1 DEF FreshOK
<1>2. ASSUME NEW w \in Weeks, marker' = [marker EXCEPT ![w].fresh = FALSE] PROVE FreshOK'
  BY <1>2 DEF FreshOK, MarkerOK
<1>3. ASSUME NEW w \in Weeks, NEW lessons \in Timetables(w), Synchronise(w, lessons) PROVE FreshOK'
  <2>1. marker' = [marker EXCEPT ![w] = [lessons |-> lessons, fresh |-> TRUE]]
    BY <1>3 DEF Synchronise
  <2>2. marker'[w].lessons = lessons /\ \A v \in Weeks \ {w} : marker'[v] = marker[v]
    BY <2>1 DEF MarkerOK
  <2>3. lessons # Nothing
    BY SentinelAssumption
  <2> QED BY <2>2, <2>3 DEF FreshOK
<1> QED BY <1>1, <1>2, <1>3, StepOfMarkers DEF MarkersStep

\* A change that is found is one of a day of the week that is synchronised.
LEMMA NewInWeek ==
  ASSUME NEW w, NEW lessons, NEW c \in New(w, lessons)
  PROVE  Week(c.day) = w
<1>1. c \in Detected(w, lessons)
  BY DEF New
<1>2. c \in Differences(w, marker[w].lessons, lessons)
  BY <1>1 DEF Detected
<1> QED BY <1>2 DEF Differences, DaysOf

\* What a synchronised week adds to the accesses.
LEMMA AfterAdds ==
  ASSUME AccessesOK, WorkOK, work.step \in {"this week", "next week"}, NEW found, AfterWeek(found),
         found.changes # {} => found \in Accesses
  PROVE  /\ work'.step = IF work.step = "this week" THEN "next week" ELSE "publish"
         /\ work'.job = work.job
         /\ \A i \in DOMAIN work.accesses :
              i \in DOMAIN work'.accesses /\ work'.accesses[i] = work.accesses[i]
         /\ \A i \in DOMAIN work'.accesses :
              i \in DOMAIN work.accesses \/ (found.changes # {} /\ work'.accesses[i] = found)
         /\ found.changes # {} => \E i \in DOMAIN work'.accesses : work'.accesses[i] = found
<1>1. PICK s : s = work.accesses
  OBVIOUS
<1>2. PICK t : t = IF found.changes = {} THEN s ELSE Append(s, found)
  OBVIOUS
<1>3. work' = [job |-> work.job, step |-> IF work.step = "this week" THEN "next week" ELSE "publish",
               accesses |-> t, message |-> work.message]
  BY <1>1, <1>2 DEF AfterWeek, WorkOK
<1>4. s \in Seq(Accesses)
  BY <1>1 DEF AccessesOK
<1>5. /\ \A i \in DOMAIN s : i \in DOMAIN t /\ t[i] = s[i]
      /\ \A i \in DOMAIN t : i \in DOMAIN s \/ (found.changes # {} /\ t[i] = found)
      /\ found.changes # {} => \E i \in DOMAIN t : t[i] = found
  <2>1. CASE found.changes = {}
    BY <1>2, <2>1
  <2>2. CASE found.changes # {}
    <3>1. t = Append(s, found) /\ found \in Accesses
      BY <1>2, <2>2
    <3>2. Extended(t, s, found)
      BY <1>4, <3>1, AppendOne
    <3> QED BY <2>2, <3>2 DEF Extended
  <2> QED BY <2>1, <2>2
<1> QED BY <1>1, <1>3, <1>5

LEMMA StepsStay ==
  ASSUME FullInv, StepsOK, [Next]_vars
  PROVE  StepsOK'
<1>1. AccessesOK /\ WorkOK /\ StoredOK /\ MarkerOK
  BY DEF FullInv, TablesInv, DeliveryInv, MailInv, ContentInv
<1>a. ASSUME work' = work PROVE StepsOK'
  BY <1>a DEF StepsOK
<1>b. ASSUME work' = NoWork PROVE StepsOK'
  BY <1>b DEF StepsOK, NoWork
<1>c. ASSUME work'.step = "publish" PROVE StepsOK'
  BY <1>c DEF StepsOK
<1>d. work' = NextAccess => work'.step = "publish"
  BY <1>1 DEF NextAccess, WorkOK
<1>e. ASSUME NEW w, NEW lessons, NEW stale, work' = ShowCard(w, lessons, stale),
             work.step \in {"load", "refresh"}
      PROVE  StepsOK'
  <2>1. work'.step = "card" /\ work'.job = work.job
    BY <1>1, <1>e DEF ShowCard, WorkOK
  <2>2. work.job # "sync"
    BY <1>e DEF StepsOK
  <2> QED BY <2>1, <2>2 DEF StepsOK
<1>2. ASSUME NEW w \in Weeks, GrowOld(w) \/ Answer(w) PROVE StepsOK'
  BY <1>2, <1>a DEF GrowOld, Answer, taskVars
<1>3. ASSUME NEW j \in JobKeys, ClaimJob(j) PROVE StepsOK'
  <2>1. work' = [job |-> j, step |-> IF j = "sync" THEN "this week" ELSE "load",
                 accesses |-> <<>>, message |-> 0]
    BY <1>3 DEF ClaimJob, NoWork
  <2> QED BY <2>1 DEF StepsOK
<1>4. ASSUME NEW j \in JobKeys, SweepJob(j) PROVE StepsOK'
  BY <1>4, <1>a DEF SweepJob
<1>5. ASSUME NEW found, AfterWeek(found), found.changes # {} => found \in Accesses,
             \A c \in found.changes : Week(c.day) = SyncWeek,
             work.step \in {"this week", "next week"}
      PROVE  StepsOK'
  <2>1. CASE work.step = "next week"
    <3>1. work'.step = "publish"
      BY <1>1, <1>5, <2>1, AfterAdds
    <3> QED BY <1>c, <3>1
  <2>2. CASE work.step = "this week"
    <3>1. work.accesses = <<>>
      BY <2>2 DEF StepsOK
    <3>a. work'.step = "next week"
          /\ \A i \in DOMAIN work'.accesses :
               i \in DOMAIN work.accesses \/ (found.changes # {} /\ work'.accesses[i] = found)
      BY <1>1, <1>5, <2>2, AfterAdds
    <3>2. /\ work'.step = "next week"
          /\ \A i \in DOMAIN work'.accesses : work'.accesses[i] = found
      <4>1. \A i : i \notin DOMAIN work.accesses
        BY <3>1
      <4> QED BY <3>a, <4>1
    <3>3. SyncWeek = Week(Today) + 0
      BY <2>2 DEF SyncWeek
    <3>4. SyncWeek = Week(Today)
      BY <3>3, Calendar, CalendarAssumption DEF Week
    <3> QED BY <1>5, <3>2, <3>4 DEF StepsOK
  <2> QED BY <1>5, <2>1, <2>2
<1>6. ASSUME NEW lessons, SyncSucceeds(lessons) PROVE StepsOK'
  <2>1. /\ work.step \in {"this week", "next week"}
        /\ \E found : /\ AfterWeek(found) /\ Publishable(found)'
                      /\ found.changes = New(SyncWeek, lessons)
    BY <1>1, <1>6, SyncPublishes
  <2>2. PICK found : /\ AfterWeek(found) /\ Publishable(found)'
                     /\ found.changes = New(SyncWeek, lessons)
    BY <2>1
  <2>3. found.changes # {} => found \in Accesses
    BY <2>2 DEF Publishable
  <2>4. \A c \in found.changes : Week(c.day) = SyncWeek
    BY <2>2, NewInWeek
  <2> QED BY <1>5, <2>1, <2>2, <2>3, <2>4
<1>7. ASSUME SyncFails PROVE StepsOK'
  <2>1. AfterWeek(NoAccess) /\ NoAccess.changes = {} /\ work.step \in {"this week", "next week"}
    BY <1>7 DEF SyncFails, NoAccess
  <2> QED BY <1>5, <2>1
<1>8. ASSUME PublishNotice PROVE StepsOK'
  <2>1. CASE \E c \in Access.changes : c.day = Tomorrow
    <3>1. work' = [job |-> work.job, step |-> "card", accesses |-> work.accesses,
                   message |-> work.message]
      BY <1>1, <1>8, <2>1 DEF PublishNotice, WorkOK
    <3>2. Access = work.accesses[1]
      BY <1>8 DEF PublishNotice, Access
    <3> QED BY <2>1, <3>1, <3>2 DEF StepsOK
  <2>2. CASE ~\E c \in Access.changes : c.day = Tomorrow
    BY <1>8, <1>c, <1>d, <2>2 DEF PublishNotice
  <2> QED BY <2>1, <2>2
<1>9. ASSUME ReadCard PROVE StepsOK'
  <2>1. CASE work' = NextAccess
    BY <1>c, <1>d, <2>1
  <2>2. CASE work' = [work EXCEPT !.step = "enqueue", !.message = card[Tomorrow]]
    <3>1. work' = [job |-> work.job, step |-> "enqueue", accesses |-> work.accesses,
                   message |-> card[Tomorrow]]
      BY <1>1, <2>2 DEF WorkOK
    <3>2. work.step = "card"
      BY <1>9 DEF ReadCard
    <3> QED BY <3>1, <3>2 DEF StepsOK
  <2> QED BY <1>9, <2>1, <2>2 DEF ReadCard
<1>10. ASSUME EnqueueCard PROVE StepsOK'
  BY <1>10, <1>c, <1>d DEF EnqueueCard
<1>11. ASSUME CardConflicts \/ FinishJob \/ Restart PROVE StepsOK'
  BY <1>11, <1>b DEF CardConflicts, FinishJob, Restart
<1>12. ASSUME EveningLoad PROVE StepsOK'
  <2>1. work.step = "load"
    BY <1>12 DEF EveningLoad
  <2>2. CASE work' = ShowCard(Week(Tomorrow), marker[Week(Tomorrow)].lessons, FALSE)
    BY <1>e, <2>1, <2>2
  <2>3. CASE work' = [work EXCEPT !.step = "refresh"]
    <3>1. work'.step = "refresh" /\ work'.job = work.job
      BY <1>1, <2>3 DEF WorkOK
    <3> QED BY <2>1, <3>1 DEF StepsOK
  <2> QED BY <1>12, <2>2, <2>3 DEF EveningLoad
<1>13. ASSUME NEW lessons, EveningRefreshes(lessons) PROVE StepsOK'
  <2>1. work.step = "refresh" /\ work' = ShowCard(Week(Tomorrow), lessons, FALSE)
    BY <1>13 DEF EveningRefreshes
  <2> QED BY <1>e, <2>1
<1>14. ASSUME EveningFallsBack PROVE StepsOK'
  <2>1. work.step = "refresh"
    BY <1>14 DEF EveningFallsBack
  <2>2. CASE work' = ShowCard(Week(Tomorrow), marker[Week(Tomorrow)].lessons, TRUE)
    BY <1>e, <2>1, <2>2
  <2>3. CASE work' = [work EXCEPT !.step = "publish"]
    <3>1. work'.step = "publish"
      BY <1>1, <2>3 DEF WorkOK
    <3> QED BY <1>c, <3>1
  <2> QED BY <1>14, <2>2, <2>3 DEF EveningFallsBack
<1>15. ASSUME \/ AdmitSync \/ AdmitEvening \/ UNCHANGED vars PROVE StepsOK'
  BY <1>15, <1>a DEF AdmitSync, AdmitEvening, vars, taskVars
<1>16. ASSUME NEW w \in Senders, NEW k \in Keys, ClaimRow(w, k) PROVE StepsOK'
  BY <1>16, <1>a DEF ClaimRow, taskVars
<1>17. ASSUME NEW w \in Senders, \/ SweepRows(w) \/ Send(w) \/ SendUnanswered(w)
                                 \/ SendRefused(w) \/ Record(w) \/ Report(w)
       PROVE  StepsOK'
  BY <1>17, <1>a DEF SweepRows, Send, SendUnanswered, SendRefused, Record, Report, taskVars
<1>18. ASSUME NEW k \in Keys, Due(k) PROVE StepsOK'
  BY <1>18, <1>a DEF Due, taskVars
<1> QED BY <1>2, <1>3, <1>4, <1>6, <1>7, <1>8, <1>9, <1>10, <1>11, <1>12, <1>13, <1>14, <1>15,
           <1>16, <1>17, <1>18 DEF Next

----------------------------------------------------------------------------
(***************************************************************************)
(* What is confirmed for tomorrow                                          *)
(***************************************************************************)
Kept == Confirmed # Nothing => Confirmed' # Nothing /\ Confirmed'[Tomorrow] = Confirmed[Tomorrow]

LEMMA ChangeFound ==
  ASSUME MarkerOK, Confirmed # Nothing, NEW lessons \in Timetables(Week(Tomorrow)),
         lessons[Tomorrow] # Confirmed[Tomorrow]
  PROVE  \E c \in Detected(Week(Tomorrow), lessons) : c.day = Tomorrow
<1>1. PICK c : c = [to |-> lessons, day |-> Tomorrow, before |-> Confirmed[Tomorrow],
                    after |-> lessons[Tomorrow]]
  OBVIOUS
<1>2. Tomorrow \in DaysOf(Week(Tomorrow))
  BY CalendarAssumption DEF Tomorrow, DaysOf
<1>3. c \in Differences(Week(Tomorrow), Confirmed, lessons)
  BY <1>1, <1>2 DEF Differences
<1>4. c \in Detected(Week(Tomorrow), lessons) /\ c.day = Tomorrow
  BY <1>1, <1>3 DEF Detected, Confirmed
<1> QED BY <1>4

\* What is confirmed for tomorrow stands, unless the handler that synchronises learns better.
LEMMA ConfirmedStands ==
  ASSUME FullInv, [Next]_vars, Attended', ~\E lessons : SyncSucceeds(lessons)
  PROVE  Kept
<1>1. MarkerOK /\ Week(Tomorrow) \in Weeks /\ lost = [untold |-> lost.untold, unseen |-> lost.unseen]
  BY Calendar DEF FullInv, TablesInv, ToldInv
<1>2. CASE marker' = marker
  BY <1>2 DEF Kept, Confirmed
<1>3. ASSUME NEW w \in Weeks, marker' = [marker EXCEPT ![w].fresh = FALSE] PROVE Kept
  BY <1>1, <1>3 DEF Kept, Confirmed, MarkerOK
<1>4. ASSUME NEW w \in Weeks, NEW lessons \in Timetables(w), Synchronise(w, lessons),
             Mind(Repeated(w, lessons)), Overlook(New(w, lessons)), Confirmed # Nothing
      PROVE  Confirmed' # Nothing /\ Confirmed'[Tomorrow] = Confirmed[Tomorrow]
  <2>1. marker' = [marker EXCEPT ![w] = [lessons |-> lessons, fresh |-> TRUE]]
    BY <1>4 DEF Synchronise
  <2>2. CASE w # Week(Tomorrow)
    <3>1. Confirmed' = Confirmed
      BY <1>1, <2>1, <2>2 DEF Confirmed, MarkerOK
    <3> QED BY <1>4, <3>1
  <2>3. CASE w = Week(Tomorrow)
    <3>1. Confirmed' = lessons
      BY <1>1, <2>1, <2>3 DEF Confirmed, MarkerOK
    <3>2. lessons # Nothing
      BY SentinelAssumption
    <3>3. ASSUME lessons[Tomorrow] # Confirmed[Tomorrow] PROVE FALSE
      <4>1. PICK c \in Detected(w, lessons) : c.day = Tomorrow
        BY <1>1, <1>4, <2>3, <3>3, ChangeFound
      <4>2. ~Repeated(w, lessons)
        BY <1>4 DEF Attended, Undisturbed, Mind
      <4>3. c \in New(w, lessons)
        BY <4>2 DEF New, Repeated
      <4>4. lost' = [untold |-> lost.untold \cup New(w, lessons), unseen |-> lost.unseen]
        BY <1>1, <1>4 DEF Overlook
      <4>5. c \in lost'.untold
        BY <4>3, <4>4
      <4> QED BY <4>1, <4>5 DEF Attended
    <3> QED BY <3>1, <3>2, <3>3
  <2> QED BY <2>2, <2>3
<1> QED BY <1>2, <1>3, <1>4, StepOfMarkers DEF MarkersStep, Kept

----------------------------------------------------------------------------
(***************************************************************************)
(* The last card                                                           *)
(***************************************************************************)
RowsStand ==
  TomorrowsCards' = TomorrowsCards /\ \A k \in TomorrowsCards : outbox'[k].id = outbox[k].id

\* No access comes to concern tomorrow but with what it had, and none ceases to.
NoneComes ==
  \A i \in DOMAIN work'.accesses : Concerns(i)' =>
    \E j \in DOMAIN work.accesses :
      Concerns(j) /\ work'.accesses[i].lessons = work.accesses[j].lessons

NoneGoes ==
  \A i \in DOMAIN work.accesses : Concerns(i) => \E j \in DOMAIN work'.accesses : Concerns(j)'

LEMMA RowsLeftAlone ==
  ASSUME outbox' = outbox
  PROVE  RowsStand
BY DEF RowsStand, TomorrowsCards, Rowed

LEMMA AccessesStayRight ==
  ASSUME AccessesAreRight, Kept, NoneComes
  PROVE  AccessesAreRight'
BY DEF AccessesAreRight, Kept, NoneComes

LEMMA LastStaysRight ==
  ASSUME LastIsRight, Kept, RowsStand, NoneGoes \/ TomorrowsCards = {}
  PROVE  LastIsRight'
<1>1. CASE TomorrowsCards = {}
  BY <1>1 DEF LastIsRight, RowsStand
<1>2. CASE TomorrowsCards # {}
  <2>1. \A k : Newest(TomorrowsCards, k)' <=> Newest(TomorrowsCards, k)
    BY DEF RowsStand, Newest
  <2>2. Confirmed # Nothing /\ Confirmed' # Nothing /\ Confirmed'[Tomorrow] = Confirmed[Tomorrow]
    BY <1>2 DEF LastIsRight, Kept
  <2>3. \E k \in TomorrowsCards' : Newest(TomorrowsCards, k)'
    BY <1>2, <2>1 DEF LastIsRight, RowsStand
  <2>4. CASE \E i \in DOMAIN work.accesses : Concerns(i)
    <3>1. \E j \in DOMAIN work'.accesses : Concerns(j)'
      BY <1>2, <2>4 DEF NoneGoes
    <3> QED BY <2>2, <2>3, <3>1 DEF LastIsRight
  <2>5. CASE \A k \in TomorrowsCards :
               Newest(TomorrowsCards, k) => k.text.lessons = Confirmed[Tomorrow]
    <3>1. \A k \in TomorrowsCards' :
            Newest(TomorrowsCards, k)' => k.text.lessons = Confirmed'[Tomorrow]
      BY <2>1, <2>2, <2>5 DEF RowsStand
    <3> QED BY <2>2, <2>3, <3>1 DEF LastIsRight
  <2> QED BY <1>2, <2>4, <2>5 DEF LastIsRight
<1> QED BY <1>1, <1>2

\* The handler has the same accesses, and tomorrow's card is looked at or not as before.
LEMMA SameConcerns ==
  ASSUME work'.accesses = work.accesses,
         1 \in DOMAIN work.accesses => (Concerns(1)' <=> Concerns(1))
  PROVE  NoneComes /\ NoneGoes
BY DEF NoneComes, NoneGoes, Concerns

\* The handler is done with its first access.
LEMMA NextConcerns ==
  ASSUME AccessesOK, WorkOK, work.accesses # <<>>, work' = NextAccess
  PROVE  NoneComes /\ (Concerns(1) \/ NoneGoes)
<1>1. PICK s : s = work.accesses
  OBVIOUS
<1>2. s \in Seq(Accesses) /\ s # <<>>
  BY <1>1 DEF AccessesOK
<1>3. PICK t : t = Tail(s)
  OBVIOUS
<1>4. /\ \A j \in DOMAIN t : \E i \in DOMAIN s : i > 1 /\ t[j] = s[i]
      /\ \A i \in DOMAIN s : i > 1 => \E j \in DOMAIN t : t[j] = s[i]
      /\ \A i \in DOMAIN s : i > 1 \/ i = 1
  BY <1>2, <1>3, TailOne
<1>5. work' = [job |-> work.job, step |-> "publish", accesses |-> t, message |-> 0]
  BY <1>1, <1>3 DEF NextAccess, WorkOK
<1>6. \A j : Concerns(j)' <=> \E c \in t[j].changes : c.day = Tomorrow
  <2>1. work'.accesses = t /\ work'.step = "publish"
    BY <1>5
  <2> QED BY <2>1 DEF Concerns
<1>7. \A i : (\E c \in s[i].changes : c.day = Tomorrow) => Concerns(i)
  BY <1>1 DEF Concerns
<1>8. NoneComes
  <2> SUFFICES ASSUME NEW j \in DOMAIN t, Concerns(j)'
               PROVE  \E i \in DOMAIN s : Concerns(i) /\ t[j].lessons = s[i].lessons
    BY <1>1, <1>5 DEF NoneComes
  <2>1. PICK i \in DOMAIN s : i > 1 /\ t[j] = s[i]
    BY <1>4
  <2> QED BY <1>6, <1>7, <2>1
<1>9. ASSUME ~Concerns(1) PROVE NoneGoes
  <2> SUFFICES ASSUME NEW i \in DOMAIN s, Concerns(i) PROVE \E j \in DOMAIN t : Concerns(j)'
    BY <1>1, <1>5 DEF NoneGoes
  <2>1. i # 1 /\ i > 1
    BY <1>4, <1>9
  <2>2. \E c \in s[i].changes : c.day = Tomorrow
    BY <1>1, <2>1 DEF Concerns
  <2>3. PICK j \in DOMAIN t : t[j] = s[i]
    BY <1>4, <2>1
  <2> QED BY <1>6, <2>2, <2>3
<1> QED BY <1>8, <1>9

\* A week is synchronised: what is found for tomorrow is what is confirmed now.
LEMMA SyncStaysRight ==
  ASSUME FullInv, StepsOK, AccessesAreRight, LastIsRight, Attended', [Next]_vars,
         NEW lessons, SyncSucceeds(lessons)
  PROVE  AccessesAreRight' /\ LastIsRight'
<1> DEFINE w == SyncWeek
<1>1. /\ AccessesOK /\ WorkOK /\ StoredOK /\ MarkerOK /\ w \in Weeks /\ Week(Tomorrow) \in Weeks
  BY Calendar DEF FullInv, TablesInv, DeliveryInv, MailInv, ContentInv
<1>2. /\ work.step \in {"this week", "next week"} /\ lessons \in Timetables(w)
      /\ Synchronise(w, lessons) /\ Mind(Repeated(w, lessons)) /\ outbox' = outbox
  BY DEF SyncSucceeds, outboxVars
<1>3. PICK found : /\ AfterWeek(found) /\ found.changes = New(w, lessons) /\ found.lessons = lessons
                   /\ found.changes # {} => found \in Accesses
  <2>1. PICK f : f = [week |-> w, changes |-> New(w, lessons), lessons |-> lessons, stale |-> FALSE]
    OBVIOUS
  <2>2. AfterWeek(f) /\ f.changes = New(w, lessons) /\ f.lessons = lessons
    BY <2>1 DEF SyncSucceeds
  <2>3. New(w, lessons) \subseteq ChangeIds /\ lessons \in Lessons
    BY <1>1, <1>2, NewTyped DEF Lessons
  <2>4. f \in Accesses
    BY <1>1, <2>1, <2>3 DEF Accesses
  <2> QED BY <2>2, <2>4
<1>4. RowsStand
  BY <1>2, RowsLeftAlone
<1>5. /\ \A i \in DOMAIN work.accesses :
           i \in DOMAIN work'.accesses /\ work'.accesses[i] = work.accesses[i]
      /\ \A i \in DOMAIN work'.accesses :
           i \in DOMAIN work.accesses \/ (found.changes # {} /\ work'.accesses[i] = found)
      /\ found.changes # {} => \E i \in DOMAIN work'.accesses : work'.accesses[i] = found
      /\ work'.step \notin {"card", "enqueue"}
  BY <1>1, <1>2, <1>3, AfterAdds
<1>6. \A i \in DOMAIN work.accesses : Concerns(i)' <=> Concerns(i)
  BY <1>2, <1>5 DEF Concerns
<1>7. NoneGoes
  BY <1>5, <1>6 DEF NoneGoes
<1>8. marker' = [marker EXCEPT ![w] = [lessons |-> lessons, fresh |-> TRUE]]
  BY <1>2 DEF Synchronise
<1>9. w = Week(Tomorrow) => Confirmed' = lessons /\ lessons # Nothing
  BY <1>1, <1>2, <1>8, SentinelAssumption DEF Confirmed, MarkerOK
<1> HIDE DEF w
<1>10. ASSUME NEW i \in DOMAIN work'.accesses, work'.accesses[i] = found, Concerns(i)'
       PROVE  Confirmed' # Nothing /\ work'.accesses[i].lessons[Tomorrow] = Confirmed'[Tomorrow]
  <2>1. PICK c \in New(w, lessons) : c.day = Tomorrow
    BY <1>3, <1>5, <1>10 DEF Concerns
  <2>2. w = Week(Tomorrow)
    BY <2>1, NewInWeek
  <2> QED BY <1>3, <1>9, <1>10, <2>2
<1>11. CASE Kept
  <2>1. ASSUME NEW i \in DOMAIN work'.accesses, i \in DOMAIN work.accesses, Concerns(i)'
        PROVE  Confirmed' # Nothing /\ work'.accesses[i].lessons[Tomorrow] = Confirmed'[Tomorrow]
    BY <1>5, <1>6, <1>11, <2>1 DEF AccessesAreRight, Kept
  <2>2. AccessesAreRight'
    BY <1>5, <1>10, <2>1 DEF AccessesAreRight
  <2> QED BY <1>4, <1>7, <1>11, <2>2, LastStaysRight
<1>12. CASE ~Kept
  <2>1. w = Week(Tomorrow)
    <3>1. ASSUME w # Week(Tomorrow) PROVE Confirmed' = Confirmed
      BY <1>1, <1>8, <3>1 DEF Confirmed, MarkerOK
    <3> QED BY <1>12, <3>1 DEF Kept
  <2>2. Confirmed # Nothing /\ lessons[Tomorrow] # Confirmed[Tomorrow]
    BY <1>9, <1>12, <2>1 DEF Kept
  <2>3. PICK c \in Detected(w, lessons) : c.day = Tomorrow
    BY <1>1, <1>2, <2>1, <2>2, ChangeFound
  <2>4. ~Repeated(w, lessons)
    BY <1>2 DEF Attended, Undisturbed, Mind
  <2>5. c \in found.changes
    BY <1>3, <2>4 DEF New, Repeated
  <2>6. PICK n \in DOMAIN work'.accesses : work'.accesses[n] = found
    BY <1>5, <2>5
  <2>7. Concerns(n)'
    BY <2>3, <2>5, <2>6 DEF Concerns
  <2>8. \A i \in DOMAIN work.accesses : ~Concerns(i)
    <3>1. CASE work.step = "this week"
      <4>1. work.accesses = <<>>
        BY <3>1 DEF StepsOK
      <4>2. \A i : i \notin DOMAIN work.accesses
        BY <4>1
      <4> QED BY <4>2
    <3>2. CASE work.step = "next week"
      <4>1. Week(Tomorrow) = Week(Today) + 1
        BY <2>1, <3>2 DEF SyncWeek, w
      <4>2. Week(Today) \in Nat
        BY Calendar, CalendarAssumption DEF Week
      <4>3. Week(Tomorrow) # Week(Today)
        BY <4>1, <4>2
      <4>4. ASSUME NEW i \in DOMAIN work.accesses, NEW d \in work.accesses[i].changes
            PROVE  d.day # Tomorrow
        <5>1. Week(d.day) = Week(Today)
          BY <3>2 DEF StepsOK
        <5> QED BY <4>3, <5>1
      <4> QED BY <3>2, <4>4 DEF Concerns
    <3> QED BY <1>2, <3>1, <3>2
  <2>9. \A i \in DOMAIN work'.accesses : Concerns(i)' => work'.accesses[i] = found
    BY <1>5, <1>6, <2>8
  <2>10. AccessesAreRight'
    BY <1>10, <2>9 DEF AccessesAreRight
  <2>11. Confirmed' # Nothing
    BY <1>9, <2>1
  <2>12. TomorrowsCards' # {} => \E k \in TomorrowsCards' : Newest(TomorrowsCards, k)'
    <3>1. \A k : Newest(TomorrowsCards, k)' <=> Newest(TomorrowsCards, k)
      BY <1>4 DEF RowsStand, Newest
    <3> QED BY <1>4, <3>1 DEF LastIsRight, RowsStand
  <2>13. LastIsRight'
    BY <2>6, <2>7, <2>11, <2>12 DEF LastIsRight
  <2> QED BY <2>10, <2>13
<1> QED BY <1>11, <1>12

\* The evening job is about to show what is confirmed.
LEMMA ShowIsRight ==
  ASSUME WorkOK, LastIsRight, RowsStand, NEW lessons, NEW stale,
         work' = ShowCard(Week(Tomorrow), lessons, stale), Confirmed' = lessons, lessons # Nothing
  PROVE  AccessesAreRight' /\ LastIsRight'
<1>1. PICK access : access = [week |-> Week(Tomorrow), changes |-> {}, lessons |-> lessons,
                              stale |-> stale]
  OBVIOUS
<1>2. work' = [job |-> work.job, step |-> "card", accesses |-> <<access>>, message |-> work.message]
  BY <1>1 DEF ShowCard, WorkOK
<1>3. work'.step = "card" /\ work'.accesses = <<access>> /\ access.lessons = lessons
  BY <1>1, <1>2
<1>4. DOMAIN work'.accesses = {1} /\ work'.accesses[1] = access
  BY <1>3
<1>5. AccessesAreRight'
  BY <1>3, <1>4 DEF AccessesAreRight
<1>6. Concerns(1)'
  BY <1>3 DEF Concerns
<1>7. TomorrowsCards' # {} => \E k \in TomorrowsCards' : Newest(TomorrowsCards, k)'
  <2>1. \A k : Newest(TomorrowsCards, k)' <=> Newest(TomorrowsCards, k)
    BY DEF RowsStand, Newest
  <2> QED BY <2>1 DEF LastIsRight, RowsStand
<1>8. LastIsRight'
  BY <1>4, <1>6, <1>7 DEF LastIsRight
<1> QED BY <1>5, <1>8

LEMMA TaskStaysRight ==
  ASSUME FullInv, FreshOK, StepsOK, InTurn, CardShown, AccessesAreRight, LastIsRight, Attended',
         [Next]_vars, TaskStep
  PROVE  AccessesAreRight' /\ LastIsRight'
<1> DEFINE Right == AccessesAreRight' /\ LastIsRight'
<1>1. /\ AccessesOK /\ WorkOK /\ StoredOK /\ MarkerOK /\ TypeInv /\ Week(Tomorrow) \in Weeks
      /\ lost = [untold |-> lost.untold, unseen |-> lost.unseen]
  BY Calendar DEF FullInv, TablesInv, DeliveryInv, MailInv, AttemptInv, ContentInv, ToldInv
<1>2. ASSUME NEW lessons, SyncSucceeds(lessons) PROVE Right
  BY <1>2, SyncStaysRight
<1>3. CASE ~\E lessons : SyncSucceeds(lessons)
  <2>1. Kept
    BY <1>3, ConfirmedStands
  <2>2. RowsStand
    BY TaskStepFrame, RowsLeftAlone DEF outboxVars
  <2>a. ASSUME NoneComes, NoneGoes PROVE Right
    BY <2>1, <2>2, <2>a, AccessesStayRight, LastStaysRight
  <2>b. ASSUME work'.accesses = work.accesses,
               work.step \in {"card", "enqueue"} <=> work'.step \in {"card", "enqueue"}
        PROVE  Right
    <3>1. Concerns(1)' <=> Concerns(1)
      BY <2>b DEF Concerns
    <3> QED BY <2>a, <2>b, <3>1, SameConcerns
  <2>c. ASSUME work' = work PROVE Right
    BY <2>b, <2>c
  <2>d. ASSUME work.accesses = <<>>, work'.accesses = <<>> PROVE Right
    <3>1. 1 \notin DOMAIN work.accesses
      BY <2>d
    <3> QED BY <2>a, <2>d, <3>1, SameConcerns
  <2>3. ASSUME NEW w \in Weeks, GrowOld(w) \/ Answer(w) PROVE Right
    BY <2>3, <2>c DEF GrowOld, Answer, taskVars
  <2>4. CASE AdmitSync \/ AdmitEvening
    BY <2>4, <2>c DEF AdmitSync, AdmitEvening
  <2>5. ASSUME NEW j \in JobKeys, ClaimJob(j) PROVE Right
    <3>1. work.accesses = <<>> /\ work'.accesses = <<>>
      BY <2>5 DEF ClaimJob, NoWork
    <3> QED BY <2>d, <3>1
  <2>6. ASSUME NEW j \in JobKeys, SweepJob(j) PROVE Right
    BY <2>6, <2>c DEF SweepJob
  <2>7. CASE SyncFails
    <3>1. work'.accesses = work.accesses /\ work'.step \in {"next week", "publish"}
          /\ work.step \in {"this week", "next week"}
      BY <1>1, <2>7 DEF SyncFails, AfterWeek, NoAccess, WorkOK
    <3> QED BY <2>b, <3>1
  <2>8. CASE ReadCard
    <3>1. work.step = "card"
      BY <2>8 DEF ReadCard
    <3>2. CASE work' = [work EXCEPT !.step = "enqueue", !.message = card[Tomorrow]]
      <4>1. work'.accesses = work.accesses /\ work'.step = "enqueue"
        BY <1>1, <3>2 DEF WorkOK
      <4> QED BY <2>b, <3>1, <4>1
    <3>3. CASE work.job = "sync" /\ card[Tomorrow] = 0
      <4>1. work' = NextAccess /\ work.accesses # <<>>
        BY <1>1, <2>8, <3>1, <3>3 DEF ReadCard, AccessesOK
      <4>2. PICK c \in Access.changes : c.day = Tomorrow
        BY <3>1, <3>3, <4>1 DEF StepsOK, Access
      <4>3. ~CardOpen(Tomorrow)
        <5> SUFFICES ASSUME CardOpen(Tomorrow) PROVE FALSE OBVIOUS
        <5>1. lost' = [lost EXCEPT !.unseen = lost.unseen \cup Access.changes]
          BY <2>8, <3>3 DEF ReadCard
        <5>2. c \in lost'.unseen
          BY <1>1, <4>2, <5>1
        <5> QED BY <4>2, <5>2 DEF Attended
      <4>4. \A k \in TomorrowsCards : outbox[k].status = "sent"
        BY <1>1, <4>3 DEF TomorrowsCards, Rowed, CardOpen, InTurn, Open, TypeInv, OutboxTypeOK
      <4>5. TomorrowsCards = {}
        BY <3>3, <4>4 DEF ShownCards, CardShown, LastShown
      <4>6. NoneComes
        BY <1>1, <4>1, NextConcerns
      <4> QED BY <2>1, <2>2, <4>5, <4>6, AccessesStayRight, LastStaysRight
    <3> QED BY <2>8, <3>2, <3>3 DEF ReadCard
  <2>9. CASE CardConflicts
    BY <2>9 DEF CardConflicts, Mind, Attended, Undisturbed
  <2>10. CASE FinishJob
    <3>1. work.accesses = <<>> /\ work'.accesses = <<>>
      BY <2>10 DEF FinishJob, NoWork
    <3> QED BY <2>d, <3>1
  <2>11. CASE EveningLoad
    <3>1. work.accesses = <<>>
      BY <1>1, <2>11 DEF EveningLoad, AccessesOK
    <3>2. CASE marker[Week(Tomorrow)].fresh
      <4>1. /\ work' = ShowCard(Week(Tomorrow), Confirmed, FALSE) /\ Confirmed' = Confirmed
            /\ Confirmed # Nothing
        BY <1>1, <2>11, <3>2 DEF EveningLoad, Confirmed, storeVars, FreshOK
      <4> QED BY <1>1, <2>2, <4>1, ShowIsRight
    <3>3. CASE ~marker[Week(Tomorrow)].fresh
      <4>1. work'.accesses = <<>>
        BY <1>1, <2>11, <3>1, <3>3 DEF EveningLoad, WorkOK
      <4> QED BY <2>d, <3>1, <4>1
    <3> QED BY <3>2, <3>3
  <2>12. ASSUME NEW lessons, EveningRefreshes(lessons) PROVE Right
    <3>1. /\ work' = ShowCard(Week(Tomorrow), lessons, FALSE)
          /\ lessons \in Timetables(Week(Tomorrow))
          /\ marker' = [marker EXCEPT ![Week(Tomorrow)] = [lessons |-> lessons, fresh |-> TRUE]]
      BY <2>12 DEF EveningRefreshes, Synchronise
    <3>2. Confirmed' = lessons
      BY <1>1, <3>1 DEF Confirmed, MarkerOK
    <3>3. lessons # Nothing
      BY <1>1, <3>1, SentinelAssumption
    <3> QED BY <1>1, <2>2, <3>1, <3>2, <3>3, ShowIsRight
  <2>13. CASE EveningFallsBack
    <3>1. work.accesses = <<>>
      BY <1>1, <2>13 DEF EveningFallsBack, AccessesOK
    <3>2. CASE Confirmed = Nothing
      <4>1. work'.accesses = <<>>
        BY <1>1, <2>13, <3>1, <3>2 DEF EveningFallsBack, Confirmed, WorkOK
      <4> QED BY <2>d, <3>1, <4>1
    <3>3. CASE Confirmed # Nothing
      <4>1. work' = ShowCard(Week(Tomorrow), Confirmed, TRUE)
        BY <2>13, <3>3 DEF EveningFallsBack, Confirmed
      <4>2. Confirmed' = Confirmed
        BY <1>1, <2>13 DEF EveningFallsBack, RecordFailedAttempt, Confirmed, MarkerOK
      <4> QED BY <1>1, <2>2, <3>3, <4>1, <4>2, ShowIsRight
    <3> QED BY <3>2, <3>3
  <2> QED BY <1>3, <2>3, <2>4, <2>5, <2>6, <2>7, <2>8, <2>9, <2>10, <2>11, <2>12, <2>13 DEF TaskStep
<1> QED BY <1>2, <1>3

LEMMA PublishStaysRight ==
  ASSUME FullInv, AccessesAreRight, LastIsRight, PublishNotice
  PROVE  AccessesAreRight' /\ LastIsRight'
<1>1. /\ AccessesOK /\ WorkOK /\ TypeInv
  BY DEF FullInv, TablesInv, DeliveryInv, MailInv, AttemptInv, ContentInv
<1>2. /\ work.step = "publish" /\ work.accesses # <<>> /\ marker' = marker
      /\ Access = work.accesses[1]
  BY DEF PublishNotice, storeVars, Access
<1>3. Kept
  BY <1>2 DEF Kept, Confirmed
<1>4. RowsStand
  <2>1. ~IsCard(NoticeKey(Access.changes)) /\ Enqueue(NoticeKey(Access.changes), NewMessage)
    BY DEF PublishNotice, IsCard, NoticeKey
  <2>2. \A k \in Keys : IsCard(k) => outbox'[k] = outbox[k]
    BY <1>1, <2>1, EnqueueAdds
  <2> QED BY <2>2 DEF RowsStand, TomorrowsCards, Rowed
<1>5. NoneComes /\ NoneGoes
  <2>1. CASE \E c \in Access.changes : c.day = Tomorrow
    <3>1. work'.accesses = work.accesses
      BY <1>1, <2>1 DEF PublishNotice, WorkOK
    <3>2. Concerns(1) /\ Concerns(1)'
      BY <1>2, <2>1, <3>1 DEF Concerns
    <3> QED BY <3>1, <3>2, SameConcerns
  <2>2. CASE ~\E c \in Access.changes : c.day = Tomorrow
    <3>1. work' = NextAccess
      BY <2>2 DEF PublishNotice
    <3>2. ~Concerns(1)
      BY <1>2, <2>2 DEF Concerns
    <3> QED BY <1>1, <1>2, <3>1, <3>2, NextConcerns
  <2> QED BY <2>1, <2>2
<1> QED BY <1>3, <1>4, <1>5, AccessesStayRight, LastStaysRight

\* A new card is the last one, and shows what the handler has in hand.
LEMMA EnqueueStaysRight ==
  ASSUME FullInv, IdsOK, AccessesAreRight, Attended', EnqueueCard
  PROVE  AccessesAreRight' /\ LastIsRight'
<1>1. /\ AccessesOK /\ WorkOK /\ TypeInv
  BY DEF FullInv, TablesInv, DeliveryInv, MailInv, AttemptInv, ContentInv
<1>2. PICK k : k = CardKey(Tomorrow, CardText)
  OBVIOUS
<1>3. /\ work.step = "enqueue" /\ Enqueue(k, work.message) /\ work' = NextAccess
      /\ marker' = marker /\ outbox' # outbox
  BY <1>2 DEF EnqueueCard, storeVars, Mind, Attended, Undisturbed
<1>4. IsCard(k) /\ k.day = Tomorrow /\ k.text.lessons = Access.lessons[Tomorrow]
  BY <1>2 DEF CardKey, CardText, IsCard
<1>5. work.accesses # <<>> /\ 1 \in DOMAIN work.accesses /\ Access = work.accesses[1]
  BY <1>1, <1>3 DEF AccessesOK, Access
<1>6. Confirmed # Nothing /\ k.text.lessons = Confirmed[Tomorrow]
  BY <1>3, <1>4, <1>5 DEF AccessesAreRight, Concerns
<1>7. Kept
  BY <1>3 DEF Kept, Confirmed
<1>8. AccessesAreRight'
  BY <1>1, <1>3, <1>5, <1>7, NextConcerns, AccessesStayRight
<1>9. k \in Keys
  BY <1>1, <1>3 DEF Enqueue, Enqueued, TypeInv, OutboxTypeOK
<1>10. NewRow(k, work.message)
  BY <1>1, <1>3, <1>9, EnqueueAddsRow
<1>11. Rowed' = Rowed \cup {k} /\ outbox'[k].id = NextId /\ k \notin Rowed
  BY <1>1, <1>9, <1>10, IdsGrow DEF NewRow, Rowed
<1>12. \A j \in Rowed : outbox'[j].id = outbox[j].id /\ outbox[j].id < NextId /\ j \in Keys
  BY <1>9, <1>10, <1>11 DEF IdsOK, NewRow, Rowed
<1>13. \A j \in Keys : outbox[j].id \in Nat /\ NextId \in Nat
  BY <1>1, NextIdIsNat DEF TypeInv, OutboxTypeOK
<1>14. \A j \in Rowed : outbox'[j].id <= outbox'[k].id /\ ~(outbox'[k].id <= outbox'[j].id)
  BY <1>11, <1>12, <1>13
<1>15. outbox'[k].id <= outbox'[k].id
  BY <1>9, <1>11, <1>13
<1>16. k \in TomorrowsCards' /\ \A j \in TomorrowsCards' : j \in Rowed \/ j = k
  BY <1>4, <1>9, <1>11 DEF TomorrowsCards
<1>17. Newest(TomorrowsCards, k)' /\ \A j : Newest(TomorrowsCards, j)' => j = k
  BY <1>14, <1>15, <1>16 DEF Newest
<1>18. LastIsRight'
  BY <1>6, <1>7, <1>16, <1>17 DEF LastIsRight, Kept
<1> QED BY <1>8, <1>18

LEMMA SenderStaysRight ==
  ASSUME FullInv, AccessesAreRight, LastIsRight, NEW w \in Senders, SenderStep(w)
  PROVE  AccessesAreRight' /\ LastIsRight'
<1>1. TypeInv /\ UNCHANGED <<marker, work>>
  BY DEF FullInv, DeliveryInv, MailInv, AttemptInv, SenderStep, ClaimRow, Send, Record, Report, storeVars, taskVars
<1>2. Kept
  BY <1>1 DEF Kept, Confirmed
<1>3. RowsStand
  BY <1>1, SenderKeepsRows DEF SameRow, RowsStand, TomorrowsCards, Rowed
<1>4. NoneComes /\ NoneGoes
  BY <1>1, SameConcerns DEF Concerns
<1> QED BY <1>2, <1>3, <1>4, AccessesStayRight, LastStaysRight

LEMMA StaysRight ==
  ASSUME FullInv, IdsOK, FreshOK, StepsOK, OneSender, InTurn, CardShown, AccessesAreRight, LastIsRight,
         Attended', [Next]_vars
  PROVE  AccessesAreRight' /\ LastIsRight'
<1>1. Undisturbed'
  BY DEF Attended
<1>2. CASE UNCHANGED vars
  <2>1. UNCHANGED <<outbox, marker, work>>
    BY <1>2 DEF vars, outboxVars, storeVars, taskVars
  <2> QED BY <2>1 DEF AccessesAreRight, LastIsRight, Concerns, Confirmed, TomorrowsCards, Rowed, Newest
<1>3. CASE HandlerStep
  BY <1>2, <1>3, TaskStaysRight DEF HandlerStep
<1> QED BY <1>1, <1>3, CalmSteps, PublishStaysRight, EnqueueStaysRight, SenderStaysRight

----------------------------------------------------------------------------
(***************************************************************************)
(* The invariant of tomorrow's card                                        *)
(***************************************************************************)
LEMMA InitCard == Init => CardInv
<1> SUFFICES ASSUME Init PROVE CardInv OBVIOUS
<1>1. \A k \in Keys : outbox[k].status = "absent"
  BY DEF Init, OutboxInit, Absent
<1>2. Rowed = {} /\ TomorrowsCards = {} /\ ShownCards = {}
  BY <1>1 DEF Rowed, TomorrowsCards, ShownCards
<1>3. \A w \in Senders : sender[w] = Idle
  BY DEF Init, OutboxInit
<1>4. work = NoWork /\ work.step = "idle" /\ work.accesses = <<>>
  BY DEF Init, NoWork
<1>5. IdsOK
  BY <1>2 DEF IdsOK
<1>6. FreshOK /\ StepsOK
  BY <1>4 DEF Init, FreshOK, StepsOK
<1>7. InTurn
  BY <1>1, <1>2, <1>3 DEF InTurn
<1>8. card[Tomorrow] = 0
  BY CalendarAssumption DEF Init, Tomorrow
<1>9. CardShown
  BY <1>2, <1>8 DEF CardShown, RepliesShow, LastShown, Answered
<1>10. AccessesAreRight
  <2>1. \A i : i \notin DOMAIN work.accesses
    BY <1>4
  <2> QED BY <2>1 DEF AccessesAreRight
<1>11. LastIsRight
  BY <1>2 DEF LastIsRight
<1> QED BY <1>5, <1>6, <1>7, <1>9, <1>10, <1>11 DEF CardInv

LEMMA StepCard ==
  ASSUME OneSender, FullInv, CardInv, [Next]_vars
  PROVE  CardInv'
<1>1. IdsOK /\ FreshOK /\ StepsOK /\ MarkerOK /\ ToldInv
  BY DEF CardInv, FullInv, TablesInv
<1>2. IdsOK' /\ FreshOK' /\ StepsOK'
  BY <1>1, DeliveryIds, FreshStays, StepsStay
<1>3. ASSUME Attended' PROVE InTurn' /\ CardShown' /\ AccessesAreRight' /\ LastIsRight'
  <2>1. Attended /\ Undisturbed'
    BY <1>1, <1>3, AttendedBefore DEF Attended
  <2>2. InTurn /\ CardShown /\ AccessesAreRight /\ LastIsRight
    BY <2>1 DEF CardInv
  <2> QED BY <1>1, <1>3, <2>1, <2>2, DeliveryInTurn, CardStaysShown, StaysRight
<1> QED BY <1>2, <1>3 DEF CardInv

\* Once nothing is under way, the last card has been sent and shows what is confirmed.
LEMMA CardTells ==
  ASSUME FullInv, CardInv
  PROVE  CardIsCurrent
<1> SUFFICES ASSUME Attended, Quiet, card[Tomorrow] # 0
             PROVE  topic[card[Tomorrow]].text.lessons = marker[Week(Tomorrow)].lessons[Tomorrow]
  BY DEF CardIsCurrent, Attended, Undisturbed
<1>1. /\ TypeInv /\ InTurn /\ LastShown /\ LastIsRight
  BY DEF CardInv, CardShown, FullInv, DeliveryInv, MailInv, AttemptInv
<1>2. \A k \in TomorrowsCards : outbox[k].status = "sent"
  BY <1>1 DEF Quiet, TomorrowsCards, Rowed, Open, InTurn, TypeInv, OutboxTypeOK
<1>3. ShownCards = TomorrowsCards
  BY <1>2 DEF ShownCards
<1>4. PICK k \in TomorrowsCards : Newest(TomorrowsCards, k)
  BY <1>1, <1>3 DEF LastShown
<1>5. \A w \in Senders : ~Answered(w)
  BY DEF Quiet, Answered, Idle
<1>6. topic[card[Tomorrow]].text = k.text
  BY <1>1, <1>3, <1>4, <1>5 DEF LastShown
<1>7. \A i : i \notin DOMAIN work.accesses
  <2>1. work.accesses = <<>>
    BY DEF Quiet, NoWork
  <2> QED BY <2>1
<1>8. k.text.lessons = Confirmed[Tomorrow]
  BY <1>1, <1>4, <1>7 DEF LastIsRight
<1> QED BY <1>6, <1>8 DEF Confirmed

----------------------------------------------------------------------------
\* Once nothing is under way, the message on record for tomorrow shows the lessons confirmed for
\* it: provided that no call failed, no text came a second time, and no change of tomorrow was lost
\* to a caller that discards it or found while the card was on its way.  It is said of one outbox
\* worker, as the process has; with two of them TLC finds runs that end with an old card.
\* (ApplicationJobHandlers._publish_day, schedule_evening, ApplicationTelegramSender.send)
THEOREM CardShowsLessons == ASSUME OneSender PROVE Spec => []CardIsCurrent
<1>1. Init => FullInv /\ CardInv
  BY InitTells, InitCard
<1>2. FullInv /\ CardInv /\ [Next]_vars => (FullInv /\ CardInv)'
  BY StepTells, StepCard
<1>3. FullInv /\ CardInv => CardIsCurrent
  BY CardTells
<1> QED BY <1>1, <1>2, <1>3, PTL DEF Spec

====
