---- MODULE MCOperations ----
(***************************************************************************)
(* The parts of the runtime that share no state, as one state machine that *)
(* runs one of them: which one is chosen at the start.                     *)
(***************************************************************************)
EXTENDS Archive, Assistant, Watch, Retention, Timetable, Outbox

CONSTANT Parts  \* the parts to choose from

VARIABLE part

vars == <<part, archiveVars, assistantVars, watchVars, retentionVars, timetableVars, outboxVars>>

Init ==
  /\ part \in Parts
  /\ ArchiveInit /\ AssistantInit /\ WatchInit /\ RetentionInit /\ TimetableInit /\ OutboxInit

\* Bound: a restore and a death meet only where nothing is imported.
Archiving ==
  /\ part = "archive"
  /\ ArchiveNext
  /\ restores' > 0 /\ deaths' > 0 => export' = NoExport
  /\ UNCHANGED <<part, assistantVars, watchVars, retentionVars, timetableVars, outboxVars>>

\* A step of the assistant's part.
Assisting(Step) ==
  /\ part = "assistant"
  /\ Step
  /\ UNCHANGED <<part, archiveVars, watchVars, retentionVars, timetableVars, outboxVars>>

Watching ==
  /\ part = "watch"
  /\ WatchNext
  /\ UNCHANGED <<part, archiveVars, assistantVars, retentionVars, timetableVars, outboxVars>>

Retaining ==
  /\ part = "retention"
  /\ RetentionNext
  /\ UNCHANGED <<part, archiveVars, assistantVars, watchVars, timetableVars, outboxVars>>

Comparing ==
  /\ part = "timetable"
  /\ TimetableNext
  /\ UNCHANGED <<part, archiveVars, assistantVars, watchVars, retentionVars, outboxVars>>

\* A step of the outbox's part.
Mailing(Step) ==
  /\ part = "outbox"
  /\ Step
  /\ UNCHANGED <<part, archiveVars, assistantVars, watchVars, retentionVars, timetableVars>>

Next ==
  \/ Archiving \/ Assisting(AssistantNext) \/ Watching \/ Retaining \/ Comparing
  \/ Mailing(OutboxNext)

\* The two tasks of the pump go on, and a wait ends.  The outbox's workers keep polling, every
\* call ends, every result is reported unless the process dies, and time passes; nothing forces
\* Telegram to carry out a call, nor a process to survive.
Spec ==
  /\ Init
  /\ [][Next]_vars
  /\ WF_vars(Assisting(PollerStep))
  /\ WF_vars(Assisting(WorkerStep))
  /\ WF_vars(Assisting(\E u \in Updates : Backoff(u)))
  /\ \A w \in Senders : WF_vars(Mailing(WorkOn(w)))
  /\ WF_vars(Mailing(\E k \in Keys : Elapse(k)))

\* The other tables have the rule of "outbox", and ages of their own.
MCTables == <<"outbox", "talks">>

\* Two subjects, in two rooms and for two groups.
MCBlocks ==
  {[subject |-> 1, room |-> 1, group |-> 1],
   [subject |-> 2, room |-> 1, group |-> 1],
   [subject |-> 2, room |-> 2, group |-> 2]}

====
