---- MODULE Retention ----
(***************************************************************************)
(* The privacy retention: the recurring scheduler admits one job a day,    *)
(* and the job empties in batches what is older than its table's age       *)
(* (maintenance_retention, RetentionService.run_batch).  Every table has a *)
(* transaction of its own, and the rest of the runtime goes on between     *)
(* two of them.                                                            *)
(*                                                                         *)
(* A table is the set of days of its rows that still have their content.   *)
(***************************************************************************)
EXTENDS Naturals, Sequences, FiniteSets, FiniteSetsExt, Functions

CONSTANTS
  Tables,          \* in the order of run_batch: processed, failed, jobs, outbox, talks
  LastDay,         \* bound of the clock
  PayloadAge,      \* processed_update_payload_age
  DiagnosticAge,   \* failed_diagnostic_age
  TalkAge,         \* ai_conversation_age
  BatchLimit,      \* of a transaction, 500 in the code
  MaxBatches,      \* of a run, 10 in the code
  MaxRows          \* bound: rows that have their content

ASSUME RetentionAssumption ==
  /\ {PayloadAge, DiagnosticAge, TalkAge, BatchLimit, MaxBatches} \subseteq Nat \ {0}
  /\ {LastDay, MaxRows} \subseteq Nat
  /\ Tables \in Seq({"processed", "failed", "jobs", "outbox", "talks"})
  /\ \E i \in DOMAIN Tables : Tables[i] = "talks"

Age == [t \in {Tables[i] : i \in DOMAIN Tables} |->
         CASE t = "processed" -> PayloadAge [] t = "talks" -> TalkAge [] OTHER -> DiagnosticAge]

VARIABLES
  today,
  content,   \* by table: the days of processed_at, completed_at, available_at or updated_at
  planned,   \* table jobs: the last day that has its maintenance.retention
  open,      \* table jobs: the days whose maintenance.retention has not ended
  run,       \* the handler's locals
  clean      \* history: the time of the last batch that left nothing more

retentionVars == <<today, content, planned, open, run, clean>>

NoBatch == [job |-> 0, table |-> 0, checked |-> 0, batch |-> 0, full |-> {}]

\* Day 0 is before the first.
RetentionInit ==
  /\ today = 1
  /\ content = [t \in DOMAIN Age |-> {}]
  /\ planned = 0
  /\ open = {}
  /\ run = NoBatch
  /\ clean = 0

DayPasses ==
  /\ today < LastDay
  /\ today' = today + 1
  /\ UNCHANGED <<content, planned, open, run, clean>>

\* An update, a job or an outbox row ends, or a conversation begins.
Close(t) ==
  /\ FoldFunction(LAMBDA days, n : Cardinality(days) + n, 0, content) < MaxRows
  /\ content' = [content EXCEPT ![t] = @ \cup {today}]
  /\ UNCHANGED <<today, planned, open, run, clean>>

\* record_exchange, in a conversation that is there.
Continue(d) ==
  /\ d \in content["talks"]
  /\ content' = [content EXCEPT !["talks"] = (@ \ {d}) \cup {today}]
  /\ UNCHANGED <<today, planned, open, run, clean>>

\* planned_recurring_jobs, every 15 seconds: the key of a day is used once.
Plan ==
  /\ planned < today
  /\ planned' = today
  /\ open' = open \cup {today}
  /\ UNCHANGED <<today, content, run, clean>>

StartRun(d) ==
  /\ run = NoBatch
  /\ d \in open
  /\ run' = [NoBatch EXCEPT !.job = d, !.table = 1, !.checked = today, !.batch = 1]
  /\ UNCHANGED <<today, content, planned, open, clean>>

Table == Tables[run.table]

Overdue == {d \in content[Table] : d + Age[Table] < run.checked}

\* The rows a transaction takes: the oldest, up to the limit.
Oldest == {d \in Overdue : Cardinality({e \in Overdue : e < d}) < BatchLimit}

Redact ==
  /\ run.table \in DOMAIN Tables
  /\ content' = [content EXCEPT ![Table] = @ \ Oldest]
  /\ run' = [run EXCEPT !.table = @ + 1,
                        !.full = IF Cardinality(Oldest) = BatchLimit THEN @ \cup {Table} ELSE @]
  /\ UNCHANGED <<today, planned, open, clean>>

\* Mutant of MayHaveMore: only if every table filled its batch.
EveryTableHasMore == run.full = DOMAIN Age

MayHaveMore == run.full # {}

NextBatch ==
  /\ run.table > Len(Tables)
  /\ MayHaveMore /\ run.batch < MaxBatches
  /\ run' = [run EXCEPT !.table = 1, !.checked = today, !.batch = @ + 1, !.full = {}]
  /\ UNCHANGED <<today, content, planned, open, clean>>

EndRun ==
  /\ run.table > Len(Tables)
  /\ ~MayHaveMore \/ run.batch = MaxBatches
  /\ open' = open \ {run.job}
  /\ clean' = IF MayHaveMore THEN clean ELSE run.checked
  /\ run' = NoBatch
  /\ UNCHANGED <<today, content, planned>>

\* The process dies or a transaction fails; the job is met again, or given up.
BreakRun ==
  /\ run # NoBatch
  /\ open' \in {open, open \ {run.job}}
  /\ run' = NoBatch
  /\ UNCHANGED <<today, content, planned, clean>>

RetentionNext ==
  \/ DayPasses \/ Plan
  \/ \E t \in DOMAIN Age : Close(t)
  \/ \E d \in 1..LastDay : Continue(d) \/ StartRun(d)
  \/ Redact \/ NextBatch \/ EndRun \/ BreakRun

RetentionSpec == RetentionInit /\ [][RetentionNext]_retentionVars

(***************************************************************************)
(* Properties.                                                             *)
(***************************************************************************)
\* After a run that ended because nothing was left, no table has content that was overdue when
\* its last batch began, however many batches it took and whatever was closed or continued
\* between two of its transactions (run_batch, maintenance_retention).
PrivacyHolds == \A t \in DOMAIN Age : \A d \in content[t] : clean <= d + Age[t]

====
