---- MODULE Watch ----
(***************************************************************************)
(* How the owner learns that the runtime is gone: the heartbeat of the     *)
(* maintenance job, the periodic probe of the bot's rights                 *)
(* (_probe_telegram_periodically), the health check that reads both        *)
(* (build_health_report), and the alert unit with its cooldown             *)
(* (send_owner_alert), which systemd starts when the check fails and again *)
(* when the alert fails.                                                   *)
(***************************************************************************)
EXTENDS Integers

CONSTANTS
  LastHour,       \* bound of the clock
  StaleAfter,     \* of the heartbeat
  ProbeStaleAfter,
  Cooldown        \* of the health alert

ASSUME WatchAssumption ==
  /\ {LastHour, StaleAfter, ProbeStaleAfter} \subseteq Nat
  /\ Cooldown \in Nat \ {0}

VARIABLES
  hour,
  alive,      \* whether the runtime runs
  heartbeat,  \* system_settings runtime.heartbeat
  probe,      \* system_settings telegram.probe
  unit,       \* szs-hub-alert@health: its phase, and the time it took
  marker,     \* its file health.last-success
  lived,      \* history: the last hour the runtime ran
  reached,    \* history: the last hour a probe found its rights in order
  verdict,    \* history: of the last check, if all was well: how long the runtime had been gone
  told,       \* history: the last hour an alert reached the owner
  handled     \* history: when the alert that last ended without an error had begun

stored == <<heartbeat, probe, marker>>
watchHistory == <<lived, reached, verdict, told, handled>>
watchVars == <<hour, alive, stored, unit, watchHistory>>

Never == -1

Unit == [phase |-> "idle", at |-> Never]

NoVerdict == [gone |-> 0, unreached |-> 0]

WatchInit ==
  /\ hour = 0
  /\ alive = FALSE
  /\ heartbeat = Never
  /\ probe = [at |-> Never, ok |-> FALSE]
  /\ unit = Unit
  /\ marker = Never
  /\ lived = Never
  /\ reached = Never
  /\ verdict = NoVerdict
  /\ told = Never
  /\ handled = Never

HourPasses ==
  /\ hour < LastHour
  /\ hour' = hour + 1
  /\ lived' = IF alive THEN hour + 1 ELSE lived
  /\ UNCHANGED <<alive, stored, unit, reached, verdict, told, handled>>

(***************************************************************************)
(* The runtime.                                                            *)
(***************************************************************************)
\* The startup probe is recorded if it succeeds; else the process ends as it began.
StartWatched ==
  /\ ~alive
  /\ alive' = TRUE
  /\ lived' = hour
  /\ reached' = hour
  /\ probe' = [at |-> hour, ok |-> TRUE]
  /\ UNCHANGED <<hour, heartbeat, marker, unit, verdict, told, handled>>

Beat ==
  /\ alive
  /\ heartbeat' = hour
  /\ UNCHANGED <<hour, alive, probe, marker, unit, watchHistory>>

ProbeSucceeds ==
  /\ alive
  /\ probe' = [at |-> hour, ok |-> TRUE]
  /\ reached' = hour
  /\ UNCHANGED <<hour, alive, heartbeat, marker, unit, lived, verdict, told, handled>>

\* Telegram answers with an error, or with rights that will not do: those end the task, and
\* with it the group of tasks.
ProbeFails ==
  /\ alive
  /\ probe' = [at |-> hour, ok |-> FALSE]
  /\ alive' \in BOOLEAN
  /\ UNCHANGED <<hour, heartbeat, marker, unit, watchHistory>>

WatchedDies ==
  /\ alive
  /\ alive' = FALSE
  /\ UNCHANGED <<hour, stored, unit, watchHistory>>

(***************************************************************************)
(* The health check.                                                       *)
(***************************************************************************)
Stale(at, after) == at < hour - after

\* Mutant of Reasons: what is not recorded is not missed.
ReasonsOnRecord ==
  (IF heartbeat # Never /\ Stale(heartbeat, StaleAfter) THEN {"runtime_heartbeat_stale"} ELSE {})
  \cup (IF probe.at # Never /\ Stale(probe.at, ProbeStaleAfter) THEN {"telegram_probe_stale"} ELSE {})
  \cup (IF probe.at # Never /\ ~probe.ok THEN {"telegram_probe_failed"} ELSE {})

Reasons ==
  (IF heartbeat = Never \/ Stale(heartbeat, StaleAfter) THEN {"runtime_heartbeat"} ELSE {})
  \cup (IF probe.at = Never \/ Stale(probe.at, ProbeStaleAfter) THEN {"telegram_probe"} ELSE {})
  \cup (IF probe.at # Never /\ ~probe.ok THEN {"telegram_probe_failed"} ELSE {})

\* Any reason makes the command fail, one of the others too: the schedule, the last backup,
\* failed jobs, the integrity of the database.  systemd leaves a unit alone that is at work.
CheckHealth(other) ==
  /\ LET well == Reasons = {} /\ ~other IN
       /\ verdict' = IF well THEN [gone |-> hour - lived, unreached |-> hour - reached] ELSE NoVerdict
       /\ unit' = IF ~well /\ unit.phase = "idle" THEN [unit EXCEPT !.phase = "started"] ELSE unit
  /\ UNCHANGED <<hour, alive, stored, lived, reached, told, handled>>

(***************************************************************************)
(* The alert.                                                              *)
(***************************************************************************)
\* A marker of the future suppresses nothing.
Cooling == marker # Never /\ 0 <= hour - marker /\ hour - marker < Cooldown

Suppress ==
  /\ unit.phase = "started"
  /\ Cooling
  /\ unit' = Unit
  /\ handled' = hour
  /\ UNCHANGED <<hour, alive, stored, lived, reached, verdict, told>>

BeginAlert ==
  /\ unit.phase = "started"
  /\ ~Cooling
  /\ unit' = [phase |-> "sending", at |-> hour]
  /\ UNCHANGED <<hour, alive, stored, watchHistory>>

\* Mutant of DeliverAlert: the marker is written before Telegram is asked.
DeliverMarked ==
  /\ unit.phase = "sending"
  /\ marker' = unit.at
  /\ \/ unit' = [unit EXCEPT !.phase = "delivered"] /\ told' = hour
     \/ unit' = [unit EXCEPT !.phase = "started"] /\ UNCHANGED told
  /\ UNCHANGED <<hour, alive, heartbeat, probe, lived, reached, verdict, handled>>

\* The owner gets the message, or an error ends the unit and it is started again.
DeliverAlert ==
  /\ unit.phase = "sending"
  /\ \/ unit' = [unit EXCEPT !.phase = "delivered"] /\ told' = hour
     \/ unit' = [unit EXCEPT !.phase = "started"] /\ UNCHANGED told
  /\ UNCHANGED <<hour, alive, stored, lived, reached, verdict, handled>>

\* The marker holds the time at which the unit began.
MarkAlert ==
  /\ unit.phase = "delivered"
  /\ marker' = unit.at
  /\ unit' = Unit
  /\ handled' = unit.at
  /\ UNCHANGED <<hour, alive, heartbeat, probe, lived, reached, verdict, told>>

\* The marker cannot be written: AlertStateError, and the alert is sent again.
MarkFails ==
  /\ unit.phase = "delivered"
  /\ unit' = [unit EXCEPT !.phase = "started"]
  /\ UNCHANGED <<hour, alive, stored, watchHistory>>

\* The host goes down, or systemd no longer restarts the unit.
UnitGone ==
  /\ unit.phase # "idle"
  /\ unit' = Unit
  /\ UNCHANGED <<hour, alive, stored, watchHistory>>

WatchNext ==
  \/ HourPasses
  \/ StartWatched \/ Beat \/ ProbeSucceeds \/ ProbeFails \/ WatchedDies
  \/ \E other \in BOOLEAN : CheckHealth(other)
  \/ Suppress \/ BeginAlert \/ DeliverAlert \/ MarkAlert \/ MarkFails \/ UnitGone

WatchSpec == WatchInit /\ [][WatchNext]_watchVars

(***************************************************************************)
(* Properties.                                                             *)
(***************************************************************************)
\* A check that finds everything well was made no later than the two limits after the runtime
\* last ran and after its rights were last in order: what has never been recorded, what is
\* old and what failed are all seen (build_health_report).
GoneIsSeen == verdict.gone <= StaleAfter /\ verdict.unreached <= ProbeStaleAfter

\* "unless the same class succeeded inside its cooldown" (alerting.py:102): whenever the alert
\* unit ended without an error, by sending or by keeping silent, an alert had reached the
\* owner since a cooldown before the unit began, whatever had failed in between.
OwnerIsTold == handled # Never => told # Never /\ handled - Cooldown < told

====
