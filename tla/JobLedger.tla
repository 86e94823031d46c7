---- MODULE JobLedger ----
(***************************************************************************)
(* What the durable job queue promises, with neither leases nor workers:   *)
(* a job is started at most Limit[j] times; it is done only on account of  *)
(* its newest start, and given up only when no start is left.              *)
(***************************************************************************)
EXTENDS Naturals

CONSTANTS
  Jobs,   \* idempotency keys
  Limit   \* Limit[j]: how often job j may be started

VARIABLES
  phase,    \* phase[j]: "absent", "open", "done" or "given_up"
  started,  \* started[j]: number of starts
  handled   \* pairs <<job, start>> whose handler ended normally

vars == <<phase, started, handled>>

Init ==
  /\ phase = [j \in Jobs |-> "absent"]
  /\ started = [j \in Jobs |-> 0]
  /\ handled = {}

Admit(j) ==
  /\ phase[j] = "absent"
  /\ phase' = [phase EXCEPT ![j] = "open"]
  /\ UNCHANGED <<started, handled>>

\* A claim also gives up some of the jobs that are out of starts.
GivenUp(gone) == [j \in Jobs |-> IF j \in gone THEN "given_up" ELSE phase[j]]
OutOfStarts(gone) == \A j \in gone : phase[j] = "open" /\ started[j] >= Limit[j]

Start(j, gone) ==
  /\ phase[j] = "open" /\ started[j] < Limit[j]
  /\ OutOfStarts(gone)
  /\ started' = [started EXCEPT ![j] = @ + 1]
  /\ phase' = GivenUp(gone)
  /\ UNCHANGED handled

\* Starts that were overtaken may still end, also after the job itself ended.
Handle(j, n) ==
  /\ n \in 1 .. started[j]
  /\ handled' = handled \cup {<<j, n>>}
  /\ UNCHANGED <<phase, started>>

Complete(j) ==
  /\ phase[j] = "open"
  /\ <<j, started[j]>> \in handled
  /\ phase' = [phase EXCEPT ![j] = "done"]
  /\ UNCHANGED <<started, handled>>

GiveUp(gone) ==
  /\ OutOfStarts(gone)
  /\ phase' = GivenUp(gone)
  /\ UNCHANGED <<started, handled>>

Next ==
  \/ \E j \in Jobs : Admit(j) \/ Complete(j)
  \/ \E j \in Jobs, gone \in SUBSET Jobs : Start(j, gone)
  \/ \E j \in Jobs : \E n \in 1 .. started[j] : Handle(j, n)
  \/ \E gone \in SUBSET Jobs : GiveUp(gone)

Spec == Init /\ [][Next]_vars

====
