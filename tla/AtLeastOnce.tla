---- MODULE AtLeastOnce ----
(***************************************************************************)
(* What the outbox promises to who writes to it, with neither leases nor   *)
(* workers: a message is carried at most once per try and tried at most    *)
(* Limit times; it counts as sent only when it was carried and that is on  *)
(* record, and is given up only when no try is left.                       *)
(***************************************************************************)
EXTENDS Naturals

CONSTANTS
  Keys,   \* one per message
  Limit   \* how often a message may be tried

VARIABLES
  stage,    \* stage[k]: "absent", "open", "sent" or "failed"
  tried,    \* tried[k]: number of tries
  carried,  \* carried[k]: how often the message reached the other side
  recorded  \* messages whose arrival the application has recorded

vars == <<stage, tried, carried, recorded>>

Init ==
  /\ stage = [k \in Keys |-> "absent"]
  /\ tried = [k \in Keys |-> 0]
  /\ carried = [k \in Keys |-> 0]
  /\ recorded = {}

Post(k) ==
  /\ stage[k] = "absent"
  /\ stage' = [stage EXCEPT ![k] = "open"]
  /\ UNCHANGED <<tried, carried, recorded>>

\* Messages without a try left may be given up, also while another one is tried.
GivenUp(gone) == [k \in Keys |-> IF k \in gone THEN "failed" ELSE stage[k]]
OutOfTries(gone) == \A k \in gone : stage[k] = "open" /\ tried[k] >= Limit

Try(k, gone) ==
  /\ stage[k] = "open" /\ tried[k] < Limit
  /\ OutOfTries(gone)
  /\ tried' = [tried EXCEPT ![k] = @ + 1]
  /\ stage' = GivenUp(gone)
  /\ UNCHANGED <<carried, recorded>>

\* A try that was overtaken may still arrive, also when the message has ended.
Carry(k) ==
  /\ carried[k] < tried[k]
  /\ carried' = [carried EXCEPT ![k] = @ + 1]
  /\ UNCHANGED <<stage, tried, recorded>>

Record(k) ==
  /\ carried[k] > 0
  /\ recorded' = recorded \cup {k}
  /\ UNCHANGED <<stage, tried, carried>>

Complete(k) ==
  /\ stage[k] = "open"
  /\ k \in recorded
  /\ stage' = [stage EXCEPT ![k] = "sent"]
  /\ UNCHANGED <<tried, carried, recorded>>

GiveUp(gone) ==
  /\ OutOfTries(gone)
  /\ stage' = GivenUp(gone)
  /\ UNCHANGED <<tried, carried, recorded>>

Next ==
  \/ \E k \in Keys : Post(k) \/ Carry(k) \/ Record(k) \/ Complete(k)
  \/ \E k \in Keys, gone \in SUBSET Keys : Try(k, gone)
  \/ \E gone \in SUBSET Keys : GiveUp(gone)

Spec == Init /\ [][Next]_vars

====
