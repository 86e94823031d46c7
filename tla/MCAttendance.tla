---- MODULE MCAttendance ----
(***************************************************************************)
(* The TLC instance of Attendance.  A run shows one of two scenes: in the  *)
(* lesson nobody comes or leaves, and before it nothing is reacted to.     *)
(***************************************************************************)
EXTENDS Attendance

VARIABLE scene

MCMessages == 0..MaxMessages

MCKeys == {Card} \cup {Summary(present, missing) : present, missing \in SUBSET Users}

MCInit == Init /\ scene \in {"lesson", "roster"}

Lesson ==
  /\ \A p \in Users : real'[p].status = real[p].status
  /\ \A u \in 2..published' : content'[u].kind = "reaction"

MCNext ==
  /\ Next
  /\ IF scene = "lesson" THEN Lesson ELSE jobs' = jobs
  /\ UNCHANGED scene

MCSpec == MCInit /\ [][MCNext]_<<vars, scene>>

====
