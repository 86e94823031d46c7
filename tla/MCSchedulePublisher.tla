---- MODULE MCSchedulePublisher ----
(***************************************************************************)
(* Small instance of SchedulePublisher: days of two ticks, weeks of one   *)
(* day, three timetables.                                                  *)
(***************************************************************************)
EXTENDS SchedulePublisher, TLC

CONSTANTS plan, revised, free, f1, f2

MCTimetable == {plan, revised, free}

\* Two classes in a row, only the later one, no classes.
MCBlocks == [t \in MCTimetable |->
               IF t = plan THEN {<<0, 1>>, <<1, 2>>}
               ELSE IF t = revised THEN {<<1, 2>>} ELSE {}]

\* The source replaces a plan by its revision and never restores it.
Forward == {<<plan, revised>>}
ForwardAndBack == {<<plan, revised>>, <<revised, plan>>}

\* GitVerse runs are interchangeable.
FetcherSymmetry == Permutations({f1, f2})

====
