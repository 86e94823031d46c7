---- MODULE MCScheduleDelivery ----
(***************************************************************************)
(* The TLC instance of ScheduleDelivery: weeks of one day, so that a week  *)
(* and its successor are today and tomorrow, and a notice has one change.  *)
(***************************************************************************)
EXTENDS ScheduleDelivery, TLC

MCDays == 0..Today + 1

MCMessages == 0..MaxCards

\* A week of one day can only change from one version to another.
MCChanges == {c \in ChangeIds : DOMAIN c.to = {c.day} /\ c.to[c.day] = c.after /\ c.before # c.after}

MCKeys == {CardKey(d, text) : d \in MCDays \ {0}, text \in Texts}
            \cup {NoticeKey({c}) : c \in MCChanges}

\* The versions differ in nothing but being different.
VersionSymmetry == Permutations(Versions)

====
