---- MODULE Timetable ----
(***************************************************************************)
(* The differences between two versions of a week: the identities the      *)
(* source client gives to lessons (materialize_week) and the matching of   *)
(* diff_schedules, first by identity and then by likeness.                 *)
(*                                                                         *)
(* A week has one day, since lessons of different days never match.  The   *)
(* page shows a list of blocks in every slot; a block is a subject with a  *)
(* room for a group, and its place in the list is part of the identity.    *)
(* Subjects are numbers in the order of their names.                       *)
(***************************************************************************)
EXTENDS Integers, FiniteSets, Sequences

CONSTANTS
  LastSlot,   \* slots are numbered from 1
  MaxBlocks,  \* bound: blocks of a slot
  Blocks,     \* what a block may be: records of subject, room, group
  Likeness    \* of two subjects that differ, in percent (SequenceMatcher.ratio)

ASSUME TimetableAssumption ==
  /\ LastSlot \in Nat /\ MaxBlocks \in Nat /\ Likeness \in 0..99
  /\ \A b \in Blocks : b.subject \in Nat

VARIABLES
  former,   \* the lessons of the version before, as materialize_week lists them
  current,  \* and those of the version that has been stored
  changes,  \* what diff_schedules said of the two
  versions  \* history: versions stored so far

timetableVars == <<former, current, changes, versions>>

Pages == [1..LastSlot -> UNION {[1..n -> Blocks] : n \in 0..MaxBlocks}]

\* A set as a list, by a total order.
Sorted(S, Before(_, _)) ==
  [i \in 1..Cardinality(S) |-> CHOOSE x \in S : Cardinality({y \in S : Before(y, x)}) = i - 1]

\* By starts_at and subject; the sort is stable.
Earlier(a, b) ==
  \/ a.slot < b.slot
  \/ a.slot = b.slot /\ a.subject < b.subject
  \/ a.slot = b.slot /\ a.subject = b.subject /\ a.occurrence < b.occurrence

LessonsOn(page) ==
  UNION {{[slot |-> slot, occurrence |-> n, subject |-> page[slot][n].subject,
           room |-> page[slot][n].room, group |-> page[slot][n].group] :
            n \in DOMAIN page[slot]} : slot \in 1..LastSlot}

\* The lessons of a page, in order.
Materialized(page) == Sorted(LessonsOn(page), Earlier)

SourceId(lesson) == <<lesson.slot, lesson.group, lesson.occurrence>>

(***************************************************************************)
(* _match_lessons.                                                         *)
(***************************************************************************)
\* _match_score, a hundredfold, with lessons of the same type.
MatchScore(a, b) ==
  (IF a.subject = b.subject THEN 7000 + 2500 ELSE 70 * Likeness)
  + (IF a.slot = b.slot THEN 1500 ELSE 0)
  + (IF a.group = b.group THEN 500 ELSE 0)
  + 500

Distance(a, b) == IF a.slot > b.slot THEN a.slot - b.slot ELSE b.slot - a.slot

\* The candidates are taken from the greatest on.
Precedes(c, d) ==
  \/ c.score > d.score
  \/ c.score = d.score /\ c.distance < d.distance
  \/ c.score = d.score /\ c.distance = d.distance /\ c.old > d.old
  \/ c.score = d.score /\ c.distance = d.distance /\ c.old = d.old /\ c.new > d.new

SameId(old, new) ==
  {p \in (DOMAIN old) \X (DOMAIN new) : SourceId(old[p[1]]) = SourceId(new[p[2]])}

Firsts(matched) == {p[1] : p \in matched}

Seconds(matched) == {p[2] : p \in matched}

Candidates(old, new, matched) ==
  {c \in {[score |-> MatchScore(old[i], new[j]), distance |-> Distance(old[i], new[j]),
           old |-> i, new |-> j] :
             i \in DOMAIN old \ Firsts(matched), j \in DOMAIN new \ Seconds(matched)} :
     c.score >= 7000}

\* Mutant of Take: a new lesson may be taken twice.
TakeAgain(matched, c) ==
  IF c.old \in Firsts(matched) THEN matched ELSE matched \cup {<<c.old, c.new>>}

Take(matched, c) ==
  IF c.old \in Firsts(matched) \/ c.new \in Seconds(matched)
    THEN matched
    ELSE matched \cup {<<c.old, c.new>>}

\* The pairs after as many candidates as the argument says.
Rounds(same, ranked) ==
  LET matched[n \in 0..Len(ranked)] ==
        IF n = 0 THEN same ELSE Take(matched[n - 1], ranked[n])
  IN  matched

Matched(old, new) ==
  LET same == SameId(old, new)
      ranked == Sorted(Candidates(old, new, same), Precedes)
  IN  Rounds(same, ranked)[Len(ranked)]

(***************************************************************************)
(* diff_schedules.                                                         *)
(***************************************************************************)
NoLesson == [slot |-> 0, occurrence |-> 0, subject |-> 0, room |-> 0, group |-> 0]

\* The fields a pair is compared in; the group is not one of them.
Fields == {"slot", "subject", "room"}

Differing(a, b) == {field \in Fields : a[field] # b[field]}

Diff(old, new) ==
  LET matched == Matched(old, new) IN
    (UNION {{[kind |-> field, before |-> old[p[1]], after |-> new[p[2]]] :
               field \in Differing(old[p[1]], new[p[2]])} : p \in matched})
    \cup {[kind |-> "cancelled", before |-> old[i], after |-> NoLesson] :
            i \in DOMAIN old \ Firsts(matched)}
    \cup {[kind |-> "added", before |-> NoLesson, after |-> new[j]] :
            j \in DOMAIN new \ Seconds(matched)}

TimetableInit ==
  /\ former = <<>>
  /\ current = <<>>
  /\ changes = {}
  /\ versions = 0

\* The first version has none before it to be compared with.
StoreFirst(page) ==
  /\ versions = 0
  /\ versions' = 1
  /\ current' = Materialized(page)
  /\ former' = current'
  /\ UNCHANGED changes

\* A synchronisation finds another page.  Bound: one; every version is compared with every other.
Republish(page) ==
  /\ versions = 1
  /\ versions' = 2
  /\ current' = Materialized(page)
  /\ former' = current
  /\ changes' = Diff(former', current')

TimetableNext == \E page \in Pages : StoreFirst(page) \/ Republish(page)

TimetableSpec == TimetableInit /\ [][TimetableNext]_timetableVars

(***************************************************************************)
(* Properties.                                                             *)
(***************************************************************************)
LessonsOf(list) == {list[i] : i \in DOMAIN list}

\* What a reader of the changes makes of a lesson.
Followed(lesson) ==
  [f \in Fields |->
    IF \E c \in changes : c.kind = f /\ c.before = lesson
      THEN (CHOOSE c \in changes : c.kind = f /\ c.before = lesson).after[f]
      ELSE lesson[f]]

Shown(lesson) == [f \in Fields |-> lesson[f]]

Staying == {lesson \in LessonsOf(former) :
          ~\E c \in changes : c.kind = "cancelled" /\ c.before = lesson}

Added == {c.after : c \in {d \in changes : d.kind = "added"}}

\* Whoever has the former timetable and applies the announced changes gets the current one,
\* lesson by lesson in time, subject and room; and nothing is said of a lesson that stayed as
\* and where it was (diff_schedules, _match_lessons).
ChangesTellAll ==
  /\ \A shown \in {Followed(k) : k \in Staying} \cup {Shown(l) : l \in LessonsOf(current) \cup Added} :
       Cardinality({k \in Staying : Followed(k) = shown})
         + Cardinality({a \in Added : Shown(a) = shown})
         = Cardinality({l \in LessonsOf(current) : Shown(l) = shown})
  /\ \A l \in LessonsOf(former) \cap LessonsOf(current) : \A c \in changes : l \notin {c.before, c.after}

====
