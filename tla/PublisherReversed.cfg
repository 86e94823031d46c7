\* Overlapping GitVerse runs that read the source after stamping their clock.
SPECIFICATION Spec
CONSTANTS
  plan = plan
  revised = revised
  free = free
  f1 = f1
  f2 = f2
  MaxTime = 2
  TicksPerDay = 2
  EveningTick = 1
  WeekDays = 1
  LastDay = 1
  FirstLead = 1
  NextLead = 1
  MarkerCap = 2
  Timetable <- MCTimetable
  FirstTimetable = plan
  Free = free
  Blocks <- MCBlocks
  Actionable <- ForwardAndBack
  SiteChanges <- Forward
  Fetchers = {f1, f2}
  RequestKinds = {}
  Senders = {"bot"}
  QuietMode = FALSE
  MaxCards = 1
  Faults = {"late_read"}
INVARIANT
  AnnouncedChangesHappened
