\* Every failure the workflows can meet.
SPECIFICATION Spec
CONSTANTS
  plan = plan
  revised = revised
  free = free
  f1 = f1
  f2 = f2
  MaxTime = 1
  TicksPerDay = 2
  EveningTick = 1
  WeekDays = 1
  LastDay = 0
  FirstLead = 1
  NextLead = 1
  MarkerCap = 2
  Timetable <- MCTimetable
  FirstTimetable = plan
  Free = free
  Blocks <- MCBlocks
  Actionable <- ForwardAndBack
  SiteChanges <- Forward
  Fetchers = {f1, f2}
  RequestKinds = {"remind"}
  Senders = {"bot"}
  QuietMode = FALSE
  MaxCards = 2
  Faults = {"rejected", "lost_reply", "runner_lost", "cache_evicted"}
SYMMETRY FetcherSymmetry
INVARIANTS
  RecordedMeansDelivered
PROPERTIES
  BaselineNeverRegresses
