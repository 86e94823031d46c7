\* The default quiet mode; Telegram is unreachable for single calls.
SPECIFICATION Spec
CONSTANTS
  plan = plan
  revised = revised
  free = free
  f1 = f1
  f2 = f2
  MaxTime = 2
  TicksPerDay = 2
  EveningTick = 1
  WeekDays = 1
  LastDay = 1
  FirstLead = 1
  NextLead = 1
  MarkerCap = 2
  Timetable <- MCTimetable
  FirstTimetable = plan
  Free = free
  Blocks <- MCBlocks
  Actionable <- ForwardAndBack
  SiteChanges <- Forward
  Fetchers = {f1}
  RequestKinds = {}
  Senders = {"bot"}
  QuietMode = TRUE
  MaxCards = 2
  Faults = {"unreachable"}
INVARIANT
  SingleCard
