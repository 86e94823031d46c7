\* Telegram answers every call; the calendar file may fail and requests may be refused.
SPECIFICATION Spec
CONSTANTS
  plan = plan
  revised = revised
  free = free
  f1 = f1
  f2 = f2
  MaxTime = 2
  TicksPerDay = 2
  EveningTick = 1
  WeekDays = 1
  LastDay = 2
  FirstLead = 1
  NextLead = 1
  MarkerCap = 2
  Timetable <- MCTimetable
  FirstTimetable = plan
  Free = free
  Blocks <- MCBlocks
  Actionable <- ForwardAndBack
  SiteChanges <- Forward
  Fetchers = {f1, f2}
  RequestKinds = {"remind"}
  Senders = {"bot"}
  QuietMode = FALSE
  MaxCards = 1
  Faults = {"calendar_failed"}
SYMMETRY FetcherSymmetry
INVARIANTS
  NothingRepeated
  NoticesChain
  AnnouncedChangesHappened
PROPERTIES
  ChangesAreAnnounced
