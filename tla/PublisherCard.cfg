\* Both senders, receiver runs only: Telegram refuses calls and a card may be deleted.
SPECIFICATION Spec
CONSTANTS
  plan = plan
  revised = revised
  free = free
  f1 = f1
  f2 = f2
  MaxTime = 1
  TicksPerDay = 2
  EveningTick = 1
  WeekDays = 1
  LastDay = 1
  FirstLead = 1
  NextLead = 1
  MarkerCap = 2
  Timetable <- MCTimetable
  FirstTimetable = plan
  Free = free
  Blocks <- MCBlocks
  Actionable <- ForwardAndBack
  SiteChanges <- Forward
  Fetchers = {f1}
  RequestKinds = {"forced", "legacy"}
  Senders = {"bot", "user"}
  QuietMode = TRUE
  MaxCards = 2
  Faults = {"rejected", "card_deleted", "bad_request", "late_read"}
INVARIANTS
  TypeOK
  SingleCard
PROPERTIES
  ChangesAreAnnounced
