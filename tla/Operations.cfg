SPECIFICATION Spec
CONSTANTS
  Parts = {"archive", "watch", "retention", "timetable", "assistant", "outbox"}
  LastMessage = 2
  BatchSize = 1
  Edited = {2}
  Erasing = {2}
  MaxDeaths = 1
  MaxRestores = 1
  LastUpdate = 2
  Limit = 1
  MaxTries = 2
  MidPhases = {"reserved", "answered", "metered", "recorded", "refused"}
  MaxTroubles = 1
  Askers = {"alice", "bob"}
  LastMoment = 1
  MomentsPerDay = 1
  DaysPerMonth = 2
  RequestLimit = 2
  TokenLimit = 3
  UserLimit = 1
  MonthRequestLimit = 3
  MonthTokenLimit = 4
  TokensPerRequest = 2
  Costs = {1, 3}
  MaxRetries = 1
  Ttl = 2
  MaxPrevious = 2
  LastHour = 2
  StaleAfter = 1
  ProbeStaleAfter = 1
  Cooldown = 2
  Tables <- MCTables
  LastDay = 4
  PayloadAge = 1
  DiagnosticAge = 2
  TalkAge = 1
  BatchLimit = 1
  MaxBatches = 2
  MaxRows = 2
  LastSlot = 2
  MaxBlocks = 2
  Likeness = 75
  Blocks <- MCBlocks
  Keys = {"k1"}
  Ops = {"send"}
  NoOp = "none"
  Senders = {"s1", "s2"}
  NoKey = "no_key"
  Messages = {"m"}
  NoMessage = "no_message"
  MaxAttempts = 2
INVARIANT SpendIsAccounted
INVARIANT BudgetHolds
PROPERTY EveryUpdateEnds
PROPERTY ImplementsMailbox
PROPERTY EveryMessageEnds
PROPERTY ArchiveMovesForward
INVARIANT ImportIsComplete
INVARIANT PriorIsKept
INVARIANT GoneIsSeen
INVARIANT OwnerIsTold
INVARIANT PrivacyHolds
INVARIANT ChangesTellAll
CHECK_DEADLOCK FALSE
