SPECIFICATION Spec
CONSTANTS
  LastUpdate = 3
  Limit = 3
  MaxTries = 2
  MidPhases = {"stored"}
  MaxTroubles = 1
  Album = {1, 2}
  Documents = {1}
  Captioned = {1}
  EditSeconds = {1}
  Readings = {"plain"}
  Keys <- MCKeys
  Ops <- MCOps
  Messages = {7}
  NoOp = NoOp
  NoKey = NoKey
  NoMessage = NoMessage
  Senders = {s1}
  MaxAttempts = 2
INVARIANT TypeOK
INVARIANT OneLiveCopy
INVARIANT MaterialIsCurrent
INVARIANT ArchiveIsNewest
INVARIANT CopiedOncePerFailure
CHECK_DEADLOCK FALSE
