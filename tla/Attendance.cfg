SPECIFICATION MCSpec
CONSTANTS
  LastUpdate = 3
  Limit = 2
  MaxTries = 2
  MidPhases = {"marked"}
  MaxTroubles = 1
  Users = {u1}
  Statuses = {"member", "left"}
  OpensAt = 0
  ClosesAt = 2
  LastTime = 2
  MaxMessages = 2
  Keys <- MCKeys
  Ops <- MCMessages
  Messages <- MCMessages
  NoOp = NoOp
  NoKey = NoKey
  NoMessage = NoMessage
  Senders = {s1}
  MaxAttempts = 1
INVARIANT TypeOK
INVARIANT NothingForgotten
INVARIANT MarksFollowReactions
INVARIANT RosterIsTrue
INVARIANT SummaryIsCurrent
CHECK_DEADLOCK FALSE
