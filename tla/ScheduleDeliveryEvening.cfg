SPECIFICATION Spec
CONSTANTS
  Keys <- MCKeys
  Ops <- MCMessages
  Messages <- MCMessages
  Days <- MCDays
  NoOp = NoOp
  NoKey = NoKey
  NoMessage = NoMessage
  Nothing = Nothing
  Senders = {s1}
  MaxAttempts = 1
  DaysPerWeek = 1
  Today = 0
  Versions = {a, b}
  MaxTries = 2
  MaxCards = 2
  MaxEvents = 2
  Interactive = FALSE
INVARIANT OneCardPerDay
SYMMETRY VersionSymmetry
