SPECIFICATION FairSpec
CONSTANTS
  Clerks = {c1, c2}
  MaxRes = 2
  Groups = {s1}
  Logs = {l1, l2}
  MaxChange = 1
  PageSize = 1
  MaxPages = 2
  Trouble = {"core", "db", "dies"}
  DeskOps = {"create"}
  NoGroup = NoGroup
  NoLog = NoLog
INVARIANTS
  BookingsInv
  PenaltyIsCopied
  PullMissesNothing
PROPERTIES
  ImplementsCopy
  LogsAreClosed
CHECK_DEADLOCK FALSE
