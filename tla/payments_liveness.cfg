SPECIFICATION FairSpec
CONSTANTS
  Clerks = {c1, c2}
  Keys = {k1}
  Txns = {t1, t2}
  MaxAmount = 2
  MaxReturned = 3
  Whole = 1
  Trouble = {}
  NoKey = NoKey
  NoTxn = NoTxn
  NoCheck = NoCheck
PROPERTIES
  CaptureReachesFolio
  RequestsAreAnswered
CHECK_DEADLOCK FALSE
