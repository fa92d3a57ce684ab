SPECIFICATION HSpec
CONSTANTS
  Clerks = {c1, c2}
  Keys = {k1, k2}
  Txns = {t1, t2}
  MaxAmount = 2
  MaxReturned = 3
  Whole = 2
  Trouble = {"psp", "core", "dies", "closes"}
  MaxKeys = 1
  NoKey = NoKey
  NoTxn = NoTxn
  NoCheck = NoCheck
SYMMETRY ClerkSymmetry
INVARIANTS
  PaymentsInv
  GuestHeldOnce
  FolioFollowsPayments
  PaymentsFollowPsp
PROPERTIES
  ImplementsLifecycle
CHECK_DEADLOCK FALSE
