SPECIFICATION HSpec
CONSTANTS
  Clerks = {c1, c2}
  Windows = {w1, w2}
  Balances = {1}
  GuestsGoOn = TRUE
  Charges = {a1, a2}
  Numbers = {1}
  MaxTotal = 2
  MaxPaid = 1
  Limits = {1}
  Actives = {FALSE}
  Settable = {"SENT", "VOID"}
  Base = 10
  Padded = 9
  CoreAnswersKnown = FALSE
  Trouble = {"core", "dies"}
  Lateness = {}
  Ahead = {}
  DetailShows = 1
  NoLimit = NoLimit
  NoWindow = NoWindow
SYMMETRY ClerkSymmetry
INVARIANTS
  ArInv
PROPERTIES
  TransfersAreSound
CHECK_DEADLOCK FALSE
