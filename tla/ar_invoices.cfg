SPECIFICATION HSpec
CONSTANTS
  Clerks = {c1, c2}
  Windows = {w1}
  Balances = {2}
  GuestsGoOn = FALSE
  Charges = {a1}
  Numbers = {2, 3}
  MaxTotal = 2
  MaxPaid = 2
  Limits = {}
  Actives = {}
  Settable = {"DRAFT", "PAID", "VOID"}
  Base = 3
  Padded = 2
  CoreAnswersKnown = TRUE
  Trouble = {}
  Lateness = {0, 31}
  Ahead = {0, 1}
  DetailShows = 1
  NoLimit = NoLimit
  NoWindow = NoWindow
SYMMETRY ClerkSymmetry
INVARIANTS
  InvoicesAreSound
  ClearsOldestFirst
  StatementsAgree
PROPERTIES
  PaidIsCovered
CHECK_DEADLOCK FALSE
