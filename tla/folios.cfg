SPECIFICATION Spec
CONSTANTS
  Clerks = {c1, c2}
  MaxWin = 2
  MaxPosts = 2
  Outlets = {o1}
  Checks = {k1}
  Trouble = {"close", "dies"}
  MaxTrouble = 1
  NoCheck = NoCheck
SYMMETRY FolioSymmetry
INVARIANTS
  FolioInv
  CopyFollowsOpera
  JournalBalances
PROPERTIES
  ImplementsPosCheck
  PaymentStaysPut
  DepartsSettled
CHECK_DEADLOCK FALSE
