SPECIFICATION Spec
CONSTANTS
  Clerks = {c1, c2}
  Profiles = {p1, p2}
  Links = {x1, x2}
  Emails = {e1}
  Facts = {f1}
  Stays = {s1, s2}
  MaxDead = 1
  None = None
SYMMETRY ProfilesSymmetry
INVARIANTS
  MergesInv
  StayIsWithItsGuest
PROPERTIES
  FactsMoveOn
  GuestKnownOnce
  MergedWithOpera
CHECK_DEADLOCK FALSE
