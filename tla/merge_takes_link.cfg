SPECIFICATION Spec
CONSTANTS
  Clerks = {c1}
  Profiles = {p1, p2}
  Links = {x1}
  Emails = {e1}
  Facts = {f1}
  Stays = {s1, s2}
  MaxDead = 0
  None = None
INVARIANTS
  MergeIsCarriedOut
CHECK_DEADLOCK FALSE
