SPECIFICATION Spec
CONSTANTS
  Clients = {c1, c2}
  Users = {u1, u2}
  Roles = {"ADMIN", "HOUSEKEEPING"}
  Shifts = {h1, h2}
  Receipts = {r1}
  Floats = {1}
  Tasks = {t1}
  Traces = {i1}
  MaxRows = 3
  MaxCalm = 4
  MaxSent = 1
  None = None
SYMMETRY StaffSymmetry
INVARIANTS
  StaffInv
  ShiftsAgree
  AdminIsThere
CHECK_DEADLOCK FALSE
