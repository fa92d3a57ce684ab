SPECIFICATION HSpec
CONSTANTS
  Clerks = {c1, c2}
  Guests = {g1, g2, g3}
  Rooms = {r1, r2}
  Cards = {k1, k2}
  Sharing = {{g1, g2}}
  Trouble = {"core", "vendor", "encoder", "dies", "opera"}
  Followed = {g1, g2}
  MaxRooms = 1
  MaxCards = 1
  NoRoom = NoRoom
  NoGuest = NoGuest
  NoCard = NoCard
SYMMETRY DeskSymmetry
INVARIANTS
  DeskInv
  OnlyGuestsEnter
  DeskFollowsOpera
CHECK_DEADLOCK FALSE
