SPECIFICATION PadsSpec
CONSTANTS
  Primary = p
  Guests = {c}
  LocalIds = {a, b}
  NumSlots = 1
  Absent = Absent
INVARIANT SlotsAreDistinct
CHECK_DEADLOCK FALSE
