SPECIFICATION PadsSpec
CONSTANTS
  Primary = p
  Guests = {c}
  LocalIds = {a}
  NumSlots = 2
  Absent = Absent
INVARIANT DetachedHoldsNone
CHECK_DEADLOCK FALSE
