SPECIFICATION PadsSpec
CONSTANTS
  Primary = p
  Guests = {c}
  LocalIds = {a}
  NumSlots = 2
  Absent = Absent
PROPERTY RemovalMeansFree
CHECK_DEADLOCK FALSE
