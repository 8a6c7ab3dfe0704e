SPECIFICATION Spec
CONSTANTS
  Code = {c1}
  MaxStops = 1
  MaxLost = 1
PROPERTIES EndsOnlyAbsentRooms
