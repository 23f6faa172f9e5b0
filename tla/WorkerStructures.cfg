SPECIFICATION Structures
CONSTANTS
  Capacity = 3
  Values = {v1, v2}
  Nothing = Nothing
  Keys = {1, 2, 3}
  Sessions = {10, 11}
  SlotCount = 4
  WordBits = 3
  word_count = 3
  Expiry = 12
INVARIANTS
  NoSlotRace
  VacatedIsErased
  WindowIsExact
PROPERTIES
  ImplementsFifo
  TableIsMap
CHECK_DEADLOCK FALSE
