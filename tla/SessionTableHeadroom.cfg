SPECIFICATION Spec
CONSTANTS
  Keys = {1, 2, 3, 4}
  Values = {10, 11}
  SlotCount = 4
PROPERTY
  HeadroomForRekey
CHECK_DEADLOCK FALSE
