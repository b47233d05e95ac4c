CONSTANTS
  Objects = {o1, o2}
  Workers = {w1, w2}
  MaxStores = 6
SPECIFICATION Spec
PROPERTIES ImplementsQueue Drains
CHECK_DEADLOCK FALSE
