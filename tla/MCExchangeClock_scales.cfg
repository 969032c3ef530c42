SPECIFICATION Spec
CONSTANTS
  t1 = t1
  t2 = t2
  Never = Never
  Tasks <- TwoTasks
  StartSim = 0
  Factors = {0, 2, 3, 7}
  Durations <- AFewDurations
  Instants = {0, 3}
  HalfRange = 4
  Earliest <- Past
  Latest = 5
  NanosLimit = 5
  ProductLimit = 10
  Second = 3
  MaxReal = 4
SYMMETRY TaskSymmetry
INVARIANTS
  TypeOK
  ReadingsForward
  SleepsLongEnough
PROPERTIES
  NoWayBack
CHECK_DEADLOCK FALSE
