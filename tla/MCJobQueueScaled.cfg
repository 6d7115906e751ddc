\* Two workers and a run that outlasts the threshold.
SPECIFICATION Spec
CONSTANTS
  ann = ann
  bob = bob
  a1 = a1
  a2 = a2
  b1 = b1
  w1 = w1
  w2 = w2
  Users = {ann, bob}
  Owner <- MCOwner
  Jobs = {a1, b1}
  Workers = {w1, w2}
  SlowJobs <- MCSlow
  Faults <- MCNone
  MaxDisruptions = 0
INVARIANTS
  AtMostOneRunner
CHECK_DEADLOCK FALSE
