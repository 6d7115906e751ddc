\* The worker is killed once and Docker restarts it.
SPECIFICATION FairSpec
CONSTANTS
  ann = ann
  bob = bob
  a1 = a1
  a2 = a2
  b1 = b1
  w1 = w1
  w2 = w2
  Users = {ann, bob}
  Owner <- MCOwner
  Jobs = {a1}
  Workers = {w1}
  SlowJobs <- MCNone
  Faults <- MCCrash
  MaxDisruptions = 1
PROPERTIES
  KilledJobCompletes
CHECK_DEADLOCK FALSE
