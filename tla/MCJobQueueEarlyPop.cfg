\* No disruption at all: the worker pops an id before the POST commits.
SPECIFICATION FairSpec
CONSTANTS
  ann = ann
  bob = bob
  a1 = a1
  a2 = a2
  b1 = b1
  w1 = w1
  w2 = w2
  Users = {ann, bob}
  Owner <- MCOwner
  Jobs = {a1, b1}
  Workers = {w1}
  SlowJobs <- MCNone
  Faults <- MCNone
  MaxDisruptions = 0
PROPERTIES
  AcceptedJobCompletes
CHECK_DEADLOCK FALSE
