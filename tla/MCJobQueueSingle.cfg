\* The deployed system: one worker, runs that may outlast the threshold.
SPECIFICATION FairSpec
CONSTANTS
  ann = ann
  bob = bob
  a1 = a1
  a2 = a2
  b1 = b1
  w1 = w1
  w2 = w2
  Users = {ann, bob}
  Owner <- MCOwner
  Jobs = {a1, a2}
  Workers = {w1}
  SlowJobs <- MCSlow
  Faults <- FaultKinds
  MaxDisruptions = 3
PROPERTIES
  EveryPostAnswered
  SignalledJobCompletes
  BootResumes
CHECK_DEADLOCK FALSE
