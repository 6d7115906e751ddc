\* Two workers, three jobs, every kind of disruption, runs shorter than STALE_THRESHOLD.
SPECIFICATION Spec
CONSTANTS
  ann = ann
  bob = bob
  a1 = a1
  a2 = a2
  b1 = b1
  w1 = w1
  w2 = w2
  Users = {ann, bob}
  Jobs = {a1, a2, b1}
  Workers = {w1, w2}
  Owner <- MCOwner
  SlowJobs <- MCNone
  Faults <- FaultKinds
  MaxDisruptions = 1
SYMMETRY Symmetry
INVARIANTS
  TypeOK
  OneActivePerUser
  OnlyAcceptedJobsRun
  AtMostOneRunner
  RunnerHoldsRow
  ShownIsConsistent
PROPERTIES
  OutcomeIsFinal
  SignalIsKept
  ImplementsLifecycle
CHECK_DEADLOCK FALSE
