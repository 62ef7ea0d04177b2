CONSTANTS
  B = B
  C = C
  Procs <- MCProcs
  Daemon = Daemon
  Sems = {s1, s2, s3}
  NULL = NULL
SPECIFICATION Spec
INVARIANTS WokenIsTold DaemonIsNeverEnough
PROPERTIES CoordinatorEnds ToldReleases ImplementsBarrier
CHECK_DEADLOCK FALSE
