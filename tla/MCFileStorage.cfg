CONSTANTS
  Callers = {c1, c2}
  Task = Task
  Names = {f1, f2}
  Nodes = {n1, n2, n3}
  NULL = NULL
  Free = Free
  Unnamed = Unnamed
  MaxCalls = 2
SPECIFICATION Spec
INVARIANTS PassSavesRegistered MemoryIsAccountedFor
PROPERTIES CallsReturn StuckForEver
CHECK_DEADLOCK FALSE
