CONSTANTS
  Heads = {h1, h2}
  Elements = {e1, e2, e3, e4}
  NULL = NULL
  Garbage = Garbage
SPECIFICATION Spec
INVARIANTS Represents TraversalIsTheList
PROPERTY RemoveEnds
