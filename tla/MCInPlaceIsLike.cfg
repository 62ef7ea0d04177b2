CONSTANTS
  Bytes = {0, 61, 64, 200, 255}
  MaxBytes = 5
  BitNums = {0}
  Ends = {0}
  Width = 5
  WideStarts = {0, 1}
  MaxNumber = 1
  MaxRanges = 1
SPECIFICATION Spec
INVARIANT InPlaceIsLike
CHECK_DEADLOCK FALSE
