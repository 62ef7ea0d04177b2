CONSTANTS
  Bytes = {0, 61, 64, 200, 255}
  MaxBytes = 5
  BitNums = {0, 6, 7, 9}
  Ends = {0, 1, 3, 6, 7, 9, 16}
  Width = 5
  WideStarts = {0, 1, 512, 1000, 1024, 1536, 2048}
  MaxNumber = 5
  MaxRanges = 3
SPECIFICATION Spec
INVARIANTS RoundTrip InPlaceReadsUnspoiled 
           BlocksPartition MergeKeepsNumbers
CHECK_DEADLOCK FALSE
