(* Two blanks are enough.                                                  *)
CONSTANTS
  Characters = {32, 44, 97}
  Separator = 44
  FieldLen = 5
  MaxText = 3
  Bytes = {0}
  MaxBytesShown = 1
SPECIFICATION StringSpec
CHECK_DEADLOCK FALSE
INVARIANT TrimRemovesSpaces
