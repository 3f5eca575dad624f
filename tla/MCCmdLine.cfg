\* All texts up to five characters, for a buffer of two and the NUL.
SPECIFICATION Spec
CONSTANTS
  Digits <- MCDigits
  Letters = {"x"}
  Flag <- MCFlag
  MaxText = 5
  BLEN = 3
  MaxSize = 3
  MaxArgs = 4
  Nothing = Nothing
INVARIANTS TypeOK ArraysAreElements ArgsCompressed
CHECK_DEADLOCK FALSE
