SPECIFICATION Spec
CONSTANTS
  Cap = 24
  Cases <- MCCases
  Awkward <- MCAwkward
  Lossy <- MCLossy
INVARIANTS
  FormatsWhatItReads
  KeepsWords
CHECK_DEADLOCK FALSE
