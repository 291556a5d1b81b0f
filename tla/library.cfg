SPECIFICATION Spec
CONSTANTS
  Entries = {1, 2, 3, 4, 5}
  Size = 22
  SHORT = 3
  INT = 5
  LONG = 6
  Widths = {1, 4}
  Precs = {0, 3}
  Values = {0, 1, 4, 7, 8, 15, 16, 31, 32, 33, 63}
  Srt = {0, 1, 16, 31}
INVARIANTS
  ResultExact
  ValueReadsBack
  FieldFilled
  ReportExact
PROPERTY
  ImplementsSequence
