CONSTANTS
  E18 = 10
  E8 = 4
  E6 = 2
  U128Max = 200
  U64Max = 24
  U32Max = 31
  None = None
  Size = 3
  Start = 7
  MaxTime = 12
  Utilizations = {0, 1, 3}
  Guesses = {0, 1, 2, 3, 4}
  Params <- SmallParams
SPECIFICATION SpecSearch
INVARIANTS SearchTypeOK WindowIsShortest AverageIsTrue WindowReachable
PROPERTIES SearchIsAtomic SearchAnswers
CHECK_DEADLOCK FALSE
