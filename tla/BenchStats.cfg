SPECIFICATION BenchSpec
CONSTANTS
  ITER = 4
  WORD = 6
INVARIANTS MedianExact ExtremesExact TotalPlausible
CHECK_DEADLOCK FALSE
