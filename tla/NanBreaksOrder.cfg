SPECIFICATION Spec
VIEW WithoutHistory
CONSTANTS
  Inf = 3
  NaN = NaN
  LexLess <- MCLexLess
  Members <- TwoMembers
  LexValues <- AnyValue
  Scores <- FromMinusOne
  Increments <- Extremes
  MaxLevel = 2
  MaxScore = 3
INVARIANT NodesAreOrdered
CHECK_DEADLOCK FALSE
