SPECIFICATION Spec
VIEW WithoutHistory
CONSTANTS
  Inf = 2
  NaN = NaN
  LexLess <- MCLexLess
  Members <- FourMembers
  LexValues <- AnyValue
  Scores <- ZeroOne
  Increments <- Up
  MaxLevel = 3
  MaxScore = 1
INVARIANTS TypeOK SpansAreDistances TowersAgree
PROPERTY ImplementsSortedSet
CHECK_DEADLOCK FALSE
