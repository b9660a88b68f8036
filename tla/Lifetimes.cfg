SPECIFICATION Spec
VIEW WithoutHistory
CONSTANTS
  Keys <- MCKeys
  Str <- MCStr
  Fields <- MCFields
  LLMax = 7
  IntMax = 3
  Sec = 2
  FromChars <- MCFromChars
  ToChars <- MCToChars
  NotNumber = NotNumber
  Inf = 2
  NaN = NaN
  LexLess <- MCLexLess
  FromCharsDouble <- MCFromCharsDouble
  Missing = ""
  BareSigns <- MCBareSigns
  MaxTime = 4
  MaxList = 2
  KeyLists <- MCKeyLists
  PairLists <- MCPairLists
  FieldLists <- MCNone
  ValueLists <- MCNone
  ScoreTexts <- MCNone
  LexTexts <- MCNone
  ScoredLists <- MCNone
  RangeOptions <- MCNone
  SourceLists <- MCNone
  IndexTexts <- MCNone
  Registered <- LifetimeCommands
  Texts <- LifetimeTexts
  IntArgs <- LifetimeArgs
  OptionLists <- LifetimeOptions
  Names <- MCNames
PROPERTY ImplementsTtlStore
CHECK_DEADLOCK FALSE
