SPECIFICATION Spec
VIEW WithoutHistory
CONSTANTS
  Keys <- OneKey
  Str <- MCStr
  Fields <- MCFields
  LLMax = 7
  IntMax = 3
  Sec = 2
  FromChars <- MCFromChars
  ToChars <- MCToChars
  NotNumber = NotNumber
  Inf = 2
  NaN = NaN
  LexLess <- MCLexLess
  FromCharsDouble <- MCFromCharsDouble
  Missing = ""
  BareSigns <- MCBareSigns
  MaxTime = 2
  MaxList = 2
  KeyLists <- MCNone
  PairLists <- MCNone
  FieldLists <- MCNone
  ValueLists <- StringLists
  ScoreTexts <- MCNone
  LexTexts <- MCNone
  ScoredLists <- MCNone
  RangeOptions <- MCNone
  SourceLists <- MCNone
  IndexTexts <- MCNone
  Registered <- StringCommandNames
  Texts <- StringTexts
  IntArgs <- StringArgs
  OptionLists <- StringOptions
  Names <- MCNames
INVARIANT TypeOK
PROPERTY ImplementsTtlStore
CHECK_DEADLOCK FALSE
