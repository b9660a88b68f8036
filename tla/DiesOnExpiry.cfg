SPECIFICATION Spec
VIEW WithoutHistory
CONSTANTS
  Keys <- MCKeys
  Str <- MCStr
  Fields <- MCFields
  LLMax = 3
  IntMax = 3
  Sec = 2
  FromChars <- MCFromChars
  ToChars <- MCToChars
  NotNumber = NotNumber
  Inf = 2
  NaN = NaN
  LexLess <- MCLexLess
  FromCharsDouble <- MCFromCharsDouble
  Missing = ""
  BareSigns <- MCBareSigns
  MaxTime = 3
  MaxList = 2
  KeyLists <- MCNone
  PairLists <- MCNone
  FieldLists <- CollectionFields
  ValueLists <- CollectionLists
  ScoreTexts <- Scores
  LexTexts <- Lexes
  ScoredLists <- ScoredMembers
  RangeOptions <- Options
  SourceLists <- Sources
  IndexTexts <- Indexes
  Registered <- CollectionCommandNames
  Texts <- CollectionTexts
  IntArgs <- CollectionArgs
  OptionLists <- MCNone
  Names <- MCNames
PROPERTY NeverDies
CHECK_DEADLOCK FALSE
