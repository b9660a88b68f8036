SPECIFICATION Spec
VIEW WithoutHistory
CONSTANTS
  Keys <- MCKeys
  Str <- MCStr
  Fields <- MCFields
  LLMax = 2
  IntMax = 2
  Sec = 2
  FromChars <- MCFromChars
  ToChars <- MCToChars
  NotNumber = NotNumber
  Inf = 2
  NaN = NaN
  LexLess <- MCLexLess
  FromCharsDouble <- MCFromCharsDouble
  Missing = ""
  BareSigns <- MCBareSigns
  MaxTime = 2
  MaxList = 2
  KeyLists <- MCNone
  PairLists <- MCNone
  FieldLists <- CollectionFields
  ValueLists <- CollectionLists
  ScoreTexts <- Scores
  LexTexts <- Lexes
  ScoredLists <- ScoredMembers
  RangeOptions <- Options
  SourceLists <- Sources
  IndexTexts <- Indexes
  Registered <- CollectionCommandNames
  Texts <- CollectionTexts
  IntArgs <- CollectionArgs
  OptionLists <- MCNone
  Names <- MCNames
INVARIANT NoEmptyCollection
PROPERTY ImplementsTtlStore
CHECK_DEADLOCK FALSE
