CONSTANTS
  Texts <- MCTexts
  Gaps = {"none", "blank", "line"}
  Spellings <- MCSpellings
  Class <- MCClass
  Numbers <- MCNumbers
  Whole <- MCWhole
  Int32 <- MCInt32
  Value <- MCValue
  Rounded <- MCRounded
  RoundingError = 4
  kDoublePrecision = 2
SPECIFICATION Spec
INVARIANTS
  AnswerIsSameness
  AcceptedIsNear
  SameWordsAccepted
