SPECIFICATION WritingSpec
CONSTANTS
  a = a
  b = b
  c = c
  d = d
  alice = alice
  bob = bob
  NoAccount = NoAccount
  Text <- MCText
  Account <- MCAccount
  Resource <- MCResource
  Limit <- WritingLimit
INVARIANTS PostedNoteSurvives NoCauselessDuplicate AnswersNameTheirNotes
SYMMETRY Alike
CHECK_DEADLOCK FALSE
