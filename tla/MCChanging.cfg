SPECIFICATION ChangingSpec
CONSTANTS
  a = a
  b = b
  c = c
  d = d
  alice = alice
  bob = bob
  NoAccount = NoAccount
  Text <- MCMoreText
  Account <- MCAccount
  Resource <- MCResource
  Limit <- ChangingLimit
INVARIANTS ScreenListsRows DeletionSurvives EditSurvives
PROPERTIES OfflineCopiesAgree
CHECK_DEADLOCK FALSE
