SPECIFICATION SessionSpec
CONSTANTS
  a = a
  b = b
  c = c
  d = d
  alice = alice
  bob = bob
  NoAccount = NoAccount
  Text <- MCText
  Account <- MCAccounts
  Resource <- MCResource
  Limit <- SessionLimit
INVARIANTS PostedNoteSurvives ListedNotesExist
PROPERTIES PostedNoteSettles TouchesReturn
CHECK_DEADLOCK FALSE
