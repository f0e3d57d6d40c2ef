SPECIFICATION ChangingSpec
CONSTANTS
  a = a
  b = b
  c = c
  d = d
  alice = alice
  bob = bob
  NoAccount = NoAccount
  Text <- MCMoreText
  Account <- MCAccount
  Resource <- MCResource
  Limit <- ChangingLimit
INVARIANTS DeletedNoteIsNotQueued
CHECK_DEADLOCK FALSE
