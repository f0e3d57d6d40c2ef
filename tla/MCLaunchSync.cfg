SPECIFICATION MCSpec
CONSTANTS
  a = a
  b = b
  c = c
  d = d
  e = e
  f = f
  alice = alice
  NoAccount = NoAccount
  Text <- MCText
  Account <- MCAccount
  Resource <- MCResource
  Limit <- SomeLimit
INVARIANTS TypeOK Barrier OffsetsSound IdsNameTheirNotes OneCopyPerLaunch RemovalIsTheLoop MergeGoesByText
PROPERTIES DroppedOnlyWhenApplied TextSurvivesStamping ImplementsOutbox ChainEnds HealthyLaunchDrains
CHECK_DEADLOCK FALSE
