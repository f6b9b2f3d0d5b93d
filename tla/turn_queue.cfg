SPECIFICATION FairSpec
CONSTANTS
  Chats = {c1, c2}
  Turns = {t1, t2, t3}
  NoTurn = NoTurn
  MaxStops = 1
INVARIANTS
  BusyShown
  RunsAtMostTwice
  InOrder
  OwnerCancelsResume
PROPERTIES
  EveryTurnServed
