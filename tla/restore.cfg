SPECIFICATION Spec
CONSTANTS
  p1 = p1
  p2 = p2
  Peers = {p1, p2}
  Slots = {1, 2, 3}
  Windows = {1, 2}
  Worlds <- MCWorlds
  MaxRestores = 2
  MaxDisturbances = 1
INVARIANTS TypeOK NonceUsedOnce ServedAsAsked RunningIsSomeones UnpackHasAll NeverForsaken
CHECK_DEADLOCK FALSE
