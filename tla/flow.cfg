\* Two files beside the walker, a full buffer to begin with, every fault.
CONSTANTS
  t1 = t1
  t2 = t2
  w = w
  Tasks = {t1, t2}
  Walker = w
  Blobs <- TwoOne
  Leftovers = 2
  MaxLocal = 2
  Threshold = 0
  Word = 64
  MaxEvents = 1
  PromptStart = TRUE
SPECIFICATION FairSpec
INVARIANTS
  TypeOK
  AvailableIsThere
  SenderEndsLast
PROPERTIES
  PauseEnds
  SubscribersWoken
  CompletedIsSent
CHECK_DEADLOCK FALSE
