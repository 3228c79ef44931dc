\* One file with many blobs, no fault: the limit applies to the bytes ever written.
CONSTANTS
  t1 = t1
  t2 = t2
  w = w
  Tasks = {t1}
  Walker = w
  Blobs <- Eight
  Leftovers = 0
  MaxLocal = 2
  Threshold = 1
  Word = 64
  MaxEvents = 0
  PromptStart = TRUE
SPECIFICATION FairSpec
PROPERTY FullBufferStops
CHECK_DEADLOCK FALSE
