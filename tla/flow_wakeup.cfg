\* A task that subscribes after the wake-up.
CONSTANTS
  t1 = t1
  t2 = t2
  w = w
  Tasks = {t1}
  Walker = w
  Blobs <- Three
  Leftovers = 0
  MaxLocal = 1
  Threshold = 0
  Word = 64
  MaxEvents = 0
  PromptStart = TRUE
SPECIFICATION FairSpec
PROPERTY SleepersWoken
CHECK_DEADLOCK FALSE
