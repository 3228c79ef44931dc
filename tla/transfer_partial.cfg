\* Packing and sending at the same time, no fault.
CONSTANTS
  f1 = f1
  f2 = f2
  f3 = f3
  p1 = p1
  p2 = p2
  s1 = s1
  s2 = s2
  NoFile = NoFile
  NoSlot = NoSlot
  Files = {f1}
  Peers = {p1}
  Slots = {s1, s2}
  FileSize = 1
  Negotiated <- Two
  Spread = 1
  Faults = {}
SPECIFICATION Spec
INVARIANT DeletedFilesAreStored
CHECK_DEADLOCK FALSE
