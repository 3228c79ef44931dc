\* Three packfiles of twice what was negotiated, one peer, a forgotten session, faults.
CONSTANTS
  f1 = f1
  f2 = f2
  f3 = f3
  p1 = p1
  p2 = p2
  s1 = s1
  s2 = s2
  NoFile = NoFile
  NoSlot = NoSlot
  Files = {f1, f2, f3}
  Peers = {p1}
  Slots = {s1, s2}
  FileSize = 2
  Negotiated <- One
  Spread = 1
  Faults = {"timeout", "break", "sender_crash", "peer_crash", "disk"}
SPECIFICATION Spec
SYMMETRY Symmetry
INVARIANTS
  TypeOK
  DeletedFilesAreKept
  ConfirmedFileIsThere
  SenderNeverAhead
  AwaitedAckIsAhead
  StoredBounded
CHECK_DEADLOCK FALSE
