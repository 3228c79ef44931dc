SPECIFICATION Spec
CONSTANTS
  f1 = f1
  f2 = f2
  dir = dir
  sub = sub
  a = a
  b = b
  Root = dir
  Walker = walker
  Subdirs <- MCSubdirs
  FilesOf <- MCFilesOf
  Contents <- MCContents
  MaxBlobs = 4
  MaxEntries = 6
  MaxChildren = 1
  Peers <- MCPeers
  p1 = p1
  p2 = p2
  Faults = {"io", "tail"}
  MaxBackups = 2
  MaxCrashes = 1
  MaxErrors = 1
INVARIANTS TypeOK KnownIsKept IndexUnambiguous SnapshotStored RestoreExact
PROPERTIES CompleteIndexKept
SYMMETRY Alike
CHECK_DEADLOCK FALSE
