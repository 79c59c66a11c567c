CONSTANTS
  vm = vm
  data = data
  more = more
  vmSnap = vmSnap
  db = db
  web01 = web01
  NoFile = NoFile
  File <- MCFile
  Stem <- MCStem
  Dashed = {vmSnap, web01}
  Snapshot = {vmSnap}
  Size <- MCSize
  Flat <- MCFlat
  GiB = 2
  Name <- MCName
  Storages <- MCStorages
  MaxTimeouts = 2
SPECIFICATION Spec
INVARIANTS
  TypeOK
  PlanCoversStorage
  EachDiskOnce
  NoSnapshotPlanned
CHECK_DEADLOCK FALSE
