CONSTANTS
  vm = vm
  data = data
  more = more
  vmSnap = vmSnap
  db = db
  web01 = web01
  NoFile = NoFile
  File <- MCFile
  Stem <- MCStem
  Dashed = {vmSnap, web01}
  Snapshot = {}
  Size <- MCSize
  Flat <- MCFlat
  GiB = 2
  Name <- MCName
  Storages <- DashedName
  MaxTimeouts = 2
SPECIFICATION Spec
INVARIANT AllPlanned
CHECK_DEADLOCK FALSE
