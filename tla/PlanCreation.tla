---------------------------- MODULE PlanCreation ----------------------------
(***************************************************************************)
(* createImportPlan (main.go) and the inspection of the directory of each  *)
(* virtual machine (vmx.go): one run of -create-import-plan on the host    *)
(* that has the storage.                                                   *)
(*                                                                         *)
(* A VMX file is what govmx makes of it: nothing, if it does not decode,   *)
(* or for each bus a set of devices, as the decoder lists them in the      *)
(* order of a Go map.  The fields that are only copied are left out.       *)
(***************************************************************************)
EXTENDS Naturals, Sequences, FiniteSets, SequencesExt

CONSTANTS
  File,         \* disk files (.vmdk, not -flat.vmdk)
  NoFile,       \* the file of a device that has none
  Stem,         \* Stem[f]: the name of file f without .vmdk
  Dashed,       \* the files with "-0" in their name
  Snapshot,     \* the files that hold a snapshot: <disk>-000001.vmdk
  Size, Flat,   \* Size[f], Flat[f]: length of f and of its -flat file; 0: no such file
  GiB,          \* 1 GiB, in the unit of these lengths
  Name,         \* names of directory entries
  Storages,     \* the contents that the storage path may have
  MaxTimeouts   \* bound: stat calls that take over five seconds

Bus    == {"ide", "sata", "scsi", "nvme"}
Device == [bus: Bus, type: {"disk", "scsi-hardDisk", "cdrom-image", ""},
           file: File \cup {NoFile}]
VMX    == [decodes: BOOLEAN, devices: {ds \in SUBSET Device : IsFiniteSet(ds)}]

(* An entry of the storage path.  files: the .vmdk files in it; vmx: its   *)
(* .vmx files in the order of their names; marked: is there a .skip_import? *)
Item == [name: Name, kind: {"hidden", "file", "dir"}, marked: BOOLEAN,
         files: SUBSET File, vmx: Seq(VMX)]

(* No two entries of a directory have the same name. *)
DifferentNames(s) ==
  /\ \A k, l \in DOMAIN s : s[k].name = s[l].name => k = l
  /\ \A k \in DOMAIN s : \A f, g \in s[k].files : Stem[f] = Stem[g] => f = g

ASSUME ConstantsAssumption ==
  /\ NoFile \notin File
  /\ Dashed \subseteq File /\ Snapshot \subseteq Dashed
  /\ Size \in [File -> Nat] /\ Flat \in [File -> Nat]
  /\ GiB \in Nat \ {0}
  /\ "" \notin Name
  /\ Storages \subseteq Seq(Item)
  /\ \A s \in Storages : DifferentNames(s)
  /\ MaxTimeouts \in Nat

VARIABLES
  storage,   \* the entries of the storage path, in the order of their names
  vmDir,     \* -vm-dir, or ""
  pc,        \* where the run is
  i,         \* the entry it is at
  devs,      \* the devices of that entry that are still to be looked at
  primary,   \* the primary disk found among the devices before, or NoDisk
  extra,     \* the additional disks found
  plan,      \* the import plan
  result,    \* how the run ended
  misled,    \* history: the entries for which a stat timed out
  timeouts   \* counts these, up to MaxTimeouts

vars == <<storage, vmDir, pc, i, devs, primary, extra, plan, result, misled, timeouts>>

Disk   == [file: File, size: Nat]
NoDisk == [file |-> NoFile, size |-> 0]
-----------------------------------------------------------------------------
Init ==
  /\ storage \in Storages
  /\ vmDir \in Name \cup {""}
  /\ pc = "item" /\ i = 1
  /\ devs = <<>> /\ primary = NoDisk /\ extra = <<>>
  /\ plan = <<>>
  /\ result = "none"
  /\ misled = {} /\ timeouts = 0

(* A call of os.Stat ends in time, or counts as an error. *)
Answered == UNCHANGED <<misled, timeouts>>
TimesOut == /\ timeouts < MaxTimeouts
            /\ timeouts' = timeouts + 1
            /\ misled' = misled \cup {i}

Fail ==
  /\ pc' = "done" /\ result' = "error"
  /\ UNCHANGED <<storage, vmDir, i, devs, primary, extra, plan>>

AtItem   == pc = "item" /\ i <= Len(storage)
item     == storage[i]
Selected == item.kind = "dir" /\ vmDir \in {"", item.name}

(* The .vmx file that is read is the last one. *)
Parses == item.vmx # <<>> /\ item.files # {} /\ Last(item.vmx).decodes

(* The devices that the loops over the four buses keep. *)
Candidate(d) ==
  CASE d.bus = "sata" -> d.type # "cdrom-image"
    [] d.bus = "scsi" -> d.type = "scsi-hardDisk"
    [] OTHER          -> TRUE

(* All orders in which they may be kept: bus by bus, any within a bus. *)
OnBus(devices, bus) == SetToSeqs({d \in devices : d.bus = bus /\ Candidate(d)})
Orders(devices) ==
  {a \o b \o c \o d : a \in OnBus(devices, "ide"), b \in OnBus(devices, "sata"),
                       c \in OnBus(devices, "scsi"), d \in OnBus(devices, "nvme")}

(* Entries that are no directory, hidden, or not the one asked for. *)
PassOver ==
  /\ AtItem /\ ~Selected
  /\ i' = i + 1
  /\ UNCHANGED <<storage, vmDir, pc, devs, primary, extra, plan, result, misled, timeouts>>

SkipMarked ==
  /\ AtItem /\ Selected /\ item.marked
  /\ Answered
  /\ i' = i + 1
  /\ UNCHANGED <<storage, vmDir, pc, devs, primary, extra, plan, result>>

(* A marker is overlooked when looking for it takes too long. *)
Unmarked == AtItem /\ Selected /\ IF item.marked THEN TimesOut ELSE Answered

Parse ==
  /\ Unmarked /\ Parses
  /\ devs' \in Orders(Last(item.vmx).devices)
  /\ primary' = NoDisk /\ extra' = <<>>
  /\ pc' = "disk"
  /\ UNCHANGED <<storage, vmDir, i, plan, result>>

(* Mutant: a directory that does not parse is left out. *)
ParseSkips ==
  /\ Unmarked /\ ~Parses
  /\ i' = i + 1
  /\ UNCHANGED <<storage, vmDir, pc, devs, primary, extra, plan, result>>

(* One directory that does not parse fails the plan. *)
ParseFails == Unmarked /\ ~Parses /\ Fail

dev == Head(devs)

(* A device without a file, or whose file is not in the directory, or not  *)
(* found there in time, is left out. *)
PassOverDisk ==
  /\ pc = "disk" /\ devs # <<>>
  /\ IF dev.file \in item.files THEN TimesOut ELSE Answered
  /\ devs' = Tail(devs)
  /\ UNCHANGED <<storage, vmDir, pc, i, primary, extra, plan, result>>

Found == pc = "disk" /\ devs # <<>> /\ dev.file \in item.files

(* Mutant: only the primary disk is looked at for a snapshot. *)
LooksLikeSnapshotPrimary(f) == f \in Dashed /\ Stem[f] = item.name

LooksLikeSnapshot(f) == f \in Dashed

RefuseSnapshot == Found /\ LooksLikeSnapshot(dev.file) /\ Answered /\ Fail

(* Getting a size fails when it takes too long. *)
SizeFails == Found /\ ~LooksLikeSnapshot(dev.file) /\ TimesOut /\ Fail

(* The length of the -flat file, if there is one, or that of the file. *)
Length(f) == IF Flat[f] # 0 THEN Flat[f] ELSE Size[f]

(* Mutant: the primary disk is an additional one too. *)
EnterTwice(f, length) ==
  LET disk == [file |-> f, size |-> length \div GiB]
  IN  /\ primary' = IF Stem[f] = item.name THEN disk ELSE primary
      /\ extra' = Append(extra, disk)

(* The disk that is named after the directory is the primary one.  Sizes   *)
(* are rounded down to GiB.                                                *)
Enter(f, length) ==
  LET disk == [file |-> f, size |-> length \div GiB]
  IN  IF Stem[f] = item.name THEN primary' = disk /\ extra' = extra
                             ELSE primary' = primary /\ extra' = Append(extra, disk)

(* A -flat file that is not found in time leaves the length of the file,   *)
(* which is a small text then.                                             *)
AddDisk ==
  /\ Found /\ ~LooksLikeSnapshot(dev.file)
  /\ \/ Answered /\ Enter(dev.file, Length(dev.file))
     \/ Flat[dev.file] # 0 /\ TimesOut /\ Enter(dev.file, Size[dev.file])
  /\ devs' = Tail(devs)
  /\ UNCHANGED <<storage, vmDir, pc, i, plan, result>>

(* Mutant: there need not be a primary disk. *)
AddServerWithout ==
  /\ pc = "disk" /\ devs = <<>>
  /\ plan' = Append(plan, [name |-> item.name, primary |-> primary, extra |-> extra])
  /\ pc' = "item" /\ i' = i + 1
  /\ UNCHANGED <<storage, vmDir, devs, primary, extra, result, misled, timeouts>>

AddServer ==
  /\ pc = "disk" /\ devs = <<>> /\ primary # NoDisk
  /\ plan' = Append(plan, [name |-> item.name, primary |-> primary, extra |-> extra])
  /\ pc' = "item" /\ i' = i + 1
  /\ UNCHANGED <<storage, vmDir, devs, primary, extra, result, misled, timeouts>>

NoPrimary ==
  /\ pc = "disk" /\ devs = <<>> /\ primary = NoDisk
  /\ Answered /\ Fail

(* The plan is saved; until then the run has written nothing. *)
Finish ==
  /\ pc = "item" /\ i > Len(storage)
  /\ pc' = "done" /\ result' = "saved"
  /\ UNCHANGED <<storage, vmDir, i, devs, primary, extra, plan, misled, timeouts>>

Next ==
  \/ PassOver \/ SkipMarked \/ Parse \/ ParseFails
  \/ PassOverDisk \/ RefuseSnapshot \/ SizeFails \/ AddDisk
  \/ AddServer \/ NoPrimary \/ Finish

Spec == Init /\ [][Next]_vars
-----------------------------------------------------------------------------
TypeOK ==
  /\ storage \in Storages
  /\ vmDir \in Name \cup {""}
  /\ pc \in {"item", "disk", "done"}
  /\ i \in 1..(Len(storage) + 1)
  /\ devs \in Seq(Device)
  /\ primary \in Disk \cup {NoDisk} /\ extra \in Seq(Disk)
  /\ plan \in Seq([name: Name, primary: Disk, extra: Seq(Disk)])
  /\ Len(plan) < i
  /\ result \in {"none", "saved", "error"}
  /\ misled \subseteq DOMAIN storage
  /\ timeouts \in 0..MaxTimeouts

(* The entries that a plan for vmDir is to hold. *)
Wanted(k) ==
  storage[k].kind = "dir" /\ ~storage[k].marked /\ vmDir \in {"", storage[k].name}

(* A plan that is saved holds every wanted directory, each once and in     *)
(* order, and beyond these only directories whose marker was overlooked:   *)
(* no directory is left out because something is wrong with it.            *)
PlanCoversStorage ==
  result = "saved" =>
    \E overlooked \in SUBSET (misled \ {k \in DOMAIN storage : Wanted(k)}) :
      LET planned == {k \in DOMAIN storage : Wanted(k)} \cup overlooked
      IN  [n \in DOMAIN plan |-> plan[n].name] =
          [n \in 1..Cardinality(planned) |->
             storage[CHOOSE k \in planned : Cardinality({l \in planned : l <= k}) = n].name]

Entry(k) == CHOOSE n \in DOMAIN plan : plan[n].name = storage[k].name

(* The devices of directory k, the disks of these that are stored in it,   *)
(* and whether all disks on the SCSI bus are declared to be hard disks,    *)
(* which the code needs to see and VMware does not.                        *)
DevicesOf(k)  == Last(storage[k].vmx).devices
DisksOf(k)    == {d.file : d \in DevicesOf(k)} \cap storage[k].files
Declared(k)   == \A d \in DevicesOf(k) :
                   d.bus = "scsi" /\ d.file # NoFile => d.type = "scsi-hardDisk"

(* Whatever order the decoder lists the devices in, and whatever buses     *)
(* they are on, the plan holds each disk of a virtual machine once, and    *)
(* has as primary disk the one that is named after the directory.          *)
EachDiskOnce ==
  result = "saved" =>
    \A k \in DOMAIN storage \ misled : Wanted(k) /\ Declared(k) =>
      LET vs == plan[Entry(k)]
      IN  /\ Stem[vs.primary.file] = storage[k].name
          /\ {vs.primary.file} \cup {d.file : d \in ToSet(vs.extra)} = DisksOf(k)
          /\ Len(vs.extra) + 1 = Cardinality(DisksOf(k))

(* No disk of a virtual machine with a snapshot gets into a plan: not the  *)
(* files of the snapshot, and not, unless looking for these took too long, *)
(* the disks beside them.                                                  *)
NoSnapshotPlanned ==
  result = "saved" =>
    \A n \in DOMAIN plan :
      /\ plan[n].primary.file \notin Snapshot
      /\ \A d \in ToSet(plan[n].extra) : d.file \notin Snapshot
      /\ \A k \in DOMAIN storage \ misled :
           Wanted(k) /\ Declared(k) => DisksOf(k) \cap Snapshot = {}

Importable(k) ==
  /\ storage[k].vmx # <<>> /\ Last(storage[k].vmx).decodes
  /\ Declared(k) /\ DisksOf(k) \cap Snapshot = {}
  /\ \E f \in DisksOf(k) : Stem[f] = storage[k].name

(* When the virtual machines wanted are all in order and none has a        *)
(* snapshot, a plan is made of them (README.md:99).                        *)
AllPlanned ==
  /\ pc = "done" /\ misled = {}
  /\ \A k \in DOMAIN storage : Wanted(k) => Importable(k)
  => result = "saved"
=============================================================================
