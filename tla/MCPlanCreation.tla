-------------------------- MODULE MCPlanCreation ---------------------------
(***************************************************************************)
(* Instances of PlanCreation for TLC.  Lengths are in halves of a GiB.     *)
(***************************************************************************)
EXTENDS PlanCreation, TLC

CONSTANTS vm, data, more, vmSnap, db, web01

MCFile == {vm, data, more, vmSnap, db, web01}
MCName == {"web", "db", "web-01"}

(* vm is named after web, more has no -flat file, data is three halves of  *)
(* a GiB, vmSnap is what a snapshot leaves of vm. *)
MCStem == vm :> "web" @@ data :> "data" @@ more :> "more" @@ vmSnap :> "web-000001"
          @@ db :> "db" @@ web01 :> "web-01"
MCSize == vm :> 1 @@ data :> 1 @@ more :> 4 @@ vmSnap :> 1 @@ db :> 1 @@ web01 :> 1
MCFlat == vm :> 40 @@ data :> 3 @@ more :> 0 @@ vmSnap :> 5 @@ db :> 20 @@ web01 :> 20

Dev(b, t, f) == [bus |-> b, type |-> t, file |-> f]
Good(devices) == [decodes |-> TRUE, devices |-> devices]
Dir(n, m, fs, vs) == [name |-> n, kind |-> "dir", marked |-> m, files |-> fs, vmx |-> vs]

Scsi(f) == Dev("scsi", "scsi-hardDisk", f)
Controller == Dev("scsi", "", NoFile)
CD == Dev("sata", "cdrom-image", NoFile)

(* What the .vmx files of web may be: disks on one bus or on several, with *)
(* a controller and a CD-ROM, one of them stored elsewhere, with a         *)
(* snapshot, without the primary disk; an older file or a broken one too.  *)
WebVMX == {
  <<Good({Scsi(vm), Scsi(data), Scsi(more), Controller, CD})>>,
  <<Good({Dev("sata", "", vm), Dev("nvme", "", data), Scsi(more)})>>,
  <<Good({Dev("ide", "", vm), Dev("scsi", "", data)})>>,
  <<Good({Scsi(vmSnap), Scsi(data)})>>,
  <<Good({Scsi(vm), Scsi(vmSnap)})>>,
  <<Good({Scsi(data), Scsi(more)})>>,
  <<Good({}), Good({Scsi(vm)})>>,
  <<[decodes |-> FALSE, devices |-> {}]>>,
  <<>>}

Web == {Dir("web", m, fs, vs) :
          m \in BOOLEAN, fs \in {{}, {vm, data}, {vm, data, more, vmSnap}}, vs \in WebVMX}

(* Before it: a good directory, with or without a marker, or no directory. *)
Db == {[name |-> "db", kind |-> k, marked |-> m, files |-> {db}, vmx |-> <<Good({Scsi(db)})>>] :
         k \in {"hidden", "file", "dir"}, m \in BOOLEAN}

MCStorages == {<<d, w>> : d \in Db, w \in Web}

(* A virtual machine whose name holds "-0", and no snapshot anywhere. *)
DashedName == {<<Dir("web-01", FALSE, {web01}, <<Good({Scsi(web01), CD})>>)>>,
               <<Dir("db", FALSE, {db}, <<Good({Scsi(db)})>>),
                 Dir("web-01", FALSE, {web01}, <<Good({Scsi(web01), Controller})>>)>>}
=============================================================================
