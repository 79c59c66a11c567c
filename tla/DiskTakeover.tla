---------------------------- MODULE DiskTakeover ----------------------------
(***************************************************************************)
(* What importing the disks of virtual servers promises, without runs,     *)
(* files, failures or an order of steps: each server is converted once,    *)
(* each of its images is put in one place, once, on a disk that holds      *)
(* nothing and while the server is not known to run, and what the server   *)
(* has run on is its own from then on.  What was done to a server may be   *)
(* forgotten; then nothing is promised of its disks any more.              *)
(***************************************************************************)
EXTENDS Naturals, Sequences

CONSTANTS
  VS,       \* the virtual servers
  Slot,     \* Slot[v]: the disks that server v has; 0 is its primary one
  Windows,  \* the servers that need another disk driver
  Lists     \* Lists[v]: the lists of disks that v may be converted to

VARIABLES
  list,    \* list[v]: the disks v was converted to, as their sources
  left,    \* left[v]: those of the list whose image is not placed yet
  disk,    \* disk[v][s]: what disk s of server v holds
  power,   \* power[v]: "on", "off" or "unknown"
  driver,  \* driver[v]: the disk driver of v
  lost     \* the servers of which it is forgotten what was done

vars == <<list, left, disk, power, driver, lost>>

Holds(src, state) == [src |-> src, state |-> state]
Nothing == Holds(0, "blank")
Unknown == Holds(0, "unknown")

Init ==
  /\ list = [v \in VS |-> <<>>] /\ left = [v \in VS |-> {}]
  /\ disk = [v \in VS |-> [s \in Slot[v] |-> Nothing]]
  /\ power = [v \in VS |-> "on"] /\ driver = [v \in VS |-> "default"]
  /\ lost = {}

(* The images of a server are made, all of them at once. *)
Convert(v) ==
  /\ v \notin lost /\ list[v] = <<>>
  /\ \E l \in Lists[v] : /\ list' = [list EXCEPT ![v] = l]
                         /\ left' = [left EXCEPT ![v] = DOMAIN l]
  /\ UNCHANGED <<disk, power, driver, lost>>

(* An image goes to an empty disk of its server, and is gone. *)
Place(v, k, s) ==
  /\ v \notin lost /\ k \in left[v] /\ s \in Slot[v]
  /\ disk[v][s] = Nothing /\ power[v] # "on"
  /\ disk' = [disk EXCEPT ![v][s] = Holds(list[v][k], "fresh")]
  /\ left' = [left EXCEPT ![v] = @ \ {k}]
  /\ UNCHANGED <<list, power, driver, lost>>

(* Only a server whose primary disk is in place gets its driver. *)
SetDriver(v) ==
  /\ v \in Windows /\ disk[v][0] # Nothing
  /\ driver' = [driver EXCEPT ![v] = "sata"]
  /\ UNCHANGED <<list, left, disk, power, lost>>

(* A server is stopped, or resists. *)
Stop(v) ==
  /\ power' = [power EXCEPT ![v] = "off"]
  /\ UNCHANGED <<list, left, disk, driver, lost>>

Resist(v) ==
  /\ power[v] = "on"
  /\ power' = [power EXCEPT ![v] = "unknown"]
  /\ UNCHANGED <<list, left, disk, driver, lost>>

(* It starts, which may not be noticed, and uses its disks. *)
Start(v) ==
  /\ power[v] = "off"
  /\ \E p \in {"on", "unknown"} : power' = [power EXCEPT ![v] = p]
  /\ disk' = [disk EXCEPT ![v] = [s \in Slot[v] |->
       IF @[s].state = "fresh" THEN Holds(@[s].src, "used") ELSE @[s]]]
  /\ UNCHANGED <<list, left, driver, lost>>

Forget(v) ==
  /\ lost' = lost \cup {v}
  /\ list' = [list EXCEPT ![v] = <<>>] /\ left' = [left EXCEPT ![v] = {}]
  /\ disk' = [disk EXCEPT ![v] = [s \in Slot[v] |-> Unknown]]
  /\ UNCHANGED <<power, driver>>

Next ==
  \E v \in VS :
    \/ Convert(v)
    \/ \E k \in left[v], s \in Slot[v] : Place(v, k, s)
    \/ SetDriver(v)
    \/ Stop(v) \/ Resist(v) \/ Start(v)
    \/ Forget(v)

Spec == Init /\ [][Next]_vars
=============================================================================
