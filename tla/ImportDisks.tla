---------------------------- MODULE ImportDisks ----------------------------
(***************************************************************************)
(* The run mode -import-disks: the branch of main.go that selects virtual  *)
(* servers of the plan, and disks.go importDisks, which converts each one  *)
(* with virt-v2v and moves the images over the disks SolusVM 2 made.       *)
(*                                                                         *)
(* What survives a run is on the compute resource: the domain XML and the  *)
(* images virt-v2v leaves in the destination directory of a virtual        *)
(* server, what its disks hold, its power state, and the disk driver set   *)
(* for it.  Slot 0 of a virtual server is its primary disk and slot i the  *)
(* i-th of AdditionalDisks in the plan.                                    *)
(***************************************************************************)
EXTENDS Naturals, Sequences, SequencesExt

CONSTANTS
  N,                \* number of virtual servers in the import plan
  Additional,       \* Additional[v]: number of additional disks in the plan
  Destined,         \* Destined[v]: slots with a destination path in the plan
  Windows,          \* the virtual servers whose guest_os contains "windows"
  Domains,          \* Domains[v]: disk lists virt-v2v may write for v, each a
                    \* sequence of the slots the disks are the sources of
  Dirs,             \* the values of -vm-dir that an operator may give
  NoDir,            \* -vm-dir not given
  StatTimeouts,     \* may os.Stat take longer than IsExists waits?
  BreaksAt,         \* the steps at which a run may fail or crash
  MaxDisturbances   \* bound: failing steps, crashes, stat timeouts and boots

VS == 1..N
Slots(v) == 0..Additional[v]

(* -vm-dir names virtual server dir.vs, by its path ("full") as origin_dir *)
(* holds it or by the name under storage-path ("bare").                    *)
Dir == [form: {"full", "bare"}, vs: VS]

(* Slots beyond the plan's are disks that only the domain XML has.         *)
Source == Nat
State == {"blank", "fresh", "used", "partial"}
Content == [src: Source, state: State]
Blank == [src |-> 0, state |-> "blank"]

Steps == {"next", "convert", "destroy", "primary", "driver", "count", "extra"}
Moving == {"driver", "count", "extra"}    \* the steps after the first rename

ASSUME ConstantsAssumption ==
  /\ N \in Nat
  /\ Additional \in [VS -> Nat]
  /\ Destined \in [VS -> SUBSET Nat]
  /\ Windows \subseteq VS
  /\ Domains \in [VS -> SUBSET Seq(Source)]
  /\ Dirs \subseteq Dir
  /\ NoDir \notin Dir
  /\ StatTimeouts \in BOOLEAN
  /\ BreaksAt \subseteq Steps
  /\ MaxDisturbances \in Nat

VARIABLES
  domain,       \* domain[v]: the disk list virt-v2v writes for v
  xml,          \* xml[v]: is v's domain XML in its destination directory?
  out,          \* out[v][k]: is disk k of domain[v] at its path in the XML:
                \* "none", "partial" or "image"
  disk,         \* disk[v][s]: what is at the destination path of slot s
  power,        \* power[v]: "on" or "off"
  driver,       \* driver[v]: disk driver in the settings of the server
  pc,           \* where the run is; "idle" between runs
  dir,          \* the value of -vm-dir
  todo,         \* the virtual servers that the run has still to do
  i,            \* the additional disk it is at
  exit,         \* how the last run ended
  misled,       \* history: whose domain XML a run took for missing
  unstopped,    \* history: which servers a run went on with though they ran:
                \* virsh failed to stop them, or they were started again
  halfway,      \* history: which servers a run left after it moved a disk
  disturbances

hostVars == <<xml, out, disk, power, driver>>
history == <<misled, unstopped, halfway>>
vars == <<domain, hostVars, pc, dir, todo, i, exit, history, disturbances>>

cur == Head(todo)

Init ==
  /\ domain \in {f \in [VS -> UNION {Domains[v] : v \in VS}] :
                   \A v \in VS : f[v] \in Domains[v]}
  /\ xml = [v \in VS |-> FALSE]
  /\ out = [v \in VS |-> [k \in DOMAIN domain[v] |-> "none"]]
  /\ disk = [v \in VS |-> [s \in Slots(v) |-> Blank]]
  /\ power = [v \in VS |-> "on"]
  /\ driver = [v \in VS |-> "default"]
  /\ pc = "idle" /\ dir = NoDir /\ todo = <<>> /\ i = 1
  /\ exit = "none" /\ misled = {} /\ unstopped = {} /\ halfway = {}
  /\ disturbances = 0

Disturb == /\ disturbances < MaxDisturbances
           /\ disturbances' = disturbances + 1

(* Mutant: -vm-dir is ignored. *)
SelectedAll(d) == [n \in VS |-> n]

(* main.go, with settings and a plan that load and a source IP given: the  *)
(* virtual server whose origin_dir equals -vm-dir, and the whole plan when *)
(* there is none.                                                          *)
Selected(d) ==
  IF d \in Dir /\ d.form = "full" THEN <<d.vs>> ELSE [n \in VS |-> n]

Begin(d) ==
  /\ pc = "idle"
  /\ dir' = d
  /\ todo' = Selected(d)
  /\ pc' = "next"
  /\ exit' = "none"
  /\ UNCHANGED <<domain, hostVars, i, history, disturbances>>

(* IsExists(importedXMLPath) is FALSE too when os.Stat does not answer in  *)
(* its five seconds.                                                       *)
CheckXML ==
  /\ pc = "next" /\ todo # <<>>
  /\ \/ /\ pc' = IF xml[cur] THEN "destroy" ELSE "convert"
        /\ UNCHANGED <<history, disturbances>>
     \/ /\ StatTimeouts /\ xml[cur]
        /\ pc' = "convert"
        /\ misled' = misled \cup {cur} /\ UNCHANGED <<unstopped, halfway>>
        /\ Disturb
  /\ UNCHANGED <<domain, hostVars, dir, todo, i, exit>>

(* virt-v2v writes the images and, last, the domain XML. *)
Convert ==
  /\ pc = "convert"
  /\ out' = [out EXCEPT ![cur] = [k \in DOMAIN domain[cur] |-> "image"]]
  /\ xml' = [xml EXCEPT ![cur] = TRUE]
  /\ pc' = "destroy"
  /\ UNCHANGED <<domain, disk, power, driver, dir, todo, i, exit, history, disturbances>>

(* Mutant: the server is not powered off. *)
DestroySkipped ==
  /\ pc = "destroy"
  /\ pc' = "primary"
  /\ UNCHANGED <<domain, hostVars, dir, todo, i, exit, history, disturbances>>

(* virsh destroy; it fails when the server is off, and may fail when it is *)
(* on.  Any error of it is ignored.                                        *)
Destroy ==
  /\ pc = "destroy"
  /\ \/ /\ power' = [power EXCEPT ![cur] = "off"]
        /\ unstopped' = unstopped \ {cur}
        /\ UNCHANGED disturbances
     \/ /\ pc \in BreaksAt /\ power[cur] = "on"
        /\ unstopped' = unstopped \cup {cur}
        /\ UNCHANGED power /\ Disturb
  /\ pc' = "primary"
  /\ UNCHANGED <<domain, xml, out, disk, driver, dir, todo, i, exit, misled, halfway>>

(* getDisks finds a disk k in the XML, and os.Rename the image at its path *)
(* and a destination to move it to.                                        *)
CanMove(k, s) ==
  /\ xml[cur] /\ k \in DOMAIN domain[cur] /\ out[cur][k] # "none"
  /\ s \in Destined[cur]

(* Mutant: the image is copied, not renamed. *)
Copy(k, s) ==
  /\ disk' = [disk EXCEPT ![cur][s] =
        [src |-> domain[cur][k],
         state |-> IF out[cur][k] = "image" THEN "fresh" ELSE "partial"]]
  /\ UNCHANGED out

Move(k, s) ==
  /\ disk' = [disk EXCEPT ![cur][s] =
        [src |-> domain[cur][k],
         state |-> IF out[cur][k] = "image" THEN "fresh" ELSE "partial"]]
  /\ out' = [out EXCEPT ![cur][k] = "none"]

(* Mutant: an image that cannot be renamed is passed over. *)
MovePrimaryIfThere ==
  /\ pc = "primary" /\ xml[cur] /\ 1 \in DOMAIN domain[cur]
  /\ IF out[cur][1] # "none" THEN Move(1, 0) ELSE UNCHANGED <<out, disk>>
  /\ pc' = IF cur \in Windows THEN "driver" ELSE "count"
  /\ UNCHANGED <<domain, xml, power, driver, dir, todo, i, exit, history, disturbances>>

(* Mutant: the driver is never set. *)
MovePrimaryOnly ==
  /\ pc = "primary"
  /\ CanMove(1, 0) /\ Move(1, 0)
  /\ pc' = "count"
  /\ UNCHANGED <<domain, xml, power, driver, dir, todo, i, exit, history, disturbances>>

(* getDisks lists the disks of the XML; the first one is taken as primary. *)
MovePrimary ==
  /\ pc = "primary"
  /\ CanMove(1, 0) /\ Move(1, 0)
  /\ pc' = IF cur \in Windows THEN "driver" ELSE "count"
  /\ UNCHANGED <<domain, xml, power, driver, dir, todo, i, exit, history, disturbances>>

UpdateDriver ==
  /\ pc = "driver"
  /\ driver' = [driver EXCEPT ![cur] = "sata"]
  /\ pc' = "count"
  /\ UNCHANGED <<domain, xml, out, disk, power, dir, todo, i, exit, history, disturbances>>

(* The disks after the first are the additional ones, in the plan's order. *)
CountAdditional ==
  /\ pc = "count"
  /\ Additional[cur] > 0 => Len(domain[cur]) - 1 = Additional[cur]
  /\ pc' = "extra" /\ i' = 1
  /\ UNCHANGED <<domain, hostVars, dir, todo, exit, history, disturbances>>

(* Mutant: the last additional disk goes first. *)
MoveReversed ==
  /\ pc = "extra" /\ i <= Additional[cur]
  /\ CanMove(i + 1, i) /\ Move(i + 1, Additional[cur] + 1 - i)
  /\ i' = i + 1
  /\ UNCHANGED <<domain, xml, power, driver, pc, dir, todo, exit, history, disturbances>>

MoveAdditional ==
  /\ pc = "extra" /\ i <= Additional[cur]
  /\ CanMove(i + 1, i) /\ Move(i + 1, i)
  /\ i' = i + 1
  /\ UNCHANGED <<domain, xml, power, driver, pc, dir, todo, exit, history, disturbances>>

(* Mutant: the next server's XML is not looked for. *)
NextServerUnchecked ==
  /\ pc = "extra" /\ i > Additional[cur]
  /\ todo' = Tail(todo)
  /\ pc' = "convert"
  /\ UNCHANGED <<domain, hostVars, dir, i, exit, history, disturbances>>

NextServer ==
  /\ pc = "extra" /\ i > Additional[cur]
  /\ todo' = Tail(todo)
  /\ pc' = "next"
  /\ UNCHANGED <<domain, hostVars, dir, i, exit, history, disturbances>>

Finish ==
  /\ pc = "next" /\ todo = <<>>
  /\ pc' = "idle"
  /\ exit' = "ok"
  /\ UNCHANGED <<domain, hostVars, dir, todo, i, history, disturbances>>

(* The error returns that the state of the host makes inevitable. *)
CannotGoOn ==
  \/ pc = "primary" /\ ~CanMove(1, 0)
  \/ pc = "count" /\ Additional[cur] > 0 /\ Len(domain[cur]) - 1 # Additional[cur]
  \/ pc = "extra" /\ i <= Additional[cur] /\ ~CanMove(i + 1, i)

(* A run that ends after its first rename leaves the server half done.     *)
Leave ==
  /\ halfway' = IF pc \in Moving THEN halfway \cup {cur} ELSE halfway
  /\ UNCHANGED <<misled, unstopped>>

GiveUp ==
  /\ CannotGoOn
  /\ pc' = "idle"
  /\ exit' = "error"
  /\ Leave
  /\ UNCHANGED <<domain, hostVars, dir, todo, i, disturbances>>

(* Mutant: the XML is there before the conversion is complete. *)
BreakWithXML ==
  /\ pc = "convert" /\ pc \in BreaksAt
  /\ Disturb
  /\ pc' = "idle"
  /\ exit' = "error"
  /\ xml' = [xml EXCEPT ![cur] = TRUE]
  /\ \E left \in [DOMAIN domain[cur] -> {"none", "partial", "image"}] :
       out' = [out EXCEPT ![cur] = left]
  /\ UNCHANGED <<domain, disk, power, driver, dir, todo, i, history>>

(* A step fails, or the tool crashes at it.  A conversion that fails       *)
(* leaves any part of its images behind, and no XML of its own; the API    *)
(* may have changed the driver though the call failed.                     *)
Break ==
  /\ pc \in BreaksAt
  /\ Disturb
  /\ pc' = "idle"
  /\ exit' = "error"
  /\ \/ pc = "convert" /\ UNCHANGED driver
        /\ \E left \in [DOMAIN domain[cur] -> {"none", "partial", "image"}] :
             out' = [out EXCEPT ![cur] = left]
     \/ pc = "driver" /\ UNCHANGED out
        /\ driver' = [driver EXCEPT ![cur] = "sata"]
     \/ UNCHANGED <<out, driver>>
  /\ Leave
  /\ UNCHANGED <<domain, xml, disk, power, dir, todo, i>>

(* SolusVM 2 or the operator starts a server: between runs, in a run that  *)
(* is at another one, or in the one that has just stopped it.  From then   *)
(* on its disks hold data that is nowhere else.                            *)
Boot(v) ==
  /\ power[v] = "off"
  /\ Disturb
  /\ power' = [power EXCEPT ![v] = "on"]
  /\ unstopped' = IF pc \in {"primary"} \cup Moving /\ v = cur
                  THEN unstopped \cup {v} ELSE unstopped
  /\ disk' = [disk EXCEPT ![v] =
        [s \in Slots(v) |-> IF @[s].state = "fresh" THEN [@[s] EXCEPT !.state = "used"]
                                                    ELSE @[s]]]
  /\ UNCHANGED <<domain, xml, out, driver, pc, dir, todo, i, exit, misled, halfway>>

Tool ==
  \/ CheckXML \/ Convert \/ Destroy \/ MovePrimary \/ UpdateDriver
  \/ CountAdditional \/ MoveAdditional \/ NextServer \/ Finish \/ GiveUp

Next ==
  \/ \E d \in Dirs \cup {NoDir} : Begin(d)
  \/ Tool
  \/ Break
  \/ \E v \in VS : Boot(v)

Spec == Init /\ [][Next]_vars
-----------------------------------------------------------------------------
Imported(v) ==
  /\ \A s \in Slots(v) : disk[v][s].state \in {"fresh", "used"}
  /\ v \in Windows => driver[v] = "sata"

AllImported == \A v \in VS : Imported(v)

(* The operator imports the whole plan until a run succeeds.               *)
FairWholePlan ==
  Spec /\ WF_vars(Tool) /\ WF_vars(exit # "ok" /\ Begin(NoDir))

TypeOK ==
  /\ \A v \in VS : domain[v] \in Domains[v]
  /\ xml \in [VS -> BOOLEAN]
  /\ \A v \in VS : /\ out[v] \in [DOMAIN domain[v] -> {"none", "partial", "image"}]
                   /\ disk[v] \in [Slots(v) -> Content]
  /\ power \in [VS -> {"on", "off"}]
  /\ driver \in [VS -> {"default", "sata"}]
  /\ pc \in Steps \cup {"idle"}
  /\ dir \in Dirs \cup {NoDir}
  /\ todo \in Seq(VS)
  /\ pc \notin {"idle", "next"} => todo # <<>>
  /\ i \in Nat
  /\ exit \in {"none", "ok", "error"}
  /\ misled \subseteq VS /\ unstopped \subseteq VS /\ halfway \subseteq VS
  /\ disturbances \in 0..MaxDisturbances

(* A destination holds the image of the disk that the domain XML lists at  *)
(* its number, whatever order virt-v2v lists them in and however often the *)
(* import of the server was broken off and taken up again.                 *)
PlacedByPosition ==
  \A v \in VS : \A s \in Slots(v) : disk[v][s].state # "blank" =>
    s + 1 \in DOMAIN domain[v] /\ disk[v][s].src = domain[v][s + 1]

(* Each destination of the plan gets the image of its own source disk, not *)
(* that of another disk of the virtual server (main.go:46).                *)
PlacedByPlan ==
  \A v \in VS : \A s \in Slots(v) : disk[v][s].state # "blank" => disk[v][s].src = s

(* The domain XML is there only when virt-v2v got to its end, so an image  *)
(* a failed conversion left is never moved over a disk, however many runs  *)
(* break off before.  A conversion that is repeated because the XML was     *)
(* taken for missing loses that protection: it may fail beside the old XML.*)
OnlyCompleteImages ==
  \A v \in VS \ misled : \A s \in Slots(v) : disk[v][s].state # "partial"

(* A run that ended well has placed every disk that the plan gives of each *)
(* virtual server it was to import, and set the driver for Windows.        *)
OkMeansImported ==
  pc = "idle" /\ exit = "ok" =>
    \A v \in ToSet(Selected(dir)) :
      /\ \A s \in Slots(v) : disk[v][s].state # "blank"
      /\ v \in Windows => driver[v] = "sata"

(* A run that moves an image over a disk, not a server that uses it.       *)
Replaced(v) ==
  \E s \in Slots(v) : /\ disk'[v][s] # disk[v][s]
                      /\ disk'[v][s].state \in {"fresh", "partial"}

(* A disk is replaced only while its server is off, on reruns too, after   *)
(* which SolusVM 2 or the operator may have started it again; unless virsh *)
(* failed to stop it, or it was started between virsh and the rename,      *)
(* neither of which the run notices (disks.go:47-102).                     *)
NoMoveUnderRunningServer ==
  [][\A v \in VS \ unstopped : Replaced(v) => power[v] = "off"]_vars

(* Disks that an imported server has been running on are not replaced by   *)
(* later runs, though they process the server again: the images are gone   *)
(* from where the XML says they are, unless one repeats the conversion.    *)
ImportedDisksKept ==
  [][\A v \in VS \ misled : \A s \in Slots(v) :
       disk[v][s].state = "used" => disk'[v][s] = disk[v][s]]_vars

(* A server that a run left half done, its primary disk replaced, gets no  *)
(* further: every later run ends at the rename that is done already        *)
(* (disks.go:57), unless one repeats the conversion.                       *)
HalfwayGetsNoFurther ==
  [][\A v \in halfway \ misled :
       ~Replaced(v) /\ out'[v] = out[v] /\ driver'[v] = driver[v]]_vars

(* The step is none of a run on v; somebody may start v meanwhile.         *)
Untouched(v) ==
  /\ xml'[v] = xml[v] /\ out'[v] = out[v] /\ driver'[v] = driver[v]
  /\ ~Replaced(v)
  /\ power'[v] = "off" => power[v] = "off"

(* With -vm-dir as origin_dir has it, nothing is done to other servers.    *)
OnlyOriginDir ==
  [][\A v \in VS :
       dir # NoDir /\ dir.form = "full" /\ dir.vs # v /\ pc # "idle" => Untouched(v)]_vars

(* With -vm-dir, nothing is done to other virtual servers (main.go:34).    *)
OnlyVMDir ==
  [][\A v \in VS :
       dir # NoDir /\ dir.vs # v /\ pc # "idle" => Untouched(v)]_vars

(* What has become of a server, the runs put aside: its images and disks,  *)
(* unless its domain XML was taken for missing, and its power as far as    *)
(* virsh told it.                                                          *)
Converted(v) == IF v \in misled \/ ~xml[v] THEN <<>> ELSE domain[v]
ToPlace(v)   == {k \in DOMAIN Converted(v) : out[v][k] # "none"}
Known(v)     == IF v \in misled THEN [s \in Slots(v) |-> [src |-> 0, state |-> "unknown"]]
                                ELSE disk[v]

Takeover == INSTANCE DiskTakeover WITH
  Slot <- [v \in VS |-> Slots(v)],
  Lists <- Domains,
  list <- [v \in VS |-> Converted(v)],
  left <- [v \in VS |-> ToPlace(v)],
  disk <- [v \in VS |-> Known(v)],
  power <- [v \in VS |-> IF v \in unstopped THEN "unknown" ELSE power[v]],
  lost <- misled

(* All runs together, with those that fail, break off and start over, take *)
(* each server over as DiskTakeover says: whole images, each moved once to *)
(* an empty disk of a server that is off, and then the server's own.       *)
TakeoverSpec == Takeover!Spec

(* Once steps stop failing, the reruns get everything imported.            *)
RerunsComplete == <>[]AllImported
=============================================================================
