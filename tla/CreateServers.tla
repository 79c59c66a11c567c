--------------------------- MODULE CreateServers ---------------------------
(***************************************************************************)
(* The run mode -create-virtual-servers-by-import-plan: solus.go           *)
(* createVirtualServers with the plan file it reads and rewrites (plan.go) *)
(* and the SolusVM API it calls.                                           *)
(*                                                                         *)
(* The tool is one process that an operator starts, and that a failed call *)
(* or a crash stops, any number of times.  What survives a run is the plan *)
(* file and the servers that the API holds.  The virtual servers of the    *)
(* plan are numbered by their place in it.  A create request is named by   *)
(* its number, and so is the server the API makes of it: VirtualServerID   *)
(* and VirtualServerUUID are both that number, 0 when the plan names none. *)
(***************************************************************************)
EXTENDS Naturals, Sequences

CONSTANTS
  N,                \* number of virtual servers in the import plan
  Disk,             \* names of additional disks
  Primary,          \* name standing for the primary disk of a server
  Extra,            \* Extra[v]: the additional disks of virtual server v
  Guest,            \* Guest[v]: its guest_os
  OwnCR,            \* OwnCR[v]: its compute_resource_id, 0 when not set
  Size,             \* Size[v][d]: size of its additional disk d in GiB
  Settings,         \* the contents settings.json may have when a run starts
  Truncated,        \* content of a plan file that holds no complete plan
  PartialListing,   \* may the API leave disks out when it lists a server's?
  MaxDisturbances   \* bound: failures, crashes and starts from scratch

VS == 1..N
DiskName == Disk \cup {Primary}

(* A path is the server that owns the disk and the disk's name. *)
Path   == Nat \X DiskName
NoPath == <<0, Primary>>

(* The fields of VirtualServer and Disk that a run reads or writes.  dest  *)
(* and offer are of interest for the disks in Extra[v] only.               *)
Entry == [id: Nat, primary: Path, dest: [Disk -> Path], offer: [Disk -> Nat]]
Plan  == [VS -> Entry]

(* The plan that createImportPlan makes: no server, no destination and no  *)
(* disk offer in it.                                                       *)
FreshPlan ==
  [v \in VS |-> [id |-> 0, primary |-> NoPath,
                 dest |-> [d \in Disk |-> NoPath], offer |-> [d \in Disk |-> 0]]]

(* image: guest_os_to_os_image_version_id, 0 for a guest OS that it leaves  *)
(* out or maps to 0; Validate refuses both.                                *)
GuestOS == {Guest[v] : v \in VS}
Defaults == [image: [GuestOS -> Nat],
             user: Nat, project: Nat, cr: Nat, location: Nat, offer: Nat]
ImportSettings == [url: {"", "example", "real"}, token: {"", "token"},
                   defaults: Defaults]

ASSUME ConstantsAssumption ==
  /\ N \in Nat
  /\ Primary \notin Disk
  /\ Extra \in [VS -> SUBSET Disk]
  /\ OwnCR \in [VS -> Nat]
  /\ Size \in [VS -> [Disk -> Nat]]
  /\ Settings \subseteq ImportSettings
  /\ Truncated \notin Plan
  /\ PartialListing \in BOOLEAN
  /\ MaxDisturbances \in Nat

VARIABLES
  file,         \* content of the plan file
  mem,          \* plan: the plan of the running tool
  settings,     \* the settings of the running tool
  recreate,     \* the flag -recreate-virtual-servers of the run
  pc,           \* where the run is; "idle" between runs
  cur,          \* i: the virtual server the loop is at
  request,      \* data: the last create request sent, NoRequest before the first
  origin,       \* origin[a]: the virtual server that request a was sent for
  inflight,     \* requests sent that the API has not carried out
  servers,      \* the servers the API holds
  exit,         \* how the last run ended
  interrupted,  \* history: requests in progress when their run broke off
  replanned,    \* history: did a plan run start after the first plan was made?
  disturbances  \* counts the disturbances, up to MaxDisturbances

runVars == <<mem, settings, recreate, cur, request>>
apiVars == <<origin, inflight, servers>>
history == <<interrupted, replanned>>
vars == <<file, runVars, pc, apiVars, exit, history, disturbances>>

(* The request the run is working on is the last one sent. *)
attempt == Len(origin)

PC == {"idle", "loop", "creating", "listing", "save", "encode",
       "planSave", "planEncode"}

(* The run has sent a create request whose server it has not recorded. *)
Working == pc \in {"creating", "listing", "save", "encode"}
-----------------------------------------------------------------------------
(* Mutant: a guest OS that is mapped to no image passes. *)
ValidServerAnyImage(s, p, v) ==
  /\ OwnCR[v] # 0 \/ s.cr # 0
  /\ \A d \in Extra[v] : (p[v].offer[d] # 0 \/ s.offer # 0) /\ Size[v][d] # 0

(* plan.go Validate.  Every failed check has the same effect, the run      *)
(* stops, so the order of the checks is left out.                          *)
ValidServer(s, p, v) ==
  /\ s.image[Guest[v]] # 0
  /\ OwnCR[v] # 0 \/ s.cr # 0
  /\ \A d \in Extra[v] : (p[v].offer[d] # 0 \/ s.offer # 0) /\ Size[v][d] # 0

Validate(s, p) ==
  /\ s.url \notin {"", "example"} /\ s.token # ""
  /\ \A v \in VS : ValidServer(s.defaults, p, v)
  /\ 0 \notin {s.defaults.user, s.defaults.project, s.defaults.cr, s.defaults.location}

(* The disk offers of virtual server v once the default is filled in.      *)
FilledOffers(p, v) ==
  [d \in Disk |-> IF d \in Extra[v] /\ p[v].offer[d] = 0
                    THEN settings.defaults.offer ELSE p[v].offer[d]]

(* VirtualServerCreateRequest, the fields whose value settings or plan must *)
(* provide.  user_id of the settings is not among them.                    *)
CreateRequest(v, offers) ==
  [project  |-> settings.defaults.project,
   location |-> settings.defaults.location,
   cr       |-> IF OwnCR[v] # 0 THEN OwnCR[v] ELSE settings.defaults.cr,
   image    |-> settings.defaults.image[Guest[v]],
   disks    |-> {<<offers[d], Size[v][d]>> : d \in Extra[v]}]

NoRequest == [project |-> 0, location |-> 0, cr |-> 0, image |-> 0, disks |-> {}]

(* The answers of VirtualServers.Disks: names of disks of the server. *)
Listings(v) ==
  IF PartialListing THEN SUBSET (Extra[v] \cup {Primary})
                    ELSE {Extra[v] \cup {Primary}}
-----------------------------------------------------------------------------
Init ==
  /\ file = FreshPlan
  /\ mem = FreshPlan
  /\ settings \in Settings
  /\ recreate = FALSE
  /\ pc = "idle"
  /\ cur = 1
  /\ request = NoRequest
  /\ origin = <<>>
  /\ inflight = {} /\ servers = {}
  /\ exit = "none"
  /\ interrupted = {} /\ replanned = FALSE
  /\ disturbances = 0

Disturb == /\ disturbances < MaxDisturbances
           /\ disturbances' = disturbances + 1

(* The run ends before its loop does: log.Fatalf on an error, or a crash.  *)
BreakOff(how) ==
  /\ pc' = "idle"
  /\ exit' = how
  /\ interrupted' = IF Working THEN interrupted \cup {attempt} ELSE interrupted
  /\ UNCHANGED <<file, runVars, apiVars, replanned>>

(* loadImportPlan decodes the file, and the plan passes Validate. *)
CanRun(s) == file # Truncated /\ Validate(s, file)

(* createVirtualServers up to its loop: load the plan and validate it.     *)
(* -recreate-virtual-servers makes new servers for the whole plan, which   *)
(* counts as a disturbance.                                                *)
Begin(s, flag) ==
  /\ pc = "idle"
  /\ CanRun(s)
  /\ mem' = file /\ settings' = s /\ recreate' = flag /\ cur' = 1
  /\ pc' = "loop"
  /\ exit' = "none"
  /\ IF flag THEN Disturb ELSE UNCHANGED disturbances
  /\ UNCHANGED <<file, request, apiVars, history>>

BeginRefused(s) ==
  /\ pc = "idle"
  /\ ~CanRun(s)
  /\ exit' = "error"
  /\ UNCHANGED <<file, runVars, pc, apiVars, history, disturbances>>

(* main.go: loadSettings finds no settings in the settings file. *)
LoadSettingsFails ==
  /\ pc = "idle"
  /\ exit' = "error"
  /\ UNCHANGED <<file, runVars, pc, apiVars, history, disturbances>>

Skip ==
  /\ pc = "loop" /\ cur <= N
  /\ mem[cur].id # 0 /\ ~recreate
  /\ cur' = cur + 1
  /\ UNCHANGED <<file, mem, settings, recreate, pc, request, apiVars, exit,
                 history, disturbances>>

(* Mutant: servers that exist are created again. *)
SendCreateAlways ==
  /\ pc = "loop" /\ cur <= N
  /\ LET offers == FilledOffers(mem, cur)
     IN  /\ mem' = [mem EXCEPT ![cur].offer = offers]
         /\ request' = CreateRequest(cur, offers)
  /\ origin' = Append(origin, cur)
  /\ inflight' = inflight \cup {attempt + 1}
  /\ pc' = "creating"
  /\ UNCHANGED <<file, settings, recreate, cur, servers, exit, history, disturbances>>

(* The offers are filled in through the slice that the loop variable and   *)
(* the plan share, so they end up in the plan.                             *)
SendCreate ==
  /\ pc = "loop" /\ cur <= N
  /\ mem[cur].id = 0 \/ recreate
  /\ LET offers == FilledOffers(mem, cur)
     IN  /\ mem' = [mem EXCEPT ![cur].offer = offers]
         /\ request' = CreateRequest(cur, offers)
  /\ origin' = Append(origin, cur)
  /\ inflight' = inflight \cup {attempt + 1}
  /\ pc' = "creating"
  /\ UNCHANGED <<file, settings, recreate, cur, servers, exit, history, disturbances>>

(* The API carries out a request, which may be one its sender gave up on.  *)
ApiCreate(a) ==
  /\ a \in inflight
  /\ inflight' = inflight \ {a}
  /\ servers' = servers \cup {a}
  /\ UNCHANGED <<file, runVars, pc, origin, exit, history, disturbances>>

(* Mutant: a request that timed out is taken for answered. *)
CreateUnanswered ==
  /\ pc = "creating"
  /\ pc' = "listing"
  /\ UNCHANGED <<file, runVars, apiVars, exit, history, disturbances>>

CreateAnswered ==
  /\ pc = "creating" /\ attempt \in servers
  /\ pc' = "listing"
  /\ UNCHANGED <<file, runVars, apiVars, exit, history, disturbances>>

(* The 35 seconds ran out or the API answered with an error; either way    *)
(* the API may have made the server, or may still make it.                 *)
CreateFails ==
  /\ pc = "creating"
  /\ Disturb /\ BreakOff("error")

(* Mutant: destinations are filled in once and never replaced. *)
WithServerOnce(p, v, a, listed) ==
  [p EXCEPT ![v] =
     [id      |-> a,
      primary |-> IF Primary \in listed /\ p[v].primary = NoPath
                    THEN <<a, Primary>> ELSE p[v].primary,
      dest    |-> [d \in Disk |->
        IF d \in Extra[v] \cap listed THEN <<a, d>> ELSE p[v].dest[d]],
      offer   |-> p[v].offer]]

(* Plan p with server a for virtual server v, and the paths of the disks   *)
(* listed, the additional ones by name.                                    *)
WithServer(p, v, a, listed) ==
  [p EXCEPT ![v] =
     [id      |-> a,
      primary |-> IF Primary \in listed THEN <<a, Primary>> ELSE p[v].primary,
      dest    |-> [d \in Disk |->
        IF d \in Extra[v] \cap listed THEN <<a, d>> ELSE p[v].dest[d]],
      offer   |-> p[v].offer]]

(* Mutant: the plan is not saved. *)
DisksListedUnsaved ==
  /\ pc = "listing"
  /\ \E listed \in Listings(cur) : mem' = WithServer(mem, cur, attempt, listed)
  /\ pc' = "loop" /\ cur' = cur + 1
  /\ UNCHANGED <<file, settings, recreate, request, apiVars, exit, history, disturbances>>

(* Only now does the plan in memory name the server. *)
DisksListed ==
  /\ pc = "listing"
  /\ \E listed \in Listings(cur) : mem' = WithServer(mem, cur, attempt, listed)
  /\ pc' = "save"
  /\ UNCHANGED <<file, settings, recreate, cur, request, apiVars, exit,
                 history, disturbances>>

ListingFails ==
  /\ pc = "listing"
  /\ Disturb /\ BreakOff("error")

(* saveImportPlan opens the file with O_TRUNC ... *)
SaveOpen ==
  /\ pc \in {"save", "planSave"}
  /\ file' = Truncated
  /\ pc' = IF pc = "save" THEN "encode" ELSE "planEncode"
  /\ UNCHANGED <<runVars, apiVars, exit, history, disturbances>>

(* Mutant: every save moves the loop on, that of a new plan too. *)
SaveEncodeMovesOn ==
  /\ pc \in {"encode", "planEncode"}
  /\ file' = mem
  /\ pc' = IF pc = "encode" THEN "loop" ELSE "idle"
  /\ cur' = cur + 1
  /\ UNCHANGED <<mem, settings, recreate, request, apiVars, exit, history, disturbances>>

(* ... and then encodes the plan into it. *)
SaveEncode ==
  /\ pc \in {"encode", "planEncode"}
  /\ file' = mem
  /\ IF pc = "encode" THEN pc' = "loop" /\ cur' = cur + 1
                      ELSE pc' = "idle" /\ cur' = cur
  /\ UNCHANGED <<mem, settings, recreate, request, apiVars, exit, history, disturbances>>

SaveFails ==
  /\ pc \in {"save", "encode", "planSave", "planEncode"}
  /\ Disturb /\ BreakOff("error")

Finish ==
  /\ pc = "loop" /\ cur > N
  /\ pc' = "idle"
  /\ exit' = "ok"
  /\ UNCHANGED <<file, runVars, apiVars, history, disturbances>>

(* A run of -create-import-plan writes a new plan over the file, whatever  *)
(* the file holds.  Once the plan is lost the operator has no other way.   *)
Replan ==
  /\ pc = "idle"
  /\ IF file = Truncated THEN UNCHANGED disturbances ELSE Disturb
  /\ mem' = FreshPlan
  /\ pc' = "planSave"
  /\ exit' = "none"
  /\ replanned' = TRUE
  /\ UNCHANGED <<file, settings, recreate, cur, request, apiVars, interrupted>>

Crash ==
  /\ pc # "idle"
  /\ Disturb /\ BreakOff("crash")

Tool == \/ Skip \/ SendCreate \/ CreateAnswered \/ DisksListed
        \/ SaveOpen \/ SaveEncode \/ Finish

Next ==
  \/ \E s \in Settings, flag \in BOOLEAN : Begin(s, flag)
  \/ (\E s \in Settings : BeginRefused(s)) \/ LoadSettingsFails
  \/ Tool
  \/ CreateFails \/ ListingFails \/ SaveFails \/ Crash
  \/ Replan
  \/ \E a \in inflight : ApiCreate(a)

Spec == Init /\ [][Next]_vars
-----------------------------------------------------------------------------
TypeOK ==
  /\ file \in Plan \cup {Truncated}
  /\ mem \in Plan
  /\ settings \in Settings
  /\ recreate \in BOOLEAN
  /\ pc \in PC
  /\ cur \in 1..(N + 1)
  /\ origin \in Seq(VS)
  /\ inflight \subseteq 1..attempt
  /\ servers \subseteq 1..attempt
  /\ exit \in {"none", "ok", "error", "crash"}
  /\ interrupted \subseteq 1..attempt
  /\ replanned \in BOOLEAN
  /\ disturbances \in 0..MaxDisturbances
  /\ request \in [project: Nat, location: Nat, cr: Nat, image: Nat,
                  disks: SUBSET (Nat \X Nat)]

(* Virtual server v of plan p has the paths of all disks of its server.    *)
Destinations(p, v) ==
  /\ p[v].primary = <<p[v].id, Primary>>
  /\ \A d \in Extra[v] : p[v].dest[d] = <<p[v].id, d>>

ServersMatch(p) ==
  \A v \in VS : p[v].id # 0 => /\ p[v].id \in servers
                               /\ origin[p[v].id] = v

(* A server that the plan file names for a virtual server exists, and was  *)
(* created for that virtual server and no other, whatever runs broke off   *)
(* and whichever of their requests the API carries out late.               *)
RecordedServersMatch == file # Truncated => ServersMatch(file)

(* The destinations in the plan file are those of the disks of the server  *)
(* it names, also after -recreate replaced the server: importDisks would   *)
(* move a disk into the wrong server's directory otherwise.                *)
RecordedDestinationsMatch ==
  file # Truncated /\ ~PartialListing =>
    \A v \in VS : file[v].id # 0 => Destinations(file, v)

(* Plan p names request a's server, or a later one for the same virtual    *)
(* server.                                                                 *)
NamedIn(p, a) == p[origin[a]].id >= a

(* The plan is saved after each server: unless the plan file itself is     *)
(* lost, a server missing from it is the one a run was working on when it  *)
(* broke off (or works on now).  A run that breaks off orphans at most one *)
(* server.                                                                 *)
OneOrphanPerInterruptedRun ==
  file # Truncated /\ ~replanned =>
    \A a \in servers :
      \/ NamedIn(file, a)
      \/ a \in interrupted
      \/ Working /\ a = attempt

(* A run that ended well left a plan importDisks can work from: a server   *)
(* for each entry, with the paths of all its disks (main.go:151).          *)
ReadyForImport ==
  pc = "idle" /\ exit = "ok" =>
    /\ file # Truncated
    /\ \A v \in VS : file[v].id # 0 /\ (~PartialListing => Destinations(file, v))

(* What Validate let pass makes complete requests, with the settings of    *)
(* this run and the offers and IDs of a plan that earlier runs rewrote:    *)
(* no ID the API needs is left 0.                                          *)
RequestsComplete ==
  request # NoRequest =>
    /\ 0 \notin {request.project, request.location, request.cr, request.image}
    /\ \A d \in request.disks : d[1] # 0 /\ d[2] # 0

(* Without -recreate no request is sent for a virtual server whose server  *)
(* the plan file names.                                                    *)
NoSecondServer ==
  [][origin' # origin /\ ~recreate => file # Truncated /\ file[cur].id = 0]_vars

(* The plan that a run leaves behind if nothing more goes wrong: while the *)
(* file is truncated, the one about to be encoded.                         *)
Named == IF pc \in {"encode", "planEncode"} THEN mem
         ELSE IF file = Truncated THEN FreshPlan ELSE file

Registry == INSTANCE ServerRegistry
              WITH recorded <- [v \in VS |-> Named[v].id]

(* Seen through the plan file, this is a ServerRegistry: opening the file  *)
(* to save records one server, encoding changes nothing, and a run that    *)
(* breaks off between the two loses the record.                            *)
RegistrySpec == Registry!Spec

(* If disturbances come to an end, rerunning the command gets every        *)
(* virtual server created and recorded: a rerun resumes where the one that *)
(* broke off stopped.                                                      *)
AllRecorded == file # Truncated /\ \A v \in VS : file[v].id # 0
RerunsComplete == <>[]AllRecorded
=============================================================================
