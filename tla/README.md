# TLA+ models of import-vmware

`import-vmware` moves virtual machines from a VMware ESXi host to SolusVM 2. An
operator starts it several times, each time in another mode:

1. `-create-import-plan` looks at the directories of a datastore and writes an
   import plan, a JSON file with one entry per virtual machine. With
   `-source-ip` the tool copies itself to the VMware host, makes the plan there
   and fetches it.
2. `-create-virtual-servers-by-import-plan` has the SolusVM 2 API create a
   virtual server for every entry, and writes the server's ID and the paths of
   its disks back into the plan.
3. `-import-disks`, on the compute resource, converts each virtual machine with
   virt-v2v and moves the images over the disks that SolusVM 2 made.
4. `-create-settings-file` writes an example of the settings.

Nothing but files and the remote systems connects these runs, and every run may
fail or crash in the middle and be started again. Most of what can go wrong is
there: what a run leaves behind, and what the next one makes of it.

## Inventory

| Component | State | Operations | Hard behaviour | What makes it correct |
|---|---|---|---|---|
| Creating virtual servers (`solus.go`) | plan in memory, loop index; servers in the API | load, validate, create, list disks, save, per entry | calls that time out but succeed later; a crash between the API call and the save; reruns; `-recreate` | recorded servers exist and belong to the entry; their destinations too; a broken run loses track of one server at most; reruns finish the work; requests are complete |
| Plan file (`plan.go`) | the JSON file | load, validate, truncate and encode | a crash between truncating and encoding | only whole plans are used |
| Disk import (`disks.go`) | domain XML and images of virt-v2v, contents of disks, power state, driver | convert, destroy, read XML, rename, update the driver | partial conversions, reruns, false negatives of `IsExists`, orders chosen by others | each disk gets the complete image that the domain XML has at its number, none is replaced once it is in use, and only the server asked for is touched |
| Modes (`main.go`) | flags | select directories or servers, call the rest | `-vm-dir` that matches nothing; one mode undoing what another left | only what was asked for is touched |
| Inspection (`vmx.go`) | plan under construction | walk directories, read the VMX file, classify disks, take sizes | devices in map order, stats that time out, snapshots | the plan covers the storage, holds each disk once, and no snapshot |
| VMX decoder (`govmx/decode.go`, `vmx.go`, `error.go`) | map of lines, structure, errors collected | load lines, decode by reflection | Go map order; malformed lines; memory of a failed device used again | structures hold what the file says, in every order; a file is refused for the right reasons |
| VMX encoder, device API (`govmx/encode.go`, `api.go`) | parent key, counters of adapters and devices | encode | numbering at a full adapter, maxima, texts written as they are | what fits into a line reads back; the program itself never encodes |
| Commands (`command/`, `goroutine/`) | child process, two pipes, two goroutines, a shared list | `Exec` | full pipes, long lines, unlocked append, kill by context | `Exec` returns, its outcome is the child's, its error quotes the output |
| File helpers (`common/`) | channels of one call | `IsExists`, `GetSize`, `Copy` | timeout against answer; goroutine left behind | an answer is that of its own call; no caller waits for ever |
| SSH and the agent (`ssh/`) | connection, agent binary, agents, remote and local plan | upload, run, download | lost connections, deadlines, agents that outlive their tool, several instances | the plan that arrives is whole and one's own; old plans are kept until then |
| Settings (`settings.go`) | the JSON file | load, save an example | a crash between truncating and encoding; a file not found in time, or put in place after it was looked for | runs go on with whatever file there is; edits can be lost |

`main.go` calls the modes. Creation reads and rewrites the plan that planning
made with the settings that the operator edited, and disk import reads what
creation left. Commands serve disk import.
The file helpers serve inspection and disk import.

## Modules

| Module | Models | State and actions |
|---|---|---|
| `ServerRegistry` | what creation promises: a record that names at most one server per entry, made for that entry, moves only to later servers, or is lost as a whole | `Ask`, `Make`, `Record`, `Lose` |
| `CreateServers` | `createVirtualServers`, `loadImportPlan`, `Validate`, `saveImportPlan` and the API | `file`: plan file, `mem`: `plan`, `cur`: `i`, `request`: `data`; one action per call, `Crash` between any two |
| `CreateServersProofs` | theorems about `CreateServers` | |
| `Workflow` | `-create-settings-file`, `settings.go`, the operator who edits the file and starts the runs; extends `CreateServers` | `sfile`: settings file; `SettingsOpen` and `SettingsEncode` are the two steps of saving it; `Edit` is the operator |
| `WorkflowProofs` | theorems about `Workflow` | |
| `ImportDisks` | the `-import-disks` branch of `main.go` and `importDisks` | per server `xml`, `out` (images of virt-v2v), `disk`, `power`, `driver`; one action per step of the loop |
| `DiskTakeover` | what importing the disks of a server promises: it is converted once, each image is put in one place on an empty disk while the server is not known to run, and from its start on its disks are its own; or what was done is forgotten | `Convert`, `Place`, `SetDriver`, `Stop`, `Resist`, `Start`, `Forget` |
| `ImportDisksProofs` | theorems about `ImportDisks`, and that it implements `DiskTakeover` | |
| `OsStat` | `osStatWithContext` | per call its goroutine (in `os.Stat`, or at one of its two sends); the deadline of the call that waits |
| `ImportStat` | `ImportDisks` with `OsStat` in the place where it looks for the domain XML | `CheckXML` becomes `AskForXML`, and then `XMLFound`, `XMLNotFound` or `XMLNotFoundInTime` |
| `ImportStatProofs` | that `ImportStat` implements `ImportDisks`, and that it may name calls by their servers | |
| `VMXDecoder` | `Unmarshal`, `govmx/decode.go`, and the choice of the MAC address in `vmx.go` | `vmx`: the map, `seen`: `seenIndexes`, `devs` and `leaves`: the structure, `slack`: memory behind a slice; one action per line and per device |
| `VMXCodec` | `Marshal`, `govmx/encode.go`, composed with `VMXDecoder` through the lines of the file | `adapters`, `devices`: the counters of `encodeArray`, `fields`: what is still to be written of a structure; one action per element and per field |
| `VMXCodecProofs` | theorems about `VMXCodec`, those about the decoder included | |
| `PlanCreation` | `createImportPlan`, `ParseVMWareVirtualServerPath`, `GetDisksFromVMX`, the decoder by its effect | one action per directory and per device, with each early return; `TimesOut` for `common.IsExists` and `GetSize` |
| `PlanCreationProofs` | theorems about `PlanCreation` | |
| `RemotePlan` | the `-source-ip` branch of `main.go`, `ssh/node.go`, `ssh/ssh.go` | several instances (`Tool`) against one host; the agent's file, agents, remote plans; copier goroutine, deadline goroutine and pipe of a download |
| `RemotePlanProofs` | theorems about `RemotePlan` | |
| `CommandExec` | `Exec` of `command/commander.go` | child, two pipes, two goroutines with `append` split in `Load` and `Store`, context |
| `CommandExecProofs` | theorems about `CommandExec` | |
| `MCWorkflow`, `MCImportDisks`, `MCImportStat`, `MCPlanCreation`, `MCCommandExec`, `MCVMXCodec` | instances for TLC | |

Operators named with "Mutant" in their comment are what a plausible bug would
make of the definition after them; nothing uses them. They were put in its
place, one at a time, to see that the properties notice.

Abstractions shared by the modules: a disk, a file or a path is a model value or
a small record, output is counted in units, lengths are halves of a GiB.
Messages, logging and JSON layout are left out. `disturbances` (`timeouts` in
`PlanCreation`) counts what goes wrong from outside; its bound is what keeps the
state space finite.

How the code corresponds in the places that are not obvious:

* A create request, and the server made of it, is named by its number. The API
  may carry out a request whose sender gave up (`ApiCreate` on any request in
  flight), since a timeout on the client cancels nothing on the server.
* Disk offers are filled in through a slice that the loop variable shares with
  the plan (`solus.go:45`), so `SendCreate` changes `mem`.
* `saveImportPlan` is two actions, `SaveOpen` (the file is truncated) and
  `SaveEncode`. So is `saveSettings`. The operator may put a settings file in place
  at any time (`Edit`), between `IsExists` (`main.go:50`) and the truncation
  (`settings.go:32`) too, and then loses it. What is written after that goes to the
  file that was truncated: it replaces nothing when an editor has put a new file
  in place of it.
* `Named` in `CreateServers` is the refinement mapping to `ServerRegistry`: while
  the file is truncated it stands for the plan about to be encoded, so that
  opening the file is the step that records, or loses, and encoding stutters.
* SolusVM 2 or the operator may start a server at any step of a run (`Boot`), also
  between `virsh destroy` (`disks.go:47`) and the renames (`57` and `102`), with an API
  call at `76` in between; and `virsh destroy` may fail while the server runs. The code
  notices neither, and the history variable `unstopped` marks the servers that a run
  went on with though they ran. `misled` marks the ones whose domain XML was
  taken for missing, and `halfway` those that a run left after its first rename.
* The refinement mapping from `ImportDisks` to `DiskTakeover` (`Converted`, `ToPlace`,
  `Known`) counts a conversion from the moment its domain XML is there, so what a
  broken conversion leaves behind is not seen at all. Taking the XML for missing is
  `Forget`: of that server's disks nothing is promised any more. A server that
  is in `unstopped` has the power "unknown".
* `Orders` in `PlanCreation` is the set of all device orders that ranging over a Go
  map can give within a bus; the order of the buses is fixed in `vmx.go:148-170`.
* The settings example comes before or after the plan: with a plan file that loads
  it maps its guest operating systems to 0, without one it maps nothing.
  `Validate` refuses both alike, so `Workflow` has one example. The operator may
  edit the file, start a run or start the mode again in any order.
* `IsExists` gives each call two channels of its own, so a goroutine that is left
  over can reach nobody; `OsStat` names calls by the file they ask for, which
  a process does once. In `ImportStat` the end of a run ends its goroutines.
* A number that is out of range does not leave its field alone: `strconv` returns the
  bound next to it with the error, and `reflectKind` sets that (`Nearest`).
* The encoder writes a text between quotes as it is (`encode.go:82`). A line break
  in it ends the line (`FirstPart`, `Rest`), and a long one fills a line that no
  Scanner takes (`Long`). The order in which the fields of one structure are
  written is left open.
* A VMX key in `VMXDecoder` is the name it begins with, the numbers that follow
  and the rest, as `decodeSlice` and `getVMXAttrIndex` take it apart. The key
  `usb.present` is a key of the bus `usb` without numbers, and so makes a
  USB device that is none. `DecodeDevice` takes any index not yet seen: that is
  what ranging over the map comes to. `PlanCreation` rests on what the module
  shows: a file decodes, in some order of devices, or fails as a whole.
* A child that SIGKILL ends is reported as a deadline that is over, whoever sent it
  (`commander.go:171`); any other signal gives the exit code -1, which a caller may
  have among the codes to ignore (`isValidExitCode`).
* In `CommandExec` the append without a lock is a read and a write; what an
  overlap does is undefined, so `garbled` becomes true or not.
* `RemotePlan` has no action that waits for a network that stands still:
  `Copy` and `Upload` are simply not fair.

## Runs

| Run | Instance | Shows |
|---|---|---|
| `create_servers` | `Workflow` with 2 entries, one with an additional disk and without a compute resource; 7 settings of which 6 lack something, two examples; 3 disturbances of the runs, edits of the settings at any time, 1 mishap with them (good ones edited, a crash, a slow stat) | `WorkflowTypeOK`, `RecordedServersMatch`, `RecordedDestinationsMatch`, `OneOrphanPerInterruptedRun`, `ReadyForImport`, `RequestsComplete`, `NoSecondServer`, the refinement `RegistrySpec`, `RerunsComplete` |
| `import_disks` | 2 servers, one Windows with two additional disks; virt-v2v lists fewer, as many or more disks, in the order of the plan or another; `-vm-dir` in both forms; any step fails; stats time out; servers are started at any time; 3 disturbances | `PlacedByPosition`, `OnlyCompleteImages`, `OkMeansImported`, `NoMoveUnderRunningServer`, `ImportedDisksKept`, `HalfwayGetsNoFurther`, `OnlyOriginDir`, the refinement `TakeoverSpec` of `DiskTakeover` |
| `import_disks_live` | `ImportStat` with the same servers, virt-v2v as the plan; the run breaks off at any step, a stat is too slow or a server is started, twice; servers are imported one by one | the refinement `ImportSpec` of `ImportDisks`; `RerunsCompleteTheRest`, and with it that no call of `IsExists` waits for ever |
| `import_disks_order` | virt-v2v lists additional disks in either order | `PlacedByPlan` fails |
| `import_disks_vm_dir` | `-vm-dir` with the bare name | `OnlyVMDir` fails |
| `import_disks_rerun` | reruns of the whole plan after a failed conversion | `RerunsComplete` fails |
| `plan_creation` | 2 entries, 324 storages: hidden, file or directory, marked or not; nine VMX contents with disks on every bus, CD-ROM, controller, snapshot, no primary disk, broken or missing file; 2 timeouts | `PlanCoversStorage`, `EachDiskOnce`, `NoSnapshotPlanned` |
| `plan_creation_dash` | a virtual machine called `web-01` | `AllPlanned` fails |
| `remote_plan` | 2 instances, 2 runs each, plans of 2 pieces, one disturbance, deadlines at any time | `OneAgentEach`, `OwnWholePlan`, `OldPlanKept`, `DownloadEnds` |
| `command_exec` | pipes of 2 units, buffers of 3; 14 scripts with lines that fit exactly, are too long, alternate between streams, exit with 0, an ignored and another code; the code -1 ignored or not; SIGKILL and other signals from outside, and kills by the context | `ReportComplete`, `OkMeansAccepted`, `Returns`, `DeadlineReturns` |
| `command_long` | the same, long lines only, no context (as all callers do) | `ReturnsAlways` fails |
| `vmx_codec` | 13 files (comments, keys twice, empty and bare values, values that do not parse or are out of range, network devices of every kind, a line without `=`, one too long) in every order of the map; 90 virtual machines with up to 5 devices per bus, adapters of 2, 2 network cards, controllers at every place, and texts that take several lines or are too long, in fields that are written, left out or dropped | `OutcomeOfFile`, `DecodedAsWritten`, `MACAsWritten`, `RoundTrip` |

Why the bounds are enough: the tool handles the entries of a plan, and the
directories of a datastore, one after the other and the only thing one
inherits from the entry before is that it is done; two show everything a second
one can meet. Three disturbances let a run break off, its rerun break off, and a
`-recreate` or a new plan come between. Two additional disks are the fewest that
can be swapped. A pipe of two units and a buffer of three make the pipe fill
before a line ends. Adapters of two devices and two adapters make the
encoder go from one to the next and drop a fifth device, with SCSI controllers at
every place between. Two servers in `ImportStat` are a late answer and a call
that it could disturb. In `RemotePlan` one disturbance is enough for an agent to
outlive its tool, which is what makes later runs of the same instance hard, and
the second instance adds truncated uploads and busy files without using it up;
one instance alone was also explored with two.

`CHECK_DEADLOCK FALSE` is given where the run of the program ends (`PlanCreation`,
`CommandExec`, `VMXCodec`, `RemotePlan`, whose instances stop after their last run).

### Fairness

* `Workflow`: the tool goes on with its next step, in either mode; the API carries
  out the request it is asked to answer (failing to is a disturbance); the
  operator edits the settings until they validate, starts again until a run
  succeeds, and makes a new plan when the file is broken. `RerunsComplete`
  follows because disturbances and mishaps come to an end.
* `ImportStat`: the tool goes on; a call of `IsExists` is answered or its timer
  fires (weakly fair as one action, as either may come first, and `os.Stat` may
  hang for ever); the operator imports each server that is not imported with
  `-vm-dir`, strongly fair since other runs come between.
* `ImportDisks`, in `import_disks_rerun`: the tool goes on, and the operator reruns
  the whole plan (`FairWholePlan`).
* `CommandExec`: goroutines and the child are scheduled, and `os/exec` kills the
  child of a finished context. Nothing makes a context end.
* `RemotePlan`: an instance takes its own steps and its timer fires. The network
  may stand still for ever.

### Assumptions about the outside

* `RemotePlan`: two instances on one VMware host have plans with different paths on
  it (`importFilePath`, `main.go:117`), and the host refuses to write to a
  program that runs (`TextBusy`). All safety properties rest on this one:
  an agent that outlives its tool keeps the next run of any tool
  from uploading the program, and so from starting a second agent. The `pkill -9`
  of `node.go` is no substitute: it is given a path where it expects a process
  name, so it is modelled as not working, and if it did work, a connection
  lost before it would still leave an agent behind, whose plan
  the next run of the same tool writes as well.
* `ImportDisks`: virt-v2v writes its domain XML last. Nothing is assumed of the order in
  which it lists disks, nor of when a server is started.
* `CreateServers`: the API answers a listing with disks of the server asked for.
  With `PartialListing = TRUE` it may leave some out; then nothing is claimed of
  destinations.
* `PlanCreation`: names in a directory differ (`DifferentNames`).
* `RemotePlan`: `DownloadEnds` is about the copy of a file. The calls that open it and
  ask for its size (`ssh.go:230-244`) are taken to be answered: no context ends them.
* `CommandExec`: the child has no descendants that keep its pipes open.
* `VMXCodec`: `strconv.Unquote` leaves a number, `true`, `false` and an empty value as
  they are, since they have no quotes, and a number is not an empty text.

## What is proved

Every invariant, every action property and the three refinements (`RegistrySpec`,
`ImportSpec`, `TakeoverSpec`) of the passing runs are theorems, for all values of the
constants; only the liveness properties are not. The invariants that the proofs rest
on were checked by TLC on the instances above before they were proved (`LinesInv`,
which speaks of any line, as an equality of sets). Each module's assumptions on its
constants are the types of these and what is listed under "Assumptions about the
outside".

### Creating virtual servers

`CreateServersProofs` proves, for every number of entries, disks, settings and
disturbances, with `ConstantsAssumption` (the types of the constants, and that
`Truncated` is no plan) as only assumption:

| Theorem | Statement |
|---|---|
| `TypeInvariant` | `Spec => []TypeOK` |
| `InductiveInvariant` | `Spec => []IInv` |
| `RecordedServers` | `Spec => []RecordedServersMatch` |
| `RecordedDestinations` | `Spec => []RecordedDestinationsMatch` |
| `OneOrphan` | `Spec => []OneOrphanPerInterruptedRun` |
| `OkIsReady` | `Spec => []ReadyForImport` |
| `CompleteRequests` | `Spec => []RequestsComplete` |
| `NoDuplicates` | `Spec => NoSecondServer` |
| `ImplementsRegistry` | `Spec => RegistrySpec` |

The safety properties speak of the plan file, and between two saves the plan
file says nothing about what the run is doing. The inductive invariant adds
that, one conjunct per idea:

* `WorkInv`: the request in progress is the last one sent and is for the entry at
  hand; from the answer on its server exists.
* `AgreeInv`: file and memory agree up to the entry at hand, the request is newer
  than what the file records for it, and the file is truncated exactly while it
  is being written.
* `AccountInv`: every request shows in the plan, is the one in progress, or
  belongs to a run that broke off; while the file is truncated this holds of the
  plan in memory.
* `PassedInv`: entries that the loop has passed are recorded.
* `MatchInv`: what is recorded, in memory and in the file, matches the API.
* `ValidInv`: the plan that the run rewrites still passes `Validate`.

Each has a step lemma (`WorkStep`, `AgreeStep`, ...) that assumes what it needs of
the others; `ApiGrows` and `MatchStays` say that nothing recorded is undone when
the API makes another server. `RegistryStep` maps every step to a step of
`ServerRegistry` or a stutter: `SaveOpen` to `Record`, `SendCreate` to `Ask`,
`ApiCreate` to `Make`, a run that breaks off while encoding to `Lose`.

`WorkflowProofs` adds two theorems, for every set of examples and any number
of mishaps, from `WorkflowAssumption` (a missing and a cut-off settings file
are no settings, and the example is not a cut-off file):

| Theorem | Statement |
|---|---|
| `WorkflowCreatesServers` | `WorkflowSpec => Spec` |
| `WorkflowTypeInvariant` | `WorkflowSpec => []WorkflowTypeOK` |

The first makes every theorem above one about the workflow. Nothing is claimed of the
settings themselves: the code keeps what the operator put there only as far as its
check at `main.go:50` comes in time.

### Disk import

`ImportDisksProofs` and `ImportStatProofs`, for every plan, every domain XML that
virt-v2v may write, and any number of runs, failing steps, crashes and boots:

| Theorem | Statement |
|---|---|
| `TypeCorrect` | `Spec => []TypeOK` |
| `IncompleteNeverMoved` | `Spec => []OnlyCompleteImages` |
| `UsedDisksKept` | `Spec => ImportedDisksKept` |
| `PlacedAsListed` | `Spec => []PlacedByPosition` |
| `SuccessMeansImported` | `Spec => []OkMeansImported` |
| `MovesWhileOff` | `Spec => NoMoveUnderRunningServer` |
| `LeftHalfDone` | `Spec => HalfwayGetsNoFurther` |
| `OthersUntouched` | `Spec => OnlyOriginDir` |
| `ImplementsTakeover` | `Spec => TakeoverSpec` |
| `StatImplementsImport` | `StatSpec => ImportSpec` |
| `EachAskedOnce` | `StatSpec => AskedOnce` |

None of them assumes anything beyond the types of the constants. `PlacedByPosition` says
where an image goes, which is not always where the plan has its source:
`import_disks_order` shows that. `OnlyOriginDir` is about `-vm-dir` given as
`origin_dir`, the absolute path of the directory; the bare name that
`README.md:114` gives selects the whole plan, which `import_disks_vm_dir` shows.

A disk is put in place by a rename, whose target, like its source, may stem from an
earlier run. `ImageInv` says what the images of an earlier run can be: those of
a whole conversion once there is a domain XML, and no more than one of image and
disk holds it, so a disk that was used is never found again under the path
of an image. `RunInv` follows one run: the servers passed are imported, and of the one
at hand the slots passed. `PowerInv` carries the answer of `virsh destroy` to
the rename, or the mark in `unstopped` of a start in between. That a run stays with
one server is `VMDirInv`. `HalfwayInv` says that a server left half done has its primary
disk and that no run is past that rename for it again: by `ImageInv` the image is
gone, so each later run ends there.

`ImplementsTakeover` puts these together. `TakeoverStep` maps every step to one of
`DiskTakeover` or a stutter, with a lemma per action (`ConvertSeen`, `MoveSeen`,
`BootSeen`, `DestroySeen`, `CheckSeen`, `DriverSeen`, `BreakSeen`) that says what is
seen of it. A conversion is the first of its server because `ImageInv` knows no XML
while one is running, so one that breaks off is not seen. A move fills an
empty disk, with a whole image, because of `ImageInv`, and of a server that does not
run because of `PowerInv`. `RunInv` gives the driver its primary disk. `SeenInv` adds
that a server in `unstopped` runs, that only Windows gets as far
as the driver, and that a blank disk is the one from the beginning. Runs, their
crashes and the order of their steps are stutters, all of them.

In `ImportStatProofs`, `CallInv` says that the call that waits is about the server the
run is at, and that its goroutine saw what is still there, since nothing
but the start of a server happens while it waits; hence each of the three ways in which it ends is a
`CheckXML` of `ImportDisks`, and every theorem above holds of `ImportStat`.
`AskedOnce` justifies naming a call by its server: a goroutine left behind
belongs to a server that this process does not ask for again.

### Remote planning

`RemotePlanProofs`, for any number of instances, runs and lost connections, and plans
of any length, all from `TextBusy`:

| Theorem | Statement |
|---|---|
| `TypeCorrect` | `Spec => []TypeOK` |
| `NeverTwoAgents` | `Spec => []OneAgentEach` |
| `SavedPlanIsOwn` | `Spec => []OwnWholePlan` |
| `EarlierPlanKept` | `Spec => OldPlanKept` |

`AgentInv` is what makes `OneAgentEach` inductive: while an agent runs, no instance
is uploading the program, and the agent's own tool is waiting for it or gone.
`FetchInv` follows the plan from the host to the local file: once the agent has ended
well the remote file is the whole plan, what has been received is a beginning
of it, and an end of file seen by the copier or in the pipe means all of it.
`RunInv` ties the exit status to the run.

### Commands

`CommandExecProofs`, for any output on the two streams, any exit, and any size of pipe
and buffer:

| Theorem | Statement |
|---|---|
| `TypeCorrect` | `Spec => []TypeOK` |
| `OkOnlyIfAccepted` | `Spec => []OkMeansAccepted` |
| `ReportIsComplete` | `Spec => []ReportComplete` |

The natural invariant, that list, buffer and pipe of a stream put together are what
the child has written to it, needs concatenations, and induction to reason about
them. `StreamInv` says the same with sets and an order: each unit
written is in one of the three and nothing else is (`NothingLost`), what
is further on was written before (`InOrder`), and cuts are at the ends of lines
(`ByLine`). With `DoneInv`, that a goroutine is done only when there
is nothing left for it to read, and `ExecInv`, that `Wait` comes after both,
the report is complete. `ReportComplete` is stated in the same terms, by line.

### Planning

`PlanCreationProofs`, for any storage, any order of devices and any number of stat
calls that take too long:

| Theorem | Statement | Assumption |
|---|---|---|
| `TypeCorrect` | `Spec => []TypeOK` | |
| `WholeStorage` | `Spec => []PlanCoversStorage` | |
| `DisksOnce` | `Spec => []EachDiskOnce` | `OwnDisks` |
| `SnapshotsRefused` | `Spec => []NoSnapshotPlanned` | `OwnDisks` |

`OwnDisks`: no two devices of a virtual machine have one disk file, and
no CD-ROM has one. `ItemInv` is about the directory at hand: the disks
found are those, of the devices looked at, whose file is there. `PlanInv` is about the
directories passed: entries and wanted directories correspond, in order,
and each entry is as `ItemInv` left it. Exceptions are made for directories at
which a stat call took too long (`misled`).

### VMX files

`VMXCodecProofs`, for any files, virtual machines, limits of the hardware and orders of
the map:

| Theorem | Statement |
|---|---|
| `TypeCorrect` | `CodecSpec => []TypeOK`, with the bounds of adapter and device numbers |
| `Outcomes` | `CodecSpec => []OutcomeOfFile` |
| `Decoding` | `CodecSpec => []DecodedAsWritten` |
| `MACs` | `CodecSpec => []MACAsWritten` |
| `RoundTrips` | `CodecSpec => []RoundTrip` |

* `StartInv`: the decoder is untouched until the lines are complete.
* `CountInv`: full adapters times their size, plus the devices of the last one, are
  fewer than the elements passed: this is what keeps `adapters` below its limit
  when `encodeArray` drops only by the number of elements.
* `LoadInv`: the map has the last of the lines passed for each key. At the end
  of the file it says what the lines say (`LoadedAsWritten`).
* `FillInv`: of each slice the indexes seen are decoded, once each, unless
  something failed. It has to speak of the memory behind the slices: a device that
  fails leaves its values there for the next one, which `decodeSlice` decodes into
  the same place, and the structure is right only because `failed` is set by
  then and the structure is not returned.
* `EndInv`: how the program stopped, and with which address.

`RoundTrips` goes through the lines of the file, for which the decoder's
theorems hold. Two invariants of the encoder (`WrittenInvariant`) say what those are:

* `PlaceInv`: at each element of `encodeArray`, adapter and device counter are what
  division of the devices written so far by the size of an adapter gives.
* `LinesInv`: the lines written, with those of the `fields` still to be written, are
  those of the elements passed, each under the address that follows from its place;
  for virtual machines whose texts fit into a line each (`OneLines`).

`PlacesApart` says that these addresses differ, by division with remainder, which
the counters are: two devices have different places on the adapters, a
controller has no number on its adapter, and two controllers differ when they are on
different adapters. A controller that is not alone on its adapter (`Alone`) shares its
key with the others there (`ControllerPlace`). Then every value is read from
a line with its key (`LeafRead`, `ElementRead`), no line makes an index of its own
(`DevicesWritten`), and `Decoding` gives each index decoded the element that was written
under it. `BusRead` makes these the injection of the elements that are alone
into the decoded devices, and `DevicesCounted` counts the rest: one device
for the controllers of each adapter that has several, and on the bus `usb`
one for the address of `usb.present`, which has no numbers.

### What stays with TLC

* Liveness under fairness (`RerunsComplete`, `RerunsCompleteTheRest`,
  `DownloadEnds`, `Returns`, `DeadlineReturns`): out of the proof system's reach.
* What is refuted: the five runs that expect a violation.

## Findings

* `disks.go:102`: additional disks are paired by position, in orders that a Go map
  (`govmx/decode.go:228`) and virt-v2v choose; images can be swapped
  (`import_disks_order`).
* `main.go:180`: `-vm-dir` must be the absolute directory for `-import-disks`, the
  bare name for `-create-import-plan`; the wrong form imports everything
  (`import_disks_vm_dir`).
* `disks.go:57`: rerunning `-import-disks` for the whole plan stops at the first
  server imported before, whose image is gone (`import_disks_rerun`).
* `commander.go:138`: a line over 64 KiB can make `Exec` wait for ever
  (`command_long`).
* `vmx.go:184`: `-0` anywhere in the name of a disk file is taken for a snapshot
  and fails the plan of the whole datastore (`plan_creation_dash`).

What the passing properties except or allow, and the code therefore does not promise:

* A stat that times out makes an entry's disks, sizes or marker wrong (`misled` in
  `PlanCreation`), and an imported server is converted again (`misled` in
  `ImportDisks`).
* A run that ends between the first rename and the last step of a server, because the
  API does not answer (`disks.go:76`), the number of disks is another or the tool
  crashes, leaves a server that no rerun finishes (`HalfwayGetsNoFurther`);
  `RerunsCompleteTheRest` promises the rest only.
* A server that `virsh destroy` fails to stop, or that is started before the last rename,
  has its disks replaced while it runs (`unstopped`).
* Overlapping appends lose output (`garbled`). A child that a signal other than SIGKILL
  ended is a success when -1 is among the codes to ignore.
* A disk that the API leaves out of its listing keeps the destination it had
  (`PartialListing`). A plan that is truncated or made again loses its servers
  (`Lose` of `ServerRegistry`).
* Edited settings are replaced by the example when the file is not found in time or
  comes too late for the check.
* A local plan is lost when the tool ends between its truncation and its writing
  (`OldPlanKept`).
* A line without `=` in a VMX file makes the tool panic: `decode.go:56` means to
  report it, but goes on to the part that is not there (`decode.go:60`). `OutcomeOfFile`
  records what happens. Texts are compared as the decoder unquotes them
  (`strconv.Unquote`, which is a constant of the model): whether VMware means the
  same by an escape is not tested.
* Which of several MAC addresses a server gets is left to the order of a map
  (`vmx.go:98`); only static and generated addresses count, as in the code, so
  one that a vCenter gave counts as none.
* The encoder gives two SCSI controllers met on one adapter the same key, writes texts with
  line breaks and too long ones as they are, and the decoder makes a USB device of
  `usb.present` (`RoundTrip`).
* Sizes are modelled as the code computes them (rounded down, of the descriptor when the
  `-flat` file is not found in time), but no property speaks of them: no doc says
  what they should be, and the formula would be the code's.

## Plan

The order was that of the damage a fault does: creation of servers, import of disks,
commands, planning on this host and on another, the settings, and the VMX files last.
Each module was checked first and proved about afterwards. `CreateServers` has
`ServerRegistry` and `ImportDisks` has `DiskTakeover` as abstract specification, and
`Workflow` and `ImportStat` implement them through `CreateServers` and `ImportDisks`.

What could follow: an abstract specification of a command (it runs, ends, and is
reported once) for `CommandExec`, and one of a plan file that is replaced as a whole
for `RemotePlan`. Both would say in one formula what `ReportComplete` with
`OkMeansAccepted`, and `OwnWholePlan` with `OldPlanKept`, say in two.

Not modelled, and why: `FindDevice`, `WalkDevices` and the other operations of the
device API, and `List`, `IsExists` and `Remove` of the SSH connection (no callers),
the key signers and SFTP options (library glue), the fields of an entry that are
only copied (names, memory, CPUs, firmware), most of the fields of a
`VirtualMachine` (each is decoded and encoded like one of its type that is there),
floppy drives and the other slices without limits of their own, the parsing of
struct tags (constants of the program), unexpected errors of reflection, standard
input, environment and output writer of commands (no caller gives them). Liveness
under fairness is out of the proof system's reach and stays with TLC.
