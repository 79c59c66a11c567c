----------------------------- MODULE RemotePlan -----------------------------
(***************************************************************************)
(* -create-import-plan with -source-ip (main.go): the tool copies itself   *)
(* to the VMware host, runs there as an agent that writes the plan to the  *)
(* storage path, and fetches the plan (ssh/node.go, ssh/ssh.go).           *)
(*                                                                         *)
(* Several instances of the tool may be at work on one host, and each may  *)
(* be started again after a run that failed.  They share the path of the   *)
(* agent; the path of the plan is an instance's own.  An agent goes on     *)
(* when the tool that started it is gone.                                  *)
(***************************************************************************)
EXTENDS Naturals, Sequences

CONSTANTS
  Tool,             \* the instances of the tool
  Chunks,           \* number of pieces a plan is written and fetched in
  TextBusy,         \* does the host refuse to write to a program that runs?
  PkillWorks,       \* does pkill find agents by the path it is given?
  MaxRuns,          \* bound: runs of each instance
  MaxDisturbances   \* bound: lost connections, crashes, agents that fail

ASSUME ConstantsAssumption ==
  /\ Chunks \in Nat \ {0}
  /\ TextBusy \in BOOLEAN /\ PkillWorks \in BOOLEAN
  /\ MaxRuns \in Nat /\ MaxDisturbances \in Nat

VARIABLES
  pc,           \* where instance t is; "idle" between its runs
  run,          \* number of its last run
  conn,         \* its connection, "up" or "lost"
  late,         \* has the deadline of its transfer passed?
  exit,         \* how its last run ended
  status,       \* what it knows of its agent, while it runs or waits for one
  binary,       \* the file of the agent: "none", "part" or "whole"
  overtaken,    \* the uploads whose file another one has truncated since
  agents,       \* the agents that run, with what each has written
  remote,       \* the plan file of t on the host
  got,          \* what t has fetched of it
  copier,       \* the goroutine of t that copies from the host into a pipe
  pipe,         \* the state of that pipe
  local,        \* the plan file of t
  disturbances  \* counts the disturbances, up to MaxDisturbances

toolVars == <<pc, run, conn, late, exit, status>>
hostVars == <<binary, overtaken, agents, remote>>
fetchVars == <<got, copier, pipe>>
vars == <<toolVars, hostVars, fetchVars, local, disturbances>>

(* A plan, as the pieces it is made of. *)
PlanOf(t, r) == [k \in 1..Chunks |-> <<t, r, k>>]
NoPlan == <<>>

(* at: the piece it writes next, 0 when it has not opened the file. *)
Agent == [by: Tool, run: 1..MaxRuns, at: 0..(Chunks + 1)]

Disturb == /\ disturbances < MaxDisturbances
           /\ disturbances' = disturbances + 1
Calm == UNCHANGED disturbances

Goto(t, where) == pc' = [pc EXCEPT ![t] = where]

(* A run ends: log.Fatalf, the end of main, or a crash.  What the process  *)
(* held is gone.                                                           *)
End(t, how) ==
  /\ Goto(t, "idle")
  /\ exit' = [exit EXCEPT ![t] = how]
  /\ conn' = [conn EXCEPT ![t] = "up"] /\ late' = [late EXCEPT ![t] = FALSE]
  /\ got' = [got EXCEPT ![t] = <<>>]
  /\ copier' = [copier EXCEPT ![t] = "none"] /\ pipe' = [pipe EXCEPT ![t] = "none"]
  /\ status' = [status EXCEPT ![t] = "none"]
  /\ UNCHANGED run

(* A run goes on. *)
Step(t, where) ==
  /\ Goto(t, where)
  /\ UNCHANGED <<run, conn, late, exit, status, fetchVars>>
-----------------------------------------------------------------------------
Init ==
  /\ pc = [t \in Tool |-> "idle"] /\ run = [t \in Tool |-> 0]
  /\ conn = [t \in Tool |-> "up"] /\ late = [t \in Tool |-> FALSE]
  /\ exit = [t \in Tool |-> "none"]
  /\ binary = "none" /\ overtaken = {} /\ agents = {}
  /\ status = [t \in Tool |-> "none"]
  /\ remote = [t \in Tool |-> NoPlan]
  /\ got = [t \in Tool |-> <<>>]
  /\ copier = [t \in Tool |-> "none"] /\ pipe = [t \in Tool |-> "none"]
  /\ local = [t \in Tool |-> NoPlan]
  /\ disturbances = 0

(* NewNodeConnection, when it succeeds. *)
Connect(t) ==
  /\ pc[t] = "idle" /\ run[t] < MaxRuns
  /\ run' = [run EXCEPT ![t] = @ + 1]
  /\ conn' = [conn EXCEPT ![t] = "up"]
  /\ exit' = [exit EXCEPT ![t] = "none"]
  /\ Goto(t, "kill")
  /\ UNCHANGED <<late, status, hostVars, fetchVars, local>> /\ Calm

(* NewConnection cannot dial, or SFTP is refused. *)
ConnectFails(t) ==
  /\ pc[t] = "idle" /\ run[t] < MaxRuns
  /\ run' = [run EXCEPT ![t] = @ + 1]
  /\ exit' = [exit EXCEPT ![t] = "error"]
  /\ UNCHANGED <<pc, conn, late, status, hostVars, fetchVars, local>> /\ Calm

(* common.Copy does not get the program into a temporary directory; nothing *)
(* was done on the host yet.                                               *)
CopyFails(t) ==
  /\ pc[t] = "kill"
  /\ End(t, "error")
  /\ UNCHANGED <<hostVars, local>> /\ Calm

(* The copy, and pkill; whether pkill worked is not looked at. *)
KillAgents(t) ==
  /\ pc[t] = "kill"
  /\ IF PkillWorks /\ conn[t] = "up"
       THEN /\ agents' = {}
            /\ status' = [s \in Tool |-> IF status[s] = "running" THEN "failed" ELSE status[s]]
       ELSE UNCHANGED <<agents, status>>
  /\ Goto(t, "create")
  /\ UNCHANGED <<run, conn, late, exit, binary, overtaken, remote, fetchVars, local>> /\ Calm

(* A connection found lost before a transfer is made anew (ensureIsConnected). *)
Reconnect(t) ==
  /\ pc[t] \in {"create", "open"} /\ conn[t] = "lost"
  /\ conn' = [conn EXCEPT ![t] = "up"]
  /\ UNCHANGED <<pc, run, late, exit, status, hostVars, fetchVars, local>> /\ Calm

(* The agent's file is opened for writing, and with that truncated. *)
Create(t) ==
  /\ pc[t] = "create" /\ conn[t] = "up"
  /\ TextBusy => agents = {}
  /\ binary' = "part"
  /\ overtaken' = {u \in Tool \ {t} : pc[u] = "upload"}
  /\ late' = [late EXCEPT ![t] = FALSE]
  /\ Goto(t, "upload")
  /\ UNCHANGED <<run, conn, exit, status, agents, remote, fetchVars, local>> /\ Calm

(* Mutant: a file that is busy is left as it is. *)
CreateBusyIgnored(t) ==
  /\ pc[t] = "create" /\ conn[t] = "up" /\ TextBusy /\ agents # {}
  /\ Step(t, "chmod")
  /\ UNCHANGED <<hostVars, local>> /\ Calm

CreateRefused(t) ==
  /\ pc[t] = "create" /\ conn[t] = "up" /\ TextBusy /\ agents # {}
  /\ End(t, "error")
  /\ UNCHANGED <<hostVars, local>> /\ Calm

(* The deadline does not stop the upload; an upload that ends after it is  *)
(* an error all the same.  One that was overtaken leaves a gap in the file *)
(* unless the other one fills it.                                          *)
Upload(t) ==
  /\ pc[t] = "upload" /\ conn[t] = "up"
  /\ binary' = IF t \in overtaken THEN binary ELSE "whole"
  /\ IF late[t] THEN End(t, "error") ELSE Step(t, "chmod")
  /\ UNCHANGED <<overtaken, agents, remote, local>> /\ Calm

Chmod(t) ==
  /\ pc[t] = "chmod" /\ conn[t] = "up"
  /\ Step(t, "exec")
  /\ UNCHANGED <<hostVars, local>> /\ Calm

BeingWritten == \E t \in Tool : pc[t] = "upload"

ExecAgent(t) ==
  /\ pc[t] = "exec" /\ conn[t] = "up"
  /\ IF binary = "whole" /\ ~(TextBusy /\ BeingWritten)
       THEN /\ agents' = agents \cup {[by |-> t, run |-> run[t], at |-> 0]}
            /\ status' = [status EXCEPT ![t] = "running"]
       ELSE /\ status' = [status EXCEPT ![t] = "failed"]
            /\ UNCHANGED agents
  /\ Goto(t, "run")
  /\ UNCHANGED <<run, conn, late, exit, binary, overtaken, remote, fetchVars, local>> /\ Calm

(* The tool that waits for agent a learns how it ended. *)
Ended(a, how) ==
  /\ agents' = agents \ {a}
  /\ status' = IF pc[a.by] = "run" /\ run[a.by] = a.run
                 THEN [status EXCEPT ![a.by] = how] ELSE status
  /\ UNCHANGED <<pc, run, conn, late, exit>>

(* saveImportPlan on the host: the file is truncated, then written.        *)
AgentOpens(a) ==
  /\ a.at = 0
  /\ remote' = [remote EXCEPT ![a.by] = <<>>]
  /\ agents' = (agents \ {a}) \cup {[a EXCEPT !.at = 1]}
  /\ UNCHANGED <<toolVars, binary, overtaken, fetchVars, local>> /\ Calm

(* Mutant: the agent does not stop at the end of the plan. *)
AgentWritesOn(a) ==
  /\ a.at > 0
  /\ remote' = [remote EXCEPT ![a.by] = SubSeq(@, 1, a.at - 1) \o <<<<a.by, a.run, a.at>>>>
                                         \o SubSeq(@, a.at + 1, Len(@))]
  /\ agents' = (agents \ {a}) \cup {[a EXCEPT !.at = @ + 1]}
  /\ UNCHANGED <<toolVars, binary, overtaken, fetchVars, local>> /\ Calm

AgentWrites(a) ==
  /\ a.at \in 1..Chunks
  /\ remote' = [remote EXCEPT ![a.by] = SubSeq(@, 1, a.at - 1) \o <<<<a.by, a.run, a.at>>>>
                                         \o SubSeq(@, a.at + 1, Len(@))]
  /\ agents' = (agents \ {a}) \cup {[a EXCEPT !.at = @ + 1]}
  /\ UNCHANGED <<toolVars, binary, overtaken, fetchVars, local>> /\ Calm

AgentExits(a) ==
  /\ a.at = Chunks + 1
  /\ Ended(a, "ok")
  /\ UNCHANGED <<binary, overtaken, remote, fetchVars, local>> /\ Calm

(* An agent fails to make a plan or is killed; one whose tool is gone may  *)
(* die of writing to its log.                                              *)
AgentFails(a) ==
  /\ Ended(a, "failed")
  /\ IF pc[a.by] = "run" /\ run[a.by] = a.run THEN Disturb ELSE Calm
  /\ UNCHANGED <<binary, overtaken, remote, fetchVars, local>>

(* Mutant: the exit status of the agent is not looked at. *)
AgentEndedAnyhow(t) ==
  /\ pc[t] = "run" /\ conn[t] = "up" /\ status[t] \in {"ok", "failed"}
  /\ Step(t, "open")
  /\ UNCHANGED <<hostVars, local>> /\ Calm

AgentEnded(t) ==
  /\ pc[t] = "run" /\ conn[t] = "up" /\ status[t] = "ok"
  /\ Step(t, "open")
  /\ UNCHANGED <<hostVars, local>> /\ Calm

AgentFailed(t) ==
  /\ pc[t] = "run" /\ conn[t] = "up" /\ status[t] = "failed"
  /\ End(t, "error")
  /\ UNCHANGED <<hostVars, local>> /\ Calm

(* sftpDownload: the file is opened, and two goroutines are started, one   *)
(* that copies it into a pipe and one that waits for the deadline.         *)
OpenRemote(t) ==
  /\ pc[t] = "open" /\ conn[t] = "up"
  /\ got' = [got EXCEPT ![t] = <<>>]
  /\ copier' = [copier EXCEPT ![t] = "copy"] /\ pipe' = [pipe EXCEPT ![t] = "open"]
  /\ late' = [late EXCEPT ![t] = FALSE]
  /\ Goto(t, "read")
  /\ UNCHANGED <<run, conn, exit, status, hostVars, local>> /\ Calm

(* A piece goes from the host through the pipe to io.ReadAll. *)
Copy(t) ==
  /\ pc[t] = "read" /\ copier[t] = "copy" /\ pipe[t] = "open" /\ conn[t] = "up"
  /\ Len(got[t]) < Len(remote[t])
  /\ got' = [got EXCEPT ![t] = Append(@, remote[t][Len(@) + 1])]
  /\ UNCHANGED <<toolVars, hostVars, copier, pipe, local>> /\ Calm

(* Copying ends: at the end of the file, or with an error. *)
CopyEnds(t) ==
  /\ pc[t] = "read" /\ copier[t] = "copy"
  /\ \/ /\ conn[t] = "up" /\ pipe[t] = "open" /\ Len(got[t]) >= Len(remote[t])
        /\ copier' = [copier EXCEPT ![t] = IF late[t] THEN "error" ELSE "eof"]
     \/ /\ conn[t] = "lost" \/ pipe[t] # "open"
        /\ copier' = [copier EXCEPT ![t] = "error"]
  /\ UNCHANGED <<toolVars, hostVars, got, pipe, local>> /\ Calm

(* The copier closes the pipe, unless the deadline has. *)
CopierCloses(t) ==
  /\ copier[t] \in {"eof", "error"}
  /\ pipe' = [pipe EXCEPT ![t] = IF @ = "open" THEN copier[t] ELSE @]
  /\ copier' = [copier EXCEPT ![t] = "none"]
  /\ UNCHANGED <<toolVars, hostVars, got, local>> /\ Calm

Deadline(t) ==
  /\ pc[t] \in {"upload", "read"} /\ ~late[t]
  /\ late' = [late EXCEPT ![t] = TRUE]
  /\ UNCHANGED <<pc, run, conn, exit, status, hostVars, fetchVars, local>> /\ Calm

(* Mutant: the deadline closes the pipe without an error. *)
DeadlineClosesWell(t) ==
  /\ pc[t] = "read" /\ late[t] /\ pipe[t] = "open"
  /\ pipe' = [pipe EXCEPT ![t] = "eof"]
  /\ UNCHANGED <<toolVars, hostVars, got, copier, local>> /\ Calm

(* Mutant: nothing happens at the deadline, as in sftpUpload. *)
DeadlineIgnored(t) == FALSE

DeadlineCloses(t) ==
  /\ pc[t] = "read" /\ late[t] /\ pipe[t] = "open"
  /\ pipe' = [pipe EXCEPT ![t] = "error"]
  /\ UNCHANGED <<toolVars, hostVars, got, copier, local>> /\ Calm

(* io.ReadAll returns what went through the pipe, or the error. *)
ReadAll(t) ==
  /\ pc[t] = "read" /\ pipe[t] # "open"
  /\ IF pipe[t] = "eof" THEN Step(t, "save") ELSE End(t, "error")
  /\ UNCHANGED <<hostVars, local>> /\ Calm

(* os.WriteFile truncates the local plan and writes what was read. *)
TruncateLocal(t) ==
  /\ pc[t] = "save"
  /\ local' = [local EXCEPT ![t] = NoPlan]
  /\ Step(t, "write")
  /\ UNCHANGED hostVars /\ Calm

WriteLocal(t) ==
  /\ pc[t] = "write"
  /\ local' = [local EXCEPT ![t] = got[t]]
  /\ End(t, "ok")
  /\ UNCHANGED hostVars /\ Calm

LoseConnection(t) ==
  /\ pc[t] # "idle" /\ conn[t] = "up"
  /\ conn' = [conn EXCEPT ![t] = "lost"]
  /\ Disturb
  /\ UNCHANGED <<pc, run, late, exit, status, hostVars, fetchVars, local>>

(* An upload, a command or a reconnect fails on a lost connection. *)
Disconnected(t) ==
  /\ pc[t] \in {"create", "upload", "chmod", "exec", "run", "open"} /\ conn[t] = "lost"
  /\ End(t, "error")
  /\ UNCHANGED <<hostVars, local>> /\ Calm

(* The process of the tool ends, and its goroutines with it. *)
Crash(t) ==
  /\ pc[t] # "idle"
  /\ End(t, "crash")
  /\ Disturb
  /\ UNCHANGED <<hostVars, local>>

(* The steps an instance takes by itself; Copy and Upload need the network.*)
Steps(t) ==
  \/ CopyFails(t) \/ KillAgents(t) \/ Reconnect(t) \/ Create(t)
  \/ CreateRefused(t) \/ Chmod(t)
  \/ ExecAgent(t) \/ AgentEnded(t) \/ AgentFailed(t) \/ OpenRemote(t)
  \/ ReadAll(t) \/ TruncateLocal(t) \/ WriteLocal(t) \/ Disconnected(t)

Next ==
  \/ \E t \in Tool :
       \/ Connect(t) \/ ConnectFails(t) \/ Steps(t) \/ Upload(t)
       \/ Copy(t) \/ CopyEnds(t) \/ CopierCloses(t) \/ Deadline(t) \/ DeadlineCloses(t)
       \/ LoseConnection(t) \/ Crash(t)
  \/ \E a \in agents : AgentOpens(a) \/ AgentWrites(a) \/ AgentExits(a) \/ AgentFails(a)

Spec == Init /\ [][Next]_vars

(* An instance runs on and its timer fires.  Nothing is assumed of the     *)
(* network: a transfer may stand still for ever.                           *)
Fairness ==
  \A t \in Tool : /\ WF_vars(Steps(t))
                  /\ WF_vars(Deadline(t)) /\ WF_vars(DeadlineCloses(t))

FairSpec == Spec /\ Fairness
-----------------------------------------------------------------------------
Piece == Tool \X (1..MaxRuns) \X (1..Chunks)

TypeOK ==
  /\ pc \in [Tool -> {"idle", "kill", "create", "upload", "chmod", "exec", "run",
                      "open", "read", "save", "write"}]
  /\ run \in [Tool -> 0..MaxRuns]
  /\ conn \in [Tool -> {"up", "lost"}]
  /\ late \in [Tool -> BOOLEAN]
  /\ exit \in [Tool -> {"none", "ok", "error", "crash"}]
  /\ binary \in {"none", "part", "whole"} /\ overtaken \subseteq Tool
  /\ agents \subseteq Agent
  /\ status \in [Tool -> {"none", "running", "ok", "failed"}]
  /\ remote \in [Tool -> Seq(Piece)] /\ got \in [Tool -> Seq(Piece)]
  /\ local \in [Tool -> Seq(Piece)]
  /\ \A t \in Tool : Len(remote[t]) <= Chunks /\ Len(got[t]) <= Chunks /\ Len(local[t]) <= Chunks
  /\ copier \in [Tool -> {"none", "copy", "eof", "error"}]
  /\ pipe \in [Tool -> {"none", "open", "eof", "error"}]
  /\ disturbances \in 0..MaxDisturbances

(* At most one agent works for an instance, the one of its current run or  *)
(* one that outlived its tool: two would write the same plan.              *)
OneAgentEach == \A a, b \in agents : a.by = b.by => a = b

(* A plan in the local file is a whole plan that the instance's own agent  *)
(* made, and after a run that ended well the agent of that run; it is not  *)
(* one cut off by the deadline or the connection, nor an older one.        *)
OwnWholePlan ==
  \A t \in Tool :
    /\ local[t] # NoPlan => \E r \in 1..run[t] : local[t] = PlanOf(t, r)
    /\ exit[t] = "ok" => local[t] = PlanOf(t, run[t])

(* The plan of an earlier run is replaced only when all of a new one is    *)
(* at hand: a run that fails before leaves it alone.                       *)
OldPlanKept ==
  [][\A t \in Tool : local'[t] # local[t] => got[t] = PlanOf(t, run[t])]_vars

(* The deadline ends a download that stands still. *)
DownloadEnds == \A t \in Tool : (pc[t] = "read") ~> (pc[t] # "read")
=============================================================================
