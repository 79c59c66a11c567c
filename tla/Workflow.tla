------------------------------ MODULE Workflow ------------------------------
(***************************************************************************)
(* The settings file and the runs that make it and use it: main.go's mode  *)
(* -create-settings-file and settings.go, with the operator who edits what *)
(* that mode leaves, composed with CreateServers.  The operator starts one *)
(* run of the tool after the other.                                        *)
(***************************************************************************)
EXTENDS CreateServers

CONSTANTS
  AgentCR,     \* compute resource IDs that /etc/solus/agent.json may give, and
               \* 1 if it may be missing
  NoSettings,  \* there is no settings file
  Cut,         \* a settings file that was truncated and not written
  MaxMishaps   \* bound: edits of good settings, crashes and slow stats

(* Validate takes 0 and a guest OS that is left out for the same, so a plan *)
(* file that does not load makes no difference.                            *)
createGuestOSoOSImageVersionID == [g \in GuestOS |-> 0]

(* The settings of the mode. *)
Example(c) ==
  [url |-> "example", token |-> "",
   defaults |-> [image |-> createGuestOSoOSImageVersionID, user |-> 1, project |-> 1,
                 cr |-> c, location |-> 1, offer |-> 0]]
Examples == {Example(c) : c \in AgentCR}

ASSUME WorkflowAssumption ==
  /\ AgentCR \subseteq Nat
  /\ NoSettings \notin Settings \cup Examples \cup {Cut}
  /\ Cut \notin Settings \cup Examples
  /\ MaxMishaps \in Nat

VARIABLES
  sfile,    \* content of the settings file
  spc,      \* where a run of -create-settings-file is; "idle" outside of one
  example,  \* the settings it is to write
  mishaps   \* counts edits, crashes and slow stats, up to MaxMishaps

fileVars == <<sfile, spc, example, mishaps>>
allVars == <<vars, fileVars>>

WorkflowInit ==
  /\ Init
  /\ sfile = NoSettings /\ spc = "idle" /\ example = NoSettings
  /\ mishaps = 0

Idle == pc = "idle" /\ spc = "idle"

Mishap == mishaps < MaxMishaps /\ mishaps' = mishaps + 1

(* The mode up to saveSettings.  A file that is there stops it, unless     *)
(* IsExists gives up on it after five seconds.                             *)
CreateSettings ==
  /\ Idle
  /\ IF sfile = NoSettings THEN UNCHANGED mishaps ELSE Mishap
  /\ example' \in Examples
  /\ spc' = "open"
  /\ UNCHANGED <<vars, sfile>>

(* saveSettings opens the file with O_TRUNC ... *)
SettingsOpen ==
  /\ spc = "open"
  /\ sfile' = Cut
  /\ spc' = "encode"
  /\ UNCHANGED <<vars, example, mishaps>>

(* ... and encodes the settings into it, from its start on.  An editor     *)
(* that has put a new file in its place meanwhile keeps that one; what it  *)
(* has written into the old one stands after the settings, at most, where  *)
(* loadSettings does not read.                                             *)
SettingsEncode ==
  /\ spc = "encode"
  /\ sfile' = example \/ (sfile # Cut /\ UNCHANGED sfile)
  /\ spc' = "idle" /\ example' = NoSettings
  /\ UNCHANGED <<vars, mishaps>>

(* A step of saveSettings fails, or the run crashes. *)
SettingsBreak ==
  /\ spc # "idle"
  /\ Mishap
  /\ spc' = "idle" /\ example' = NoSettings
  /\ UNCHANGED <<vars, sfile>>

(* The settings pass Validate with the plan in the file, or a new one.     *)
Usable(s) ==
  s \in Settings /\ Validate(s, IF file = Truncated THEN FreshPlan ELSE file)

(* The operator fills in the file, or writes another one, while the tool   *)
(* runs as well: a run of the mode that has looked for the file before     *)
(* then goes on to replace it.                                             *)
Edit(s) ==
  /\ IF Usable(sfile) THEN Mishap ELSE UNCHANGED mishaps
  /\ sfile' = s
  /\ UNCHANGED <<vars, spc, example>>

(* loadSettings, and createVirtualServers or its refusal.                  *)
StartRun(flag) == Idle /\ sfile \in Settings /\ Begin(sfile, flag)

(* No settings, or none that validate; the example never does.             *)
RefuseRun ==
  /\ Idle
  /\ IF sfile \in Settings THEN BeginRefused(sfile) ELSE LoadSettingsFails

Create ==
  \/ \E flag \in BOOLEAN : StartRun(flag)
  \/ RefuseRun
  \/ Tool
  \/ CreateFails \/ ListingFails \/ SaveFails \/ Crash
  \/ Idle /\ Replan
  \/ \E a \in inflight : ApiCreate(a)

SettingsTool == SettingsOpen \/ SettingsEncode

WorkflowNext ==
  \/ CreateSettings \/ SettingsTool \/ SettingsBreak
  \/ \E s \in Settings : Edit(s)
  \/ Create /\ UNCHANGED fileVars

WorkflowSpec == WorkflowInit /\ [][WorkflowNext]_allVars

(* A run goes on, and the API carries out the request it is asked to answer*)
(* (not to do so is a disturbance, and these are finite).  The operator    *)
(* edits the settings until they validate, starts over until a run         *)
(* succeeds, and makes a new plan when the plan is lost.                   *)
WorkflowFairness ==
  /\ WF_allVars(Tool /\ UNCHANGED fileVars)
  /\ WF_allVars(SettingsTool)
  /\ WF_allVars(pc = "creating" /\ ApiCreate(attempt) /\ UNCHANGED fileVars)
  /\ WF_allVars(~Usable(sfile) /\ \E s \in Settings : Usable(s) /\ Edit(s))
  /\ WF_allVars(exit # "ok" /\ StartRun(FALSE) /\ UNCHANGED fileVars)
  /\ WF_allVars(file = Truncated /\ Idle /\ Replan /\ UNCHANGED fileVars)

FairWorkflowSpec == WorkflowSpec /\ WorkflowFairness
-----------------------------------------------------------------------------
WorkflowTypeOK ==
  /\ TypeOK
  /\ sfile \in Settings \cup Examples \cup {NoSettings, Cut}
  /\ spc \in {"idle", "open", "encode"}
  /\ spc # "idle" => pc = "idle" /\ example \in Examples
  /\ mishaps \in 0..MaxMishaps
=============================================================================
