--------------------------- MODULE WorkflowProofs ---------------------------
(***************************************************************************)
(* Proofs about Workflow: with the settings file and the operator who      *)
(* edits it, creating servers takes no step that CreateServers does not    *)
(* know, so that every theorem about Spec holds of the workflow.           *)
(***************************************************************************)
EXTENDS Workflow, CreateServersProofs

(* A run begins with settings that CreateServers allows, and what happens  *)
(* to the settings file is nothing to it.                                  *)
LEMMA WorkflowStep == [WorkflowNext]_allVars => [Next]_vars
<1> SUFFICES ASSUME [WorkflowNext]_allVars
             PROVE  [Next]_vars
  OBVIOUS
<1>1. CASE CreateSettings \/ SettingsTool \/ SettingsBreak \/ \E s \in Settings : Edit(s)
  BY <1>1 DEF CreateSettings, SettingsTool, SettingsOpen, SettingsEncode, SettingsBreak, Edit
<1>2. CASE Create
  <2>1. CASE \E flag \in BOOLEAN : StartRun(flag)
    BY <2>1 DEF StartRun, Next
  <2>2. CASE RefuseRun
    BY <2>2 DEF RefuseRun, Next
  <2> QED
    BY <1>2, <2>1, <2>2 DEF Create, Next
<1>3. CASE UNCHANGED allVars
  BY <1>3 DEF allVars
<1> QED
  BY <1>1, <1>2, <1>3 DEF WorkflowNext

(* The workflow implements CreateServers, of which it shows the state.     *)
THEOREM WorkflowCreatesServers == WorkflowSpec => Spec
<1>1. WorkflowInit => Init
  BY DEF WorkflowInit
<1> QED
  BY <1>1, WorkflowStep, PTL DEF WorkflowSpec, Spec

(* The variables of the workflow, the settings file among them, hold what  *)
(* they are declared to hold, and the two modes never run at once.         *)
THEOREM WorkflowTypeInvariant == WorkflowSpec => []WorkflowTypeOK
<1> DEFINE FileTypeOK ==
      /\ sfile \in Settings \cup Examples \cup {NoSettings, Cut}
      /\ spc \in {"idle", "open", "encode"}
      /\ spc # "idle" => pc = "idle" /\ example \in Examples
      /\ mishaps \in 0..MaxMishaps
<1>1. WorkflowInit => FileTypeOK
  BY WorkflowAssumption DEF WorkflowInit
<1>2. FileTypeOK /\ [WorkflowNext]_allVars => FileTypeOK'
  <2> SUFFICES ASSUME FileTypeOK, [WorkflowNext]_allVars
               PROVE  FileTypeOK'
    OBVIOUS
  <2>1. CASE CreateSettings
    BY <2>1, WorkflowAssumption DEF CreateSettings, Idle, Mishap, vars
  <2>2. CASE SettingsTool
    BY <2>2 DEF SettingsTool, SettingsOpen, SettingsEncode, vars
  <2>3. CASE SettingsBreak
    BY <2>3, WorkflowAssumption DEF SettingsBreak, Mishap, vars
  <2>4. ASSUME NEW s \in Settings, Edit(s)
        PROVE  FileTypeOK'
    BY <2>4, WorkflowAssumption DEF Edit, Idle, Mishap, vars
  <2>5. CASE Create /\ UNCHANGED fileVars
    <3>1. spc # "idle" => pc' = pc
      BY <2>5 DEF Create, StartRun, RefuseRun, Idle, Tool, Skip, SendCreate, CreateAnswered,
                  DisksListed, SaveOpen, SaveEncode, Finish, CreateFails, ListingFails,
                  SaveFails, Crash, ApiCreate
    <3> QED
      BY <2>5, <3>1 DEF fileVars
  <2>6. CASE UNCHANGED allVars
    BY <2>6 DEF allVars, vars, fileVars
  <2> QED
    BY <2>1, <2>2, <2>3, <2>4, <2>5, <2>6 DEF WorkflowNext
<1> QED
  BY <1>1, <1>2, WorkflowCreatesServers, TypeInvariant, PTL DEF WorkflowSpec, WorkflowTypeOK
=============================================================================
