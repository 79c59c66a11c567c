----------------------------- MODULE ImportStat -----------------------------
(***************************************************************************)
(* ImportDisks with the way in which it finds the domain XML: CheckXML is  *)
(* replaced by a call of IsExists, which is answered while goroutines of   *)
(* earlier calls, for other virtual servers, may still be at work.         *)
(***************************************************************************)
EXTENDS ImportDisks

VARIABLES waiting, expired, goroutine  \* of OsStat; a call is named by the server

OS == INSTANCE OsStat WITH Name <- VS, NoName <- 0, exists <- xml

callVars == <<waiting, expired, goroutine>>
statVars == <<vars, callVars>>

AskForXML ==
  /\ pc = "next" /\ todo # <<>>
  /\ OS!Call(cur)
  /\ UNCHANGED vars

(* A stat of a file that is there may be too slow only as often as the     *)
(* bound on disturbances allows.                                           *)
TimeRunsOut ==
  /\ OS!Expire
  /\ xml[waiting] => StatTimeouts /\ disturbances < MaxDisturbances
  /\ UNCHANGED vars

StatEnds(v) == OS!Stat(v) /\ UNCHANGED vars

(* IsExists: err == nil. *)
XMLFound ==
  /\ OS!Receive("data")
  /\ pc' = "destroy"
  /\ UNCHANGED <<domain, hostVars, dir, todo, i, exit, history, disturbances>>

XMLNotFound ==
  /\ OS!Receive("err")
  /\ pc' = "convert"
  /\ UNCHANGED <<domain, hostVars, dir, todo, i, exit, history, disturbances>>

XMLNotFoundInTime ==
  /\ OS!Done
  /\ pc' = "convert"
  /\ IF xml[cur] THEN misled' = misled \cup {cur} /\ Disturb
                 ELSE UNCHANGED <<misled, disturbances>>
  /\ UNCHANGED <<domain, hostVars, dir, todo, i, exit, unstopped, halfway>>

(* The other steps of the tool; those that end its run end the process.    *)
Elsewhere(A) ==
  /\ waiting = 0 /\ A
  /\ IF pc' = "idle" THEN OS!ProcessEnds ELSE UNCHANGED callVars

Work == \/ Convert \/ Destroy \/ MovePrimary \/ UpdateDriver
        \/ CountAdditional \/ MoveAdditional \/ NextServer \/ Finish \/ GiveUp

(* A crash while the tool waits for the stat is one of Break at "next".    *)
BreakWaiting ==
  /\ waiting # 0 /\ Break
  /\ OS!ProcessEnds

(* A server may be started while the tool waits.  A stat that ran out of   *)
(* time counts as a disturbance still to come.                             *)
BootMeanwhile(v) ==
  /\ Boot(v)
  /\ expired /\ xml[waiting] => disturbances + 1 < MaxDisturbances
  /\ UNCHANGED callVars

StatTool == AskForXML \/ XMLFound \/ XMLNotFound \/ XMLNotFoundInTime \/ Elsewhere(Work)

StatInit == Init /\ OS!StatInit

StatNext ==
  \/ StatTool
  \/ TimeRunsOut
  \/ \E v \in VS : StatEnds(v)
  \/ Elsewhere(Break) \/ BreakWaiting
  \/ \E d \in Dirs \cup {NoDir} : Elsewhere(Begin(d))
  \/ \E v \in VS : BootMeanwhile(v)

(* A call is answered or runs out of time: os.Stat may hang, and then the  *)
(* timer fires.  The operator imports each virtual server by itself.       *)
StatSpec ==
  /\ StatInit /\ [][StatNext]_statVars
  /\ WF_statVars(StatTool)
  /\ WF_statVars(~expired /\ (TimeRunsOut \/ \E v \in VS : v = waiting /\ StatEnds(v)))
  /\ \A v \in VS :
       SF_statVars(~Imported(v) /\ Elsewhere(Begin([form |-> "full", vs |-> v])))
-----------------------------------------------------------------------------
(* The answer of IsExists is about the file it was asked for, and wrong    *)
(* only when time ran out: whatever goroutines are left over from earlier  *)
(* calls, each step is one of ImportDisks, or none.                        *)
ImportSpec == Spec

(* Once steps stop failing and stats are fast, the reruns get everything   *)
(* imported, except what a run left half done, which no rerun gets past,   *)
(* and what was converted again beside an old XML.  So no call of IsExists *)
(* waits for ever, though os.Stat may hang.                                *)
RerunsCompleteTheRest == <>[](\A v \in VS \ (misled \cup halfway) : Imported(v))
=============================================================================
