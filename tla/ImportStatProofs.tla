-------------------------- MODULE ImportStatProofs --------------------------
(***************************************************************************)
(* Proofs about ImportStat: the goroutines that ask for the domain XML,    *)
(* and those that earlier calls left behind, make a run do nothing that    *)
(* ImportDisks does not, so every theorem of ImportDisksProofs holds of it.*)
(***************************************************************************)
EXTENDS ImportStat, ImportDisksProofs

(* A call is about the server that the run is at, and its goroutine has    *)
(* seen what is there now: only a server may start while the call waits.   *)
CallInv ==
  /\ waiting \in VS \cup {0}
  /\ goroutine \in [VS -> {"none", "stat", "data", "err"}]
  /\ waiting # 0 =>
       /\ pc = "next" /\ todo # <<>> /\ waiting = cur
       /\ goroutine[waiting] = "data" => xml[waiting]
       /\ goroutine[waiting] = "err" => ~xml[waiting]
       /\ expired /\ xml[waiting] => StatTimeouts

(* A run has each server once on its list, and goroutines only for servers *)
(* that it has asked for.                                                  *)
FreshInv ==
  /\ \A m, n \in DOMAIN todo : todo[m] = todo[n] => m = n
  /\ pc = "idle" => goroutine = [v \in VS |-> "none"]
  /\ \A n \in DOMAIN todo :
       n > 1 \/ (pc = "next" /\ waiting = 0) => goroutine[todo[n]] = "none"

(* A process asks for each server at most once.                            *)
AskedOnce == [][AskForXML => goroutine[cur] = "none"]_statVars

(* While no call waits, a step elsewhere is one of ImportDisks.            *)
LEMMA StepElsewhere ==
  ASSUME waiting = 0, CallInv, Next,
         UNCHANGED callVars \/ (pc' = "idle" /\ OS!ProcessEnds)
  PROVE  CallInv'
  BY DEF CallInv, callVars, OS!ProcessEnds

(* The answer that a call gets is one that CheckXML may find.              *)
LEMMA StatImplements ==
  ASSUME TypeInv, CallInv, [StatNext]_statVars
  PROVE  [Next]_vars /\ CallInv'
<1>1. CASE AskForXML
  <2>1. cur \in VS /\ vars' = vars /\ 0 \notin VS
    BY <1>1, CurInPlan DEF AskForXML, TypeInv, TypeOK, VS
  <2>2. cur' = cur /\ UNCHANGED <<pc, todo, xml>>
    BY <2>1 DEF vars, hostVars, cur
  <2>3. CallInv'
    BY <1>1, <2>1, <2>2 DEF AskForXML, OS!Call, CallInv
  <2> QED
    BY <2>1, <2>3
<1>2. CASE TimeRunsOut
  <2>1. vars' = vars /\ cur' = cur /\ UNCHANGED <<pc, todo, xml>>
    BY <1>2 DEF TimeRunsOut, vars, hostVars, cur
  <2>2. CallInv'
    BY <1>2, <2>1 DEF TimeRunsOut, OS!Expire, CallInv
  <2> QED
    BY <2>1, <2>2
<1>3. ASSUME NEW v \in VS, StatEnds(v)
      PROVE  [Next]_vars /\ CallInv'
  <2>1. vars' = vars /\ cur' = cur /\ UNCHANGED <<pc, todo, xml>>
    BY <1>3 DEF StatEnds, vars, hostVars, cur
  <2>2. CallInv'
    BY <1>3, <2>1 DEF StatEnds, OS!Stat, CallInv
  <2> QED
    BY <2>1, <2>2
<1>4. CASE XMLFound
  <2>1. pc = "next" /\ todo # <<>> /\ xml[cur]
    BY <1>4 DEF XMLFound, OS!Receive, CallInv
  <2>2. CheckXML
    BY <1>4, <2>1 DEF XMLFound, CheckXML
  <2>3. CallInv'
    BY <1>4 DEF XMLFound, OS!Receive, CallInv
  <2> QED
    BY <2>2, <2>3 DEF Next, Tool
<1>5. CASE XMLNotFound
  <2>1. pc = "next" /\ todo # <<>> /\ ~xml[cur]
    BY <1>5 DEF XMLNotFound, OS!Receive, CallInv
  <2>2. CheckXML
    BY <1>5, <2>1 DEF XMLNotFound, CheckXML
  <2>3. CallInv'
    BY <1>5 DEF XMLNotFound, OS!Receive, CallInv
  <2> QED
    BY <2>2, <2>3 DEF Next, Tool
<1>6. CASE XMLNotFoundInTime
  <2>1. pc = "next" /\ todo # <<>> /\ (xml[cur] => StatTimeouts)
    BY <1>6 DEF XMLNotFoundInTime, OS!Done, CallInv
  <2>2. CheckXML
    BY <1>6, <2>1 DEF XMLNotFoundInTime, CheckXML, history
  <2>3. CallInv'
    BY <1>6 DEF XMLNotFoundInTime, OS!Done, CallInv
  <2> QED
    BY <2>2, <2>3 DEF Next, Tool
<1>7. CASE Elsewhere(Work)
  <2>1. Next /\ waiting = 0
    BY <1>7 DEF Elsewhere, Work, Next, Tool
  <2> QED
    BY <1>7, <2>1, StepElsewhere DEF Elsewhere
<1>8. CASE Elsewhere(Break)
  BY <1>8, StepElsewhere DEF Elsewhere, Next
<1>9. CASE BreakWaiting
  BY <1>9 DEF BreakWaiting, OS!ProcessEnds, Next, CallInv
<1>10. ASSUME NEW d \in Dirs \cup {NoDir}, Elsewhere(Begin(d))
       PROVE  [Next]_vars /\ CallInv'
  BY <1>10, StepElsewhere DEF Elsewhere, Next
<1>11. ASSUME NEW v \in VS, BootMeanwhile(v)
       PROVE  [Next]_vars /\ CallInv'
  BY <1>11 DEF BootMeanwhile, Boot, callVars, Next, CallInv, cur
<1>12. CASE UNCHANGED statVars
  BY <1>12 DEF statVars, callVars, vars, hostVars, CallInv, cur
<1> QED
  BY <1>1, <1>2, <1>3, <1>4, <1>5, <1>6, <1>7, <1>8, <1>9, <1>10, <1>11, <1>12
  DEF StatNext, StatTool

(* Calls, goroutines and their leftovers stay within ImportDisks.          *)
LEMMA CallInvariant == StatInit /\ [][StatNext]_statVars => [](TypeInv /\ CallInv)
<1>1. StatInit => TypeInv /\ CallInv
  BY TypeInit DEF StatInit, OS!StatInit, CallInv
<1>2. TypeInv /\ CallInv /\ [StatNext]_statVars => (TypeInv /\ CallInv)'
  BY StatImplements, TypeStep
<1> QED
  BY <1>1, <1>2, PTL

(* Finding the domain XML through goroutines, each with its own channels   *)
(* and none stopped by its deadline, implements finding it at once: an     *)
(* answer is about the server that was asked for, and is wrong only when   *)
(* time ran out.                                                           *)
THEOREM StatImplementsImport == StatSpec => ImportSpec
<1>1. StatInit => Init
  BY DEF StatInit
<1>2. TypeInv /\ CallInv /\ [StatNext]_statVars => [Next]_vars
  BY StatImplements
<1>3. StatInit /\ [][StatNext]_statVars => Spec
  BY <1>1, <1>2, CallInvariant, PTL DEF Spec
<1> QED
  BY <1>3, PTL DEF StatSpec, ImportSpec
-----------------------------------------------------------------------------
(* What a run is to import has each server once.                           *)
LEMMA SelectedOnce ==
  ASSUME NEW d
  PROVE  \A m, n \in DOMAIN Selected(d) : Selected(d)[m] = Selected(d)[n] => m = n
  BY DEF Selected

(* No step puts a server on the list again, or starts its goroutine early. *)
LEMMA FreshStep ==
  ASSUME TypeInv, CallInv, FreshInv, [StatNext]_statVars
  PROVE  FreshInv'
<1>a. ASSUME pc' = "idle", goroutine' = [v \in VS |-> "none"], todo' = todo
      PROVE  FreshInv'
  <2>1. \A n \in DOMAIN todo : todo[n] \in VS
    BY LenProperties, ElementOfSeq DEF TypeInv, TypeOK
  <2> QED
    BY <1>a, <2>1 DEF FreshInv
<1>b. ASSUME todo # <<>>
      PROVE  1 \in DOMAIN todo /\ cur = todo[1] /\ cur \in VS
  <2>1. todo \in Seq(VS) /\ Len(todo) \in Nat \ {0} /\ DOMAIN todo = 1..Len(todo)
    BY <1>b, EmptySeq, LenProperties DEF TypeInv, TypeOK
  <2> QED
    BY <2>1, <1>b, CurInPlan DEF cur
<1>c. \A n \in DOMAIN todo : n \in Nat /\ n >= 1
  BY LenProperties DEF TypeInv, TypeOK
<1>1. CASE AskForXML
  <2>1. todo # <<>> /\ pc = "next" /\ UNCHANGED <<pc, todo>>
    BY <1>1 DEF AskForXML, vars
  <2>2. waiting' = cur /\ cur # 0 /\ goroutine' = [goroutine EXCEPT ![cur] = "stat"]
    BY <1>1, <1>b, <2>1 DEF AskForXML, OS!Call, VS
  <2>3. \A n \in DOMAIN todo : n > 1 => todo[n] # cur
    BY <1>b, <2>1 DEF FreshInv
  <2> QED
    BY <2>1, <2>2, <2>3 DEF FreshInv, CallInv
<1>2. CASE TimeRunsOut
  BY <1>2 DEF TimeRunsOut, OS!Expire, vars, FreshInv
<1>3. ASSUME NEW v \in VS, StatEnds(v)
      PROVE  FreshInv'
  <2>1. /\ goroutine[v] = "stat" /\ UNCHANGED <<pc, todo, waiting>>
        /\ \A w \in VS \ {v} : goroutine'[w] = goroutine[w]
    BY <1>3 DEF StatEnds, OS!Stat, vars, CallInv
  <2>2. pc # "idle"
    BY <2>1 DEF FreshInv
  <2>3. \A n \in DOMAIN todo : todo[n] \in VS
    BY LenProperties, ElementOfSeq DEF TypeInv, TypeOK
  <2> QED
    BY <2>1, <2>2, <2>3 DEF FreshInv
<1>4. CASE XMLFound \/ XMLNotFound \/ XMLNotFoundInTime
  <2>1. /\ todo' = todo /\ pc' \in {"destroy", "convert"}
        /\ goroutine' = goroutine \/ goroutine' = [goroutine EXCEPT ![waiting] = "none"]
    BY <1>4 DEF XMLFound, XMLNotFound, XMLNotFoundInTime, OS!Receive, OS!Done
  <2>2. \A n \in DOMAIN todo : todo[n] \in VS
    BY LenProperties, ElementOfSeq DEF TypeInv, TypeOK
  <2> QED
    BY <2>1, <2>2 DEF FreshInv, CallInv
<1>5. CASE Elsewhere(Work)
  <2>1. CASE pc' = "idle"
    <3>1. goroutine' = [v \in VS |-> "none"]
      BY <1>5, <2>1 DEF Elsewhere, OS!ProcessEnds
    <3>2. todo' = todo
      BY <1>5, <2>1 DEF Elsewhere, Work, Convert, Destroy, MovePrimary, UpdateDriver,
                        CountAdditional, MoveAdditional, NextServer, Finish, GiveUp
    <3> QED
      BY <1>a, <2>1, <3>1, <3>2
  <2>2. CASE pc' # "idle" /\ ~NextServer
    <3>1. todo' = todo /\ pc' # "next" /\ UNCHANGED callVars
      BY <1>5, <2>2 DEF Elsewhere, Work, Convert, Destroy, MovePrimary, UpdateDriver,
                        CountAdditional, MoveAdditional, Finish, GiveUp
    <3> QED
      BY <2>2, <3>1 DEF callVars, FreshInv
  <2>3. CASE NextServer
    <3>1. /\ todo # <<>> /\ todo' = Tail(todo) /\ pc' = "next"
          /\ UNCHANGED callVars
      BY <1>5, <2>3 DEF NextServer, Elsewhere, TypeInv, TypeOK
    <3>2. \A n \in DOMAIN todo' : n \in Nat /\ n >= 1 /\ n + 1 \in DOMAIN todo /\ todo'[n] = todo[n + 1]
      <4>1. /\ todo \in Seq(VS) /\ todo' \in Seq(VS) /\ Len(todo') = Len(todo) - 1
            /\ \A n \in 1..Len(todo') : todo'[n] = todo[n + 1]
        BY <3>1, HeadTailProperties DEF TypeInv, TypeOK
      <4> QED
        BY <4>1, LenProperties
    <3>3. \A m, n \in DOMAIN todo' : todo'[m] = todo'[n] => m = n
      BY <3>2 DEF FreshInv
    <3>4. \A n \in DOMAIN todo' : goroutine[todo'[n]] = "none"
      BY <3>2 DEF FreshInv
    <3> QED
      BY <3>1, <3>3, <3>4 DEF callVars, FreshInv
  <2> QED
    BY <2>1, <2>2, <2>3
<1>6. CASE Elsewhere(Break) \/ BreakWaiting
  <2>1. pc' = "idle" /\ todo' = todo
    BY <1>6 DEF Elsewhere, BreakWaiting, Break
  <2> QED
    BY <1>6, <1>a, <2>1 DEF Elsewhere, BreakWaiting, OS!ProcessEnds
<1>7. ASSUME NEW d \in Dirs \cup {NoDir}, Elsewhere(Begin(d))
      PROVE  FreshInv'
  <2>1. todo' = Selected(d) /\ pc = "idle" /\ pc' = "next" /\ goroutine' = goroutine
    BY <1>7 DEF Elsewhere, Begin, callVars
  <2>2. \A n \in DOMAIN Selected(d) : Selected(d)[n] \in VS
    BY SelectedInPlan, LenProperties, ElementOfSeq
  <2>3. goroutine = [v \in VS |-> "none"]
    BY <2>1 DEF FreshInv
  <2> QED
    BY <2>1, <2>2, <2>3, SelectedOnce DEF FreshInv
<1>8. ASSUME NEW v \in VS, BootMeanwhile(v)
      PROVE  FreshInv'
  BY <1>8 DEF BootMeanwhile, Boot, callVars, FreshInv
<1>9. CASE UNCHANGED statVars
  BY <1>9 DEF statVars, callVars, vars, FreshInv
<1> QED
  BY <1>1, <1>2, <1>3, <1>4, <1>5, <1>6, <1>7, <1>8, <1>9 DEF StatNext, StatTool

(* Naming a call by its server loses nothing: a goroutine that an earlier  *)
(* call left behind is never that of the server asked for next.            *)
THEOREM EachAskedOnce == StatSpec => AskedOnce
<1> DEFINE Once == AskForXML => goroutine[cur] = "none"
<1>1. StatInit => FreshInv
  BY DEF StatInit, Init, OS!StatInit, FreshInv
<1>2. TypeInv /\ CallInv /\ FreshInv /\ [StatNext]_statVars => FreshInv'
  BY FreshStep
<1>3. TypeInv /\ FreshInv => Once
  <2> SUFFICES ASSUME TypeInv, FreshInv, AskForXML
               PROVE  goroutine[cur] = "none"
    OBVIOUS
  <2>1. 1 \in DOMAIN todo /\ cur = todo[1]
    BY EmptySeq, LenProperties DEF AskForXML, TypeInv, TypeOK, cur
  <2>2. pc = "next" /\ waiting = 0
    BY DEF AskForXML, OS!Call
  <2> QED
    BY <2>1, <2>2 DEF FreshInv
<1>4. StatInit /\ [][StatNext]_statVars => AskedOnce
  BY <1>1, <1>2, <1>3, CallInvariant, PTL DEF AskedOnce
<1> QED
  BY <1>4, PTL DEF StatSpec
=============================================================================
