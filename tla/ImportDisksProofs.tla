------------------------- MODULE ImportDisksProofs -------------------------
(***************************************************************************)
(* Proofs about ImportDisks, for every plan, every domain XML virt-v2v may *)
(* write, and every sequence of runs, failing steps, crashes and boots.    *)
(***************************************************************************)
EXTENDS ImportDisks, TLAPS, SequenceTheorems

(* The destination directories and the disks are those of the plan.        *)
Shape ==
  /\ DOMAIN out = VS /\ out = [v \in VS |-> out[v]]
  /\ DOMAIN disk = VS /\ disk = [v \in VS |-> disk[v]]
  /\ pc = "extra" => i >= 1

TypeInv == TypeOK /\ Shape

(* The server a run is at is one of the plan, and so are those left.       *)
LEMMA CurInPlan ==
  ASSUME todo \in Seq(VS), todo # <<>>
  PROVE  /\ cur \in VS
         /\ Tail(todo) \in Seq(VS)
         /\ ToSet(todo) = {cur} \cup ToSet(Tail(todo))
<1>1. cur \in VS /\ Tail(todo) \in Seq(VS) /\ Len(todo) \in Nat /\ Len(todo) > 0
  BY HeadTailProperties, EmptySeq, LenProperties DEF cur
<1>2. /\ cur = todo[1]
      /\ Len(Tail(todo)) = Len(todo) - 1
      /\ \A n \in 1..Len(Tail(todo)) : Tail(todo)[n] = todo[n + 1]
  BY <1>1, HeadTailProperties DEF cur
<1>3. DOMAIN todo = 1..Len(todo) /\ DOMAIN Tail(todo) = 1..Len(Tail(todo))
  BY <1>1, LenProperties
<1>4. ToSet(todo) \subseteq {cur} \cup ToSet(Tail(todo))
  <2> SUFFICES ASSUME NEW n \in 1..Len(todo), n # 1
               PROVE  todo[n] \in ToSet(Tail(todo))
    BY <1>2, <1>3 DEF ToSet
  <2>1. n - 1 \in 1..Len(Tail(todo)) /\ Tail(todo)[n - 1] = todo[n]
    BY <1>1, <1>2
  <2> QED
    BY <1>3, <2>1 DEF ToSet
<1>5. {cur} \cup ToSet(Tail(todo)) \subseteq ToSet(todo)
  <2> SUFFICES ASSUME NEW n \in 1..Len(Tail(todo))
               PROVE  Tail(todo)[n] \in ToSet(todo)
    BY <1>1, <1>2, <1>3 DEF ToSet
  <2> QED
    BY <1>1, <1>2, <1>3 DEF ToSet
<1> QED
  BY <1>1, <1>4, <1>5

(* What a run is to import are servers of the plan.                        *)
LEMMA SelectedInPlan == ASSUME NEW d PROVE Selected(d) \in Seq(VS)
<1>1. CASE d \in Dir /\ d.form = "full"
  BY <1>1 DEF Selected, Dir
<1>2. CASE ~(d \in Dir /\ d.form = "full")
  <2>1. [n \in VS |-> n] \in Seq(VS)
    BY ConstantsAssumption DEF VS
  <2> QED
    BY <1>2, <2>1 DEF Selected
<1> QED
  BY <1>1, <1>2

(* A move puts the disk where the plan wants it, with what the image holds,*)
(* takes the image away, and touches nothing else.                         *)
LEMMA MoveEffect ==
  ASSUME TypeInv, todo # <<>>, NEW k, NEW s, s \in Slots(cur), CanMove(k, s), Move(k, s)
  PROVE  /\ cur \in VS /\ xml[cur] /\ k \in DOMAIN domain[cur]
         /\ domain[cur][k] \in Source
         /\ DOMAIN disk' = VS /\ disk' = [v \in VS |-> disk'[v]]
         /\ DOMAIN out' = VS /\ out' = [v \in VS |-> out'[v]]
         /\ \A v \in VS \ {cur} : disk'[v] = disk[v] /\ out'[v] = out[v]
         /\ disk'[cur] \in [Slots(cur) -> Content]
         /\ out'[cur] \in [DOMAIN domain[cur] -> {"none", "partial", "image"}]
         /\ \A t \in Slots(cur) \ {s} : disk'[cur][t] = disk[cur][t]
         /\ disk'[cur][s].src = domain[cur][k]
         /\ disk'[cur][s].state = IF out[cur][k] = "image" THEN "fresh" ELSE "partial"
         /\ out[cur][k] \in {"partial", "image"}
         /\ out'[cur][k] = "none"
         /\ \A j \in DOMAIN domain[cur] \ {k} : out'[cur][j] = out[cur][j]
<1>1. cur \in VS
  BY CurInPlan DEF TypeInv, TypeOK
<1>2. /\ xml[cur] /\ k \in DOMAIN domain[cur] /\ out[cur][k] # "none"
      /\ out[cur] \in [DOMAIN domain[cur] -> {"none", "partial", "image"}]
      /\ disk[cur] \in [Slots(cur) -> Content]
  BY <1>1 DEF CanMove, TypeInv, TypeOK
<1>3. domain[cur][k] \in Source
  <2>1. domain[cur] \in Seq(Source)
    BY <1>1, ConstantsAssumption DEF TypeInv, TypeOK
  <2> QED
    BY <1>2, <2>1, LenProperties, ElementOfSeq
<1>4. [src |-> domain[cur][k],
       state |-> IF out[cur][k] = "image" THEN "fresh" ELSE "partial"] \in Content
  BY <1>3 DEF Content, State
<1>5. DOMAIN disk = VS /\ DOMAIN out = VS
  BY DEF TypeInv, Shape
<1>6. /\ DOMAIN disk' = VS /\ disk' = [v \in VS |-> disk'[v]]
      /\ DOMAIN out' = VS /\ out' = [v \in VS |-> out'[v]]
      /\ \A v \in VS \ {cur} : disk'[v] = disk[v] /\ out'[v] = out[v]
  BY <1>5 DEF Move
<1>7. /\ disk'[cur] = [disk[cur] EXCEPT ![s] =
             [src |-> domain[cur][k],
              state |-> IF out[cur][k] = "image" THEN "fresh" ELSE "partial"]]
      /\ out'[cur] = [out[cur] EXCEPT ![k] = "none"]
  BY <1>1, <1>5 DEF Move
<1> QED
  BY <1>1, <1>2, <1>3, <1>4, <1>6, <1>7

(* The two steps that move an image move one to the slot of its number.    *)
LEMMA MovingStep ==
  ASSUME TypeInv, MovePrimary \/ MoveAdditional
  PROVE  /\ todo # <<>> /\ pc' # "convert" /\ pc # "idle"
         /\ xml' = xml /\ domain' = domain /\ misled' = misled
         /\ \E s \in Slots(cur) : CanMove(s + 1, s) /\ Move(s + 1, s)
<1>1. CASE MovePrimary
  <2>1. 0 \in Slots(cur) /\ 0 + 1 = 1
    BY <1>1, CurInPlan, ConstantsAssumption DEF MovePrimary, TypeInv, TypeOK, Slots
  <2> QED
    BY <1>1, <2>1 DEF MovePrimary, history, TypeInv, TypeOK
<1>2. CASE MoveAdditional
  <2>1. i \in Slots(cur)
    BY <1>2, CurInPlan DEF MoveAdditional, TypeInv, TypeOK, Shape, Slots
  <2> QED
    BY <1>2, <2>1 DEF MoveAdditional, history, TypeInv, TypeOK
<1> QED
  BY <1>1, <1>2

(* Booting a server moves nothing and blanks nothing: fresh disks are used *)
(* from then on.                                                           *)
LEMMA BootEffect ==
  ASSUME TypeInv, NEW w \in VS, Boot(w), NEW v \in VS, NEW s \in Slots(v)
  PROVE  /\ disk'[v][s].src = disk[v][s].src
         /\ disk[v][s].state # "fresh" => disk'[v][s] = disk[v][s]
         /\ disk[v][s].state = "fresh" => disk'[v][s].state \in {"fresh", "used"}
<1>1. CASE w # v
  BY <1>1 DEF Boot, TypeInv, Shape
<1>2. CASE w = v
  <2>1. disk[v][s] \in Content
    BY DEF TypeInv, TypeOK
  <2>2. disk'[v][s] = IF disk[v][s].state = "fresh" THEN [disk[v][s] EXCEPT !.state = "used"]
                                                    ELSE disk[v][s]
    BY <1>2 DEF Boot, TypeInv, Shape
  <2> QED
    BY <2>1, <2>2 DEF Content
<1> QED
  BY <1>1, <1>2

(* ... so it replaces none.                                                *)
LEMMA BootReplacesNone ==
  ASSUME TypeInv, NEW w \in VS, Boot(w), NEW v \in VS
  PROVE  ~Replaced(v)
<1> SUFFICES ASSUME NEW s \in Slots(v), disk'[v][s] # disk[v][s]
             PROVE  disk'[v][s].state = "used"
  BY DEF Replaced
<1>1. disk[v][s].state = "fresh" /\ disk[v][s] \in Content
  BY BootEffect DEF TypeInv, TypeOK
<1>2. CASE w # v
  BY <1>2 DEF Boot, TypeInv, Shape
<1>3. CASE w = v
  <2>1. disk'[v][s] = [disk[v][s] EXCEPT !.state = "used"]
    BY <1>1, <1>3 DEF Boot, TypeInv, Shape
  <2> QED
    BY <1>1, <2>1 DEF Content
<1> QED
  BY <1>2, <1>3

(* Before the first run every variable has its type.                      *)
LEMMA TypeInit == Init => TypeInv
<1> SUFFICES ASSUME Init PROVE TypeInv
  OBVIOUS
<1>1. \A v \in VS : disk[v] \in [Slots(v) -> Content]
  BY DEF Init, Slots, Blank, Content, Source, State
<1> QED
  BY <1>1, ConstantsAssumption DEF Init, TypeInv, TypeOK, Shape

(* ... and no step of the tool, no crash and no boot changes that.         *)
LEMMA TypeStep == TypeInv /\ [Next]_vars => TypeInv'
<1> SUFFICES ASSUME TypeInv, [Next]_vars
             PROVE  TypeInv'
  OBVIOUS
<1> USE ConstantsAssumption
<1>1. ASSUME NEW d \in Dirs \cup {NoDir}, Begin(d)
      PROVE  TypeInv'
  BY <1>1, SelectedInPlan DEF Begin, TypeInv, TypeOK, Shape, hostVars, history, Steps
<1>2. CASE CheckXML
  BY <1>2, CurInPlan DEF CheckXML, Disturb, TypeInv, TypeOK, Shape, hostVars, history, Steps
<1>3. CASE Convert
  <2>1. cur \in VS /\ todo # <<>>
    BY <1>3, CurInPlan DEF Convert, TypeInv, TypeOK
  <2>2. /\ DOMAIN out' = VS /\ out' = [v \in VS |-> out'[v]]
        /\ \A v \in VS : out'[v] \in [DOMAIN domain'[v] -> {"none", "partial", "image"}]
    BY <1>3, <2>1 DEF Convert, TypeInv, TypeOK, Shape
  <2> QED
    BY <1>3, <2>1, <2>2 DEF Convert, TypeInv, TypeOK, Shape, history, Steps
<1>4. CASE Destroy
  <2>1. cur \in VS /\ todo # <<>>
    BY <1>4, CurInPlan DEF Destroy, TypeInv, TypeOK
  <2>2. power' \in [VS -> {"on", "off"}] /\ unstopped' \subseteq VS
    BY <1>4, <2>1 DEF Destroy, TypeInv, TypeOK
  <2>3. disturbances' \in 0..MaxDisturbances
    BY <1>4 DEF Destroy, Disturb, TypeInv, TypeOK
  <2> QED
    BY <1>4, <2>1, <2>2, <2>3 DEF Destroy, TypeInv, TypeOK, Shape, Steps
<1>5. CASE MovePrimary
  <2>1. todo # <<>> /\ 0 \in Slots(cur)
    BY <1>5, CurInPlan DEF MovePrimary, TypeInv, TypeOK, Slots
  <2>2. CanMove(1, 0) /\ Move(1, 0)
    BY <1>5 DEF MovePrimary
  <2>3. /\ DOMAIN disk' = VS /\ disk' = [v \in VS |-> disk'[v]]
        /\ DOMAIN out' = VS /\ out' = [v \in VS |-> out'[v]]
        /\ \A v \in VS : /\ disk'[v] \in [Slots(v) -> Content]
                         /\ out'[v] \in [DOMAIN domain[v] -> {"none", "partial", "image"}]
    BY <2>1, <2>2, MoveEffect DEF TypeInv, TypeOK
  <2> QED
    BY <1>5, <2>1, <2>3 DEF MovePrimary, TypeInv, TypeOK, Shape, history, Steps
<1>6. CASE UpdateDriver
  BY <1>6, CurInPlan DEF UpdateDriver, TypeInv, TypeOK, Shape, history, Steps
<1>7. CASE CountAdditional
  BY <1>7 DEF CountAdditional, TypeInv, TypeOK, Shape, hostVars, history, Steps
<1>8. CASE MoveAdditional
  <2>1. todo # <<>> /\ i \in Slots(cur)
    BY <1>8, CurInPlan DEF MoveAdditional, TypeInv, TypeOK, Shape, Slots
  <2>2. CanMove(i + 1, i) /\ Move(i + 1, i)
    BY <1>8 DEF MoveAdditional
  <2>3. /\ DOMAIN disk' = VS /\ disk' = [v \in VS |-> disk'[v]]
        /\ DOMAIN out' = VS /\ out' = [v \in VS |-> out'[v]]
        /\ \A v \in VS : /\ disk'[v] \in [Slots(v) -> Content]
                         /\ out'[v] \in [DOMAIN domain[v] -> {"none", "partial", "image"}]
    BY <2>1, <2>2, MoveEffect DEF TypeInv, TypeOK
  <2> QED
    BY <1>8, <2>1, <2>3 DEF MoveAdditional, TypeInv, TypeOK, Shape, history, Steps
<1>9. CASE NextServer
  BY <1>9, CurInPlan DEF NextServer, TypeInv, TypeOK, Shape, hostVars, history, Steps
<1>0. Leave => misled' = misled /\ unstopped' = unstopped /\ halfway' \subseteq VS
  BY CurInPlan DEF Leave, Moving, TypeInv, TypeOK
<1>10. CASE Finish \/ GiveUp
  BY <1>0, <1>10 DEF Finish, GiveUp, TypeInv, TypeOK, Shape, hostVars, history
<1>11. CASE Break
  <2>1. CASE pc = "convert" /\ UNCHANGED driver
             /\ \E left \in [DOMAIN domain[cur] -> {"none", "partial", "image"}] :
                  out' = [out EXCEPT ![cur] = left]
    <3>1. /\ DOMAIN out' = VS /\ out' = [v \in VS |-> out'[v]]
          /\ \A v \in VS : out'[v] \in [DOMAIN domain[v] -> {"none", "partial", "image"}]
      BY <2>1, CurInPlan DEF TypeInv, TypeOK, Shape
    <3> QED
      BY <1>0, <1>11, <2>1, <3>1 DEF Break, Disturb, TypeInv, TypeOK, Shape
  <2>2. CASE UNCHANGED out /\ (driver' = [driver EXCEPT ![cur] = "sata"] \/ UNCHANGED driver)
    <3>1. driver' \in [VS -> {"default", "sata"}]
      BY <2>2 DEF TypeInv, TypeOK
    <3> QED
      BY <1>0, <1>11, <2>2, <3>1 DEF Break, Disturb, TypeInv, TypeOK, Shape
  <2> QED
    BY <1>11, <2>1, <2>2 DEF Break
<1>12. ASSUME NEW v \in VS, Boot(v)
       PROVE  TypeInv'
  <2>1. /\ DOMAIN disk' = VS /\ disk' = [w \in VS |-> disk'[w]]
        /\ \A w \in VS \ {v} : disk'[w] = disk[w]
        /\ disk'[v] = [s \in Slots(v) |->
             IF disk[v][s].state = "fresh" THEN [disk[v][s] EXCEPT !.state = "used"]
                                           ELSE disk[v][s]]
    BY <1>12 DEF Boot, TypeInv, Shape
  <2>2. disk'[v] \in [Slots(v) -> Content]
    <3> SUFFICES ASSUME NEW s \in Slots(v)
                 PROVE  disk'[v][s] \in Content
      BY <2>1
    <3>1. disk[v][s] \in Content
      BY DEF TypeInv, TypeOK
    <3>2. [disk[v][s] EXCEPT !.state = "used"] \in Content
      BY <3>1 DEF Content, State
    <3> QED
      BY <2>1, <3>1, <3>2
  <2>3. power' \in [VS -> {"on", "off"}] /\ unstopped' \subseteq VS
    BY <1>12 DEF Boot, TypeInv, TypeOK
  <2> QED
    BY <1>12, <2>1, <2>2, <2>3 DEF Boot, Disturb, TypeInv, TypeOK, Shape
<1>13. CASE UNCHANGED vars
  BY <1>13 DEF vars, hostVars, history, TypeInv, TypeOK, Shape
<1> QED
  BY <1>1, <1>2, <1>3, <1>4, <1>5, <1>6, <1>7, <1>8, <1>9, <1>10, <1>11, <1>12, <1>13
  DEF Next, Tool

(* Every variable holds what it is declared to hold, through every run,    *)
(* crash and rerun.                                                        *)
THEOREM TypeInvariant == Spec => []TypeInv
  BY TypeInit, TypeStep, PTL DEF Spec

(* ... in particular what the runs of TLC check of them.                   *)
THEOREM TypeCorrect == Spec => []TypeOK
<1>1. TypeInv => TypeOK
  BY DEF TypeInv
<1> QED
  BY <1>1, TypeInvariant, PTL
-----------------------------------------------------------------------------
(* Where a disk was moved the conversion had ended and its image is gone,  *)
(* and beside a domain XML lie complete images only, or none; both as long *)
(* as no run took the XML for missing.                                     *)
MovedOnce(v) ==
  \A s \in Slots(v) : disk[v][s].state # "blank" =>
    /\ xml[v]
    /\ s + 1 \in DOMAIN domain[v] => out[v][s + 1] = "none"

Complete(v) ==
  /\ \A s \in Slots(v) : disk[v][s].state # "partial"
  /\ xml[v] => \A k \in DOMAIN domain[v] : out[v][k] # "partial"

NotConverted(v) == pc = "convert" /\ v = cur => ~xml[v]

ImageInv ==
  \A v \in VS \ misled : MovedOnce(v) /\ Complete(v) /\ NotConverted(v)

(* What a run knows of the server it is at, and of those it has left.      *)
Placed(v) ==
  /\ \A s \in Slots(v) : disk[v][s].state # "blank"
  /\ v \in Windows => driver[v] = "sata"

AtCur ==
  /\ pc \in {"driver", "count", "extra"} => disk[cur][0].state # "blank"
  /\ pc \in {"count", "extra"} /\ cur \in Windows => driver[cur] = "sata"
  /\ pc = "extra" => \A s \in Slots(cur) : s < i => disk[cur][s].state # "blank"

RunInv ==
  /\ pc # "idle" =>
       \A v \in ToSet(Selected(dir)) : v \in ToSet(todo) \/ Placed(v)
  /\ AtCur
  /\ OkMeansImported

(* The server of a run that moves disks is off, or was found not to stop.  *)
PowerInv ==
  pc \in {"primary", "driver", "count", "extra"} =>
    cur \in unstopped \/ power[cur] = "off"

(* With -vm-dir as origin_dir has it, a run has that server to do only.    *)
VMDirInv ==
  pc # "idle" /\ dir # NoDir /\ dir.form = "full" => \A v \in ToSet(todo) : v = dir.vs

(* A move keeps the images in order: the one moved is complete, is gone    *)
(* afterwards, and no other slot or image is touched.                      *)
LEMMA MoveKeepsImages ==
  ASSUME TypeInv, ImageInv, todo # <<>>, NEW s \in Slots(cur), CanMove(s + 1, s),
         Move(s + 1, s), xml' = xml, domain' = domain, misled' = misled, NEW v \in VS \ misled
  PROVE  MovedOnce(v)' /\ Complete(v)'
<1>1. /\ \A t \in Slots(cur) \ {s} : disk'[cur][t] = disk[cur][t]
      /\ disk'[cur][s].state = IF out[cur][s + 1] = "image" THEN "fresh" ELSE "partial"
      /\ out[cur][s + 1] \in {"partial", "image"} /\ s + 1 \in DOMAIN domain[cur] /\ xml[cur]
      /\ out'[cur][s + 1] = "none"
      /\ \A j \in DOMAIN domain[cur] \ {s + 1} : out'[cur][j] = out[cur][j]
      /\ \A w \in VS \ {cur} : disk'[w] = disk[w] /\ out'[w] = out[w]
  BY MoveEffect
<1>2. MovedOnce(v) /\ Complete(v)
  BY DEF ImageInv
<1>3. CASE v # cur
  BY <1>1, <1>2, <1>3 DEF MovedOnce, Complete
<1>4. CASE v = cur
  <2>1. disk'[cur][s].state = "fresh"
    BY <1>1, <1>2, <1>4 DEF Complete
  <2>2. MovedOnce(v)'
    <3> SUFFICES ASSUME NEW t \in Slots(cur), disk'[cur][t].state # "blank"
                 PROVE  xml[cur] /\ (t + 1 \in DOMAIN domain[cur] => out'[cur][t + 1] = "none")
      BY <1>4 DEF MovedOnce
    <3>1. CASE t = s
      BY <1>1, <3>1
    <3>2. CASE t # s
      <4>1. t + 1 # s + 1
        BY <3>2 DEF Slots
      <4> QED
        BY <1>1, <1>2, <1>4, <3>2, <4>1 DEF MovedOnce
    <3> QED
      BY <3>1, <3>2
  <2>3. Complete(v)'
    BY <1>1, <1>2, <1>4, <2>1 DEF Complete
  <2> QED
    BY <2>2, <2>3
<1> QED
  BY <1>3, <1>4

(* No step moves an image that is not complete, or moves one twice.        *)
LEMMA ImageStep == TypeInv /\ ImageInv /\ [Next]_vars => ImageInv'
<1> SUFFICES ASSUME TypeInv, ImageInv, [Next]_vars
             PROVE  ImageInv'
  OBVIOUS
<1>0. misled \subseteq misled'
  BY DEF Next, Tool, Begin, CheckXML, Convert, Destroy, MovePrimary, UpdateDriver, CountAdditional,
         MoveAdditional, NextServer, Finish, GiveUp, Break, Leave, Boot, vars, history
<1> SUFFICES ASSUME NEW v \in VS \ misled, v \notin misled'
             PROVE  (MovedOnce(v) /\ Complete(v) /\ NotConverted(v))'
  BY <1>0 DEF ImageInv
<1>a. MovedOnce(v) /\ Complete(v) /\ NotConverted(v)
  BY DEF ImageInv
<1>1. ASSUME NEW d \in Dirs \cup {NoDir}, Begin(d)
      PROVE  (MovedOnce(v) /\ Complete(v) /\ NotConverted(v))'
  BY <1>1, <1>a DEF Begin, hostVars, MovedOnce, Complete, NotConverted
<1>2. CASE CheckXML
  BY <1>2, <1>a DEF CheckXML, hostVars, cur, MovedOnce, Complete, NotConverted
<1>3. CASE Convert
  <2>1. cur \in VS
    BY <1>3, CurInPlan DEF Convert, TypeInv, TypeOK
  <2>2. CASE v = cur
    <3>1. \A s \in Slots(v) : disk[v][s].state = "blank"
      BY <1>3, <1>a, <2>2 DEF Convert, MovedOnce, NotConverted
    <3>2. out'[v] = [k \in DOMAIN domain[v] |-> "image"] /\ disk' = disk
      BY <1>3, <2>1, <2>2 DEF Convert, TypeInv, Shape
    <3> QED
      BY <1>3, <3>1, <3>2 DEF Convert, MovedOnce, Complete, NotConverted
  <2>3. CASE v # cur
    <3>1. out'[v] = out[v] /\ xml'[v] = xml[v]
      BY <1>3, <2>3 DEF Convert, TypeInv, TypeOK, Shape
    <3> QED
      BY <1>3, <1>a, <3>1 DEF Convert, MovedOnce, Complete, NotConverted
  <2> QED
    BY <2>2, <2>3
<1>4. CASE Destroy
  BY <1>4, <1>a DEF Destroy, MovedOnce, Complete, NotConverted
<1>5. CASE MovePrimary \/ MoveAdditional
  BY <1>5, MovingStep, MoveKeepsImages DEF NotConverted
<1>6. CASE UpdateDriver
  BY <1>6, <1>a DEF UpdateDriver, MovedOnce, Complete, NotConverted
<1>7. CASE CountAdditional
  BY <1>7, <1>a DEF CountAdditional, hostVars, MovedOnce, Complete, NotConverted
<1>8. CASE NextServer
  BY <1>8, <1>a DEF NextServer, hostVars, MovedOnce, Complete, NotConverted
<1>9. CASE Finish \/ GiveUp
  BY <1>9, <1>a DEF Finish, GiveUp, hostVars, MovedOnce, Complete, NotConverted
<1>10. CASE Break
  <2>1. CASE pc = "convert" /\ v = cur
    <3>1. ~xml[v] /\ xml' = xml /\ disk' = disk /\ domain' = domain /\ pc' # "convert"
      BY <1>10, <1>a, <2>1 DEF Break, NotConverted
    <3> QED
      BY <1>a, <3>1 DEF MovedOnce, Complete, NotConverted
  <2>2. CASE ~(pc = "convert" /\ v = cur)
    <3>1. out'[v] = out[v]
      BY <1>10, <2>2 DEF Break, TypeInv, Shape
    <3> QED
      BY <1>10, <1>a, <3>1 DEF Break, MovedOnce, Complete, NotConverted
  <2> QED
    BY <2>1, <2>2
<1>11. ASSUME NEW w \in VS, Boot(w)
       PROVE  (MovedOnce(v) /\ Complete(v) /\ NotConverted(v))'
  <2>1. \A s \in Slots(v) : /\ disk'[v][s].state = "blank" <=> disk[v][s].state = "blank"
                            /\ disk'[v][s].state = "partial" <=> disk[v][s].state = "partial"
    BY <1>11, BootEffect
  <2>2. xml' = xml /\ out' = out /\ domain' = domain /\ pc' = pc /\ cur' = cur
    BY <1>11 DEF Boot, cur
  <2> QED
    BY <1>a, <2>1, <2>2 DEF MovedOnce, Complete, NotConverted
<1>12. CASE UNCHANGED vars
  BY <1>12, <1>a DEF vars, hostVars, cur, MovedOnce, Complete, NotConverted
<1> QED
  BY <1>1, <1>2, <1>3, <1>4, <1>5, <1>6, <1>7, <1>8, <1>9, <1>10, <1>11, <1>12
  DEF Next, Tool

(* So it stays, from the first run on.                                     *)
LEMMA ImageInvariant == Spec => []ImageInv
<1>1. Init => ImageInv
  BY DEF Init, Blank, ImageInv, MovedOnce, Complete, NotConverted
<1> QED
  BY <1>1, TypeInvariant, ImageStep, PTL DEF Spec

(* An image that a conversion left incomplete is never moved over a disk,  *)
(* however many runs break off, unless one took the XML for missing.       *)
THEOREM IncompleteNeverMoved == Spec => []OnlyCompleteImages
<1>1. ImageInv => OnlyCompleteImages
  BY DEF ImageInv, Complete, OnlyCompleteImages
<1> QED
  BY <1>1, ImageInvariant, PTL

(* A disk that an imported server has run on is never replaced, though     *)
(* reruns process the server again: the image has left its path.           *)
THEOREM UsedDisksKept == Spec => ImportedDisksKept
<1> DEFINE Kept == \A v \in VS \ misled : \A s \in Slots(v) :
                     disk[v][s].state = "used" => disk'[v][s] = disk[v][s]
<1>1. TypeInv /\ ImageInv /\ [Next]_vars => Kept
  <2> SUFFICES ASSUME TypeInv, ImageInv, [Next]_vars,
                      NEW v \in VS \ misled, NEW s \in Slots(v), disk[v][s].state = "used"
               PROVE  disk'[v][s] = disk[v][s]
    OBVIOUS
  <2>1. s + 1 \in DOMAIN domain[v] => out[v][s + 1] = "none"
    BY DEF ImageInv, MovedOnce
  <2>2. CASE MovePrimary \/ MoveAdditional
    <3>1. PICK t \in Slots(cur) : CanMove(t + 1, t) /\ Move(t + 1, t)
      BY <2>2, MovingStep
    <3>2. ~(v = cur /\ s = t)
      BY <2>1, <3>1 DEF CanMove
    <3> QED
      BY <2>2, <3>1, <3>2, MovingStep, MoveEffect
  <2>3. ASSUME NEW w \in VS, Boot(w)
        PROVE  disk'[v][s] = disk[v][s]
    BY <2>3, BootEffect
  <2>4. CASE disk' = disk
    BY <2>4
  <2> QED
    BY <2>2, <2>3, <2>4
    DEF Next, Tool, Begin, CheckXML, Convert, Destroy, UpdateDriver, CountAdditional,
        NextServer, Finish, GiveUp, Break, vars, hostVars
<1> QED
  BY <1>1, TypeInvariant, ImageInvariant, PTL DEF Spec, ImportedDisksKept
-----------------------------------------------------------------------------
(* What virt-v2v lists for a server is the same whenever it converts it.   *)
LEMMA DomainStays == ASSUME [Next]_vars PROVE domain' = domain
  BY DEF Next, Tool, Begin, CheckXML, Convert, Destroy, MovePrimary, UpdateDriver,
         CountAdditional, MoveAdditional, NextServer, Finish, GiveUp, Break, Boot, vars

(* Whatever virt-v2v lists, in whatever order, a destination holds the     *)
(* image of the disk listed at its number, through broken runs and reruns; *)
(* ImportDisksOrder shows what comes of it when the order is not the       *)
(* plan's.                                                                 *)
THEOREM PlacedAsListed == Spec => []PlacedByPosition
<1>1. Init => PlacedByPosition
  BY DEF Init, Blank, PlacedByPosition
<1>2. TypeInv /\ PlacedByPosition /\ [Next]_vars => PlacedByPosition'
  <2> SUFFICES ASSUME TypeInv, PlacedByPosition, [Next]_vars, NEW v \in VS, NEW s \in Slots(v),
                      disk'[v][s].state # "blank"
               PROVE  s + 1 \in DOMAIN domain[v] /\ disk'[v][s].src = domain[v][s + 1]
    BY DomainStays DEF PlacedByPosition
  <2>1. disk[v][s].state # "blank" =>
          s + 1 \in DOMAIN domain[v] /\ disk[v][s].src = domain[v][s + 1]
    BY DEF PlacedByPosition
  <2>2. CASE MovePrimary \/ MoveAdditional
    <3>1. PICK t \in Slots(cur) : CanMove(t + 1, t) /\ Move(t + 1, t)
      BY <2>2, MovingStep
    <3>2. t + 1 \in DOMAIN domain[cur] /\ disk'[cur][t].src = domain[cur][t + 1]
      BY <2>2, <3>1, MovingStep, MoveEffect
    <3> QED
      BY <2>1, <2>2, <3>1, <3>2, MovingStep, MoveEffect
  <2>3. ASSUME NEW w \in VS, Boot(w)
        PROVE  s + 1 \in DOMAIN domain[v] /\ disk'[v][s].src = domain[v][s + 1]
    BY <2>1, <2>3, BootEffect
  <2>4. CASE disk' = disk
    BY <2>1, <2>4
  <2> QED
    BY <2>2, <2>3, <2>4
    DEF Next, Tool, Begin, CheckXML, Convert, Destroy, UpdateDriver, CountAdditional,
        NextServer, Finish, GiveUp, Break, vars, hostVars
<1> QED
  BY <1>1, <1>2, TypeInvariant, PTL DEF Spec
-----------------------------------------------------------------------------
(* No step takes back what a virtual server has got.                       *)
LEMMA PlacedStays ==
  ASSUME TypeInv, [Next]_vars, NEW v \in VS
  PROVE  /\ \A s \in Slots(v) : disk[v][s].state # "blank" => disk'[v][s].state # "blank"
         /\ driver[v] = "sata" => driver'[v] = "sata"
         /\ Placed(v) => Placed(v)'
<1>1. ASSUME NEW s \in Slots(v), disk[v][s].state # "blank"
      PROVE  disk'[v][s].state # "blank"
  <2>1. CASE MovePrimary \/ MoveAdditional
    BY <1>1, <2>1, MovingStep, MoveEffect
  <2>2. ASSUME NEW w \in VS, Boot(w)
        PROVE  disk'[v][s].state # "blank"
    BY <1>1, <2>2, BootEffect
  <2>3. CASE disk' = disk
    BY <1>1, <2>3
  <2> QED
    BY <2>1, <2>2, <2>3
    DEF Next, Tool, Begin, CheckXML, Convert, Destroy, UpdateDriver, CountAdditional,
        NextServer, Finish, GiveUp, Break, vars, hostVars
<1>2. driver' = driver \/ driver' = [driver EXCEPT ![cur] = "sata"]
  BY DEF Next, Tool, Begin, CheckXML, Convert, Destroy, MovePrimary, UpdateDriver, CountAdditional,
         MoveAdditional, NextServer, Finish, GiveUp, Break, Boot, vars, hostVars
<1>3. driver[v] = "sata" => driver'[v] = "sata"
  BY <1>2 DEF TypeInv, TypeOK
<1> QED
  BY <1>1, <1>3 DEF Placed

(* A server leaves the list of a run only when all of it is in place.      *)
LEMMA RunStep == TypeInv /\ RunInv /\ [Next]_vars => RunInv'
<1> SUFFICES ASSUME TypeInv, RunInv, [Next]_vars
             PROVE  RunInv'
  OBVIOUS
<1> DEFINE Listed == pc # "idle" =>
             \A v \in ToSet(Selected(dir)) : v \in ToSet(todo) \/ Placed(v)
<1>a. \A v \in ToSet(Selected(dir)) : v \in VS /\ (Placed(v) => Placed(v)')
  <2>1. ToSet(Selected(dir)) \subseteq VS
    BY SelectedInPlan, ElementOfSeq, LenProperties DEF ToSet
  <2> QED
    BY <2>1, PlacedStays
<1>b. ASSUME pc # "idle", pc' # "idle", todo' = todo, dir' = dir
      PROVE  Listed' /\ OkMeansImported'
  BY <1>a, <1>b DEF RunInv, OkMeansImported
<1>c. ASSUME todo # <<>>
      PROVE  cur \in VS /\ 0 \in Slots(cur)
  BY <1>c, CurInPlan, ConstantsAssumption DEF TypeInv, TypeOK, Slots
<1>1. ASSUME NEW d \in Dirs \cup {NoDir}, Begin(d)
      PROVE  RunInv'
  BY <1>1 DEF Begin, RunInv, AtCur, OkMeansImported
<1>2. CASE CheckXML \/ Convert \/ Destroy
  <2>1. AtCur'
    BY <1>2 DEF CheckXML, Convert, Destroy, AtCur
  <2> QED
    BY <1>2, <1>b, <2>1 DEF CheckXML, Convert, Destroy, RunInv
<1>3. CASE MovePrimary
  <2>1. disk'[cur][0].state # "blank"
    BY <1>3, <1>c, MoveEffect DEF MovePrimary, TypeInv, TypeOK
  <2>2. AtCur'
    BY <1>3, <2>1 DEF MovePrimary, AtCur, cur
  <2> QED
    BY <1>3, <1>b, <2>2 DEF MovePrimary, RunInv
<1>4. CASE UpdateDriver
  <2>1. todo # <<>> /\ driver'[cur] = "sata" /\ cur' = cur /\ disk' = disk
    BY <1>4, <1>c DEF UpdateDriver, TypeInv, TypeOK, cur
  <2>2. AtCur'
    BY <1>4, <2>1 DEF UpdateDriver, RunInv, AtCur
  <2> QED
    BY <1>4, <1>b, <2>2 DEF UpdateDriver, RunInv
<1>5. CASE CountAdditional
  <2>1. \A s \in Slots(cur) : s < 1 => s = 0
    BY DEF Slots
  <2>2. AtCur'
    BY <1>5, <2>1 DEF CountAdditional, hostVars, RunInv, AtCur, cur
  <2> QED
    BY <1>5, <1>b, <2>2 DEF CountAdditional, RunInv
<1>6. CASE MoveAdditional
  <2>1. /\ todo # <<>> /\ i \in Slots(cur) /\ i \in Nat /\ cur' = cur
        /\ CanMove(i + 1, i) /\ Move(i + 1, i)
    BY <1>6, CurInPlan DEF MoveAdditional, TypeInv, TypeOK, Shape, Slots, cur
  <2>2. disk'[cur][i].state # "blank"
    BY <2>1, MoveEffect
  <2>3. \A s \in Slots(cur) : s < i + 1 => s = i \/ s < i
    BY <2>1 DEF Slots
  <2>4. AtCur'
    BY <1>6, <1>c, <2>1, <2>2, <2>3, PlacedStays DEF MoveAdditional, RunInv, AtCur
  <2> QED
    BY <1>6, <1>b, <2>4 DEF MoveAdditional, RunInv
<1>7. CASE NextServer
  <2>1. todo # <<>> /\ cur \in VS /\ ToSet(todo) = {cur} \cup ToSet(todo')
    BY <1>7, CurInPlan DEF NextServer, TypeInv, TypeOK
  <2>2. \A s \in Slots(cur) : s < i
    BY <1>7, <2>1, ConstantsAssumption DEF NextServer, Slots, TypeInv, TypeOK
  <2>3. Placed(cur)
    BY <1>7, <2>2 DEF NextServer, RunInv, AtCur, Placed
  <2> QED
    BY <1>7, <1>a, <2>1, <2>3 DEF NextServer, RunInv, AtCur, OkMeansImported
<1>8. CASE Finish
  <2>1. ToSet(todo) = {}
    BY <1>8 DEF Finish, ToSet
  <2> QED
    BY <1>8, <1>a, <2>1 DEF Finish, RunInv, AtCur, OkMeansImported, Placed
<1>9. CASE GiveUp \/ Break
  BY <1>9 DEF GiveUp, Break, RunInv, AtCur, OkMeansImported
<1>10. ASSUME NEW v \in VS, Boot(v)
       PROVE  RunInv'
  <2>1. UNCHANGED <<pc, todo, dir, exit, i, driver>> /\ cur' = cur
    BY <1>10 DEF Boot, cur
  <2>2. (\A w \in ToSet(Selected(dir)) : w \in ToSet(todo) \/ Placed(w)) =>
          \A w \in ToSet(Selected(dir)) : w \in ToSet(todo) \/ Placed(w)'
    BY <1>a
  <2>3. AtCur'
    <3>1. CASE pc \in {"idle", "next"}
      BY <2>1, <3>1 DEF AtCur
    <3>2. CASE todo # <<>>
      <4>1. cur \in VS /\ 0 \in Slots(cur)
        BY <1>c, <3>2
      <4>2. \A s \in Slots(cur) : disk[cur][s].state # "blank" => disk'[cur][s].state # "blank"
        BY <4>1, PlacedStays
      <4> QED
        BY <2>1, <4>1, <4>2 DEF RunInv, AtCur
    <3> QED
      BY <3>1, <3>2 DEF TypeInv, TypeOK
  <2>4. OkMeansImported'
    <3> SUFFICES ASSUME pc = "idle", exit = "ok", NEW w \in ToSet(Selected(dir))
                 PROVE  Placed(w)'
      BY <2>1 DEF OkMeansImported, Placed
    <3>1. Placed(w)
      BY DEF RunInv, OkMeansImported, Placed
    <3> QED
      BY <1>a, <3>1
  <2> QED
    BY <2>1, <2>2, <2>3, <2>4 DEF RunInv
<1>11. CASE UNCHANGED vars
  <2>1. UNCHANGED <<disk, driver, pc, todo, dir, exit, i>>
    BY <1>11 DEF vars, hostVars
  <2> QED
    BY <2>1 DEF RunInv, AtCur, OkMeansImported, Placed, cur
<1> QED
  BY <1>1, <1>2, <1>3, <1>4, <1>5, <1>6, <1>7, <1>8, <1>9, <1>10, <1>11
  DEF Next, Tool

(* A run that reports success has filled every destination of each virtual *)
(* server it was to import, and set the driver of those that run Windows.  *)
THEOREM SuccessMeansImported == Spec => []OkMeansImported
<1>1. Init => RunInv
  BY DEF Init, RunInv, AtCur, OkMeansImported
<1>2. RunInv => OkMeansImported
  BY DEF RunInv
<1> QED
  BY <1>1, <1>2, RunStep, TypeInvariant, PTL DEF Spec
-----------------------------------------------------------------------------
(* A run stops each server before it touches its disks, or finds that it   *)
(* cannot.                                                                 *)
LEMMA PowerStep == TypeInv /\ PowerInv /\ [Next]_vars => PowerInv'
<1> SUFFICES ASSUME TypeInv, PowerInv, [Next]_vars
             PROVE  PowerInv'
  OBVIOUS
<1>1. CASE Destroy
  <2>1. cur \in VS /\ cur' = cur
    BY <1>1, CurInPlan DEF Destroy, TypeInv, TypeOK, cur
  <2> QED
    BY <1>1, <2>1 DEF Destroy, PowerInv, TypeInv, TypeOK
<1>2. CASE MovePrimary \/ UpdateDriver \/ CountAdditional \/ MoveAdditional
  BY <1>2 DEF MovePrimary, UpdateDriver, CountAdditional, MoveAdditional, hostVars, history,
              PowerInv, cur
<1>3. CASE pc' \in {"idle", "next", "convert", "destroy"}
  BY <1>3 DEF PowerInv
<1>4. ASSUME NEW w \in VS, Boot(w)
      PROVE  PowerInv'
  <2>1. cur' = cur /\ pc' = pc
    BY <1>4 DEF Boot, cur
  <2>2. w # cur => power'[cur] = power[cur] /\ (cur \in unstopped => cur \in unstopped')
    BY <1>4 DEF Boot, TypeInv, TypeOK
  <2>3. w = cur /\ pc \in {"primary", "driver", "count", "extra"} => cur \in unstopped'
    BY <1>4 DEF Boot, Moving
  <2> QED
    BY <2>1, <2>2, <2>3 DEF PowerInv
<1>5. CASE UNCHANGED vars
  BY <1>5 DEF vars, hostVars, history, PowerInv, cur
<1> QED
  BY <1>1, <1>2, <1>3, <1>4, <1>5
  DEF Next, Tool, Begin, CheckXML, Convert, NextServer, Finish, GiveUp, Break

(* A disk is replaced only while its server is off, on reruns as well,     *)
(* unless virsh failed to stop the server or it was started between virsh  *)
(* and the move.                                                           *)
THEOREM MovesWhileOff == Spec => NoMoveUnderRunningServer
<1> DEFINE Off == \A v \in VS \ unstopped : Replaced(v) => power[v] = "off"
<1>1. Init => PowerInv
  BY DEF Init, PowerInv
<1>2. TypeInv /\ PowerInv /\ [Next]_vars => Off
  <2> SUFFICES ASSUME TypeInv, PowerInv, [Next]_vars,
                      NEW v \in VS \ unstopped, Replaced(v)
               PROVE  power[v] = "off"
    OBVIOUS
  <2>0. disk'[v] # disk[v]
    BY DEF Replaced
  <2>1. CASE MovePrimary \/ MoveAdditional
    <3>1. v = cur
      BY <2>0, <2>1, MovingStep, MoveEffect
    <3> QED
      BY <2>1, <3>1 DEF MovePrimary, MoveAdditional, PowerInv
  <2>2. ASSUME NEW w \in VS, Boot(w)
        PROVE  FALSE
    BY <2>2, BootReplacesNone
  <2>3. CASE disk' = disk
    BY <2>0, <2>3
  <2> QED
    BY <2>1, <2>2, <2>3
    DEF Next, Tool, Begin, CheckXML, Convert, Destroy, UpdateDriver, CountAdditional,
        NextServer, Finish, GiveUp, Break, vars, hostVars
<1> QED
  BY <1>1, <1>2, PowerStep, TypeInvariant, PTL DEF Spec, NoMoveUnderRunningServer

(* With -vm-dir in the form that origin_dir has, a run does nothing to the *)
(* images, disks, settings and power of any other virtual server, though   *)
(* it may be started meanwhile.  Nothing is said of the bare form, with    *)
(* which a run takes the whole plan: ImportDisksVMDir shows it.            *)
THEOREM OthersUntouched == Spec => OnlyOriginDir
<1> DEFINE Alone == \A v \in VS :
             dir # NoDir /\ dir.form = "full" /\ dir.vs # v /\ pc # "idle" => Untouched(v)
<1>1. Init => VMDirInv
  BY DEF Init, VMDirInv
<1>2. TypeInv /\ VMDirInv /\ [Next]_vars => VMDirInv'
  <2> SUFFICES ASSUME TypeInv, VMDirInv, [Next]_vars
               PROVE  VMDirInv'
    OBVIOUS
  <2>1. ASSUME NEW d \in Dirs \cup {NoDir}, Begin(d)
        PROVE  VMDirInv'
    <3>1. d # NoDir => d \in Dir
      BY ConstantsAssumption
    <3>2. d # NoDir /\ d.form = "full" => todo' = <<d.vs>> /\ dir' = d
      BY <2>1, <3>1 DEF Begin, Selected
    <3>3. dir' = d
      BY <2>1 DEF Begin
    <3> QED
      BY <3>2, <3>3 DEF VMDirInv, ToSet
  <2>2. CASE NextServer
    <3>1. ToSet(todo') \subseteq ToSet(todo)
      BY <2>2, CurInPlan DEF NextServer, TypeInv, TypeOK
    <3> QED
      BY <2>2, <3>1 DEF NextServer, VMDirInv
  <2>3. CASE UNCHANGED <<todo, dir>> /\ (pc # "idle" \/ pc' = pc)
    BY <2>3 DEF VMDirInv
  <2>4. CASE pc' = "idle"
    BY <2>4 DEF VMDirInv
  <2> QED
    BY <2>1, <2>2, <2>3, <2>4
    DEF Next, Tool, CheckXML, Convert, Destroy, MovePrimary, UpdateDriver, CountAdditional,
        MoveAdditional, Finish, GiveUp, Break, Boot, vars
<1>3. TypeInv /\ VMDirInv /\ [Next]_vars => Alone
  <2> SUFFICES ASSUME TypeInv, VMDirInv, [Next]_vars, NEW v \in VS,
                      dir # NoDir, dir.form = "full", dir.vs # v, pc # "idle"
               PROVE  Untouched(v)
    OBVIOUS
  <2>1. todo # <<>> => cur # v
    BY CurInPlan DEF VMDirInv, TypeInv, TypeOK
  <2>a. disk'[v] = disk[v] => ~Replaced(v)
    BY DEF Replaced
  <2>2. CASE Convert
    BY <2>1, <2>a, <2>2 DEF Convert, Untouched, TypeInv, TypeOK, Shape
  <2>3. CASE Destroy
    BY <2>1, <2>a, <2>3 DEF Destroy, Untouched, TypeInv, TypeOK
  <2>4. CASE MovePrimary \/ MoveAdditional
    <3>1. disk'[v] = disk[v] /\ out'[v] = out[v]
      BY <2>1, <2>4, MovingStep, MoveEffect
    <3> QED
      BY <2>4, <2>a, <3>1 DEF MovePrimary, MoveAdditional, Untouched
  <2>5. CASE UpdateDriver
    BY <2>1, <2>a, <2>5 DEF UpdateDriver, Untouched, TypeInv, TypeOK
  <2>6. CASE Break
    <3>1. todo # <<>> \/ pc = "next"
      BY DEF TypeInv, TypeOK
    <3>2. UNCHANGED <<xml, disk, power>>
      BY <2>6 DEF Break
    <3>3. out'[v] = out[v] /\ driver'[v] = driver[v]
      BY <2>1, <2>6, <3>1 DEF Break, TypeInv, TypeOK, Shape
    <3> QED
      BY <2>a, <3>2, <3>3 DEF Untouched
  <2>7. ASSUME NEW w \in VS, Boot(w)
        PROVE  Untouched(v)
    BY <2>7, BootReplacesNone DEF Boot, Untouched, TypeInv, TypeOK
  <2>8. CASE UNCHANGED hostVars
    BY <2>a, <2>8 DEF hostVars, Untouched
  <2> QED
    BY <2>2, <2>3, <2>4, <2>5, <2>6, <2>7, <2>8
    DEF Next, Tool, Begin, CheckXML, CountAdditional, NextServer, Finish, GiveUp, vars
<1> QED
  BY <1>1, <1>2, <1>3, TypeInvariant, PTL DEF Spec, OnlyOriginDir
-----------------------------------------------------------------------------
(* A server left half done has its primary disk, and no run is past the    *)
(* rename of that disk for it: the image is gone.                          *)
HalfwayInv ==
  \A v \in halfway \ misled :
    /\ disk[v][0].state # "blank" /\ 1 \in DOMAIN domain[v]
    /\ pc \in Moving => v # cur

LEMMA HalfwayStep == TypeInv /\ ImageInv /\ RunInv /\ PlacedByPosition /\ HalfwayInv /\ [Next]_vars
                       => HalfwayInv'
<1> SUFFICES ASSUME TypeInv, ImageInv, RunInv, PlacedByPosition, HalfwayInv, [Next]_vars,
                    NEW v \in halfway' \ misled'
             PROVE  /\ disk'[v][0].state # "blank" /\ 1 \in DOMAIN domain'[v]
                    /\ pc' \in Moving => v # cur'
  BY DEF HalfwayInv
<1>1. /\ domain' = domain /\ misled \subseteq misled'
      /\ halfway' = halfway \/ (halfway' = halfway \cup {cur} /\ pc \in Moving /\ pc' = "idle")
  BY DEF Next, Tool, Begin, CheckXML, Convert, Destroy, MovePrimary, UpdateDriver, CountAdditional,
         MoveAdditional, NextServer, Finish, GiveUp, Break, Leave, Boot, vars, history
<1>2. v \in VS /\ 0 \in Slots(v) /\ v \notin misled
  <2>1. pc \in Moving => cur \in VS
    BY CurInPlan DEF TypeInv, TypeOK, Moving
  <2>2. v \in VS
    BY <1>1, <2>1 DEF TypeInv, TypeOK
  <2> QED
    BY <1>1, <2>2, ConstantsAssumption DEF Slots
<1>3. disk[v][0].state # "blank" /\ 1 \in DOMAIN domain[v]
  <2>1. CASE v \in halfway
    BY <1>2, <2>1 DEF HalfwayInv
  <2>2. CASE v \notin halfway
    <3>1. v = cur /\ disk[v][0].state # "blank"
      BY <1>1, <2>2 DEF RunInv, AtCur, Moving
    <3>2. 0 + 1 \in DOMAIN domain[v]
      BY <1>2, <3>1 DEF PlacedByPosition
    <3> QED
      BY <3>1, <3>2
  <2> QED
    BY <2>1, <2>2
<1>4. disk'[v][0].state # "blank" /\ 1 \in DOMAIN domain'[v]
  BY <1>1, <1>2, <1>3, PlacedStays
<1>5. ASSUME pc' \in Moving
      PROVE  v # cur'
  <2>1. v \in halfway
    BY <1>1, <1>5 DEF Moving
  <2>2. CASE MovePrimary
    <3>1. out[v][1] = "none"
      <4>1. 0 + 1 \in DOMAIN domain[v] => out[v][0 + 1] = "none"
        BY <1>2, <1>3 DEF ImageInv, MovedOnce
      <4> QED
        BY <1>3, <4>1
    <3> QED
      BY <2>2, <3>1 DEF MovePrimary, CanMove, cur
  <2>3. CASE pc \in Moving /\ todo' = todo
    BY <1>2, <2>1, <2>3 DEF HalfwayInv, cur
  <2> QED
    BY <1>5, <2>2, <2>3
    DEF Next, Tool, Begin, CheckXML, Convert, Destroy, UpdateDriver, CountAdditional,
        MoveAdditional, NextServer, Finish, GiveUp, Break, Boot, vars, Moving
<1> QED
  BY <1>4, <1>5

(* Past the first rename there is no way back: a server that a run left    *)
(* there gets nothing more from any later run, unless one repeats the      *)
(* conversion.                                                             *)
THEOREM LeftHalfDone == Spec => HalfwayGetsNoFurther
<1> DEFINE Stuck == \A v \in halfway \ misled :
                      ~Replaced(v) /\ out'[v] = out[v] /\ driver'[v] = driver[v]
<1>1. Init => HalfwayInv /\ RunInv
  BY DEF Init, HalfwayInv, RunInv, AtCur, OkMeansImported
<1>2. TypeInv /\ ImageInv /\ HalfwayInv /\ [Next]_vars => Stuck
  <2> SUFFICES ASSUME TypeInv, ImageInv, HalfwayInv, [Next]_vars, NEW v \in halfway \ misled
               PROVE  ~Replaced(v) /\ out'[v] = out[v] /\ driver'[v] = driver[v]
    OBVIOUS
  <2>1. /\ v \in VS /\ 0 \in Slots(v) /\ disk[v][0].state # "blank" /\ 1 \in DOMAIN domain[v]
        /\ pc \in Moving => v # cur
    BY ConstantsAssumption DEF HalfwayInv, TypeInv, TypeOK, Slots
  <2>2. xml[v] /\ out[v][1] = "none"
    <3>1. xml[v] /\ (0 + 1 \in DOMAIN domain[v] => out[v][0 + 1] = "none")
      BY <2>1 DEF ImageInv, MovedOnce
    <3> QED
      BY <2>1, <3>1
  <2>3. pc = "convert" => v # cur
    BY <2>1, <2>2 DEF ImageInv, NotConverted
  <2>a. disk'[v] = disk[v] => ~Replaced(v)
    BY DEF Replaced
  <2>4. CASE MovePrimary \/ MoveAdditional
    <3>1. v # cur
      BY <2>1, <2>2, <2>4 DEF MovePrimary, MoveAdditional, CanMove, Moving
    <3>2. disk'[v] = disk[v] /\ out'[v] = out[v]
      BY <2>1, <2>4, <3>1, MovingStep, MoveEffect
    <3> QED
      BY <2>a, <2>4, <3>2 DEF MovePrimary, MoveAdditional
  <2>5. CASE Convert
    BY <2>1, <2>3, <2>a, <2>5 DEF Convert, TypeInv, Shape
  <2>6. CASE UpdateDriver
    BY <2>1, <2>a, <2>6 DEF UpdateDriver, Moving, TypeInv, TypeOK
  <2>7. CASE Break
    BY <2>1, <2>3, <2>a, <2>7 DEF Break, Moving, TypeInv, TypeOK, Shape
  <2>8. ASSUME NEW w \in VS, Boot(w)
        PROVE  ~Replaced(v) /\ out'[v] = out[v] /\ driver'[v] = driver[v]
    BY <2>1, <2>8, BootReplacesNone DEF Boot
  <2>9. CASE UNCHANGED <<disk, out, driver>>
    BY <2>a, <2>9
  <2> QED
    BY <2>4, <2>5, <2>6, <2>7, <2>8, <2>9
    DEF Next, Tool, Begin, CheckXML, Destroy, CountAdditional, NextServer, Finish, GiveUp,
        vars, hostVars
<1> QED
  BY <1>1, <1>2, HalfwayStep, RunStep, PlacedAsListed, TypeInvariant, ImageInvariant, PTL
     DEF Spec, HalfwayGetsNoFurther
-----------------------------------------------------------------------------
(* What DiskTakeover needs besides: virsh fails to stop only a server that *)
(* runs, the driver is only set for Windows, and a blank disk is blank.    *)
StoppedInv == \A v \in unstopped : power[v] = "on"
DriverInv  == pc = "driver" => cur \in Windows
BlankInv   == \A v \in VS : \A s \in Slots(v) :
                disk[v][s].state = "blank" => disk[v][s].src = 0

SeenInv == StoppedInv /\ DriverInv /\ BlankInv

LEMMA SeenStep == TypeInv /\ SeenInv /\ [Next]_vars => SeenInv'
<1> SUFFICES ASSUME TypeInv, SeenInv, [Next]_vars
             PROVE  SeenInv'
  OBVIOUS
<1>1. StoppedInv'
  <2>1. CASE Destroy
    <3>1. cur \in VS
      BY <2>1, CurInPlan DEF Destroy, TypeInv, TypeOK
    <3> QED
      BY <2>1, <3>1 DEF Destroy, SeenInv, StoppedInv, TypeInv, TypeOK
  <2>2. ASSUME NEW w \in VS, Boot(w)
        PROVE  StoppedInv'
    BY <2>2 DEF Boot, SeenInv, StoppedInv, TypeInv, TypeOK
  <2>3. CASE power' = power /\ unstopped' = unstopped
    BY <2>3 DEF SeenInv, StoppedInv
  <2> QED
    BY <2>1, <2>2, <2>3
    DEF Next, Tool, Begin, CheckXML, Convert, MovePrimary, UpdateDriver, CountAdditional,
        MoveAdditional, NextServer, Finish, GiveUp, Break, Leave, vars, hostVars, history
<1>2. DriverInv'
  <2>1. CASE MovePrimary
    BY <2>1 DEF MovePrimary, DriverInv, cur
  <2>2. CASE UNCHANGED <<pc, todo>>
    BY <2>2 DEF SeenInv, DriverInv, cur
  <2>3. CASE pc' # "driver"
    BY <2>3 DEF DriverInv
  <2> QED
    BY <2>1, <2>2, <2>3
    DEF Next, Tool, Begin, CheckXML, Convert, Destroy, UpdateDriver, CountAdditional,
        MoveAdditional, NextServer, Finish, GiveUp, Break, Boot, vars
<1>3. BlankInv'
  <2> SUFFICES ASSUME NEW v \in VS, NEW s \in Slots(v), disk'[v][s].state = "blank"
               PROVE  disk'[v][s].src = 0
    BY DEF BlankInv
  <2>0. disk[v][s].state = "blank" => disk[v][s].src = 0
    BY DEF SeenInv, BlankInv
  <2>1. CASE MovePrimary \/ MoveAdditional
    BY <2>0, <2>1, MovingStep, MoveEffect
  <2>2. ASSUME NEW w \in VS, Boot(w)
        PROVE  disk'[v][s].src = 0
    BY <2>0, <2>2, BootEffect
  <2>3. CASE disk' = disk
    BY <2>0, <2>3
  <2> QED
    BY <2>1, <2>2, <2>3
    DEF Next, Tool, Begin, CheckXML, Convert, Destroy, UpdateDriver, CountAdditional,
        NextServer, Finish, GiveUp, Break, vars, hostVars
<1> QED
  BY <1>1, <1>2, <1>3 DEF SeenInv

(* A server to which nothing happens looks the same.                       *)
Same(v) ==
  /\ v \in misled' <=> v \in misled
  /\ v \notin misled => xml'[v] = xml[v]
  /\ v \notin misled /\ xml[v] => out'[v] = out[v]
  /\ v \notin misled => disk'[v] = disk[v]

LEMMA SameSeen ==
  ASSUME domain' = domain, NEW v \in VS, Same(v)
  PROVE  Converted(v)' = Converted(v) /\ ToPlace(v)' = ToPlace(v) /\ Known(v)' = Known(v)
<1>1. CASE v \in misled
  BY <1>1 DEF Same, Converted, ToPlace, Known
<1>2. CASE v \notin misled /\ ~xml[v]
  BY <1>2 DEF Same, Converted, ToPlace, Known
<1>3. CASE v \notin misled /\ xml[v]
  BY <1>3 DEF Same, Converted, ToPlace, Known
<1> QED
  BY <1>1, <1>2, <1>3

(* What DiskTakeover sees of all of them.                                  *)
Lst == [v \in VS |-> Converted(v)]
Lft == [v \in VS |-> ToPlace(v)]
Dsk == [v \in VS |-> Known(v)]
Pow == [v \in VS |-> IF v \in unstopped THEN "unknown" ELSE power[v]]

(* A conversion makes all the images of its server at once.                *)
LEMMA ConvertSeen ==
  ASSUME TypeInv, ImageInv, Convert
  PROVE  \/ UNCHANGED <<Lst, Lft, Dsk, Pow, driver, misled>>
         \/ cur \in VS /\ Takeover!Convert(cur)
<1>1. cur \in VS
  BY CurInPlan DEF Convert, TypeInv, TypeOK
<1>2. /\ UNCHANGED <<domain, disk, power, driver, misled, unstopped>> /\ cur' = cur
      /\ \A v \in VS \ {cur} : xml'[v] = xml[v] /\ out'[v] = out[v]
      /\ xml'[cur] = TRUE
      /\ out'[cur] = [k \in DOMAIN domain[cur] |-> "image"]
  BY <1>1 DEF Convert, history, cur, TypeInv, TypeOK, Shape
<1>3. /\ \A v \in VS \ {cur} : Converted(v)' = Converted(v) /\ ToPlace(v)' = ToPlace(v)
      /\ \A v \in VS : Known(v)' = Known(v)
  <2>1. \A v \in VS \ {cur} : Same(v)
    BY <1>2 DEF Same
  <2>2. \A v \in VS : Known(v)' = Known(v)
    BY <1>2 DEF Known
  <2> QED
    BY <1>2, <2>1, <2>2, SameSeen
<1>4. UNCHANGED <<Dsk, Pow, driver, misled>>
  BY <1>2, <1>3 DEF Dsk, Pow
<1>5. CASE cur \in misled
  <2>1. Same(cur)
    BY <1>2, <1>5 DEF Same
  <2>2. \A v \in VS : Converted(v)' = Converted(v) /\ ToPlace(v)' = ToPlace(v)
    BY <1>1, <1>2, <1>3, <2>1, SameSeen
  <2> QED
    BY <1>4, <2>2 DEF Lst, Lft
<1>6. CASE cur \notin misled
  <2>1. ~xml[cur]
    BY <1>1, <1>6 DEF Convert, ImageInv, NotConverted
  <2>2. /\ Converted(cur) = <<>>
        /\ Converted(cur)' = domain[cur] /\ ToPlace(cur)' = DOMAIN domain[cur]
    BY <1>2, <1>6, <2>1 DEF Converted, ToPlace
  <2>3. domain[cur] \in Domains[cur]
    BY <1>1 DEF TypeInv, TypeOK
  <2>4. /\ Lst' = [Lst EXCEPT ![cur] = domain[cur]]
        /\ Lft' = [Lft EXCEPT ![cur] = DOMAIN domain[cur]]
        /\ Lst[cur] = <<>>
    BY <1>1, <1>2, <1>3, <2>2 DEF Lst, Lft
  <2>5. Takeover!Convert(cur)
    BY <1>4, <1>6, <2>3, <2>4 DEF Takeover!Convert, Lst, Lft, Dsk, Pow
  <2> QED
    BY <1>1, <2>5
<1> QED
  BY <1>5, <1>6

(* A move places the image of its number on an empty disk.                 *)
LEMMA MoveSeen ==
  ASSUME TypeInv, ImageInv, PowerInv, SeenInv, MovePrimary \/ MoveAdditional
  PROVE  \/ UNCHANGED <<Lst, Lft, Dsk, Pow, driver, misled>>
         \/ /\ cur \in VS
            /\ \E k \in ToPlace(cur), s \in Slots(cur) : Takeover!Place(cur, k, s)
<1>1. /\ todo # <<>> /\ xml' = xml /\ domain' = domain /\ misled' = misled
      /\ UNCHANGED <<power, driver, unstopped>> /\ cur' = cur
  BY MovingStep DEF MovePrimary, MoveAdditional, history, cur
<1>2. PICK s \in Slots(cur) : CanMove(s + 1, s) /\ Move(s + 1, s)
  BY MovingStep
<1>3. /\ cur \in VS /\ xml[cur] /\ s + 1 \in DOMAIN domain[cur]
      /\ \A v \in VS \ {cur} : disk'[v] = disk[v] /\ out'[v] = out[v]
      /\ disk'[cur] \in [Slots(cur) -> Content]
      /\ \A t \in Slots(cur) \ {s} : disk'[cur][t] = disk[cur][t]
      /\ disk'[cur][s].src = domain[cur][s + 1]
      /\ disk'[cur][s].state = IF out[cur][s + 1] = "image" THEN "fresh" ELSE "partial"
      /\ out[cur][s + 1] \in {"partial", "image"}
      /\ out'[cur][s + 1] = "none"
      /\ \A j \in DOMAIN domain[cur] \ {s + 1} : out'[cur][j] = out[cur][j]
  BY <1>1, <1>2, MoveEffect
<1>4. \A v \in VS \ {cur} : /\ Converted(v)' = Converted(v) /\ ToPlace(v)' = ToPlace(v)
                            /\ Known(v)' = Known(v)
  <2>1. \A v \in VS \ {cur} : Same(v)
    BY <1>1, <1>3 DEF Same
  <2> QED
    BY <1>1, <2>1, SameSeen
<1>5. UNCHANGED <<Pow, driver, misled>>
  BY <1>1 DEF Pow
<1>6. CASE cur \in misled
  <2>1. Same(cur)
    BY <1>1, <1>6 DEF Same
  <2>2. \A v \in VS : /\ Converted(v)' = Converted(v) /\ ToPlace(v)' = ToPlace(v)
                      /\ Known(v)' = Known(v)
    BY <1>1, <1>3, <1>4, <2>1, SameSeen
  <2> QED
    BY <1>5, <2>2 DEF Lst, Lft, Dsk
<1>7. CASE cur \notin misled
  <2>1. MovedOnce(cur) /\ Complete(cur)
    BY <1>3, <1>7 DEF ImageInv
  <2>2. disk[cur][s] = [src |-> 0, state |-> "blank"]
    <3>1. disk[cur][s] \in Content
      BY <1>3 DEF TypeInv, TypeOK
    <3>2. disk[cur][s].state = "blank"
      BY <1>3, <2>1 DEF MovedOnce
    <3>3. disk[cur][s].src = 0
      BY <1>3, <3>2 DEF SeenInv, BlankInv
    <3> QED
      BY <3>1, <3>2, <3>3 DEF Content
  <2>3. disk'[cur][s] = [src |-> domain[cur][s + 1], state |-> "fresh"]
    <3>1. disk'[cur][s] \in Content
      BY <1>3
    <3>2. disk'[cur][s].state = "fresh"
      BY <1>3, <2>1 DEF Complete
    <3> QED
      BY <1>3, <3>1, <3>2 DEF Content
  <2>4. /\ Converted(cur) = domain[cur] /\ Converted(cur)' = domain[cur]
        /\ Known(cur) = disk[cur] /\ Known(cur)' = disk'[cur]
    BY <1>1, <1>3, <1>7 DEF Converted, Known
  <2>5. s + 1 \in ToPlace(cur) /\ ToPlace(cur)' = ToPlace(cur) \ {s + 1}
    BY <1>1, <1>3, <2>4 DEF ToPlace
  <2>6. disk'[cur] = [disk[cur] EXCEPT ![s] = [src |-> domain[cur][s + 1], state |-> "fresh"]]
    <3>1. disk[cur] \in [Slots(cur) -> Content]
      BY <1>3 DEF TypeInv, TypeOK
    <3> QED
      BY <1>3, <2>3, <3>1
  <2>7. /\ Lst' = Lst /\ Lst[cur] = domain[cur]
        /\ Lft' = [Lft EXCEPT ![cur] = @ \ {s + 1}] /\ s + 1 \in Lft[cur]
        /\ Dsk' = [Dsk EXCEPT ![cur][s] = [src |-> domain[cur][s + 1], state |-> "fresh"]]
        /\ Dsk[cur][s] = [src |-> 0, state |-> "blank"]
    <3>1. /\ \A v \in VS \ {cur} : Lst'[v] = Lst[v] /\ Lft'[v] = Lft[v] /\ Dsk'[v] = Dsk[v]
          /\ Lst[cur] = domain[cur] /\ Lst'[cur] = Lst[cur]
          /\ Lft[cur] = ToPlace(cur) /\ Lft'[cur] = Lft[cur] \ {s + 1}
          /\ Dsk[cur] = disk[cur] /\ Dsk'[cur] = disk'[cur]
      BY <1>1, <1>3, <1>4, <2>4, <2>5 DEF Lst, Lft, Dsk
    <3>2. /\ Lst = [v \in VS |-> Lst[v]] /\ Lst' = [v \in VS |-> Lst'[v]]
          /\ Lft = [v \in VS |-> Lft[v]] /\ Lft' = [v \in VS |-> Lft'[v]]
          /\ Dsk = [v \in VS |-> Dsk[v]] /\ Dsk' = [v \in VS |-> Dsk'[v]]
      BY DEF Lst, Lft, Dsk
    <3>3. Lst' = Lst /\ Lft' = [Lft EXCEPT ![cur] = @ \ {s + 1}]
      BY <1>3, <3>1, <3>2
    <3>4. Dsk' = [Dsk EXCEPT ![cur][s] = [src |-> domain[cur][s + 1], state |-> "fresh"]]
      BY <1>3, <2>6, <3>1, <3>2
    <3> QED
      BY <2>2, <2>5, <3>1, <3>3, <3>4
  <2>8. Pow[cur] # "on"
    <3>1. cur \in unstopped \/ power[cur] = "off"
      BY DEF MovePrimary, MoveAdditional, PowerInv
    <3> QED
      BY <1>3, <3>1 DEF Pow
  <2>9. Takeover!Place(cur, s + 1, s)
    BY <1>3, <1>5, <1>7, <2>7, <2>8
       DEF Takeover!Place, Takeover!Holds, Takeover!Nothing, Lst, Lft, Dsk, Pow
  <2> QED
    BY <1>3, <2>5, <2>9
<1> QED
  BY <1>6, <1>7

(* A boot is a start, of a server that is known to be off; a run that has  *)
(* stopped the server does not notice.                                     *)
LEMMA BootSeen ==
  ASSUME TypeInv, SeenInv, NEW w \in VS, Boot(w)
  PROVE  Takeover!Start(w)
<1>1. /\ UNCHANGED <<domain, xml, out, driver, misled>>
      /\ unstopped' = unstopped \/ unstopped' = unstopped \cup {w}
      /\ power[w] = "off" /\ w \notin unstopped
      /\ power' = [power EXCEPT ![w] = "on"]
      /\ \A v \in VS \ {w} : disk'[v] = disk[v]
      /\ disk'[w] = [s \in Slots(w) |->
            IF disk[w][s].state = "fresh" THEN [disk[w][s] EXCEPT !.state = "used"]
                                          ELSE disk[w][s]]
  BY DEF Boot, SeenInv, StoppedInv, TypeInv, TypeOK, Shape
<1>2. \A v \in VS : Converted(v)' = Converted(v) /\ ToPlace(v)' = ToPlace(v)
  BY <1>1 DEF Converted, ToPlace
<1>3. \A v \in VS \ {w} : Known(v)' = Known(v)
  BY <1>1 DEF Known
<1>4. Known(w)' = [s \in Slots(w) |->
         IF Known(w)[s].state = "fresh" THEN [src |-> Known(w)[s].src, state |-> "used"]
                                        ELSE Known(w)[s]]
  <2>1. CASE w \in misled
    <3>1. Known(w) = [s \in Slots(w) |-> [src |-> 0, state |-> "unknown"]] /\ Known(w)' = Known(w)
      BY <1>1, <2>1 DEF Known
    <3> QED
      BY <3>1
  <2>2. CASE w \notin misled
    <3>1. Known(w) = disk[w] /\ Known(w)' = disk'[w]
      BY <1>1, <2>2 DEF Known
    <3>2. ASSUME NEW s \in Slots(w)
          PROVE  [disk[w][s] EXCEPT !.state = "used"] = [src |-> disk[w][s].src, state |-> "used"]
      <4>1. disk[w][s] \in Content
        BY DEF TypeInv, TypeOK
      <4> QED
        BY <4>1 DEF Content
    <3> QED
      BY <1>1, <3>1, <3>2
  <2> QED
    BY <2>1, <2>2
<1>5. Lst' = Lst /\ Lft' = Lft
  BY <1>2 DEF Lst, Lft
<1>6. Dsk' = [Dsk EXCEPT ![w] = [s \in Slots(w) |->
         IF @[s].state = "fresh" THEN [src |-> @[s].src, state |-> "used"] ELSE @[s]]]
  BY <1>3, <1>4 DEF Dsk
<1>7. Pow[w] = "off" /\ \E p \in {"on", "unknown"} : Pow' = [Pow EXCEPT ![w] = p]
  <2>1. CASE unstopped' = unstopped
    <3>1. Pow' = [Pow EXCEPT ![w] = "on"]
      BY <1>1, <2>1 DEF Pow, TypeInv, TypeOK
    <3> QED
      BY <1>1, <3>1 DEF Pow
  <2>2. CASE unstopped' = unstopped \cup {w}
    <3>1. Pow' = [Pow EXCEPT ![w] = "unknown"]
      BY <1>1, <2>2 DEF Pow, TypeInv, TypeOK
    <3> QED
      BY <1>1, <3>1 DEF Pow
  <2> QED
    BY <1>1, <2>1, <2>2
<1> QED
  BY <1>1, <1>5, <1>6, <1>7 DEF Takeover!Start, Takeover!Holds, Lst, Lft, Dsk, Pow

(* Stopping a server says whether it is off, and nothing of its disks.     *)
LEMMA DestroySeen ==
  ASSUME TypeInv, Destroy
  PROVE  \/ UNCHANGED <<Lst, Lft, Dsk, Pow, driver, misled>>
         \/ \E v \in VS : Takeover!Stop(v) \/ Takeover!Resist(v)
<1>1. cur \in VS
  BY CurInPlan DEF Destroy, TypeInv, TypeOK
<1>2. UNCHANGED <<Lst, Lft, Dsk, driver, misled>>
  BY DEF Destroy, Lst, Lft, Dsk, Converted, ToPlace, Known
<1>3. CASE power' = [power EXCEPT ![cur] = "off"] /\ unstopped' = unstopped \ {cur}
  <2>1. Pow' = [Pow EXCEPT ![cur] = "off"]
    BY <1>1, <1>3 DEF Pow, TypeInv, TypeOK
  <2> QED
    BY <1>1, <1>2, <2>1 DEF Takeover!Stop, Lst, Lft, Dsk, Pow
<1>4. CASE power[cur] = "on" /\ unstopped' = unstopped \cup {cur} /\ power' = power
  <2>1. CASE cur \in unstopped
    BY <1>2, <1>4, <2>1 DEF Pow
  <2>2. CASE cur \notin unstopped
    <3>1. Pow[cur] = "on" /\ Pow' = [Pow EXCEPT ![cur] = "unknown"]
      BY <1>1, <1>4, <2>2 DEF Pow
    <3> QED
      BY <1>1, <1>2, <3>1 DEF Takeover!Resist, Lst, Lft, Dsk, Pow
  <2> QED
    BY <2>1, <2>2
<1> QED
  BY <1>3, <1>4 DEF Destroy

(* Taking the domain XML for missing forgets what was done.                *)
LEMMA CheckSeen ==
  ASSUME TypeInv, CheckXML
  PROVE  \/ UNCHANGED <<Lst, Lft, Dsk, Pow, driver, misled>>
         \/ cur \in VS /\ Takeover!Forget(cur)
<1>1. cur \in VS /\ UNCHANGED <<domain, hostVars, unstopped>> /\ cur' = cur
  BY CurInPlan DEF CheckXML, history, cur, TypeInv, TypeOK
<1>2. UNCHANGED <<Pow, driver>>
  BY <1>1 DEF Pow, hostVars
<1>3. CASE misled' = misled
  BY <1>1, <1>2, <1>3 DEF hostVars, Lst, Lft, Dsk, Converted, ToPlace, Known
<1>4. CASE misled' = misled \cup {cur}
  <2>1. \A v \in VS \ {cur} : Same(v)
    BY <1>1, <1>4 DEF Same, hostVars
  <2>2. \A v \in VS \ {cur} : /\ Converted(v)' = Converted(v) /\ ToPlace(v)' = ToPlace(v)
                              /\ Known(v)' = Known(v)
    BY <1>1, <2>1, SameSeen
  <2>3. /\ Converted(cur)' = <<>> /\ ToPlace(cur)' = {}
        /\ Known(cur)' = [s \in Slots(cur) |-> [src |-> 0, state |-> "unknown"]]
    BY <1>1, <1>4 DEF Converted, ToPlace, Known
  <2>4. /\ Lst' = [Lst EXCEPT ![cur] = <<>>] /\ Lft' = [Lft EXCEPT ![cur] = {}]
        /\ Dsk' = [Dsk EXCEPT ![cur] = [s \in Slots(cur) |-> [src |-> 0, state |-> "unknown"]]]
    BY <1>1, <2>2, <2>3 DEF Lst, Lft, Dsk
  <2> QED
    BY <1>1, <1>2, <1>4, <2>4
       DEF Takeover!Forget, Takeover!Unknown, Takeover!Holds, Lst, Lft, Dsk, Pow
<1> QED
  BY <1>3, <1>4 DEF CheckXML, history

(* The driver is set for Windows, once its primary disk is in place; a     *)
(* call that fails may have set it all the same.                           *)
LEMMA DriverSeen ==
  ASSUME TypeInv, AtCur, SeenInv, pc = "driver", driver' = [driver EXCEPT ![cur] = "sata"],
         UNCHANGED <<domain, xml, out, disk, power, misled, unstopped>>
  PROVE  cur \in VS /\ Takeover!SetDriver(cur)
<1>1. cur \in VS /\ cur \in Windows
  BY CurInPlan DEF TypeInv, TypeOK, SeenInv, DriverInv
<1>0. 0 \in Slots(cur)
  BY <1>1, ConstantsAssumption DEF Slots
<1>2. UNCHANGED <<Lst, Lft, Dsk, Pow, misled>>
  BY DEF Lst, Lft, Dsk, Pow, Converted, ToPlace, Known
<1>3. Dsk[cur][0] # [src |-> 0, state |-> "blank"]
  <2>1. Dsk[cur][0].state # "blank"
    <3>1. CASE cur \in misled
      <4>1. Dsk[cur][0] = [src |-> 0, state |-> "unknown"]
        BY <1>0, <1>1, <3>1 DEF Dsk, Known
      <4> QED
        BY <4>1
    <3>2. CASE cur \notin misled
      BY <1>1, <3>2 DEF Dsk, Known, AtCur
    <3> QED
      BY <3>1, <3>2
  <2> QED
    BY <2>1
<1> QED
  BY <1>1, <1>2, <1>3
     DEF Takeover!SetDriver, Takeover!Nothing, Takeover!Holds, Lst, Lft, Dsk, Pow

(* A step that breaks off leaves nothing to be seen but a driver.          *)
LEMMA BreakSeen ==
  ASSUME TypeInv, ImageInv, AtCur, SeenInv, Break
  PROVE  \/ UNCHANGED <<Lst, Lft, Dsk, Pow, driver, misled>>
         \/ cur \in VS /\ Takeover!SetDriver(cur)
<1>1. UNCHANGED <<domain, xml, disk, power, misled, unstopped>>
  BY DEF Break, Leave
<1>2. CASE pc = "convert" /\ UNCHANGED driver
  <2>1. \A v \in VS \ {cur} : out'[v] = out[v]
    BY <1>2 DEF Break, TypeInv, Shape
  <2>2. \A v \in VS : Same(v)
    BY <1>1, <1>2, <2>1 DEF Same, ImageInv, NotConverted
  <2>3. \A v \in VS : /\ Converted(v)' = Converted(v) /\ ToPlace(v)' = ToPlace(v)
                      /\ Known(v)' = Known(v)
    BY <1>1, <2>2, SameSeen
  <2> QED
    BY <1>1, <1>2, <2>3 DEF Lst, Lft, Dsk, Pow
<1>3. CASE pc = "driver" /\ UNCHANGED out /\ driver' = [driver EXCEPT ![cur] = "sata"]
  BY <1>1, <1>3, DriverSeen
<1>4. CASE UNCHANGED <<out, driver>>
  BY <1>1, <1>4 DEF Lst, Lft, Dsk, Pow, Converted, ToPlace, Known
<1> QED
  BY <1>2, <1>3, <1>4 DEF Break

LEMMA TakeoverStep ==
  ASSUME TypeInv, ImageInv, RunInv, PowerInv, SeenInv, [Next]_vars
  PROVE  [Takeover!Next]_(Takeover!vars)
<1> SUFFICES \/ UNCHANGED <<Lst, Lft, Dsk, Pow, driver, misled>>
             \/ Takeover!Next
  BY DEF Takeover!vars, Lst, Lft, Dsk, Pow
<1> USE DEF RunInv
<1>1. CASE CheckXML
  BY <1>1, CheckSeen DEF Takeover!Next
<1>2. CASE Convert
  BY <1>2, ConvertSeen DEF Takeover!Next
<1>3. CASE Destroy
  <2>1. ASSUME NEW v \in VS, Takeover!Stop(v) \/ Takeover!Resist(v)
        PROVE  Takeover!Next
    <3>1. CASE Takeover!Stop(v)
      BY <3>1 DEF Takeover!Next
    <3>2. CASE Takeover!Resist(v)
      BY <3>2 DEF Takeover!Next
    <3> QED
      BY <2>1, <3>1, <3>2
  <2> QED
    BY <1>3, <2>1, DestroySeen
<1>4. CASE MovePrimary \/ MoveAdditional
  <2>1. ASSUME cur \in VS, NEW k \in ToPlace(cur), NEW s \in Slots(cur), Takeover!Place(cur, k, s)
        PROVE  Takeover!Next
    BY <2>1 DEF Takeover!Next
  <2> QED
    BY <1>4, <2>1, MoveSeen
<1>5. CASE UpdateDriver
  <2>1. cur \in VS /\ Takeover!SetDriver(cur)
    BY <1>5, DriverSeen DEF UpdateDriver, history
  <2> QED
    BY <2>1 DEF Takeover!Next
<1>6. CASE Break
  BY <1>6, BreakSeen DEF Takeover!Next
<1>7. ASSUME NEW v \in VS, Boot(v)
      PROVE  Takeover!Next
  BY <1>7, BootSeen DEF Takeover!Next
<1>8. CASE UNCHANGED <<domain, hostVars, misled, unstopped>>
  BY <1>8 DEF hostVars, Lst, Lft, Dsk, Pow, Converted, ToPlace, Known
<1> QED
  BY <1>1, <1>2, <1>3, <1>4, <1>5, <1>6, <1>7, <1>8
  DEF Next, Tool, Begin, CountAdditional, NextServer, Finish, GiveUp, Leave, vars, history

(* With the runs, those that fail and those that start over put aside, the *)
(* import takes each server over as DiskTakeover says: converted once,     *)
(* each image moved once, whole, to an empty disk of a server that is off, *)
(* and its disks its own from its start on.                                *)
THEOREM ImplementsTakeover == Spec => TakeoverSpec
<1>1. Init => Takeover!Init
  <2> SUFFICES ASSUME Init PROVE Takeover!Init
    OBVIOUS
  <2>1. \A v \in VS : /\ Converted(v) = <<>> /\ ToPlace(v) = {}
                      /\ Known(v) = [s \in Slots(v) |-> [src |-> 0, state |-> "blank"]]
    BY DEF Init, Converted, ToPlace, Known, Blank
  <2> QED
    BY <2>1 DEF Init, Takeover!Init, Takeover!Nothing, Takeover!Holds
<1>2. Init => RunInv /\ PowerInv /\ SeenInv
  BY DEF Init, RunInv, AtCur, OkMeansImported, PowerInv, SeenInv, StoppedInv, DriverInv,
         BlankInv, Blank
<1> QED
  BY <1>1, <1>2, TakeoverStep, RunStep, PowerStep, SeenStep, TypeInvariant, ImageInvariant, PTL
     DEF Spec, TakeoverSpec, Takeover!Spec
=============================================================================
