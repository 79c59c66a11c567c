-------------------------- MODULE RemotePlanProofs --------------------------
(***************************************************************************)
(* Proofs about RemotePlan, for any number of instances of the tool, of    *)
(* runs and of lost connections, and plans of any length: what an instance *)
(* saves is the whole plan that the agent of its own run wrote.            *)
(*                                                                         *)
(* All of it rests on TextBusy, that the host refuses to write to the file *)
(* of a program that runs; nothing rests on pkill.                         *)
(***************************************************************************)
EXTENDS RemotePlan, TLAPS, SequenceTheorems

Without == {"upload", "chmod", "exec", "open", "read", "save", "write"}

(* The first n pieces of a plan.                                           *)
Pieces(t, r, n) == [k \in 1..n |-> <<t, r, k>>]

(* An agent that runs keeps every instance from writing the program, its   *)
(* own one too, until that one is waiting for the agent.                   *)
AgentInv ==
  \A a \in agents :
    /\ \A t \in Tool : pc[t] # "upload"
    /\ pc[a.by] \notin Without
    /\ a.run <= run[a.by]
    /\ pc[a.by] = "run" => a.run = run[a.by] /\ status[a.by] = "running"
    /\ a.at >= 1 => remote[a.by] = Pieces(a.by, a.run, a.at - 1)

(* Once its agent has ended well the plan of an instance is on the host,   *)
(* and what it fetches is a beginning of it, all of it when that is said.  *)
Fetching(t) ==
  /\ pc[t] = "run" /\ status[t] = "ok" => remote[t] = PlanOf(t, run[t])
  /\ pc[t] \in {"open", "read", "save", "write"} => remote[t] = PlanOf(t, run[t])
  /\ pc[t] = "read" => got[t] = Pieces(t, run[t], Len(got[t]))
  /\ pipe[t] = "eof" => copier[t] = "none"
  /\ copier[t] = "eof" \/ pipe[t] = "eof" \/ pc[t] \in {"save", "write"} =>
       got[t] = PlanOf(t, run[t])
  /\ copier[t] # "none" => pc[t] = "read"
  /\ pipe[t] # "none" => pc[t] \in {"read", "save", "write"}

FetchInv == \A t \in Tool : Fetching(t)

RunInv ==
  \A t \in Tool : pc[t] # "idle" => exit[t] = "none" /\ run[t] >= 1

Inv == AgentInv /\ OneAgentEach /\ FetchInv /\ RunInv /\ OwnWholePlan
-----------------------------------------------------------------------------
(* A beginning of a plan is a sequence of its pieces, and the longest one  *)
(* is the plan.                                                            *)
LEMMA PiecesType ==
  ASSUME NEW t \in Tool, NEW r \in 1..MaxRuns, NEW n \in 0..Chunks
  PROVE  Pieces(t, r, n) \in Seq(Piece) /\ Len(Pieces(t, r, n)) = n
  BY ConstantsAssumption DEF Pieces, Piece

(* A plan is all its pieces.                                               *)
LEMMA WholePlan == \A t, r : PlanOf(t, r) = Pieces(t, r, Chunks)
  BY DEF PlanOf, Pieces

(* One more piece makes a longer beginning.                                *)
LEMMA NextPiece ==
  ASSUME NEW t \in Tool, NEW r \in 1..MaxRuns, NEW n \in 0..(Chunks - 1)
  PROVE  Append(Pieces(t, r, n), <<t, r, n + 1>>) = Pieces(t, r, n + 1)
<1> DEFINE s == Pieces(t, r, n)
           x == <<t, r, n + 1>>
<1>1. /\ s \in Seq(Piece) /\ Len(s) = n
      /\ Pieces(t, r, n + 1) \in Seq(Piece) /\ Len(Pieces(t, r, n + 1)) = n + 1
  BY PiecesType, ConstantsAssumption
<1>2. x \in Piece
  BY ConstantsAssumption DEF Piece
<1>3. \A k \in 1..(n + 1) : Append(s, x)[k] = Pieces(t, r, n + 1)[k]
  BY <1>1, <1>2, AppendProperties DEF Pieces
<1> HIDE DEF s, x
<1>4. Append(s, x) \in Seq(Piece) /\ Len(Append(s, x)) = n + 1
  BY <1>1, <1>2, AppendProperties
<1>5. Append(s, x) = Pieces(t, r, n + 1)
  BY <1>1, <1>3, <1>4, SeqEqual
<1> QED
  BY <1>5 DEF s, x

(* An agent that goes on writing writes the next piece.                    *)
LEMMA WriteNext ==
  ASSUME NEW t \in Tool, NEW r \in 1..MaxRuns, NEW n \in 1..Chunks,
         NEW s, s = Pieces(t, r, n - 1)
  PROVE  SubSeq(s, 1, n - 1) \o <<<<t, r, n>>>> \o SubSeq(s, n + 1, Len(s)) = Pieces(t, r, n)
<1>1. s \in Seq(Piece) /\ Len(s) = n - 1 /\ n - 1 \in 0..(Chunks - 1) /\ n \in Int
  BY PiecesType, ConstantsAssumption
<1>2. SubSeq(s, 1, n - 1) = s
  BY <1>1, SubSeqFull
<1>3. SubSeq(s, n + 1, Len(s)) = <<>>
  BY <1>1, SubSeqEmpty
<1>4. <<t, r, n>> \in Piece
  BY ConstantsAssumption DEF Piece
<1>5. s \o <<<<t, r, n>>>> = Append(s, <<t, r, n>>)
  BY <1>1, <1>4, AppendIsConcat
<1>6. Append(s, <<t, r, n>>) = Pieces(t, r, n) /\ Pieces(t, r, n) \in Seq(Piece)
  <2>1. (n - 1) + 1 = n
    BY <1>1
  <2> QED
    BY <1>1, <2>1, NextPiece, PiecesType, ConstantsAssumption
<1> QED
  BY <1>2, <1>3, <1>5, <1>6, ConcatEmptySeq
-----------------------------------------------------------------------------
(* The end of a run leaves its variables with their types.                 *)
LEMMA EndType ==
  ASSUME TypeOK, NEW t \in Tool, NEW how \in {"ok", "error", "crash"}, End(t, how),
         UNCHANGED <<agents, remote>>, disturbances' \in 0..MaxDisturbances,
         binary' \in {"none", "part", "whole"}, overtaken' \subseteq Tool,
         local' \in [Tool -> Seq(Piece)], \A u \in Tool : Len(local'[u]) <= Chunks
  PROVE  TypeOK'
<1>1. <<>> \in Seq(Piece) /\ Len(<<>>) <= Chunks
  BY ConstantsAssumption, EmptySeq
<1>2. got' \in [Tool -> Seq(Piece)] /\ \A u \in Tool : Len(got'[u]) <= Chunks
  BY <1>1 DEF End, TypeOK
<1> QED
  BY <1>2 DEF End, Goto, TypeOK

(* A step keeps the types.                                                 *)
LEMMA TypeStep == TypeOK /\ AgentInv /\ RunInv /\ [Next]_vars => TypeOK'
<1> SUFFICES ASSUME TypeOK, AgentInv, RunInv, [Next]_vars
             PROVE  TypeOK'
  OBVIOUS
<1> USE ConstantsAssumption
<1>e. <<>> \in Seq(Piece) /\ Len(<<>>) <= Chunks
  BY EmptySeq
<1>1. ASSUME NEW t \in Tool, Connect(t) \/ ConnectFails(t) \/ KillAgents(t) \/ Reconnect(t)
      PROVE  TypeOK'
  <2>1. CASE Connect(t)
    BY <2>1 DEF Connect, Goto, Calm, hostVars, fetchVars, TypeOK
  <2>2. CASE ConnectFails(t)
    BY <2>2 DEF ConnectFails, Calm, hostVars, fetchVars, TypeOK
  <2>3. CASE KillAgents(t)
    BY <2>3 DEF KillAgents, Goto, Calm, fetchVars, TypeOK
  <2>4. CASE Reconnect(t)
    BY <2>4 DEF Reconnect, Calm, hostVars, fetchVars, TypeOK
  <2> QED
    BY <1>1, <2>1, <2>2, <2>3, <2>4
<1>2. ASSUME NEW t \in Tool, CopyFails(t) \/ CreateRefused(t) \/ AgentFailed(t) \/ Disconnected(t)
      PROVE  TypeOK'
  BY <1>2, EndType DEF CopyFails, CreateRefused, AgentFailed, Disconnected, Calm, hostVars, TypeOK
<1>3. ASSUME NEW t \in Tool, Crash(t)
      PROVE  TypeOK'
  <2>1. disturbances' \in 0..MaxDisturbances
    BY <1>3 DEF Crash, Disturb, TypeOK
  <2> QED
    BY <1>3, <2>1, EndType DEF Crash, hostVars, TypeOK
<1>4. ASSUME NEW t \in Tool, Create(t) \/ Chmod(t) \/ AgentEnded(t)
      PROVE  TypeOK'
  BY <1>4 DEF Create, Chmod, AgentEnded, Step, Goto, Calm, hostVars, fetchVars, TypeOK
<1>5. ASSUME NEW t \in Tool, Upload(t)
      PROVE  TypeOK'
  <2>1. CASE late[t]
    BY <1>5, <2>1, EndType DEF Upload, Calm, TypeOK
  <2>2. CASE ~late[t]
    BY <1>5, <2>2 DEF Upload, Step, Goto, Calm, fetchVars, TypeOK
  <2> QED
    BY <2>1, <2>2
<1>6. ASSUME NEW t \in Tool, ExecAgent(t)
      PROVE  TypeOK'
  <2>1. [by |-> t, run |-> run[t], at |-> 0] \in Agent
    BY <1>6 DEF ExecAgent, RunInv, TypeOK, Agent
  <2>2. agents' \subseteq Agent
    BY <1>6, <2>1 DEF ExecAgent, TypeOK
  <2>3. status' \in [Tool -> {"none", "running", "ok", "failed"}]
    BY <1>6 DEF ExecAgent, TypeOK
  <2> QED
    BY <1>6, <2>2, <2>3 DEF ExecAgent, Goto, Calm, fetchVars, TypeOK
<1>7. ASSUME NEW t \in Tool, OpenRemote(t)
      PROVE  TypeOK'
  BY <1>7, <1>e DEF OpenRemote, Goto, Calm, hostVars, TypeOK
<1>8. ASSUME NEW t \in Tool, Copy(t)
      PROVE  TypeOK'
  <2>1. /\ got[t] \in Seq(Piece) /\ Len(got[t]) \in Nat /\ Len(got[t]) < Chunks
        /\ remote[t][Len(got[t]) + 1] \in Piece
    BY <1>8, LenProperties, ElementOfSeq DEF Copy, TypeOK
  <2>2. /\ Append(got[t], remote[t][Len(got[t]) + 1]) \in Seq(Piece)
        /\ Len(Append(got[t], remote[t][Len(got[t]) + 1])) <= Chunks
    BY <2>1, AppendProperties
  <2> QED
    BY <1>8, <2>2 DEF Copy, Calm, toolVars, hostVars, TypeOK
<1>9. ASSUME NEW t \in Tool,
             CopyEnds(t) \/ CopierCloses(t) \/ Deadline(t) \/ DeadlineCloses(t)
      PROVE  TypeOK'
  <2>1. CASE CopyEnds(t)
    BY <2>1 DEF CopyEnds, Calm, toolVars, hostVars, TypeOK
  <2>2. CASE CopierCloses(t)
    BY <2>2 DEF CopierCloses, Calm, toolVars, hostVars, TypeOK
  <2>3. CASE Deadline(t) \/ DeadlineCloses(t)
    BY <2>3 DEF Deadline, DeadlineCloses, Calm, toolVars, hostVars, fetchVars, TypeOK
  <2> QED
    BY <1>9, <2>1, <2>2, <2>3
<1>10. ASSUME NEW t \in Tool, ReadAll(t)
       PROVE  TypeOK'
  <2>1. CASE pipe[t] = "eof"
    BY <1>10, <2>1 DEF ReadAll, Step, Goto, Calm, hostVars, fetchVars, TypeOK
  <2>2. CASE pipe[t] # "eof"
    BY <1>10, <2>2, EndType DEF ReadAll, Calm, hostVars, TypeOK
  <2> QED
    BY <2>1, <2>2
<1>11. ASSUME NEW t \in Tool, TruncateLocal(t)
       PROVE  TypeOK'
  BY <1>11, <1>e DEF TruncateLocal, NoPlan, Step, Goto, Calm, hostVars, fetchVars, TypeOK
<1>12. ASSUME NEW t \in Tool, WriteLocal(t)
       PROVE  TypeOK'
  <2>1. local' \in [Tool -> Seq(Piece)] /\ \A u \in Tool : Len(local'[u]) <= Chunks
    BY <1>12 DEF WriteLocal, TypeOK
  <2> QED
    BY <1>12, <2>1, EndType DEF WriteLocal, Calm, hostVars, TypeOK
<1>13. ASSUME NEW t \in Tool, LoseConnection(t)
       PROVE  TypeOK'
  BY <1>13 DEF LoseConnection, Disturb, hostVars, fetchVars, TypeOK
<1>14. ASSUME NEW a \in agents, AgentOpens(a)
       PROVE  TypeOK'
  <2>1. a \in Agent
    BY DEF TypeOK
  <2>2. a.by \in Tool /\ [a EXCEPT !.at = 1] \in Agent
    BY <2>1 DEF Agent
  <2> QED
    BY <1>14, <1>e, <2>2 DEF AgentOpens, Calm, toolVars, fetchVars, TypeOK
<1>15. ASSUME NEW a \in agents, AgentWrites(a)
       PROVE  TypeOK'
  <2>0. a \in Agent /\ a.at \in 1..Chunks
    BY <1>15 DEF AgentWrites, TypeOK
  <2>1. /\ a.by \in Tool /\ a.run \in 1..MaxRuns /\ a.at \in 1..Chunks
        /\ [a EXCEPT !.at = @ + 1] \in Agent
    BY <2>0 DEF Agent
  <2>2. remote' = [remote EXCEPT ![a.by] = Pieces(a.by, a.run, a.at)]
    <3>1. remote[a.by] = Pieces(a.by, a.run, a.at - 1)
      BY <2>1 DEF AgentInv
    <3> QED
      BY <1>15, <2>1, <3>1, WriteNext DEF AgentWrites
  <2>3. Pieces(a.by, a.run, a.at) \in Seq(Piece) /\ Len(Pieces(a.by, a.run, a.at)) <= Chunks
    BY <2>1, PiecesType
  <2>4. remote' \in [Tool -> Seq(Piece)] /\ \A t \in Tool : Len(remote'[t]) <= Chunks
    BY <2>1, <2>2, <2>3 DEF TypeOK
  <2>5. agents' \subseteq Agent
    BY <1>15, <2>1 DEF AgentWrites, TypeOK
  <2> QED
    BY <1>15, <2>4, <2>5 DEF AgentWrites, Calm, toolVars, fetchVars, TypeOK
<1>16. ASSUME NEW a \in agents, AgentExits(a) \/ AgentFails(a)
       PROVE  TypeOK'
  <2>1. disturbances' \in 0..MaxDisturbances
    BY <1>16 DEF AgentExits, AgentFails, Disturb, Calm, TypeOK
  <2>2. status' \in [Tool -> {"none", "running", "ok", "failed"}] /\ agents' \subseteq Agent
    BY <1>16 DEF AgentExits, AgentFails, Ended, TypeOK
  <2> QED
    BY <1>16, <2>1, <2>2 DEF AgentExits, AgentFails, Ended, fetchVars, TypeOK
<1>17. CASE UNCHANGED vars
  BY <1>17 DEF vars, toolVars, hostVars, fetchVars, TypeOK
<1> QED
  BY <1>1, <1>2, <1>3, <1>4, <1>5, <1>6, <1>7, <1>8, <1>9, <1>10, <1>11, <1>12, <1>13, <1>14,
     <1>15, <1>16, <1>17 DEF Next, Steps
-----------------------------------------------------------------------------
(* No instance gets to start a second agent while one of its own runs, and *)
(* each agent has written a beginning of its plan.                         *)
LEMMA AgentStep ==
  ASSUME TextBusy, TypeOK, Inv, [Next]_vars
  PROVE  AgentInv' /\ OneAgentEach'
<1> USE DEF Inv
<1>1. ASSUME NEW t \in Tool, Connect(t) \/ ConnectFails(t) \/ Reconnect(t)
      PROVE  AgentInv' /\ OneAgentEach'
  <2>1. /\ UNCHANGED <<agents, remote, status>>
        /\ pc[t] \in {"idle", "create", "open"} /\ pc'[t] \in {"idle", "kill", pc[t]}
        /\ \A u \in Tool : run'[u] >= run[u]
        /\ \A u \in Tool \ {t} : pc'[u] = pc[u] /\ run'[u] = run[u]
    <3>1. CASE Connect(t)
      BY <3>1 DEF Connect, Goto, hostVars, TypeOK
    <3>2. CASE ConnectFails(t)
      BY <3>2 DEF ConnectFails, hostVars, TypeOK
    <3>3. CASE Reconnect(t)
      BY <3>3 DEF Reconnect, hostVars, TypeOK
    <3> QED
      BY <1>1, <3>1, <3>2, <3>3
  <2>2. \A a \in agents : a.by \in Tool /\ a.run \in Nat /\ \A u \in Tool : run[u] \in Nat /\ run'[u] \in Nat
    <3>1. \A u \in Tool : run[u] \in Nat
      BY ConstantsAssumption DEF TypeOK
    <3>2. \A u \in Tool : run'[u] \in Nat
      <4>1. run' = [run EXCEPT ![t] = run[t] + 1] \/ run' = run
        BY <1>1 DEF Connect, ConnectFails, Reconnect
      <4>2. DOMAIN run = Tool
        BY DEF TypeOK
      <4>3. CASE run' = run
        BY <3>1, <4>3
      <4>4. CASE run' = [run EXCEPT ![t] = run[t] + 1]
        <5>1. \A u \in Tool : run'[u] = IF u = t THEN run[t] + 1 ELSE run[u]
          BY <4>2, <4>4
        <5>2. run[t] + 1 \in Nat
          BY <1>1, <3>1
        <5> QED
          BY <3>1, <5>1, <5>2
      <4> QED
        BY <4>1, <4>3, <4>4
    <3>3. \A a \in agents : a.by \in Tool /\ a.run \in Nat
      BY ConstantsAssumption DEF TypeOK, Agent
    <3> QED
      BY <3>1, <3>2, <3>3
  <2>3. ASSUME NEW a \in agents
        PROVE  /\ \A u \in Tool : pc'[u] # "upload"
               /\ pc'[a.by] \notin Without /\ a.run <= run'[a.by]
               /\ pc'[a.by] = "run" => a.run = run'[a.by] /\ status'[a.by] = "running"
    BY <2>1, <2>2 DEF AgentInv, Without
  <2> QED
    BY <2>1, <2>3 DEF AgentInv, OneAgentEach
<1>2. ASSUME NEW t \in Tool, CopyFails(t) \/ CreateRefused(t) \/ AgentFailed(t)
                             \/ Disconnected(t) \/ Crash(t)
      PROVE  AgentInv' /\ OneAgentEach'
  <2>1. /\ UNCHANGED <<agents, remote, run>> /\ pc'[t] = "idle"
        /\ \A u \in Tool \ {t} : pc'[u] = pc[u] /\ status'[u] = status[u]
    BY <1>2 DEF CopyFails, CreateRefused, AgentFailed, Disconnected, Crash, End, Goto, hostVars, TypeOK
  <2>2. \A a \in agents : a.by \in Tool
    BY DEF TypeOK, Agent
  <2> QED
    BY <2>1, <2>2 DEF AgentInv, OneAgentEach, Without
<1>3. ASSUME NEW t \in Tool, KillAgents(t)
      PROVE  AgentInv' /\ OneAgentEach'
  BY <1>3 DEF KillAgents, Goto, TypeOK, Agent, AgentInv, OneAgentEach, Without
<1>4. ASSUME NEW t \in Tool, Create(t)
      PROVE  AgentInv' /\ OneAgentEach'
  BY <1>4 DEF Create, AgentInv, OneAgentEach
<1>5. ASSUME NEW t \in Tool, Chmod(t) \/ Upload(t) \/ AgentEnded(t) \/ OpenRemote(t) \/ ReadAll(t)
                             \/ TruncateLocal(t) \/ WriteLocal(t)
      PROVE  AgentInv' /\ OneAgentEach'
  <2>1. /\ agents' = agents /\ remote' = remote /\ run' = run
        /\ \A u \in Tool \ {t} : pc'[u] = pc[u] /\ status'[u] = status[u]
        /\ pc'[t] # "upload"
    BY <1>5 DEF Chmod, Upload, AgentEnded, OpenRemote, ReadAll, TruncateLocal, WriteLocal,
                Step, End, Goto, hostVars, TypeOK
  <2>0. pc[t] \in Without \/ (pc[t] = "run" /\ status[t] = "ok")
    <3>1. CASE AgentEnded(t)
      BY <3>1 DEF AgentEnded
    <3>2. CASE Upload(t)
      BY <3>2 DEF Upload, Without
    <3>3. CASE Chmod(t) \/ OpenRemote(t) \/ ReadAll(t) \/ TruncateLocal(t) \/ WriteLocal(t)
      BY <3>3 DEF Chmod, OpenRemote, ReadAll, TruncateLocal, WriteLocal, Without
    <3> QED
      BY <1>5, <3>1, <3>2, <3>3
  <2>2. \A a \in agents : a.by \in Tool \ {t}
    BY <2>0 DEF AgentInv, TypeOK, Agent
  <2> QED
    BY <2>1, <2>2 DEF AgentInv, OneAgentEach
<1>6. ASSUME NEW t \in Tool, ExecAgent(t)
      PROVE  AgentInv' /\ OneAgentEach'
  <2> DEFINE new == [by |-> t, run |-> run[t], at |-> 0]
  <2>1. \A a \in agents : a.by \in Tool \ {t}
    BY <1>6 DEF ExecAgent, AgentInv, TypeOK, Agent, Without
  <2>2. /\ remote' = remote /\ run' = run /\ pc'[t] = "run"
        /\ \A u \in Tool \ {t} : pc'[u] = pc[u] /\ status'[u] = status[u]
    BY <1>6 DEF ExecAgent, Goto, TypeOK
  <2>3. CASE agents' = agents
    BY <2>1, <2>2, <2>3 DEF AgentInv, OneAgentEach
  <2>4. CASE agents' = agents \cup {new} /\ status'[t] = "running" /\ ~BeingWritten
    <3>1. \A u \in Tool : pc'[u] # "upload"
      BY <2>2, <2>4 DEF BeingWritten
    <3>2. run[t] <= run[t]
      BY DEF TypeOK
    <3> QED
      BY <2>1, <2>2, <2>4, <3>1, <3>2 DEF AgentInv, OneAgentEach, Without
  <2> QED
    BY <1>6, <2>3, <2>4 DEF ExecAgent, TypeOK
<1>7. ASSUME NEW t \in Tool,
             Copy(t) \/ CopyEnds(t) \/ CopierCloses(t) \/ Deadline(t) \/ DeadlineCloses(t)
             \/ LoseConnection(t)
      PROVE  AgentInv' /\ OneAgentEach'
  BY <1>7 DEF Copy, CopyEnds, CopierCloses, Deadline, DeadlineCloses, LoseConnection,
              toolVars, hostVars, AgentInv, OneAgentEach
<1>8. ASSUME NEW a \in agents, AgentOpens(a) \/ AgentWrites(a)
      PROVE  AgentInv' /\ OneAgentEach'
  <2>1. /\ a \in Agent /\ a.by \in Tool /\ a.run \in 1..MaxRuns /\ a.at \in 0..Chunks
        /\ \A b \in agents \ {a} : b.by \in Tool /\ b.by # a.by
    <3>1. \A c \in agents : c \in Agent
      BY DEF TypeOK
    <3>2. a.by \in Tool /\ a.run \in 1..MaxRuns
      BY <3>1 DEF Agent
    <3>3. a.at \in 0..Chunks
      BY <1>8, ConstantsAssumption DEF AgentOpens, AgentWrites
    <3>4. \A c \in agents \ {a} : c.by \in Tool /\ c.by # a.by
      BY <3>1 DEF Agent, OneAgentEach
    <3> QED
      BY <3>1, <3>2, <3>3, <3>4
  <2> DEFINE b == [a EXCEPT !.at = a.at + 1]
  <2>2. agents' = (agents \ {a}) \cup {b}
    <3>1. CASE AgentOpens(a)
      <4>1. a.at = 0 /\ a.at + 1 = 1
        BY <3>1 DEF AgentOpens
      <4> QED
        BY <3>1, <4>1 DEF AgentOpens
    <3>2. CASE AgentWrites(a)
      BY <3>2 DEF AgentWrites
    <3> QED
      BY <1>8, <3>1, <3>2
  <2>3. b.by = a.by /\ b.run = a.run /\ b.at = a.at + 1
    BY <2>1 DEF Agent
  <2> HIDE DEF b
  <2>4. remote' = [remote EXCEPT ![a.by] = Pieces(a.by, a.run, a.at)]
    <3>1. CASE AgentOpens(a)
      BY <3>1 DEF AgentOpens, Pieces
    <3>2. CASE AgentWrites(a)
      <4>1. a.at \in 1..Chunks /\ remote[a.by] = Pieces(a.by, a.run, a.at - 1)
        BY <3>2, <2>1 DEF AgentWrites, AgentInv
      <4> QED
        BY <3>2, <2>1, <4>1, WriteNext DEF AgentWrites
    <3> QED
      BY <1>8, <3>1, <3>2
  <2>5. remote'[b.by] = Pieces(b.by, b.run, b.at - 1)
    BY <2>1, <2>3, <2>4 DEF TypeOK
  <2>6. \A c \in agents \ {a} : remote'[c.by] = remote[c.by]
    BY <2>1, <2>4 DEF TypeOK
  <2>7. UNCHANGED toolVars
    BY <1>8 DEF AgentOpens, AgentWrites
  <2>8. AgentInv'
    <3> SUFFICES ASSUME NEW c \in agents'
                 PROVE  /\ \A t \in Tool : pc[t] # "upload"
                        /\ pc[c.by] \notin Without
                        /\ c.run <= run[c.by]
                        /\ pc[c.by] = "run" => c.run = run[c.by] /\ status[c.by] = "running"
                        /\ c.at >= 1 => remote'[c.by] = Pieces(c.by, c.run, c.at - 1)
      BY <2>7 DEF AgentInv, toolVars
    <3>1. CASE c = b
      BY <2>3, <2>5, <3>1 DEF AgentInv
    <3>2. CASE c \in agents \ {a}
      BY <2>6, <3>2 DEF AgentInv
    <3> QED
      BY <2>2, <3>1, <3>2
  <2>9. OneAgentEach'
    BY <2>1, <2>2, <2>3 DEF OneAgentEach
  <2> QED
    BY <2>8, <2>9
<1>9. ASSUME NEW a \in agents, AgentExits(a) \/ AgentFails(a)
      PROVE  AgentInv' /\ OneAgentEach'
  <2>1. /\ agents' = agents \ {a} /\ UNCHANGED <<pc, run, remote>>
        /\ \A u \in Tool \ {a.by} : status'[u] = status[u]
    BY <1>9 DEF AgentExits, AgentFails, Ended, TypeOK
  <2>2. \A b \in agents \ {a} : b.by \in Tool \ {a.by}
    BY DEF OneAgentEach, TypeOK, Agent
  <2> QED
    BY <2>1, <2>2 DEF AgentInv, OneAgentEach
<1>10. CASE UNCHANGED vars
  BY <1>10 DEF vars, toolVars, hostVars, AgentInv, OneAgentEach
<1> QED
  BY <1>1, <1>2, <1>3, <1>4, <1>5, <1>6, <1>7, <1>8, <1>9, <1>10 DEF Next, Steps

(* At its end a run forgets what it held, and disturbs no other instance.   *)
LEMMA EndEffect ==
  ASSUME TypeOK, NEW t \in Tool, NEW how, End(t, how)
  PROVE  /\ pc'[t] = "idle" /\ exit'[t] = how /\ run' = run
         /\ copier'[t] = "none" /\ pipe'[t] = "none"
         /\ \A u \in Tool \ {t} :
              /\ pc'[u] = pc[u] /\ exit'[u] = exit[u] /\ status'[u] = status[u]
              /\ got'[u] = got[u] /\ copier'[u] = copier[u] /\ pipe'[u] = pipe[u]
  BY DEF End, Goto, TypeOK

(* What an instance fetches is the plan that its agent has finished, which *)
(* no agent touches until the instance starts another one.                 *)
LEMMA FetchStep ==
  ASSUME TypeOK, Inv, [Next]_vars
  PROVE  FetchInv'
<1> USE DEF Inv
<1>f. \A u \in Tool : Fetching(u)
  BY DEF FetchInv
<1>a. ASSUME NEW u \in Tool, pc'[u] = pc[u], run'[u] = run[u], remote'[u] = remote[u],
             got'[u] = got[u], copier'[u] = copier[u], pipe'[u] = pipe[u],
             status'[u] = "ok" => status[u] = "ok"
      PROVE  Fetching(u)'
  BY <1>f, <1>a DEF Fetching
<1>b. ASSUME NEW u \in Tool, copier'[u] = "none", pipe'[u] = "none",
             pc'[u] \in {"idle", "kill", "create", "upload", "chmod", "exec"}
      PROVE  Fetching(u)'
  BY <1>b DEF Fetching
<1>e. ASSUME NEW t \in Tool, NEW how, End(t, how), remote' = remote
      PROVE  FetchInv'
  BY <1>a, <1>b, <1>e, EndEffect DEF FetchInv
<1>1. ASSUME NEW t \in Tool, Connect(t) \/ ConnectFails(t) \/ Create(t) \/ Chmod(t)
      PROVE  FetchInv'
  <2>1. copier'[t] = "none" /\ pipe'[t] = "none"
    BY <1>1, <1>f DEF Connect, ConnectFails, Create, Chmod, Step, fetchVars, Fetching, TypeOK
  <2>2. pc'[t] \in {"idle", "kill", "create", "upload", "chmod", "exec"}
    BY <1>1 DEF Connect, ConnectFails, Create, Chmod, Step, Goto, TypeOK
  <2>3. \A u \in Tool \ {t} : pc'[u] = pc[u] /\ run'[u] = run[u]
    BY <1>1 DEF Connect, ConnectFails, Create, Chmod, Step, Goto, TypeOK
  <2>4. UNCHANGED <<status, remote, fetchVars>>
    BY <1>1 DEF Connect, ConnectFails, Create, Chmod, Step, hostVars
  <2> QED
    BY <1>a, <1>b, <2>1, <2>2, <2>3, <2>4 DEF FetchInv, fetchVars
<1>2. ASSUME NEW t \in Tool, CopyFails(t) \/ CreateRefused(t) \/ AgentFailed(t) \/ Disconnected(t)
                             \/ Crash(t) \/ WriteLocal(t)
      PROVE  FetchInv'
  <2>1. (\E how : End(t, how)) /\ remote' = remote
    BY <1>2 DEF CopyFails, CreateRefused, AgentFailed, Disconnected, Crash, WriteLocal, hostVars
  <2> QED
    BY <1>e, <2>1
<1>3. ASSUME NEW t \in Tool, KillAgents(t)
      PROVE  FetchInv'
  <2>1. copier'[t] = "none" /\ pipe'[t] = "none" /\ pc'[t] = "create"
    BY <1>3, <1>f DEF KillAgents, Goto, fetchVars, Fetching, TypeOK
  <2>2. /\ \A u \in Tool : status'[u] = "ok" => status[u] = "ok"
        /\ \A u \in Tool \ {t} : pc'[u] = pc[u]
        /\ UNCHANGED <<run, remote, fetchVars>>
    BY <1>3 DEF KillAgents, Goto, TypeOK
  <2> QED
    BY <1>a, <1>b, <2>1, <2>2 DEF FetchInv, fetchVars
<1>4. ASSUME NEW t \in Tool, Reconnect(t) \/ Deadline(t) \/ LoseConnection(t)
      PROVE  FetchInv'
  BY <1>4, <1>a DEF Reconnect, Deadline, LoseConnection, hostVars, fetchVars, FetchInv
<1>5. ASSUME NEW t \in Tool, Upload(t)
      PROVE  FetchInv'
  <2>1. CASE late[t]
    BY <1>5, <1>e, <2>1 DEF Upload
  <2>2. CASE ~late[t]
    <3>1. copier'[t] = "none" /\ pipe'[t] = "none"
      BY <1>5, <1>f, <2>2 DEF Upload, Step, fetchVars, Fetching
    <3> QED
      BY <1>5, <1>a, <1>b, <2>2, <3>1 DEF Upload, FetchInv, Step, Goto, fetchVars, TypeOK
  <2> QED
    BY <2>1, <2>2
<1>6. ASSUME NEW t \in Tool, ExecAgent(t)
      PROVE  FetchInv'
  <2>1. pc'[t] = "run" /\ status'[t] # "ok" /\ copier'[t] = "none" /\ pipe'[t] = "none"
    BY <1>6, <1>f DEF ExecAgent, Goto, fetchVars, Fetching, TypeOK
  <2>2. Fetching(t)'
    BY <2>1 DEF Fetching
  <2>3. \A u \in Tool \ {t} : pc'[u] = pc[u] /\ status'[u] = status[u]
    BY <1>6 DEF ExecAgent, Goto, TypeOK
  <2> QED
    BY <1>6, <1>a, <2>2, <2>3 DEF ExecAgent, fetchVars, FetchInv
<1>7. ASSUME NEW t \in Tool, AgentEnded(t) \/ TruncateLocal(t)
      PROVE  FetchInv'
  <2>1. /\ UNCHANGED <<run, status, remote, fetchVars>>
        /\ \A u \in Tool \ {t} : pc'[u] = pc[u]
    BY <1>7 DEF AgentEnded, TruncateLocal, Step, Goto, hostVars, TypeOK
  <2>2. Fetching(t)'
    <3>1. CASE AgentEnded(t)
      <4>1. pc[t] = "run" /\ status[t] = "ok" /\ pc'[t] = "open"
        BY <3>1 DEF AgentEnded, Step, Goto, TypeOK
      <4> QED
        BY <1>f, <2>1, <4>1 DEF Fetching, fetchVars
    <3>2. CASE TruncateLocal(t)
      <4>1. pc[t] = "save" /\ pc'[t] = "write"
        BY <3>2 DEF TruncateLocal, Step, Goto, TypeOK
      <4> QED
        BY <1>f, <2>1, <4>1 DEF Fetching, fetchVars
    <3> QED
      BY <1>7, <3>1, <3>2
  <2> QED
    BY <1>a, <2>1, <2>2 DEF FetchInv, fetchVars
<1>8. ASSUME NEW t \in Tool, OpenRemote(t)
      PROVE  FetchInv'
  <2>1. /\ pc[t] = "open" /\ pc'[t] = "read" /\ got'[t] = <<>>
        /\ copier'[t] = "copy" /\ pipe'[t] = "open"
    BY <1>8 DEF OpenRemote, Goto, TypeOK
  <2>2. <<>> = Pieces(t, run[t], Len(<<>>))
    BY EmptySeq DEF Pieces
  <2>3. Fetching(t)'
    BY <1>8, <1>f, <2>1, <2>2 DEF OpenRemote, hostVars, Fetching
  <2> QED
    BY <1>8, <1>a, <2>3 DEF OpenRemote, Goto, hostVars, FetchInv, TypeOK
<1>9. ASSUME NEW t \in Tool, Copy(t) \/ CopyEnds(t)
      PROVE  FetchInv'
  <2> DEFINE n == Len(got[t])
  <2>1. /\ pc[t] = "read" /\ pc' = pc /\ copier[t] = "copy"
        /\ UNCHANGED <<run, remote, status, pipe>>
        /\ \A u \in Tool \ {t} : got'[u] = got[u] /\ copier'[u] = copier[u]
    BY <1>9 DEF Copy, CopyEnds, toolVars, hostVars, TypeOK
  <2>2. /\ run[t] \in 1..MaxRuns /\ n \in 0..Chunks
        /\ got[t] = Pieces(t, run[t], n) /\ remote[t] = Pieces(t, run[t], Chunks)
        /\ Len(remote[t]) = Chunks
    <3>1. run[t] \in 1..MaxRuns /\ n \in 0..Chunks
      BY <2>1, LenProperties, ConstantsAssumption DEF RunInv, TypeOK
    <3>2. got[t] = Pieces(t, run[t], n) /\ remote[t] = Pieces(t, run[t], Chunks)
      BY <1>f, <2>1, WholePlan DEF Fetching
    <3> QED
      BY <3>1, <3>2, PiecesType, ConstantsAssumption
  <2>3. Fetching(t)'
    <3>1. CASE Copy(t)
      <4>1. n \in 0..(Chunks - 1) /\ got'[t] = Append(got[t], remote[t][n + 1]) /\ copier' = copier
        BY <2>2, <3>1, ConstantsAssumption DEF Copy, TypeOK
      <4>2. remote[t][n + 1] = <<t, run[t], n + 1>>
        BY <2>2, <4>1, ConstantsAssumption DEF Pieces
      <4>3. got'[t] = Pieces(t, run[t], n + 1)
        BY <2>2, <4>1, <4>2, NextPiece
      <4>4. Len(got'[t]) = n + 1
        <5>1. n + 1 \in 0..Chunks
          BY <4>1, ConstantsAssumption
        <5> QED
          BY <2>2, <4>3, <5>1, PiecesType
      <4>5. pipe[t] = "open"
        BY <3>1 DEF Copy
      <4> QED
        BY <1>f, <2>1, <4>1, <4>3, <4>4, <4>5 DEF Fetching
    <3>2. CASE CopyEnds(t)
      <4>1. got' = got /\ copier'[t] \in {"eof", "error"}
        BY <3>2 DEF CopyEnds, TypeOK
      <4>2. copier'[t] = "eof" => n >= Chunks /\ pipe[t] = "open"
        BY <2>2, <3>2 DEF CopyEnds, TypeOK
      <4>3. copier'[t] = "eof" => got[t] = PlanOf(t, run[t])
        BY <2>2, <4>2, WholePlan, ConstantsAssumption
      <4>4. pipe[t] # "eof"
        BY <1>f, <2>1 DEF Fetching
      <4> QED
        BY <1>f, <2>1, <4>1, <4>3, <4>4 DEF Fetching
    <3> QED
      BY <1>9, <3>1, <3>2
  <2> QED
    BY <1>a, <2>1, <2>3 DEF FetchInv
<1>10. ASSUME NEW t \in Tool, CopierCloses(t) \/ DeadlineCloses(t)
       PROVE  FetchInv'
  <2>1. /\ UNCHANGED <<pc, run, remote, status, got>>
        /\ \A u \in Tool \ {t} : copier'[u] = copier[u] /\ pipe'[u] = pipe[u]
    BY <1>10 DEF CopierCloses, DeadlineCloses, toolVars, hostVars, TypeOK
  <2>2. Fetching(t)'
    <3>1. CASE CopierCloses(t)
      <4>1. /\ copier[t] # "none" /\ copier'[t] = "none"
            /\ pipe'[t] = IF pipe[t] = "open" THEN copier[t] ELSE pipe[t]
        BY <3>1 DEF CopierCloses, TypeOK
      <4> QED
        BY <1>f, <2>1, <4>1 DEF Fetching
    <3>2. CASE DeadlineCloses(t)
      <4>1. pc[t] = "read" /\ pipe'[t] = "error" /\ copier' = copier
        BY <3>2 DEF DeadlineCloses, TypeOK
      <4> QED
        BY <1>f, <2>1, <4>1 DEF Fetching
    <3> QED
      BY <1>10, <3>1, <3>2
  <2> QED
    BY <1>a, <2>1, <2>2 DEF FetchInv
<1>11. ASSUME NEW t \in Tool, ReadAll(t)
       PROVE  FetchInv'
  <2>1. CASE pipe[t] = "eof"
    <3>1. /\ pc[t] = "read" /\ pc'[t] = "save" /\ UNCHANGED <<run, status, remote, fetchVars>>
          /\ \A u \in Tool \ {t} : pc'[u] = pc[u]
      BY <1>11, <2>1 DEF ReadAll, Step, Goto, hostVars, TypeOK
    <3>2. Fetching(t)'
      BY <1>f, <2>1, <3>1 DEF Fetching, fetchVars
    <3> QED
      BY <1>a, <3>1, <3>2 DEF FetchInv, fetchVars
  <2>2. CASE pipe[t] # "eof"
    BY <1>11, <1>e, <2>2 DEF ReadAll, hostVars
  <2> QED
    BY <2>1, <2>2
<1>12. ASSUME NEW a \in agents, AgentOpens(a) \/ AgentWrites(a)
       PROVE  FetchInv'
  <2>1. a.by \in Tool
    BY DEF TypeOK, Agent
  <2>2. UNCHANGED <<toolVars, fetchVars>> /\ \A u \in Tool \ {a.by} : remote'[u] = remote[u]
    BY <1>12, <2>1 DEF AgentOpens, AgentWrites, TypeOK
  <2>3. Fetching(a.by)'
    <3>1. pc[a.by] \notin Without /\ (pc[a.by] = "run" => status[a.by] # "ok")
      BY DEF AgentInv
    <3> QED
      BY <1>f, <2>1, <2>2, <3>1 DEF Fetching, Without, toolVars, fetchVars
  <2> QED
    BY <1>a, <2>2, <2>3 DEF FetchInv, toolVars, fetchVars
<1>13. ASSUME NEW a \in agents, AgentExits(a) \/ AgentFails(a)
       PROVE  FetchInv'
  <2>1. a \in Agent /\ a.by \in Tool /\ UNCHANGED <<pc, run, remote, fetchVars>>
    BY <1>13 DEF AgentExits, AgentFails, Ended, TypeOK, Agent
  <2>2. \A u \in Tool : u = a.by \/ status'[u] = status[u]
    BY <1>13, <2>1 DEF AgentExits, AgentFails, Ended, TypeOK
  <2>3. Fetching(a.by)'
    <3>1. CASE status'[a.by] = "ok" => status[a.by] = "ok"
      BY <1>a, <2>1, <3>1 DEF fetchVars
    <3>2. CASE ~(status'[a.by] = "ok" => status[a.by] = "ok")
      <4>1. AgentExits(a) /\ pc[a.by] = "run" /\ run[a.by] = a.run
        BY <1>13, <2>1, <3>2 DEF AgentExits, AgentFails, Ended, TypeOK
      <4>2. a.at >= 1 /\ a.at - 1 = Chunks
        BY <4>1, ConstantsAssumption DEF AgentExits
      <4>3. remote[a.by] = PlanOf(a.by, run[a.by])
        BY <4>1, <4>2, WholePlan DEF AgentInv
      <4> QED
        BY <1>f, <2>1, <4>1, <4>3 DEF Fetching, fetchVars
    <3> QED
      BY <3>1, <3>2
  <2> QED
    BY <1>a, <2>1, <2>2, <2>3 DEF FetchInv, fetchVars
<1>14. CASE UNCHANGED vars
  BY <1>14, <1>a DEF vars, toolVars, hostVars, fetchVars, FetchInv
<1> QED
  BY <1>1, <1>2, <1>3, <1>4, <1>5, <1>6, <1>7, <1>8, <1>9, <1>10, <1>11, <1>12, <1>13, <1>14
  DEF Next, Steps

(* While a run is under way it has not ended in any manner.                *)
LEMMA RunStep ==
  ASSUME TypeOK, RunInv, [Next]_vars
  PROVE  RunInv'
<1> SUFFICES ASSUME NEW u \in Tool
             PROVE  (pc[u] # "idle" => exit[u] = "none" /\ run[u] >= 1)'
  BY DEF RunInv
<1>a. /\ pc[u] # "idle" => exit[u] = "none" /\ run[u] >= 1
      /\ run[u] \in Nat
  BY DEF RunInv, TypeOK
<1>1. ASSUME NEW t \in Tool, Connect(t) \/ ConnectFails(t)
      PROVE  (pc[u] # "idle" => exit[u] = "none" /\ run[u] >= 1)'
  <2>1. CASE Connect(t)
    BY <1>a, <2>1 DEF Connect, Goto, TypeOK
  <2>2. CASE ConnectFails(t)
    BY <1>a, <2>2 DEF ConnectFails, TypeOK
  <2> QED
    BY <1>1, <2>1, <2>2
<1>2. ASSUME NEW t \in Tool, NEW how, End(t, how)
      PROVE  (pc[u] # "idle" => exit[u] = "none" /\ run[u] >= 1)'
  BY <1>a, <1>2, EndEffect
<1>3. ASSUME NEW t \in Tool, NEW where, Goto(t, where), pc[t] # "idle", run' = run, exit' = exit
      PROVE  (pc[u] # "idle" => exit[u] = "none" /\ run[u] >= 1)'
  BY <1>a, <1>3 DEF Goto, TypeOK
<1>4. CASE UNCHANGED <<pc, run, exit>>
  BY <1>a, <1>4
<1>5. ASSUME NEW t \in Tool, Steps(t) \/ Upload(t)
      PROVE  (pc[u] # "idle" => exit[u] = "none" /\ run[u] >= 1)'
  BY <1>2, <1>3, <1>4, <1>5
  DEF Steps, Upload, CopyFails, KillAgents, Reconnect, Create, CreateRefused, Chmod, ExecAgent,
      AgentEnded, AgentFailed, OpenRemote, ReadAll, TruncateLocal, WriteLocal, Disconnected, Step
<1>6. ASSUME NEW t \in Tool, Crash(t)
      PROVE  (pc[u] # "idle" => exit[u] = "none" /\ run[u] >= 1)'
  BY <1>2, <1>6 DEF Crash
<1> QED
  BY <1>1, <1>4, <1>5, <1>6
  DEF Next, Copy, CopyEnds, CopierCloses, Deadline, DeadlineCloses, LoseConnection,
      AgentOpens, AgentWrites, AgentExits, AgentFails, Ended, toolVars, vars

(* A local plan is replaced when all of the plan of the run is at hand, by *)
(* this plan.                                                              *)
LEMMA SavedStep ==
  ASSUME TypeOK, Inv, [Next]_vars
  PROVE  /\ OwnWholePlan'
         /\ \A u \in Tool : local'[u] # local[u] => got[u] = PlanOf(u, run[u])
<1> USE DEF Inv
<1> DEFINE Own(u) ==
      /\ local[u] # NoPlan => \E r \in 1..run[u] : local[u] = PlanOf(u, r)
      /\ exit[u] = "ok" => local[u] = PlanOf(u, run[u])
<1>a. ASSUME NEW u \in Tool, local'[u] = local[u], run'[u] >= run[u],
             exit'[u] = "ok" => exit[u] = "ok" /\ run'[u] = run[u]
      PROVE  Own(u)'
  <2>1. run[u] \in Nat /\ (local[u] # NoPlan => \E r \in 1..run[u] : local[u] = PlanOf(u, r))
    BY DEF OwnWholePlan, TypeOK
  <2>2. run'[u] \in Nat => (local[u] # NoPlan => \E r \in 1..run'[u] : local[u] = PlanOf(u, r))
    BY <1>a, <2>1
  <2>3. run'[u] \in Nat
    BY TypeStep DEF TypeOK
  <2> QED
    BY <1>a, <2>2, <2>3 DEF OwnWholePlan
<1> DEFINE Goal == /\ \A u \in Tool : Own(u)'
                   /\ \A u \in Tool : local'[u] # local[u] => got[u] = PlanOf(u, run[u])
<1> SUFFICES Goal
  BY DEF OwnWholePlan
<1>b. \A u \in Tool : run[u] \in Nat
  BY DEF TypeOK
<1> HIDE DEF Own
<1>1. ASSUME NEW t \in Tool, Connect(t) \/ ConnectFails(t)
      PROVE  Goal
  <2>1. /\ local' = local /\ \A u \in Tool : run'[u] >= run[u]
        /\ \A u \in Tool : exit'[u] = "ok" => exit[u] = "ok" /\ run'[u] = run[u]
    <3>1. CASE Connect(t)
      BY <1>b, <3>1 DEF Connect, TypeOK
    <3>2. CASE ConnectFails(t)
      BY <1>b, <3>2 DEF ConnectFails, TypeOK
    <3> QED
      BY <1>1, <3>1, <3>2
  <2> QED
    BY <1>a, <2>1
<1>2. ASSUME NEW t \in Tool, NEW how \in {"error", "crash"}, End(t, how), local' = local
      PROVE  Goal
  BY <1>a, <1>b, <1>2, EndEffect
<1>3. CASE UNCHANGED <<run, exit, local>>
  BY <1>a, <1>b, <1>3
<1>4. ASSUME NEW t \in Tool, TruncateLocal(t)
      PROVE  Goal
  <2>1. /\ pc[t] = "save" /\ run' = run /\ exit' = exit
        /\ local' = [local EXCEPT ![t] = NoPlan] /\ local'[t] = NoPlan
    BY <1>4 DEF TruncateLocal, Step, TypeOK
  <2>2. exit[t] = "none" /\ got[t] = PlanOf(t, run[t])
    BY <2>1 DEF RunInv, FetchInv, Fetching
  <2>3. Own(t)'
    BY <2>1, <2>2 DEF Own
  <2>4. \A u \in Tool \ {t} : local'[u] = local[u]
    BY <2>1 DEF TypeOK
  <2> QED
    BY <1>a, <1>b, <2>1, <2>2, <2>3, <2>4
<1>5. ASSUME NEW t \in Tool, WriteLocal(t)
      PROVE  Goal
  <2>1. /\ pc[t] = "write" /\ End(t, "ok")
        /\ local' = [local EXCEPT ![t] = got[t]] /\ local'[t] = got[t]
    BY <1>5 DEF WriteLocal, TypeOK
  <2>2. run[t] >= 1 /\ got[t] = PlanOf(t, run[t])
    BY <2>1 DEF RunInv, FetchInv, Fetching
  <2>3. run[t] \in 1..run[t] /\ run' = run
    BY <1>b, <2>1, <2>2, EndEffect
  <2>4. Own(t)'
    BY <2>1, <2>2, <2>3 DEF Own
  <2>5. \A u \in Tool \ {t} : local'[u] = local[u] /\ exit'[u] = exit[u]
    BY <2>1, EndEffect DEF TypeOK
  <2> QED
    BY <1>a, <1>b, <2>2, <2>3, <2>4, <2>5
<1>6. ASSUME NEW t \in Tool, Steps(t) \/ Upload(t) \/ Crash(t)
      PROVE  Goal
  <2>1. TruncateLocal(t) \/ WriteLocal(t) \/ UNCHANGED <<run, exit, local>>
        \/ (local' = local /\ \E how \in {"error", "crash"} : End(t, how))
    BY <1>6
    DEF Steps, Upload, Crash, CopyFails, KillAgents, Reconnect, Create, CreateRefused, Chmod,
        ExecAgent, AgentEnded, AgentFailed, OpenRemote, ReadAll, Disconnected, Step
  <2> QED
    BY <1>2, <1>3, <1>4, <1>5, <2>1
<1>7. CASE \E t \in Tool : Copy(t) \/ CopyEnds(t) \/ CopierCloses(t) \/ Deadline(t)
                           \/ DeadlineCloses(t) \/ LoseConnection(t)
  BY <1>3, <1>7
  DEF Copy, CopyEnds, CopierCloses, Deadline, DeadlineCloses, LoseConnection, toolVars
<1>8. CASE \E a \in agents : AgentOpens(a) \/ AgentWrites(a) \/ AgentExits(a) \/ AgentFails(a)
  BY <1>3, <1>8 DEF AgentOpens, AgentWrites, AgentExits, AgentFails, Ended, toolVars
<1>9. CASE UNCHANGED vars
  BY <1>3, <1>9 DEF vars, toolVars
<1> QED
  BY <1>1, <1>6, <1>7, <1>8, <1>9 DEF Next
-----------------------------------------------------------------------------
(* Types and invariant hold together: an agent writes after the pieces it  *)
(* wrote before only because it is the only one of its instance.           *)
LEMMA Invariant == ASSUME TextBusy PROVE Spec => [](TypeOK /\ Inv)
<1>1. Init => TypeOK /\ Inv
  <2> SUFFICES ASSUME Init PROVE TypeOK /\ Inv
    OBVIOUS
  <2>1. <<>> \in Seq(Piece) /\ Len(<<>>) <= Chunks
    BY ConstantsAssumption, EmptySeq
  <2>2. TypeOK
    BY <2>1, ConstantsAssumption DEF Init, NoPlan, TypeOK
  <2>3. Inv
    BY DEF Init, Inv, AgentInv, OneAgentEach, FetchInv, Fetching, RunInv, OwnWholePlan
  <2> QED
    BY <2>2, <2>3
<1>2. TypeOK /\ Inv /\ [Next]_vars => (TypeOK /\ Inv)'
  BY TypeStep, AgentStep, FetchStep, RunStep, SavedStep DEF Inv
<1> QED
  BY <1>1, <1>2, PTL DEF Spec

(* Every variable holds what it is declared to hold, however many          *)
(* instances, agents and lost connections there are.                       *)
THEOREM TypeCorrect == ASSUME TextBusy PROVE Spec => []TypeOK
  BY Invariant, PTL

(* No two agents ever write the plan of one instance.                      *)
THEOREM NeverTwoAgents == ASSUME TextBusy PROVE Spec => []OneAgentEach
<1>1. Inv => OneAgentEach
  BY DEF Inv
<1> QED
  BY <1>1, Invariant, PTL

(* What an instance has saved is a whole plan of one of its runs, and when *)
(* a run ended well the plan of that run.                                  *)
THEOREM SavedPlanIsOwn == ASSUME TextBusy PROVE Spec => []OwnWholePlan
<1>1. Inv => OwnWholePlan
  BY DEF Inv
<1> QED
  BY <1>1, Invariant, PTL

(* The plan of an earlier run is not touched before all of the new one is  *)
(* there.                                                                  *)
THEOREM EarlierPlanKept == ASSUME TextBusy PROVE Spec => OldPlanKept
<1> DEFINE Kept == \A t \in Tool : local'[t] # local[t] => got[t] = PlanOf(t, run[t])
<1>1. TypeOK /\ Inv /\ [Next]_vars => Kept
  BY SavedStep
<1> QED
  BY <1>1, Invariant, PTL DEF Spec, OldPlanKept
=============================================================================
