---------------------------- MODULE CommandExec ----------------------------
(***************************************************************************)
(* One call of Exec (command/commander.go): a child process whose standard *)
(* output and standard error each go through a pipe to a goroutine, which  *)
(* splits it into lines with a bufio.Scanner and appends them to the list  *)
(* that both share.  Exec waits for the goroutines, then for the child.    *)
(*                                                                         *)
(* Output is counted in units of an arbitrary number of bytes, of which a  *)
(* pipe and the buffer of a Scanner hold a few.                            *)
(***************************************************************************)
EXTENDS Integers, Sequences

CONSTANTS
  Scripts,       \* what the child may do: the lines it writes and its exit code
  PipeSize,      \* number of units that a pipe holds
  MaxToken,      \* number of units that the buffer of a Scanner holds
  Contexts,      \* the contexts that callers give: "none" or "live"
  Ignore,        \* ignoreExitCodes
  OutsideSignals \* may the child end by a signal not of the context?

Stream == {"stdout", "stderr"}
Script == [lines: Seq([to: Stream, units: Nat \ {0}]), code: Int]

ASSUME ConstantsAssumption ==
  /\ Scripts \subseteq Script
  /\ PipeSize \in Nat \ {0} /\ MaxToken \in Nat \ {0}
  /\ Contexts \subseteq {"none", "live"}
  /\ Ignore \subseteq Int
  /\ OutsideSignals \in BOOLEAN

VARIABLES
  script,     \* what the child does
  ctx,        \* the context: "none", "live" or "done"
  child,      \* the child process
  next,       \* the line and the unit of it that the child writes next
  pipe,       \* pipe[s]: units written to s and not read
  reader,     \* reader[s]: what the goroutine that reads s is doing
  buf,        \* buf[s]: the units its Scanner holds
  seen,       \* seen[s]: length of the shared list when it began to append
  combined,   \* combinedOutput, the list both goroutines append to
  garbled,    \* have their appends overlapped, to ill effect?
  pc,         \* where Exec is
  result      \* what it returned

readers == <<reader, buf, seen, combined, garbled>>
vars == <<script, ctx, child, next, pipe, readers, pc, result>>

(* How a child ends: by itself, by SIGKILL or by any other signal.         *)
Ended == child \in {"exited", "killed", "signalled"}

Line(l) == script.lines[l]
AllWritten == next[1] > Len(script.lines)

(* A unit is named by its line and its place in it. *)
EndsLine(u) == u[2] = Line(u[1]).units
-----------------------------------------------------------------------------
Init ==
  /\ script \in Scripts
  /\ ctx \in Contexts
  /\ child = "none"
  /\ next = <<1, 1>>
  /\ pipe = [s \in Stream |-> <<>>]
  /\ reader = [s \in Stream |-> "none"]
  /\ buf = [s \in Stream |-> <<>>]
  /\ seen = [s \in Stream |-> 0]
  /\ combined = <<>> /\ garbled = FALSE
  /\ pc = "start" /\ result = "none"

Start ==
  /\ pc = "start" /\ ctx # "done"
  /\ child' = "running"
  /\ reader' = [s \in Stream |-> "scan"]
  /\ pc' = "wait"
  /\ UNCHANGED <<script, ctx, next, pipe, buf, seen, combined, garbled, result>>

(* No pipe or no process could be made, or the context is done already. *)
StartFails ==
  /\ pc = "start"
  /\ pc' = "returned" /\ result' = "notStarted"
  /\ UNCHANGED <<script, ctx, child, next, pipe, readers>>

(* The child blocks while the pipe it writes to is full. *)
ChildWrite ==
  /\ child = "running" /\ ~AllWritten
  /\ LET s == Line(next[1]).to
     IN  /\ Len(pipe[s]) < PipeSize
         /\ pipe' = [pipe EXCEPT ![s] = Append(@, next)]
  /\ next' = IF EndsLine(next) THEN <<next[1] + 1, 1>> ELSE <<next[1], next[2] + 1>>
  /\ UNCHANGED <<script, ctx, child, readers, pc, result>>

ChildExit ==
  /\ child = "running" /\ AllWritten
  /\ child' = "exited"
  /\ UNCHANGED <<script, ctx, next, pipe, readers, pc, result>>

ContextDone ==
  /\ ctx = "live"
  /\ ctx' = "done"
  /\ UNCHANGED <<script, child, next, pipe, readers, pc, result>>

(* Mutant: the command is started without its context. *)
KillNever == FALSE

(* What exec.CommandContext does when the context is done. *)
Kill ==
  /\ child = "running" /\ ctx = "done"
  /\ child' = "killed"
  /\ UNCHANGED <<script, ctx, next, pipe, readers, pc, result>>

(* SIGKILL from elsewhere, or another signal: SIGTERM, a fault of its own. *)
SignalFromOutside ==
  /\ OutsideSignals /\ child = "running"
  /\ child' \in {"killed", "signalled"}
  /\ UNCHANGED <<script, ctx, next, pipe, readers, pc, result>>

(* Mutant: the buffer grows with the line. *)
ScanUnbounded(s) ==
  /\ reader[s] = "scan" /\ pipe[s] # <<>>
  /\ pipe' = [pipe EXCEPT ![s] = Tail(@)]
  /\ buf' = [buf EXCEPT ![s] = Append(@, Head(pipe[s]))]
  /\ reader' = [reader EXCEPT ![s] = IF EndsLine(Head(pipe[s])) THEN "load" ELSE @]
  /\ UNCHANGED <<script, ctx, child, next, seen, combined, garbled, pc, result>>

(* Mutant: standard error is read after standard output. *)
ScanInTurn(s) ==
  /\ s = "stderr" => reader["stdout"] = "done"
  /\ reader[s] = "scan" /\ pipe[s] # <<>> /\ Len(buf[s]) < MaxToken
  /\ pipe' = [pipe EXCEPT ![s] = Tail(@)]
  /\ buf' = [buf EXCEPT ![s] = Append(@, Head(pipe[s]))]
  /\ reader' = [reader EXCEPT ![s] = IF EndsLine(Head(pipe[s])) THEN "load" ELSE @]
  /\ UNCHANGED <<script, ctx, child, next, seen, combined, garbled, pc, result>>

Scan(s) ==
  /\ reader[s] = "scan" /\ pipe[s] # <<>> /\ Len(buf[s]) < MaxToken
  /\ pipe' = [pipe EXCEPT ![s] = Tail(@)]
  /\ buf' = [buf EXCEPT ![s] = Append(@, Head(pipe[s]))]
  /\ reader' = [reader EXCEPT ![s] = IF EndsLine(Head(pipe[s])) THEN "load" ELSE @]
  /\ UNCHANGED <<script, ctx, child, next, seen, combined, garbled, pc, result>>

(* A full buffer without the end of a line in it ends the loop (ErrTooLong, *)
(* which is logged); nobody reads the pipe from then on.                    *)
LineTooLong(s) ==
  /\ reader[s] = "scan" /\ Len(buf[s]) = MaxToken
  /\ reader' = [reader EXCEPT ![s] = "done"]
  /\ UNCHANGED <<script, ctx, child, next, pipe, buf, seen, combined, garbled, pc, result>>

(* At the end of the output, what there is of a last line is a line. *)
EndOfOutput(s) ==
  /\ reader[s] = "scan" /\ pipe[s] = <<>> /\ Len(buf[s]) < MaxToken
  /\ Ended
  /\ reader' = [reader EXCEPT ![s] = IF buf[s] = <<>> THEN "done" ELSE "load"]
  /\ UNCHANGED <<script, ctx, child, next, pipe, buf, seen, combined, garbled, pc, result>>

(* append reads the list ... *)
Load(s) ==
  /\ reader[s] = "load"
  /\ seen' = [seen EXCEPT ![s] = Len(combined)]
  /\ reader' = [reader EXCEPT ![s] = "store"]
  /\ UNCHANGED <<script, ctx, child, next, pipe, buf, combined, garbled, pc, result>>

(* ... and writes it back, without a lock.  When the other goroutine wrote *)
(* in between, lines may be lost or the list be broken.                    *)
Store(s) ==
  /\ reader[s] = "store"
  /\ combined' = Append(combined, buf[s])
  /\ IF Len(combined) = seen[s] THEN UNCHANGED garbled ELSE garbled' \in {garbled, TRUE}
  /\ buf' = [buf EXCEPT ![s] = <<>>]
  /\ reader' = [reader EXCEPT ![s] = "scan"]
  /\ UNCHANGED <<script, ctx, child, next, pipe, seen, pc, result>>

(* Mutant: one of the goroutines is not waited for. *)
WaitForOne ==
  /\ pc = "wait" /\ \E s \in Stream : reader[s] = "done"
  /\ pc' = "reap"
  /\ UNCHANGED <<script, ctx, child, next, pipe, readers, result>>

WaitForReaders ==
  /\ pc = "wait" /\ \A s \in Stream : reader[s] = "done"
  /\ pc' = "reap"
  /\ UNCHANGED <<script, ctx, child, next, pipe, readers, result>>

(* ExitError.ExitCode: -1 for a child that a signal ended. *)
ExitCode == IF child = "exited" THEN script.code ELSE -1

(* Mutant: a killed child goes through the exit codes. *)
OutcomeOfCode ==
  CASE ExitCode \in Ignore \ {0} -> "ok"
    [] ExitCode \notin Ignore \cup {0} -> "failed"
    [] OTHER -> IF ctx = "done" THEN "context" ELSE "ok"

(* "signal: killed" is reported as a deadline that is over, whoever sent   *)
(* it, and never as an exit code that may be ignored; every other end goes *)
(* through isValidExitCode.  A context that is done is an error after a    *)
(* success, not after an ignored code.                                     *)
Outcome ==
  CASE child = "killed" -> "deadline"
    [] child # "killed" /\ ExitCode # 0 ->
         IF ExitCode \in Ignore THEN "ok" ELSE "failed"
    [] OTHER -> IF ctx = "done" THEN "context" ELSE "ok"

Reap ==
  /\ pc = "reap" /\ child # "running"
  /\ result' = Outcome
  /\ pc' = "returned"
  /\ UNCHANGED <<script, ctx, child, next, pipe, readers>>

Read(s) == Scan(s) \/ LineTooLong(s) \/ EndOfOutput(s) \/ Load(s) \/ Store(s)

Next ==
  \/ Start \/ StartFails
  \/ ChildWrite \/ ChildExit
  \/ ContextDone \/ Kill \/ SignalFromOutside
  \/ \E s \in Stream : Read(s)
  \/ WaitForReaders \/ Reap

Spec == Init /\ [][Next]_vars

(* Goroutines and the child are scheduled; the child ends when it has      *)
(* written its lines; nothing makes a context end.                         *)
Fairness ==
  /\ WF_vars(Start \/ StartFails) /\ WF_vars(WaitForReaders) /\ WF_vars(Reap)
  /\ WF_vars(ChildWrite) /\ WF_vars(ChildExit) /\ WF_vars(Kill)
  /\ \A s \in Stream : WF_vars(Read(s))

FairSpec == Spec /\ Fairness
-----------------------------------------------------------------------------
Unit == Nat \X Nat

TypeOK ==
  /\ script \in Scripts
  /\ ctx \in {"none", "live", "done"}
  /\ child \in {"none", "running", "exited", "killed", "signalled"}
  /\ next \in Unit
  /\ pipe \in [Stream -> Seq(Unit)] /\ \A s \in Stream : Len(pipe[s]) <= PipeSize
  /\ reader \in [Stream -> {"none", "scan", "load", "store", "done"}]
  /\ buf \in [Stream -> Seq(Unit)] /\ \A s \in Stream : Len(buf[s]) <= MaxToken
  /\ seen \in [Stream -> Nat]
  /\ combined \in Seq(Seq(Unit))
  /\ garbled \in BOOLEAN
  /\ pc \in {"start", "wait", "reap", "returned"}
  /\ result \in {"none", "notStarted", "ok", "failed", "deadline", "context"}

Fits(s) ==
  \A l \in DOMAIN script.lines : Line(l).to = s => Line(l).units <= MaxToken

(* What the child has written of line l. *)
Written(l) ==
  LET n == IF l < next[1] THEN Line(l).units ELSE IF l = next[1] THEN next[2] - 1 ELSE 0
  IN  [u \in 1..n |-> <<l, u>>]

(* The line that some units are of, and the entries of the list that quote *)
(* lines of a stream.                                                      *)
LineOf(units) == units[1][1]
Quoted(s) == {k \in DOMAIN combined : Line(LineOf(combined[k])).to = s}

(* The error of a command that failed or was killed quotes all that the    *)
(* command wrote, each line once and the lines of a stream in order, if no *)
(* line of it was too long and the goroutines did not get in each other's  *)
(* way.                                                                    *)
ReportComplete ==
  result \in {"failed", "deadline"} /\ ~garbled =>
    \A s \in Stream : Fits(s) =>
      /\ \A l \in DOMAIN script.lines : Line(l).to = s /\ Written(l) # <<>> =>
           \E k \in DOMAIN combined : combined[k] = Written(l)
      /\ \A k \in Quoted(s) : combined[k] = Written(LineOf(combined[k]))
      /\ \A j, k \in Quoted(s) : j < k => LineOf(combined[j]) < LineOf(combined[k])

(* Exec succeeds only for a child that has ended with an exit code that is *)
(* zero or ignored.  A child ended by a signal has the code -1 there, but  *)
(* one that was killed is never taken for a success, though -1 be ignored. *)
OkMeansAccepted ==
  result = "ok" => /\ child \in {"exited", "signalled"}
                   /\ ExitCode \in {0} \cup Ignore

(* Exec returns, however the child spreads its output over the pipes and   *)
(* however little these hold: neither pipe is left full (commander.go:130). *)
Returns == (\A s \in Stream : Fits(s)) ~> (pc = "returned")

(* A context that is done ends the call, whatever it is waiting for.       *)
DeadlineReturns == (ctx = "done") ~> (pc = "returned")

(* Exec returns, whatever lines the child writes (commander.go:136).        *)
ReturnsAlways == <>(pc = "returned")
=============================================================================
