------------------------------- MODULE OsStat -------------------------------
(***************************************************************************)
(* common/os.go: osStatWithContext, through which IsExists asks for files. *)
(* A call starts a goroutine that stats and sends what it finds on one of  *)
(* two channels, unbuffered and made for this call, and waits for it or    *)
(* for five seconds.  When the deadline wins, the goroutine stays: in      *)
(* os.Stat, which may hang, or at a channel that nobody reads, until the   *)
(* process ends.  The caller of IsExists is the main goroutine only, and   *)
(* a process asks for each name at most once.                              *)
(***************************************************************************)
EXTENDS Naturals

CONSTANTS
  Name,    \* names of files; a call is known by the one it asks for
  NoName   \* no call

VARIABLES
  exists,     \* exists[f]: is there a file f?
  waiting,    \* name: the call that waits in its select
  expired,    \* are the five seconds of its context over?
  goroutine   \* goroutine[f]: that of the call for f: "none" (not started, or
              \* done), "stat" (in os.Stat), at its send: "data" or "err"

statVars == <<waiting, expired, goroutine>>

StatInit ==
  /\ waiting = NoName /\ expired = FALSE
  /\ goroutine = [f \in Name |-> "none"]

Call(f) ==
  /\ waiting = NoName
  /\ waiting' = f /\ expired' = FALSE
  /\ goroutine' = [goroutine EXCEPT ![f] = "stat"]

(* os.Stat returns, in time or long after its caller went on.              *)
Stat(f) ==
  /\ goroutine[f] = "stat"
  /\ goroutine' = [goroutine EXCEPT ![f] = IF exists[f] THEN "data" ELSE "err"]
  /\ UNCHANGED <<waiting, expired>>

Expire ==
  /\ waiting # NoName /\ ~expired
  /\ expired' = TRUE
  /\ UNCHANGED <<waiting, goroutine>>

(* Mutant: all calls share their channels. *)
ReceiveFromAny(what) ==
  /\ waiting # NoName
  /\ \E f \in Name : /\ goroutine[f] = what
                     /\ goroutine' = [goroutine EXCEPT ![f] = "none"]
  /\ waiting' = NoName /\ expired' = FALSE

(* The select takes what the goroutine sends ...                           *)
Receive(what) ==
  /\ waiting # NoName /\ goroutine[waiting] = what
  /\ goroutine' = [goroutine EXCEPT ![waiting] = "none"]
  /\ waiting' = NoName /\ expired' = FALSE

(* Mutant: the deadline is of no effect. *)
DoneNever == FALSE /\ UNCHANGED statVars

(* ... or the end of the context; either, when both are there.             *)
Done ==
  /\ waiting # NoName /\ expired
  /\ waiting' = NoName /\ expired' = FALSE
  /\ UNCHANGED goroutine

(* The process ends, and with it every goroutine that was left over.       *)
ProcessEnds == waiting' = NoName /\ expired' = FALSE /\ goroutine' = [f \in Name |-> "none"]
=============================================================================
