--------------------------- MODULE MCCommandExec ---------------------------
(***************************************************************************)
(* Instances of CommandExec for TLC: a pipe holds two units, a line three. *)
(***************************************************************************)
EXTENDS CommandExec

Out(n) == [to |-> "stdout", units |-> n]
Err(n) == [to |-> "stderr", units |-> n]

(* Lines that just fit, on one stream or on both in turn, more of them     *)
(* than the pipe holds, with a good exit code and with bad ones.           *)
Fitting == {[lines |-> ls, code |-> c] :
              ls \in {<<>>, <<Out(3), Out(1)>>, <<Err(1), Err(3), Out(1)>>,
                      <<Out(2), Err(2), Out(1), Err(1)>>},
              c \in {0, 1, 2}}

(* A line that is too long, with no more than a pipe of output after it,   *)
(* or with more.                                                           *)
Long == {[lines |-> ls, code |-> 0] :
           ls \in {<<Out(4), Err(1)>>, <<Err(1), Out(7)>>}}

MCScripts == Fitting \cup Long
Both == {"none", "live"}
IgnoreTwo == {-1, 2}
=============================================================================
