-------------------------- MODULE ServerRegistry ---------------------------
(***************************************************************************)
(* What creating virtual servers by an import plan promises, without plan  *)
(* files, runs or failures: a record that names, for each virtual server   *)
(* of the plan, at most one server of the SolusVM API.  The record only    *)
(* ever moves to a later server made for the same virtual server, or is    *)
(* lost as a whole.                                                        *)
(***************************************************************************)
EXTENDS Naturals, Sequences

CONSTANT VS   \* the virtual servers of the plan

VARIABLES
  origin,     \* origin[a]: the virtual server that create request a was for
  servers,    \* the requests the API has made a server of
  recorded    \* recorded[v]: the server named for v, 0 when there is none

vars == <<origin, servers, recorded>>

Init == /\ origin = <<>>
        /\ servers = {}
        /\ recorded = [v \in VS |-> 0]

(* A create request is sent for a virtual server. *)
Ask(v) == /\ origin' = Append(origin, v)
          /\ UNCHANGED <<servers, recorded>>

(* The API makes a server, at any time after the request. *)
Make(a) == /\ a \in DOMAIN origin
           /\ servers' = servers \cup {a}
           /\ UNCHANGED <<origin, recorded>>

(* The record names a server that was made for v. *)
Record(v, a) == /\ a \in servers /\ origin[a] = v
                /\ a > recorded[v]
                /\ recorded' = [recorded EXCEPT ![v] = a]
                /\ UNCHANGED <<origin, servers>>

Lose == /\ recorded' = [v \in VS |-> 0]
        /\ UNCHANGED <<origin, servers>>

Next == \/ \E v \in VS : Ask(v)
        \/ \E a \in DOMAIN origin : Make(a)
        \/ \E v \in VS, a \in servers : Record(v, a)
        \/ Lose

Spec == Init /\ [][Next]_vars
=============================================================================
