--------------------------- MODULE MCImportDisks ---------------------------
(***************************************************************************)
(* Instances of ImportDisks for TLC.  Virtual server 1 runs Windows and    *)
(* has two additional disks, virtual server 2 has the primary disk only.   *)
(***************************************************************************)
EXTENDS ImportDisks

MCAdditional == [v \in 1..N |-> IF v = 1 THEN 2 ELSE 0]
AllDestined  == [v \in 1..N |-> 0..MCAdditional[v]]

(* virt-v2v lists the disks as the plan does ... *)
PlanOrder == [v \in 1..N |-> {[k \in 1..(MCAdditional[v] + 1) |-> k - 1]}]
(* ... or fewer or more of them, or in another order, ... *)
OtherCount == [v \in 1..N |-> IF v = 1 THEN {<<0>>, <<0, 1>>, <<0, 2, 1>>, <<2, 0, 1, 3>>}
                                       ELSE {<<>>, <<0>>, <<0, 1>>}]
(* ... or the additional ones in either order.                               *)
AnyOrder == [v \in 1..N |-> IF v = 1 THEN {<<0, 1, 2>>, <<0, 2, 1>>} ELSE {<<0>>}]

FullDirs == [form: {"full"}, vs: 1..N]
AllDirs  == [form: {"full", "bare"}, vs: 1..N]

OnlyConvert == {"convert"}
=============================================================================
