--------------------------- MODULE MCImportStat ---------------------------
(***************************************************************************)
(* Instances of ImportStat for TLC.  Virtual server 1 runs Windows and     *)
(* has two additional disks, virtual server 2 has the primary disk only.   *)
(***************************************************************************)
EXTENDS ImportStat

MCAdditional == [v \in 1..N |-> IF v = 1 THEN 2 ELSE 0]
AllDestined  == [v \in 1..N |-> 0..MCAdditional[v]]

(* virt-v2v lists the disks as the plan does ... *)
PlanOrder == [v \in 1..N |-> {[k \in 1..(MCAdditional[v] + 1) |-> k - 1]}]
FullDirs == [form: {"full"}, vs: 1..N]
=============================================================================
