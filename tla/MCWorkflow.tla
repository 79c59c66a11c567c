----------------------------- MODULE MCWorkflow -----------------------------
(***************************************************************************)
(* Instances of Workflow for TLC.  Virtual server 1 runs Windows and has   *)
(* one additional disk; virtual server 2 runs Linux, has none and names    *)
(* its compute resource.                                                   *)
(***************************************************************************)
EXTENDS Workflow, TLC

CONSTANTS windows, linux, data

MCDisk  == {data}
MCExtra == [v \in 1..N |-> IF v = 1 THEN {data} ELSE {}]
MCGuest == [v \in 1..N |-> IF v = 1 THEN windows ELSE linux]
MCOwnCR == [v \in 1..N |-> IF v = 2 THEN 7 ELSE 0]
MCSize  == [v \in 1..N |-> [d \in {data} |-> 20]]

BothImages == windows :> 3 @@ linux :> 4

Good == [url |-> "real", token |-> "token",
         defaults |-> [image |-> BothImages, user |-> 1, project |-> 1, cr |-> 2,
                       location |-> 1, offer |-> 5]]

(* Settings that leave out one thing each.  Without a default offer they   *)
(* validate once an earlier run has filled the offers in.                  *)
NoOffer    == [Good EXCEPT !.defaults.offer = 0]
ImageZero  == [Good EXCEPT !.defaults.image[linux] = 0]
NoCR       == [Good EXCEPT !.defaults.cr = 0]
NoProject  == [Good EXCEPT !.defaults.project = 0]
NoLocation == [Good EXCEPT !.defaults.location = 0]
NotEdited  == [Good EXCEPT !.url = "example"]

MCSettings == {Good, NoOffer, ImageZero, NoCR, NoProject, NoLocation, NotEdited}
=============================================================================
