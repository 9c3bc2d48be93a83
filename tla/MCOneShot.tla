------------------------------ MODULE MCOneShot ------------------------------
(* Values for the constants of OneShot that a .cfg cannot write. *)
EXTENDS OneShot

CONSTANTS backup, report

OneJob  == <<backup>>
TwoJobs == <<report, backup>>
AtTwo   == [j \in Ids |-> 2]
AtTwoThree == [j \in Ids |-> IF j = report THEN 2 ELSE 3]
Latest  == [j \in Ids |-> "latest"]
OffOnce == [j \in Ids |-> IF j = report THEN "off" ELSE "latest"]
==============================================================================
