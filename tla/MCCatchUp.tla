------------------------------ MODULE MCCatchUp ------------------------------
(* Values for the constants of CatchUp that a .cfg cannot write. *)
EXTENDS CatchUp

CONSTANTS backup, report

OneJob   == <<backup>>
TwoJobs  == <<report, backup>>
EveryThree == [j \in Ids |-> {o \in 1..Horizon : o % 3 = 0}]
Latest   == [j \in Ids |-> "latest"]
All      == [j \in Ids |-> "all"]
JitterOne == [j \in Ids |-> IF j = backup THEN 1 ELSE 0]
==============================================================================
