------------------------------ MODULE MCRunOnce ------------------------------
(* Values for the constants of RunOnce that a .cfg cannot write. *)
EXTENDS RunOnce, TLC

SkipPolicy   == [j \in Jobs |-> "skip"]
QueuePolicy  == [j \in Jobs |-> "queue"]
NoLimit      == [j \in Jobs |-> 0]
OnePerDay    == [j \in Jobs |-> 1]
FlowSymmetry == Permutations(Threads) \cup Permutations(Externals)
==============================================================================
