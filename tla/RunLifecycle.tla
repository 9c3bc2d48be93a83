----------------------------- MODULE RunLifecycle -----------------------------
(***************************************************************************)
(* What the life of a run promises to a reader of the history, whatever    *)
(* locks, copies and files make it happen: a run starts while no other run *)
(* of its job goes on, reads as "running" from then on, and gets its       *)
(* status from the flow that started it.  What that flow leaves open, and  *)
(* only what was open when it looked, a starting daemon closes.  Module    *)
(* RunOnce implements this specification (RunOnce!KeepsLifecycle).         *)
(***************************************************************************)
CONSTANTS
  Jobs,   \* job ids
  Ids,    \* run ids
  Flows,  \* goroutines and processes
  Ends,   \* the statuses a run may end with
  Idle    \* of a flow that executes no run

Absent == "absent"

VARIABLES
  seen,      \* the status a reader sees for a run of a job
  doing,     \* the run each flow is executing
  noted,     \* the runs that a starting daemon found open
  forgotten  \* jobs whose history was removed once

vars == <<seen, doing, noted, forgotten>>

Shows(j, id, status) == seen' = [seen EXCEPT ![j][id] = status]

Busy(j) == \E f \in Flows : doing[f] # Idle /\ doing[f][1] = j

\* A flow starts a run.  Nothing excludes the runs of a job whose lock file was removed.
Start(f, j, id) ==
  /\ doing[f] = Idle /\ (j \in forgotten \/ ~Busy(j))
  /\ doing' = [doing EXCEPT ![f] = <<j, id>>]
  /\ Shows(j, id, "running")
  /\ UNCHANGED <<noted, forgotten>>

\* It records how the run ended.
End(f, status) ==
  /\ doing[f] # Idle
  /\ doing' = [doing EXCEPT ![f] = Idle]
  /\ Shows(doing[f][1], doing[f][2], status)
  /\ UNCHANGED <<noted, forgotten>>

\* A run that does not start: the lock, the daily limit or the working directory forbids it.
Refusals == {"skipped", "failure"}

Refuse(j, id, status) ==
  /\ \E f \in Flows : doing[f] = Idle
  /\ UNCHANGED <<doing, noted, forgotten>>
  /\ Shows(j, id, status)

\* Flows stop without a word; the runs they executed still read as running.
Stop(fs) ==
  /\ doing' = [f \in Flows |-> IF f \in fs THEN Idle ELSE doing[f]]
  /\ noted' \in {noted, {}}
  /\ UNCHANGED <<seen, forgotten>>

Note(j) ==
  /\ noted = {}
  /\ noted' = {<<j, id>> : id \in {i \in Ids : seen[j][i] = "running"}}
  /\ UNCHANGED <<seen, doing, forgotten>>

\* A run noted as open is closed, or its record could not be written.
Close(j, id) ==
  /\ <<j, id>> \in noted
  /\ noted' = noted \ {<<j, id>>}
  /\ Shows(j, id, "failure") \/ UNCHANGED seen
  /\ UNCHANGED <<doing, forgotten>>

Forget(j) ==
  /\ seen' = [seen EXCEPT ![j] = [id \in Ids |-> Absent]]
  /\ forgotten' = forgotten \cup {j}
  /\ UNCHANGED <<doing, noted>>

Init ==
  /\ seen = [j \in Jobs |-> [id \in Ids |-> Absent]]
  /\ doing = [f \in Flows |-> Idle]
  /\ noted = {} /\ forgotten = {}

Next ==
  \/ \E fs \in SUBSET Flows : Stop(fs)
  \/ \E f \in Flows, j \in Jobs, id \in Ids : Start(f, j, id)
  \/ \E f \in Flows, status \in Ends : End(f, status)
  \/ \E j \in Jobs, id \in Ids : Close(j, id) \/ \E status \in Refusals : Refuse(j, id, status)
  \/ \E j \in Jobs : Note(j) \/ Forget(j)

Spec == Init /\ [][Next]_vars
=============================================================================
