----------------------------- MODULE Executions -----------------------------
(***************************************************************************)
(* The executions of one job inside the daemon: execute and the map of     *)
(* cancel functions, the overlap policy, job cancel, and what a shutdown   *)
(* waits for (internal/daemon/daemon.go, internal/runner/runner.go).       *)
(*                                                                         *)
(* d.cancels has one slot per job.  Everything an execution does between   *)
(* taking the execution lock and leaving it is one run here (module        *)
(* RunOnce has its steps).                                                 *)
(***************************************************************************)
EXTENDS Naturals

CONSTANTS
  Executions,  \* bound: the executions that may begin
  Nobody       \* an empty slot, a free lock

Policies == {"skip", "queue", "cancel_previous", "allow"}
\* What starts an execution: a gocron task; a "run" trigger or a reload's one-shot pass, each
\* in a goroutine of its own; or the clock loop's catch-up.
Starters == {"gocron", "goroutine", "clock"}

ASSUME NobodyAssumption == Nobody \notin Executions

VARIABLES
  policy,   \* the job's concurrency; it does not change
  at,       \* where each execution is
  starter,  \* what started it
  cause,    \* the cause its context was cancelled with, "none" before that
  status,   \* the status of its terminal record, "none" before that
  before,   \* history variable: the executions in flight when it registered
  slot,     \* d.cancels[j.ID]
  lock,     \* who holds the execution lock
  latest,   \* history variable: who registered last
  phase     \* "serving", "stopping" or "gone"

vars == <<policy, at, starter, cause, status, before, slot, lock, latest, phase>>

InFlight(e) == at[e] \in {"registered", "retry", "running", "ended", "leaving"}
Running(e) == at[e] = "running"

\* A context keeps the cause it was cancelled with first.
Cancelled(causes, e, why) ==
  IF causes[e] = "none" THEN [causes EXCEPT ![e] = why] ELSE causes

-----------------------------------------------------------------------------
(***************************************************************************)
(* execute.                                                                *)
(***************************************************************************)
\* Singleton mode keeps gocron to one task at a time; the clock loop is one goroutine.
MayStart(s) ==
  LET alone == \A e \in Executions : InFlight(e) => starter[e] # s
  IN CASE s = "gocron" -> phase = "serving" /\ (policy \in {"skip", "queue"} => alone)
       [] s = "goroutine" -> phase = "serving"
       [] s = "clock" -> phase = "serving" /\ alone

\* Mutant of Register: an execution supersedes the one in the slot under every policy.
SupersedeAlways(e, s) ==
  /\ at[e] = "idle" /\ MayStart(s)
  /\ at' = [at EXCEPT ![e] = "registered"]
  /\ starter' = [starter EXCEPT ![e] = s]
  /\ cause' = IF slot # Nobody
              THEN Cancelled(cause, slot, "superseded") ELSE cause
  /\ slot' = e
  /\ latest' = e
  /\ before' = [before EXCEPT ![e] = {p \in Executions : InFlight(p)}]
  /\ UNCHANGED <<policy, status, lock, phase>>

Register(e, s) ==
  /\ at[e] = "idle" /\ MayStart(s)
  /\ at' = [at EXCEPT ![e] = "registered"]
  /\ starter' = [starter EXCEPT ![e] = s]
  /\ cause' = IF slot # Nobody /\ policy = "cancel_previous"
              THEN Cancelled(cause, slot, "superseded") ELSE cause
  /\ slot' = e
  /\ latest' = e
  /\ before' = [before EXCEPT ![e] = {p \in Executions : InFlight(p)}]
  /\ UNCHANGED <<policy, status, lock, phase>>

\* RunOnce takes the execution lock without waiting; under every policy but skip it tries a
\* second time, at once.
TryLockRun(e) ==
  /\ at[e] \in {"registered", "retry"}
  /\ \/ /\ lock = Nobody
        /\ lock' = e /\ at' = [at EXCEPT ![e] = "running"]
        /\ UNCHANGED status
     \/ /\ lock # Nobody /\ at[e] = "registered" /\ policy # "skip"
        /\ at' = [at EXCEPT ![e] = "retry"]
        /\ UNCHANGED <<lock, status>>
     \/ /\ lock # Nobody /\ (at[e] = "retry" \/ policy = "skip")
        /\ status' = [status EXCEPT ![e] = "overlap"]
        /\ at' = [at EXCEPT ![e] = "leaving"]
        /\ UNCHANGED lock
  /\ UNCHANGED <<policy, starter, cause, before, slot, latest, phase>>

\* The command ends by itself, or is killed because the context was cancelled; one that ends
\* by itself as it is cancelled may be recorded either way.
Finish(e) ==
  /\ Running(e)
  /\ \E how \in {"completed"} \cup (IF cause[e] = "none" THEN {} ELSE {cause[e]}) :
       status' = [status EXCEPT ![e] = how]
  /\ at' = [at EXCEPT ![e] = "ended"]
  /\ UNCHANGED <<policy, starter, cause, before, slot, lock, latest, phase>>

Unlock(e) ==
  /\ at[e] = "ended"
  /\ lock' = Nobody /\ at' = [at EXCEPT ![e] = "leaving"]
  /\ UNCHANGED <<policy, starter, cause, status, before, slot, latest, phase>>

\* Mutant of Leave: the slot is left as it is.
LeaveSlot(e) ==
  /\ at[e] = "leaving"
  /\ at' = [at EXCEPT ![e] = "done"]
  /\ cause' = Cancelled(cause, e, "shutdown")
  /\ UNCHANGED <<policy, starter, status, before, slot, lock, latest, phase>>

\* The deferred function cancels its own context and empties the slot, whoever is in it.
Leave(e) ==
  /\ at[e] = "leaving"
  /\ at' = [at EXCEPT ![e] = "done"]
  /\ cause' = Cancelled(cause, e, "shutdown")
  /\ slot' = Nobody
  /\ UNCHANGED <<policy, starter, status, before, lock, latest, phase>>

-----------------------------------------------------------------------------
(***************************************************************************)
(* job cancel, and the shutdown.                                           *)
(***************************************************************************)
\* Mutant of CancelCommand: the slot is emptied at once.
CancelEmptiesSlot ==
  /\ phase = "serving" /\ slot # Nobody
  /\ cause' = Cancelled(cause, slot, "user")
  /\ slot' = Nobody
  /\ UNCHANGED <<policy, at, starter, status, before, lock, latest, phase>>

\* The cancel trigger reads the slot under d.mu and calls what it found afterwards, which
\* cannot be told from calling it at once: a cause is set once.  An empty slot is answered
\* with "no run in flight".
CancelCommand ==
  /\ phase = "serving" /\ slot # Nobody
  /\ cause' = Cancelled(cause, slot, "user")
  /\ UNCHANGED <<policy, at, starter, status, before, slot, lock, latest, phase>>

\* Every execution's context is a child of the daemon's.
Shutdown ==
  /\ phase = "serving" /\ phase' = "stopping"
  /\ cause' = [e \in Executions |-> IF InFlight(e) /\ cause[e] = "none" THEN "shutdown"
                                    ELSE cause[e]]
  /\ UNCHANGED <<policy, at, starter, status, before, slot, lock, latest>>

\* Mutant of Exit: nothing is waited for.
ExitAtOnce ==
  /\ phase = "stopping" /\ phase' = "gone"
  /\ at' = [e \in Executions |-> IF InFlight(e) THEN "done" ELSE at[e]]
  /\ slot' = Nobody /\ lock' = Nobody
  /\ UNCHANGED <<policy, starter, cause, status, before, latest>>

\* StopJobs waits for gocron's tasks and wg.Wait for the clock loop (killed commands are taken
\* to end within shutdownGrace); nothing waits for the other goroutines, which end with the
\* process, and so does the lock they hold.
Exit ==
  /\ phase = "stopping" /\ phase' = "gone"
  /\ \A e \in Executions : InFlight(e) => starter[e] = "goroutine"
  /\ at' = [e \in Executions |-> IF InFlight(e) THEN "done" ELSE at[e]]
  /\ slot' = Nobody /\ lock' = Nobody
  /\ UNCHANGED <<policy, starter, cause, status, before, latest>>

-----------------------------------------------------------------------------
Init ==
  /\ policy \in Policies
  /\ at = [e \in Executions |-> "idle"] /\ starter = [e \in Executions |-> "none"]
  /\ cause = [e \in Executions |-> "none"] /\ status = [e \in Executions |-> "none"]
  /\ before = [e \in Executions |-> {}]
  /\ slot = Nobody /\ lock = Nobody /\ latest = Nobody
  /\ phase = "serving"

Step(e) ==
  \/ \E s \in Starters : Register(e, s)
  \/ TryLockRun(e) \/ Finish(e) \/ Unlock(e) \/ Leave(e)
Next == (\E e \in Executions : Step(e)) \/ CancelCommand \/ Shutdown \/ Exit

Spec == Init /\ [][Next]_vars

-----------------------------------------------------------------------------
(***************************************************************************)
(* Properties.                                                             *)
(***************************************************************************)
Causes == {"none", "user", "superseded", "shutdown"}

\* Every variable holds a value of its kind.
TypeOK ==
  /\ policy \in Policies
  /\ at \in [Executions -> {"idle", "registered", "retry", "running", "ended", "leaving",
                            "done"}]
  /\ starter \in [Executions -> Starters \cup {"none"}]
  /\ cause \in [Executions -> Causes]
  /\ status \in [Executions -> {"none", "overlap", "completed"} \cup (Causes \ {"none"})]
  /\ before \in [Executions -> SUBSET Executions]
  /\ {slot, lock, latest} \subseteq Executions \cup {Nobody}
  /\ phase \in {"serving", "stopping", "gone"}

\* What job cancel would cancel is never an execution that is over, nor one that a newer
\* execution has replaced.
SlotIsLatest == slot # Nobody => InFlight(slot) /\ slot = latest

\* job cancel answers "no run in flight" of a run that is going on only if another execution of
\* the job overlapped it: a run that was alone is always reached.
Overlapped(e) == before[e] # {} \/ \E f \in Executions : e \in before[f]
AloneIsReached ==
  \A e \in Executions : Running(e) /\ phase = "serving" /\ ~Overlapped(e) => slot = e

\* The reason of a cancelled run is true: "shutdown" only when the daemon stops (and not by the
\* deferred cancel of a run that is over), "superseded" only if the policy asked for it and an
\* execution began after it.
ReasonTrue ==
  \A e \in Executions :
    /\ status[e] = "shutdown" => phase # "serving"
    /\ status[e] = "superseded" =>
         policy = "cancel_previous" /\ \E f \in Executions : e \in before[f]

\* When the daemon is gone, every run that gocron or the clock loop began has its terminal record.
LoopRunsRecorded ==
  phase = "gone" =>
    \A e \in Executions : at[e] = "done" /\ status[e] = "none" => starter[e] = "goroutine"

(***************************************************************************)
(* What comments and documents say and the code does not do (README).      *)
(***************************************************************************)
\* job cancel never answers "no run in flight" while the daemon has one going on.
CancelReaches == \A e \in Executions : Running(e) /\ phase = "serving" => slot # Nobody

\* No execution is refused under a policy that promises to start it.
NoneRefused ==
  policy \in {"allow", "cancel_previous"} => \A e \in Executions : status[e] # "overlap"

\* An execution that begins under cancel_previous cancels the run that is going on.
PreviousCancelled ==
  policy = "cancel_previous" =>
    \A e, p \in Executions : InFlight(e) /\ p \in before[e] /\ Running(p) => cause[p] # "none"

\* When the daemon is gone, every run it began has its terminal record.
StoppedRecorded == phase = "gone" => \A e \in Executions : at[e] = "done" => status[e] # "none"
=============================================================================
