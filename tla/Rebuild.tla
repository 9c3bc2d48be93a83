------------------------------- MODULE Rebuild -------------------------------
(***************************************************************************)
(* How the daemon keeps gocron in step with jobs.yaml and overrides.json:  *)
(* reload, rebuild and watchLoop, the reload command, job pause and        *)
(* resume, and the circuit breaker (internal/daemon/daemon.go,             *)
(* internal/store/overrides.go, internal/store/store.go).                  *)
(*                                                                         *)
(* One job.  Four goroutines rebuild, and nothing serialises them: the     *)
(* watcher, a reload trigger, the clock loop after a sleep, and the run    *)
(* that trips the breaker.                                                 *)
(***************************************************************************)
EXTENDS Naturals

CONSTANTS
  Limit,        \* max_consecutive_failures
  None,         \* no override
  MaxEdits,     \* bound: edits of jobs.yaml
  MaxSwitches,  \* bound: job pause and job resume
  MaxOthers,    \* bound: reload commands and sleeps that the clock loop notices
  MaxLost,      \* bound: changes of overrides.json that fsnotify misses
  MaxRuns       \* bound: runs of the job

Override == [enabled: BOOLEAN, declared: BOOLEAN]
Rebuilders == {"watch", "reload", "clock", "breaker"}

ASSUME LimitAssumption == Limit \in Nat \ {0}
ASSUME BoundAssumption == MaxEdits \in Nat
ASSUME NoneAssumption == None \notin Override

VARIABLES
  file,       \* jobs.yaml: its version, whether it is valid, and the job's enabled
  polled,     \* the version watchLoop's poll saw last
  loaded,     \* the valid jobs.yaml the daemon loaded last
  override,   \* the job's entry in overrides.json
  scheduled,  \* gocron has the job
  event,      \* fire: the watcher has a change to act on
  rebuilder,  \* where each rebuilding goroutine is, and what it has read
  run,        \* the run in flight: "none", "going", "ended", "trips", "rebuilds"
  outcome,    \* its terminal status
  declared,   \* j.Enabled as the run captured it
  failures,   \* consecutiveFailures
  tripped,    \* history variable: outcomes of the runs that tripped the breaker
  asked,      \* history variable: what was asked of enabled last, by an edit or an override
  edits, switches, commands, sleeps, runs, lost   \* counters for the bounds

vars == <<file, polled, loaded, override, scheduled, event, rebuilder, run, outcome, declared,
          failures, tripped, asked, edits, switches, commands, sleeps, runs, lost>>
counters == <<edits, switches, commands, sleeps, runs, lost>>
running == <<run, outcome, declared, failures, tripped>>

-----------------------------------------------------------------------------
(***************************************************************************)
(* overrides.json.                                                         *)
(***************************************************************************)
EffectiveEnabled(dec, ov) == IF ov # None /\ ov.declared = dec THEN ov.enabled ELSE dec

\* Mutant of SetEnabled: nothing is done when jobs.yaml says the same already.
LeaveOverride(enabled, dec) ==
  /\ asked' = enabled
  /\ override' = IF enabled = dec THEN override ELSE [enabled |-> enabled, declared |-> dec]

\* An override that says what jobs.yaml says is dropped.
SetEnabled(enabled, dec) ==
  /\ asked' = enabled
  /\ override' = IF enabled = dec THEN None ELSE [enabled |-> enabled, declared |-> dec]

\* fsnotify reports a change of overrides.json, or misses it.
Notify ==
  \/ event' = TRUE /\ UNCHANGED lost
  \/ lost < MaxLost /\ lost' = lost + 1 /\ UNCHANGED event

-----------------------------------------------------------------------------
(***************************************************************************)
(* The user.                                                               *)
(***************************************************************************)
\* An edit may leave jobs.yaml invalid; the enabled it asks for is the last valid one's.
\* fsnotify reports it or misses it.
Edit ==
  /\ edits < MaxEdits /\ edits' = edits + 1
  /\ \E valid, enabled \in BOOLEAN :
       /\ file' = [version |-> file.version + 1, valid |-> valid,
                   enabled |-> IF valid THEN enabled ELSE file.enabled]
       /\ asked' = IF file'.enabled # file.enabled THEN enabled ELSE asked
  /\ event' \in {TRUE, event}
  /\ UNCHANGED <<polled, loaded, override, scheduled, rebuilder, running, switches, commands,
                 sleeps, runs, lost>>

\* job pause, job resume, which need a valid jobs.yaml.  The consecutive failures stay.
Switch(enabled) ==
  /\ file.valid
  /\ switches < MaxSwitches /\ switches' = switches + 1
  /\ SetEnabled(enabled, file.enabled)
  /\ Notify
  /\ UNCHANGED <<file, polled, loaded, scheduled, rebuilder, running, edits, commands,
                 sleeps, runs>>

-----------------------------------------------------------------------------
(***************************************************************************)
(* reload and rebuild.                                                     *)
(***************************************************************************)
FirstFile == [version |-> 1, valid |-> TRUE, enabled |-> TRUE]
Resting == [at |-> "rest", read |-> FirstFile, want |-> FALSE, seen |-> FALSE]
AtRest(g) == rebuilder[g].at = "rest"
Move(g, at) == rebuilder' = [rebuilder EXCEPT ![g].at = at]

\* Mutant of WatchFire: the schedule is rebuilt, jobs.yaml is not read again.
WatchFireNoReload ==
  /\ event /\ AtRest("watch")
  /\ event' = FALSE
  /\ Move("watch", "want")
  /\ UNCHANGED <<file, polled, loaded, override, scheduled, running, asked, counters>>

\* watchLoop does one reload at a time.
WatchFire ==
  /\ event /\ AtRest("watch")
  /\ event' = FALSE
  /\ Move("watch", "read")
  /\ UNCHANGED <<file, polled, loaded, override, scheduled, running, asked, counters>>

\* The poll looks at jobs.yaml, not at overrides.json.
Poll ==
  /\ AtRest("watch") /\ polled # file.version
  /\ polled' = file.version /\ event' = TRUE
  /\ UNCHANGED <<file, loaded, override, scheduled, rebuilder, running, asked, counters>>

ReloadCommand ==
  /\ AtRest("reload") /\ commands + sleeps < MaxOthers /\ commands' = commands + 1
  /\ Move("reload", "read")
  /\ UNCHANGED <<file, polled, loaded, override, scheduled, event, running, asked, edits,
                 switches, sleeps, runs, lost>>

\* recoverFromSleep rebuilds without reading jobs.yaml again.
WakeUp ==
  /\ AtRest("clock") /\ commands + sleeps < MaxOthers /\ sleeps' = sleeps + 1
  /\ Move("clock", "want")
  /\ UNCHANGED <<file, polled, loaded, override, scheduled, event, running, asked, edits,
                 switches, commands, runs, lost>>

\* An invalid jobs.yaml leaves the loaded one as it was.
ReadFile(g) ==
  /\ rebuilder[g].at = "read"
  /\ rebuilder' = [rebuilder EXCEPT ![g] = IF file.valid
                                             THEN [@ EXCEPT !.at = "loaded", !.read = file]
                                             ELSE [@ EXCEPT !.at = "want"]]
  /\ UNCHANGED <<file, polled, loaded, override, scheduled, event, running, asked, counters>>

SetLoaded(g) ==
  /\ rebuilder[g].at = "loaded"
  /\ loaded' = rebuilder[g].read
  /\ rebuilder' = [rebuilder EXCEPT ![g] = [Resting EXCEPT !.at = "want"]]
  /\ UNCHANGED <<file, polled, override, scheduled, event, running, asked, counters>>

\* enabledJobs.
Want(g) ==
  /\ rebuilder[g].at = "want"
  /\ rebuilder' = [rebuilder EXCEPT ![g].at = "current",
                                    ![g].want = EffectiveEnabled(loaded.enabled, override)]
  /\ UNCHANGED <<file, polled, loaded, override, scheduled, event, running, asked, counters>>

\* d.ids, copied.
Current(g) ==
  /\ rebuilder[g].at = "current"
  /\ rebuilder' = [rebuilder EXCEPT ![g].at = "apply", ![g].seen = scheduled]
  /\ UNCHANGED <<file, polled, loaded, override, scheduled, event, running, asked, counters>>

\* A job that was seen is removed or updated, which fails if it has gone; one that was not seen
\* is added.  The breaker's rebuild is the end of its run.
Apply(g) ==
  /\ rebuilder[g].at = "apply"
  /\ scheduled' = IF rebuilder[g].seen THEN rebuilder[g].want /\ scheduled
                  ELSE rebuilder[g].want \/ scheduled
  /\ rebuilder' = [rebuilder EXCEPT ![g] = Resting]
  /\ run' = IF g = "breaker" THEN "none" ELSE run
  /\ UNCHANGED <<file, polled, loaded, override, event, outcome, declared, failures, tripped,
                 asked, counters>>

-----------------------------------------------------------------------------
(***************************************************************************)
(* Runs, and autoDisable.                                                  *)
(***************************************************************************)
\* fire takes the job from the configuration that is loaded; whether it is enabled is not asked.
Fire ==
  /\ scheduled /\ run = "none" /\ runs < MaxRuns /\ runs' = runs + 1
  /\ run' = "going" /\ declared' = loaded.enabled
  /\ UNCHANGED <<file, polled, loaded, override, scheduled, event, rebuilder, outcome, failures,
                 tripped, asked, edits, switches, commands, sleeps, lost>>

Finish(how) ==
  /\ run = "going" /\ run' = "ended"
  /\ outcome' = how
  /\ failures' = CASE how = "failure" -> failures + 1
                   [] how = "success" -> 0
                   [] how = "cancelled" -> failures
  /\ UNCHANGED <<file, polled, loaded, override, scheduled, event, rebuilder, declared, tripped,
                 asked, counters>>

\* Mutant of AutoDisable: the limit has to be exceeded.
BeyondLimit ==
  /\ run = "ended"
  /\ run' = IF failures > Limit THEN "trips" ELSE "none"
  /\ tripped' = IF failures > Limit THEN tripped \cup {outcome} ELSE tripped
  /\ UNCHANGED <<file, polled, loaded, override, scheduled, event, rebuilder, outcome, declared,
                 failures, asked, counters>>

AutoDisable ==
  /\ run = "ended"
  /\ run' = IF failures >= Limit THEN "trips" ELSE "none"
  /\ tripped' = IF failures >= Limit THEN tripped \cup {outcome} ELSE tripped
  /\ UNCHANGED <<file, polled, loaded, override, scheduled, event, rebuilder, outcome, declared,
                 failures, asked, counters>>

Trip ==
  /\ run = "trips" /\ AtRest("breaker")
  /\ SetEnabled(FALSE, declared)
  /\ Notify
  /\ Move("breaker", "want")
  /\ run' = "rebuilds"
  /\ UNCHANGED <<file, polled, loaded, scheduled, outcome, declared, failures, tripped,
                 edits, switches, commands, sleeps, runs>>

-----------------------------------------------------------------------------
\* Run has loaded jobs.yaml and rebuilt.
Init ==
  /\ file = FirstFile
  /\ polled = 0 /\ loaded = file /\ override = None
  /\ scheduled = TRUE /\ event = FALSE
  /\ rebuilder = [g \in Rebuilders |-> Resting]
  /\ run = "none" /\ outcome = "none" /\ declared = TRUE /\ failures = 0 /\ tripped = {}
  /\ asked = TRUE
  /\ edits = 0 /\ switches = 0 /\ commands = 0 /\ sleeps = 0 /\ runs = 0 /\ lost = 0

RebuildStep(g) == ReadFile(g) \/ SetLoaded(g) \/ Want(g) \/ Current(g) \/ Apply(g)
RunStep == (\E how \in {"failure", "success", "cancelled"} : Finish(how)) \/ AutoDisable \/ Trip

Next ==
  \/ Edit \/ (\E enabled \in BOOLEAN : Switch(enabled))
  \/ WatchFire \/ Poll \/ ReloadCommand \/ WakeUp
  \/ \E g \in Rebuilders : RebuildStep(g)
  \/ Fire \/ RunStep

Spec == Init /\ [][Next]_vars

\* The daemon's goroutines run, and every run ends.
FairSpec ==
  /\ Spec /\ WF_vars(WatchFire) /\ WF_vars(Poll) /\ WF_vars(RunStep)
  /\ \A g \in Rebuilders : WF_vars(RebuildStep(g))

-----------------------------------------------------------------------------
(***************************************************************************)
(* Properties.                                                             *)
(***************************************************************************)
Versions == 1..(MaxEdits + 1)
FileState == [version: Versions, valid: BOOLEAN, enabled: BOOLEAN]
RebuilderState == [at: {"rest", "read", "loaded", "want", "current", "apply"},
                   read: FileState, want: BOOLEAN, seen: BOOLEAN]

\* Every variable holds a value of its kind.
TypeOK ==
  /\ file \in FileState /\ polled \in Versions \cup {0} /\ loaded \in FileState
  /\ override \in Override \cup {None} /\ scheduled \in BOOLEAN /\ event \in BOOLEAN
  /\ rebuilder \in [Rebuilders -> RebuilderState]
  /\ run \in {"none", "going", "ended", "trips", "rebuilds"}
  /\ outcome \in {"none", "failure", "success", "cancelled"}
  /\ declared \in BOOLEAN /\ failures \in Nat
  /\ tripped \subseteq {"failure", "success", "cancelled"} /\ asked \in BOOLEAN
  /\ edits \in Nat /\ switches \in Nat /\ commands \in Nat /\ sleeps \in Nat /\ runs \in Nat
  /\ lost \in Nat

\* No reload command and no sleep came between, and no change of overrides.json was missed.
Alone == commands = 0 /\ sleeps = 0 /\ lost = 0

\* As long as nobody but the watcher rebuilt, then whenever nothing is being rebuilt and the
\* watcher and its poll have nothing to act on, the daemon has loaded jobs.yaml, unless it is
\* invalid, and gocron has the job exactly if what is loaded and overrides.json enable it.
Quiet == ~event /\ polled = file.version /\ \A g \in Rebuilders : AtRest(g)
Same ==
  /\ file.valid => loaded = file
  /\ scheduled = EffectiveEnabled(loaded.enabled, override)
WatcherInStep == Alone /\ tripped = {} /\ Quiet => Same

\* As long as jobs.yaml was not edited twice, who spoke last is obeyed: jobs.yaml and
\* overrides.json together say what the last edit of enabled, pause, resume or tripped breaker
\* asked for.
LastWord == edits <= 1 => EffectiveEnabled(file.enabled, override) = asked

\* A job that keeps failing stops itself, while the watcher rebuilds too: once the limit is
\* reached the job leaves the schedule, unless its user steps in or it recovers.
Untouched == edits = 0 /\ switches = 0 /\ Alone
BreakerStops == (failures >= Limit /\ Untouched) ~> (~scheduled \/ ~Untouched \/ failures = 0)

(***************************************************************************)
(* What comments and documents say and the code does not do (README).      *)
(***************************************************************************)
\* However many goroutines rebuild and whatever fsnotify misses, gocron ends up in step.
InStep == Quiet => Same

\* Who spoke last is obeyed, however often jobs.yaml is edited.
Obeyed == EffectiveEnabled(file.enabled, override) = asked

\* The breaker trips only on a run that failed.
TripsOnFailure == tripped \subseteq {"failure"}
=============================================================================
