------------------------------- MODULE OneShot -------------------------------
(***************************************************************************)
(* One-time jobs in the daemon: the gocron timer, reconcileOneShots at     *)
(* start, after a reload of jobs.yaml and after a sleep, the reload        *)
(* command and manual runs (internal/daemon/daemon.go,                     *)
(* internal/store/oneshot.go).                                             *)
(*                                                                         *)
(* A run is claimed and recorded in one step here (the steps inside it are *)
(* RunOnce's) and takes any time.  As in CatchUp, now = t stands for a     *)
(* moment just after t and timers stand still while the machine sleeps.    *)
(***************************************************************************)
EXTENDS Naturals, Sequences, FiniteSets, SequencesExt

CONSTANTS
  Jobs,        \* one-time jobs, a sequence: the order of jobs.yaml
  At,          \* the instant of each job
  Catchup,     \* "off" or "latest" for each job ("all" is the same as "latest")
  Window,      \* catchup_window
  SleepThreshold,  \* a jump of the wall clock beyond this is noticed
  Horizon,     \* bound: last instant
  MaxReloads,  \* bound: changes of jobs.yaml or overrides.json
  MaxCommands, \* bound: reload commands
  MaxSleeps,   \* bound: suspensions of the machine
  MaxCrashes,  \* bound: crashes of the daemon
  MaxManual    \* bound: manual runs

Ids == Range(Jobs)
Instants == 0..Horizon

ASSUME JobsAssumption == Jobs \in Seq(Ids)
ASSUME AtAssumption == Horizon \in Nat /\ At \in [Ids -> 1..Horizon]
ASSUME CatchupAssumption == Catchup \in [Ids -> {"off", "latest"}]

VARIABLES
  now,        \* the wall clock
  daemon,     \* "down", "starting" until the first pass is over, "up"
  timer,      \* gocron's timer of each job, 0 when there is none
  task,       \* the gocron task of each job: "idle", "tripped", "run"
  manual,     \* a job run of each job is going
  lock,       \* holder of each job's run lock
  watermark,  \* lastScheduledAt of each job, 0 when it never ran
  ran,        \* history variable: executions of each job's occurrence
  skips,      \* records that explain why the occurrence was not executed, oldest first
  waiting,    \* calls of reconcileOneShots waiting for oneShotMu, by caller
  pass,       \* the call that holds oneShotMu
  slept,      \* the clock loop has a jump to notice
  tripsLate,  \* gocron, external: whether starting the scheduler trips a timer whose instant
              \* has passed since it was registered, or loses it
  used        \* counters for the bounds

oneShotVars == <<now, daemon, timer, task, manual, lock, watermark, ran, skips, waiting, pass,
                 slept, tripsLate, used>>

Callers == {"start", "clock", "watch"}
Free == "free"
NoPass == [by |-> Free, todo |-> <<>>, then |-> "look"]
Unused == [reloads |-> 0, commands |-> 0, sleeps |-> 0, crashes |-> 0, manuals |-> 0]

Use(what) == used' = [used EXCEPT ![what] = @ + 1]

-----------------------------------------------------------------------------
(***************************************************************************)
(* RunOnce and RecordSkip, in one step each.                               *)
(***************************************************************************)
\* A run refused for overlap leaves the watermark alone.
Execute(j, who) ==
  \/ /\ lock[j] = Free
     /\ lock' = [lock EXCEPT ![j] = who]
     /\ watermark' = [watermark EXCEPT ![j] = At[j]]
     /\ ran' = [ran EXCEPT ![j] = @ + 1]
     /\ UNCHANGED skips
  \/ /\ lock[j] # Free
     /\ skips' = [skips EXCEPT ![j] = Append(@, "overlap")]
     /\ UNCHANGED <<lock, watermark, ran>>

RecordSkip(j, reason) ==
  /\ skips' = [skips EXCEPT ![j] = Append(@, reason)]
  /\ watermark' = [watermark EXCEPT ![j] = IF @ < At[j] THEN At[j] ELSE @]
  /\ UNCHANGED <<lock, ran>>

Release(j) == lock' = [lock EXCEPT ![j] = Free]

\* Mutants of OneShotCompleted: no occurrence is ever spent; any run of the job spends it.
NeverSpent(j) == FALSE
AnyRun(j) == watermark[j] > 0

OneShotCompleted(j) == watermark[j] >= At[j]

\* What reconcileOneShots does about a job.
Verdict(j) ==
  IF At[j] > now \/ OneShotCompleted(j) THEN "leave"
  ELSE IF Catchup[j] = "off" THEN "catchup_off"
  ELSE IF now > At[j] + Window THEN "missed_window"
  ELSE "execute"

-----------------------------------------------------------------------------
(***************************************************************************)
(* gocron: a timer for every instant that is still ahead.                  *)
(***************************************************************************)
\* rebuild drops the timer of an instant that is past, and renews the others.
Rebuilt == [j \in Ids |-> IF At[j] > now THEN At[j] ELSE 0]

Due(j) == daemon = "up" /\ timer[j] # 0 /\ timer[j] <= now

FireTimer(j) ==
  /\ Due(j)
  /\ timer' = [timer EXCEPT ![j] = 0]
  /\ task' = [task EXCEPT ![j] = "tripped"]
  /\ UNCHANGED <<now, daemon, manual, lock, watermark, ran, skips, waiting, pass, slept,
                 used, tripsLate>>

FireExecute(j) ==
  /\ task[j] = "tripped"
  /\ Execute(j, "task")
  /\ task' = [task EXCEPT ![j] = IF lock[j] = Free THEN "run" ELSE "idle"]
  /\ UNCHANGED <<now, daemon, timer, manual, waiting, pass, slept, used, tripsLate>>

FireDone(j) ==
  /\ task[j] = "run"
  /\ task' = [task EXCEPT ![j] = "idle"]
  /\ Release(j)
  /\ UNCHANGED <<now, daemon, timer, manual, watermark, ran, skips, waiting, pass, slept,
                 used, tripsLate>>

-----------------------------------------------------------------------------
(***************************************************************************)
(* job run: the watermark becomes the time of the command.                 *)
(***************************************************************************)
ManualRun(j) ==
  /\ daemon = "up" /\ now > 0 /\ lock[j] = Free /\ used.manuals < MaxManual
  /\ lock' = [lock EXCEPT ![j] = "manual"]
  /\ watermark' = [watermark EXCEPT ![j] = now]
  /\ manual' = [manual EXCEPT ![j] = TRUE]
  /\ Use("manuals")
  /\ UNCHANGED <<now, daemon, timer, task, ran, skips, waiting, pass, slept, tripsLate>>

ManualDone(j) ==
  /\ manual[j]
  /\ manual' = [manual EXCEPT ![j] = FALSE]
  /\ Release(j)
  /\ UNCHANGED <<now, daemon, timer, task, watermark, ran, skips, waiting, pass, slept,
                 used, tripsLate>>

-----------------------------------------------------------------------------
(***************************************************************************)
(* reconcileOneShots: one call at a time, job after job; the decision and  *)
(* what is done about it are two steps.                                    *)
(***************************************************************************)
Begin(c) ==
  /\ pass.by = Free /\ waiting[c] > 0
  /\ waiting' = [waiting EXCEPT ![c] = @ - 1]
  /\ pass' = [by |-> c, todo |-> Jobs, then |-> "look"]
  /\ UNCHANGED <<now, daemon, timer, task, manual, lock, watermark, ran, skips, slept,
                 used, tripsLate>>

CurrentJob == Head(pass.todo)
Onwards == [pass EXCEPT !.todo = Tail(@), !.then = "look"]

Look ==
  /\ pass.by # Free /\ pass.then = "look" /\ pass.todo # <<>>
  /\ pass' = IF Verdict(CurrentJob) = "leave" THEN Onwards
             ELSE [pass EXCEPT !.then = Verdict(CurrentJob)]
  /\ UNCHANGED <<now, daemon, timer, task, manual, lock, watermark, ran, skips, waiting,
                 slept, used, tripsLate>>

Refuse ==
  /\ pass.then \in {"catchup_off", "missed_window"}
  /\ RecordSkip(CurrentJob, pass.then)
  /\ pass' = Onwards
  /\ UNCHANGED <<now, daemon, timer, task, manual, waiting, slept, used, tripsLate>>

CatchUpRun ==
  /\ pass.then = "execute"
  /\ Execute(CurrentJob, "pass")
  /\ pass' = IF lock[CurrentJob] = Free THEN [pass EXCEPT !.then = "run"] ELSE Onwards
  /\ UNCHANGED <<now, daemon, timer, task, manual, waiting, slept, used, tripsLate>>

CatchUpDone ==
  /\ pass.then = "run"
  /\ pass' = Onwards
  /\ Release(CurrentJob)
  /\ UNCHANGED <<now, daemon, timer, task, manual, watermark, ran, skips, waiting, slept,
                 used, tripsLate>>

\* The scheduler starts after the first call.
End ==
  /\ pass.by # Free /\ pass.then = "look" /\ pass.todo = <<>>
  /\ pass' = NoPass
  /\ \/ /\ pass.by = "start"
        /\ daemon' = "up"
        /\ timer' = IF tripsLate THEN timer
                    ELSE [j \in Ids |-> IF timer[j] > now THEN timer[j] ELSE 0]
     \/ /\ pass.by # "start"
        /\ UNCHANGED <<daemon, timer>>
  /\ UNCHANGED <<now, task, manual, lock, watermark, ran, skips, waiting, slept, used,
                 tripsLate>>

-----------------------------------------------------------------------------
(***************************************************************************)
(* Start, reload, sleep, crash, time.                                      *)
(***************************************************************************)
StartDaemon ==
  /\ daemon = "down" /\ daemon' = "starting"
  /\ timer' = Rebuilt
  /\ waiting' = [waiting EXCEPT !["start"] = 1]
  /\ UNCHANGED <<now, task, manual, lock, watermark, ran, skips, pass, slept, used, tripsLate>>

\* watchLoop: rebuild, then reconcile in a goroutine of its own.
Reload ==
  /\ daemon = "up" /\ used.reloads < MaxReloads
  /\ timer' = Rebuilt
  /\ waiting' = [waiting EXCEPT !["watch"] = @ + 1]
  /\ Use("reloads")
  /\ UNCHANGED <<now, daemon, task, manual, lock, watermark, ran, skips, pass, slept,
                 tripsLate>>

\* The reload trigger of `herdr-cron reload` rebuilds, and does not reconcile.
ReloadTrigger ==
  /\ daemon = "up" /\ used.commands < MaxCommands
  /\ timer' = Rebuilt
  /\ Use("commands")
  /\ UNCHANGED <<now, daemon, task, manual, lock, watermark, ran, skips, waiting, pass,
                 slept, tripsLate>>

\* The clock loop waits for the pass it started.
NoticeSleep ==
  /\ slept /\ daemon = "up" /\ waiting["clock"] = 0 /\ pass.by # "clock"
  /\ slept' = FALSE
  /\ timer' = Rebuilt
  /\ waiting' = [waiting EXCEPT !["clock"] = 1]
  /\ UNCHANGED <<now, daemon, task, manual, lock, watermark, ran, skips, pass, used,
                 tripsLate>>

Sleep ==
  /\ daemon # "down" /\ used.sleeps < MaxSleeps
  /\ \E d \in 1..(Horizon - now) :
       /\ now' = now + d
       /\ timer' = [j \in Ids |-> IF timer[j] = 0 THEN 0 ELSE timer[j] + d]
       /\ slept' = (slept \/ d > SleepThreshold)
  /\ Use("sleeps")
  /\ UNCHANGED <<daemon, task, manual, lock, watermark, ran, skips, waiting, pass, tripsLate>>

Crash ==
  /\ daemon # "down" /\ used.crashes < MaxCrashes
  /\ daemon' = "down" /\ slept' = FALSE /\ pass' = NoPass
  /\ timer' = [j \in Ids |-> 0]
  /\ task' = [j \in Ids |-> "idle"]
  /\ manual' = [j \in Ids |-> FALSE]
  /\ lock' = [j \in Ids |-> Free]
  /\ waiting' = [c \in Callers |-> 0]
  /\ Use("crashes")
  /\ UNCHANGED <<now, watermark, ran, skips, tripsLate>>

\* Time passes while runs are going, not between a timer and its task.
Tick ==
  /\ now < Horizon
  /\ \A j \in Ids : ~Due(j) /\ task[j] # "tripped"
  /\ now' = now + 1
  /\ UNCHANGED <<daemon, timer, task, manual, lock, watermark, ran, skips, waiting, pass,
                 slept, used, tripsLate>>

-----------------------------------------------------------------------------
OneShotInit ==
  /\ tripsLate \in BOOLEAN
  /\ now = 0 /\ daemon = "down" /\ slept = FALSE /\ pass = NoPass /\ used = Unused
  /\ timer = [j \in Ids |-> 0]
  /\ task = [j \in Ids |-> "idle"]
  /\ manual = [j \in Ids |-> FALSE]
  /\ lock = [j \in Ids |-> Free]
  /\ watermark = [j \in Ids |-> 0]
  /\ ran = [j \in Ids |-> 0]
  /\ skips = [j \in Ids |-> <<>>]
  /\ waiting = [c \in Callers |-> 0]

PassStep == Look \/ Refuse \/ CatchUpRun \/ CatchUpDone \/ End

OneShotNext ==
  \/ \E j \in Ids : \/ FireTimer(j) \/ FireExecute(j) \/ FireDone(j)
                    \/ ManualRun(j) \/ ManualDone(j)
  \/ \E c \in Callers : Begin(c)
  \/ PassStep
  \/ StartDaemon \/ Reload \/ ReloadTrigger \/ NoticeSleep \/ Sleep \/ Crash \/ Tick

OneShotSpec == OneShotInit /\ [][OneShotNext]_oneShotVars

\* The service manager restarts the daemon, its goroutines run, every run ends, the clock of the
\* operating system goes on.  Nothing is asked of users, of sleeps or of crashes.
Fairness ==
  /\ WF_oneShotVars(StartDaemon) /\ WF_oneShotVars(NoticeSleep) /\ WF_oneShotVars(Tick)
  /\ \A j \in Ids : /\ WF_oneShotVars(FireTimer(j)) /\ WF_oneShotVars(FireExecute(j))
                    /\ WF_oneShotVars(FireDone(j)) /\ WF_oneShotVars(ManualDone(j))
  /\ \A c \in Callers : WF_oneShotVars(Begin(c))
  /\ WF_oneShotVars(PassStep)

FairOneShotSpec == OneShotSpec /\ Fairness

-----------------------------------------------------------------------------
(***************************************************************************)
(* Properties.                                                             *)
(***************************************************************************)
\* Every variable holds a value of its kind.
OneShotTypeOK ==
  /\ now \in Instants /\ daemon \in {"down", "starting", "up"} /\ slept \in BOOLEAN
  /\ tripsLate \in BOOLEAN
  /\ timer \in [Ids -> Nat] /\ task \in [Ids -> {"idle", "tripped", "run"}]
  /\ manual \in [Ids -> BOOLEAN] /\ lock \in [Ids -> {Free, "task", "pass", "manual"}]
  /\ watermark \in [Ids -> Instants] /\ ran \in [Ids -> Nat]
  /\ skips \in [Ids -> Seq({"overlap", "catchup_off", "missed_window"})]
  /\ waiting \in [Callers -> Nat]
  /\ pass \in [by: Callers \cup {Free}, todo: Seq(Ids),
               then: {"look", "execute", "run", "catchup_off", "missed_window"}]
  /\ used \in [DOMAIN Unused -> Nat]

\* If gocron loses late timers, then as long as jobs.yaml did not change and the machine did not
\* sleep, the scheduler does not execute the one occurrence of a one-time job twice, whatever
\* crashes in the middle of a pass.
Undisturbed == ~tripsLate /\ used.reloads = 0 /\ used.sleeps = 0
QuietRunsOnce == Undisturbed => \A j \in Ids : ran[j] <= 1

Settled(j) == ran[j] > 0 \/ skips[j] # <<>> \/ watermark[j] >= At[j]

\* If gocron trips late timers, then however often the daemon crashes, the machine sleeps and
\* jobs.yaml changes, every one-time occurrence is executed, refused on record, or claimed by a
\* manual run in the end.  A reload command drops a timer that is due, and is the exception.
Excused == ~tripsLate \/ used.commands > 0
EverySettled == \A j \in Ids : <>(Settled(j) \/ Excused)

(***************************************************************************)
(* What comments and documents say and the code does not do (README).      *)
(***************************************************************************)
\* Even if gocron loses late timers, the scheduler never executes the one occurrence of a
\* one-time job twice.
RunsOnce == ~tripsLate => \A j \in Ids : ran[j] <= 1

\* The scheduler accounts for the occurrence once: one execution or one record of why not.
AccountedOnce == \A j \in Ids : ran[j] + Len(skips[j]) <= 1

\* Once a job ran by hand the scheduler does not execute its occurrence: the job was asked to
\* happen once and it happened once.
ManualClaims == [][\A j \in Ids : watermark[j] > 0 => ran'[j] = ran[j]]_oneShotVars

\* No past one-time occurrence disappears without history: when nothing is pending any more
\* that could account for it, it has been accounted for.
NothingPending == daemon = "up" /\ ~slept /\ pass = NoPass /\ \A c \in Callers : waiting[c] = 0
NoneForgotten ==
  NothingPending => \A j \in Ids : At[j] <= now /\ timer[j] = 0 /\ task[j] = "idle" => Settled(j)
=============================================================================
