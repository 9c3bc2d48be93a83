------------------------------- MODULE CatchUp -------------------------------
(***************************************************************************)
(* Recurring jobs in the daemon: gocron's timers and fire, the catch-up    *)
(* pass at start and after a sleep, and the watermark that ties them       *)
(* together (internal/daemon/daemon.go, internal/schedule/schedule.go).    *)
(*                                                                         *)
(* Time is discrete, and now = t stands for a moment just after t: the     *)
(* clock never meets an occurrence exactly.  A run is claimed and recorded *)
(* in one step here (the steps inside it are RunOnce's) and takes any      *)
(* time.  Every job has concurrency: skip and a cron schedule; gocron is   *)
(* modelled by what rebuild asks of it: one timer per job, singleton mode  *)
(* that drops a tick of a job whose task is still running, timers that     *)
(* stand still while the machine sleeps.                                   *)
(***************************************************************************)
EXTENDS Naturals, Sequences, FiniteSets, FiniteSetsExt, Functions

CONSTANTS
  Jobs,        \* recurring jobs, a sequence: the order of jobs.yaml
  Grid,        \* occurrences of each job
  Catchup,     \* "off", "latest" or "all" for each job
  Window,      \* catchup_window
  Jitter,      \* jitter of each job
  Cap,         \* catchupCap
  Skew,        \* schedule.FireSkew
  MaxEarly,    \* how early a timer may trip
  SleepThreshold,   \* a jump of the wall clock beyond this is noticed
  Horizon,     \* bound: last instant
  MaxSleeps,   \* bound: suspensions of the machine
  MaxCrashes,  \* bound: crashes of the daemon
  MaxManual,   \* bound: manual runs
  QuickRestart \* bound: whether a daemon starts within MaxEarly before an occurrence

Ids == Range(Jobs)

\* A job is in jobs.yaml once (validation).
ASSUME JobsAssumption == Jobs \in Seq(Ids) /\ IsInjective(Jobs)
ASSUME GridAssumption == Grid \in [Ids -> SUBSET (1..Horizon)] /\ Horizon \in Nat
ASSUME CatchupAssumption == Catchup \in [Ids -> {"off", "latest", "all"}]
ASSUME JitterAssumption == Jitter \in [Ids -> Nat]
ASSUME SkewAssumption == Skew \in Nat /\ MaxEarly \in 0..Skew
ASSUME BoundAssumption == Window \in Nat /\ Cap \in Nat \ {0} /\ QuickRestart \in BOOLEAN

VARIABLES
  now,        \* the wall clock
  daemon,     \* "down", "starting" until the first pass is over, "up"
  timer,      \* gocron's next run of each job, 0 when there is none
  task,       \* the gocron task of each job: fire
  pass,       \* the catch-up pass
  manual,     \* a job run of each job, in flight or not
  lock,       \* holder of each job's run lock
  watermark,  \* lastScheduledAt of each job, 0 when it never ran
  slept,      \* the clock loop has a jump to notice
  ran,        \* history variable: how often each occurrence was executed
  skipped,    \* occurrences with a "skipped" record
  dropped,    \* history variable: ticks gocron dropped
  sleeps, crashes, manuals   \* counters for the bounds

vars == <<now, daemon, timer, task, pass, manual, lock, watermark, slept, ran, skipped,
          dropped, sleeps, crashes, manuals>>

-----------------------------------------------------------------------------
(***************************************************************************)
(* schedule.go.  0 stands for "no next occurrence".                        *)
(***************************************************************************)
After(j, t) == {o \in Grid[j] : o > t}
NextAfter(j, t) == IF After(j, t) = {} THEN 0 ELSE Min(After(j, t))

\* Mutants of Occurrence: the clock that happened to trip, and the end of its tolerance.
ClockAtFire(j, t) == t
EndOfSkew(j, t) == t + Skew

\* The occurrence a fire at t belongs to: the last one within Skew before t, else the one
\* ahead if it is within Skew, else the clock.
Occurrence(j, t) ==
  LET due   == {o \in Grid[j] : o <= t /\ o + Skew + 1 > t}
      ahead == {o \in Grid[j] : o > t /\ o <= t + Skew}
  IN IF due # {} THEN Max(due) ELSE IF ahead # {} THEN Min(ahead) ELSE t

\* The occurrences that a pass which began at t finds missed when it looks back to from.
Between(j, from, t) == {o \in Grid[j] : from < o /\ o <= t}

\* daemon.occurrences counts from the oldest, and stops after 2 * Cap + 1 of them.
Occurrences(j, from, t) ==
  {o \in Between(j, from, t) : Cardinality(Between(j, from, o - 1)) <= 2 * Cap}

Limit(j) == IF Catchup[j] = "latest" THEN 1 ELSE Cap

\* Mutant of Replay: the limit keeps the first of the missed occurrences.
ReplayOldest(j, missed) == {o \in missed : Cardinality({p \in missed : p < o}) < Limit(j)}

\* What the policy replays of the missed occurrences: the newest.
Replay(j, missed) == {o \in missed : Cardinality({p \in missed : p > o}) < Limit(j)}

Monus(a, b) == IF a > b THEN a - b ELSE 0

\* Mutants of From: the watermark is forgotten, or looked back to once more.
WindowOnly(w, t) == Monus(t, Window)
Inclusive(w, t) == IF w < Monus(t, Window) THEN Monus(t, Window) ELSE Monus(w, 1)

\* The window a pass that began at t looks back to for a job with watermark w.
From(w, t) == IF w < Monus(t, Window) THEN Monus(t, Window) ELSE w

\* Everything a pass replays for a job.
Owed(j, w, t) ==
  IF Catchup[j] = "off" \/ w = 0 THEN {} ELSE Replay(j, Occurrences(j, From(w, t), t))

-----------------------------------------------------------------------------
(***************************************************************************)
(* RunOnce, in one step: refused and recorded when another run holds the   *)
(* lock, otherwise the watermark is claimed, whatever it was before.       *)
(***************************************************************************)
Free == "free"

\* A run id of the grid counts as an execution of its occurrence; a manual id does not.
Execute(j, who, at, scheduled) ==
  \/ /\ lock[j] = Free
     /\ lock' = [lock EXCEPT ![j] = who]
     /\ watermark' = [watermark EXCEPT ![j] = at]
     /\ ran' = IF scheduled /\ at \in Grid[j] THEN [ran EXCEPT ![j][at] = @ + 1] ELSE ran
     /\ UNCHANGED skipped
  \/ /\ lock[j] # Free
     /\ skipped' = IF scheduled THEN [skipped EXCEPT ![j] = @ \cup {at}] ELSE skipped
     /\ UNCHANGED <<lock, watermark, ran>>

Release(j) == lock' = [lock EXCEPT ![j] = Free]

-----------------------------------------------------------------------------
(***************************************************************************)
(* Timers and fire.                                                        *)
(***************************************************************************)
Idle == [stage |-> "idle", occ |-> 0, until |-> 0]

\* gocron trips the timer, perhaps early, and re-arms it past the tick it just spent.
Due(j) == timer[j] # 0 /\ daemon = "up" /\ now + MaxEarly >= timer[j]
Rearm(j) == timer' = [timer EXCEPT ![j] = NextAfter(j, Max({now, timer[j]}))]

\* fire names its occurrence first and sleeps its jitter afterwards.
Fire(j) ==
  /\ Due(j) /\ task[j].stage = "idle"
  /\ Rearm(j)
  /\ task' = [task EXCEPT ![j] =
       [stage |-> "jitter", occ |-> Occurrence(j, now), until |-> now + Jitter[j]]]
  /\ UNCHANGED <<now, daemon, pass, manual, lock, watermark, slept, ran, skipped, dropped,
                 sleeps, crashes, manuals>>

\* Singleton mode: the previous task of the job has not returned.
DropTick(j) ==
  /\ Due(j) /\ task[j].stage # "idle"
  /\ Rearm(j)
  /\ dropped' = [dropped EXCEPT ![j] = @ \cup {timer[j]}]
  /\ UNCHANGED <<now, daemon, task, pass, manual, lock, watermark, slept, ran, skipped,
                 sleeps, crashes, manuals>>

FireExecute(j) ==
  /\ task[j].stage = "jitter" /\ task[j].until <= now
  /\ Execute(j, "task", task[j].occ, TRUE)
  /\ task' = [task EXCEPT ![j] = IF lock[j] = Free THEN [@ EXCEPT !.stage = "run"] ELSE Idle]
  /\ UNCHANGED <<now, daemon, timer, pass, manual, slept, dropped, sleeps, crashes, manuals>>

FireDone(j) ==
  /\ task[j].stage = "run"
  /\ task' = [task EXCEPT ![j] = Idle]
  /\ Release(j)
  /\ UNCHANGED <<now, daemon, timer, pass, manual, watermark, slept, ran, skipped, dropped,
                 sleeps, crashes, manuals>>

-----------------------------------------------------------------------------
(***************************************************************************)
(* job run.                                                                *)
(***************************************************************************)
ManualRun(j) ==
  /\ daemon = "up" /\ ~manual[j] /\ manuals < MaxManual
  /\ Execute(j, "manual", now, FALSE)
  /\ manual' = [manual EXCEPT ![j] = lock[j] = Free]
  /\ manuals' = manuals + 1
  /\ UNCHANGED <<now, daemon, timer, task, pass, slept, dropped, sleeps, crashes>>

ManualDone(j) ==
  /\ manual[j]
  /\ manual' = [manual EXCEPT ![j] = FALSE]
  /\ Release(j)
  /\ UNCHANGED <<now, daemon, timer, task, pass, watermark, slept, ran, skipped, dropped,
                 sleeps, crashes, manuals>>

-----------------------------------------------------------------------------
(***************************************************************************)
(* The catch-up pass.  It reads state.json once and takes the time once;   *)
(* jobs and their runs follow one after the other.                         *)
(***************************************************************************)
NoPass == [stage |-> "none", at |-> 0, snap |-> [j \in Ids |-> 0], todo |-> <<>>,
           owed |-> {}, running |-> FALSE]

BeginPass(stage) ==
  /\ pass.stage = stage
  /\ pass' = [stage |-> "jobs", at |-> now, snap |-> watermark, todo |-> Jobs,
              owed |-> {}, running |-> FALSE]
  /\ UNCHANGED <<now, daemon, timer, task, manual, lock, watermark, slept, ran, skipped,
                 dropped, sleeps, crashes, manuals>>

\* No watermark keeps the timers of a new process from an occurrence that an early trip ran.
StartDaemon ==
  /\ daemon = "down" /\ daemon' = "starting"
  /\ QuickRestart \/ \A j \in Ids : \A o \in After(j, now) : o > now + MaxEarly
  /\ pass' = [NoPass EXCEPT !.stage = "start"]
  /\ UNCHANGED <<now, timer, task, manual, lock, watermark, slept, ran, skipped, dropped,
                 sleeps, crashes, manuals>>

\* recoverFromSleep refreshes the frozen timers first.
NoticeSleep ==
  /\ slept /\ daemon = "up" /\ pass.stage = "none"
  /\ slept' = FALSE
  /\ timer' = [j \in Ids |-> NextAfter(j, now)]
  /\ pass' = [NoPass EXCEPT !.stage = "wake"]
  /\ UNCHANGED <<now, daemon, task, manual, lock, watermark, ran, skipped, dropped, sleeps,
                 crashes, manuals>>

Current == Head(pass.todo)

EnumerateJob ==
  /\ pass.stage = "jobs" /\ pass.todo # <<>>
  /\ pass' = [pass EXCEPT !.stage = "replay", !.owed = Owed(Current, pass.snap[Current], pass.at)]
  /\ UNCHANGED <<now, daemon, timer, task, manual, lock, watermark, slept, ran, skipped,
                 dropped, sleeps, crashes, manuals>>

\* Oldest first.
ReplayNext ==
  /\ pass.stage = "replay" /\ ~pass.running /\ pass.owed # {}
  /\ Execute(Current, "pass", Min(pass.owed), TRUE)
  /\ pass' = [pass EXCEPT !.owed = @ \ {Min(@)}, !.running = lock[Current] = Free]
  /\ UNCHANGED <<now, daemon, timer, task, manual, slept, dropped, sleeps, crashes, manuals>>

ReplayDone ==
  /\ pass.running
  /\ pass' = [pass EXCEPT !.running = FALSE]
  /\ Release(Current)
  /\ UNCHANGED <<now, daemon, timer, task, manual, watermark, slept, ran, skipped, dropped,
                 sleeps, crashes, manuals>>

NextJob ==
  /\ pass.stage = "replay" /\ ~pass.running /\ pass.owed = {}
  /\ pass' = [pass EXCEPT !.stage = "jobs", !.todo = Tail(@)]
  /\ UNCHANGED <<now, daemon, timer, task, manual, lock, watermark, slept, ran, skipped,
                 dropped, sleeps, crashes, manuals>>

\* The scheduler starts only when the first pass is over, and computes its timers then.
EndPass ==
  /\ pass.stage = "jobs" /\ pass.todo = <<>>
  /\ pass' = NoPass
  /\ daemon' = "up"
  /\ timer' = IF daemon = "starting" THEN [j \in Ids |-> NextAfter(j, now)] ELSE timer
  /\ UNCHANGED <<now, task, manual, lock, watermark, slept, ran, skipped, dropped, sleeps,
                 crashes, manuals>>

-----------------------------------------------------------------------------
(***************************************************************************)
(* Time, sleep, crash.  A due timer or jitter ends before time goes on,    *)
(* and a pass takes no time but for the runs it waits for.                 *)
(***************************************************************************)
Tick ==
  /\ now < Horizon
  /\ pass.stage = "none" \/ pass.running
  /\ \A j \in Ids : task[j].stage = "jitter" => task[j].until > now
  /\ \A j \in Ids : daemon = "up" /\ timer[j] # 0 => timer[j] > now
  /\ now' = now + 1
  /\ UNCHANGED <<daemon, timer, task, pass, manual, lock, watermark, slept, ran, skipped,
                 dropped, sleeps, crashes, manuals>>

\* The wall clock jumps; timers and jitter run on the monotonic clock, which does not.
Sleep ==
  /\ daemon # "down" /\ sleeps < MaxSleeps
  /\ \E d \in 1..(Horizon - now) :
       /\ now' = now + d
       /\ timer' = [j \in Ids |-> IF timer[j] = 0 THEN 0 ELSE timer[j] + d]
       /\ task' = [j \in Ids |-> IF task[j].stage = "jitter"
                                 THEN [task[j] EXCEPT !.until = @ + d] ELSE task[j]]
       /\ slept' = (slept \/ (daemon = "up" /\ d > SleepThreshold))
  /\ sleeps' = sleeps + 1
  /\ UNCHANGED <<daemon, pass, manual, lock, watermark, ran, skipped, dropped, crashes, manuals>>

Crash ==
  /\ daemon # "down" /\ crashes < MaxCrashes
  /\ daemon' = "down" /\ slept' = FALSE /\ pass' = NoPass
  /\ timer' = [j \in Ids |-> 0]
  /\ task' = [j \in Ids |-> Idle]
  /\ manual' = [j \in Ids |-> FALSE]
  /\ lock' = [j \in Ids |-> Free]
  /\ crashes' = crashes + 1
  /\ UNCHANGED <<now, watermark, ran, skipped, dropped, sleeps, manuals>>

-----------------------------------------------------------------------------
Init ==
  /\ now = 0 /\ daemon = "down" /\ slept = FALSE /\ pass = NoPass
  /\ timer = [j \in Ids |-> 0]
  /\ task = [j \in Ids |-> Idle]
  /\ manual = [j \in Ids |-> FALSE]
  /\ lock = [j \in Ids |-> Free]
  /\ watermark = [j \in Ids |-> 0]
  /\ ran = [j \in Ids |-> [o \in Grid[j] |-> 0]]
  /\ skipped = [j \in Ids |-> {}]
  /\ dropped = [j \in Ids |-> {}]
  /\ sleeps = 0 /\ crashes = 0 /\ manuals = 0

PassStep == EnumerateJob \/ ReplayNext \/ ReplayDone \/ NextJob \/ EndPass

Next ==
  \/ \E j \in Ids : \/ Fire(j) \/ DropTick(j) \/ FireExecute(j) \/ FireDone(j)
                    \/ ManualRun(j) \/ ManualDone(j)
  \/ StartDaemon \/ BeginPass("start") \/ NoticeSleep \/ BeginPass("wake") \/ PassStep
  \/ Tick \/ Sleep \/ Crash

Spec == Init /\ [][Next]_vars

-----------------------------------------------------------------------------
(***************************************************************************)
(* Properties.                                                             *)
(***************************************************************************)
Instants == 0..Horizon
TaskState == [stage: {"idle", "jitter", "run"}, occ: Instants, until: Nat]
PassState == [stage: {"none", "start", "wake", "jobs", "replay"}, at: Instants,
              snap: [Ids -> Instants], todo: Seq(Ids), owed: SUBSET Instants, running: BOOLEAN]

\* Every variable holds a value of its kind.
TypeOK ==
  /\ now \in Instants /\ daemon \in {"down", "starting", "up"} /\ slept \in BOOLEAN
  /\ timer \in [Ids -> Nat] /\ task \in [Ids -> TaskState] /\ pass \in PassState
  /\ manual \in [Ids -> BOOLEAN]
  /\ lock \in [Ids -> {Free, "task", "pass", "manual"}]
  /\ watermark \in [Ids -> Instants]
  /\ ran = [j \in Ids |-> ran[j]] /\ \A j \in Ids : ran[j] \in [Grid[j] -> Nat]
  /\ skipped \in [Ids -> SUBSET Instants] /\ dropped \in [Ids -> SUBSET Nat]
  /\ sleeps \in Nat /\ crashes \in Nat /\ manuals \in Nat

\* As long as the machine never slept and nobody ran a job by hand, an occurrence is executed once
\* at most: not again by the catch-up pass after an early fire, nor after a crash in the middle
\* of a pass.
OnceUndisturbed == sleeps = 0 /\ manuals = 0 => \A j \in Ids : \A o \in Grid[j] : ran[j][o] <= 1

\* As long as the machine never slept, the watermark never goes back but for a manual run, or
\* past one that came while a fire of the job slept its jitter, so a crash or a second pass
\* repeats nothing it had claimed.
WatermarkForward ==
  [][sleeps = 0 => \A j \in Ids : \/ watermark'[j] >= watermark[j] \/ lock'[j] = "manual"
                                  \/ Jitter[j] > 0 /\ manuals > 0]_watermark

\* The occurrences that were missed when a pass began.
Missed(j) == Between(j, From(pass.snap[j], pass.at), pass.at)

\* When a pass is over, the most recently missed occurrence within catchup_window of every job
\* that asked for catch-up and had ever run has been executed or has a skipped record, unless
\* more were missed than occurrences enumerates.
LatestSettled ==
  pass.stage = "jobs" /\ pass.todo = <<>> =>
    \A j \in Ids : /\ Catchup[j] # "off" /\ pass.snap[j] # 0
                   /\ Missed(j) # {} /\ Cardinality(Missed(j)) <= 2 * Cap + 1
      => ran[j][Max(Missed(j))] > 0 \/ Max(Missed(j)) \in skipped[j]

(***************************************************************************)
(* What comments and documents say and the code does not do (README).      *)
(***************************************************************************)
\* An occurrence is executed once at most.
EachOccurrenceOnce == \A j \in Ids : \A o \in Grid[j] : ran[j][o] <= 1

\* The watermark never goes back.
WatermarkNeverBack == [][\A j \in Ids : watermark'[j] >= watermark[j]]_watermark

\* With catchup: all, no occurrence is passed over in silence: once the watermark is beyond an
\* occurrence that came after the first run, it was executed, has a skipped record, or was a
\* tick gocron dropped.
NothingPassedOver ==
  \A j \in Ids : Catchup[j] = "all" =>
    \A o, f \in Grid[j] : f < o /\ o < watermark[j] /\ ran[j][f] > 0 =>
      ran[j][o] > 0 \/ o \in skipped[j] \cup dropped[j]

\* A tick that comes while the previous run is going is recorded as skipped.
OverlapRecorded == \A j \in Ids : dropped[j] \subseteq skipped[j]
=============================================================================
