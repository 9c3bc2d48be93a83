------------------------------- MODULE RunOnce -------------------------------
(***************************************************************************)
(* The run-once primitive of internal/runner/runner.go over the files of   *)
(* internal/store: the per-job run lock, state.json (one file, read whole  *)
(* and replaced whole by every writer) and the append-only run history.    *)
(*                                                                         *)
(* Several flows of control call it: goroutines of the daemon (Threads)    *)
(* and separate CLI processes (Externals).  A flow stops between any two   *)
(* file operations, so a read of state.json and the write that follows it  *)
(* are two steps.  The daemon may die and start again, which closes the    *)
(* runs it finds open; a CLI process may die; `job rm --purge` removes a   *)
(* job's entry, its history and its lock files.                            *)
(***************************************************************************)
EXTENDS Naturals, Sequences, FiniteSets

CONSTANTS
  Jobs,        \* job ids
  Threads,     \* goroutines of the daemon that may be inside RunOnce
  Externals,   \* CLI processes: run-once, job rm --purge
  NoProc,      \* the owner of a free run lock
  OneShot,     \* the jobs with an `at` schedule
  Policy,      \* concurrency of each job
  MaxPerDay,   \* limits.max_runs_per_day of each job, 0 for no limit
  Instants,    \* scheduled instants a caller may pass
  Outcomes,    \* terminal statuses the payload may produce
  MaxCalls,    \* bound: operations begun
  MaxFaults,   \* bound: crashes and I/O errors
  LastDay      \* bound: calendar days

Procs == Threads \cup Externals

ASSUME ProcsAssumption == NoProc \notin Procs /\ Threads \cap Externals = {}
ASSUME OneShotAssumption == OneShot \subseteq Jobs
ASSUME PolicyAssumption ==
  Policy \in [Jobs -> {"skip", "queue", "cancel_previous", "allow"}]
ASSUME JobsAssumption == Jobs # {}
ASSUME LimitAssumption == MaxPerDay \in [Jobs -> Nat]
ASSUME InstantAssumption == Instants \subseteq Nat \ {0}
ASSUME OutcomeAssumption ==
  Outcomes \subseteq {"success", "no_op", "failure", "timeout", "blocked", "cancelled"}
ASSUME BoundAssumption == MaxCalls \in Nat /\ MaxFaults \in Nat /\ LastDay \in Nat

VARIABLES
  daemon,     \* "down", "closing" while it closes orphaned runs, "up"
  toScan,     \* jobs whose history the starting daemon has not read yet
  orphans,    \* open runs it read and has not closed yet
  stateFile,  \* state.json
  history,    \* runs/<job>.jsonl
  runLock,    \* owner of <job>.jsonl.run.lock
  pc,         \* where each flow stands
  call,       \* the operation of each flow: its arguments and its record
  mem,        \* the copy of state.json a flow has read and will write back
  day,        \* the calendar day
  calls, faults,   \* operations and faults so far, for the bounds
  purged,     \* history variable: jobs whose files were ever removed
  abandoned   \* history variable: runs whose process stopped before closing them

vars == <<daemon, toScan, orphans, stateFile, history, runLock, pc, call, mem,
          day, calls, faults, purged, abandoned>>

(***************************************************************************)
(* Data.  An instant 0 stands for an absent lastScheduledAt.  A run id is  *)
(* the scheduled instant, and whether the "-m" of a manual run follows it. *)
(***************************************************************************)
RunIds   == [at: Nat, manual: BOOLEAN]
Statuses == {"running", "skipped", "success", "no_op", "failure", "timeout",
             "blocked", "cancelled"}
Reasons  == {"", "overlap", "limit_exceeded", "cwd_missing", "daemon_died"}

\* One line of runs/<job>.jsonl; day is the day of startedAt, 0 when it never started.
RunRecord == [day: Nat, id: RunIds, status: Statuses, reason: Reasons]

\* One job's entry in state.json; date and count are its runsToday.
JobState  == [last: Nat, failures: Nat, date: Nat, count: Nat]
NoState   == [last |-> 0, failures |-> 0, date |-> 0, count |-> 0]
StateFile == [Jobs -> JobState]
Empty     == [j \in Jobs |-> NoState]

Calls == [op: {"run", "skip", "purge"}, job: Jobs, run: RunRecord, started: BOOLEAN]

CountedFailures == {"failure", "timeout", "blocked"}
ResetsFailures  == {"success", "no_op"}

\* What a reader of the history sees: the last line of each run id.
LastOf(h, id) == CHOOSE k \in DOMAIN h : 
  h[k].id = id /\ \A m \in DOMAIN h : h[m].id = id => m <= k
Runs(h) == {h[LastOf(h, id)] : id \in {h[k].id : k \in DOMAIN h}}

\* Mutant of OpenRuns: every line that says "running", whether or not another one follows it.
RunningLines(h) == {h[k] : k \in {m \in DOMAIN h : h[m].status = "running"}}

OpenRuns(h) == {r \in Runs(h) : r.status = "running"}

Job(p)   == call[p].job
RunId(p) == call[p].run.id

AppendRun(j, r) == history' = [history EXCEPT ![j] = Append(@, r)]

\* runsToday.count as this flow sees it: zero once the stored date is not today.
RunsToday(js) == IF js.date = day THEN js.count ELSE 0

\* The record is running, its process has not appended the terminal one yet.
InFlight(p) == call[p].started /\ pc[p] \in {"execute", "finish"}

-----------------------------------------------------------------------------
(***************************************************************************)
(* Callers.                                                                *)
(***************************************************************************)
Alive(p) == p \in Externals \/ daemon = "up"

Begin(p, c, at) ==
  /\ pc[p] = "idle" /\ Alive(p) /\ calls < MaxCalls
  /\ pc' = [pc EXCEPT ![p] = at]
  /\ call' = [call EXCEPT ![p] = c]
  /\ calls' = calls + 1
  /\ UNCHANGED <<daemon, toScan, orphans, stateFile, history, runLock, mem, day,
                 faults, purged, abandoned>>

NewRun(t, m, status) ==
  [day |-> 0, id |-> [at |-> t, manual |-> m], status |-> status, reason |-> ""]

NewCall(op, j, r) == [op |-> op, job |-> j, run |-> r, started |-> FALSE]
NoCall == NewCall("run", CHOOSE j \in Jobs : TRUE, NewRun(0, FALSE, "running"))

\* RunOnce is called: by execute in the daemon, by run-once in its own process.
CallRunOnce(p, j, t, m) ==
  Begin(p, NewCall("run", j, NewRun(t, m, "running")), "lock")

\* RecordSkip is called: the daemon refuses a one-time occurrence it came too late for.
CallRecordSkip(p, j, t) ==
  /\ p \in Threads /\ j \in OneShot
  /\ Begin(p, NewCall("skip", j, NewRun(t, FALSE, "skipped")), "finish")

\* ForgetJob(id, true) is called: job rm --purge, after the job left jobs.yaml.
CallPurge(p, j) ==
  /\ p \in Externals
  /\ Begin(p, NewCall("purge", j, NewRun(0, FALSE, "skipped")), "forget")

-----------------------------------------------------------------------------
(***************************************************************************)
(* The steps of RunOnce.                                                   *)
(***************************************************************************)
Goto(p, from, to) == pc[p] = from /\ pc' = [pc EXCEPT ![p] = to]

Refuse(p, from, reason) ==
  /\ Goto(p, from, "finish")
  /\ call' = [call EXCEPT ![p].run.status = "skipped", ![p].run.reason = reason]

Acquire(p, from) ==
  /\ runLock[Job(p)] = NoProc
  /\ runLock' = [runLock EXCEPT ![Job(p)] = p]
  /\ Goto(p, from, "limits")
  /\ UNCHANGED call

\* The first try.  concurrency: skip gives up at once, the others try once more.
TryLockRun(p) ==
  /\ \/ Acquire(p, "lock")
     \/ /\ runLock[Job(p)] # NoProc /\ Policy[Job(p)] = "skip"
        /\ Refuse(p, "lock", "overlap")
        /\ UNCHANGED runLock
     \/ /\ runLock[Job(p)] # NoProc /\ Policy[Job(p)] # "skip"
        /\ Goto(p, "lock", "relock")
        /\ UNCHANGED <<runLock, call>>
  /\ UNCHANGED <<daemon, toScan, orphans, stateFile, history, mem, day, calls, faults,
                 purged, abandoned>>

RetryLockRun(p) ==
  /\ \/ Acquire(p, "relock")
     \/ /\ runLock[Job(p)] # NoProc
        /\ Refuse(p, "relock", "overlap")
        /\ UNCHANGED runLock
  /\ UNCHANGED <<daemon, toScan, orphans, stateFile, history, mem, day, calls, faults,
                 purged, abandoned>>

\* Mutant of Claimed: the watermark is left where it was.
ClaimedWithoutWatermark(js, t) == [js EXCEPT !.date = day, !.count = RunsToday(js) + 1]

\* The entry with the occurrence claimed and the run counted.
Claimed(js, t) == [js EXCEPT !.last = t, !.date = day, !.count = RunsToday(js) + 1]

\* Mutant of LimitReached: off by one.
LimitExceeded(j) == MaxPerDay[j] > 0 /\ RunsToday(stateFile[j]) > MaxPerDay[j]

LimitReached(j) == MaxPerDay[j] > 0 /\ RunsToday(stateFile[j]) >= MaxPerDay[j]

\* LoadState, then the limit, the working directory and the log file.
CheckLimits(p) ==
  LET j == Job(p) IN
  /\ pc[p] = "limits"
  /\ \/ LimitReached(j) /\ Refuse(p, "limits", "limit_exceeded") /\ UNCHANGED mem
     \/ /\ ~LimitReached(j)      \* cwd is gone
        /\ Goto(p, "limits", "finish")
        /\ call' = [call EXCEPT ![p].run.status = "failure", ![p].run.reason = "cwd_missing"]
        /\ UNCHANGED mem
     \/ /\ ~LimitReached(j)
        /\ Goto(p, "limits", "claim")
        /\ call' = [call EXCEPT ![p].run.day = day]
        /\ mem' = [mem EXCEPT ![p] = [stateFile EXCEPT ![j] = Claimed(@, RunId(p).at)]]
  /\ UNCHANGED <<daemon, toScan, orphans, stateFile, history, runLock, day, calls, faults,
                 purged, abandoned>>

\* SaveState replaces the whole file by the copy; the copy is then dropped.
SaveState(p, from, to) ==
  /\ Goto(p, from, to)
  /\ stateFile' = mem[p]
  /\ mem' = [mem EXCEPT ![p] = Empty]

\* Mutant of SaveClaim: the payload is started without its "running" record.
ExecuteAfterClaim(p) ==
  /\ SaveState(p, "claim", "execute")
  /\ UNCHANGED <<daemon, toScan, orphans, history, runLock, call, day, calls, faults,
                 purged, abandoned>>

\* The watermark is on disk before anything executes.
SaveClaim(p) ==
  /\ SaveState(p, "claim", "open")
  /\ UNCHANGED <<daemon, toScan, orphans, history, runLock, call, day, calls, faults,
                 purged, abandoned>>

\* So is the "running" record.
AppendRunning(p) ==
  /\ Goto(p, "open", "execute")
  /\ AppendRun(Job(p), call[p].run)
  /\ call' = [call EXCEPT ![p].started = TRUE]
  /\ UNCHANGED <<daemon, toScan, orphans, stateFile, runLock, mem, day, calls, faults,
                 purged, abandoned>>

\* The payload ends, in any way it can.
Execute(p) ==
  /\ Goto(p, "execute", "finish")
  /\ \E s \in Outcomes : call' = [call EXCEPT ![p].run.status = s]
  /\ UNCHANGED <<daemon, toScan, orphans, stateFile, history, runLock, mem, day, calls,
                 faults, purged, abandoned>>

(***************************************************************************)
(* The steps of finish, reached with and without the run lock.             *)
(***************************************************************************)
AppendTerminal(p) ==
  /\ Goto(p, "finish", "account")
  /\ AppendRun(Job(p), call[p].run)
  /\ UNCHANGED <<daemon, toScan, orphans, stateFile, runLock, call, mem, day, calls, faults,
                 purged, abandoned>>

\* Mutant of FailuresAfter: a cancelled run resets the counter.
CancelResets(n, status) ==
  IF status \in CountedFailures THEN n + 1
  ELSE IF status \in ResetsFailures \cup {"cancelled"} THEN 0 ELSE n

\* consecutiveFailures after a run with this status; cancelled and skipped leave it.
FailuresAfter(n, status) ==
  IF status \in CountedFailures THEN n + 1 ELSE IF status \in ResetsFailures THEN 0 ELSE n

LoadForOutcome(p) ==
  /\ Goto(p, "account", "save")
  /\ mem' = [mem EXCEPT ![p] = 
       [stateFile EXCEPT ![Job(p)].failures = FailuresAfter(@, call[p].run.status)]]
  /\ UNCHANGED <<daemon, toScan, orphans, stateFile, history, runLock, call, day, calls,
                 faults, purged, abandoned>>

SaveOutcome(p) ==
  /\ SaveState(p, "save", IF call[p].op = "skip" THEN "mark" ELSE "return")
  /\ UNCHANGED <<daemon, toScan, orphans, history, runLock, call, day, calls, faults,
                 purged, abandoned>>

(***************************************************************************)
(* RecordSkip goes on after finish: it moves the watermark, forward only.  *)
(***************************************************************************)
LoadForMark(p) ==
  LET Forward(t) == IF t < RunId(p).at THEN RunId(p).at ELSE t IN
  /\ Goto(p, "mark", "savemark")
  /\ mem' = [mem EXCEPT ![p] = [stateFile EXCEPT ![Job(p)].last = Forward(@)]]
  /\ UNCHANGED <<daemon, toScan, orphans, stateFile, history, runLock, call, day, calls,
                 faults, purged, abandoned>>

SaveMark(p) ==
  /\ SaveState(p, "savemark", "return")
  /\ UNCHANGED <<daemon, toScan, orphans, history, runLock, call, day, calls, faults,
                 purged, abandoned>>

\* Mutant of Unlock: a refused call releases the lock it did not get.
UnlockHeldByOther(p) == [runLock EXCEPT ![Job(p)] = NoProc]

\* The deferred unlock.  A lock file that was removed meanwhile is another file.
Unlock(p) == [j \in Jobs |-> IF runLock[j] = p THEN NoProc ELSE runLock[j]]

Return(p) ==
  /\ Goto(p, "return", "idle")
  /\ runLock' = Unlock(p)
  /\ call' = [call EXCEPT ![p] = NoCall]
  /\ UNCHANGED <<daemon, toScan, orphans, stateFile, history, mem, day, calls, faults,
                 purged, abandoned>>

(***************************************************************************)
(* ForgetJob with purge: state.json, then the files of the job.            *)
(***************************************************************************)
LoadForPurge(p) ==
  /\ Goto(p, "forget", "saveforget")
  /\ mem' = [mem EXCEPT ![p] = [stateFile EXCEPT ![Job(p)] = NoState]]
  /\ UNCHANGED <<daemon, toScan, orphans, stateFile, history, runLock, call, day, calls,
                 faults, purged, abandoned>>

SavePurged(p) ==
  /\ SaveState(p, "saveforget", "remove")
  /\ UNCHANGED <<daemon, toScan, orphans, history, runLock, call, day, calls, faults,
                 purged, abandoned>>

RemoveHistory(p) ==
  /\ Goto(p, "remove", "removelock")
  /\ history' = [history EXCEPT ![Job(p)] = <<>>]
  /\ purged' = purged \cup {Job(p)}
  /\ UNCHANGED <<daemon, toScan, orphans, stateFile, runLock, call, mem, day, calls, faults,
                 abandoned>>

\* The lock of whoever holds the removed file no longer excludes anyone.
RemoveRunLock(p) ==
  /\ Goto(p, "removelock", "return")
  /\ runLock' = [runLock EXCEPT ![Job(p)] = NoProc]
  /\ UNCHANGED <<daemon, toScan, orphans, stateFile, history, call, mem, day, calls, faults,
                 purged, abandoned>>

-----------------------------------------------------------------------------
(***************************************************************************)
(* Faults.                                                                 *)
(***************************************************************************)
Abandon(ps) == abandoned \cup {<<Job(p), RunId(p)>> : p \in {q \in ps : InFlight(q)}}

\* A file operation fails: the function returns its error, and the run lock is released.
IOError(p) ==
  /\ faults < MaxFaults
  /\ pc[p] \notin {"idle", "execute", "return"}
  /\ pc' = [pc EXCEPT ![p] = "return"]
  /\ mem' = [mem EXCEPT ![p] = Empty]
  /\ faults' = faults + 1
  /\ abandoned' = Abandon({p})
  /\ UNCHANGED <<daemon, toScan, orphans, stateFile, history, runLock, call, day, calls, purged>>

\* Flows die with their process; the kernel releases the locks they held.
Die(ps) ==
  /\ faults < MaxFaults
  /\ pc' = [p \in Procs |-> IF p \in ps THEN "idle" ELSE pc[p]]
  /\ mem' = [p \in Procs |-> IF p \in ps THEN Empty ELSE mem[p]]
  /\ runLock' = [j \in Jobs |-> IF runLock[j] \in ps THEN NoProc ELSE runLock[j]]
  /\ call' = [p \in Procs |-> IF p \in ps THEN NoCall ELSE call[p]]
  /\ faults' = faults + 1
  /\ abandoned' = Abandon(ps)
  /\ UNCHANGED <<stateFile, history, day, calls, purged>>

KillExternal(p) ==
  /\ p \in Externals /\ pc[p] # "idle"
  /\ Die({p})
  /\ UNCHANGED <<daemon, toScan, orphans>>

\* A crash, or a shutdown that does not wait for the goroutines still running.
KillDaemon ==
  /\ daemon # "down"
  /\ Die(Threads)
  /\ daemon' = "down" /\ toScan' = {} /\ orphans' = {}

(***************************************************************************)
(* The daemon starts: closeOrphanedRuns runs before anything is scheduled. *)
(***************************************************************************)
StartDaemon ==
  /\ daemon = "down"
  /\ daemon' = "closing" /\ toScan' = Jobs
  /\ UNCHANGED <<orphans, stateFile, history, runLock, pc, call, mem, day, calls, faults,
                 purged, abandoned>>

\* The open runs of one job, whether or not a process is still executing them.
ReadOrphans(j) ==
  /\ daemon = "closing" /\ orphans = {} /\ j \in toScan
  /\ orphans' = {<<j, r>> : r \in OpenRuns(history[j])}
  /\ toScan' = toScan \ {j}
  /\ UNCHANGED <<daemon, stateFile, history, runLock, pc, call, mem, day, calls, faults,
                 purged, abandoned>>

\* Mutant of Died: the reason is set, the status is not.
DiedStillRunning(r) == [r EXCEPT !.reason = "daemon_died"]

Died(r) == [r EXCEPT !.status = "failure", !.reason = "daemon_died"]

CloseOrphan(j, r) ==
  /\ <<j, r>> \in orphans
  /\ AppendRun(j, Died(r))
  /\ orphans' = orphans \ {<<j, r>>}
  /\ abandoned' = abandoned \ {<<j, r.id>>}
  /\ UNCHANGED <<daemon, toScan, stateFile, runLock, pc, call, mem, day, calls, faults, purged>>

\* The append failed; it is logged and the record stays open.
LeaveOrphan(j, r) ==
  /\ <<j, r>> \in orphans /\ faults < MaxFaults
  /\ orphans' = orphans \ {<<j, r>>}
  /\ faults' = faults + 1
  /\ UNCHANGED <<daemon, toScan, stateFile, history, runLock, pc, call, mem, day, calls,
                 purged, abandoned>>

Serve ==
  /\ daemon = "closing" /\ toScan = {} /\ orphans = {}
  /\ daemon' = "up"
  /\ UNCHANGED <<toScan, orphans, stateFile, history, runLock, pc, call, mem, day, calls,
                 faults, purged, abandoned>>

Midnight ==
  /\ day < LastDay /\ day' = day + 1
  /\ UNCHANGED <<daemon, toScan, orphans, stateFile, history, runLock, pc, call, mem, calls,
                 faults, purged, abandoned>>

-----------------------------------------------------------------------------
Init ==
  /\ daemon = "down" /\ toScan = {} /\ orphans = {}
  /\ stateFile = Empty
  /\ history = [j \in Jobs |-> <<>>]
  /\ runLock = [j \in Jobs |-> NoProc]
  /\ day = 1 /\ calls = 0 /\ faults = 0
  /\ pc = [p \in Procs |-> "idle"]
  /\ call = [p \in Procs |-> NoCall]
  /\ mem = [p \in Procs |-> Empty]
  /\ purged = {} /\ abandoned = {}

RunStep(p) ==
  \/ TryLockRun(p) \/ RetryLockRun(p) \/ CheckLimits(p) \/ SaveClaim(p) \/ AppendRunning(p)
  \/ Execute(p) \/ AppendTerminal(p) \/ LoadForOutcome(p) \/ SaveOutcome(p)
  \/ LoadForMark(p) \/ SaveMark(p) \/ Return(p)
  \/ LoadForPurge(p) \/ SavePurged(p) \/ RemoveHistory(p) \/ RemoveRunLock(p)

Callers(p) ==
  \E j \in Jobs :
    \/ \E t \in Instants, m \in BOOLEAN : CallRunOnce(p, j, t, m)
    \/ \E t \in Instants : CallRecordSkip(p, j, t)
    \/ CallPurge(p, j)

Next ==
  \/ \E p \in Procs : Callers(p) \/ RunStep(p) \/ IOError(p) \/ KillExternal(p)
  \/ KillDaemon \/ StartDaemon \/ Serve \/ Midnight
  \/ \E j \in Jobs : ReadOrphans(j)
  \/ \E x \in orphans : CloseOrphan(x[1], x[2]) \/ LeaveOrphan(x[1], x[2])

Spec == Init /\ [][Next]_vars

-----------------------------------------------------------------------------
(***************************************************************************)
(* Properties.                                                             *)
(***************************************************************************)
Locations == {"idle", "lock", "relock", "limits", "claim", "open", "execute", "finish",
              "account", "save", "mark", "savemark", "return", "forget", "saveforget",
              "remove", "removelock"}

\* Every variable holds a value of its kind: state.json and each flow's copy of it are
\* complete files, the history of a job is a sequence of run records (store.go, model.Run).
TypeOK ==
  /\ daemon \in {"down", "closing", "up"}
  /\ toScan \subseteq Jobs
  /\ orphans \subseteq Jobs \X RunRecord
  /\ stateFile \in StateFile
  /\ history \in [Jobs -> Seq(RunRecord)]
  /\ runLock \in [Jobs -> Procs \cup {NoProc}]
  /\ pc \in [Procs -> Locations]
  /\ call \in [Procs -> Calls]
  /\ mem \in [Procs -> StateFile]
  /\ day \in Nat /\ calls \in Nat /\ faults \in Nat
  /\ purged \subseteq Jobs
  /\ abandoned \subseteq Jobs \X RunIds

\* A run that has started holds its job's lock until its outcome is in state.json.
Holding(p) ==
  \/ pc[p] \in {"limits", "claim", "open", "execute"}
  \/ call[p].started /\ pc[p] \in {"finish", "account", "save", "return"}

\* RunOnce, its first try for the lock, its second try, the refused call that finishes
\* without the lock and the kernel's release at a crash never let two flows, in one process
\* or in two, be between the limit check and the saved outcome of the same job.  A job whose
\* lock file job rm --purge has removed is left out.
MutualExclusion ==
  \A p, q \in Procs :
    Holding(p) /\ Holding(q) /\ Job(p) = Job(q) /\ Job(p) \notin purged => p = q

\* While a payload executes, the history already has its "running" line, whatever other
\* flows append meanwhile, so a crash leaves the truth on disk (runner.go: "The watermark and
\* the running record are written before anything executes").
RunningOnDisk ==
  \A p \in Procs : pc[p] = "execute" /\ Job(p) \notin purged =>
    \E k \in DOMAIN history[Job(p)] :
      history[Job(p)][k].id = RunId(p) /\ history[Job(p)][k].status = "running"

\* A run reads as running only while a live process is still to close it, or its process died
\* or could not write and the next daemon has not closed it yet: no order of appends by
\* overlapping, refused or replayed calls with the same run id leaves one running for ever.
NoGhostRunning ==
  \A j \in Jobs : \A r \in OpenRuns(history[j]) :
    \/ \E p \in Procs : InFlight(p) /\ Job(p) = j /\ RunId(p) = r.id
    \/ <<j, r.id>> \in abandoned

\* state.json carries the occurrence of a run for as long as its payload executes: JobState is
\* "written *before* the occurrences it claims execute".
WatermarkDurable ==
  \A p \in Procs : pc[p] = "execute" => stateFile[Job(p)].last = RunId(p).at

StartedOn(j, d) ==
  {k \in DOMAIN history[j] : history[j][k].status = "running" /\ history[j][k].day = d}

\* No more than max_runs_per_day runs of a job start on one day, across midnight, refused
\* calls, failed writes and restarts.
DailyLimit ==
  \A j \in Jobs : MaxPerDay[j] > 0 =>
    \A d \in 1..LastDay : Cardinality(StartedOn(j, d)) <= MaxPerDay[j]

\* The counted failures of the history after the last success.
Streak(h) ==
  {k \in DOMAIN h : /\ h[k].status \in CountedFailures /\ h[k].reason # "daemon_died"
                    /\ \A m \in DOMAIN h : m > k => h[m].status \notin ResetsFailures}

\* consecutiveFailures, the input of the circuit breaker, is the length of the failure streak
\* of the history whenever nothing is in flight and no write was lost.
StreakExact ==
  faults = 0 /\ (\A p \in Procs : pc[p] = "idle") =>
    \A j \in Jobs : stateFile[j].failures = Cardinality(Streak(history[j]))

\* The life of a run as a reader of the history sees it.
StatusSeen(h, id) ==
  IF \E k \in DOMAIN h : h[k].id = id THEN h[LastOf(h, id)].status ELSE "absent"

Ids   == [at : Instants, manual : BOOLEAN]
Seen  == [j \in Jobs |-> [id \in Ids |-> StatusSeen(history[j], id)]]
Doing == [p \in Procs |-> IF InFlight(p) THEN <<Job(p), RunId(p)>> ELSE <<>>]
Noted == {<<x[1], x[2].id>> : x \in orphans}

Lifecycle == INSTANCE RunLifecycle WITH
  Flows <- Procs, Ends <- Outcomes, Idle <- <<>>,
  seen <- Seen, doing <- Doing, noted <- Noted, forgotten <- purged

\* The lock, its two tries, the copies of state.json, the two records of a run, the closing of
\* orphans and purge together keep the promise of RunLifecycle: runs of one job start one at a
\* time, and no flow, refused call, crash or restart changes what another run reads as.
KeepsLifecycle == Lifecycle!Spec

(***************************************************************************)
(* What comments and documents say and the code does not do (README; run   *)
(* RunOnceLostWatermark refutes WatermarkDurable for two goroutines).      *)
(***************************************************************************)
\* MutualExclusion without the exception: TryLockRun refuses whenever another run goes on.
LockExcludes ==
  \A p, q \in Procs : Holding(p) /\ Holding(q) /\ Job(p) = Job(q) => p = q

\* closeOrphanedRuns closes a run only when no live process is executing it.
OnlyDeadRunsClosed ==
  [][\A x \in orphans : CloseOrphan(x[1], x[2]) =>
       ~ \E p \in Procs : InFlight(p) /\ Job(p) = x[1] /\ RunId(p) = x[2].id]_vars
=============================================================================
