---------------------------- MODULE RunOnceProofs ----------------------------
(***************************************************************************)
(* Proofs about RunOnce for any jobs, flows, instants, limits and bounds:  *)
(* its variables keep their types, runs of one job exclude one another, a  *)
(* payload never executes without its "running" record, no run is left     *)
(* reading as running, and RunOnce implements RunLifecycle; with one flow, *)
(* the watermark, the daily limit and the failure counter are exact.       *)
(***************************************************************************)
EXTENDS RunOnce, FiniteSetTheorems, WellFoundedInduction, TLAPS

USE DEF Procs

-----------------------------------------------------------------------------
(***************************************************************************)
(* Facts about the data.                                                   *)
(***************************************************************************)

\* A fresh record for an instant is a run record.
LEMMA NewRunType ==
  ASSUME NEW t \in Nat, NEW m \in BOOLEAN, NEW s \in Statuses
  PROVE  NewRun(t, m, s) \in RunRecord
BY DEF NewRun, RunRecord, RunIds, Reasons

\* A call made of an operation, a job and a record is a call.
LEMMA NewCallType ==
  ASSUME NEW op \in {"run", "skip", "purge"}, NEW j \in Jobs, NEW r \in RunRecord
  PROVE  NewCall(op, j, r) \in Calls
BY DEF NewCall, Calls

\* Changing the status, the reason or the day of a call's record keeps it a call.
LEMMA CallUpdate ==
  ASSUME NEW c \in Calls
  PROVE  /\ \A s \in Statuses : [c EXCEPT !.run.status = s] \in Calls
         /\ \A s \in Statuses, w \in Reasons :
              [c EXCEPT !.run.status = s, !.run.reason = w] \in Calls
         /\ \A d \in Nat : [c EXCEPT !.run.day = d] \in Calls
<1>1. ASSUME NEW r \in RunRecord PROVE [c EXCEPT !.run = r] \in Calls
  BY <1>1 DEF Calls
<1>2. c.run \in RunRecord
  BY DEF Calls
<1>3. ASSUME NEW s \in Statuses PROVE [c EXCEPT !.run.status = s] \in Calls
  <2>1. [c.run EXCEPT !.status = s] \in RunRecord
    BY <1>2 DEF RunRecord
  <2>. QED  BY <1>1, <2>1
<1>4. ASSUME NEW s \in Statuses, NEW w \in Reasons
      PROVE [c EXCEPT !.run.status = s, !.run.reason = w] \in Calls
  <2>1. [c.run EXCEPT !.status = s, !.reason = w] \in RunRecord
    BY <1>2 DEF RunRecord
  <2>2. [c EXCEPT !.run.status = s, !.run.reason = w]
          = [c EXCEPT !.run = [c.run EXCEPT !.status = s, !.reason = w]]
    BY DEF Calls, RunRecord
  <2>. QED  BY <1>1, <2>1, <2>2
<1>5. ASSUME NEW d \in Nat PROVE [c EXCEPT !.run.day = d] \in Calls
  <2>1. [c.run EXCEPT !.day = d] \in RunRecord
    BY <1>2 DEF RunRecord
  <2>. QED  BY <1>1, <2>1
<1>. QED  BY <1>3, <1>4, <1>5

\* Claiming an occurrence gives a job entry again.
LEMMA ClaimedType ==
  ASSUME NEW js \in JobState, NEW t \in Nat, day \in Nat
  PROVE  Claimed(js, t) \in JobState
<1>1. RunsToday(js) + 1 \in Nat
  BY DEF RunsToday, JobState
<1>. QED  BY <1>1 DEF Claimed, JobState

\* The call of an idle flow is a call.
LEMMA NoCallType == NoCall \in Calls /\ ~NoCall.started
<1>1. NewRun(0, FALSE, "running") \in RunRecord
  BY NewRunType DEF Statuses
<1>2. (CHOOSE j \in Jobs : TRUE) \in Jobs
  BY JobsAssumption
<1>. QED
  BY <1>1, <1>2, NewCallType DEF NoCall, NewCall

\* The empty state.json is a state.json.
LEMMA EmptyType == Empty \in StateFile
BY DEF Empty, StateFile, NoState, JobState

-----------------------------------------------------------------------------
(***************************************************************************)
(* What a reader of the history sees, line after line.                     *)
(***************************************************************************)
\* A nonempty set of line numbers of a history has a greatest one.
LEMMA LastLine ==
  ASSUME NEW n \in Nat, NEW K \in SUBSET (1..n), K # {}
  PROVE  \E k \in K : \A m \in K : m <= k
<1>. DEFINE T == {n - k : k \in K}
<1>1. T \subseteq Nat /\ T # {}
  <2>1. \A k \in K : k \in Nat /\ k <= n
    OBVIOUS
  <2>2. \A k \in K : n - k \in Nat
    BY <2>1
  <2>3. PICK k \in K : TRUE
    OBVIOUS
  <2>. QED  BY <2>2, <2>3
<1>2. PICK x \in T : \A y \in T : ~(<<y, x>> \in OpToRel(<, Nat))
  <2>. HIDE DEF T
  <2>. QED  BY <1>1, NatLessThanWellFounded, WFMin, Zenon
<1>3. \A y \in T : ~(y < x)
  BY <1>1, <1>2 DEF OpToRel
<1>4. PICK k \in K : x = n - k
  OBVIOUS
<1>5. ASSUME NEW m \in K PROVE m <= k
  <2>1. ~(n - m < n - k)
    BY <1>3, <1>4
  <2>. QED  BY <2>1
<1>. QED  BY <1>5

\* LastOf picks the one line that no later line of its id follows.
LEMMA LastOfLine ==
  ASSUME NEW h \in Seq(RunRecord), NEW id, \E k \in DOMAIN h : h[k].id = id
  PROVE  /\ LastOf(h, id) \in DOMAIN h /\ h[LastOf(h, id)].id = id
         /\ \A m \in DOMAIN h : h[m].id = id => m <= LastOf(h, id)
<1>. DEFINE K == {k \in DOMAIN h : h[k].id = id}
<1>1. K \in SUBSET (1 .. Len(h)) /\ K # {} /\ Len(h) \in Nat
  OBVIOUS
<1>2. PICK k \in K : \A m \in K : m <= k
  <2>. HIDE DEF K
  <2>. QED  BY <1>1, LastLine
<1>. QED  BY <1>2 DEF LastOf

LEMMA LastOfIs ==
  ASSUME NEW h \in Seq(RunRecord), NEW id, NEW k \in DOMAIN h, h[k].id = id,
         \A m \in DOMAIN h : h[m].id = id => m <= k
  PROVE  LastOf(h, id) = k
<1>1. LastOf(h, id) \in DOMAIN h /\ LastOf(h, id) <= k /\ k <= LastOf(h, id)
  BY LastOfLine
<1>. QED  BY <1>1

\* What a reader sees after one more line: the new line for its id, the old ones for the others.
LEMMA LastOfAppend ==
  ASSUME NEW h \in Seq(RunRecord), NEW r \in RunRecord, NEW id
  PROVE  /\ id = r.id => LastOf(Append(h, r), id) = Len(h) + 1
         /\ id # r.id /\ (\E k \in DOMAIN h : h[k].id = id) =>
              LastOf(Append(h, r), id) = LastOf(h, id)
<1>. DEFINE g == Append(h, r)
<1>1. /\ g \in Seq(RunRecord) /\ DOMAIN g = DOMAIN h \cup {Len(h) + 1}
      /\ g[Len(h) + 1] = r /\ \A k \in DOMAIN h : g[k] = h[k] /\ k < Len(h) + 1
      /\ Len(h) + 1 \in Nat /\ DOMAIN h \subseteq Nat
  OBVIOUS
<1>. HIDE DEF g
<1>2. ASSUME id = r.id PROVE LastOf(g, id) = Len(h) + 1
  <2>1. \A m \in DOMAIN g : m <= Len(h) + 1
    BY <1>1
  <2>. QED  BY <1>1, <1>2, <2>1, LastOfIs
<1>3. ASSUME id # r.id, \E k \in DOMAIN h : h[k].id = id
      PROVE  LastOf(g, id) = LastOf(h, id)
  <2>1. /\ LastOf(h, id) \in DOMAIN h /\ h[LastOf(h, id)].id = id
        /\ \A m \in DOMAIN h : h[m].id = id => m <= LastOf(h, id)
    BY <1>3, LastOfLine
  <2>2. \A m \in DOMAIN g : g[m].id = id => m <= LastOf(h, id)
    BY <1>1, <1>3, <2>1
  <2>3. g[LastOf(h, id)].id = id /\ LastOf(h, id) \in DOMAIN g
    BY <1>1, <2>1
  <2>. QED  BY <1>1, <1>3, <2>2, <2>3, LastOfIs
<1>. QED  BY <1>2, <1>3 DEF g

\* The status a reader sees after one more line.
LEMMA SeenAfter ==
  ASSUME NEW h \in Seq(RunRecord), NEW r \in RunRecord, NEW id
  PROVE  StatusSeen(Append(h, r), id) = IF id = r.id THEN r.status ELSE StatusSeen(h, id)
<1>. DEFINE g == Append(h, r)
<1>1. /\ DOMAIN g = DOMAIN h \cup {Len(h) + 1} /\ g[Len(h) + 1] = r
      /\ \A k \in DOMAIN h : g[k] = h[k]
  OBVIOUS
<1>2. /\ id = r.id => LastOf(g, id) = Len(h) + 1
      /\ id # r.id /\ (\E k \in DOMAIN h : h[k].id = id) => LastOf(g, id) = LastOf(h, id)
  BY LastOfAppend
<1>3. (\E k \in DOMAIN h : h[k].id = id) => LastOf(h, id) \in DOMAIN h
  BY LastOfLine
<1>. HIDE DEF g
<1>4. StatusSeen(g, id) = IF id = r.id THEN r.status ELSE StatusSeen(h, id)
  BY <1>1, <1>2, <1>3 DEF StatusSeen
<1>. QED  BY <1>4 DEF g

\* Open runs are the ids whose last line says "running".
LEMMA OpenIsSeen ==
  ASSUME NEW h \in Seq(RunRecord)
  PROVE  /\ \A r \in OpenRuns(h) : StatusSeen(h, r.id) = "running" /\ r \in RunRecord
                                     /\ r = h[LastOf(h, r.id)]
         /\ \A id : StatusSeen(h, id) = "running" =>
              \E r \in OpenRuns(h) : r.id = id
<1>1. ASSUME NEW r \in OpenRuns(h)
      PROVE StatusSeen(h, r.id) = "running" /\ r \in RunRecord /\ r = h[LastOf(h, r.id)]
  <2>1. PICK k \in DOMAIN h : r = h[LastOf(h, h[k].id)] /\ r.status = "running"
    BY DEF OpenRuns, Runs
  <2>2. LastOf(h, h[k].id) \in DOMAIN h /\ r.id = h[k].id
    BY <2>1, LastOfLine
  <2>. QED  BY <2>1, <2>2 DEF StatusSeen
<1>2. ASSUME NEW id, StatusSeen(h, id) = "running" PROVE \E r \in OpenRuns(h) : r.id = id
  <2>1. \E k \in DOMAIN h : h[k].id = id
    BY <1>2 DEF StatusSeen
  <2>2. h[LastOf(h, id)].status = "running" /\ h[LastOf(h, id)].id = id
    BY <1>2, <2>1, LastOfLine DEF StatusSeen
  <2>. QED  BY <2>1, <2>2 DEF OpenRuns, Runs
<1>. QED  BY <1>1, <1>2

-----------------------------------------------------------------------------
(***************************************************************************)
(* Type correctness.                                                       *)
(***************************************************************************)
LEMMA TypeInit == Init => TypeOK
BY NoCallType, EmptyType DEF Init, TypeOK, Locations

LEMMA TypeNext == TypeOK /\ [Next]_vars => TypeOK'
<1>. SUFFICES ASSUME TypeOK, [Next]_vars PROVE TypeOK'
  OBVIOUS
<1>a. CASE \E p \in Procs : Callers(p)
  <2>. SUFFICES ASSUME NEW p \in Procs, NEW j \in Jobs,
                       \/ \E t \in Instants, m \in BOOLEAN : CallRunOnce(p, j, t, m)
                       \/ \E t \in Instants : CallRecordSkip(p, j, t)
                       \/ CallPurge(p, j)
                PROVE TypeOK'
    BY <1>a DEF Callers
  <2>1. ASSUME NEW c \in Calls, NEW at \in Locations, Begin(p, c, at) PROVE TypeOK'
    BY <2>1 DEF Begin, TypeOK
  <2>2. ASSUME NEW t \in Instants, NEW m \in BOOLEAN, CallRunOnce(p, j, t, m) PROVE TypeOK'
    <3>1. NewCall("run", j, NewRun(t, m, "running")) \in Calls
      BY NewRunType, NewCallType, InstantAssumption DEF Statuses
    <3>. QED  BY <2>1, <2>2, <3>1 DEF CallRunOnce, Locations
  <2>3. ASSUME NEW t \in Instants, CallRecordSkip(p, j, t) PROVE TypeOK'
    <3>1. NewCall("skip", j, NewRun(t, FALSE, "skipped")) \in Calls
      BY NewRunType, NewCallType, InstantAssumption DEF Statuses
    <3>. QED  BY <2>1, <2>3, <3>1 DEF CallRecordSkip, Locations
  <2>4. ASSUME CallPurge(p, j) PROVE TypeOK'
    <3>1. NewCall("purge", j, NewRun(0, FALSE, "skipped")) \in Calls
      BY NewRunType, NewCallType DEF Statuses
    <3>. QED  BY <2>1, <2>4, <3>1 DEF CallPurge, Locations
  <2>. QED  BY <2>2, <2>3, <2>4
<1>b. CASE \E p \in Procs : RunStep(p)
  <2>. SUFFICES ASSUME NEW p \in Procs, RunStep(p) PROVE TypeOK'
    BY <1>b
  <2>a. Job(p) \in Jobs /\ call[p].run \in RunRecord /\ RunId(p) \in RunIds
    BY DEF TypeOK, Calls, RunRecord, Job, RunId
  <2>b. ASSUME NEW r \in RunRecord, AppendRun(Job(p), r)
        PROVE history' \in [Jobs -> Seq(RunRecord)]
    BY <2>a, <2>b DEF AppendRun, TypeOK
  <2>c. ASSUME NEW from, NEW to \in Locations, Goto(p, from, to)
        PROVE pc' \in [Procs -> Locations]
    BY <2>c DEF Goto, TypeOK
  <2>d. ASSUME NEW from, NEW reason \in Reasons, Refuse(p, from, reason)
        PROVE pc' \in [Procs -> Locations] /\ call' \in [Procs -> Calls]
    <3>1. pc' \in [Procs -> Locations]
      BY <2>c, <2>d DEF Refuse, Locations
    <3>2. [call[p] EXCEPT !.run.status = "skipped", !.run.reason = reason] \in Calls
      BY CallUpdate DEF TypeOK, Statuses
    <3>. QED  BY <2>d, <3>1, <3>2 DEF Refuse, TypeOK
  <2>e. ASSUME NEW from, Acquire(p, from)
        PROVE pc' \in [Procs -> Locations] /\ runLock' \in [Jobs -> Procs \cup {NoProc}]
              /\ call' = call
    BY <2>c, <2>e, <2>a DEF Acquire, Locations, TypeOK
  <2>f. ASSUME NEW from, NEW to \in Locations, SaveState(p, from, to)
        PROVE pc' \in [Procs -> Locations] /\ stateFile' \in StateFile
              /\ mem' \in [Procs -> StateFile]
    BY <2>c, <2>f, EmptyType DEF SaveState, TypeOK
  <2>g. ASSUME NEW f \in StateFile, mem' = [mem EXCEPT ![p] = f]
        PROVE mem' \in [Procs -> StateFile]
    BY <2>g DEF TypeOK
  <2>1. CASE TryLockRun(p)
    BY <2>1, <2>c, <2>d, <2>e DEF TryLockRun, TypeOK, Locations, Reasons
  <2>2. CASE RetryLockRun(p)
    BY <2>2, <2>d, <2>e DEF RetryLockRun, TypeOK, Reasons
  <2>3. CASE CheckLimits(p)
    <3>1. CASE Refuse(p, "limits", "limit_exceeded") /\ UNCHANGED mem
      BY <2>3, <3>1, <2>d DEF CheckLimits, TypeOK, Reasons
    <3>2. CASE /\ Goto(p, "limits", "finish")
               /\ call' = [call EXCEPT ![p].run.status = "failure",
                                       ![p].run.reason = "cwd_missing"]
               /\ UNCHANGED mem
      <4>1. [call[p] EXCEPT !.run.status = "failure", !.run.reason = "cwd_missing"] \in Calls
        BY CallUpdate DEF TypeOK, Statuses, Reasons
      <4>2. call' \in [Procs -> Calls]
        BY <3>2, <4>1 DEF TypeOK
      <4>. QED  BY <2>3, <3>2, <4>2, <2>c DEF CheckLimits, TypeOK, Locations
    <3>3. CASE /\ Goto(p, "limits", "claim")
               /\ call' = [call EXCEPT ![p].run.day = day]
               /\ mem' = [mem EXCEPT ![p] = [stateFile EXCEPT ![Job(p)] =
                                               Claimed(@, RunId(p).at)]]
      <4>1. [call[p] EXCEPT !.run.day = day] \in Calls
        BY CallUpdate DEF TypeOK
      <4>2. call' \in [Procs -> Calls]
        BY <3>3, <4>1 DEF TypeOK
      <4>3. Claimed(stateFile[Job(p)], RunId(p).at) \in JobState
        BY <2>a, ClaimedType DEF TypeOK, StateFile, RunIds
      <4>4. mem' \in [Procs -> StateFile]
        BY <3>3, <4>3, <2>a DEF TypeOK, StateFile
      <4>. QED  BY <2>3, <3>3, <4>2, <4>4, <2>c DEF CheckLimits, TypeOK, Locations
    <3>. QED  BY <2>3, <3>1, <3>2, <3>3 DEF CheckLimits
  <2>4. CASE SaveClaim(p)
    BY <2>4, <2>f DEF SaveClaim, TypeOK, Locations
  <2>5. CASE AppendRunning(p)
    <3>1. [call[p] EXCEPT !.started = TRUE] \in Calls
      BY DEF TypeOK, Calls
    <3>2. call' \in [Procs -> Calls]
      BY <2>5, <3>1 DEF AppendRunning, TypeOK
    <3>. QED  BY <2>5, <3>2, <2>a, <2>b, <2>c DEF AppendRunning, TypeOK, Locations
  <2>6. CASE Execute(p)
    <3>1. ASSUME NEW s \in Outcomes PROVE [call[p] EXCEPT !.run.status = s] \in Calls
      BY OutcomeAssumption, CallUpdate DEF TypeOK, Statuses
    <3>2. call' \in [Procs -> Calls]
      BY <2>6, <3>1 DEF Execute, TypeOK
    <3>. QED  BY <2>6, <3>2, <2>c DEF Execute, TypeOK, Locations
  <2>7. CASE AppendTerminal(p)
    BY <2>7, <2>a, <2>b, <2>c DEF AppendTerminal, TypeOK, Locations
  <2>8. CASE LoadForOutcome(p)
    <3>1. ASSUME NEW n \in Nat, NEW s PROVE FailuresAfter(n, s) \in Nat
      BY DEF FailuresAfter
    <3>2. [stateFile EXCEPT ![Job(p)].failures =
             FailuresAfter(@, call[p].run.status)] \in StateFile
      BY <2>a, <3>1 DEF TypeOK, StateFile, JobState
    <3>. QED  BY <2>8, <3>2, <2>c, <2>g DEF LoadForOutcome, TypeOK, Locations
  <2>9. CASE SaveOutcome(p)
    BY <2>9, <2>f DEF SaveOutcome, TypeOK, Locations
  <2>10. CASE LoadForMark(p)
    <3>1. [stateFile EXCEPT ![Job(p)].last =
             IF @ < RunId(p).at THEN RunId(p).at ELSE @] \in StateFile
      BY <2>a DEF TypeOK, StateFile, JobState, RunIds
    <3>. QED  BY <2>10, <3>1, <2>c, <2>g DEF LoadForMark, TypeOK, Locations
  <2>11. CASE SaveMark(p)
    BY <2>11, <2>f DEF SaveMark, TypeOK, Locations
  <2>12. CASE Return(p)
    BY <2>12, <2>c, NoCallType DEF Return, Unlock, TypeOK, Locations
  <2>13. CASE LoadForPurge(p)
    <3>1. [stateFile EXCEPT ![Job(p)] = NoState] \in StateFile
      BY <2>a DEF TypeOK, StateFile, JobState, NoState
    <3>. QED  BY <2>13, <3>1, <2>c, <2>g DEF LoadForPurge, TypeOK, Locations
  <2>14. CASE SavePurged(p)
    BY <2>14, <2>f DEF SavePurged, TypeOK, Locations
  <2>15. CASE RemoveHistory(p)
    <3>1. history' \in [Jobs -> Seq(RunRecord)]
      BY <2>15, <2>a DEF RemoveHistory, TypeOK
    <3>. QED  BY <2>15, <3>1, <2>a, <2>c DEF RemoveHistory, TypeOK, Locations
  <2>16. CASE RemoveRunLock(p)
    BY <2>16, <2>a, <2>c DEF RemoveRunLock, TypeOK, Locations
  <2>. QED
    BY <2>1, <2>2, <2>3, <2>4, <2>5, <2>6, <2>7, <2>8, <2>9, <2>10, <2>11, <2>12, <2>13,
       <2>14, <2>15, <2>16 DEF RunStep
<1>c. ASSUME NEW ps PROVE Abandon(ps) \subseteq Jobs \X RunIds \/ ~(ps \subseteq Procs)
  BY DEF Abandon, TypeOK, Calls, RunRecord, Job, RunId
<1>d. ASSUME NEW ps \in SUBSET Procs, Die(ps),
             daemon' \in {"down", "closing", "up"}, toScan' \subseteq Jobs,
             orphans' \subseteq Jobs \X RunRecord
      PROVE TypeOK'
  BY <1>c, <1>d, NoCallType, EmptyType DEF Die, TypeOK, Locations
<1>e. CASE \E p \in Procs : IOError(p)
  BY <1>e, <1>c, EmptyType DEF IOError, TypeOK, Locations
<1>f. CASE \E p \in Procs : KillExternal(p)
  BY <1>f, <1>d DEF KillExternal, TypeOK
<1>g. CASE KillDaemon
  BY <1>g, <1>d DEF KillDaemon
<1>h. CASE StartDaemon \/ Serve \/ Midnight
  BY <1>h DEF StartDaemon, Serve, Midnight, TypeOK
<1>i. CASE \E j \in Jobs : ReadOrphans(j)
  <2>. SUFFICES ASSUME NEW j \in Jobs, ReadOrphans(j) PROVE TypeOK'
    BY <1>i
  <2>1. ASSUME NEW k \in DOMAIN history[j] PROVE history[j][k] \in RunRecord
    BY <2>1 DEF TypeOK
  <2>2. OpenRuns(history[j]) \subseteq RunRecord
    BY <2>1 DEF OpenRuns, Runs, LastOf
  <2>. QED  BY <2>2 DEF ReadOrphans, TypeOK
<1>j. CASE \E x \in orphans : CloseOrphan(x[1], x[2]) \/ LeaveOrphan(x[1], x[2])
  <2>. SUFFICES ASSUME NEW x \in orphans, CloseOrphan(x[1], x[2]) \/ LeaveOrphan(x[1], x[2])
                PROVE TypeOK'
    BY <1>j
  <2>1. x[1] \in Jobs /\ x[2] \in RunRecord /\ Died(x[2]) \in RunRecord
    BY DEF TypeOK, Died, RunRecord, Statuses, Reasons
  <2>2. CASE CloseOrphan(x[1], x[2])
    <3>1. history' \in [Jobs -> Seq(RunRecord)]
      BY <2>1, <2>2 DEF CloseOrphan, AppendRun, TypeOK
    <3>. QED  BY <2>2, <3>1 DEF CloseOrphan, TypeOK
  <2>3. CASE LeaveOrphan(x[1], x[2])
    BY <2>3 DEF LeaveOrphan, TypeOK
  <2>. QED  BY <2>2, <2>3
<1>k. CASE UNCHANGED vars
  BY <1>k DEF vars, TypeOK
<1>. QED
  BY <1>a, <1>b, <1>e, <1>f, <1>g, <1>h, <1>i, <1>j, <1>k DEF Next

\* Type correctness of RunOnce for every value of its constants.
THEOREM TypeCorrect == Spec => []TypeOK
BY TypeInit, TypeNext, PTL DEF Spec

-----------------------------------------------------------------------------
(***************************************************************************)
(* The run lock.  Holding alone is not inductive: one needs that a holder  *)
(* owns the lock file as long as nobody removed it, and where a flow whose *)
(* run has started may stand.                                              *)
(***************************************************************************)
OwnsLock(p)  == Holding(p) /\ Job(p) \notin purged => runLock[Job(p)] = p
Stands(p)    == call[p].started =>
                  call[p].op = "run" /\ pc[p] \in {"execute", "finish", "account", "save", "return"}
OpenCall(p)  == pc[p] \in {"lock", "relock", "limits", "claim", "open", "execute"} =>
                  call[p].run.status = "running" /\ call[p].op = "run"
Purging(p)   == pc[p] = "removelock" => Job(p) \in purged
FlowInv(p)   == OwnsLock(p) /\ Stands(p) /\ OpenCall(p) /\ Purging(p)
LockInv      == TypeOK /\ \A p \in Procs : FlowInv(p)

LEMMA LockInit == Init => LockInv
BY TypeInit, NoCallType DEF Init, LockInv, FlowInv, OwnsLock, Stands, OpenCall, Purging, Holding

LEMMA LockNext == LockInv /\ [Next]_vars => LockInv'
<1>. SUFFICES ASSUME LockInv, [Next]_vars PROVE LockInv'
  OBVIOUS
<1>. USE DEF FlowInv, OwnsLock, Stands, OpenCall, Purging, Holding, Job
<1>t. TypeOK /\ TypeOK'
  BY TypeNext DEF LockInv
<1>. SUFFICES ASSUME NEW q \in Procs PROVE FlowInv(q)'
  BY <1>t DEF LockInv
<1>q. FlowInv(q)
  BY DEF LockInv
<1>a. CASE \E p \in Procs : Callers(p)
  <2>. SUFFICES ASSUME NEW p \in Procs, Callers(p)
                PROVE FlowInv(q)'
    BY <1>a
  <2>1. ASSUME NEW c, NEW at \in {"lock", "finish", "forget"}, Begin(p, c, at), ~c.started,
               at = "lock" => c.run.status = "running" /\ c.op = "run"
        PROVE FlowInv(q)'
    BY <2>1, <1>t, <1>q DEF Begin, TypeOK
  <2>2. ASSUME NEW j \in Jobs, NEW t \in Instants, NEW m \in BOOLEAN, CallRunOnce(p, j, t, m)
        PROVE FlowInv(q)'
    <3>1. Begin(p, NewCall("run", j, NewRun(t, m, "running")), "lock")
      BY <2>2 DEF CallRunOnce
    <3>2. ~NewCall("run", j, NewRun(t, m, "running")).started
      BY DEF NewCall
    <3>3. NewCall("run", j, NewRun(t, m, "running")).run.status = "running" /\ NewCall("run", j, NewRun(t, m, "running")).op = "run"
      BY DEF NewCall, NewRun
    <3>. QED  BY <2>1, <3>1, <3>2, <3>3
  <2>3. ASSUME NEW j \in Jobs, NEW t \in Instants, CallRecordSkip(p, j, t)
        PROVE FlowInv(q)'
    <3>1. Begin(p, NewCall("skip", j, NewRun(t, FALSE, "skipped")), "finish")
      BY <2>3 DEF CallRecordSkip
    <3>2. ~NewCall("skip", j, NewRun(t, FALSE, "skipped")).started
      BY DEF NewCall
    <3>. QED  BY <2>1, <3>1, <3>2
  <2>4. ASSUME NEW j \in Jobs, CallPurge(p, j)
        PROVE FlowInv(q)'
    <3>1. Begin(p, NewCall("purge", j, NewRun(0, FALSE, "skipped")), "forget")
      BY <2>4 DEF CallPurge
    <3>2. ~NewCall("purge", j, NewRun(0, FALSE, "skipped")).started
      BY DEF NewCall
    <3>. QED  BY <2>1, <3>1, <3>2
  <2>. QED
    BY <2>2, <2>3, <2>4 DEF Callers
<1>b. CASE \E p \in Procs : RunStep(p)
  <2>. SUFFICES ASSUME NEW p \in Procs, RunStep(p)
                PROVE FlowInv(q)'
    BY <1>b
  <2>p. FlowInv(p)
    BY DEF LockInv
  <2>c. call[p] \in Calls /\ call[p].run \in RunRecord /\ call[p].job \in Jobs
    BY <1>t DEF TypeOK, Calls
  <2>n. NoProc # q
    BY ProcsAssumption
  <2>1. CASE TryLockRun(p)
    BY <2>1, <1>t, <1>q, <2>p, <2>c, <2>n
    DEF TryLockRun, Acquire, Refuse, Goto, TypeOK, Calls, RunRecord
  <2>2. CASE RetryLockRun(p)
    BY <2>2, <1>t, <1>q, <2>p, <2>c, <2>n
    DEF RetryLockRun, Acquire, Refuse, Goto, TypeOK, Calls, RunRecord
  <2>3. CASE CheckLimits(p)
    <3>1. /\ pc[p] = "limits" /\ pc' \in {[pc EXCEPT ![p] = "finish"], [pc EXCEPT ![p] = "claim"]}
          /\ UNCHANGED <<runLock, purged>>
      BY <2>3 DEF CheckLimits, Refuse, Goto
    <3>2. /\ \A r \in Procs \ {p} : call'[r] = call[r]
          /\ call'[p].started = call[p].started /\ call'[p].job = call[p].job
          /\ call'[p].op = call[p].op
          /\ pc'[p] = "claim" => call'[p].run.status = call[p].run.status
      <4>1. CASE Refuse(p, "limits", "limit_exceeded")
        BY <4>1, <2>c, <1>t DEF Refuse, Goto, TypeOK, Calls, RunRecord
      <4>2. CASE /\ Goto(p, "limits", "finish")
                 /\ call' = [call EXCEPT ![p].run.status = "failure",
                                         ![p].run.reason = "cwd_missing"]
        BY <4>2, <2>c, <1>t DEF Goto, TypeOK, Calls, RunRecord
      <4>3. CASE /\ Goto(p, "limits", "claim")
                 /\ call' = [call EXCEPT ![p].run.day = day]
        BY <4>3, <2>c, <1>t DEF Goto, TypeOK, Calls, RunRecord
      <4>. QED  BY <2>3, <4>1, <4>2, <4>3 DEF CheckLimits
    <3>. QED  BY <3>1, <3>2, <1>t, <1>q, <2>p DEF TypeOK
  <2>4. CASE SaveClaim(p)
    BY <2>4, <1>t, <1>q, <2>p DEF SaveClaim, SaveState, Goto, TypeOK
  <2>5. CASE AppendRunning(p)
    BY <2>5, <1>t, <1>q, <2>p, <2>c DEF AppendRunning, Goto, TypeOK, Calls
  <2>6. CASE Execute(p)
    BY <2>6, <1>t, <1>q, <2>p, <2>c DEF Execute, Goto, TypeOK, Calls, RunRecord
  <2>7. CASE AppendTerminal(p)
    BY <2>7, <1>t, <1>q, <2>p DEF AppendTerminal, Goto, TypeOK
  <2>8. CASE LoadForOutcome(p)
    BY <2>8, <1>t, <1>q, <2>p DEF LoadForOutcome, Goto, TypeOK
  <2>9. CASE SaveOutcome(p)
    BY <2>9, <1>t, <1>q, <2>p DEF SaveOutcome, SaveState, Goto, TypeOK
  <2>10. CASE LoadForMark(p) \/ SaveMark(p)
    <3>1. CASE LoadForMark(p)
      BY <3>1, <1>t, <1>q, <2>p DEF LoadForMark, Goto, TypeOK
    <3>2. CASE SaveMark(p)
      BY <3>2, <1>t, <1>q, <2>p DEF SaveMark, SaveState, Goto, TypeOK
    <3>. QED  BY <2>10, <3>1, <3>2
  <2>11. CASE Return(p)
    BY <2>11, <1>t, <1>q, <2>p, NoCallType DEF Return, Unlock, Goto, TypeOK, Calls
  <2>12. CASE LoadForPurge(p) \/ SavePurged(p) \/ RemoveHistory(p)
    BY <2>12, <1>t, <1>q, <2>p
    DEF LoadForPurge, SavePurged, RemoveHistory, SaveState, Goto, TypeOK
  <2>13. CASE RemoveRunLock(p)
    BY <2>13, <1>t, <1>q, <2>p DEF RemoveRunLock, Goto, TypeOK
  <2>. QED
    BY <2>1, <2>2, <2>3, <2>4, <2>5, <2>6, <2>7, <2>8, <2>9, <2>10, <2>11, <2>12, <2>13
    DEF RunStep
<1>c. ASSUME NEW ps \in SUBSET Procs, Die(ps)
      PROVE FlowInv(q)'
  <2>1. CASE q \in ps
    BY <2>1, <1>c, NoCallType DEF Die
  <2>2. CASE q \notin ps
    BY <2>2, <1>c, <1>t, <1>q DEF Die, TypeOK, Calls
  <2>. QED  BY <2>1, <2>2
<1>d. CASE \E p \in Procs : IOError(p)
  BY <1>d, <1>t, <1>q DEF IOError, TypeOK
<1>e. CASE (\E p \in Procs : KillExternal(p)) \/ KillDaemon
  BY <1>e, <1>c DEF KillExternal, KillDaemon
<1>f. CASE \/ StartDaemon \/ Serve \/ Midnight \/ \E j \in Jobs : ReadOrphans(j)
           \/ \E x \in orphans : CloseOrphan(x[1], x[2]) \/ LeaveOrphan(x[1], x[2])
           \/ UNCHANGED vars
  BY <1>f, <1>q
  DEF StartDaemon, Serve, Midnight, ReadOrphans, CloseOrphan, LeaveOrphan, vars
<1>. QED
  BY <1>a, <1>b, <1>d, <1>e, <1>f DEF Next

\* For any flows and jobs: two runs of one job are never between the check of their limits
\* and their saved outcome together, unless job rm --purge removed the lock file.
THEOREM RunsExclude == Spec => []MutualExclusion
<1>1. LockInv => MutualExclusion
  BY DEF LockInv, FlowInv, MutualExclusion, OwnsLock
<1>. QED
  BY <1>1, LockInit, LockNext, PTL DEF Spec

-----------------------------------------------------------------------------
(***************************************************************************)
(* The "running" record.  Lines are only appended, so once written it      *)
(* stays until a purge removes the file.                                   *)
(***************************************************************************)
Opened(j, id) == \E k \in DOMAIN history[j] :
                   history[j][k].id = id /\ history[j][k].status = "running"
RecordInv == LockInv /\ RunningOnDisk

\* Every step keeps the "running" line of every payload that executes.
LEMMA RecordNext == RecordInv /\ [Next]_vars => RecordInv'
<1>. SUFFICES ASSUME RecordInv, [Next]_vars PROVE RecordInv'
  OBVIOUS
<1>t. LockInv /\ LockInv' /\ TypeOK /\ TypeOK'
  BY LockNext DEF RecordInv, LockInv
<1>. SUFFICES ASSUME NEW q \in Procs, pc'[q] = "execute", Job(q)' \notin purged'
              PROVE Opened(Job(q), RunId(q))'
  BY <1>t DEF RecordInv, RunningOnDisk, Opened
<1>q. ASSUME pc[q] = "execute", call'[q] = call[q], purged \subseteq purged'
      PROVE Opened(Job(q), RunId(q))
  BY <1>q DEF RecordInv, RunningOnDisk, Opened, Job, RunId
<1>j. Job(q) \in Jobs
  BY <1>t DEF TypeOK, Calls, Job
<1>k. ASSUME pc[q] = "execute", call'[q] = call[q], UNCHANGED <<history, purged>>
      PROVE Opened(Job(q), RunId(q))'
  BY <1>k, <1>q DEF Opened, Job, RunId
<1>l. ASSUME pc[q] = "execute", call'[q] = call[q], UNCHANGED purged,
             NEW i \in Jobs, NEW r \in RunRecord, AppendRun(i, r)
      PROVE Opened(Job(q), RunId(q))'
  <2>1. Opened(Job(q), RunId(q))
    BY <1>l, <1>q
  <2>2. Job(q)' = Job(q) /\ RunId(q)' = RunId(q)
    BY <1>l DEF Job, RunId
  <2>3. ASSUME NEW id, Opened(Job(q), id) PROVE \E k \in DOMAIN history'[Job(q)] :
          history'[Job(q)][k].id = id /\ history'[Job(q)][k].status = "running"
    <3>1. PICK k \in DOMAIN history[Job(q)] :
            history[Job(q)][k].id = id /\ history[Job(q)][k].status = "running"
      BY <2>3 DEF Opened
    <3>2. history[Job(q)] \in Seq(RunRecord)
      BY <1>j, <1>t DEF TypeOK
    <3>3. history'[Job(q)] = history[Job(q)]
          \/ history'[Job(q)] = Append(history[Job(q)], r)
      BY <1>l, <1>j, <1>t DEF TypeOK, AppendRun
    <3>4. k \in DOMAIN history'[Job(q)] /\ history'[Job(q)][k] = history[Job(q)][k]
      BY <3>2, <3>3
    <3>. QED  BY <3>1, <3>4
  <2>. QED  BY <2>1, <2>2, <2>3 DEF Opened
<1>a. CASE \E p \in Procs : Callers(p)
  <2>. SUFFICES ASSUME NEW p \in Procs, NEW c, NEW at \in {"lock", "finish", "forget"},
                       Begin(p, c, at)
                PROVE Opened(Job(q), RunId(q))'
    BY <1>a DEF Callers, CallRunOnce, CallRecordSkip, CallPurge
  <2>. QED  BY <1>k, <1>t DEF Begin, TypeOK
<1>b. CASE \E p \in Procs : RunStep(p)
  <2>. SUFFICES ASSUME NEW p \in Procs, RunStep(p) PROVE Opened(Job(q), RunId(q))'
    BY <1>b
  <2>j. Job(p) \in Jobs /\ call[p].run \in RunRecord
    BY <1>t DEF TypeOK, Calls, Job
  <2>1. CASE AppendRunning(p)
    <3>1. CASE p = q
      <4>1. call[p].run.status = "running" /\ call'[p].run = call[p].run /\ Job(p)' = Job(p)
        BY <2>1, <1>t DEF LockInv, FlowInv, OpenCall, AppendRunning, Goto, TypeOK, Calls, Job
      <4>2. history'[Job(p)] = Append(history[Job(p)], call[p].run)
        BY <2>1, <2>j, <1>t DEF AppendRunning, AppendRun, TypeOK
      <4>3. history[Job(p)] \in Seq(RunRecord)
        BY <2>j, <1>t DEF TypeOK
      <4>4. history'[Job(p)][Len(history[Job(p)]) + 1] = call[p].run
            /\ Len(history[Job(p)]) + 1 \in DOMAIN history'[Job(p)]
        BY <4>2, <4>3, <2>j
      <4>. QED  BY <3>1, <4>1, <4>4 DEF Opened, RunId
    <3>2. CASE p # q
      BY <2>1, <3>2, <2>j, <1>l, <1>t DEF AppendRunning, Goto, TypeOK
    <3>. QED  BY <3>1, <3>2
  <2>2. CASE AppendTerminal(p)
    BY <2>2, <2>j, <1>l, <1>t DEF AppendTerminal, Goto, TypeOK
  <2>3. CASE RemoveHistory(p)
    <3>1. pc[q] = "execute" /\ call'[q] = call[q] /\ purged \subseteq purged' /\ Job(q) # Job(p)
      BY <2>3, <1>t DEF RemoveHistory, Goto, TypeOK, Job
    <3>2. history'[Job(q)] = history[Job(q)]
      BY <2>3, <3>1, <1>j, <1>t DEF RemoveHistory, TypeOK
    <3>. QED  BY <3>1, <3>2, <1>q DEF Opened, Job, RunId
  <2>4. CASE TryLockRun(p) \/ RetryLockRun(p) \/ CheckLimits(p)
    BY <2>4, <1>k, <1>t
    DEF TryLockRun, RetryLockRun, CheckLimits, Acquire, Refuse, Goto, TypeOK
  <2>5. CASE SaveClaim(p) \/ SaveOutcome(p) \/ SaveMark(p) \/ SavePurged(p)
    BY <2>5, <1>k, <1>t DEF SaveClaim, SaveOutcome, SaveMark, SavePurged, SaveState, Goto, TypeOK
  <2>6. CASE Execute(p) \/ Return(p)
    BY <2>6, <1>k, <1>t DEF Execute, Return, Goto, TypeOK
  <2>7. CASE LoadForOutcome(p) \/ LoadForMark(p) \/ LoadForPurge(p) \/ RemoveRunLock(p)
    BY <2>7, <1>k, <1>t DEF LoadForOutcome, LoadForMark, LoadForPurge, RemoveRunLock, Goto, TypeOK
  <2>. QED
    BY <2>1, <2>2, <2>3, <2>4, <2>5, <2>6, <2>7 DEF RunStep
<1>c. CASE (\E p \in Procs : IOError(p) \/ KillExternal(p)) \/ KillDaemon
  BY <1>c, <1>k, <1>t DEF IOError, KillExternal, KillDaemon, Die, TypeOK
<1>d. CASE \E x \in orphans : CloseOrphan(x[1], x[2])
  <2>. SUFFICES ASSUME NEW x \in orphans, CloseOrphan(x[1], x[2])
                PROVE Opened(Job(q), RunId(q))'
    BY <1>d
  <2>1. x[1] \in Jobs /\ Died(x[2]) \in RunRecord
    BY <1>t DEF TypeOK, Died, RunRecord, Statuses, Reasons
  <2>. QED  BY <2>1, <1>l DEF CloseOrphan
<1>e. CASE \/ StartDaemon \/ Serve \/ Midnight \/ \E j \in Jobs : ReadOrphans(j)
           \/ \E x \in orphans : LeaveOrphan(x[1], x[2])
           \/ UNCHANGED vars
  BY <1>e, <1>k DEF StartDaemon, Serve, Midnight, ReadOrphans, LeaveOrphan, vars
<1>. QED
  BY <1>a, <1>b, <1>c, <1>d, <1>e DEF Next

\* For any flows and jobs: a payload that is executing has its "running" line in the history.
THEOREM RunningRecorded == Spec => []RunningOnDisk
<1>1. Init => RecordInv
  BY LockInit DEF Init, RecordInv, RunningOnDisk
<1>2. RecordInv => RunningOnDisk
  BY DEF RecordInv
<1>. QED
  BY <1>1, <1>2, RecordNext, PTL DEF Spec

-----------------------------------------------------------------------------
(***************************************************************************)
(* What a flow writes.  The terminal line of a run that started carries an *)
(* outcome, that of a refused call never says "running", and every line is *)
(* about an instant a caller passed.                                       *)
(***************************************************************************)
FlowRun(p) ==
  /\ pc[p] = "execute" => call[p].started
  /\ pc[p] = "finish" =>
       call[p].run.status \in IF call[p].started THEN Outcomes ELSE {"skipped", "failure"}
  /\ pc[p] \in {"lock", "relock", "limits", "claim", "open", "execute", "finish"} =>
       RunId(p) \in Ids
LinesInv ==
  /\ \A j \in Jobs : \A k \in DOMAIN history[j] : history[j][k].id \in Ids
  /\ \A x \in orphans : x[2].id \in Ids
  /\ \A x, y \in orphans : x[2].id = y[2].id => x = y
RunInv == LockInv /\ (\A p \in Procs : FlowRun(p)) /\ LinesInv

LEMMA RunInit == Init => RunInv
<1>. SUFFICES ASSUME Init PROVE RunInv
  OBVIOUS
<1>1. LockInv
  BY LockInit
<1>2. \A p \in Procs : FlowRun(p)
  BY DEF Init, FlowRun
<1>3. LinesInv
  BY DEF Init, LinesInv
<1>. QED  BY <1>1, <1>2, <1>3 DEF RunInv

LEMMA FlowRunNext ==
  ASSUME RunInv, [Next]_vars, NEW q \in Procs
  PROVE  FlowRun(q)'
<1>. USE DEF FlowRun, RunId
<1>t. TypeOK /\ TypeOK' /\ FlowRun(q) /\ FlowInv(q) /\ FlowInv(q)'
  BY LockNext DEF RunInv, LockInv
<1>k. ASSUME call'[q] = call[q],
             pc'[q] = pc[q] \/ pc'[q] \notin {"lock", "relock", "limits", "claim", "open", "execute", "finish"}
      PROVE FlowRun(q)'
  BY <1>k, <1>t
<1>a. CASE \E p \in Procs : Callers(p)
  <2>. SUFFICES ASSUME NEW p \in Procs, Callers(p) PROVE FlowRun(q)'
    BY <1>a
  <2>1. ASSUME NEW c, NEW at \in {"lock", "finish", "forget"}, Begin(p, c, at), ~c.started,
               at \in {"lock", "finish"} => c.run.id \in Ids,
               at = "finish" => c.run.status = "skipped"
        PROVE FlowRun(q)'
    BY <2>1, <1>t DEF Begin, TypeOK
  <2>2. ASSUME NEW j \in Jobs, NEW t \in Instants, NEW m \in BOOLEAN, CallRunOnce(p, j, t, m)
        PROVE FlowRun(q)'
    <3>1. Begin(p, NewCall("run", j, NewRun(t, m, "running")), "lock")
      BY <2>2 DEF CallRunOnce
    <3>2. ~NewCall("run", j, NewRun(t, m, "running")).started
          /\ NewCall("run", j, NewRun(t, m, "running")).run.id \in Ids
      BY DEF NewCall, NewRun, Ids
    <3>. QED  BY <2>1, <3>1, <3>2
  <2>3. ASSUME NEW j \in Jobs, NEW t \in Instants, CallRecordSkip(p, j, t) PROVE FlowRun(q)'
    <3>1. Begin(p, NewCall("skip", j, NewRun(t, FALSE, "skipped")), "finish")
      BY <2>3 DEF CallRecordSkip
    <3>2. ~NewCall("skip", j, NewRun(t, FALSE, "skipped")).started
          /\ NewCall("skip", j, NewRun(t, FALSE, "skipped")).run.id \in Ids
          /\ NewCall("skip", j, NewRun(t, FALSE, "skipped")).run.status = "skipped"
      BY DEF NewCall, NewRun, Ids
    <3>. QED  BY <2>1, <3>1, <3>2
  <2>4. ASSUME NEW j \in Jobs, CallPurge(p, j) PROVE FlowRun(q)'
    <3>1. Begin(p, NewCall("purge", j, NewRun(0, FALSE, "skipped")), "forget")
      BY <2>4 DEF CallPurge
    <3>2. ~NewCall("purge", j, NewRun(0, FALSE, "skipped")).started
      BY DEF NewCall
    <3>. QED  BY <2>1, <3>1, <3>2
  <2>. QED  BY <2>2, <2>3, <2>4 DEF Callers
<1>b. CASE \E p \in Procs : RunStep(p)
  <2>. SUFFICES ASSUME NEW p \in Procs, RunStep(p) PROVE FlowRun(q)'
    BY <1>b
  <2>c. call[p] \in Calls /\ call[p].run \in RunRecord
    BY <1>t DEF TypeOK, Calls
  <2>s. call[p].started => pc[p] \in {"execute", "finish", "account", "save", "return"}
    BY DEF RunInv, LockInv, FlowInv, Stands
  <2>p. FlowRun(p)
    BY DEF RunInv
  <2>r. ASSUME NEW from \in {"lock", "relock", "limits"}, NEW reason, Refuse(p, from, reason)
        PROVE FlowRun(q)'
    <3>1. /\ \A r \in Procs \ {p} : call'[r] = call[r] /\ pc'[r] = pc[r]
          /\ call'[p].run.status = "skipped" /\ call'[p].run.id = call[p].run.id
          /\ call'[p].started = call[p].started /\ pc[p] = from /\ pc'[p] = "finish"
      BY <2>r, <1>t, <2>c DEF Refuse, Goto, TypeOK, Calls, RunRecord
    <3>. QED  BY <3>1, <1>t, <2>s, <2>p
  <2>g. ASSUME NEW from \in {"lock", "relock"}, Acquire(p, from) PROVE FlowRun(q)'
    BY <2>g, <1>t, <2>p DEF Acquire, Goto, TypeOK
  <2>1. CASE TryLockRun(p)
    <3>1. CASE Goto(p, "lock", "relock") /\ UNCHANGED call
      BY <3>1, <1>t, <2>p DEF Goto, TypeOK
    <3>. QED  BY <2>1, <3>1, <2>r, <2>g DEF TryLockRun
  <2>2. CASE RetryLockRun(p)
    BY <2>2, <2>r, <2>g DEF RetryLockRun
  <2>3. CASE CheckLimits(p)
    <3>1. CASE Refuse(p, "limits", "limit_exceeded")
      BY <3>1, <2>r
    <3>2. CASE /\ Goto(p, "limits", "finish")
               /\ call' = [call EXCEPT ![p].run.status = "failure",
                                       ![p].run.reason = "cwd_missing"]
      BY <3>2, <1>t, <2>c, <2>s, <2>p DEF Goto, TypeOK, Calls, RunRecord
    <3>3. CASE Goto(p, "limits", "claim") /\ call' = [call EXCEPT ![p].run.day = day]
      BY <3>3, <1>t, <2>c, <2>s, <2>p DEF Goto, TypeOK, Calls, RunRecord
    <3>. QED  BY <2>3, <3>1, <3>2, <3>3 DEF CheckLimits
  <2>4. CASE SaveClaim(p)
    BY <2>4, <1>t, <2>p DEF SaveClaim, SaveState, Goto, TypeOK
  <2>5. CASE AppendRunning(p)
    BY <2>5, <1>t, <2>c, <2>p DEF AppendRunning, Goto, TypeOK, Calls
  <2>6. CASE Execute(p)
    BY <2>6, <1>t, <2>c, <2>p DEF Execute, Goto, TypeOK, Calls, RunRecord
  <2>7. CASE AppendTerminal(p) \/ LoadForOutcome(p) \/ LoadForMark(p) \/ LoadForPurge(p)
    BY <2>7, <1>k, <1>t DEF AppendTerminal, LoadForOutcome, LoadForMark, LoadForPurge, Goto, TypeOK
  <2>8. CASE SaveOutcome(p) \/ SaveMark(p) \/ SavePurged(p)
    BY <2>8, <1>k, <1>t DEF SaveOutcome, SaveMark, SavePurged, SaveState, Goto, TypeOK
  <2>9. CASE Return(p)
    BY <2>9, <1>t DEF Return, Goto, TypeOK
  <2>10. CASE RemoveHistory(p) \/ RemoveRunLock(p)
    BY <2>10, <1>k, <1>t DEF RemoveHistory, RemoveRunLock, Goto, TypeOK
  <2>. QED
    BY <2>1, <2>2, <2>3, <2>4, <2>5, <2>6, <2>7, <2>8, <2>9, <2>10 DEF RunStep
<1>c. ASSUME NEW ps \in SUBSET Procs, Die(ps) PROVE FlowRun(q)'
  BY <1>c, <1>t DEF Die
<1>d. CASE \E p \in Procs : IOError(p)
  BY <1>d, <1>k, <1>t DEF IOError, TypeOK
<1>e. CASE (\E p \in Procs : KillExternal(p)) \/ KillDaemon
  BY <1>e, <1>c DEF KillExternal, KillDaemon
<1>f. CASE \/ StartDaemon \/ Serve \/ Midnight \/ \E j \in Jobs : ReadOrphans(j)
           \/ \E x \in orphans : CloseOrphan(x[1], x[2]) \/ LeaveOrphan(x[1], x[2])
           \/ UNCHANGED vars
  BY <1>f, <1>t DEF StartDaemon, Serve, Midnight, ReadOrphans, CloseOrphan, LeaveOrphan, vars
<1>. QED
  BY <1>a, <1>b, <1>d, <1>e, <1>f DEF Next
-----------------------------------------------------------------------------
(***************************************************************************)
(* What a step is to a reader of the history.  Everything the proofs below *)
(* need of the sixteen steps of a call, its faults and the daemon's start  *)
(* is one of eight kinds of step.                                          *)
(***************************************************************************)
Writes(p) == /\ AppendRun(Job(p), call[p].run)
             /\ Job(p) \in Jobs /\ call[p].run \in RunRecord /\ RunId(p) \in Ids
             /\ UNCHANGED <<orphans, purged, abandoned>>

Quiet     == UNCHANGED <<history, orphans, purged, abandoned, Doing>>
Starts(p) == /\ Writes(p) /\ pc[p] = "open" /\ ~InFlight(p)
             /\ call[p].run.status = "running"
             /\ Doing' = [Doing EXCEPT ![p] = <<Job(p), RunId(p)>>]
Ends(p)   == /\ Writes(p) /\ InFlight(p) /\ call[p].run.status \in Outcomes
             /\ Doing' = [Doing EXCEPT ![p] = <<>>]
Refuses(p) == /\ Writes(p) /\ ~InFlight(p) /\ call[p].run.status \in {"skipped", "failure"}
              /\ UNCHANGED Doing
Stops(ps) == /\ Doing' = [p \in Procs |-> IF p \in ps THEN <<>> ELSE Doing[p]]
             /\ orphans' \in {orphans, {}} /\ abandoned' = Abandon(ps)
             /\ UNCHANGED <<history, purged>>
Scans(j)  == ReadOrphans(j) /\ UNCHANGED Doing
Closes(x) == (CloseOrphan(x[1], x[2]) \/ LeaveOrphan(x[1], x[2])) /\ UNCHANGED Doing
Forgets(p) == /\ history' = [history EXCEPT ![Job(p)] = <<>>] /\ Job(p) \in Jobs
              /\ purged' = purged \cup {Job(p)}
              /\ UNCHANGED <<orphans, abandoned, Doing>>

LEMMA StepKinds ==
  ASSUME RunInv, [Next]_vars
  PROVE  \/ Quiet
         \/ \E p \in Procs : Starts(p) \/ Ends(p) \/ Refuses(p) \/ Forgets(p)
         \/ \E ps \in SUBSET Procs : Stops(ps)
         \/ \E j \in Jobs : Scans(j)
         \/ \E x \in orphans : Closes(x)
<1>t. TypeOK
  BY DEF RunInv, LockInv
<1>s. \A p \in Procs : 
        call[p].started => pc[p] \in {"execute", "finish", "account", "save", "return"}
  BY DEF RunInv, LockInv, FlowInv, Stands
<1>k. ASSUME UNCHANGED <<pc, call>> PROVE UNCHANGED Doing
  BY <1>k DEF Doing, InFlight, Job, RunId
\* A flow that executes nothing before and after its step.
<1>i. ASSUME NEW p \in Procs, ~InFlight(p), ~InFlight(p)',
             \A r \in Procs \ {p} : pc'[r] = pc[r] /\ call'[r] = call[r]
      PROVE UNCHANGED Doing
  <2>1. \A r \in Procs : (IF InFlight(r) THEN <<Job(r), RunId(r)>> ELSE <<>>)'
                           = IF InFlight(r) THEN <<Job(r), RunId(r)>> ELSE <<>>
    BY <1>i DEF InFlight, Job, RunId
  <2>. QED  BY <2>1 DEF Doing
<1>a. CASE \E p \in Procs : Callers(p)
  <2>. SUFFICES ASSUME NEW p \in Procs, NEW c, NEW at \in {"lock", "finish", "forget"},
                       Begin(p, c, at), ~c.started
                PROVE Quiet
    <3>1. \A op, j, r : ~NewCall(op, j, r).started
      BY DEF NewCall
    <3>. QED  BY <1>a, <3>1 DEF Callers, CallRunOnce, CallRecordSkip, CallPurge
  <2>1. /\ ~InFlight(p) /\ ~InFlight(p)' 
        /\ \A r \in Procs \ {p} : pc'[r] = pc[r] /\ call'[r] = call[r]
    BY <1>t, <1>s DEF Begin, InFlight, TypeOK
  <2>. QED  BY <2>1, <1>i DEF Begin, Quiet
<1>b. CASE \E p \in Procs : RunStep(p)
  <2>. SUFFICES ASSUME NEW p \in Procs, RunStep(p)
                PROVE  Quiet \/ Starts(p) \/ Ends(p) \/ Refuses(p) \/ Forgets(p)
    BY <1>b
  <2>c. call[p] \in Calls /\ call[p].run \in RunRecord /\ Job(p) \in Jobs
        /\ FlowRun(p) /\ FlowInv(p) /\ call[p].started \in BOOLEAN
    BY <1>t DEF TypeOK, Calls, Job, RunInv, LockInv
  <2>q. ASSUME UNCHANGED <<history, orphans, purged, abandoned>>,
               pc[p] \notin {"execute", "finish"},
               pc'[p] \notin {"execute", "finish"} \/ ~call'[p].started,
               \A r \in Procs \ {p} : pc'[r] = pc[r] /\ call'[r] = call[r]
        PROVE Quiet
    BY <2>q, <1>i DEF Quiet, InFlight
  <2>w. ASSUME AppendRun(Job(p), call[p].run), UNCHANGED <<orphans, purged, abandoned>>,
               pc[p] \in {"open", "finish"}
        PROVE Writes(p)
    BY <2>w, <2>c DEF Writes, FlowRun
  <2>r. ASSUME NEW from \in {"lock", "relock", "limits"}, NEW reason, Refuse(p, from, reason),
               UNCHANGED <<history, orphans, purged, abandoned>>
        PROVE Quiet
    <3>1. /\ \A r \in Procs \ {p} : call'[r] = call[r] /\ pc'[r] = pc[r]
          /\ call'[p].started = call[p].started /\ pc[p] = from
      BY <2>r, <1>t, <2>c DEF Refuse, Goto, TypeOK, Calls
    <3>. QED  BY <2>q, <2>r, <3>1, <1>s
  <2>g. ASSUME NEW from \in {"lock", "relock"}, Acquire(p, from),
               UNCHANGED <<history, orphans, purged, abandoned>>
        PROVE Quiet
    <3>1. /\ \A r \in Procs \ {p} : call'[r] = call[r] /\ pc'[r] = pc[r]
          /\ pc[p] = from /\ pc'[p] = "limits"
      BY <2>g, <1>t DEF Acquire, Goto, TypeOK
    <3>. QED  BY <2>q, <2>g, <3>1
  <2>1. CASE TryLockRun(p)
    <3>1. CASE Goto(p, "lock", "relock") /\ UNCHANGED call
      <4>1. /\ \A r \in Procs \ {p} : call'[r] = call[r] /\ pc'[r] = pc[r]
            /\ pc[p] = "lock" /\ pc'[p] = "relock"
        BY <3>1, <1>t DEF Goto, TypeOK
      <4>. QED  BY <2>1, <2>q, <4>1 DEF TryLockRun
    <3>. QED  BY <2>1, <3>1, <2>r, <2>g DEF TryLockRun
  <2>2. CASE RetryLockRun(p)
    BY <2>2, <2>r, <2>g DEF RetryLockRun
  <2>3. CASE CheckLimits(p)
    <3>1. CASE Refuse(p, "limits", "limit_exceeded")
      BY <2>3, <3>1, <2>r DEF CheckLimits
    <3>2. CASE /\ Goto(p, "limits", "finish")
               /\ call' = [call EXCEPT ![p].run.status = "failure",
                                       ![p].run.reason = "cwd_missing"]
      <4>1. /\ \A r \in Procs \ {p} : call'[r] = call[r] /\ pc'[r] = pc[r]
            /\ call'[p].started = call[p].started /\ pc[p] = "limits"
        BY <3>2, <1>t, <2>c DEF Goto, TypeOK, Calls
      <4>. QED  BY <2>3, <2>q, <4>1, <1>s DEF CheckLimits
    <3>3. CASE Goto(p, "limits", "claim") /\ call' = [call EXCEPT ![p].run.day = day]
      <4>1. /\ \A r \in Procs \ {p} : call'[r] = call[r] /\ pc'[r] = pc[r]
            /\ pc[p] = "limits" /\ pc'[p] = "claim"
        BY <3>3, <1>t, <2>c DEF Goto, TypeOK, Calls
      <4>. QED  BY <2>3, <2>q, <4>1 DEF CheckLimits
    <3>. QED  BY <2>3, <3>1, <3>2, <3>3 DEF CheckLimits
  <2>4. CASE SaveClaim(p)
    BY <2>4, <2>q, <1>t DEF SaveClaim, SaveState, Goto, TypeOK
  <2>5. CASE AppendRunning(p)
    <3>1. Writes(p) /\ pc[p] = "open" /\ ~InFlight(p) /\ call[p].run.status = "running"
      BY <2>5, <2>c, <2>w DEF AppendRunning, Goto, InFlight, FlowInv, OpenCall
    <3>2. /\ \A r \in Procs \ {p} : call'[r] = call[r] /\ pc'[r] = pc[r]
          /\ call'[p].started /\ pc'[p] = "execute" /\ Job(p)' = Job(p) /\ RunId(p)' = RunId(p)
      BY <2>5, <1>t, <2>c DEF AppendRunning, Goto, TypeOK, Calls, Job, RunId
    <3>3. \A r \in Procs : (IF InFlight(r) THEN <<Job(r), RunId(r)>> ELSE <<>>)'
                     = IF r = p THEN <<Job(p), RunId(p)>> ELSE Doing[r]
      BY <3>2 DEF Doing, InFlight, Job, RunId
    <3>4. Doing' = [Doing EXCEPT ![p] = <<Job(p), RunId(p)>>]
      BY <3>3 DEF Doing
    <3>. QED  BY <3>1, <3>4 DEF Starts
  <2>6. CASE Execute(p)
    <3>1. /\ \A r \in Procs \ {p} : call'[r] = call[r] /\ pc'[r] = pc[r]
          /\ call'[p].started = call[p].started /\ pc'[p] = "finish" /\ pc[p] = "execute"
          /\ Job(p)' = Job(p) /\ RunId(p)' = RunId(p)
      BY <2>6, <1>t, <2>c DEF Execute, Goto, TypeOK, Calls, RunRecord, Job, RunId
    <3>2. \A r \in Procs : (IF InFlight(r) THEN <<Job(r), RunId(r)>> ELSE <<>>)'
                           = IF InFlight(r) THEN <<Job(r), RunId(r)>> ELSE <<>>
      BY <3>1 DEF InFlight, Job, RunId
    <3>. QED  BY <2>6, <3>2 DEF Execute, Doing, Quiet
  <2>7. CASE AppendTerminal(p)
    <3>1. Writes(p) /\ pc[p] = "finish" /\ UNCHANGED call /\ pc'[p] = "account"
          /\ \A r \in Procs \ {p} : call'[r] = call[r] /\ pc'[r] = pc[r]
      BY <2>7, <1>t, <2>w DEF AppendTerminal, Goto, TypeOK
    <3>2. CASE InFlight(p)
      <4>1. \A r \in Procs : (IF InFlight(r) THEN <<Job(r), RunId(r)>> ELSE <<>>)'
                               = IF r = p THEN <<>> ELSE Doing[r]
        BY <3>1 DEF Doing, InFlight, Job, RunId
      <4>2. Doing' = [Doing EXCEPT ![p] = <<>>]
        BY <4>1 DEF Doing
      <4>3. call[p].run.status \in Outcomes
        BY <3>1, <3>2, <2>c DEF FlowRun, InFlight
      <4>. QED  BY <3>1, <3>2, <4>2, <4>3 DEF Ends
    <3>3. CASE ~InFlight(p)
      <4>1. UNCHANGED Doing
        BY <3>1, <3>3, <1>i DEF InFlight
      <4>2. call[p].run.status \in {"skipped", "failure"}
        BY <3>1, <3>3, <2>c DEF FlowRun, InFlight
      <4>. QED  BY <3>1, <3>3, <4>1, <4>2 DEF Refuses
    <3>. QED  BY <3>2, <3>3
  <2>8. CASE LoadForOutcome(p) \/ LoadForMark(p) \/ LoadForPurge(p) \/ RemoveRunLock(p)
    BY <2>8, <2>q, <1>t
    DEF LoadForOutcome, LoadForMark, LoadForPurge, RemoveRunLock, Goto, TypeOK
  <2>9. CASE SaveOutcome(p) \/ SaveMark(p) \/ SavePurged(p)
    BY <2>9, <2>q, <1>t DEF SaveOutcome, SaveMark, SavePurged, SaveState, Goto, TypeOK
  <2>10. CASE Return(p)
    BY <2>10, <2>q, <1>t DEF Return, Goto, TypeOK
  <2>11. CASE RemoveHistory(p)
    <3>1. ~InFlight(p) /\ ~InFlight(p)'
          /\ \A r \in Procs \ {p} : call'[r] = call[r] /\ pc'[r] = pc[r]
      BY <2>11, <1>t DEF RemoveHistory, Goto, TypeOK, InFlight
    <3>. QED  BY <2>11, <3>1, <1>i, <2>c DEF RemoveHistory, Forgets
  <2>. QED
    BY <2>1, <2>2, <2>3, <2>4, <2>5, <2>6, <2>7, <2>8, <2>9, <2>10, <2>11 DEF RunStep
<1>c. ASSUME NEW ps \in SUBSET Procs, Die(ps), orphans' \in {orphans, {}} PROVE Stops(ps)
  <2>1. \A r \in Procs : (IF InFlight(r) THEN <<Job(r), RunId(r)>> ELSE <<>>)'
                           = IF r \in ps THEN <<>> ELSE Doing[r]
    BY <1>c, NoCallType DEF Die, Doing, InFlight, Job, RunId
  <2>2. Doing' = [p \in Procs |-> IF p \in ps THEN <<>> ELSE Doing[p]]
    BY <2>1 DEF Doing
  <2>. QED  BY <1>c, <2>2 DEF Die, Stops
<1>d. ASSUME NEW p \in Procs, IOError(p) PROVE Stops({p})
  <2>1. \A r \in Procs : (IF InFlight(r) THEN <<Job(r), RunId(r)>> ELSE <<>>)'
                           = IF r \in {p} THEN <<>> ELSE Doing[r]
    BY <1>d, <1>t DEF IOError, Doing, InFlight, Job, RunId, TypeOK
  <2>2. Doing' = [r \in Procs |-> IF r \in {p} THEN <<>> ELSE Doing[r]]
    BY <2>1 DEF Doing
  <2>. QED  BY <1>d, <2>2 DEF IOError, Stops
<1>e. CASE (\E p \in Procs : KillExternal(p)) \/ KillDaemon
  BY <1>e, <1>c DEF KillExternal, KillDaemon
<1>f. CASE StartDaemon \/ Serve \/ Midnight \/ UNCHANGED vars
  BY <1>f, <1>k DEF StartDaemon, Serve, Midnight, vars, Quiet
<1>g. CASE \E j \in Jobs : ReadOrphans(j)
  BY <1>g, <1>k DEF ReadOrphans, Scans
<1>h. CASE \E x \in orphans : CloseOrphan(x[1], x[2]) \/ LeaveOrphan(x[1], x[2])
  BY <1>h, <1>k DEF CloseOrphan, LeaveOrphan, Closes
<1>. QED
  BY <1>a, <1>b, <1>d, <1>e, <1>f, <1>g, <1>h DEF Next
\* A line appended to one history leaves the others, and their readers, alone.
LEMMA Appended ==
  ASSUME TypeOK, NEW i \in Jobs, NEW r \in RunRecord, AppendRun(i, r)
  PROVE  /\ history' = [history EXCEPT ![i] = Append(@, r)]
         /\ \A j \in Jobs : history[j] \in Seq(RunRecord)
         /\ \A j \in Jobs : \A k \in DOMAIN history'[j] :
              \/ k \in DOMAIN history[j] /\ history'[j][k] = history[j][k]
              \/ j = i /\ history'[j][k] = r
         /\ \A j \in Jobs : \A id : StatusSeen(history'[j], id) =
              IF j = i /\ id = r.id THEN r.status ELSE StatusSeen(history[j], id)
<1>1. /\ history' = [history EXCEPT ![i] = Append(@, r)]
      /\ history'[i] = Append(history[i], r)
      /\ \A j \in Jobs \ {i} : history'[j] = history[j]
      /\ \A j \in Jobs : history[j] \in Seq(RunRecord)
  BY DEF AppendRun, TypeOK
<1>2. ASSUME NEW k \in DOMAIN history'[i]
      PROVE  \/ k \in DOMAIN history[i] /\ history'[i][k] = history[i][k]
             \/ history'[i][k] = r
  BY <1>1, <1>2
<1>3. \A id : StatusSeen(history'[i], id) =
                IF id = r.id THEN r.status ELSE StatusSeen(history[i], id)
  <2>. SUFFICES ASSUME NEW id
                PROVE  StatusSeen(Append(history[i], r), id) =
                         IF id = r.id THEN r.status ELSE StatusSeen(history[i], id)
    BY <1>1
  <2>1. history[i] \in Seq(RunRecord)
    BY <1>1
  <2>. QED  BY <2>1, SeenAfter
<1>4. \A j \in Jobs : \A k \in DOMAIN history'[j] :
        \/ k \in DOMAIN history[j] /\ history'[j][k] = history[j][k]
        \/ j = i /\ history'[j][k] = r
  BY <1>1, <1>2
<1>5. \A j \in Jobs : \A id : StatusSeen(history'[j], id) =
        IF j = i /\ id = r.id THEN r.status ELSE StatusSeen(history[j], id)
  BY <1>1, <1>3
<1>. QED  BY <1>1, <1>4, <1>5

LEMMA LinesNext == RunInv /\ [Next]_vars => LinesInv'
<1>. SUFFICES ASSUME RunInv, [Next]_vars PROVE LinesInv'
  OBVIOUS
<1>t. TypeOK /\ LinesInv
  BY DEF RunInv, LockInv
<1>h. ASSUME NEW i \in Jobs, NEW r \in RunRecord, AppendRun(i, r), r.id \in Ids
      PROVE \A j \in Jobs : \A k \in DOMAIN history'[j] : history'[j][k].id \in Ids
  BY <1>h, <1>t, Appended DEF LinesInv
<1>1. CASE Quiet
  BY <1>1, <1>t DEF Quiet, LinesInv
<1>2. CASE \E p \in Procs : Starts(p) \/ Ends(p) \/ Refuses(p)
  BY <1>2, <1>h, <1>t DEF Starts, Ends, Refuses, Writes, RunId, LinesInv
<1>3. CASE \E p \in Procs : Forgets(p)
  <2>1. \A j \in Jobs : \A k \in DOMAIN history'[j] : history'[j][k].id \in Ids
    BY <1>3, <1>t DEF Forgets, LinesInv, TypeOK
  <2>. QED  BY <1>3, <1>t, <2>1 DEF Forgets, LinesInv
<1>4. CASE \E ps \in SUBSET Procs : Stops(ps)
  BY <1>4, <1>t DEF Stops, LinesInv
<1>5. CASE \E j \in Jobs : Scans(j)
  <2>. SUFFICES ASSUME NEW j \in Jobs, Scans(j) PROVE LinesInv'
    BY <1>5
  <2>1. history[j] \in Seq(RunRecord)
    BY <1>t DEF TypeOK
  <2>2. \A r \in OpenRuns(history[j]) : r = history[j][LastOf(history[j], r.id)]
    BY <2>1, OpenIsSeen
  <2>3. \A r \in OpenRuns(history[j]) : r.id \in Ids
    <3>. SUFFICES ASSUME NEW r \in OpenRuns(history[j]) PROVE r.id \in Ids
      OBVIOUS
    <3>1. PICK k \in DOMAIN history[j] : r = history[j][LastOf(history[j], history[j][k].id)]
      BY DEF OpenRuns, Runs
    <3>2. LastOf(history[j], history[j][k].id) \in DOMAIN history[j]
      BY <2>1, LastOfLine
    <3>. QED  BY <3>1, <3>2, <1>t DEF LinesInv
  <2>4. orphans' = {<<j, r>> : r \in OpenRuns(history[j])} /\ UNCHANGED history
    BY DEF Scans, ReadOrphans
  <2>. QED  BY <2>2, <2>3, <2>4, <1>t DEF LinesInv
<1>6. CASE \E x \in orphans : Closes(x)
  <2>. SUFFICES ASSUME NEW x \in orphans, Closes(x) PROVE LinesInv'
    BY <1>6
  <2>1. x[1] \in Jobs /\ Died(x[2]) \in RunRecord /\ Died(x[2]).id = x[2].id /\ x[2].id \in Ids
    BY <1>t DEF TypeOK, Died, RunRecord, Statuses, Reasons, LinesInv
  <2>2. \A j \in Jobs : \A k \in DOMAIN history'[j] : history'[j][k].id \in Ids
    <3>1. CASE CloseOrphan(x[1], x[2])
      BY <3>1, <2>1, <1>h DEF CloseOrphan
    <3>2. CASE LeaveOrphan(x[1], x[2])
      BY <3>2, <1>t DEF LeaveOrphan, LinesInv
    <3>. QED  BY <3>1, <3>2 DEF Closes
  <2>3. orphans' \subseteq orphans
    BY DEF Closes, CloseOrphan, LeaveOrphan
  <2>. QED  BY <2>2, <2>3, <1>t DEF LinesInv
<1>. QED  BY <1>1, <1>2, <1>3, <1>4, <1>5, <1>6, StepKinds

LEMMA RunNext == RunInv /\ [Next]_vars => RunInv'
<1>. SUFFICES ASSUME RunInv, [Next]_vars PROVE RunInv'
  OBVIOUS
<1>1. LockInv'
  BY LockNext DEF RunInv
<1>2. \A p \in Procs : FlowRun(p)'
  BY FlowRunNext
<1>3. LinesInv'
  BY LinesNext
<1>. QED  BY <1>1, <1>2, <1>3 DEF RunInv

-----------------------------------------------------------------------------
(***************************************************************************)
(* No run reads as running for ever.                                       *)
(***************************************************************************)
Owned(j, id) == \/ \E p \in Procs : Doing[p] = <<j, id>>
                \/ <<j, id>> \in abandoned
GhostInv == /\ RunInv
            /\ \A j \in Jobs, id \in Ids : Seen[j][id] = "running" => Owned(j, id)

LEMMA GhostNext == GhostInv /\ [Next]_vars => GhostInv'
<1>. SUFFICES ASSUME GhostInv, [Next]_vars PROVE GhostInv'
  OBVIOUS
<1>t. RunInv /\ RunInv' /\ TypeOK
  BY RunNext DEF GhostInv, RunInv, LockInv
<1>. SUFFICES ASSUME NEW j \in Jobs, NEW id \in Ids, StatusSeen(history'[j], id) = "running"
              PROVE  Owned(j, id)'
  BY <1>t DEF GhostInv, Seen
<1>g. StatusSeen(history[j], id) = "running" => Owned(j, id)
  BY DEF GhostInv, Seen
<1>a. ASSUME NEW i \in Jobs, NEW r \in RunRecord, AppendRun(i, r)
      PROVE  StatusSeen(history'[j], id) =
               IF j = i /\ id = r.id THEN r.status ELSE StatusSeen(history[j], id)
  BY <1>a, <1>t, Appended
<1>p. \A p \in Procs : Doing[p] = IF InFlight(p) THEN <<Job(p), RunId(p)>> ELSE <<>>
  BY DEF Doing
<1>1. CASE Quiet
  BY <1>1, <1>g DEF Quiet, Owned
<1>2. CASE \E p \in Procs : Starts(p) \/ Ends(p) \/ Refuses(p)
  <2>. SUFFICES ASSUME NEW p \in Procs, Starts(p) \/ Ends(p) \/ Refuses(p) PROVE Owned(j, id)'
    BY <1>2
  <2>1. Writes(p) /\ UNCHANGED abandoned
    BY DEF Starts, Ends, Refuses, Writes
  <2>2. StatusSeen(history'[j], id) = IF j = Job(p) /\ id = RunId(p) THEN call[p].run.status
                                      ELSE StatusSeen(history[j], id)
    BY <2>1, <1>a DEF Writes, RunId
  <2>3. CASE Starts(p)
    <3>1. CASE j = Job(p) /\ id = RunId(p)
      BY <2>3, <3>1 DEF Starts, Owned, Doing
    <3>2. CASE ~(j = Job(p) /\ id = RunId(p))
      <4>1. Doing[p] = <<>>
        BY <2>3, <1>p DEF Starts
      <4>. QED  BY <2>3, <3>2, <2>1, <2>2, <1>g, <4>1 DEF Starts, Owned, Doing
    <3>. QED  BY <3>1, <3>2
  <2>4. CASE Ends(p)
    <3>1. "running" \notin Outcomes
      BY OutcomeAssumption
    <3>2. ~(j = Job(p) /\ id = RunId(p)) /\ Owned(j, id)
      BY <2>4, <3>1, <2>2, <1>g DEF Ends
    <3>3. Doing[p] = <<Job(p), RunId(p)>>
      BY <2>4, <1>p DEF Ends
    <3>. QED  BY <2>4, <3>2, <3>3, <2>1 DEF Ends, Owned, Doing
  <2>5. CASE Refuses(p)
    BY <2>5, <2>1, <2>2, <1>g DEF Refuses, Owned
  <2>. QED  BY <2>3, <2>4, <2>5
<1>3. CASE \E p \in Procs : Forgets(p)
  <2>. SUFFICES ASSUME NEW p \in Procs, Forgets(p) PROVE Owned(j, id)'
    BY <1>3
  <2>1. StatusSeen(<<>>, id) # "running"
    BY DEF StatusSeen
  <2>2. history'[j] = history[j]
    BY <2>1, <1>t DEF Forgets, TypeOK
  <2>. QED  BY <2>2, <1>g DEF Forgets, Owned
<1>4. CASE \E ps \in SUBSET Procs : Stops(ps)
  <2>. SUFFICES ASSUME NEW ps \in SUBSET Procs, Stops(ps) PROVE Owned(j, id)'
    BY <1>4
  <2>1. Owned(j, id) /\ abandoned' = Abandon(ps)
    BY <1>g DEF Stops
  <2>2. CASE <<j, id>> \in abandoned
    BY <2>1, <2>2 DEF Owned, Abandon
  <2>3. ASSUME NEW q \in Procs, Doing[q] = <<j, id>> PROVE Owned(j, id)'
    <3>1. CASE q \in ps
      <4>1. <<>> # <<j, id>>
        OBVIOUS
      <4>2. InFlight(q) /\ <<Job(q), RunId(q)>> = <<j, id>>
        BY <2>3, <1>p, <4>1
      <4>3. <<Job(q), RunId(q)>> \in Abandon(ps)
        BY <3>1, <4>2 DEF Abandon
      <4>. QED  BY <2>1, <4>2, <4>3 DEF Owned
    <3>2. CASE q \notin ps
      BY <2>3, <3>2 DEF Stops, Owned
    <3>. QED  BY <3>1, <3>2
  <2>. QED  BY <2>1, <2>2, <2>3 DEF Owned
<1>5. CASE \E i \in Jobs : Scans(i)
  BY <1>5, <1>g DEF Scans, ReadOrphans, Owned
<1>6. CASE \E x \in orphans : Closes(x)
  <2>. SUFFICES ASSUME NEW x \in orphans, Closes(x) PROVE Owned(j, id)'
    BY <1>6
  <2>1. CASE CloseOrphan(x[1], x[2])
    <3>1. x[1] \in Jobs /\ Died(x[2]) \in RunRecord /\ Died(x[2]).id = x[2].id
          /\ Died(x[2]).status = "failure"
      BY <1>t DEF TypeOK, Died, RunRecord, Statuses, Reasons
    <3>2. StatusSeen(history'[j], id) = IF j = x[1] /\ id = x[2].id THEN "failure"
                                        ELSE StatusSeen(history[j], id)
      <4>1. AppendRun(x[1], Died(x[2]))
        BY <2>1 DEF CloseOrphan
      <4>2. StatusSeen(history'[j], id) =
              IF j = x[1] /\ id = Died(x[2]).id THEN Died(x[2]).status
              ELSE StatusSeen(history[j], id)
        BY <3>1, <4>1, <1>a
      <4>. QED  BY <3>1, <4>2
    <3>3. ~(j = x[1] /\ id = x[2].id) /\ Owned(j, id)
      BY <3>2, <1>g
    <3>. QED  BY <2>1, <3>3 DEF CloseOrphan, Closes, Owned
  <2>2. CASE LeaveOrphan(x[1], x[2])
    BY <2>2, <1>g DEF LeaveOrphan, Closes, Owned
  <2>. QED  BY <2>1, <2>2 DEF Closes
<1>. QED  BY <1>1, <1>2, <1>3, <1>4, <1>5, <1>6, <1>t, StepKinds

\* For any jobs, flows and instants: a run that reads as running is in the hands of a live
\* flow that has yet to close it, or was left by one that died or could not write.
THEOREM NoRunLeftRunning == Spec => []NoGhostRunning
<1>1. Init => GhostInv
  <2>. SUFFICES ASSUME Init PROVE GhostInv
    OBVIOUS
  <2>1. \A j \in Jobs, id \in Ids : Seen[j][id] # "running"
    BY DEF Init, Seen, StatusSeen
  <2>. QED  BY <2>1, RunInit DEF GhostInv
<1>2. GhostInv => NoGhostRunning
  <2>. SUFFICES ASSUME GhostInv, NEW j \in Jobs, NEW r \in OpenRuns(history[j])
                PROVE  \/ \E p \in Procs : InFlight(p) /\ Job(p) = j /\ RunId(p) = r.id
                       \/ <<j, r.id>> \in abandoned
    BY DEF NoGhostRunning
  <2>1. history[j] \in Seq(RunRecord) /\ LinesInv
    BY DEF GhostInv, RunInv, LockInv, TypeOK
  <2>2. StatusSeen(history[j], r.id) = "running"
    BY <2>1, OpenIsSeen
  <2>3. r.id \in Ids
    BY <2>1, <2>2, LastOfLine DEF LinesInv, StatusSeen
  <2>4. Owned(j, r.id)
    BY <2>2, <2>3 DEF GhostInv, Seen
  <2>5. <<>> # <<j, r.id>>
    OBVIOUS
  <2>. QED  BY <2>4, <2>5 DEF Owned, Doing
<1>. QED  BY <1>1, <1>2, GhostNext, PTL DEF Spec
-----------------------------------------------------------------------------
(***************************************************************************)
(* RunOnce implements RunLifecycle.  Each kind of step is a step of the    *)
(* life of runs, or leaves all of it unchanged.                            *)
(***************************************************************************)

\* An appended line shows its status to the readers of its run, and nothing else changes.
LEMMA AppendShows ==
  ASSUME TypeOK, NEW i \in Jobs, NEW r \in RunRecord, AppendRun(i, r), r.id \in Ids
  PROVE  Lifecycle!Shows(i, r.id, r.status)
<1>1. \A j \in Jobs : \A k : StatusSeen(history'[j], k) =
        IF j = i /\ k = r.id THEN r.status ELSE StatusSeen(history[j], k)
  BY Appended
<1>2. Seen' = [Seen EXCEPT ![i][r.id] = r.status]
  BY <1>1, Zenon DEF Seen
<1>. QED  BY <1>2 DEF Lifecycle!Shows

\* A run that starts finds no other run of its job in flight, unless its lock was removed.
LEMMA StartsAlone ==
  ASSUME RunInv, NEW p \in Procs, Starts(p)
  PROVE  Job(p) \in purged \/ ~Lifecycle!Busy(Job(p))
<1>. SUFFICES ASSUME Job(p) \notin purged,
                     NEW f \in Procs, Doing[f] # <<>>, Doing[f][1] = Job(p)
              PROVE  FALSE
  BY DEF Lifecycle!Busy
<1>1. InFlight(f) /\ Job(f) = Job(p)
  BY DEF Doing
<1>2. Holding(f) /\ Holding(p)
  BY <1>1 DEF Holding, InFlight, Starts
<1>3. f = p
  BY <1>1, <1>2 DEF RunInv, LockInv, FlowInv, OwnsLock
<1>. QED  BY <1>1, <1>3 DEF Starts

LEMMA RefinementStep ==
  ASSUME RunInv, [Next]_vars
  PROVE  [Lifecycle!Next]_(Lifecycle!vars)
<1>t. TypeOK
  BY DEF RunInv, LockInv
<1>n. ASSUME UNCHANGED orphans PROVE UNCHANGED Noted
  BY <1>n DEF Noted
<1>s. ASSUME UNCHANGED history PROVE UNCHANGED Seen
  BY <1>s DEF Seen
<1>w. ASSUME NEW p \in Procs, Writes(p)
      PROVE  /\ Lifecycle!Shows(Job(p), RunId(p), call[p].run.status)
             /\ UNCHANGED <<Noted, purged>>
  BY <1>w, <1>t, <1>n, AppendShows DEF Writes, RunId
<1>1. CASE Quiet
  BY <1>1, <1>n, <1>s DEF Quiet, Lifecycle!vars
<1>2. ASSUME NEW p \in Procs, Starts(p) PROVE Lifecycle!Next
  <2>1. Doing[p] = <<>> /\ Job(p) \in Jobs /\ RunId(p) \in Ids
    BY <1>2 DEF Starts, Writes, Doing
  <2>2. Lifecycle!Start(p, Job(p), RunId(p))
    BY <1>2, <2>1, <1>w, StartsAlone DEF Starts, Lifecycle!Start
  <2>. QED  BY <2>1, <2>2 DEF Lifecycle!Next
<1>3. ASSUME NEW p \in Procs, Ends(p) PROVE Lifecycle!Next
  <2>1. Doing[p] = <<Job(p), RunId(p)>>
    BY <1>3 DEF Ends, Doing
  <2>2. Doing[p] # <<>> /\ Doing[p][1] = Job(p) /\ Doing[p][2] = RunId(p)
    BY <2>1
  <2>3. Lifecycle!End(p, call[p].run.status)
    BY <1>3, <2>2, <1>w DEF Ends, Lifecycle!End
  <2>. QED  BY <1>3, <2>3 DEF Ends, Lifecycle!Next
<1>4. ASSUME NEW p \in Procs, Refuses(p) PROVE Lifecycle!Next
  <2>1. Doing[p] = <<>> /\ Job(p) \in Jobs /\ RunId(p) \in Ids
    BY <1>4 DEF Refuses, Writes, Doing
  <2>2. Lifecycle!Refuse(Job(p), RunId(p), call[p].run.status)
    BY <1>4, <2>1, <1>w DEF Refuses, Lifecycle!Refuse
  <2>. QED  BY <1>4, <2>1, <2>2 DEF Refuses, Lifecycle!Next, Lifecycle!Refusals
<1>5. ASSUME NEW p \in Procs, Forgets(p) PROVE Lifecycle!Next
  <2>1. \A id : StatusSeen(<<>>, id) = "absent"
    BY DEF StatusSeen
  <2>2. \A j \in Jobs : history'[j] = IF j = Job(p) THEN <<>> ELSE history[j]
    BY <1>5, <1>t DEF Forgets, TypeOK
  <2>3. Seen' = [Seen EXCEPT ![Job(p)] = [id \in Ids |-> "absent"]]
    BY <2>1, <2>2, Zenon DEF Seen
  <2>4. Lifecycle!Forget(Job(p))
    BY <1>5, <2>3, <1>n DEF Forgets, Lifecycle!Forget, Lifecycle!Absent
  <2>. QED  BY <1>5, <2>4 DEF Forgets, Lifecycle!Next
<1>6. ASSUME NEW ps \in SUBSET Procs, Stops(ps) PROVE Lifecycle!Next
  <2>1. Noted' \in {Noted, {}}
    BY <1>6 DEF Stops, Noted
  <2>2. Lifecycle!Stop(ps)
    BY <1>6, <2>1, <1>s DEF Stops, Lifecycle!Stop
  <2>. QED  BY <2>2 DEF Lifecycle!Next
<1>7. ASSUME NEW j \in Jobs, Scans(j) PROVE Lifecycle!Next
  <2>1. history[j] \in Seq(RunRecord) /\ LinesInv
    BY <1>t DEF TypeOK, RunInv
  <2>2. Noted = {} /\ Noted' = {<<j, r.id>> : r \in OpenRuns(history[j])}
    <3>1. orphans = {} /\ orphans' = {<<j, r>> : r \in OpenRuns(history[j])}
      BY <1>7 DEF Scans, ReadOrphans
    <3>2. ASSUME NEW r \in OpenRuns(history[j]) PROVE <<j, r.id>> \in Noted'
      <4>1. <<j, r>> \in orphans' /\ <<j, r>>[1] = j /\ <<j, r>>[2].id = r.id
        BY <3>1
      <4>. QED  BY <4>1 DEF Noted
    <3>3. ASSUME NEW n \in Noted' PROVE \E r \in OpenRuns(history[j]) : n = <<j, r.id>>
      <4>1. PICK x \in orphans' : n = <<x[1], x[2].id>>
        BY <3>3 DEF Noted
      <4>2. PICK r \in OpenRuns(history[j]) : x = <<j, r>>
        BY <3>1, <4>1
      <4>. QED  BY <4>1, <4>2
    <3>4. Noted = {}
      BY <3>1 DEF Noted
    <3>. QED  BY <3>2, <3>3, <3>4
  <2>3. {r.id : r \in OpenRuns(history[j])} = {i \in Ids : Seen[j][i] = "running"}
    <3>1. \A r \in OpenRuns(history[j]) : r.id \in Ids /\ StatusSeen(history[j], r.id) = "running"
      BY <2>1, OpenIsSeen, LastOfLine DEF LinesInv, StatusSeen
    <3>2. \A i \in Ids : StatusSeen(history[j], i) = "running" =>
            \E r \in OpenRuns(history[j]) : r.id = i
      BY <2>1, OpenIsSeen
    <3>. QED  BY <3>1, <3>2 DEF Seen
  <2>4. Noted' = {<<j, i>> : i \in {i \in Ids : Seen[j][i] = "running"}}
    BY <2>2, <2>3
  <2>5. Lifecycle!Note(j)
    BY <1>7, <2>2, <2>4, <1>s DEF Scans, ReadOrphans, Lifecycle!Note
  <2>. QED  BY <2>5 DEF Lifecycle!Next
<1>8. ASSUME NEW x \in orphans, Closes(x) PROVE Lifecycle!Next
  <2>1. /\ x \in Jobs \X RunRecord /\ x = <<x[1], x[2]>> /\ x[1] \in Jobs /\ x[2].id \in Ids
        /\ Died(x[2]) \in RunRecord /\ Died(x[2]).id = x[2].id /\ Died(x[2]).status = "failure"
    <3>1. x \in Jobs \X RunRecord /\ x[2].id \in Ids
      BY <1>t DEF TypeOK, RunInv, LinesInv
    <3>2. x = <<x[1], x[2]>> /\ x[1] \in Jobs /\ x[2] \in RunRecord
      BY <3>1
    <3>3. /\ Died(x[2]) \in RunRecord /\ Died(x[2]).id = x[2].id
          /\ Died(x[2]).status = "failure"
      BY <3>2 DEF Died, RunRecord, Statuses, Reasons
    <3>. QED  BY <3>1, <3>2, <3>3
  <2>2. orphans' = orphans \ {x} /\ UNCHANGED <<purged, Doing>>
    BY <1>8, <2>1 DEF Closes, CloseOrphan, LeaveOrphan
  <2>3. \A y \in orphans : <<y[1], y[2].id>> = <<x[1], x[2].id>> => y = x
    BY DEF RunInv, LinesInv
  <2>4. <<x[1], x[2].id>> \in Noted /\ Noted' = Noted \ {<<x[1], x[2].id>>}
    BY <2>2, <2>3 DEF Noted
  <2>5. Lifecycle!Shows(x[1], x[2].id, "failure") \/ UNCHANGED Seen
    <3>1. CASE CloseOrphan(x[1], x[2])
      <4>1. AppendRun(x[1], Died(x[2]))
        BY <3>1 DEF CloseOrphan
      <4>2. Lifecycle!Shows(x[1], Died(x[2]).id, Died(x[2]).status)
        BY <2>1, <4>1, <1>t, AppendShows, Zenon
      <4>. QED  BY <2>1, <4>2
    <3>2. CASE LeaveOrphan(x[1], x[2])
      BY <3>2, <1>s DEF LeaveOrphan
    <3>. QED  BY <1>8, <3>1, <3>2 DEF Closes
  <2>6. Lifecycle!Close(x[1], x[2].id)
    BY <2>2, <2>4, <2>5 DEF Lifecycle!Close
  <2>. QED  BY <2>1, <2>6 DEF Lifecycle!Next
<1>. QED
  BY <1>1, <1>2, <1>3, <1>4, <1>5, <1>6, <1>7, <1>8, StepKinds

\* For any jobs, flows, policies and limits: whatever the lock, the copies of state.json, the
\* crashes and the restarts do, a reader of the history sees the life of runs that
\* RunLifecycle specifies (runner.RunOnce, closeOrphanedRuns, ForgetJob).
THEOREM ImplementsLifecycle == Spec => KeepsLifecycle
<1>1. Init => Lifecycle!Init
  <2>. SUFFICES ASSUME Init PROVE Lifecycle!Init
    OBVIOUS
  <2>1. Seen = [j \in Jobs |-> [id \in Ids |-> "absent"]]
    BY DEF Init, Seen, StatusSeen
  <2>2. Doing = [p \in Procs |-> <<>>]
    BY DEF Init, Doing, InFlight
  <2>3. Noted = {} /\ purged = {}
    BY DEF Init, Noted
  <2>. QED  BY <2>1, <2>2, <2>3 DEF Lifecycle!Init, Lifecycle!Absent
<1>. QED
  BY <1>1, RunInit, RunNext, RefinementStep, PTL DEF Spec, KeepsLifecycle, Lifecycle!Spec

-----------------------------------------------------------------------------
(***************************************************************************)
(* One flow of control.  A daemon with one goroutine inside RunOnce, or    *)
(* the os-scheduler driver, where nothing overlaps: there the copy of      *)
(* state.json a flow writes back is never stale, whatever fails and        *)
(* whenever the daemon restarts.                                           *)
(***************************************************************************)
WatermarkInv ==
  \A p \in Procs :
    /\ pc[p] = "claim" => mem[p][Job(p)].last = RunId(p).at
    /\ pc[p] \in {"open", "execute"} => stateFile[Job(p)].last = RunId(p).at

LEMMA WatermarkNext ==
  ASSUME NEW CONSTANT t, Procs = {t}, TypeOK, WatermarkInv, [Next]_vars
  PROVE  WatermarkInv'
<1>. DEFINE Flow == /\ pc[t] = "claim" => mem[t][Job(t)].last = RunId(t).at
                    /\ pc[t] \in {"open", "execute"} => stateFile[Job(t)].last = RunId(t).at
<1>f. Flow /\ t \in Procs
  BY DEF WatermarkInv
<1>. SUFFICES Flow'
  BY DEF WatermarkInv
<1>k. ASSUME pc'[t] \notin {"claim", "open", "execute"} PROVE Flow'
  BY <1>k
<1>u. ASSUME UNCHANGED <<pc, call, mem, stateFile>> PROVE Flow'
  BY <1>u, <1>f DEF Job, RunId
<1>. HIDE DEF Flow
<1>a. CASE \E p \in Procs : Callers(p)
  BY <1>a, <1>k, <1>f DEF Callers, CallRunOnce, CallRecordSkip, CallPurge, Begin, TypeOK
<1>b. CASE \E p \in Procs : RunStep(p)
  <2>r. RunStep(t)
    BY <1>b
  <2>j. Job(t) \in Jobs /\ call[t] \in Calls
    BY <1>f DEF TypeOK, Calls, Job
  <2>1. CASE TryLockRun(t) \/ RetryLockRun(t)
    BY <2>1, <1>k, <1>f DEF TryLockRun, RetryLockRun, Acquire, Refuse, Goto, TypeOK
  <2>2. CASE CheckLimits(t)
    <3>1. CASE pc' = [pc EXCEPT ![t] = "finish"]
      BY <3>1, <1>k, <1>f DEF TypeOK
    <3>2. CASE /\ Goto(t, "limits", "claim") /\ call' = [call EXCEPT ![t].run.day = day]
               /\ mem' = [mem EXCEPT ![t] = [stateFile EXCEPT ![Job(t)] = Claimed(@, RunId(t).at)]]
      <4>1. pc'[t] = "claim" /\ Job(t)' = Job(t) /\ RunId(t)' = RunId(t)
        BY <3>2, <2>j, <1>f DEF Goto, TypeOK, Calls, RunRecord, Job, RunId
      <4>2. mem'[t][Job(t)] = Claimed(stateFile[Job(t)], RunId(t).at)
        BY <3>2, <2>j, <1>f DEF TypeOK, StateFile
      <4>3. mem'[t][Job(t)].last = RunId(t).at
        BY <4>2, <2>j DEF Claimed, TypeOK, StateFile, JobState
      <4>. QED  BY <4>1, <4>3 DEF Flow
    <3>. QED  BY <2>2, <3>1, <3>2 DEF CheckLimits, Refuse, Goto
  <2>3. CASE SaveClaim(t)
    BY <2>3, <1>f DEF Flow, SaveClaim, SaveState, Goto, TypeOK, Job, RunId
  <2>4. CASE AppendRunning(t)
    <3>1. /\ pc[t] = "open" /\ pc'[t] = "execute" /\ Job(t)' = Job(t) /\ RunId(t)' = RunId(t)
          /\ UNCHANGED stateFile
      BY <2>4, <2>j, <1>f DEF AppendRunning, Goto, TypeOK, Calls, Job, RunId
    <3>. QED  BY <3>1, <1>f DEF Flow
  <2>5. CASE \/ Execute(t) \/ AppendTerminal(t) \/ LoadForOutcome(t) \/ LoadForMark(t)
             \/ Return(t) \/ LoadForPurge(t) \/ RemoveHistory(t) \/ RemoveRunLock(t)
    BY <2>5, <1>k, <1>f
    DEF Execute, AppendTerminal, LoadForOutcome, LoadForMark, Return, LoadForPurge,
        RemoveHistory, RemoveRunLock, Goto, TypeOK
  <2>6. CASE SaveOutcome(t) \/ SaveMark(t) \/ SavePurged(t)
    BY <2>6, <1>k, <1>f DEF SaveOutcome, SaveMark, SavePurged, SaveState, Goto, TypeOK
  <2>. QED  BY <2>r, <2>1, <2>2, <2>3, <2>4, <2>5, <2>6 DEF RunStep
<1>c. ASSUME NEW ps \in SUBSET Procs, Die(ps) PROVE Flow'
  BY <1>c, <1>f DEF Flow, Die, Job, RunId
<1>d. CASE \E p \in Procs : IOError(p)
  BY <1>d, <1>k, <1>f DEF IOError, TypeOK
<1>e. CASE (\E p \in Procs : KillExternal(p)) \/ KillDaemon
  BY <1>e, <1>c DEF KillExternal, KillDaemon
<1>g. CASE \/ StartDaemon \/ Serve \/ Midnight \/ \E j \in Jobs : ReadOrphans(j)
           \/ \E x \in orphans : CloseOrphan(x[1], x[2]) \/ LeaveOrphan(x[1], x[2])
           \/ UNCHANGED vars
  BY <1>g, <1>u DEF StartDaemon, Serve, Midnight, ReadOrphans, CloseOrphan, LeaveOrphan, vars
<1>. QED  BY <1>a, <1>b, <1>d, <1>e, <1>g DEF Next

\* For one flow, any jobs and any faults: while a payload executes, state.json carries its
\* occurrence (claim and SaveState of runner.RunOnce).
THEOREM WatermarkOnDisk ==
  ASSUME NEW CONSTANT t, Procs = {t}
  PROVE  Spec => []WatermarkDurable
<1>1. Init => WatermarkInv
  BY DEF Init, WatermarkInv
<1>2. TypeOK /\ WatermarkInv /\ [Next]_vars => WatermarkInv'
  BY WatermarkNext
<1>3. WatermarkInv => WatermarkDurable
  BY DEF WatermarkInv, WatermarkDurable
<1>. QED  BY <1>1, <1>2, <1>3, TypeCorrect, PTL DEF Spec

-----------------------------------------------------------------------------
(***************************************************************************)
(* The daily limit.  The count of an entry covers the runs already on disk *)
(* and the one about to be; older days keep within the limit because every *)
(* count did, and no line is ever about a day still to come.               *)
(***************************************************************************)
StartedIn(h, d) == {k \in DOMAIN h : h[k].status = "running" /\ h[k].day = d}

\* The starts of a day can be counted.
LEMMA StartedFinite ==
  ASSUME NEW h \in Seq(RunRecord), NEW d
  PROVE  IsFiniteSet(StartedIn(h, d)) /\ Cardinality(StartedIn(h, d)) \in Nat
<1>1. Len(h) \in Nat /\ StartedIn(h, d) \subseteq 1 .. Len(h)
  BY DEF StartedIn
<1>2. IsFiniteSet(1 .. Len(h))
  BY <1>1, FS_Interval
<1>. QED  BY <1>1, <1>2, FS_Subset, FS_CardinalityType

\* One more line counts when it says "running" on that day.
LEMMA StartedAfter ==
  ASSUME NEW h \in Seq(RunRecord), NEW r \in RunRecord, NEW d
  PROVE  Cardinality(StartedIn(Append(h, r), d)) =
           Cardinality(StartedIn(h, d)) + IF r.status = "running" /\ r.day = d THEN 1 ELSE 0
<1>1. /\ DOMAIN Append(h, r) = DOMAIN h \cup {Len(h) + 1} /\ Len(h) + 1 \notin DOMAIN h
      /\ Append(h, r)[Len(h) + 1] = r /\ \A k \in DOMAIN h : Append(h, r)[k] = h[k]
  OBVIOUS
<1>2. StartedIn(Append(h, r), d) =
        IF r.status = "running" /\ r.day = d THEN StartedIn(h, d) \cup {Len(h) + 1}
        ELSE StartedIn(h, d)
  BY <1>1 DEF StartedIn
<1>3. Cardinality(StartedIn(h, d) \cup {Len(h) + 1}) = Cardinality(StartedIn(h, d)) + 1
  <2>1. Len(h) + 1 \notin StartedIn(h, d)
    BY <1>1 DEF StartedIn
  <2>. QED  BY <2>1, StartedFinite, FS_AddElement
<1>4. Cardinality(StartedIn(h, d)) \in Nat
  BY StartedFinite
<1>. QED  BY <1>2, <1>3, <1>4

\* The runs that may have started on day d for all an entry says.
Allowance(js, j, d) == IF d > js.date THEN 0 ELSE IF d = js.date THEN js.count ELSE MaxPerDay[j]
Due(t, j, d)   == IF pc[t] = "open" /\ Job(t) = j /\ call[t].run.day = d THEN 1 ELSE 0
Covered(t, j)  ==
  /\ stateFile[j].count <= MaxPerDay[j]
  /\ \A d \in Nat : Cardinality(StartedIn(history[j], d)) + Due(t, j, d) 
                      <= Allowance(stateFile[j], j, d)

\* The copy that claims an occurrence counts one more run on the day of the call; every other
\* copy has the counts of the file.
ClaimCopy(t) ==
  LET j == Job(t) IN
  /\ mem[t][j].date = call[t].run.day /\ call[t].run.day <= day
  /\ stateFile[j].date <= call[t].run.day
  /\ mem[t][j].count = 1 + IF stateFile[j].date = call[t].run.day THEN stateFile[j].count ELSE 0
  /\ MaxPerDay[j] > 0 => mem[t][j].count <= MaxPerDay[j]
  /\ \A i \in Jobs \ {j} : mem[t][i] = stateFile[i]
SameCounts(t) == \A i \in Jobs : /\ mem[t][i].date = stateFile[i].date
                                 /\ mem[t][i].count = stateFile[i].count
CopyInv(t) == /\ \A j \in Jobs : stateFile[j].date <= day
              /\ pc[t] = "claim" => ClaimCopy(t)
              /\ pc[t] \in {"save", "savemark"} => SameCounts(t)
              /\ pc[t] \notin {"forget", "saveforget", "remove", "removelock"}
DailyInv(t) == RunInv /\ CopyInv(t) /\ \A j \in Jobs : MaxPerDay[j] > 0 => Covered(t, j)

LEMMA CopyNext ==
  ASSUME NEW CONSTANT t, Threads = {t}, Externals = {}, RunInv, CopyInv(t), [Next]_vars
  PROVE  CopyInv(t)'
<1>f. TypeOK /\ t \in Procs /\ Procs = {t} /\ call[t] \in Calls /\ Job(t) \in Jobs
      /\ call[t].run \in RunRecord /\ day \in Nat /\ \A j \in Jobs : stateFile[j] \in JobState
  BY DEF RunInv, LockInv, TypeOK, Calls, Job, StateFile
<1>k. ASSUME pc'[t] \notin {"claim", "save", "savemark", "forget", "saveforget", "remove", "removelock"},
             \A j \in Jobs : stateFile'[j].date <= day'
      PROVE CopyInv(t)'
  BY <1>k DEF CopyInv
<1>s. ASSUME UNCHANGED stateFile, day' \in {day, day + 1}
      PROVE  \A j \in Jobs : stateFile'[j].date <= day'
  <2>. SUFFICES ASSUME NEW j \in Jobs PROVE stateFile[j].date <= day'
    BY <1>s
  <2>1. stateFile[j].date \in Nat /\ stateFile[j].date <= day
    BY <1>f DEF CopyInv, JobState
  <2>. QED  BY <1>s, <1>f, <2>1
<1>u. ASSUME UNCHANGED <<pc, call, mem, stateFile>>, day' \in {day, day + 1} PROVE CopyInv(t)'
  <2>1. UNCHANGED <<Job(t), SameCounts(t)>>
    BY <1>u DEF Job, SameCounts
  <2>2. call[t].run.day <= day => call'[t].run.day <= day'
    BY <1>u, <1>f DEF RunRecord
  <2>3. ClaimCopy(t) => ClaimCopy(t)'
    BY <1>u, <2>1, <2>2 DEF ClaimCopy
  <2>. QED  BY <1>u, <1>s, <2>1, <2>3 DEF CopyInv
<1>a. CASE \E p \in Procs : Callers(p)
  <2>1. ASSUME NEW c, NEW at \in {"lock", "finish"}, Begin(t, c, at) PROVE CopyInv(t)'
    BY <2>1, <1>k, <1>s, <1>f DEF Begin, TypeOK
  <2>. QED  BY <1>a, <1>f, <2>1 DEF Callers, CallRunOnce, CallRecordSkip, CallPurge
<1>b. CASE \E p \in Procs : RunStep(p)
  <2>r. RunStep(t)
    BY <1>b, <1>f
  <2>1. CASE TryLockRun(t) \/ RetryLockRun(t)
    BY <2>1, <1>k, <1>s, <1>f DEF TryLockRun, RetryLockRun, Acquire, Refuse, Goto, TypeOK
  <2>2. CASE CheckLimits(t)
    <3>1. CASE pc' = [pc EXCEPT ![t] = "finish"]
      BY <2>2, <3>1, <1>k, <1>s, <1>f DEF TypeOK, CheckLimits
    <3>2. CASE /\ ~LimitReached(Job(t))
               /\ Goto(t, "limits", "claim") /\ call' = [call EXCEPT ![t].run.day = day]
               /\ mem' = [mem EXCEPT ![t] = [stateFile EXCEPT ![Job(t)] = Claimed(@, RunId(t).at)]]
      <4>. DEFINE j == Job(t)
      <4>1. pc'[t] = "claim" /\ Job(t)' = j /\ call'[t].run.day = day
            /\ stateFile' = stateFile /\ day' = day
        BY <2>2, <3>2, <1>f DEF CheckLimits, Goto, TypeOK, Calls, RunRecord, Job
      <4>2. /\ mem'[t][j] = Claimed(stateFile[j], RunId(t).at)
            /\ \A i \in Jobs \ {j} : mem'[t][i] = stateFile[i]
        BY <3>2, <1>f DEF TypeOK, StateFile
      <4>3. mem'[t][j].date = day /\ mem'[t][j].count = RunsToday(stateFile[j]) + 1
        BY <4>2, <1>f DEF Claimed, JobState
      <4>4. stateFile[j].date <= day /\ stateFile[j].date \in Nat /\ RunsToday(stateFile[j]) \in Nat
        BY <1>f DEF CopyInv, JobState, RunsToday
      <4>5. MaxPerDay[j] > 0 => RunsToday(stateFile[j]) + 1 <= MaxPerDay[j]
        <5>1. MaxPerDay[j] \in Nat
          BY <1>f, LimitAssumption
        <5>. QED  BY <3>2, <5>1, <4>4 DEF LimitReached
      <4>6. ClaimCopy(t)'
        BY <4>1, <4>2, <4>3, <4>4, <4>5, <1>f DEF ClaimCopy, RunsToday
      <4>. QED  BY <4>1, <4>6, <1>s DEF CopyInv
    <3>. QED  BY <2>2, <3>1, <3>2 DEF CheckLimits, Refuse, Goto
  <2>3. CASE SaveClaim(t)
    <3>1. pc[t] = "claim" /\ pc'[t] = "open" /\ stateFile' = mem[t] /\ day' = day
      BY <2>3, <1>f DEF SaveClaim, SaveState, Goto, TypeOK
    <3>2. \A j \in Jobs : mem[t][j].date <= day
      BY <3>1 DEF CopyInv, ClaimCopy
    <3>. QED  BY <3>1, <3>2, <1>k
  <2>4. CASE SaveOutcome(t) \/ SaveMark(t)
    <3>1. /\ pc[t] \in {"save", "savemark"} /\ pc'[t] \in {"mark", "return"}
          /\ stateFile' = mem[t] /\ day' = day
      BY <2>4, <1>f DEF SaveOutcome, SaveMark, SaveState, Goto, TypeOK
    <3>2. \A j \in Jobs : mem[t][j].date <= day
      BY <3>1 DEF CopyInv, SameCounts
    <3>. QED  BY <3>1, <3>2, <1>k
  <2>5. CASE LoadForOutcome(t)
    <3>1. pc'[t] = "save" /\ UNCHANGED <<stateFile, day>>
          /\ \E v : mem'[t] = [stateFile EXCEPT ![Job(t)].failures = v]
      BY <2>5, <1>f DEF LoadForOutcome, Goto, TypeOK
    <3>2. PICK v : mem'[t] = [stateFile EXCEPT ![Job(t)].failures = v]
      BY <3>1
    <3>3. \A i \in Jobs : mem'[t][i] = IF i = Job(t) THEN [stateFile[i] EXCEPT !.failures = v]
                                       ELSE stateFile[i]
      BY <3>2, <1>f DEF TypeOK, StateFile
    <3>4. \A js \in JobState : /\ [js EXCEPT !.failures = v].date = js.date
                               /\ [js EXCEPT !.failures = v].count = js.count
      BY DEF JobState
    <3>5. SameCounts(t)'
      BY <3>1, <3>3, <3>4, <1>f DEF SameCounts
    <3>. QED  BY <3>1, <3>5, <1>s DEF CopyInv
  <2>6. CASE LoadForMark(t)
    <3>1. pc'[t] = "savemark" /\ UNCHANGED <<stateFile, day>>
          /\ \E v : mem'[t] = [stateFile EXCEPT ![Job(t)].last = v]
      BY <2>6, <1>f DEF LoadForMark, Goto, TypeOK
    <3>2. PICK v : mem'[t] = [stateFile EXCEPT ![Job(t)].last = v]
      BY <3>1
    <3>3. \A i \in Jobs : mem'[t][i] = IF i = Job(t) THEN [stateFile[i] EXCEPT !.last = v]
                                       ELSE stateFile[i]
      BY <3>2, <1>f DEF TypeOK, StateFile
    <3>4. \A js \in JobState : /\ [js EXCEPT !.last = v].date = js.date
                               /\ [js EXCEPT !.last = v].count = js.count
      BY DEF JobState
    <3>5. SameCounts(t)'
      BY <3>1, <3>3, <3>4, <1>f DEF SameCounts
    <3>. QED  BY <3>1, <3>5, <1>s DEF CopyInv
  <2>7. CASE AppendRunning(t) \/ Execute(t) \/ AppendTerminal(t) \/ Return(t)
    BY <2>7, <1>k, <1>s, <1>f DEF AppendRunning, Execute, AppendTerminal, Return, Goto, TypeOK
  <2>8. CASE LoadForPurge(t) \/ SavePurged(t) \/ RemoveHistory(t) \/ RemoveRunLock(t)
    BY <2>8
    DEF LoadForPurge, SavePurged, RemoveHistory, RemoveRunLock, SaveState, Goto, CopyInv
  <2>. QED  BY <2>r, <2>1, <2>2, <2>3, <2>4, <2>5, <2>6, <2>7, <2>8 DEF RunStep
<1>c. CASE KillDaemon
  BY <1>c, <1>k, <1>s, <1>f DEF KillDaemon, Die
<1>d. CASE \E p \in Procs : IOError(p) \/ KillExternal(p)
  BY <1>d, <1>k, <1>s, <1>f DEF IOError, KillExternal, TypeOK
<1>e. CASE \/ StartDaemon \/ Serve \/ Midnight \/ \E j \in Jobs : ReadOrphans(j)
           \/ \E x \in orphans : CloseOrphan(x[1], x[2]) \/ LeaveOrphan(x[1], x[2])
           \/ UNCHANGED vars
  BY <1>e, <1>u DEF StartDaemon, Serve, Midnight, ReadOrphans, CloseOrphan, LeaveOrphan, vars
<1>. QED  BY <1>a, <1>b, <1>c, <1>d, <1>e DEF Next

LEMMA DailyNext ==
  ASSUME NEW CONSTANT t, Threads = {t}, Externals = {}, DailyInv(t), [Next]_vars
  PROVE  DailyInv(t)'
<1>r. RunInv /\ RunInv' /\ CopyInv(t) /\ CopyInv(t)'
  BY RunNext, CopyNext DEF DailyInv
<1>. SUFFICES ASSUME NEW j \in Jobs, MaxPerDay[j] > 0 PROVE Covered(t, j)'
  BY <1>r DEF DailyInv
<1>f. TypeOK /\ t \in Procs /\ Procs = {t} /\ call[t] \in Calls /\ Job(t) \in Jobs
      /\ call[t].run \in RunRecord /\ day \in Nat /\ \A i \in Jobs : stateFile[i] \in JobState
  BY <1>r DEF RunInv, LockInv, TypeOK, Calls, Job, StateFile
<1>g. history[j] \in Seq(RunRecord) /\ MaxPerDay[j] \in Nat /\ Covered(t, j)
  BY <1>f, LimitAssumption DEF TypeOK, DailyInv
<1>n. \A d : Cardinality(StartedIn(history[j], d)) \in Nat /\ Due(t, j, d) \in {0, 1}
  <2>1. \A d : Cardinality(StartedIn(history[j], d)) \in Nat
    BY <1>g, StartedFinite
  <2>. QED  BY <2>1 DEF Due
\* Nothing starts: the lines say no more, nothing is due that was not, the counts stay.
<1>k. ASSUME stateFile'[j].date = stateFile[j].date, stateFile'[j].count = stateFile[j].count,
             \A d \in Nat : Cardinality(StartedIn(history'[j], d)) = Cardinality(StartedIn(history[j], d)),
             pc'[t] # "open" \/ UNCHANGED <<pc, call>>
      PROVE Covered(t, j)'
  <2>1. \A d \in Nat : Allowance(stateFile'[j], j, d) = Allowance(stateFile[j], j, d)
    BY <1>k DEF Allowance
  <2>2. \A d \in Nat : Due(t, j, d)' <= Due(t, j, d) /\ Due(t, j, d)' \in {0, 1}
    BY <1>k DEF Due, Job
  <2>3. \A d \in Nat : Allowance(stateFile[j], j, d) \in Nat
    BY <1>f, <1>g DEF Allowance, JobState
  <2>4. ASSUME NEW d \in Nat
        PROVE  Cardinality(StartedIn(history'[j], d)) + Due(t, j, d)' <= Allowance(stateFile'[j], j, d)
    <3>1. Cardinality(StartedIn(history[j], d)) + Due(t, j, d) <= Allowance(stateFile[j], j, d)
      BY <1>g DEF Covered
    <3>. QED  BY <1>k, <1>n, <2>1, <2>2, <2>3, <3>1
  <2>. QED  BY <1>k, <1>g, <2>4 DEF Covered
<1>u. ASSUME UNCHANGED <<stateFile, history>>, pc'[t] # "open" \/ UNCHANGED <<pc, call>>
      PROVE Covered(t, j)'
  BY <1>u, <1>k
<1>w. ASSUME NEW i \in Jobs, NEW r \in RunRecord, AppendRun(i, r)
      PROVE  \A d \in Nat : Cardinality(StartedIn(history'[j], d)) =
               Cardinality(StartedIn(history[j], d)) 
                 + IF i = j /\ r.status = "running" /\ r.day = d THEN 1 ELSE 0
  <2>1. history'[j] = IF i = j THEN Append(history[j], r) ELSE history[j]
    BY <1>w, <1>f DEF AppendRun, TypeOK
  <2>. SUFFICES ASSUME NEW d \in Nat
                PROVE  Cardinality(StartedIn(history'[j], d)) =
               Cardinality(StartedIn(history[j], d)) 
                 + IF i = j /\ r.status = "running" /\ r.day = d THEN 1 ELSE 0
    OBVIOUS
  <2>2. Cardinality(StartedIn(Append(history[j], r), d)) =
              Cardinality(StartedIn(history[j], d)) + IF r.status = "running" /\ r.day = d THEN 1 ELSE 0
    BY <1>g, StartedAfter
  <2>. QED  BY <2>1, <2>2, <1>n
<1>a. CASE \E p \in Procs : Callers(p)
  BY <1>a, <1>u, <1>f DEF Callers, CallRunOnce, CallRecordSkip, CallPurge, Begin, TypeOK
<1>b. CASE \E p \in Procs : RunStep(p)
  <2>r. RunStep(t)
    BY <1>b, <1>f
  <2>1. CASE TryLockRun(t) \/ RetryLockRun(t) \/ CheckLimits(t) \/ Execute(t) \/ Return(t)
    BY <2>1, <1>u, <1>f
    DEF TryLockRun, RetryLockRun, CheckLimits, Execute, Return, Acquire, Refuse, Goto, TypeOK
  <2>2. CASE SaveClaim(t)
    <3>1. /\ pc[t] = "claim" /\ stateFile' = mem[t] /\ UNCHANGED <<history, call>>
      BY <2>2, <1>f DEF SaveClaim, SaveState, Goto, TypeOK
    <3>2. ClaimCopy(t)
      BY <3>1, <1>r DEF CopyInv
    <3>3. CASE j # Job(t)
      <4>1. stateFile'[j] = stateFile[j]
        BY <3>1, <3>2, <3>3 DEF ClaimCopy
      <4>2. \A d \in Nat : Due(t, j, d)' = 0 /\ Due(t, j, d) = 0
        BY <3>1, <3>3 DEF Due, Job
      <4>. QED  BY <3>1, <4>1, <4>2, <1>g DEF Covered
    <3>4. CASE j = Job(t)
      <4>. DEFINE D == call[t].run.day
                  old == stateFile[j]
                  new == mem[t][j]
      <4>1. /\ new.date = D /\ old.date <= D /\ D \in Nat /\ old.date \in Nat /\ old.count \in Nat
            /\ new.count = 1 + IF old.date = D THEN old.count ELSE 0
            /\ new.count <= MaxPerDay[j] /\ old.count <= MaxPerDay[j]
        BY <3>2, <3>4, <1>f, <1>g DEF ClaimCopy, Covered, RunRecord, JobState
      <4>2. \A d \in Nat : Cardinality(StartedIn(history[j], d)) <= Allowance(old, j, d)
        <5>1. \A d \in Nat : Due(t, j, d) = 0
          BY <3>1 DEF Due
        <5>. QED  BY <5>1, <1>g, <1>n DEF Covered
      <4>3. \A d \in Nat : Due(t, j, d)' = IF d = D THEN 1 ELSE 0
        BY <2>2, <3>1, <3>4, <1>f DEF Due, Job, SaveClaim, SaveState, Goto, TypeOK
      <4>. HIDE DEF D, old, new
      <4>4. ASSUME NEW d \in Nat
            PROVE  Cardinality(StartedIn(history[j], d)) + (IF d = D THEN 1 ELSE 0)
                     <= Allowance(new, j, d)
        <5>1. Cardinality(StartedIn(history[j], d)) \in Nat
              /\ Cardinality(StartedIn(history[j], d)) <= Allowance(old, j, d)
          BY <1>n, <4>2
        <5>. QED  BY <5>1, <4>1, <1>g DEF Allowance
      <4>5. new.count <= MaxPerDay[j] /\ stateFile'[j] = new /\ history' = history
        BY <3>1, <4>1 DEF new
      <4>. QED  BY <4>3, <4>4, <4>5 DEF Covered
    <3>. QED  BY <3>3, <3>4
  <2>3. CASE AppendRunning(t)
    <3>1. /\ pc[t] = "open" /\ pc'[t] = "execute" /\ UNCHANGED stateFile
          /\ AppendRun(Job(t), call[t].run) /\ call[t].run.status = "running"
      BY <2>3, <1>f, <1>r
      DEF AppendRunning, Goto, TypeOK, RunInv, LockInv, FlowInv, OpenCall
    <3>2. \A d \in Nat : Cardinality(StartedIn(history'[j], d)) =
                 Cardinality(StartedIn(history[j], d)) + Due(t, j, d)
      BY <3>1, <1>f, <1>w DEF Due
    <3>3. \A d \in Nat : Due(t, j, d)' = 0
      BY <3>1 DEF Due
    <3>. QED  BY <3>1, <3>2, <3>3, <1>g, <1>n DEF Covered
  <2>4. CASE AppendTerminal(t)
    <3>1. /\ pc[t] = "finish" /\ pc'[t] = "account" /\ UNCHANGED stateFile
          /\ AppendRun(Job(t), call[t].run)
      BY <2>4, <1>f DEF AppendTerminal, Goto, TypeOK
    <3>2. call[t].run.status # "running"
      BY <3>1, <1>f, <1>r, OutcomeAssumption DEF RunInv, FlowRun
    <3>3. \A d \in Nat : Cardinality(StartedIn(history'[j], d))
                           = Cardinality(StartedIn(history[j], d))
      BY <3>1, <3>2, <1>f, <1>w, <1>n
    <3>. QED  BY <3>1, <3>3, <1>k
  <2>5. CASE LoadForOutcome(t) \/ LoadForMark(t)
    BY <2>5, <1>u, <1>f DEF LoadForOutcome, LoadForMark, Goto, TypeOK
  <2>6. CASE SaveOutcome(t) \/ SaveMark(t)
    <3>1. /\ pc[t] \in {"save", "savemark"} /\ pc'[t] \in {"mark", "return"}
          /\ stateFile' = mem[t] /\ UNCHANGED history
      BY <2>6, <1>f DEF SaveOutcome, SaveMark, SaveState, Goto, TypeOK
    <3>2. SameCounts(t)
      BY <3>1, <1>r DEF CopyInv
    <3>. QED  BY <3>1, <3>2, <1>k DEF SameCounts
  <2>7. CASE LoadForPurge(t) \/ SavePurged(t) \/ RemoveHistory(t) \/ RemoveRunLock(t)
    BY <2>7, <1>r
    DEF LoadForPurge, SavePurged, RemoveHistory, RemoveRunLock, SaveState, Goto, CopyInv
  <2>. QED  BY <2>r, <2>1, <2>2, <2>3, <2>4, <2>5, <2>6, <2>7 DEF RunStep
<1>c. CASE KillDaemon
  BY <1>c, <1>u, <1>f DEF KillDaemon, Die
<1>d. CASE \E p \in Procs : IOError(p) \/ KillExternal(p)
  BY <1>d, <1>u, <1>f DEF IOError, KillExternal, TypeOK
<1>e. CASE \E x \in orphans : CloseOrphan(x[1], x[2])
  <2>. SUFFICES ASSUME NEW x \in orphans, CloseOrphan(x[1], x[2]) PROVE Covered(t, j)'
    BY <1>e
  <2>1. x[1] \in Jobs /\ Died(x[2]) \in RunRecord /\ Died(x[2]).status # "running"
    BY <1>f DEF TypeOK, Died, RunRecord, Statuses, Reasons
  <2>2. AppendRun(x[1], Died(x[2])) /\ UNCHANGED <<stateFile, pc, call>>
    BY DEF CloseOrphan
  <2>3. \A d \in Nat : Cardinality(StartedIn(history'[j], d))
                         = Cardinality(StartedIn(history[j], d))
    BY <2>1, <2>2, <1>w, <1>n
  <2>. QED  BY <2>2, <2>3, <1>k
<1>h. CASE \/ StartDaemon \/ Serve \/ Midnight \/ \E i \in Jobs : ReadOrphans(i)
           \/ \E x \in orphans : LeaveOrphan(x[1], x[2])
           \/ UNCHANGED vars
  BY <1>h, <1>u DEF StartDaemon, Serve, Midnight, ReadOrphans, LeaveOrphan, vars
<1>. QED  BY <1>a, <1>b, <1>c, <1>d, <1>e, <1>h DEF Next

\* For one goroutine, any jobs, limits, days and faults: no more than max_runs_per_day runs of
\* a job start on one day (limitReached and the count saved before the run starts).
THEOREM LimitHolds ==
  ASSUME NEW CONSTANT t, Threads = {t}, Externals = {}
  PROVE  Spec => []DailyLimit
<1>1. Init => DailyInv(t)
  <2>. SUFFICES ASSUME Init PROVE DailyInv(t)
    OBVIOUS
  <2>1. RunInv /\ t \in Procs
    BY RunInit
  <2>2. CopyInv(t)
    BY <2>1 DEF Init, CopyInv, Empty, NoState
  <2>3. ASSUME NEW j \in Jobs, MaxPerDay[j] > 0 PROVE Covered(t, j)
    <3>1. \A d : StartedIn(history[j], d) = {}
      BY <2>3 DEF Init, StartedIn
    <3>2. \A d \in Nat : Allowance(stateFile[j], j, d) \in Nat /\ Due(t, j, d) = 0
      BY <2>1, <2>3, LimitAssumption DEF Init, Empty, NoState, Allowance, Due
    <3>3. stateFile[j].count <= MaxPerDay[j]
      BY <2>3, LimitAssumption DEF Init, Empty, NoState
    <3>. QED  BY <3>1, <3>2, <3>3, FS_EmptySet DEF Covered
  <2>. QED  BY <2>1, <2>2, <2>3 DEF DailyInv
<1>2. DailyInv(t) /\ [Next]_vars => DailyInv(t)'
  BY DailyNext
<1>3. DailyInv(t) => DailyLimit
  <2>. SUFFICES ASSUME DailyInv(t), NEW j \in Jobs, MaxPerDay[j] > 0, NEW d \in 1 .. LastDay
                PROVE  Cardinality(StartedOn(j, d)) <= MaxPerDay[j]
    BY DEF DailyLimit
  <2>1. Covered(t, j) /\ history[j] \in Seq(RunRecord) /\ stateFile[j] \in JobState
        /\ MaxPerDay[j] \in Nat /\ d \in Nat /\ StartedOn(j, d) = StartedIn(history[j], d)
    BY LimitAssumption, BoundAssumption DEF DailyInv, RunInv, LockInv, TypeOK, StateFile, StartedOn, StartedIn
  <2>2. Cardinality(StartedIn(history[j], d)) \in Nat
    BY <2>1, StartedFinite
  <2>3. Cardinality(StartedIn(history[j], d)) <= Allowance(stateFile[j], j, d)
    <3>1. Due(t, j, d) \in {0, 1}
      BY DEF Due
    <3>2. Cardinality(StartedIn(history[j], d)) + Due(t, j, d) <= Allowance(stateFile[j], j, d)
      BY <2>1 DEF Covered
    <3>3. Allowance(stateFile[j], j, d) \in Nat
      BY <2>1 DEF Allowance, JobState
    <3>. QED  BY <2>2, <3>1, <3>2, <3>3
  <2>4. Allowance(stateFile[j], j, d) <= MaxPerDay[j] /\ Allowance(stateFile[j], j, d) \in Nat
    BY <2>1 DEF Covered, Allowance, JobState
  <2>. QED  BY <2>1, <2>2, <2>3, <2>4
<1>. QED  BY <1>1, <1>2, <1>3, PTL DEF Spec

-----------------------------------------------------------------------------
(***************************************************************************)
(* The failure streak.  As long as no write was lost, an entry counts the  *)
(* streak of its job's history, one line late while a flow is between its  *)
(* terminal line and the saved outcome.                                    *)
(***************************************************************************)
LEMMA StreakFinite ==
  ASSUME NEW h \in Seq(RunRecord)
  PROVE  IsFiniteSet(Streak(h)) /\ Cardinality(Streak(h)) \in Nat
<1>1. Len(h) \in Nat /\ Streak(h) \subseteq 1 .. Len(h)
  BY DEF Streak
<1>2. IsFiniteSet(1 .. Len(h))
  BY <1>1, FS_Interval
<1>. QED  BY <1>1, <1>2, FS_Subset, FS_CardinalityType

\* One more line moves the length of the streak as FailuresAfter moves the counter.
LEMMA StreakAfter ==
  ASSUME NEW h \in Seq(RunRecord), NEW r \in RunRecord, r.reason # "daemon_died"
  PROVE  Cardinality(Streak(Append(h, r))) = FailuresAfter(Cardinality(Streak(h)), r.status)
<1>. DEFINE g == Append(h, r)
            n == Len(h) + 1
<1>1. /\ DOMAIN g = DOMAIN h \cup {n} /\ n \notin DOMAIN h /\ g[n] = r
      /\ \A k \in DOMAIN h : g[k] = h[k] /\ k < n /\ ~(k > n)
      /\ ~(n > n)
  OBVIOUS
<1>2. CountedFailures \cap ResetsFailures = {}
  BY DEF CountedFailures, ResetsFailures
<1>. HIDE DEF g, n
<1>3. CASE r.status \in CountedFailures
  <2>1. Streak(g) = Streak(h) \cup {n} /\ n \notin Streak(h)
    BY <1>1, <1>2, <1>3 DEF Streak
  <2>2. Cardinality(Streak(g)) = Cardinality(Streak(h)) + 1
    BY <2>1, StreakFinite, FS_AddElement
  <2>. QED  BY <2>2, <1>3 DEF FailuresAfter, g
<1>4. CASE r.status \in ResetsFailures
  <2>1. \A k \in DOMAIN h : n > k
    BY <1>1
  <2>2. Streak(g) = {}
    BY <1>1, <1>2, <1>4, <2>1 DEF Streak
  <2>. QED  BY <2>2, <1>2, <1>4, FS_EmptySet DEF FailuresAfter, g
<1>5. CASE r.status \notin CountedFailures \cup ResetsFailures
  <2>1. Streak(g) = Streak(h)
    BY <1>1, <1>5 DEF Streak
  <2>. QED  BY <2>1, <1>5 DEF FailuresAfter, g
<1>. QED  BY <1>3, <1>4, <1>5

\* The counter of a job once the flow's outcome, if it has one, is saved.
Failures(t, j) ==
  IF pc[t] = "account" /\ Job(t) = j THEN FailuresAfter(stateFile[j].failures, call[t].run.status)
  ELSE IF pc[t] = "save" THEN mem[t][j].failures
  ELSE stateFile[j].failures

\* Until something fails there is nothing to close, and copies carry the counters of the file.
Undisturbed(t) ==
  /\ orphans = {}
  /\ daemon # "up" => pc[t] = "idle" /\ \A j \in Jobs : history[j] = <<>>
  /\ call[t].run.reason # "daemon_died"
  /\ pc[t] \in {"claim", "savemark"} =>
       \A j \in Jobs : mem[t][j].failures = stateFile[j].failures
  /\ pc[t] \notin {"forget", "saveforget", "remove", "removelock"}
StreakInv(t) == 
  faults = 0 => /\ Undisturbed(t)
                /\ \A j \in Jobs : Cardinality(Streak(history[j])) = Failures(t, j)

LEMMA StreakNext ==
  ASSUME NEW CONSTANT t, Threads = {t}, Externals = {}, RunInv, StreakInv(t), [Next]_vars
  PROVE  StreakInv(t)'
<1>f. TypeOK /\ t \in Procs /\ Procs = {t} /\ call[t] \in Calls /\ Job(t) \in Jobs
      /\ call[t].run \in RunRecord /\ faults \in Nat
      /\ (\A i \in Jobs : stateFile[i] \in JobState)
      /\ (\A i \in Jobs : history[i] \in Seq(RunRecord))
  BY DEF RunInv, LockInv, TypeOK, Calls, Job, StateFile
<1>z. faults' = 0 => UNCHANGED faults
  <2>1. ASSUME NEW p \in Procs, RunStep(p) PROVE UNCHANGED faults
    BY <2>1
    DEF RunStep, TryLockRun, RetryLockRun, CheckLimits, SaveClaim, AppendRunning, Execute,
        AppendTerminal, LoadForOutcome, SaveOutcome, LoadForMark, SaveMark, Return,
        LoadForPurge, SavePurged, RemoveHistory, RemoveRunLock
  <2>2. ASSUME NEW p \in Procs, Callers(p) PROVE UNCHANGED faults
    BY <2>2 DEF Callers, CallRunOnce, CallRecordSkip, CallPurge, Begin
  <2>3. ASSUME NEW p \in Procs, IOError(p) \/ KillExternal(p) PROVE faults' # 0
    BY <2>3, <1>f DEF IOError, KillExternal, Die
  <2>4. ASSUME KillDaemon PROVE faults' # 0
    BY <2>4, <1>f DEF KillDaemon, Die
  <2>5. ASSUME NEW x \in orphans, CloseOrphan(x[1], x[2]) \/ LeaveOrphan(x[1], x[2])
        PROVE faults' # 0 \/ UNCHANGED faults
    BY <2>5, <1>f DEF CloseOrphan, LeaveOrphan
  <2>6. ASSUME StartDaemon \/ Serve \/ Midnight \/ (\E j \in Jobs : ReadOrphans(j))
               \/ UNCHANGED vars
        PROVE UNCHANGED faults
    BY <2>6 DEF StartDaemon, Serve, Midnight, ReadOrphans, vars
  <2>. QED  BY <2>1, <2>2, <2>3, <2>4, <2>5, <2>6 DEF Next
<1>. SUFFICES ASSUME faults = 0, faults' = 0
              PROVE  Undisturbed(t)' /\ \A j \in Jobs :
                       Cardinality(Streak(history'[j])) = Failures(t, j)'
  BY <1>z DEF StreakInv
<1>i. Undisturbed(t) /\ \A j \in Jobs : Cardinality(Streak(history[j])) = Failures(t, j)
  BY DEF StreakInv
<1>. DEFINE Goal == Undisturbed(t)' /\ \A j \in Jobs :
                       Cardinality(Streak(history'[j])) = Failures(t, j)'
<1>. SUFFICES Goal
  OBVIOUS
<1>. HIDE DEF Goal
\* A step that neither writes a line nor a counter.
<1>k. ASSUME UNCHANGED <<orphans, daemon, history, stateFile>>,
             daemon = "up", call'[t].run.reason # "daemon_died",
             pc[t] \notin {"account", "save"},
             pc'[t] \notin {"account", "save", "claim", "savemark",
                            "forget", "saveforget", "remove", "removelock"}
      PROVE Goal
  BY <1>k, <1>i DEF Goal, Undisturbed, Failures
<1>u. ASSUME UNCHANGED <<history, stateFile, pc, call, mem>>, orphans' = {},
             daemon' = daemon \/ daemon' = "up" 
             \/ (pc[t] = "idle" /\ \A j \in Jobs : history[j] = <<>>)
      PROVE Goal
  BY <1>u, <1>i DEF Goal, Undisturbed, Failures, Job
<1>a. CASE \E p \in Procs : Callers(p)
  <2>1. ASSUME NEW c, NEW at \in {"lock", "finish"}, Begin(t, c, at), c.run.reason = "" PROVE Goal
    BY <2>1, <1>k, <1>f DEF Begin, TypeOK, Alive
  <2>2. ASSUME NEW op, NEW j, NEW x, NEW m, NEW s, NEW at \in {"lock", "finish"},
               Begin(t, NewCall(op, j, NewRun(x, m, s)), at)
        PROVE Goal
    <3>1. NewCall(op, j, NewRun(x, m, s)).run.reason = ""
      BY DEF NewCall, NewRun
    <3>. QED  BY <2>1, <2>2, <3>1
  <2>3. Callers(t)
    BY <1>a, <1>f
  <2>. QED  BY <2>2, <2>3, <1>f DEF Callers, CallRunOnce, CallRecordSkip, CallPurge
<1>b. CASE \E p \in Procs : RunStep(p)
  <2>r. RunStep(t)
    BY <1>b, <1>f
  <2>p. pc[t] # "idle" /\ UNCHANGED <<orphans, daemon>>
    BY <2>r
    DEF RunStep, TryLockRun, RetryLockRun, CheckLimits, SaveClaim, AppendRunning, Execute,
        AppendTerminal, LoadForOutcome, SaveOutcome, LoadForMark, SaveMark, Return, LoadForPurge,
        SavePurged, RemoveHistory, RemoveRunLock, Acquire, Refuse, SaveState, Goto
  <2>u. daemon = "up" /\ orphans' = {} /\ daemon' = "up"
    BY <2>p, <1>i DEF Undisturbed
  <2>d. ASSUME NEW from, NEW reason \in {"overlap", "limit_exceeded"}, Refuse(t, from, reason)
        PROVE call'[t].run.reason # "daemon_died" /\ pc'[t] = "finish" /\ pc[t] = from
    BY <2>d, <1>f DEF Refuse, Goto, TypeOK, Calls, RunRecord
  <2>1. CASE TryLockRun(t) \/ RetryLockRun(t)
    <3>1. call'[t].run.reason # "daemon_died" /\ pc[t] \in {"lock", "relock"}
          /\ pc'[t] \in {"limits", "relock", "finish"} /\ UNCHANGED <<history, stateFile>>
      BY <2>1, <2>d, <1>f, <1>i
      DEF TryLockRun, RetryLockRun, Acquire, Refuse, Goto, TypeOK, Undisturbed
    <3>. QED  BY <3>1, <2>u, <2>p, <1>k
  <2>2. CASE CheckLimits(t)
    <3>1. CASE Refuse(t, "limits", "limit_exceeded")
      <4>1. call'[t].run.reason # "daemon_died" /\ pc'[t] = "finish" /\ pc[t] = "limits"
        BY <3>1, <2>d
      <4>. QED  BY <2>2, <4>1, <2>u, <2>p, <1>k DEF CheckLimits
    <3>2. CASE /\ Goto(t, "limits", "finish")
               /\ call' = [call EXCEPT ![t].run.status = "failure",
                                       ![t].run.reason = "cwd_missing"]
      <4>1. \A c \in Calls : [c EXCEPT !.run.status = "failure",
                                      !.run.reason = "cwd_missing"].run.reason = "cwd_missing"
        BY DEF Calls, RunRecord
      <4>2. call'[t].run.reason = "cwd_missing" /\ pc'[t] = "finish" /\ pc[t] = "limits"
        BY <3>2, <4>1, <1>f DEF Goto, TypeOK
      <4>. QED  BY <2>2, <4>2, <2>u, <2>p, <1>k DEF CheckLimits
    <3>3. CASE /\ Goto(t, "limits", "claim") /\ call' = [call EXCEPT ![t].run.day = day]
               /\ mem' = [mem EXCEPT ![t] = [stateFile EXCEPT ![Job(t)] = Claimed(@, RunId(t).at)]]
      <4>1. /\ pc[t] = "limits" /\ pc'[t] = "claim" /\ call'[t].run.reason = call[t].run.reason
            /\ UNCHANGED <<history, stateFile>>
        BY <2>2, <3>3, <1>f DEF CheckLimits, Goto, TypeOK, Calls, RunRecord
      <4>2. \A i \in Jobs : mem'[t][i] = IF i = Job(t) THEN Claimed(stateFile[i], RunId(t).at)
                                         ELSE stateFile[i]
        BY <3>3, <1>f DEF TypeOK, StateFile
      <4>3. \A js \in JobState : \A x : Claimed(js, x).failures = js.failures
        BY DEF Claimed, JobState
      <4>4. \A i \in Jobs : mem'[t][i].failures = stateFile'[i].failures
        BY <4>1, <4>2, <4>3, <1>f
      <4>. QED  BY <4>1, <4>4, <2>u, <1>i DEF Goal, Undisturbed, Failures
    <3>. QED  BY <2>2, <3>1, <3>2, <3>3 DEF CheckLimits
  <2>3. CASE SaveClaim(t) \/ SaveMark(t)
    <3>1. /\ pc[t] \in {"claim", "savemark"} /\ pc'[t] \in {"open", "return"}
          /\ stateFile' = mem[t] /\ UNCHANGED <<history, call>>
      BY <2>3, <1>f DEF SaveClaim, SaveMark, SaveState, Goto, TypeOK
    <3>. QED  BY <3>1, <2>u, <1>i DEF Goal, Undisturbed, Failures
  <2>4. CASE AppendRunning(t)
    <3>1. /\ pc[t] = "open" /\ pc'[t] = "execute" /\ UNCHANGED stateFile
          /\ AppendRun(Job(t), call[t].run) /\ call[t].run.status = "running"
          /\ call'[t].run = call[t].run
      BY <2>4, <1>f
      DEF AppendRunning, Goto, TypeOK, RunInv, LockInv, FlowInv, OpenCall, Calls
    <3>2. \A j \in Jobs : history'[j] = IF j = Job(t) THEN Append(history[j], call[t].run)
                                        ELSE history[j]
      BY <3>1, <1>f DEF AppendRun, TypeOK
    <3>3. Cardinality(Streak(Append(history[Job(t)], call[t].run)))
            = FailuresAfter(Cardinality(Streak(history[Job(t)])), call[t].run.status)
      BY <1>f, <1>i, StreakAfter DEF Undisturbed
    <3>4. \A n : FailuresAfter(n, "running") = n
      BY DEF FailuresAfter, CountedFailures, ResetsFailures
    <3>5. \A j \in Jobs : Cardinality(Streak(history'[j])) = Cardinality(Streak(history[j]))
      BY <3>1, <3>2, <3>3, <3>4
    <3>. QED  BY <3>1, <3>5, <2>u, <1>i DEF Goal, Undisturbed, Failures
  <2>5. CASE Execute(t)
    <3>1. call'[t].run.reason = call[t].run.reason /\ pc[t] = "execute" /\ pc'[t] = "finish"
      BY <2>5, <1>f DEF Execute, Goto, TypeOK, Calls, RunRecord
    <3>2. call'[t].run.reason # "daemon_died" /\ UNCHANGED <<history, stateFile>>
      BY <2>5, <3>1, <1>i DEF Execute, Undisturbed
    <3>. QED  BY <3>1, <3>2, <2>u, <2>p, <1>k
  <2>6. CASE AppendTerminal(t)
    <3>1. /\ pc[t] = "finish" /\ pc'[t] = "account" /\ UNCHANGED <<stateFile, call>>
          /\ AppendRun(Job(t), call[t].run)
      BY <2>6, <1>f DEF AppendTerminal, Goto, TypeOK
    <3>2. \A j \in Jobs : history'[j] = IF j = Job(t) THEN Append(history[j], call[t].run)
                                        ELSE history[j]
      BY <3>1, <1>f DEF AppendRun, TypeOK
    <3>3. Cardinality(Streak(Append(history[Job(t)], call[t].run)))
            = FailuresAfter(Cardinality(Streak(history[Job(t)])), call[t].run.status)
      BY <1>f, <1>i, StreakAfter DEF Undisturbed
    <3>4. \A j \in Jobs : Cardinality(Streak(history'[j])) =
            IF j = Job(t) THEN FailuresAfter(stateFile[j].failures, call[t].run.status)
            ELSE stateFile[j].failures
      BY <3>1, <3>2, <3>3, <1>i DEF Failures
    <3>5. \A j \in Jobs : Failures(t, j)' =
            IF j = Job(t) THEN FailuresAfter(stateFile[j].failures, call[t].run.status)
            ELSE stateFile[j].failures
      BY <3>1 DEF Failures, Job
    <3>. QED  BY <3>1, <3>4, <3>5, <2>u, <1>i DEF Goal, Undisturbed
  <2>7. CASE LoadForOutcome(t)
    <3>1. /\ pc[t] = "account" /\ pc'[t] = "save" /\ UNCHANGED <<history, stateFile, call>>
          /\ mem'[t] = [stateFile EXCEPT ![Job(t)].failures = FailuresAfter(@, call[t].run.status)]
      BY <2>7, <1>f DEF LoadForOutcome, Goto, TypeOK
    <3>2. \A j \in Jobs : mem'[t][j].failures =
            IF j = Job(t) THEN FailuresAfter(stateFile[j].failures, call[t].run.status)
            ELSE stateFile[j].failures
      <4>. DEFINE v == FailuresAfter(stateFile[Job(t)].failures, call[t].run.status)
      <4>1. mem'[t] = [stateFile EXCEPT ![Job(t)].failures = v]
        BY <3>1
      <4>. HIDE DEF v
      <4>2. \A i \in Jobs : mem'[t][i] = IF i = Job(t) THEN [stateFile[i] EXCEPT !.failures = v]
                                         ELSE stateFile[i]
        BY <4>1, <1>f DEF TypeOK, StateFile
      <4>3. \A js \in JobState : [js EXCEPT !.failures = v].failures = v
        BY DEF JobState
      <4>4. \A i \in Jobs : mem'[t][i].failures = IF i = Job(t) THEN v ELSE stateFile[i].failures
        BY <4>2, <4>3, <1>f
      <4>. QED  BY <4>4 DEF v
    <3>. QED  BY <3>1, <3>2, <2>u, <1>i DEF Goal, Undisturbed, Failures
  <2>8. CASE SaveOutcome(t)
    <3>1. /\ pc[t] = "save" /\ pc'[t] \in {"mark", "return"}
          /\ stateFile' = mem[t] /\ UNCHANGED <<history, call>>
      BY <2>8, <1>f DEF SaveOutcome, SaveState, Goto, TypeOK
    <3>. QED  BY <3>1, <2>u, <1>i DEF Goal, Undisturbed, Failures
  <2>9. CASE LoadForMark(t)
    <3>1. /\ pc[t] = "mark" /\ pc'[t] = "savemark" /\ UNCHANGED <<history, stateFile, call>>
          /\ \E v : mem'[t] = [stateFile EXCEPT ![Job(t)].last = v]
      BY <2>9, <1>f DEF LoadForMark, Goto, TypeOK
    <3>2. PICK v : mem'[t] = [stateFile EXCEPT ![Job(t)].last = v]
      BY <3>1
    <3>3. \A i \in Jobs : mem'[t][i] = IF i = Job(t) THEN [stateFile[i] EXCEPT !.last = v]
                                       ELSE stateFile[i]
      BY <3>2, <1>f DEF TypeOK, StateFile
    <3>4. \A js \in JobState : [js EXCEPT !.last = v].failures = js.failures
      BY DEF JobState
    <3>5. \A i \in Jobs : mem'[t][i].failures = stateFile'[i].failures
      BY <3>1, <3>3, <3>4, <1>f
    <3>. QED  BY <3>1, <3>5, <2>u, <1>i DEF Goal, Undisturbed, Failures
  <2>10. CASE Return(t)
    <3>1. NoCall.run.reason = ""
      BY DEF NoCall, NewCall, NewRun
    <3>2. call'[t] = NoCall /\ pc[t] = "return" /\ pc'[t] = "idle" /\ UNCHANGED <<history, stateFile>>
      BY <2>10, <1>f DEF Return, Goto, TypeOK
    <3>. QED  BY <3>1, <3>2, <2>u, <2>p, <1>k
  <2>11. CASE LoadForPurge(t) \/ SavePurged(t) \/ RemoveHistory(t) \/ RemoveRunLock(t)
    BY <2>11, <1>i
    DEF LoadForPurge, SavePurged, RemoveHistory, RemoveRunLock, SaveState, Goto, Undisturbed
  <2>. QED
    BY <2>r, <2>1, <2>2, <2>3, <2>4, <2>5, <2>6, <2>7, <2>8, <2>9, <2>10, <2>11 DEF RunStep
<1>c. CASE KillDaemon \/ \E p \in Procs : IOError(p) \/ KillExternal(p)
  BY <1>c, <1>f DEF KillDaemon, Die, IOError, KillExternal
<1>d. CASE \E x \in orphans : CloseOrphan(x[1], x[2]) \/ LeaveOrphan(x[1], x[2])
  BY <1>d, <1>i DEF Undisturbed
<1>e. CASE \E j \in Jobs : ReadOrphans(j)
  <2>1. PICK j \in Jobs : ReadOrphans(j)
    BY <1>e
  <2>2. history[j] = <<>>
    BY <2>1, <1>i DEF ReadOrphans, Undisturbed
  <2>3. DOMAIN <<>> = {}
    OBVIOUS
  <2>4. OpenRuns(<<>>) = {}
    BY <2>3 DEF OpenRuns, Runs
  <2>5. orphans' = {} /\ UNCHANGED <<history, stateFile, pc, call, mem, daemon>>
    BY <2>1, <2>2, <2>4 DEF ReadOrphans
  <2>. QED  BY <2>5, <1>u
<1>g. CASE StartDaemon \/ Serve \/ Midnight \/ UNCHANGED vars
  BY <1>g, <1>u, <1>i DEF StartDaemon, Serve, Midnight, vars, Undisturbed
<1>. QED  BY <1>a, <1>b, <1>c, <1>d, <1>e, <1>g DEF Next

\* For one goroutine and any jobs: until something fails, consecutiveFailures is the length of
\* the failure streak that the history shows (finish of runner.go, the circuit breaker's input).
THEOREM StreakCounts ==
  ASSUME NEW CONSTANT t, Threads = {t}, Externals = {}
  PROVE  Spec => []StreakExact
<1>1. Init => StreakInv(t)
  <2>. SUFFICES ASSUME Init PROVE StreakInv(t)
    OBVIOUS
  <2>1. t \in Procs /\ NoCall.run.reason = ""
    BY DEF NoCall, NewCall, NewRun
  <2>2. Undisturbed(t)
    BY <2>1 DEF Init, Undisturbed
  <2>3. \A j \in Jobs : Streak(history[j]) = {} 
    <3>1. DOMAIN <<>> = {}
      OBVIOUS
    <3>. QED  BY <3>1 DEF Init, Streak
  <2>4. \A j \in Jobs : Failures(t, j) = 0
    BY <2>1 DEF Init, Failures, Empty, NoState
  <2>. QED  BY <2>2, <2>3, <2>4, FS_EmptySet DEF StreakInv
<1>2. RunInv /\ StreakInv(t) /\ [Next]_vars => StreakInv(t)'
  BY StreakNext
<1>3. StreakInv(t) => StreakExact
  BY DEF StreakInv, StreakExact, Failures
<1>. QED  BY <1>1, <1>2, <1>3, RunInit, RunNext, PTL DEF Spec
=============================================================================
