----------------------------- MODULE DaemonLock ------------------------------
(***************************************************************************)
(* Liveness of the daemon: daemon.lock, the heartbeat in daemon.json, and  *)
(* the clients that read them: `status` and `daemon --detach`              *)
(* (internal/daemon/daemon.go Run and heartbeatLoop,                       *)
(* internal/daemon/trigger_client.go, internal/cli/daemon.go).             *)
(*                                                                         *)
(* flock is modelled by what the code asks of it: one holder at most,      *)
(* released when the holder dies.  A client tests the lock by taking it.   *)
(***************************************************************************)
EXTENDS Naturals, FiniteSets

CONSTANTS
  Daemons,    \* daemon processes
  Clients,    \* processes that run status or daemon --detach
  Free,       \* nobody holds the lock
  None,       \* there is no daemon.json
  MaxStarts,  \* bound: daemons started
  MaxCalls,   \* bound: client calls
  MaxSleeps   \* bound: heartbeats that grow old while their daemon serves

ASSUME NullAssumption == Free \notin Daemons \cup Clients /\ Daemons \cap Clients = {}
ASSUME NoneAssumption == None \notin [by: Daemons, fresh: BOOLEAN]

VARIABLES
  lock,       \* holder of daemon.lock
  hb,         \* daemon.json
  pc,         \* where each daemon is in Run
  client,     \* where each client is
  refusedBy,  \* history variable: who held the lock when a daemon gave up
  starts, calls, sleeps   \* counters for the bounds

vars == <<lock, hb, pc, client, refusedBy, starts, calls, sleeps>>
counters == <<starts, calls, sleeps>>

\* kind is the command; saw whether a daemon held the lock at some moment of the call;
\* misled whether the lock it found taken was taken by another client's test.
Idle == [at |-> "idle", kind |-> "status", spawned |-> FALSE, saw |-> FALSE, misled |-> FALSE,
         answer |-> "none"]

-----------------------------------------------------------------------------
(***************************************************************************)
(* Run.                                                                    *)
(***************************************************************************)
Start(d) ==
  /\ pc[d] = "off" /\ starts < MaxStarts
  /\ pc' = [pc EXCEPT ![d] = "starting"]
  /\ starts' = starts + 1
  /\ UNCHANGED <<lock, hb, client, refusedBy, calls, sleeps>>

Witnessed == [c \in Clients |-> IF client[c].at = "idle" THEN client[c]
                                ELSE [client[c] EXCEPT !.saw = TRUE]]

\* Mutant of TakeLock: the answer of TryLock is not looked at.
TakeAnyway(d) ==
  /\ pc[d] = "starting"
  /\ lock' = d /\ pc' = [pc EXCEPT ![d] = "serving"] /\ client' = Witnessed
  /\ UNCHANGED <<hb, refusedBy, counters>>

TakeLock(d) ==
  /\ pc[d] = "starting" /\ lock = Free
  /\ lock' = d /\ pc' = [pc EXCEPT ![d] = "serving"] /\ client' = Witnessed
  /\ UNCHANGED <<hb, refusedBy, counters>>

\* ErrAlreadyRunning.
GiveUp(d) ==
  /\ pc[d] = "starting" /\ lock # Free
  /\ pc' = [pc EXCEPT ![d] = "off"]
  /\ refusedBy' = refusedBy \cup {lock}
  /\ UNCHANGED <<lock, hb, client, counters>>

\* Mutant of Beat: the heartbeat is written at the start only.
BeatOnce(d) ==
  /\ pc[d] = "serving" /\ (hb # None => hb.by # d)
  /\ hb' = [by |-> d, fresh |-> TRUE]
  /\ UNCHANGED <<lock, pc, client, refusedBy, counters>>

\* heartbeatLoop, once at the start and every 15 seconds.
Beat(d) ==
  /\ pc[d] = "serving" /\ hb # [by |-> d, fresh |-> TRUE]
  /\ hb' = [by |-> d, fresh |-> TRUE]
  /\ UNCHANGED <<lock, pc, client, refusedBy, counters>>

\* Shutting down takes up to shutdownGrace, and the heartbeat stops first.
Stop(d) ==
  /\ pc[d] = "serving"
  /\ pc' = [pc EXCEPT ![d] = "stopping"]
  /\ UNCHANGED <<lock, hb, client, refusedBy, counters>>

\* Run joins its loops and returns; the deferred function unlocks first.
Unlock(d) ==
  /\ pc[d] = "stopping"
  /\ lock' = Free /\ pc' = [pc EXCEPT ![d] = "unlocked"]
  /\ UNCHANGED <<hb, client, refusedBy, counters>>

RemoveHeartbeat(d) ==
  /\ pc[d] = "unlocked"
  /\ hb' = None /\ pc' = [pc EXCEPT ![d] = "off"]
  /\ UNCHANGED <<lock, client, refusedBy, counters>>

\* kill -9: the kernel releases the lock, daemon.json stays.
Kill(d) ==
  /\ pc[d] # "off"
  /\ pc' = [pc EXCEPT ![d] = "off"]
  /\ lock' = IF lock = d THEN Free ELSE lock
  /\ UNCHANGED <<hb, client, refusedBy, counters>>

\* A minute passes without a heartbeat: its daemon is gone, or the machine slept.
GrowOld ==
  /\ hb # None /\ hb.fresh
  /\ hb' = [hb EXCEPT !.fresh = FALSE]
  /\ IF pc[hb.by] = "serving"
     THEN sleeps < MaxSleeps /\ sleeps' = sleeps + 1
     ELSE UNCHANGED sleeps
  /\ UNCHANGED <<lock, pc, client, refusedBy, starts, calls>>

-----------------------------------------------------------------------------
(***************************************************************************)
(* status, and daemon --detach.                                            *)
(***************************************************************************)
Go(c, at) == client' = [client EXCEPT ![c].at = at]
Answer(c, what) == client' = [client EXCEPT ![c].at = "answered", ![c].answer = what]

Call(c, kind) ==
  /\ client[c].at = "idle" /\ calls < MaxCalls
  /\ client' = [client EXCEPT ![c] = [Idle EXCEPT !.at = "read", !.kind = kind,
                                                  !.saw = lock \in Daemons]]
  /\ calls' = calls + 1
  /\ UNCHANGED <<lock, hb, pc, refusedBy, starts, sleeps>>

\* What a call does when the daemon is, or is not, alive.
Alive(c, misled) ==
  LET found == [client[c] EXCEPT !.misled = misled] IN
  client' = [client EXCEPT ![c] = IF found.kind = "status"
                                  THEN [found EXCEPT !.at = "answered", !.answer = "running"]
                                  ELSE [found EXCEPT !.at = "reread"]]
NotAlive(c, what) ==
  CASE client[c].kind = "status" -> Answer(c, what)
    [] client[c].kind = "detach" -> Go(c, IF client[c].spawned THEN "read" ELSE "spawn")

ReadHeartbeat(c) ==
  /\ client[c].at = "read"
  /\ \/ hb = None /\ NotAlive(c, "stopped")
     \/ hb # None /\ ~hb.fresh /\ NotAlive(c, "stale")
     \/ hb # None /\ hb.fresh /\ Go(c, "probe")
  /\ UNCHANGED <<lock, hb, pc, refusedBy, counters>>

\* Mutant of LockHeld: the heartbeat is believed.
BelieveHeartbeat(c) ==
  /\ client[c].at = "probe" /\ Alive(c, FALSE)
  /\ UNCHANGED <<lock, hb, pc, refusedBy, counters>>

LockHeld(c) ==
  /\ client[c].at = "probe"
  /\ \/ lock # Free /\ Alive(c, lock \in Clients) /\ UNCHANGED lock
     \/ lock = Free /\ lock' = c /\ Go(c, "release")
  /\ UNCHANGED <<hb, pc, refusedBy, counters>>

ReleaseProbe(c) ==
  /\ client[c].at = "release"
  /\ lock' = Free /\ NotAlive(c, "stale")
  /\ UNCHANGED <<hb, pc, refusedBy, counters>>

\* The child outlives the client, whatever becomes of it.
Spawn(c) ==
  /\ client[c].at = "spawn"
  /\ \E d \in Daemons :
       /\ pc[d] = "off" /\ starts < MaxStarts
       /\ pc' = [pc EXCEPT ![d] = "starting"]
  /\ starts' = starts + 1
  /\ client' = [client EXCEPT ![c].at = "read", ![c].spawned = TRUE]
  /\ UNCHANGED <<lock, hb, refusedBy, calls, sleeps>>

\* TriggerGrace is over.
TimeOut(c) ==
  /\ client[c].at = "read" /\ client[c].spawned
  /\ Answer(c, "failed")
  /\ UNCHANGED <<lock, hb, pc, refusedBy, counters>>

\* The pid is taken from daemon.json, read once more; a nil heartbeat is dereferenced.
Reread(c) ==
  /\ client[c].at = "reread"
  /\ Answer(c, IF hb = None THEN "panic" ELSE "started")
  /\ UNCHANGED <<lock, hb, pc, refusedBy, counters>>

Return(c) ==
  /\ client[c].at = "answered"
  /\ client' = [client EXCEPT ![c] = Idle]
  /\ UNCHANGED <<lock, hb, pc, refusedBy, counters>>

-----------------------------------------------------------------------------
Init ==
  /\ lock = Free /\ hb = None /\ refusedBy = {}
  /\ pc = [d \in Daemons |-> "off"]
  /\ client = [c \in Clients |-> Idle]
  /\ starts = 0 /\ calls = 0 /\ sleeps = 0

DaemonStep(d) == Start(d) \/ TakeLock(d) \/ GiveUp(d) \/ Beat(d) \/ Stop(d) \/ Unlock(d)
                   \/ RemoveHeartbeat(d) \/ Kill(d)

ClientStep(c) == (\E kind \in {"status", "detach"} : Call(c, kind)) \/ ReadHeartbeat(c)
                   \/ LockHeld(c) \/ ReleaseProbe(c) \/ Spawn(c) \/ TimeOut(c)
                   \/ Reread(c) \/ Return(c)

Next == (\E d \in Daemons : DaemonStep(d)) \/ (\E c \in Clients : ClientStep(c)) \/ GrowOld

Spec == Init /\ [][Next]_vars

\* The heartbeat goroutine runs.
FairSpec == Spec /\ \A d \in Daemons : WF_vars(Beat(d))

-----------------------------------------------------------------------------
(***************************************************************************)
(* Properties.                                                             *)
(***************************************************************************)
Heartbeat == [by: Daemons, fresh: BOOLEAN]
ClientState ==
  [at: {"idle", "read", "probe", "release", "spawn", "reread", "answered"},
   kind: {"status", "detach"}, spawned: BOOLEAN, saw: BOOLEAN,
   misled: BOOLEAN,
   answer: {"none", "stopped", "stale", "running", "failed", "panic", "started"}]

\* Every variable holds a value of its kind.
TypeOK ==
  /\ lock \in Daemons \cup Clients \cup {Free} /\ hb \in Heartbeat \cup {None}
  /\ pc \in [Daemons -> {"off", "starting", "serving", "stopping", "unlocked"}]
  /\ client \in [Clients -> ClientState]
  /\ refusedBy \subseteq Daemons \cup Clients
  /\ starts \in Nat /\ calls \in Nat /\ sleeps \in Nat

\* Two daemons never serve one state root at a time: they would run every job twice.
Holding(d) == pc[d] \in {"serving", "stopping"}
OneDaemon == \A d, e \in Daemons : Holding(d) /\ Holding(e) => d = e

\* A call answers "running" or "started" only if a daemon held the lock during it, or if another
\* client was testing the lock: a heartbeat that a killed daemon left behind convinces nobody.
RunningIsTrue ==
  \A c \in Clients : client[c].answer \in {"running", "started"} =>
    client[c].saw \/ client[c].misled

\* Whatever its predecessor did to daemon.json and however long the machine slept, a daemon that
\* goes on serving has a fresh heartbeat of its own again.
HeartbeatReturns ==
  \A d \in Daemons : pc[d] = "serving" ~> (hb = [by |-> d, fresh |-> TRUE] \/ pc[d] # "serving")

(***************************************************************************)
(* What comments and documents say and the code does not do (README).      *)
(***************************************************************************)
\* daemon --detach is idempotent: a call that found a daemon alive answers with its pid.
DetachAnswers == \A c \in Clients : client[c].answer # "panic"

\* A daemon gives up only because another daemon serves.
RefusedByDaemon == refusedBy \subseteq Daemons

\* No client takes the lock of another client's test for a daemon's.
NoneMisled == \A c \in Clients : ~client[c].misled

\* status says "stopped" only of a state root where no daemon with a heartbeat serves.
StoppedIsTrue ==
  [][\A d \in Daemons : pc[d] = "serving" /\ hb # None /\ hb.by = d => hb' # None]_vars
=============================================================================
