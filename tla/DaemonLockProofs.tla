-------------------------- MODULE DaemonLockProofs ---------------------------
(***************************************************************************)
(* One daemon serves, and who is told that it runs is told the truth, for  *)
(* every set of daemons and of clients.                                    *)
(*                                                                         *)
(* OneDaemon is not inductive.  A client that tests the lock takes it and  *)
(* gives it back, and a daemon that unlocks makes it Free, so the proof    *)
(* needs to know that whoever is about to release the lock holds it.       *)
(*                                                                         *)
(* RunningIsTrue is not inductive either: `daemon --detach` finds the lock *)
(* taken in one step and answers in a later one, when the daemon may be    *)
(* gone.  The proof carries what the call has found until it answers.      *)
(***************************************************************************)
EXTENDS DaemonLock, TLAPS

\* A daemon that serves, and a client about to give the lock back, hold it.
HolderInv ==
  /\ \A d \in Daemons : Holding(d) => lock = d
  /\ \A c \in Clients : client[c].at = "release" => lock = c

LockInv == TypeOK /\ HolderInv

\* A client that goes on or answers stays in ClientState, is where it went, and leaves the
\* other clients alone.
LEMMA ClientMoves ==
  ASSUME TypeOK, NEW c \in Clients,
         NEW where \in {"idle", "read", "probe", "release", "spawn", "reread", "answered"},
         NEW what \in {"none", "stopped", "stale", "running", "failed", "panic", "started"}
  PROVE  /\ Go(c, where) => /\ client' \in [Clients -> ClientState]
                            /\ client'[c].at = where
                            /\ \A e \in Clients \ {c} : client'[e] = client[e]
         /\ Answer(c, what) => /\ client' \in [Clients -> ClientState]
                               /\ client'[c].at = "answered"
                               /\ \A e \in Clients \ {c} : client'[e] = client[e]
  BY DEF TypeOK, Go, Answer, ClientState

\* A call that found no daemon answers, reads on or spawns: it does not release the lock again.
LEMMA NotAliveMoves ==
  ASSUME TypeOK, NEW c \in Clients, NEW what \in {"stopped", "stale"}, NotAlive(c, what)
  PROVE  /\ client' \in [Clients -> ClientState]
         /\ client'[c].at # "release"
         /\ \A e \in Clients \ {c} : client'[e] = client[e]
<1>1. client[c].kind \in {"status", "detach"}
  BY DEF TypeOK, ClientState
<1>2. CASE client[c].kind = "status"
  BY <1>2, ClientMoves DEF NotAlive
<1>3. CASE client[c].kind = "detach"
  <2>1. PICK where \in {"read", "spawn"} : Go(c, where)
    BY <1>3 DEF NotAlive
  <2> QED BY <2>1, ClientMoves
<1> QED BY <1>1, <1>2, <1>3

\* A client that found a daemon answers or reads daemon.json again; it releases nothing.
LEMMA AliveMoves ==
  ASSUME TypeOK, NEW c \in Clients, NEW m \in BOOLEAN, Alive(c, m)
  PROVE  /\ client' \in [Clients -> ClientState]
         /\ client'[c].at # "release"
         /\ \A e \in Clients \ {c} : client'[e] = client[e]
<1> DEFINE found == [client[c] EXCEPT !.misled = m]
           next == IF found.kind = "status"
                   THEN [found EXCEPT !.at = "answered", !.answer = "running"]
                   ELSE [found EXCEPT !.at = "reread"]
<1>1. client \in [Clients -> ClientState]
  BY DEF TypeOK
<1>2. next \in ClientState /\ next.at # "release"
  BY <1>1 DEF ClientState
<1>3. client' = [client EXCEPT ![c] = next]
  BY Zenon DEF Alive
<1> HIDE DEF next, found
<1> QED BY <1>1, <1>2, <1>3

LEMMA TypeStep == TypeOK /\ [Next]_vars => TypeOK'
<1> SUFFICES ASSUME TypeOK, [Next]_vars PROVE TypeOK'
  OBVIOUS
<1> USE DEF TypeOK, Heartbeat
<1>1. ASSUME NEW d \in Daemons, DaemonStep(d) PROVE TypeOK'
  <2> USE <1>1 DEF counters
  <2>1. CASE Start(d)
    BY <2>1 DEF Start
  <2>2. CASE TakeLock(d)
    <3>1. client' \in [Clients -> ClientState]
      BY <2>2 DEF TakeLock, Witnessed, ClientState
    <3> QED BY <2>2, <3>1 DEF TakeLock
  <2>3. CASE GiveUp(d)
    BY <2>3 DEF GiveUp
  <2>4. CASE Beat(d)
    BY <2>4 DEF Beat
  <2>5. CASE Stop(d)
    BY <2>5 DEF Stop
  <2>6. CASE Unlock(d)
    BY <2>6 DEF Unlock
  <2>7. CASE RemoveHeartbeat(d)
    BY <2>7 DEF RemoveHeartbeat
  <2>8. CASE Kill(d)
    BY <2>8 DEF Kill
  <2> QED BY <2>1, <2>2, <2>3, <2>4, <2>5, <2>6, <2>7, <2>8 DEF DaemonStep
<1>2. ASSUME NEW c \in Clients, ClientStep(c) PROVE TypeOK'
  <2> USE <1>2 DEF counters
  <2>1. CASE \E kind \in {"status", "detach"} : Call(c, kind)
    <3>1. PICK kind \in {"status", "detach"} : Call(c, kind)
      BY <2>1
    <3> DEFINE held == lock \in Daemons
               called == [Idle EXCEPT !.at = "read", !.kind = kind, !.saw = held]
    <3>3. held \in BOOLEAN
      OBVIOUS
    <3>4. client' = [client EXCEPT ![c] = called]
      BY <3>1, Zenon DEF Call
    <3> HIDE DEF held
    <3>5. called \in ClientState
      BY <3>3 DEF ClientState, Idle
    <3>2. client' \in [Clients -> ClientState]
      BY <3>4, <3>5
    <3> QED BY <3>1, <3>2 DEF Call
  <2>2. CASE ReadHeartbeat(c)
    <3>1. client' \in [Clients -> ClientState]
      BY <2>2, NotAliveMoves, ClientMoves DEF ReadHeartbeat
    <3> QED BY <2>2, <3>1 DEF ReadHeartbeat
  <2>3. CASE LockHeld(c)
    <3>1. client' \in [Clients -> ClientState]
      <4>1. CASE lock # Free
        <5> DEFINE byClient == lock \in Clients
        <5>1. Alive(c, byClient)
          BY <2>3, <4>1, Zenon DEF LockHeld
        <5>2. byClient \in BOOLEAN
          OBVIOUS
        <5> HIDE DEF byClient
        <5> QED BY <5>1, <5>2, AliveMoves
      <4>2. CASE lock = Free
        BY <2>3, <4>2, ClientMoves DEF LockHeld
      <4> QED BY <4>1, <4>2
    <3> QED BY <2>3, <3>1 DEF LockHeld
  <2>4. CASE ReleaseProbe(c)
    <3>1. client' \in [Clients -> ClientState]
      BY <2>4, NotAliveMoves DEF ReleaseProbe
    <3> QED BY <2>4, <3>1 DEF ReleaseProbe
  <2>5. CASE Spawn(c)
    <3> DEFINE spawning == [client[c] EXCEPT !.at = "read", !.spawned = TRUE]
    <3>1. spawning \in ClientState
      BY DEF ClientState
    <3>2. client' = [client EXCEPT ![c] = spawning]
      BY <2>5 DEF Spawn
    <3>3. client' \in [Clients -> ClientState]
      BY <3>1, <3>2
    <3> QED BY <2>5, <3>3 DEF Spawn
  <2>6. CASE TimeOut(c)
    <3>1. client' \in [Clients -> ClientState]
      BY <2>6, ClientMoves DEF TimeOut
    <3> QED BY <2>6, <3>1 DEF TimeOut
  <2>7. CASE Reread(c)
    <3>1. client' \in [Clients -> ClientState]
      BY <2>7, ClientMoves DEF Reread
    <3> QED BY <2>7, <3>1 DEF Reread
  <2>8. CASE Return(c)
    <3>1. client' \in [Clients -> ClientState]
      BY <2>8 DEF Return, Idle, ClientState
    <3> QED BY <2>8, <3>1 DEF Return
  <2> QED BY <2>1, <2>2, <2>3, <2>4, <2>5, <2>6, <2>7, <2>8 DEF ClientStep
<1>3. CASE GrowOld
  <2>1. hb' \in Heartbeat
    BY <1>3 DEF GrowOld
  <2>2. sleeps' \in Nat
    BY <1>3 DEF GrowOld
  <2> QED BY <1>3, <2>1, <2>2 DEF GrowOld
<1>4. CASE UNCHANGED vars
  BY <1>4 DEF vars
<1> QED BY <1>1, <1>2, <1>3, <1>4 DEF Next

LEMMA HolderStep == LockInv /\ [Next]_vars => HolderInv'
<1> SUFFICES ASSUME TypeOK, HolderInv, [Next]_vars PROVE HolderInv'
  BY DEF LockInv
<1> USE NullAssumption DEF TypeOK, HolderInv, Holding
<1>1. ASSUME NEW d \in Daemons, DaemonStep(d) PROVE HolderInv'
  <2> USE <1>1
  <2>1. CASE Start(d)
    BY <2>1 DEF Start
  <2>2. CASE TakeLock(d)
    <3>1. \A c \in Clients : client'[c].at = client[c].at
      BY <2>2 DEF TakeLock, Witnessed, ClientState
    <3> QED BY <2>2, <3>1 DEF TakeLock
  <2>3. CASE GiveUp(d)
    BY <2>3 DEF GiveUp
  <2>4. CASE Beat(d)
    BY <2>4 DEF Beat
  <2>5. CASE Stop(d)
    BY <2>5 DEF Stop
  <2>6. CASE Unlock(d)
    BY <2>6 DEF Unlock
  <2>7. CASE RemoveHeartbeat(d)
    BY <2>7 DEF RemoveHeartbeat
  <2>8. CASE Kill(d)
    BY <2>8 DEF Kill
  <2> QED BY <2>1, <2>2, <2>3, <2>4, <2>5, <2>6, <2>7, <2>8 DEF DaemonStep
<1>2. ASSUME NEW c \in Clients, ClientStep(c) PROVE HolderInv'
  <2> USE <1>2 DEF ClientState
  <2>1. CASE \E kind \in {"status", "detach"} : Call(c, kind)
    BY <2>1 DEF Call, Idle
  <2>2. CASE ReadHeartbeat(c)
    <3>1. lock' = lock /\ pc' = pc
      BY <2>2 DEF ReadHeartbeat
    <3>2. /\ client'[c].at # "release"
          /\ \A e \in Clients \ {c} : client'[e] = client[e]
      BY <2>2, NotAliveMoves, ClientMoves DEF ReadHeartbeat
    <3> QED BY <3>1, <3>2
  <2>3. CASE LockHeld(c)
    <3>1. CASE lock = Free
      <4>1. lock' = c /\ pc' = pc /\ Go(c, "release")
        BY <2>3, <3>1 DEF LockHeld
      <4>2. \A e \in Clients \ {c} : client'[e].at # "release"
        BY <3>1, <4>1, ClientMoves
      <4>3. \A d \in Daemons : ~Holding(d)
        BY <3>1
      <4> QED BY <4>1, <4>2, <4>3
    <3>2. CASE lock # Free
      <4>1. lock' = lock /\ pc' = pc
        BY <2>3, <3>2 DEF LockHeld
      <4> DEFINE byClient == lock \in Clients
      <4>2. Alive(c, byClient)
        BY <2>3, <3>2, Zenon DEF LockHeld
      <4>3. byClient \in BOOLEAN
        OBVIOUS
      <4> HIDE DEF byClient
      <4>4. /\ client'[c].at # "release"
            /\ \A e \in Clients \ {c} : client'[e] = client[e]
        BY <4>2, <4>3, AliveMoves
      <4> QED BY <4>1, <4>4
    <3> QED BY <3>1, <3>2
  <2>4. CASE ReleaseProbe(c)
    <3>1. lock = c /\ pc' = pc
      BY <2>4 DEF ReleaseProbe
    <3>2. /\ client'[c].at # "release"
          /\ \A e \in Clients \ {c} : client'[e] = client[e]
      BY <2>4, NotAliveMoves DEF ReleaseProbe
    <3> QED BY <3>1, <3>2
  <2>5. CASE Spawn(c)
    BY <2>5 DEF Spawn
  <2>6. CASE TimeOut(c)
    BY <2>6, ClientMoves DEF TimeOut
  <2>7. CASE Reread(c)
    BY <2>7, ClientMoves DEF Reread
  <2>8. CASE Return(c)
    BY <2>8 DEF Return, Idle
  <2> QED BY <2>1, <2>2, <2>3, <2>4, <2>5, <2>6, <2>7, <2>8 DEF ClientStep
<1>3. CASE GrowOld
  BY <1>3 DEF GrowOld
<1>4. CASE UNCHANGED vars
  BY <1>4 DEF vars
<1> QED BY <1>1, <1>2, <1>3, <1>4 DEF Next

LEMMA LockInvariant == Spec => []LockInv
<1>1. Init => LockInv
  BY NullAssumption DEF Init, LockInv, TypeOK, HolderInv, Holding, Idle, ClientState
<1>2. LockInv /\ [Next]_vars => LockInv'
  BY TypeStep, HolderStep DEF LockInv
<1> QED BY <1>1, <1>2, PTL DEF Spec

\* Every variable holds a value of its kind, in every reachable state.
THEOREM LockTypeCorrect == Spec => []TypeOK
<1>1. LockInv => TypeOK
  BY DEF LockInv
<1> QED BY <1>1, LockInvariant, PTL

\* However many daemons are started, stopped and killed, and whatever clients test the lock in
\* between, two daemons never serve the same state root: Run takes daemon.lock before it does
\* anything else, and keeps it until its loops have ended.
THEOREM OneDaemonServes == Spec => []OneDaemon
<1>1. LockInv => OneDaemon
  BY DEF LockInv, HolderInv, OneDaemon
<1> QED BY <1>1, LockInvariant, PTL

-----------------------------------------------------------------------------
(***************************************************************************)
(* What a client has found.                                                *)
(***************************************************************************)
\* There is a reason to answer that the daemon runs.
Excused(c) == client[c].saw \/ client[c].misled

\* A call in progress has seen the daemon that holds the lock; one that is about to answer, or
\* answers, that the daemon runs has a reason.
Found(c) ==
  /\ client[c].at # "idle" /\ lock \in Daemons => client[c].saw
  /\ client[c].at = "reread" => Excused(c)
  /\ client[c].answer \in {"running", "started"} => Excused(c)

FoundInv == \A c \in Clients : Found(c)

\* A client that goes on or answers forgets nothing it has found.
LEMMA MovesRemember ==
  ASSUME TypeOK, NEW c \in Clients,
         NEW where \in {"idle", "read", "probe", "release", "spawn", "reread", "answered"},
         NEW what \in {"none", "stopped", "stale", "running", "failed", "panic", "started"}
  PROVE  /\ Go(c, where) => /\ client'[c].saw = client[c].saw
                            /\ client'[c].misled = client[c].misled
                            /\ client'[c].answer = client[c].answer
         /\ Answer(c, what) => /\ client'[c].saw = client[c].saw
                               /\ client'[c].misled = client[c].misled
                               /\ client'[c].answer = what
  BY DEF TypeOK, Go, Answer, ClientState

\* A call that found no daemon says so, or goes on; it forgets nothing.
LEMMA NotAliveFound ==
  ASSUME TypeOK, NEW c \in Clients, Found(c), NEW what \in {"stopped", "stale"},
         client[c].at # "idle", NotAlive(c, what), lock' \in Daemons => lock \in Daemons
  PROVE  Found(c)'
<1>1. client[c].kind \in {"status", "detach"}
  BY DEF TypeOK, ClientState
<1>2. CASE client[c].kind = "status"
  BY <1>2, MovesRemember, ClientMoves DEF NotAlive, Found, Excused
<1>3. CASE client[c].kind = "detach"
  <2>1. PICK where \in {"read", "spawn"} : Go(c, where)
    BY <1>3 DEF NotAlive
  <2>2. client'[c].at = where
    BY <2>1, ClientMoves
  <2> QED BY <2>1, <2>2, MovesRemember DEF Found, Excused
<1> QED BY <1>1, <1>2, <1>3

\* A call that found the lock taken has seen a daemon or was misled by a client.
LEMMA AliveFound ==
  ASSUME TypeOK, NEW c \in Clients, Found(c), client[c].at = "probe", lock # Free,
         lock' = lock, Alive(c, lock \in Clients)
  PROVE  Found(c)'
<1> DEFINE m == lock \in Clients
           found == [client[c] EXCEPT !.misled = m]
           next == IF found.kind = "status"
                   THEN [found EXCEPT !.at = "answered", !.answer = "running"]
                   ELSE [found EXCEPT !.at = "reread"]
<1>1. client \in [Clients -> ClientState]
  BY DEF TypeOK
<1>2. client[c].saw \/ m
  BY DEF Found, TypeOK
<1>3. client' = [client EXCEPT ![c] = next]
  BY Zenon DEF Alive
<1>4. m \in BOOLEAN
  OBVIOUS
<1>5. lock \in Daemons => client[c].saw
  BY DEF Found
<1> HIDE DEF m
<1>6. next.saw = client[c].saw /\ next.misled = m
  BY <1>1, <1>4 DEF ClientState
<1> HIDE DEF next, found
<1>7. client'[c] = next
  BY <1>1, <1>3
<1> QED BY <1>2, <1>5, <1>6, <1>7 DEF Found, Excused

LEMMA FoundStep == LockInv /\ FoundInv /\ [Next]_vars => FoundInv'
<1> SUFFICES ASSUME TypeOK, HolderInv, FoundInv, [Next]_vars PROVE FoundInv'
  BY DEF LockInv
<1>1. ASSUME NEW d \in Daemons, DaemonStep(d) PROVE FoundInv'
  <2>1. CASE TakeLock(d)
    <3>1. ASSUME NEW c \in Clients
          PROVE  /\ client'[c].at = client[c].at
                 /\ client[c].at # "idle" \/ client[c].saw => client'[c].saw
                 /\ client'[c].misled = client[c].misled
                 /\ client'[c].answer = client[c].answer
      <4>1. client[c] \in ClientState
        BY DEF TypeOK
      <4>2. client'[c] = IF client[c].at = "idle" THEN client[c]
                         ELSE [client[c] EXCEPT !.saw = TRUE]
        BY <2>1 DEF TakeLock, Witnessed
      <4>3. \A r \in ClientState : LET s == [r EXCEPT !.saw = TRUE]
                                   IN /\ s.saw = TRUE /\ s.at = r.at
                                      /\ s.misled = r.misled /\ s.answer = r.answer
        BY DEF ClientState
      <4>4. CASE client[c].at = "idle"
        BY <4>2, <4>4
      <4>5. CASE client[c].at # "idle"
        BY <4>1, <4>2, <4>3, <4>5
      <4> QED BY <4>4, <4>5
    <3> QED BY <3>1 DEF FoundInv, Found, Excused
  <2>2. CASE ~TakeLock(d)
    <3>1. UNCHANGED client /\ (lock' = lock \/ lock' = Free)
      BY <1>1, <2>2 DEF DaemonStep, Start, GiveUp, Beat, Stop, Unlock, RemoveHeartbeat, Kill
    <3> QED BY <3>1, NullAssumption DEF FoundInv, Found, Excused
  <2> QED BY <2>1, <2>2
<1>2. ASSUME NEW c \in Clients, ClientStep(c) PROVE FoundInv'
  <2>1. lock' = lock \/ lock' \in Clients \cup {Free}
    BY <1>2 DEF ClientStep, Call, ReadHeartbeat, LockHeld, ReleaseProbe, Spawn, TimeOut, Reread,
                Return
  <2>2. lock' \in Daemons => lock \in Daemons
    BY <2>1, NullAssumption
  <2>3. ASSUME Found(c)', \A e \in Clients \ {c} : client'[e] = client[e] PROVE FoundInv'
    BY <2>2, <2>3 DEF FoundInv, Found, Excused
  <2>4. Found(c) /\ client \in [Clients -> ClientState]
    BY DEF FoundInv, TypeOK
  <2>5. CASE \E kind \in {"status", "detach"} : Call(c, kind)
    <3>1. PICK kind \in {"status", "detach"} : Call(c, kind)
      BY <2>5
    <3> DEFINE held == lock \in Daemons
               called == [Idle EXCEPT !.at = "read", !.kind = kind, !.saw = held]
    <3>2. client' = [client EXCEPT ![c] = called] /\ lock' = lock
      BY <3>1, Zenon DEF Call
    <3>3. called.saw = held /\ called.at = "read" /\ called.answer = "none"
      BY DEF Idle
    <3> HIDE DEF called
    <3>4. client'[c] = called /\ \A e \in Clients \ {c} : client'[e] = client[e]
      BY <2>4, <3>2
    <3>5. Found(c)'
      BY <3>2, <3>3, <3>4 DEF Found
    <3> QED BY <3>4, <3>5, <2>3
  <2>6. CASE ReadHeartbeat(c)
    <3>1. client[c].at # "idle" /\ lock' = lock
      BY <2>6 DEF ReadHeartbeat
    <3>2. CASE Go(c, "probe")
      <4>1. Found(c)'
        BY <2>4, <3>1, <3>2, ClientMoves, MovesRemember DEF Found, Excused
      <4> QED BY <4>1, <3>2, ClientMoves, <2>3
    <3>3. CASE \E what \in {"stopped", "stale"} : NotAlive(c, what)
      <4>1. PICK what \in {"stopped", "stale"} : NotAlive(c, what)
        BY <3>3
      <4>2. Found(c)'
        BY <4>1, <2>2, <2>4, <3>1, NotAliveFound
      <4> QED BY <4>1, <4>2, NotAliveMoves, <2>3
    <3> QED BY <2>6, <3>2, <3>3 DEF ReadHeartbeat
  <2>7. CASE LockHeld(c)
    <3>1. CASE lock # Free
      <4>1. client[c].at = "probe" /\ lock' = lock
        BY <2>7, <3>1 DEF LockHeld
      <4>2. Alive(c, lock \in Clients)
        BY <2>7, <3>1, Zenon DEF LockHeld
      <4>3. Found(c)'
        BY <2>4, <3>1, <4>1, <4>2, AliveFound
      <4> DEFINE byClient == lock \in Clients
      <4>4. byClient \in BOOLEAN /\ Alive(c, byClient)
        BY <4>2
      <4> HIDE DEF byClient
      <4> QED BY <4>3, <4>4, AliveMoves, <2>3
    <3>2. CASE lock = Free
      <4>1. Go(c, "release") /\ lock' = c
        BY <2>7, <3>2 DEF LockHeld
      <4>2. Found(c)'
        BY <2>4, <4>1, ClientMoves, MovesRemember, NullAssumption DEF Found, Excused
      <4> QED BY <4>1, <4>2, ClientMoves, <2>3
    <3> QED BY <3>1, <3>2
  <2>8. CASE ReleaseProbe(c)
    <3>1. client[c].at # "idle" /\ NotAlive(c, "stale")
      BY <2>8 DEF ReleaseProbe
    <3>2. Found(c)'
      BY <2>2, <2>4, <3>1, NotAliveFound
    <3> QED BY <3>1, <3>2, NotAliveMoves, <2>3
  <2>9. CASE Spawn(c)
    <3> DEFINE spawning == [client[c] EXCEPT !.at = "read", !.spawned = TRUE]
    <3>1. client' = [client EXCEPT ![c] = spawning]
      BY <2>9 DEF Spawn
    <3>2. /\ spawning.saw = client[c].saw /\ spawning.misled = client[c].misled
          /\ spawning.answer = client[c].answer /\ spawning.at = "read"
      BY <2>4 DEF ClientState
    <3> HIDE DEF spawning
    <3>3. client'[c] = spawning /\ \A e \in Clients \ {c} : client'[e] = client[e]
      BY <2>4, <3>1
    <3>4. client[c].at # "idle" /\ lock' = lock
      BY <2>9 DEF Spawn
    <3>5. Found(c)'
      BY <2>4, <3>2, <3>3, <3>4 DEF Found, Excused
    <3> QED BY <3>3, <3>5, <2>3
  <2>10. CASE TimeOut(c)
    <3>1. client[c].at # "idle" /\ lock' = lock /\ Answer(c, "failed")
      BY <2>10 DEF TimeOut
    <3>2. Found(c)'
      BY <2>4, <3>1, ClientMoves, MovesRemember DEF Found, Excused
    <3> QED BY <3>1, <3>2, ClientMoves, <2>3
  <2>11. CASE Reread(c)
    <3>1. client[c].at = "reread" /\ lock' = lock
      BY <2>11 DEF Reread
    <3>2. PICK what \in {"panic", "started"} : Answer(c, what)
      BY <2>11 DEF Reread
    <3>3. client'[c].saw = client[c].saw /\ client'[c].misled = client[c].misled
      BY <3>2, MovesRemember
    <3>4. client'[c].at = "answered"
      BY <3>2, ClientMoves
    <3>5. Found(c)'
      BY <2>4, <3>1, <3>3, <3>4 DEF Found, Excused
    <3> QED BY <3>2, <3>5, ClientMoves, <2>3
  <2>12. CASE Return(c)
    <3>1. client'[c] = Idle /\ \A e \in Clients \ {c} : client'[e] = client[e]
      BY <2>4, <2>12 DEF Return
    <3>2. Found(c)'
      BY <3>1 DEF Found, Idle
    <3> QED BY <3>1, <3>2, <2>3
  <2> QED BY <1>2, <2>5, <2>6, <2>7, <2>8, <2>9, <2>10, <2>11, <2>12 DEF ClientStep
<1>3. CASE GrowOld
  BY <1>3 DEF GrowOld, FoundInv, Found, Excused
<1>4. CASE UNCHANGED vars
  BY <1>4 DEF vars, FoundInv, Found, Excused
<1> QED BY <1>1, <1>2, <1>3, <1>4 DEF Next

\* A call answers that the daemon runs only if a daemon held the lock during the call, or another
\* client was testing it: LockHeld asks the kernel, so a heartbeat that outlived its daemon
\* convinces nobody, and the answer of --detach, given after daemon.json is read once more, rests
\* on what the call has found before.
THEOREM RunningIsWitnessed == Spec => []RunningIsTrue
<1>1. Init => FoundInv
  BY DEF Init, FoundInv, Found, Idle
<1>2. FoundInv => RunningIsTrue
  BY DEF FoundInv, Found, Excused, RunningIsTrue
<1> QED BY <1>1, <1>2, LockInvariant, FoundStep, PTL DEF Spec
=============================================================================
