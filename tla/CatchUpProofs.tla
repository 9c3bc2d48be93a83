---------------------------- MODULE CatchUpProofs ----------------------------
(***************************************************************************)
(* What holds of the recurring jobs for every list of jobs, every policy   *)
(* and jitter, every window and cap: a pass that is over has settled the   *)
(* newest occurrence it found missed; and while the machine does not sleep *)
(* the watermark moves on and no occurrence runs twice, if those of a job  *)
(* are further apart than a fire may be from the one it belongs to.        *)
(***************************************************************************)
EXTENDS CatchUp, FiniteSetTheorems, WellFoundedInduction, TLAPS


-----------------------------------------------------------------------------
(***************************************************************************)
(* Sets of instants.                                                       *)
(***************************************************************************)
\* A set of numbers has a least, and a bounded one a greatest.
LEMMA MinOf ==
  ASSUME NEW S \in SUBSET Nat, S # {}
  PROVE  Min(S) \in S /\ \A y \in S : Min(S) <= y
<1>0. S \subseteq Nat
  OBVIOUS
<1>1. PICK x \in S : \A y \in S : ~(<<y, x>> \in OpToRel(<, Nat))
  BY <1>0, NatLessThanWellFounded, WFMin, Zenon
<1>2. \A y \in S : ~(y < x)
  BY <1>0, <1>1 DEF OpToRel
<1>3. \A y \in S : x <= y
  BY <1>0, <1>2
<1> QED BY <1>3 DEF Min

LEMMA MaxOf ==
  ASSUME NEW n \in Nat, NEW S \in SUBSET (0..n), S # {}
  PROVE  Max(S) \in S /\ \A y \in S : y <= Max(S)
<1> DEFINE T == {n - k : k \in S}
<1>0. \A k \in S : k \in Nat /\ k <= n
  OBVIOUS
<1>1. T \in SUBSET Nat /\ T # {}
  <2>1. \A k \in S : n - k \in Nat
    BY <1>0
  <2>2. PICK k \in S : TRUE
    OBVIOUS
  <2>3. n - k \in T
    BY <2>2
  <2> QED BY <2>1, <2>3
<1>2. Min(T) \in T /\ \A y \in T : Min(T) <= y
  <2> HIDE DEF T
  <2> QED BY <1>1, MinOf
<1>3. PICK k \in S : Min(T) = n - k
  BY <1>2
<1>4. \A m \in S : m <= k
  <2> TAKE m \in S
  <2>1. n - m \in T
    OBVIOUS
  <2>2. Min(T) <= n - m
    BY <1>2, <2>1
  <2> QED BY <1>0, <1>3, <2>2
<1> QED BY <1>0, <1>4 DEF Max

-----------------------------------------------------------------------------
(***************************************************************************)
(* The operators of schedule.go and of the pass.                           *)
(***************************************************************************)
LEMMA JobIsOfGrid ==
  ASSUME NEW j \in Ids
  PROVE  /\ Grid[j] \in SUBSET (1..Horizon) /\ Grid[j] \in SUBSET Nat
         /\ \A o \in Grid[j] : o \in Instants /\ o > 0
<1>1. Grid[j] \in SUBSET (1..Horizon) /\ Horizon \in Nat
  BY GridAssumption
<1> QED BY <1>1 DEF Instants

LEMMA MaxOfTwo ==
  ASSUME NEW a \in Nat, NEW b \in Nat
  PROVE  Max({a, b}) \in Nat /\ Max({a, b}) >= a /\ Max({a, b}) >= b
         /\ (a <= b => Max({a, b}) = b)
<1>1. {a, b} \in SUBSET (0..(a + b)) /\ {a, b} # {} /\ a + b \in Nat
  OBVIOUS
<1> DEFINE S == {a, b}
<1>2. Max(S) \in S /\ \A y \in S : y <= Max(S)
  <2> HIDE DEF S
  <2> QED BY <1>1, MaxOf DEF S
<1> QED BY <1>2

\* NextAfter names the first occurrence after t.
LEMMA NextIs ==
  ASSUME NEW j \in Ids, NEW t \in Nat
  PROVE  /\ NextAfter(j, t) \in Nat
         /\ NextAfter(j, t) # 0 => /\ NextAfter(j, t) \in Grid[j] /\ NextAfter(j, t) > t
                                   /\ \A o \in Grid[j] : o > t => NextAfter(j, t) <= o
<1>1. CASE After(j, t) = {}
  BY <1>1 DEF NextAfter
<1>2. CASE After(j, t) # {}
  <2>1. After(j, t) \in SUBSET Nat
    BY JobIsOfGrid DEF After
  <2>2. Min(After(j, t)) \in After(j, t) /\ \A y \in After(j, t) : Min(After(j, t)) <= y
    BY <1>2, <2>1, MinOf
  <2>3. NextAfter(j, t) = Min(After(j, t))
    BY <1>2 DEF NextAfter
  <2> QED BY <2>1, <2>2, <2>3 DEF After
<1> QED BY <1>1, <1>2

\* The occurrences of a job are further apart than a fire may be from the one it belongs to: true
\* of every cron expression without a field for seconds.
Sparse == \A j \in Ids : \A o, p \in Grid[j] : o < p => p - o > 2 * Skew

\* A fire is given a time of the clock.
LEMMA OccurrenceIsInstant ==
  ASSUME NEW j \in Ids, NEW t \in Instants
  PROVE  Occurrence(j, t) \in Instants
<1> DEFINE due   == {o \in Grid[j] : o <= t /\ o + Skew + 1 > t}
           ahead == {o \in Grid[j] : o > t /\ o <= t + Skew}
<1>1. due \in SUBSET (0..Horizon) /\ ahead \in SUBSET Nat /\ ahead \subseteq Instants
      /\ due \subseteq Instants /\ Horizon \in Nat
  BY JobIsOfGrid, GridAssumption DEF Instants
<1>2. Occurrence(j, t) = IF due # {} THEN Max(due) ELSE IF ahead # {} THEN Min(ahead) ELSE t
  BY DEF Occurrence
<1> HIDE DEF due, ahead
<1>3. due # {} => Max(due) \in due
  BY <1>1, MaxOf
<1>4. ahead # {} => Min(ahead) \in ahead
  BY <1>1, MinOf
<1> QED BY <1>1, <1>2, <1>3, <1>4

\* A fire that is early, but within the tolerance, is given the occurrence it was armed for.
LEMMA EarlyFireIsNamed ==
  ASSUME Sparse, NEW j \in Ids, NEW t \in Instants, NEW o \in Grid[j], t <= o, o <= t + MaxEarly
  PROVE  Occurrence(j, t) = o
<1> DEFINE due   == {p \in Grid[j] : p <= t /\ p + Skew + 1 > t}
           ahead == {p \in Grid[j] : p > t /\ p <= t + Skew}
<1>0. /\ due \in SUBSET (0..Horizon) /\ ahead \in SUBSET Nat /\ due \in SUBSET Nat
      /\ Horizon \in Nat /\ Grid[j] \subseteq Nat /\ o \in Nat /\ t \in Nat
      /\ Skew \in Nat /\ MaxEarly \in Nat /\ MaxEarly <= Skew
  BY JobIsOfGrid, GridAssumption, SkewAssumption DEF Instants
<1>1. \A p, q \in Grid[j] : p < q => q - p > 2 * Skew
  BY DEF Sparse
<1>2. Occurrence(j, t) = IF due # {} THEN Max(due) ELSE IF ahead # {} THEN Min(ahead) ELSE t
  BY DEF Occurrence
<1>3. CASE t = o
  <2>1. o \in due
    BY <1>0, <1>3
  <2>2. \A p \in due : p <= o
    BY <1>3
  <2> HIDE DEF due
  <2>3. Max(due) \in due /\ o <= Max(due)
    BY <1>0, <2>1, MaxOf
  <2>4. Max(due) \in Nat
    BY <1>0, <2>3
  <2> QED BY <1>0, <1>2, <2>1, <2>2, <2>3, <2>4
<1>4. CASE t < o
  <2>1. due = {}
    <3> SUFFICES ASSUME NEW p \in due PROVE FALSE
      OBVIOUS
    <3>1. p \in Nat /\ p < o /\ ~(o - p > 2 * Skew)
      BY <1>0, <1>4
    <3> QED BY <1>1, <3>1
  <2>2. o \in ahead
    BY <1>0, <1>4
  <2>3. \A p \in ahead : p = o
    <3> TAKE p \in ahead
    <3>1. p \in Nat /\ ~(p - o > 2 * Skew) /\ ~(o - p > 2 * Skew)
      BY <1>0, <1>4
    <3>2. p \in Grid[j]
      OBVIOUS
    <3>3. ~(p < o) /\ ~(o < p)
      BY <1>1, <3>1, <3>2
    <3> QED BY <1>0, <3>1, <3>3
  <2> HIDE DEF due, ahead
  <2>4. Min(ahead) \in ahead
    BY <1>0, <2>2, MinOf
  <2> QED BY <1>2, <2>1, <2>2, <2>3, <2>4
<1>5. t \in Nat /\ o \in Nat
  BY <1>0
<1> QED BY <1>3, <1>4, <1>5

\* The window of a pass begins at the watermark or later.
LEMMA WindowBegins ==
  ASSUME NEW w \in Instants, NEW t \in Instants
  PROVE  From(w, t) \in Nat /\ w <= From(w, t)
<1>1. Window \in Nat /\ Horizon \in Nat
  BY BoundAssumption, GridAssumption
<1> QED BY <1>1 DEF From, Monus, Instants

\* What a pass owes a job are occurrences after its watermark that have come.
LEMMA OwedIsMissed ==
  ASSUME NEW j \in Ids, NEW w \in Instants, NEW t \in Instants
  PROVE  /\ Owed(j, w, t) \in SUBSET Instants
         /\ \A o \in Owed(j, w, t) : o \in Grid[j] /\ w < o /\ o <= t
<1>1. Owed(j, w, t) \subseteq Between(j, From(w, t), t)
  BY DEF Owed, Replay, Occurrences
<1>2. \A o \in Between(j, From(w, t), t) : o \in Instants /\ o \in Grid[j] /\ w < o /\ o <= t
  BY WindowBegins, JobIsOfGrid, GridAssumption DEF Between, Instants
<1> QED BY <1>1, <1>2

\* Whatever the policy, it replays the newest of the missed occurrences, unless they were too many
\* to be enumerated.
LEMMA LatestIsOwed ==
  ASSUME NEW j \in Ids, NEW w \in Instants, NEW t \in Instants, Catchup[j] # "off", w # 0,
         NEW M, M = Between(j, From(w, t), t), M # {}, Cardinality(M) <= 2 * Cap + 1
  PROVE  Max(M) \in Owed(j, w, t) /\ Max(M) \in Grid[j]
<1>1. /\ M \in SUBSET (0..Horizon) /\ M \subseteq Grid[j] /\ M \subseteq Nat
      /\ Horizon \in Nat /\ IsFiniteSet(M)
  <2>1. M \subseteq Grid[j] /\ Horizon \in Nat
    BY GridAssumption DEF Between
  <2>2. M \in SUBSET (0..Horizon) /\ M \subseteq Nat
    BY <2>1, JobIsOfGrid DEF Instants
  <2>3. IsFiniteSet(0..Horizon)
    BY <2>1, FS_Interval
  <2>4. IsFiniteSet(M)
    BY <2>2, <2>3, FS_Subset
  <2> QED BY <2>1, <2>2, <2>4
<1> DEFINE m == Max(M)
<1>2. m \in M /\ \A y \in M : y <= m
  BY <1>1, MaxOf
<1> HIDE DEF m
<1>3. m \in Nat /\ m > 0 /\ Cap \in Nat /\ Cap > 0
  BY <1>1, <1>2, JobIsOfGrid, BoundAssumption
<1> DEFINE rest == Between(j, From(w, t), m - 1)
<1>4. Cardinality(rest) <= 2 * Cap
  <2>1. rest \subseteq M \ {m}
    <3>1. From(w, t) \in Nat /\ t \in Nat
      BY <1>1, WindowBegins DEF Instants
    <3>2. \A p \in rest : p \in Grid[j] /\ p \in Nat /\ From(w, t) < p /\ p <= m - 1
      BY JobIsOfGrid DEF Between
    <3>3. m <= t
      BY <1>2 DEF Between
    <3> QED BY <1>3, <3>1, <3>2, <3>3 DEF Between
  <2>2. IsFiniteSet(M \ {m}) /\ Cardinality(M \ {m}) = Cardinality(M) - 1
    BY <1>1, <1>2, FS_RemoveElement
  <2>3. IsFiniteSet(rest) /\ Cardinality(rest) <= Cardinality(M \ {m})
    BY <2>1, <2>2, FS_Subset
  <2>4. Cardinality(rest) \in Nat /\ Cardinality(M) \in Nat
    BY <1>1, <2>3, FS_CardinalityType
  <2> QED BY <1>3, <2>2, <2>3, <2>4
<1>5. m \in Occurrences(j, From(w, t), t)
  BY <1>2, <1>4 DEF Occurrences
<1>6. {p \in Occurrences(j, From(w, t), t) : p > m} = {}
  BY <1>1, <1>2, <1>3 DEF Occurrences
<1>7. Cardinality({p \in Occurrences(j, From(w, t), t) : p > m}) < Limit(j)
  BY <1>3, <1>6, FS_EmptySet DEF Limit
<1>8. m \in Replay(j, Occurrences(j, From(w, t), t))
  BY <1>5, <1>7 DEF Replay
<1>9. m \in Owed(j, w, t)
  BY <1>8 DEF Owed
<1> QED BY <1>1, <1>2, <1>9 DEF m

-----------------------------------------------------------------------------
(***************************************************************************)
(* The types.                                                              *)
(***************************************************************************)
\* What an execution leaves behind, whoever asks for it.
LEMMA ExecuteRecords ==
  ASSUME TypeOK, NEW j \in Ids, NEW who \in {"task", "pass", "manual"}, NEW at \in Instants,
         NEW scheduled \in BOOLEAN, Execute(j, who, at, scheduled)
  PROVE  /\ lock' \in [Ids -> {Free, "task", "pass", "manual"}]
         /\ watermark' \in [Ids -> Instants]
         /\ \A i \in Ids : \/ watermark'[i] = watermark[i]
                           \/ i = j /\ watermark'[i] = at /\ lock'[i] = who
         /\ ran' = [i \in Ids |-> ran'[i]]
         /\ \A i \in Ids : ran'[i] \in [Grid[i] -> Nat]
         /\ \A i \in Ids : \A o \in Grid[i] :
              \/ ran'[i][o] = ran[i][o]
              \/ i = j /\ o = at /\ ran'[i][o] = ran[i][o] + 1 /\ watermark'[i] = at /\ scheduled
         /\ skipped' \in [Ids -> SUBSET Instants]
         /\ \A i \in Ids : skipped[i] \subseteq skipped'[i]
         /\ scheduled /\ at \in Grid[j] => ran'[j][at] > 0 \/ at \in skipped'[j]
<1>0. /\ lock \in [Ids -> {Free, "task", "pass", "manual"}] /\ watermark \in [Ids -> Instants]
      /\ ran = [i \in Ids |-> ran[i]] /\ \A i \in Ids : ran[i] \in [Grid[i] -> Nat]
      /\ skipped \in [Ids -> SUBSET Instants]
  BY DEF TypeOK
<1>1. CASE lock[j] = Free
  <2>1. /\ lock' = [lock EXCEPT ![j] = who] /\ watermark' = [watermark EXCEPT ![j] = at]
        /\ skipped' = skipped
    BY <1>1 DEF Execute
  <2>2. /\ lock' \in [Ids -> {Free, "task", "pass", "manual"}]
        /\ watermark' \in [Ids -> Instants] /\ skipped' \in [Ids -> SUBSET Instants]
        /\ \A i \in Ids : skipped[i] \subseteq skipped'[i]
        /\ watermark'[j] = at /\ lock'[j] = who
        /\ \A i \in Ids \ {j} : watermark'[i] = watermark[i]
    BY <1>0, <2>1
  <2>3. CASE scheduled /\ at \in Grid[j]
    <3> DEFINE count == [ran[j] EXCEPT ![at] = ran[j][at] + 1]
    <3>1. ran' = [ran EXCEPT ![j] = count]
      BY <1>1, <2>3 DEF Execute
    <3>2. ran[j] \in [Grid[j] -> Nat] /\ at \in Grid[j]
      BY <1>0, <2>3
    <3>3. ran[j][at] + 1 \in Nat
      BY <3>2
    <3>4. count \in [Grid[j] -> Nat]
      BY <3>2, <3>3
    <3>5. \A o \in Grid[j] : count[o] = IF o = at THEN ran[j][o] + 1 ELSE ran[j][o]
      BY <3>2
    <3>6. count[at] > 0
      BY <3>2, <3>5
    <3> HIDE DEF count
    <3>7. ran'[j] = count /\ \A i \in Ids \ {j} : ran'[i] = ran[i]
      BY <1>0, <3>1
    <3>8. ran' = [i \in Ids |-> ran'[i]]
      BY <1>0, <3>1
    <3>9. \A i \in Ids : ran'[i] \in [Grid[i] -> Nat]
      BY <1>0, <3>4, <3>7
    <3>10. \A i \in Ids : \A o \in Grid[i] :
             \/ ran'[i][o] = ran[i][o]
             \/ i = j /\ o = at /\ ran'[i][o] = ran[i][o] + 1 /\ watermark'[i] = at /\ scheduled
      BY <2>2, <2>3, <3>5, <3>7
    <3> QED BY <2>2, <3>6, <3>7, <3>8, <3>9, <3>10
  <2>4. CASE ~(scheduled /\ at \in Grid[j])
    <3>1. ran' = ran
      BY <1>1, <2>4 DEF Execute
    <3> QED BY <1>0, <2>2, <2>4, <3>1
  <2> QED BY <2>3, <2>4
<1>2. CASE lock[j] # Free
  <2>1. /\ lock' = lock /\ watermark' = watermark /\ ran' = ran
        /\ skipped' = IF scheduled THEN [skipped EXCEPT ![j] = @ \cup {at}] ELSE skipped
    BY <1>2 DEF Execute
  <2>2. /\ skipped' \in [Ids -> SUBSET Instants]
        /\ \A i \in Ids : skipped[i] \subseteq skipped'[i]
        /\ scheduled => at \in skipped'[j]
    BY <1>0, <2>1
  <2> QED BY <1>0, <2>1, <2>2
<1> QED BY <1>1, <1>2

LEMMA TimersStay ==
  ASSUME TypeOK, NEW j \in Ids, Rearm(j)
  PROVE  timer' \in [Ids -> Nat]
<1>1. now \in Nat /\ timer[j] \in Nat
  BY GridAssumption DEF TypeOK, Instants
<1>2. Max({now, timer[j]}) \in Nat
  BY <1>1, MaxOfTwo
<1>3. NextAfter(j, Max({now, timer[j]})) \in Nat
  BY <1>2, NextIs
<1> QED BY <1>3 DEF Rearm, TypeOK

\* A task that is given its occurrence, and every stage it goes through.
LEMMA TasksStay ==
  ASSUME TypeOK, NEW j \in Ids, NEW t \in TaskState, task' = [task EXCEPT ![j] = t]
  PROVE  task' \in [Ids -> TaskState]
BY DEF TypeOK

LEMMA IdleIsATask == Idle \in TaskState
BY GridAssumption DEF Idle, TaskState, Instants

LEMMA PassOf ==
  ASSUME NEW stage \in {"none", "start", "wake", "jobs", "replay"}, NEW at \in Instants,
         NEW snap \in [Ids -> Instants], NEW todo \in Seq(Ids), NEW owed \in SUBSET Instants,
         NEW running \in BOOLEAN
  PROVE  [stage |-> stage, at |-> at, snap |-> snap, todo |-> todo, owed |-> owed,
          running |-> running] \in PassState
BY DEF PassState

LEMMA NoPassIsAPass ==
  ASSUME NEW stage \in {"none", "start", "wake"}
  PROVE  [NoPass EXCEPT !.stage = stage] \in PassState /\ NoPass \in PassState
<1>1. 0 \in Instants /\ <<>> \in Seq(Ids)
  BY GridAssumption DEF Instants
<1>2. [j \in Ids |-> 0] \in [Ids -> Instants]
  BY <1>1
<1>3. NoPass \in PassState
  BY <1>1, <1>2 DEF NoPass, PassState
<1>4. [NoPass EXCEPT !.stage = stage] \in PassState
  BY <1>3 DEF PassState
<1> QED BY <1>3, <1>4

\* The fields of the pass, and the job it is at.
LEMMA PassHas ==
  ASSUME TypeOK
  PROVE  /\ pass.stage \in {"none", "start", "wake", "jobs", "replay"} /\ pass.at \in Instants
         /\ pass.snap \in [Ids -> Instants] /\ pass.todo \in Seq(Ids)
         /\ pass.owed \in SUBSET Instants /\ pass.running \in BOOLEAN
         /\ pass = [stage |-> pass.stage, at |-> pass.at, snap |-> pass.snap,
                    todo |-> pass.todo, owed |-> pass.owed, running |-> pass.running]
         /\ pass.todo # <<>> => Current \in Ids /\ Current = pass.todo[1]
<1>1. pass \in PassState
  BY DEF TypeOK
<1>2. /\ pass.stage \in {"none", "start", "wake", "jobs", "replay"} /\ pass.at \in Instants
      /\ pass.snap \in [Ids -> Instants] /\ pass.todo \in Seq(Ids)
      /\ pass.owed \in SUBSET Instants /\ pass.running \in BOOLEAN
      /\ pass = [stage |-> pass.stage, at |-> pass.at, snap |-> pass.snap,
                 todo |-> pass.todo, owed |-> pass.owed, running |-> pass.running]
  BY <1>1 DEF PassState
<1>3. pass.todo # <<>> => Current \in Ids /\ Current = pass.todo[1]
  BY <1>2 DEF Current
<1> QED BY <1>2, <1>3

\* What each step of the pass leaves of it.
LEMMA PassMoves ==
  ASSUME TypeOK, pass.stage = "replay" => pass.todo # <<>>
  PROVE  /\ EnumerateJob =>
              pass' = [stage |-> "replay", at |-> pass.at, snap |-> pass.snap,
                       todo |-> pass.todo, owed |-> Owed(Current, pass.snap[Current], pass.at),
                       running |-> pass.running]
         /\ ReplayNext =>
              pass' = [stage |-> "replay", at |-> pass.at, snap |-> pass.snap,
                       todo |-> pass.todo, owed |-> pass.owed \ {Min(pass.owed)},
                       running |-> lock[Current] = Free]
         /\ ReplayDone =>
              pass' = [stage |-> pass.stage, at |-> pass.at, snap |-> pass.snap,
                       todo |-> pass.todo, owed |-> pass.owed, running |-> FALSE]
         /\ NextJob =>
              pass' = [stage |-> "jobs", at |-> pass.at, snap |-> pass.snap,
                       todo |-> Tail(pass.todo), owed |-> pass.owed, running |-> pass.running]
<1>1. pass = [stage |-> pass.stage, at |-> pass.at, snap |-> pass.snap,
              todo |-> pass.todo, owed |-> pass.owed, running |-> pass.running]
  BY PassHas
<1>2. ASSUME EnumerateJob
      PROVE  pass' = [stage |-> "replay", at |-> pass.at, snap |-> pass.snap,
                      todo |-> pass.todo, owed |-> Owed(Current, pass.snap[Current], pass.at),
                      running |-> pass.running]
  BY <1>1, <1>2 DEF EnumerateJob
<1>3. ASSUME ReplayNext
      PROVE  pass' = [stage |-> "replay", at |-> pass.at, snap |-> pass.snap,
                      todo |-> pass.todo, owed |-> pass.owed \ {Min(pass.owed)},
                      running |-> lock[Current] = Free]
  BY <1>1, <1>3 DEF ReplayNext
<1>4. ASSUME ReplayDone
      PROVE  pass' = [stage |-> pass.stage, at |-> pass.at, snap |-> pass.snap,
                      todo |-> pass.todo, owed |-> pass.owed, running |-> FALSE]
  BY <1>1, <1>4 DEF ReplayDone
<1>5. ASSUME NextJob
      PROVE  pass' = [stage |-> "jobs", at |-> pass.at, snap |-> pass.snap,
                      todo |-> Tail(pass.todo), owed |-> pass.owed, running |-> pass.running]
  BY <1>1, <1>5 DEF NextJob
<1> QED BY <1>2, <1>3, <1>4, <1>5

\* The oldest occurrence a pass has to replay.
LEMMA OldestOwed ==
  ASSUME TypeOK, pass.owed # {}
  PROVE  /\ Min(pass.owed) \in pass.owed /\ Min(pass.owed) \in Instants
         /\ \A o \in pass.owed : Min(pass.owed) <= o
<1>1. pass.owed \in SUBSET Nat /\ pass.owed \in SUBSET Instants
  BY PassHas, GridAssumption DEF Instants
<1> QED BY <1>1, MinOf

Passing == pass.stage \in {"jobs", "replay"}

\* A pass has a job to replay, began before now, and comes to every job once.
PassInv ==
  /\ pass.stage = "replay" => pass.todo # <<>>
  /\ pass.running => pass.stage = "replay"
  /\ Passing => pass.at <= now
  /\ \A i, k \in DOMAIN pass.todo : pass.todo[i] = pass.todo[k] => i = k

LEMMA TypeStep ==
  ASSUME TypeOK, PassInv, [Next]_vars
  PROVE  TypeOK'
<1>1. ASSUME NEW j \in Ids, Fire(j) \/ DropTick(j) PROVE TypeOK'
  <2>1. timer' \in [Ids -> Nat]
    BY <1>1, TimersStay DEF Fire, DropTick
  <2>2. CASE Fire(j)
    <3>1. now \in Instants /\ now + Jitter[j] \in Nat
      BY JitterAssumption, GridAssumption DEF TypeOK, Instants
    <3> DEFINE t == [stage |-> "jitter", occ |-> Occurrence(j, now), until |-> now + Jitter[j]]
    <3>2. t \in TaskState
      BY <3>1, OccurrenceIsInstant DEF TaskState
    <3>3. task' = [task EXCEPT ![j] = t]
      BY <2>2 DEF Fire
    <3> HIDE DEF t
    <3>4. task' \in [Ids -> TaskState]
      BY <3>2, <3>3, TasksStay
    <3> QED BY <2>1, <2>2, <3>4 DEF Fire, TypeOK
  <2>3. CASE DropTick(j)
    <3>1. dropped' \in [Ids -> SUBSET Nat]
      BY <2>3 DEF DropTick, TypeOK
    <3> QED BY <2>1, <2>3, <3>1 DEF DropTick, TypeOK
  <2> QED BY <1>1, <2>2, <2>3
<1>2. ASSUME NEW j \in Ids, FireExecute(j) PROVE TypeOK'
  <2>1. task[j] \in TaskState
    BY DEF TypeOK
  <2>2. task[j].occ \in Instants /\ [task[j] EXCEPT !.stage = "run"] \in TaskState
    BY <2>1 DEF TaskState
  <2>3. Execute(j, "task", task[j].occ, TRUE)
    BY <1>2 DEF FireExecute
  <2>4. task' \in [Ids -> TaskState]
    <3>1. PICK t \in TaskState : task' = [task EXCEPT ![j] = t]
      BY <1>2, <2>2, IdleIsATask DEF FireExecute
    <3> QED BY <3>1, TasksStay
  <2>5. /\ lock' \in [Ids -> {Free, "task", "pass", "manual"}]
        /\ watermark' \in [Ids -> Instants] /\ skipped' \in [Ids -> SUBSET Instants]
        /\ ran' = [i \in Ids |-> ran'[i]] /\ \A i \in Ids : ran'[i] \in [Grid[i] -> Nat]
    BY <2>2, <2>3, ExecuteRecords
  <2> QED BY <1>2, <2>4, <2>5 DEF FireExecute, TypeOK
<1>3. ASSUME NEW j \in Ids, FireDone(j) PROVE TypeOK'
  <2>1. task' \in [Ids -> TaskState]
    BY <1>3, IdleIsATask, TasksStay DEF FireDone
  <2> QED BY <1>3, <2>1 DEF FireDone, Release, TypeOK
<1>4. ASSUME NEW j \in Ids, ManualRun(j) PROVE TypeOK'
  <2>1. now \in Instants /\ Execute(j, "manual", now, FALSE)
    BY <1>4 DEF ManualRun, TypeOK
  <2>2. /\ lock' \in [Ids -> {Free, "task", "pass", "manual"}]
        /\ watermark' \in [Ids -> Instants] /\ skipped' \in [Ids -> SUBSET Instants]
        /\ ran' = [i \in Ids |-> ran'[i]] /\ \A i \in Ids : ran'[i] \in [Grid[i] -> Nat]
    BY <2>1, ExecuteRecords
  <2>3. manual' \in [Ids -> BOOLEAN] /\ manuals' \in Nat
    <3>1. (lock[j] = Free) \in BOOLEAN
      OBVIOUS
    <3> QED BY <1>4, <3>1 DEF ManualRun, TypeOK
  <2> QED BY <1>4, <2>2, <2>3 DEF ManualRun, TypeOK
<1>5. ASSUME NEW j \in Ids, ManualDone(j) PROVE TypeOK'
  BY <1>5 DEF ManualDone, Release, TypeOK
<1>6. ASSUME NEW stage \in {"start", "wake"}, BeginPass(stage) PROVE TypeOK'
  <2>1. pass' \in PassState
    <3>1. now \in Instants /\ watermark \in [Ids -> Instants] /\ Jobs \in Seq(Ids)
          /\ {} \in SUBSET Instants
      BY JobsAssumption DEF TypeOK
    <3> QED BY <1>6, <3>1, PassOf DEF BeginPass
  <2> QED BY <1>6, <2>1 DEF BeginPass, TypeOK
<1>7. CASE StartDaemon
  <2>1. pass' \in PassState
    BY <1>7, NoPassIsAPass DEF StartDaemon
  <2> QED BY <1>7, <2>1 DEF StartDaemon, TypeOK
<1>8. CASE NoticeSleep
  <2>1. pass' \in PassState
    BY <1>8, NoPassIsAPass DEF NoticeSleep
  <2>2. timer' \in [Ids -> Nat]
    <3>1. now \in Nat
      BY GridAssumption DEF TypeOK, Instants
    <3> QED BY <1>8, <3>1, NextIs DEF NoticeSleep
  <2> QED BY <1>8, <2>1, <2>2 DEF NoticeSleep, TypeOK
<1>9. CASE PassStep
  <2>1. CASE EnumerateJob
    <3>1. Current \in Ids /\ pass.snap[Current] \in Instants
      BY <2>1, PassHas DEF EnumerateJob
    <3>2. Owed(Current, pass.snap[Current], pass.at) \in SUBSET Instants
      BY <3>1, PassHas, OwedIsMissed
    <3>3. pass' = [stage |-> "replay", at |-> pass.at, snap |-> pass.snap, todo |-> pass.todo,
                   owed |-> Owed(Current, pass.snap[Current], pass.at), running |-> pass.running]
      BY <2>1, PassMoves DEF PassInv
    <3>4. pass' \in PassState
      BY <3>2, <3>3, PassHas, PassOf
    <3> QED BY <2>1, <3>4 DEF EnumerateJob, TypeOK
  <2>2. CASE ReplayNext
    <3>1. /\ Current \in Ids /\ Execute(Current, "pass", Min(pass.owed), TRUE)
          /\ Min(pass.owed) \in Instants
      BY <2>2, PassHas, OldestOwed DEF ReplayNext, PassInv
    <3>2. /\ lock' \in [Ids -> {Free, "task", "pass", "manual"}]
          /\ watermark' \in [Ids -> Instants] /\ skipped' \in [Ids -> SUBSET Instants]
          /\ ran' = [i \in Ids |-> ran'[i]] /\ \A i \in Ids : ran'[i] \in [Grid[i] -> Nat]
      BY <3>1, ExecuteRecords
    <3>3. pass.owed \ {Min(pass.owed)} \in SUBSET Instants /\ (lock[Current] = Free) \in BOOLEAN
      BY PassHas
    <3>4. pass' = [stage |-> "replay", at |-> pass.at, snap |-> pass.snap, todo |-> pass.todo,
                   owed |-> pass.owed \ {Min(pass.owed)}, running |-> lock[Current] = Free]
      BY <2>2, PassMoves DEF PassInv
    <3>5. pass' \in PassState
      BY <3>3, <3>4, PassHas, PassOf
    <3> QED BY <2>2, <3>2, <3>5 DEF ReplayNext, TypeOK
  <2>3. CASE ReplayDone
    <3>1. pass' = [stage |-> pass.stage, at |-> pass.at, snap |-> pass.snap, todo |-> pass.todo,
                   owed |-> pass.owed, running |-> FALSE]
      BY <2>3, PassMoves DEF PassInv
    <3>2. pass' \in PassState
      BY <3>1, PassHas, PassOf
    <3> QED BY <2>3, <3>2 DEF ReplayDone, Release, TypeOK
  <2>4. CASE NextJob
    <3>1. pass.todo # <<>> /\ Tail(pass.todo) \in Seq(Ids)
      BY <2>4, PassHas DEF NextJob, PassInv
    <3>2. pass' = [stage |-> "jobs", at |-> pass.at, snap |-> pass.snap,
                   todo |-> Tail(pass.todo), owed |-> pass.owed, running |-> pass.running]
      BY <2>4, PassMoves DEF PassInv
    <3>3. pass' \in PassState
      BY <3>1, <3>2, PassHas, PassOf
    <3> QED BY <2>4, <3>3 DEF NextJob, TypeOK
  <2>5. CASE EndPass
    <3>1. pass' \in PassState
      BY <2>5, NoPassIsAPass DEF EndPass
    <3>2. timer' \in [Ids -> Nat]
      <4>1. now \in Nat
        BY GridAssumption DEF TypeOK, Instants
      <4> QED BY <2>5, <4>1, NextIs DEF EndPass, TypeOK
    <3> QED BY <2>5, <3>1, <3>2 DEF EndPass, TypeOK
  <2> QED BY <1>9, <2>1, <2>2, <2>3, <2>4, <2>5 DEF PassStep
<1>10. CASE Tick
  <2>1. now' \in Instants
    BY <1>10, GridAssumption DEF Tick, TypeOK, Instants
  <2> QED BY <1>10, <2>1 DEF Tick, TypeOK
<1>11. CASE Sleep
  <2>1. PICK d \in 1..(Horizon - now) :
          /\ now' = now + d
          /\ timer' = [j \in Ids |-> IF timer[j] = 0 THEN 0 ELSE timer[j] + d]
          /\ task' = [j \in Ids |-> IF task[j].stage = "jitter"
                                    THEN [task[j] EXCEPT !.until = @ + d] ELSE task[j]]
          /\ slept' = (slept \/ (daemon = "up" /\ d > SleepThreshold))
    BY <1>11 DEF Sleep
  <2>2. now' \in Instants /\ d \in Nat
    BY <2>1, GridAssumption DEF TypeOK, Instants
  <2>3. timer' \in [Ids -> Nat]
    BY <2>1, <2>2 DEF TypeOK
  <2>4. task' \in [Ids -> TaskState]
    <3>1. ASSUME NEW j \in Ids PROVE [task[j] EXCEPT !.until = @ + d] \in TaskState
      <4>1. task[j] \in TaskState
        BY DEF TypeOK
      <4> QED BY <2>2, <4>1 DEF TaskState
    <3> QED BY <2>1, <3>1 DEF TypeOK
  <2>5. slept' \in BOOLEAN
    BY <2>1 DEF TypeOK
  <2> QED BY <1>11, <2>2, <2>3, <2>4, <2>5 DEF Sleep, TypeOK
<1>12. CASE Crash
  <2>1. pass' \in PassState /\ task' \in [Ids -> TaskState]
    BY <1>12, NoPassIsAPass, IdleIsATask DEF Crash
  <2>2. timer' \in [Ids -> Nat] /\ manual' \in [Ids -> BOOLEAN]
        /\ lock' \in [Ids -> {Free, "task", "pass", "manual"}]
    BY <1>12 DEF Crash
  <2>3. daemon' \in {"down", "starting", "up"} /\ slept' \in BOOLEAN
    BY <1>12 DEF Crash
  <2>4. crashes' \in Nat
    BY <1>12 DEF Crash, TypeOK
  <2>5. UNCHANGED <<now, watermark, ran, skipped, dropped, sleeps, manuals>>
    BY <1>12 DEF Crash
  <2> QED BY <2>1, <2>2, <2>3, <2>4, <2>5 DEF TypeOK
<1>13. CASE UNCHANGED vars
  BY <1>13 DEF vars, TypeOK
<1> QED BY <1>1, <1>2, <1>3, <1>4, <1>5, <1>6, <1>7, <1>8, <1>9, <1>10, <1>11, <1>12, <1>13
        DEF Next

-----------------------------------------------------------------------------
(***************************************************************************)
(* The pass.                                                               *)
(***************************************************************************)
\* No record is taken back.
RecordsKept ==
  \A j \in Ids : /\ skipped[j] \subseteq skipped'[j]
                 /\ \A o \in Grid[j] : ran[j][o] <= ran'[j][o]

LEMMA ExecuteKeeps ==
  ASSUME TypeOK, NEW j \in Ids, NEW who \in {"task", "pass", "manual"}, NEW at \in Instants,
         NEW scheduled \in BOOLEAN, Execute(j, who, at, scheduled)
  PROVE  RecordsKept
<1>1. \A i \in Ids : \A o \in Grid[i] : ran[i][o] \in Nat
  BY DEF TypeOK
<1>2. \A i \in Ids : /\ skipped[i] \subseteq skipped'[i]
                     /\ \A o \in Grid[i] : ran'[i][o] = ran[i][o] \/ ran'[i][o] = ran[i][o] + 1
  BY ExecuteRecords
<1> QED BY <1>1, <1>2 DEF RecordsKept

\* Time goes on, and no record is taken back.
LEMMA RecordsStay ==
  ASSUME TypeOK, PassInv, [Next]_vars
  PROVE  now <= now' /\ RecordsKept
<1>0. now \in Nat
  BY GridAssumption DEF TypeOK, Instants
<1>1. ran' = ran /\ skipped' = skipped => RecordsKept
  <2>1. \A j \in Ids : \A o \in Grid[j] : ran[j][o] \in Nat
    BY DEF TypeOK
  <2> QED BY <2>1 DEF RecordsKept
<1>2. ASSUME NEW j \in Ids, FireExecute(j) PROVE now <= now' /\ RecordsKept
  <2>1. task[j].occ \in Instants
    BY DEF TypeOK, TaskState
  <2>2. Execute(j, "task", task[j].occ, TRUE) /\ now' = now
    BY <1>2 DEF FireExecute
  <2>3. RecordsKept
    BY <2>1, <2>2, ExecuteKeeps
  <2> QED BY <1>0, <2>2, <2>3
<1>3. ASSUME NEW j \in Ids, ManualRun(j) PROVE now <= now' /\ RecordsKept
  <2>1. Execute(j, "manual", now, FALSE) /\ now' = now /\ now \in Instants
    BY <1>3 DEF ManualRun, TypeOK
  <2>2. RecordsKept
    BY <2>1, ExecuteKeeps
  <2> QED BY <1>0, <2>1, <2>2
<1>4. CASE ReplayNext
  <2>1. /\ Current \in Ids /\ Execute(Current, "pass", Min(pass.owed), TRUE)
        /\ Min(pass.owed) \in Instants
    BY <1>4, PassHas, OldestOwed DEF ReplayNext, PassInv
  <2>2. RecordsKept
    BY <2>1, ExecuteKeeps
  <2>3. now' = now
    BY <1>4 DEF ReplayNext
  <2> QED BY <1>0, <2>2, <2>3
<1>5. ASSUME NEW j \in Ids, Fire(j) \/ DropTick(j) \/ FireDone(j) \/ ManualDone(j)
      PROVE  now <= now' /\ RecordsKept
  <2>1. now' = now /\ ran' = ran /\ skipped' = skipped
    BY <1>5 DEF Fire, DropTick, FireDone, ManualDone
  <2> QED BY <1>0, <1>1, <2>1
<1>6. CASE StartDaemon \/ NoticeSleep \/ BeginPass("start") \/ BeginPass("wake")
           \/ EnumerateJob \/ ReplayDone \/ NextJob \/ EndPass \/ Crash \/ UNCHANGED vars
  <2>1. now' = now /\ ran' = ran /\ skipped' = skipped
    BY <1>6 DEF StartDaemon, NoticeSleep, BeginPass, EnumerateJob, ReplayDone, NextJob, EndPass,
                Crash, vars
  <2> QED BY <1>0, <1>1, <2>1
<1>7. CASE Tick \/ Sleep
  <2>1. ran' = ran /\ skipped' = skipped
    BY <1>7 DEF Tick, Sleep
  <2>2. now <= now'
    BY <1>0, <1>7, GridAssumption DEF Tick, Sleep
  <2> QED BY <1>1, <2>1, <2>2
<1> QED BY <1>2, <1>3, <1>4, <1>5, <1>6, <1>7 DEF Next, PassStep

\* The steps that the pass is part of.
LEMMA PassSteps ==
  ASSUME [Next]_vars
  PROVE  \/ UNCHANGED pass
         \/ \E stage \in {"start", "wake"} : BeginPass(stage)
         \/ StartDaemon \/ NoticeSleep \/ Crash \/ PassStep
<1>1. ASSUME NEW j \in Ids, \/ Fire(j) \/ DropTick(j) \/ FireExecute(j) \/ FireDone(j)
                            \/ ManualRun(j) \/ ManualDone(j)
      PROVE  UNCHANGED pass
  BY <1>1 DEF Fire, DropTick, FireExecute, FireDone, ManualRun, ManualDone
<1>2. CASE Tick \/ Sleep \/ UNCHANGED vars
  BY <1>2 DEF Tick, Sleep, vars
<1> QED BY <1>1, <1>2 DEF Next

LEMMA PassStays ==
  ASSUME TypeOK, PassInv, [Next]_vars
  PROVE  PassInv'
<1>0. now \in Nat /\ now' \in Nat /\ now <= now' /\ pass.at \in Nat
  <2>1. now \in Instants /\ now' \in Instants /\ pass.at \in Instants
    BY TypeStep, PassHas DEF TypeOK
  <2> QED BY <2>1, RecordsStay, GridAssumption DEF Instants
<1>1. CASE UNCHANGED pass
  BY <1>0, <1>1 DEF PassInv, Passing
<1>2. ASSUME NEW stage \in {"start", "wake"}, BeginPass(stage) PROVE PassInv'
  <2>1. /\ pass'.stage = "jobs" /\ pass'.at = now /\ pass'.todo = Jobs /\ pass'.running = FALSE
        /\ now' = now
    BY <1>2 DEF BeginPass
  <2>2. \A i, k \in DOMAIN Jobs : Jobs[i] = Jobs[k] => i = k
    BY JobsAssumption DEF IsInjective
  <2> QED BY <1>0, <2>1, <2>2 DEF PassInv, Passing
<1>3. CASE StartDaemon \/ NoticeSleep \/ Crash \/ EndPass
  <2>1. /\ pass'.stage \in {"none", "start", "wake"} /\ pass'.todo = <<>>
        /\ pass'.running = FALSE
    BY <1>3 DEF StartDaemon, NoticeSleep, Crash, EndPass, NoPass
  <2> QED BY <2>1 DEF PassInv, Passing
<1>4. CASE EnumerateJob
  BY <1>0, <1>4, PassMoves DEF EnumerateJob, PassInv, Passing
<1>5. CASE ReplayNext
  BY <1>0, <1>5, PassMoves DEF ReplayNext, PassInv, Passing
<1>6. CASE ReplayDone
  <2>1. /\ pass'.stage = pass.stage /\ pass'.at = pass.at /\ pass'.todo = pass.todo
        /\ pass'.running = FALSE
    BY <1>6, PassMoves DEF PassInv
  <2> QED BY <1>0, <2>1 DEF PassInv, Passing
<1>7. CASE NextJob
  <2>1. pass.todo # <<>> /\ pass.todo \in Seq(Ids) /\ pass.running = FALSE
    BY <1>7, PassHas DEF NextJob, PassInv
  <2>2. /\ pass'.stage = "jobs" /\ pass'.at = pass.at /\ pass'.todo = Tail(pass.todo)
        /\ pass'.running = FALSE /\ Passing
    BY <1>7, <2>1, PassMoves DEF NextJob, PassInv, Passing
  <2>3. \A i \in DOMAIN Tail(pass.todo) :
          i \in Nat /\ i + 1 \in DOMAIN pass.todo /\ Tail(pass.todo)[i] = pass.todo[i + 1]
    BY <2>1
  <2>4. \A i, k \in DOMAIN Tail(pass.todo) : Tail(pass.todo)[i] = Tail(pass.todo)[k] => i = k
    <3> TAKE i, k \in DOMAIN Tail(pass.todo)
    <3> HAVE Tail(pass.todo)[i] = Tail(pass.todo)[k]
    <3>1. i + 1 = k + 1
      BY <2>3 DEF PassInv
    <3> QED BY <2>3, <3>1
  <2> QED BY <1>0, <2>2, <2>4 DEF PassInv, Passing
<1> QED BY <1>1, <1>2, <1>3, <1>4, <1>5, <1>6, <1>7, PassSteps DEF PassStep

LEMMA TypesHold == Spec => [](TypeOK /\ PassInv)
<1>1. Init => TypeOK /\ PassInv
  <2>1. ASSUME Init PROVE TypeOK
    <3>1. 0 \in Instants
      BY GridAssumption DEF Instants
    <3>2. task \in [Ids -> TaskState] /\ pass \in PassState
      BY <2>1, IdleIsATask, NoPassIsAPass DEF Init
    <3>3. /\ timer \in [Ids -> Nat] /\ watermark \in [Ids -> Instants]
          /\ manual \in [Ids -> BOOLEAN] /\ lock \in [Ids -> {Free, "task", "pass", "manual"}]
      BY <2>1, <3>1 DEF Init
    <3>4. ran = [j \in Ids |-> ran[j]] /\ \A j \in Ids : ran[j] \in [Grid[j] -> Nat]
      BY <2>1 DEF Init
    <3>5. skipped \in [Ids -> SUBSET Instants] /\ dropped \in [Ids -> SUBSET Nat]
      BY <2>1 DEF Init
    <3> QED BY <2>1, <3>1, <3>2, <3>3, <3>4, <3>5 DEF Init, TypeOK
  <2>2. Init => PassInv
    BY DEF Init, PassInv, Passing, NoPass
  <2> QED BY <2>1, <2>2
<1>2. TypeOK /\ PassInv /\ [Next]_vars => (TypeOK /\ PassInv)'
  BY TypeStep, PassStays
<1> QED BY <1>1, <1>2, PTL DEF Spec

\* Every variable holds a value of its kind: in particular no pass works from anything but an
\* enumeration of jobs that are in jobs.yaml.
THEOREM CatchUpTypeCorrect == Spec => []TypeOK
<1>1. TypeOK /\ PassInv => TypeOK
  OBVIOUS
<1> QED BY <1>1, TypesHold, PTL

-----------------------------------------------------------------------------
(***************************************************************************)
(* A pass that is over has settled what it owed.                           *)
(***************************************************************************)
\* The jobs that the pass has not come to yet.
Ahead(j) == \E i \in DOMAIN pass.todo : pass.todo[i] = j /\ (pass.stage = "replay" => i # 1)

\* What a pass owes a job: the newest occurrence it found missed, unless it found too many.
Owing(j) ==
  /\ Catchup[j] # "off" /\ pass.snap[j] # 0
  /\ Missed(j) # {} /\ Cardinality(Missed(j)) <= 2 * Cap + 1

Paid(j) == Owing(j) => ran[j][Max(Missed(j))] > 0 \/ Max(Missed(j)) \in skipped[j]

\* A job the pass has left behind is paid; the one it is at is paid, or is about to be.
SettleInv ==
  Passing =>
    \A j \in Ids : \/ Ahead(j) \/ Paid(j)
                   \/ pass.stage = "replay" /\ j = Current /\ Max(Missed(j)) \in pass.owed

LEMMA LatestIsOfGrid ==
  ASSUME TypeOK, NEW j \in Ids, Owing(j)
  PROVE  /\ Max(Missed(j)) \in Grid[j]
         /\ Max(Missed(j)) \in Owed(j, pass.snap[j], pass.at)
<1>1. pass.snap[j] \in Instants /\ pass.at \in Instants
  BY PassHas
<1> DEFINE M == Missed(j)
<1>2. /\ M = Between(j, From(pass.snap[j], pass.at), pass.at)
      /\ M # {} /\ Cardinality(M) <= 2 * Cap + 1 /\ Catchup[j] # "off" /\ pass.snap[j] # 0
  BY DEF Owing, Missed
<1> HIDE DEF M
<1>3. Max(M) \in Owed(j, pass.snap[j], pass.at) /\ Max(M) \in Grid[j]
  BY <1>1, <1>2, LatestIsOwed
<1> QED BY <1>3 DEF M

\* What has been settled stays settled while the pass looks back to the same window.
LEMMA PaidStays ==
  ASSUME TypeOK, TypeOK', RecordsKept, NEW j \in Ids, Paid(j),
         pass'.at = pass.at, pass'.snap = pass.snap
  PROVE  Paid(j)'
<1>1. Missed(j)' = Missed(j)
  BY DEF Missed
<1>2. Owing(j)' <=> Owing(j)
  BY <1>1 DEF Owing
<1>3. SUFFICES ASSUME Owing(j)
               PROVE  ran'[j][Max(Missed(j))] > 0 \/ Max(Missed(j)) \in skipped'[j]
  BY <1>1, <1>2 DEF Paid
<1> DEFINE m == Max(Missed(j))
<1>4. m \in Grid[j] /\ (ran[j][m] > 0 \/ m \in skipped[j])
  BY <1>3, LatestIsOfGrid DEF Paid
<1> HIDE DEF m
<1>5. ran[j][m] \in Nat /\ ran'[j][m] \in Nat
  BY <1>4 DEF TypeOK
<1>6. ran[j][m] <= ran'[j][m] /\ skipped[j] \subseteq skipped'[j]
  BY <1>4 DEF RecordsKept
<1>7. ran'[j][m] > 0 \/ m \in skipped'[j]
  BY <1>4, <1>5, <1>6
<1> QED BY <1>7 DEF m

LEMMA SettleStep ==
  ASSUME TypeOK, PassInv, SettleInv, [Next]_vars
  PROVE  SettleInv'
<1>0. TypeOK' /\ RecordsKept
  BY TypeStep, RecordsStay
<1>1. CASE UNCHANGED pass
  <2> SUFFICES ASSUME Passing, NEW j \in Ids
               PROVE  \/ Ahead(j)' \/ Paid(j)'
                      \/ pass'.stage = "replay" /\ j = Current' /\ Max(Missed(j))' \in pass'.owed
    BY <1>1 DEF SettleInv, Passing
  <2>1. CASE Ahead(j)
    BY <1>1, <2>1 DEF Ahead
  <2>2. CASE Paid(j)
    BY <1>0, <1>1, <2>2, PaidStays
  <2>3. CASE pass.stage = "replay" /\ j = Current /\ Max(Missed(j)) \in pass.owed
    BY <1>1, <2>3 DEF Current, Missed
  <2> QED BY <2>1, <2>2, <2>3 DEF SettleInv
<1>2. ASSUME NEW stage \in {"start", "wake"}, BeginPass(stage) PROVE SettleInv'
  <2>1. pass'.todo = Jobs /\ pass'.stage = "jobs"
    BY <1>2 DEF BeginPass
  <2>2. \A j \in Ids : \E i \in DOMAIN Jobs : Jobs[i] = j
    BY DEF Ids, Range
  <2> QED BY <2>1, <2>2 DEF SettleInv, Ahead
<1>3. CASE StartDaemon \/ NoticeSleep \/ Crash \/ EndPass
  <2>1. pass'.stage \in {"none", "start", "wake"}
    BY <1>3 DEF StartDaemon, NoticeSleep, Crash, EndPass, NoPass
  <2> QED BY <2>1 DEF SettleInv, Passing
<1>4. CASE EnumerateJob
  <2>1. /\ pass'.stage = "replay" /\ pass'.at = pass.at /\ pass'.snap = pass.snap
        /\ pass'.todo = pass.todo /\ pass'.owed = Owed(Current, pass.snap[Current], pass.at)
    BY <1>4, PassMoves DEF PassInv
  <2>2. /\ pass.stage = "jobs" /\ pass.todo # <<>>
        /\ Current \in Ids /\ Current = pass.todo[1] /\ Current' = Current
    BY <1>4, <2>1, PassHas DEF EnumerateJob, Current
  <2> SUFFICES ASSUME NEW j \in Ids
               PROVE  \/ Ahead(j)' \/ Paid(j)'
                      \/ pass'.stage = "replay" /\ j = Current' /\ Max(Missed(j))' \in pass'.owed
    BY DEF SettleInv
  <2>3. CASE Paid(j)
    BY <1>0, <2>1, <2>3, PaidStays
  <2>4. CASE j # Current /\ Ahead(j)
    BY <2>1, <2>2, <2>4 DEF Ahead
  <2>5. CASE j = Current /\ ~Paid(j)
    <3>1. Owing(j)
      BY <2>5 DEF Paid
    <3>2. Max(Missed(j)) \in Owed(j, pass.snap[j], pass.at)
      BY <3>1, LatestIsOfGrid
    <3>3. Missed(j)' = Missed(j)
      BY <2>1 DEF Missed
    <3> QED BY <2>1, <2>2, <2>5, <3>2, <3>3
  <2> QED BY <2>2, <2>3, <2>4, <2>5 DEF SettleInv, Passing
<1>5. CASE ReplayNext
  <2>1. /\ pass'.stage = "replay" /\ pass'.at = pass.at /\ pass'.snap = pass.snap
        /\ pass'.todo = pass.todo /\ pass'.owed = pass.owed \ {Min(pass.owed)}
        /\ pass.stage = "replay"
    BY <1>5, PassMoves DEF PassInv, ReplayNext
  <2>2. /\ Current \in Ids /\ Current' = Current /\ Min(pass.owed) \in Instants
        /\ Execute(Current, "pass", Min(pass.owed), TRUE)
    BY <1>5, <2>1, PassHas, OldestOwed DEF ReplayNext, PassInv, Current
  <2> SUFFICES ASSUME NEW j \in Ids
               PROVE  \/ Ahead(j)' \/ Paid(j)'
                      \/ pass'.stage = "replay" /\ j = Current' /\ Max(Missed(j))' \in pass'.owed
    BY DEF SettleInv
  <2>3. CASE Paid(j)
    BY <1>0, <2>1, <2>3, PaidStays
  <2>4. CASE Ahead(j)
    BY <2>1, <2>4 DEF Ahead
  <2>5. CASE ~Paid(j) /\ j = Current /\ Max(Missed(j)) \in pass.owed
    <3>1. Missed(j)' = Missed(j)
      BY <2>1 DEF Missed
    <3>2. Owing(j)
      BY <2>5 DEF Paid
    <3> DEFINE m == Max(Missed(j))
    <3>3. m \in Grid[j]
      BY <3>2, LatestIsOfGrid
    <3>4. CASE m = Min(pass.owed)
      <4> DEFINE o == Min(pass.owed)
      <4>1. o \in Grid[Current] /\ o \in Instants /\ Execute(Current, "pass", o, TRUE)
        BY <2>2, <2>5, <3>3, <3>4
      <4> HIDE DEF o
      <4>2. TRUE /\ o \in Grid[Current] => ran'[Current][o] > 0 \/ o \in skipped'[Current]
        BY <2>2, <4>1, ExecuteRecords
      <4>3. ran'[j][m] > 0 \/ m \in skipped'[j]
        BY <2>5, <3>4, <4>1, <4>2 DEF o
      <4> QED BY <3>1, <4>3 DEF Paid
    <3>5. CASE m # Min(pass.owed)
      BY <2>1, <2>2, <2>5, <3>1, <3>5
    <3> QED BY <3>4, <3>5
  <2> QED BY <2>1, <2>3, <2>4, <2>5 DEF SettleInv, Passing
<1>6. CASE ReplayDone
  <2>1. /\ pass'.stage = pass.stage /\ pass'.at = pass.at /\ pass'.snap = pass.snap
        /\ pass'.todo = pass.todo /\ pass'.owed = pass.owed /\ Current' = Current
    BY <1>6, PassMoves DEF PassInv, Current
  <2> SUFFICES ASSUME Passing, NEW j \in Ids
               PROVE  \/ Ahead(j)' \/ Paid(j)'
                      \/ pass'.stage = "replay" /\ j = Current' /\ Max(Missed(j))' \in pass'.owed
    BY <2>1 DEF SettleInv, Passing
  <2>2. CASE Ahead(j)
    BY <2>1, <2>2 DEF Ahead
  <2>3. CASE Paid(j)
    BY <1>0, <2>1, <2>3, PaidStays
  <2>4. CASE pass.stage = "replay" /\ j = Current /\ Max(Missed(j)) \in pass.owed
    <3>1. Missed(j)' = Missed(j)
      BY <2>1 DEF Missed
    <3> QED BY <2>1, <2>4, <3>1
  <2> QED BY <2>2, <2>3, <2>4 DEF SettleInv
<1>7. CASE NextJob
  <2>1. /\ pass'.stage = "jobs" /\ pass'.at = pass.at /\ pass'.snap = pass.snap
        /\ pass'.todo = Tail(pass.todo) /\ pass.stage = "replay" /\ pass.owed = {}
        /\ pass.todo # <<>> /\ pass.todo \in Seq(Ids)
    BY <1>7, PassMoves, PassHas DEF NextJob, PassInv
  <2> SUFFICES ASSUME NEW j \in Ids
               PROVE  Ahead(j)' \/ Paid(j)'
    BY DEF SettleInv
  <2>2. CASE Paid(j)
    BY <1>0, <2>1, <2>2, PaidStays
  <2>3. CASE Ahead(j)
    <3>1. PICK i \in DOMAIN pass.todo : pass.todo[i] = j /\ i # 1
      BY <2>1, <2>3 DEF Ahead
    <3>2. i - 1 \in DOMAIN Tail(pass.todo) /\ Tail(pass.todo)[i - 1] = j
      BY <2>1, <3>1
    <3> QED BY <2>1, <3>2 DEF Ahead
  <2> QED BY <2>1, <2>2, <2>3 DEF SettleInv, Passing
<1> QED BY <1>1, <1>2, <1>3, <1>4, <1>5, <1>6, <1>7, PassSteps DEF PassStep

\* When a catch-up pass is over, the newest occurrence that each job missed has been executed or
\* recorded as skipped, whatever ran beside the pass, slept or was restarted.
THEOREM PassSettlesLatest == Spec => []LatestSettled
<1>1. Init => SettleInv
  BY DEF Init, SettleInv, Passing, NoPass
<1>2. TypeOK /\ PassInv /\ SettleInv /\ [Next]_vars => SettleInv'
  BY SettleStep
<1>3. SettleInv => LatestSettled
  <2> SUFFICES ASSUME SettleInv, pass.stage = "jobs", pass.todo = <<>>, NEW j \in Ids
               PROVE  Paid(j)
    BY DEF LatestSettled, Paid, Owing
  <2>1. ~Ahead(j)
    BY DEF Ahead
  <2> QED BY <2>1 DEF SettleInv, Passing
<1> QED BY <1>1, <1>2, <1>3, TypesHold, PTL DEF Spec

-----------------------------------------------------------------------------
(***************************************************************************)
(* While the machine does not sleep.                                       *)
(***************************************************************************)
\* Nobody ran a job by hand, and no daemon started just before an occurrence.
Alone == manuals = 0 /\ ~QuickRestart

\* No manual run can come while a fire of the job sleeps its jitter.
Calm(j) == Jitter[j] = 0 \/ manuals = 0

\* There is one pass, which is over before a timer is set and a task begins.
ShapeInv ==
  /\ ~slept /\ (pass.stage # "none" <=> daemon = "starting")
  /\ daemon # "up" => \A j \in Ids : task[j].stage = "idle"

\* The watermark is ahead of the clock only at the occurrence of an early fire, and a pass knows
\* the watermark of every job it has not come to.
MarkInv(j) ==
  /\ watermark[j] <= now + MaxEarly
  /\ watermark[j] > now => watermark[j] \in Grid[j]
  /\ daemon = "starting" /\ ~QuickRestart => watermark[j] <= now
  /\ Passing /\ Ahead(j) => pass.snap[j] = watermark[j]

\* A timer waits for an occurrence past the watermark.
TimerInv(j) ==
  timer[j] # 0 =>
    /\ daemon = "up" /\ timer[j] \in Grid[j]
    /\ now <= timer[j] /\ watermark[j] <= timer[j]
    /\ Alone => watermark[j] < timer[j]

\* A fire that sleeps its jitter has an occurrence between the watermark and the next timer.
TaskInv(j) ==
  task[j].stage = "jitter" =>
    /\ task[j].occ \in Grid[j] /\ task[j].occ <= now + MaxEarly
    /\ timer[j] # 0 => task[j].occ < timer[j]
    /\ Calm(j) => watermark[j] <= task[j].occ
    /\ Alone => watermark[j] < task[j].occ
    /\ Jitter[j] = 0 => now <= task[j].occ /\ task[j].until <= now

\* A pass replays occurrences past the watermark.
OwedInv ==
  pass.stage = "replay" =>
    \A o \in pass.owed : o \in Grid[Current] /\ watermark[Current] < o /\ o <= pass.at

\* What was executed is behind the watermark.
OnceInv ==
  Alone => \A j \in Ids : \A o \in Grid[j] :
             ran[j][o] <= 1 /\ (ran[j][o] > 0 => o <= watermark[j])

Awake ==
  /\ ShapeInv /\ OwedInv /\ OnceInv
  /\ \A j \in Ids : MarkInv(j) /\ TimerInv(j) /\ TaskInv(j)

LEMMA Numbers ==
  ASSUME TypeOK
  PROVE  /\ now \in Nat /\ MaxEarly \in Nat /\ pass.at \in Nat
         /\ \A j \in Ids : /\ watermark[j] \in Nat /\ timer[j] \in Nat /\ Jitter[j] \in Nat
                           /\ task[j].occ \in Nat /\ task[j].until \in Nat
                           /\ task[j].occ \in Instants /\ Grid[j] \subseteq Nat
                           /\ \A o \in Grid[j] : ran[j][o] \in Nat
<1>1. \A j \in Ids : task[j] \in TaskState
  BY DEF TypeOK
<1>2. \A j \in Ids : task[j].occ \in Instants /\ task[j].until \in Nat
  BY <1>1 DEF TaskState
<1>3. Horizon \in Nat /\ Instants \subseteq Nat
  BY GridAssumption DEF Instants
<1>4. now \in Nat /\ MaxEarly \in Nat /\ pass.at \in Nat
  BY <1>3, PassHas, SkewAssumption DEF TypeOK
<1>5. \A j \in Ids : watermark[j] \in Nat /\ timer[j] \in Nat /\ Jitter[j] \in Nat
  BY <1>3, JitterAssumption DEF TypeOK
<1>6. \A j \in Ids : Grid[j] \subseteq Nat /\ \A o \in Grid[j] : ran[j][o] \in Nat
  BY JobIsOfGrid DEF TypeOK
<1> QED BY <1>2, <1>3, <1>4, <1>5, <1>6

\* An execution at an instant, as far as one job and one occurrence see it.
LEMMA ExecuteCounts ==
  ASSUME TypeOK, NEW j \in Ids, NEW at \in Instants, NEW i \in Ids, NEW o \in Grid[i],
         \/ ran' = ran
         \/ /\ ran' = [ran EXCEPT ![j] = [ran[j] EXCEPT ![at] = ran[j][at] + 1]]
            /\ watermark' = [watermark EXCEPT ![j] = at]
  PROVE  \/ ran'[i][o] = ran[i][o]
         \/ i = j /\ o = at /\ ran'[i][o] = ran[i][o] + 1 /\ watermark'[i] = at
<1>1. ran = [k \in Ids |-> ran[k]] /\ \A k \in Ids : ran[k] \in [Grid[k] -> Nat]
  BY DEF TypeOK
<1>2. watermark \in [Ids -> Instants]
  BY DEF TypeOK
<1> QED BY <1>1, <1>2

\* Where a watermark and a count of runs come from.
LEMMA MarkComesFrom ==
  ASSUME TypeOK, PassInv, [Next]_vars, NEW j \in Ids
  PROVE  \/ watermark'[j] = watermark[j]
         \/ FireExecute(j) /\ watermark'[j] = task[j].occ
         \/ ManualRun(j) /\ watermark'[j] = now /\ lock'[j] = "manual"
         \/ ReplayNext /\ j = Current /\ watermark'[j] = Min(pass.owed)
<1>1. ASSUME NEW i \in Ids, FireExecute(i)
      PROVE  \/ watermark'[j] = watermark[j]
             \/ FireExecute(j) /\ watermark'[j] = task[j].occ
  <2>1. PICK at \in Instants : at = task[i].occ /\ Execute(i, "task", at, TRUE)
    BY <1>1, Numbers DEF FireExecute
  <2>2. watermark'[j] = watermark[j] \/ (j = i /\ watermark'[j] = at)
    BY <2>1 DEF Execute, TypeOK
  <2> QED BY <1>1, <2>1, <2>2
<1>2. ASSUME NEW i \in Ids, ManualRun(i)
      PROVE  \/ watermark'[j] = watermark[j]
             \/ ManualRun(j) /\ watermark'[j] = now /\ lock'[j] = "manual"
  <2>1. now \in Instants /\ Execute(i, "manual", now, FALSE)
    BY <1>2 DEF ManualRun, TypeOK
  <2>2. watermark'[j] = watermark[j] \/ (j = i /\ watermark'[j] = now /\ lock'[j] = "manual")
    BY <2>1 DEF Execute, TypeOK
  <2> QED BY <1>2, <2>2
<1>3. CASE ReplayNext
  <2>1. PICK i \in Ids, at \in Instants :
          i = Current /\ at = Min(pass.owed) /\ Execute(i, "pass", at, TRUE)
    BY <1>3, PassHas, OldestOwed DEF ReplayNext, PassInv
  <2>2. watermark'[j] = watermark[j] \/ (j = i /\ watermark'[j] = at)
    BY <2>1 DEF Execute, TypeOK
  <2> QED BY <1>3, <2>1, <2>2
<1>4. ASSUME NEW i \in Ids, Fire(i) \/ DropTick(i) \/ FireDone(i) \/ ManualDone(i)
      PROVE  watermark'[j] = watermark[j]
  BY <1>4 DEF Fire, DropTick, FireDone, ManualDone
<1>5. CASE StartDaemon \/ NoticeSleep \/ BeginPass("start") \/ BeginPass("wake")
           \/ EnumerateJob \/ ReplayDone \/ NextJob \/ EndPass \/ Crash \/ UNCHANGED vars
           \/ Tick \/ Sleep
  BY <1>5 DEF StartDaemon, NoticeSleep, BeginPass, EnumerateJob, ReplayDone, NextJob, EndPass,
              Crash, Tick, Sleep, vars
<1> QED BY <1>1, <1>2, <1>3, <1>4, <1>5 DEF Next, PassStep

LEMMA RunComesFrom ==
  ASSUME TypeOK, PassInv, [Next]_vars, NEW j \in Ids, NEW o \in Grid[j]
  PROVE  \/ ran'[j][o] = ran[j][o]
         \/ /\ ran'[j][o] = ran[j][o] + 1 /\ watermark'[j] = o
            /\ \/ FireExecute(j) /\ o = task[j].occ
               \/ ReplayNext /\ j = Current /\ o = Min(pass.owed)
<1>1. ASSUME NEW i \in Ids, FireExecute(i)
      PROVE  \/ ran'[j][o] = ran[j][o]
             \/ /\ ran'[j][o] = ran[j][o] + 1 /\ watermark'[j] = o
                /\ FireExecute(j) /\ o = task[j].occ
  <2>1. PICK at \in Instants : at = task[i].occ /\ Execute(i, "task", at, TRUE)
    BY <1>1, Numbers DEF FireExecute
  <2>2. \/ ran'[j][o] = ran[j][o]
        \/ j = i /\ o = at /\ ran'[j][o] = ran[j][o] + 1 /\ watermark'[j] = at
    <3>1. \/ ran' = ran
          \/ /\ ran' = [ran EXCEPT ![i] = [ran[i] EXCEPT ![at] = ran[i][at] + 1]]
             /\ watermark' = [watermark EXCEPT ![i] = at]
      BY <2>1 DEF Execute
    <3> QED BY <3>1, ExecuteCounts
  <2> QED BY <1>1, <2>1, <2>2
<1>2. ASSUME NEW i \in Ids, ManualRun(i)
      PROVE  ran'[j][o] = ran[j][o]
  <2>1. now \in Instants /\ Execute(i, "manual", now, FALSE)
    BY <1>2 DEF ManualRun, TypeOK
  <2>2. ran' = ran
    BY <2>1 DEF Execute
  <2> QED BY <2>2
<1>3. CASE ReplayNext
  <2>1. PICK i \in Ids, at \in Instants :
          i = Current /\ at = Min(pass.owed) /\ Execute(i, "pass", at, TRUE)
    BY <1>3, PassHas, OldestOwed DEF ReplayNext, PassInv
  <2>2. \/ ran'[j][o] = ran[j][o]
        \/ j = i /\ o = at /\ ran'[j][o] = ran[j][o] + 1 /\ watermark'[j] = at
    <3>1. \/ ran' = ran
          \/ /\ ran' = [ran EXCEPT ![i] = [ran[i] EXCEPT ![at] = ran[i][at] + 1]]
             /\ watermark' = [watermark EXCEPT ![i] = at]
      BY <2>1 DEF Execute
    <3> QED BY <3>1, ExecuteCounts
  <2> QED BY <1>3, <2>1, <2>2
<1>4. ASSUME NEW i \in Ids, Fire(i) \/ DropTick(i) \/ FireDone(i) \/ ManualDone(i)
      PROVE  ran'[j][o] = ran[j][o]
  BY <1>4 DEF Fire, DropTick, FireDone, ManualDone
<1>5. CASE StartDaemon \/ NoticeSleep \/ BeginPass("start") \/ BeginPass("wake")
           \/ EnumerateJob \/ ReplayDone \/ NextJob \/ EndPass \/ Crash \/ UNCHANGED vars
           \/ Tick \/ Sleep
  BY <1>5 DEF StartDaemon, NoticeSleep, BeginPass, EnumerateJob, ReplayDone, NextJob, EndPass,
              Crash, Tick, Sleep, vars
<1> QED BY <1>1, <1>2, <1>3, <1>4, <1>5 DEF Next, PassStep

\* Where a timer, a task and the state of the daemon come from, when the machine is awake.
LEMMA TimerComesFrom ==
  ASSUME TypeOK, [Next]_vars, ~Sleep, NEW j \in Ids
  PROVE  \/ timer'[j] = timer[j]
         \/ /\ Fire(j) \/ DropTick(j)
            /\ timer'[j] = NextAfter(j, Max({now, timer[j]}))
         \/ NoticeSleep
         \/ EndPass /\ daemon = "starting" /\ timer'[j] = NextAfter(j, now)
         \/ Crash /\ timer'[j] = 0
<1>1. ASSUME NEW i \in Ids, Fire(i) \/ DropTick(i)
      PROVE  \/ timer'[j] = timer[j]
             \/ /\ Fire(j) \/ DropTick(j)
                /\ timer'[j] = NextAfter(j, Max({now, timer[j]}))
  <2>1. timer' = [timer EXCEPT ![i] = NextAfter(i, Max({now, timer[i]}))]
    BY <1>1 DEF Fire, DropTick, Rearm
  <2>2. timer \in [Ids -> Nat]
    BY DEF TypeOK
  <2> QED BY <1>1, <2>1, <2>2
<1>2. ASSUME NEW i \in Ids, FireExecute(i) \/ FireDone(i) \/ ManualRun(i) \/ ManualDone(i)
      PROVE  timer'[j] = timer[j]
  BY <1>2 DEF FireExecute, FireDone, ManualRun, ManualDone
<1>3. CASE EndPass
  BY <1>3 DEF EndPass
<1>4. CASE Crash
  BY <1>4 DEF Crash
<1>5. CASE StartDaemon \/ BeginPass("start") \/ BeginPass("wake") \/ EnumerateJob
           \/ ReplayNext \/ ReplayDone \/ NextJob \/ UNCHANGED vars \/ Tick
  BY <1>5 DEF StartDaemon, BeginPass, EnumerateJob, ReplayNext, ReplayDone, NextJob, Tick, vars
<1> QED BY <1>1, <1>2, <1>3, <1>4, <1>5 DEF Next, PassStep

LEMMA TaskLeavesJitter ==
  ASSUME TypeOK, NEW j \in Ids, FireExecute(j)
  PROVE  task[j].stage = "jitter" /\ task'[j].stage # "jitter"
<1>1. task[j].stage = "jitter"
      /\ task' = [task EXCEPT ![j] = IF lock[j] = Free
                                     THEN [task[j] EXCEPT !.stage = "run"] ELSE Idle]
  BY DEF FireExecute
<1>2. task \in [Ids -> TaskState] /\ task[j] \in TaskState
  BY DEF TypeOK
<1>3. [task[j] EXCEPT !.stage = "run"].stage = "run"
  BY <1>2 DEF TaskState
<1> QED BY <1>1, <1>2, <1>3 DEF Idle

LEMMA TaskComesFrom ==
  ASSUME TypeOK, [Next]_vars, ~Sleep, NEW j \in Ids
  PROVE  \/ task'[j] = task[j]
         \/ Fire(j)
         \/ task'[j].stage # "jitter"
<1>0. task \in [Ids -> TaskState]
  BY DEF TypeOK
<1>1. ASSUME NEW i \in Ids, FireExecute(i)
      PROVE  task'[j] = task[j] \/ task'[j].stage # "jitter"
  <2>1. CASE i = j
    BY <1>1, <2>1, TaskLeavesJitter
  <2>2. CASE i # j
    BY <1>0, <1>1, <2>2 DEF FireExecute
  <2> QED BY <2>1, <2>2
<1>2. ASSUME NEW i \in Ids, Fire(i)
      PROVE  task'[j] = task[j] \/ Fire(j)
  BY <1>0, <1>2 DEF Fire
<1>3. ASSUME NEW i \in Ids, FireDone(i)
      PROVE  task'[j] = task[j] \/ task'[j].stage # "jitter"
  BY <1>0, <1>3 DEF FireDone, Idle
<1>4. ASSUME NEW i \in Ids, DropTick(i) \/ ManualRun(i) \/ ManualDone(i)
      PROVE  task'[j] = task[j]
  BY <1>4 DEF DropTick, ManualRun, ManualDone
<1>5. CASE Crash
  BY <1>5 DEF Crash, Idle
<1>6. CASE StartDaemon \/ BeginPass("start") \/ BeginPass("wake") \/ PassStep \/ NoticeSleep
           \/ UNCHANGED vars \/ Tick
  BY <1>6 DEF StartDaemon, BeginPass, PassStep, EnumerateJob, ReplayNext, ReplayDone, NextJob,
              EndPass, NoticeSleep, Tick, vars
<1> QED BY <1>1, <1>2, <1>3, <1>4, <1>5, <1>6 DEF Next

LEMMA DaemonComesFrom ==
  ASSUME [Next]_vars
  PROVE  \/ daemon' = daemon
         \/ StartDaemon /\ daemon = "down" /\ daemon' = "starting"
         \/ EndPass /\ daemon' = "up"
         \/ Crash /\ daemon' = "down"
<1>1. ASSUME NEW j \in Ids, \/ Fire(j) \/ DropTick(j) \/ FireExecute(j) \/ FireDone(j)
                            \/ ManualRun(j) \/ ManualDone(j)
      PROVE  daemon' = daemon
  BY <1>1 DEF Fire, DropTick, FireExecute, FireDone, ManualRun, ManualDone
<1>2. CASE \/ BeginPass("start") \/ BeginPass("wake") \/ EnumerateJob \/ ReplayNext \/ ReplayDone
           \/ NextJob \/ NoticeSleep \/ UNCHANGED vars \/ Tick \/ Sleep
  BY <1>2 DEF BeginPass, EnumerateJob, ReplayNext, ReplayDone, NextJob, NoticeSleep, Tick, Sleep,
              vars
<1>3. CASE StartDaemon \/ EndPass \/ Crash
  BY <1>3 DEF StartDaemon, EndPass, Crash
<1> QED BY <1>1, <1>2, <1>3 DEF Next, PassStep

\* A pass is a step of a daemon that is starting, a run by hand and a fire of one that is up.
LEMMA WhoseStep ==
  ASSUME TypeOK, PassInv, ShapeInv
  PROVE  /\ ~NoticeSleep /\ (Passing => daemon = "starting")
         /\ EnumerateJob \/ ReplayNext \/ ReplayDone \/ NextJob \/ EndPass => daemon = "starting"
         /\ \A j \in Ids : /\ FireExecute(j) => daemon = "up"
                           /\ Fire(j) \/ DropTick(j) \/ ManualRun(j) => daemon = "up"
<1>1. ~NoticeSleep /\ (Passing => daemon = "starting")
  BY DEF ShapeInv, NoticeSleep, Passing
<1>2. EnumerateJob \/ ReplayNext \/ ReplayDone \/ NextJob \/ EndPass => pass.stage # "none"
  BY DEF EnumerateJob, ReplayNext, ReplayDone, NextJob, EndPass, PassInv
<1>3. ASSUME NEW j \in Ids, FireExecute(j) PROVE daemon = "up"
  BY <1>3 DEF FireExecute, ShapeInv
<1>4. ASSUME NEW j \in Ids, Fire(j) \/ DropTick(j) \/ ManualRun(j) PROVE daemon = "up"
  BY <1>4 DEF Fire, DropTick, ManualRun, Due
<1> QED BY <1>1, <1>2, <1>3, <1>4 DEF ShapeInv

\* The watermark moves on, but for a run by hand.
LEMMA MarkMovesOn ==
  ASSUME TypeOK, PassInv, Awake, [Next]_vars, NEW j \in Ids
  PROVE  \/ watermark'[j] >= watermark[j]
         \/ ManualRun(j) /\ lock'[j] = "manual"
         \/ ~Calm(j)
<1>0. watermark[j] \in Nat /\ task[j].occ \in Nat
  BY Numbers
<1>1. CASE watermark'[j] = watermark[j]
  BY <1>0, <1>1
<1>2. CASE FireExecute(j) /\ watermark'[j] = task[j].occ
  <2>1. Calm(j) => watermark[j] <= task[j].occ
    BY <1>2, TaskLeavesJitter DEF Awake, TaskInv
  <2> QED BY <1>0, <1>2, <2>1
<1>3. CASE ReplayNext /\ j = Current /\ watermark'[j] = Min(pass.owed)
  <2>1. Min(pass.owed) \in pass.owed /\ Min(pass.owed) \in Nat /\ pass.stage = "replay"
    <3>1. pass.owed # {} /\ pass.stage = "replay"
      BY <1>3 DEF ReplayNext
    <3> QED BY <3>1, OldestOwed, GridAssumption DEF Instants
  <2>2. watermark[j] < Min(pass.owed)
    BY <1>3, <2>1 DEF Awake, OwedInv
  <2> QED BY <1>0, <1>3, <2>1, <2>2
<1> QED BY <1>1, <1>2, <1>3, MarkComesFrom

\* Only a run by hand counts as one, and only time that passes moves the clock.
LEMMA ManualsGrow ==
  ASSUME [Next]_vars
  PROVE  \/ manuals' = manuals
         \/ manuals' = manuals + 1 /\ \E j \in Ids : ManualRun(j)
<1>1. ASSUME NEW j \in Ids, Fire(j) \/ DropTick(j) \/ FireExecute(j) \/ FireDone(j) \/ ManualDone(j)
      PROVE  manuals' = manuals
  BY <1>1 DEF Fire, DropTick, FireExecute, FireDone, ManualDone
<1>2. ASSUME NEW j \in Ids, ManualRun(j) PROVE manuals' = manuals + 1
  BY <1>2 DEF ManualRun
<1>3. CASE StartDaemon \/ BeginPass("start") \/ BeginPass("wake") \/ EnumerateJob
           \/ ReplayNext \/ ReplayDone \/ NextJob \/ EndPass \/ NoticeSleep
           \/ UNCHANGED vars \/ Tick \/ Sleep \/ Crash
  BY <1>3 DEF StartDaemon, BeginPass, EnumerateJob, ReplayNext, ReplayDone, NextJob,
              EndPass, NoticeSleep, Tick, Sleep, Crash, vars
<1> QED BY <1>1, <1>2, <1>3 DEF Next, PassStep

LEMMA ClockMoves ==
  ASSUME [Next]_vars, ~Sleep
  PROVE  now' = now \/ (Tick /\ now' = now + 1)
<1>1. ASSUME NEW j \in Ids, \/ Fire(j) \/ DropTick(j) \/ FireExecute(j) \/ FireDone(j)
                            \/ ManualRun(j) \/ ManualDone(j)
      PROVE  now' = now
  BY <1>1 DEF Fire, DropTick, FireExecute, FireDone, ManualRun, ManualDone
<1>2. CASE StartDaemon \/ BeginPass("start") \/ BeginPass("wake") \/ EnumerateJob
           \/ ReplayNext \/ ReplayDone \/ NextJob \/ EndPass \/ NoticeSleep
           \/ UNCHANGED vars \/ Crash
  BY <1>2 DEF StartDaemon, BeginPass, EnumerateJob, ReplayNext, ReplayDone, NextJob,
              EndPass, NoticeSleep, Crash, vars
<1>3. CASE Tick
  BY <1>3 DEF Tick
<1> QED BY <1>1, <1>2, <1>3 DEF Next, PassStep

LEMMA ShapeStep ==
  ASSUME TypeOK, PassInv, ShapeInv, [Next]_vars, ~Sleep
  PROVE  ShapeInv'
<1>0. task \in [Ids -> TaskState]
  BY DEF TypeOK
<1>1. ASSUME NEW j \in Ids, \/ Fire(j) \/ DropTick(j) \/ FireExecute(j) \/ FireDone(j)
                            \/ ManualRun(j) \/ ManualDone(j)
      PROVE  ShapeInv'
  <2>1. daemon' = daemon /\ pass' = pass /\ slept' = slept
    BY <1>1 DEF Fire, DropTick, FireExecute, FireDone, ManualRun, ManualDone
  <2>2. daemon # "up" => FireDone(j) \/ ManualDone(j)
    BY <1>1, WhoseStep
  <2>3. daemon # "up" => \A i \in Ids : task'[i].stage = "idle"
    BY <1>0, <2>2 DEF ShapeInv, FireDone, ManualDone, Idle
  <2> QED BY <2>1, <2>3 DEF ShapeInv
<1>2. CASE EnumerateJob \/ ReplayNext \/ ReplayDone \/ NextJob
  <2>1. daemon' = daemon /\ task' = task /\ slept' = slept /\ daemon = "starting"
    BY <1>2, WhoseStep DEF EnumerateJob, ReplayNext, ReplayDone, NextJob
  <2>2. pass'.stage # "none"
    BY <1>2, PassMoves DEF PassInv, ReplayDone, ShapeInv
  <2> QED BY <2>1, <2>2 DEF ShapeInv
<1>3. CASE StartDaemon
  <2>1. pass'.stage = "start"
    BY <1>3 DEF StartDaemon, NoPass
  <2> QED BY <1>3, <2>1 DEF StartDaemon, ShapeInv
<1>4. ASSUME NEW stage \in {"start", "wake"}, BeginPass(stage) PROVE ShapeInv'
  <2>1. pass'.stage = "jobs" /\ pass.stage = stage /\ daemon' = daemon /\ task' = task
        /\ slept' = slept
    BY <1>4 DEF BeginPass
  <2> QED BY <2>1 DEF ShapeInv
<1>5. CASE EndPass
  BY <1>5 DEF EndPass, ShapeInv, NoPass
<1>6. CASE Crash
  BY <1>6 DEF Crash, ShapeInv, NoPass, Idle
<1>7. CASE Tick \/ UNCHANGED vars
  BY <1>7 DEF Tick, vars, ShapeInv
<1> QED BY <1>1, <1>2, <1>3, <1>4, <1>5, <1>6, <1>7, WhoseStep DEF Next, PassStep

\* A job that the pass has yet to come to was so before, unless the pass begins.
LEMMA AheadWas ==
  ASSUME TypeOK, PassInv, [Next]_vars, NEW j \in Ids, Passing', Ahead(j)'
  PROVE  \/ \E stage \in {"start", "wake"} : BeginPass(stage)
         \/ Passing /\ Ahead(j) /\ pass'.snap = pass.snap /\ ~(ReplayNext /\ j = Current)
<1>0. CASE UNCHANGED pass
  <2>1. ~ReplayNext
    <3> SUFFICES ASSUME ReplayNext PROVE FALSE
      OBVIOUS
    <3>1. pass'.owed = pass.owed \ {Min(pass.owed)} /\ Min(pass.owed) \in pass.owed
      BY PassMoves, OldestOwed DEF PassInv, ReplayNext
    <3> QED BY <1>0, <3>1
  <2> QED BY <1>0, <2>1 DEF Passing, Ahead
<1>1. CASE EnumerateJob
  BY <1>1, PassMoves DEF PassInv, Passing, Ahead, EnumerateJob, ReplayNext
<1>2. CASE ReplayNext
  <2>1. /\ pass'.stage = "replay" /\ pass'.snap = pass.snap /\ pass'.todo = pass.todo
        /\ pass.stage = "replay" /\ pass.todo # <<>>
    BY <1>2, PassMoves DEF PassInv, ReplayNext
  <2>2. Current = pass.todo[1] /\ 1 \in DOMAIN pass.todo
    BY <2>1, PassHas
  <2>3. PICK i \in DOMAIN pass.todo : pass.todo[i] = j /\ i # 1
    BY <2>1 DEF Ahead
  <2>4. j # Current
    BY <2>2, <2>3 DEF PassInv
  <2> QED BY <2>1, <2>3, <2>4 DEF Passing, Ahead
<1>3. CASE ReplayDone
  <2>1. /\ pass'.stage = pass.stage /\ pass'.snap = pass.snap /\ pass'.todo = pass.todo
    BY <1>3, PassMoves DEF PassInv
  <2>2. pass.running /\ ~ReplayNext
    BY <1>3, PassHas DEF ReplayDone, ReplayNext
  <2> QED BY <2>1, <2>2 DEF Passing, Ahead
<1>4. CASE NextJob
  <2>1. /\ pass'.stage = "jobs" /\ pass'.snap = pass.snap /\ pass'.todo = Tail(pass.todo)
        /\ pass.stage = "replay" /\ pass.todo # <<>> /\ pass.todo \in Seq(Ids) /\ ~ReplayNext
    BY <1>4, PassMoves, PassHas DEF PassInv, NextJob, ReplayNext
  <2>2. PICK i \in DOMAIN Tail(pass.todo) : Tail(pass.todo)[i] = j
    BY <2>1 DEF Ahead
  <2>3. i + 1 \in DOMAIN pass.todo /\ i + 1 # 1 /\ pass.todo[i + 1] = j
    BY <2>1, <2>2
  <2> QED BY <2>1, <2>3 DEF Passing, Ahead
<1>5. CASE StartDaemon \/ NoticeSleep \/ Crash \/ EndPass
  <2>1. pass'.stage \in {"none", "start", "wake"}
    BY <1>5 DEF StartDaemon, NoticeSleep, Crash, EndPass, NoPass
  <2> QED BY <2>1 DEF Passing
<1> QED BY <1>0, <1>1, <1>2, <1>3, <1>4, <1>5, PassSteps DEF PassStep

LEMMA MarkStep ==
  ASSUME TypeOK, PassInv, Awake, [Next]_vars, ~Sleep, NEW j \in Ids
  PROVE  MarkInv(j)'
<1>0. /\ now \in Nat /\ now' \in Nat /\ now <= now' /\ MaxEarly \in Nat /\ watermark[j] \in Nat
      /\ pass.at \in Nat /\ task[j].occ \in Nat
  <2>1. now' \in Instants
    BY TypeStep DEF TypeOK
  <2> QED BY <2>1, Numbers, RecordsStay, GridAssumption DEF Instants
<1>1. MarkInv(j) /\ ShapeInv
  BY DEF Awake
\* The watermark is at most a little ahead of the clock.
<1>2. /\ watermark'[j] <= now + MaxEarly
      /\ watermark'[j] > now => watermark'[j] \in Grid[j]
      /\ ReplayNext /\ j = Current => watermark'[j] <= now \/ watermark'[j] = watermark[j]
      /\ watermark'[j] \in Nat
  <2>1. CASE watermark'[j] = watermark[j]
    BY <1>0, <1>1, <2>1 DEF MarkInv
  <2>2. CASE FireExecute(j) /\ watermark'[j] = task[j].occ
    <3>1. task[j].occ \in Grid[j] /\ task[j].occ <= now + MaxEarly
      BY <2>2, TaskLeavesJitter DEF Awake, TaskInv
    <3>2. ~ReplayNext
      BY <1>1, <2>2, WhoseStep
    <3> QED BY <1>0, <2>2, <3>1, <3>2
  <2>3. CASE ManualRun(j) /\ watermark'[j] = now
    BY <1>0, <2>3
  <2>4. CASE ReplayNext /\ j = Current /\ watermark'[j] = Min(pass.owed)
    <3>1. pass.owed # {} /\ pass.stage = "replay"
      BY <2>4 DEF ReplayNext
    <3>2. Min(pass.owed) \in pass.owed /\ Min(pass.owed) \in Nat
      BY <3>1, OldestOwed, GridAssumption DEF Instants
    <3>3. Min(pass.owed) <= pass.at /\ pass.at <= now
      BY <3>1, <3>2 DEF Awake, OwedInv, PassInv, Passing
    <3> QED BY <1>0, <2>4, <3>2, <3>3
  <2> QED BY <2>1, <2>2, <2>3, <2>4, MarkComesFrom
<1>3. daemon' = "starting" /\ ~QuickRestart => watermark'[j] <= now'
  <2> SUFFICES ASSUME daemon' = "starting", ~QuickRestart
               PROVE  watermark'[j] <= now
    BY <1>0, <1>2
  <2>1. CASE StartDaemon
    <3>1. watermark'[j] = watermark[j] /\ \A o \in After(j, now) : o > now + MaxEarly
      BY <2>1 DEF StartDaemon
    <3>2. SUFFICES ASSUME watermark[j] > now PROVE FALSE
      BY <1>0, <3>1
    <3>3. watermark[j] \in After(j, now)
      BY <1>1, <3>2 DEF MarkInv, After
    <3> QED BY <1>0, <1>1, <3>1, <3>3 DEF MarkInv
  <2>2. CASE daemon = "starting"
    <3>1. watermark[j] <= now
      BY <1>1, <2>2 DEF MarkInv
    <3>2. ~FireExecute(j) /\ ~ManualRun(j)
      BY <1>1, <2>2, WhoseStep
    <3> QED BY <1>2, <3>1, <3>2, MarkComesFrom
  <2> QED BY <2>1, <2>2, DaemonComesFrom
<1>4. Passing' /\ Ahead(j)' => pass'.snap[j] = watermark'[j]
  <2> SUFFICES ASSUME Passing', Ahead(j)' PROVE pass'.snap[j] = watermark'[j]
    OBVIOUS
  <2>1. CASE \E stage \in {"start", "wake"} : BeginPass(stage)
    BY <2>1 DEF BeginPass
  <2>2. CASE Passing /\ Ahead(j) /\ pass'.snap = pass.snap /\ ~(ReplayNext /\ j = Current)
    <3>1. pass.snap[j] = watermark[j]
      BY <1>1, <2>2 DEF MarkInv
    <3>2. ~FireExecute(j) /\ ~ManualRun(j)
      BY <1>1, <2>2, WhoseStep
    <3> QED BY <2>2, <3>1, <3>2, MarkComesFrom
  <2> QED BY <2>1, <2>2, AheadWas
<1>5. watermark'[j] <= now' + MaxEarly /\ (watermark'[j] > now' => watermark'[j] \in Grid[j])
  BY <1>0, <1>2
<1> QED BY <1>3, <1>4, <1>5 DEF MarkInv

\* The timer that a tick re-arms waits for an occurrence after the one it has just spent.
LEMMA TimerMovesOn ==
  ASSUME TypeOK, NEW j \in Ids, TimerInv(j), Fire(j) \/ DropTick(j)
  PROVE  /\ timer[j] # 0 /\ daemon = "up" /\ daemon' = daemon /\ now' = now
         /\ watermark' = watermark /\ manuals' = manuals /\ now + MaxEarly >= timer[j]
         /\ timer'[j] \in Nat
         /\ timer'[j] # 0 => timer'[j] \in Grid[j] /\ timer'[j] > timer[j]
<1>1. /\ timer[j] # 0 /\ daemon = "up" /\ daemon' = daemon /\ now' = now
      /\ watermark' = watermark /\ manuals' = manuals /\ now + MaxEarly >= timer[j] /\ Rearm(j)
  BY DEF Fire, DropTick, Due
<1>2. now \in Nat /\ timer[j] \in Nat /\ now <= timer[j]
  BY <1>1, Numbers DEF TimerInv
<1>3. Max({now, timer[j]}) = timer[j]
  BY <1>2, MaxOfTwo
<1>4. timer'[j] = NextAfter(j, timer[j])
  BY <1>1, <1>3 DEF Rearm, TypeOK
<1>5. /\ NextAfter(j, timer[j]) \in Nat
      /\ NextAfter(j, timer[j]) # 0 =>
           NextAfter(j, timer[j]) \in Grid[j] /\ NextAfter(j, timer[j]) > timer[j]
  BY <1>2, NextIs
<1> QED BY <1>1, <1>4, <1>5

LEMMA TimerStep ==
  ASSUME Sparse, TypeOK, PassInv, Awake, [Next]_vars, ~Sleep, NEW j \in Ids
  PROVE  TimerInv(j)'
<1>0. /\ now \in Nat /\ MaxEarly \in Nat /\ watermark[j] \in Nat /\ timer[j] \in Nat
      /\ task[j].occ \in Nat /\ Grid[j] \subseteq Nat /\ manuals \in Nat
      /\ Skew \in Nat /\ MaxEarly <= Skew
  BY Numbers, SkewAssumption DEF TypeOK
<1>1. MarkInv(j) /\ TimerInv(j) /\ TaskInv(j) /\ ShapeInv
  BY DEF Awake
<1>2. CASE timer'[j] = timer[j]
  <2> SUFFICES ASSUME timer'[j] # 0
               PROVE  /\ daemon' = "up" /\ timer[j] \in Grid[j]
                      /\ now' <= timer[j] /\ watermark'[j] <= timer[j]
                      /\ Alone' => watermark'[j] < timer[j]
    BY <1>2 DEF TimerInv
  <2>1. /\ daemon = "up" /\ timer[j] \in Grid[j] /\ now <= timer[j] /\ watermark[j] <= timer[j]
        /\ Alone => watermark[j] < timer[j]
    BY <1>1, <1>2 DEF TimerInv
  <2>2. ~Crash
    BY <1>2 DEF Crash
  <2>3. daemon' = "up"
    <3>1. ~EndPass
      BY <1>1, <2>1, WhoseStep
    <3> QED BY <2>1, <2>2, <3>1, DaemonComesFrom
  <2>4. now' <= timer[j]
    <3>1. now' = now \/ (Tick /\ now' = now + 1)
      BY ClockMoves
    <3>2. Tick => timer[j] > now
      BY <1>2, <2>1 DEF Tick
    <3> QED BY <1>0, <2>1, <3>1, <3>2
  <2>5. watermark'[j] <= timer[j] /\ (Alone' => watermark'[j] < timer[j])
    <3>0. Alone' => Alone
      <4>1. manuals' = 0 => manuals = 0
        <5>1. manuals' = manuals \/ manuals' = manuals + 1
          BY ManualsGrow
        <5> QED BY <1>0, <5>1
      <4> QED BY <4>1 DEF Alone
    <3>1. CASE watermark'[j] = watermark[j]
      BY <2>1, <3>0, <3>1
    <3>2. CASE FireExecute(j) /\ watermark'[j] = task[j].occ
      <4>1. task[j].occ < timer[j]
        BY <1>1, <1>2, <3>2, TaskLeavesJitter DEF TaskInv
      <4> QED BY <1>0, <3>2, <4>1
    <3>3. CASE ManualRun(j) /\ watermark'[j] = now
      <4>1. ~Alone'
        BY <1>0, <3>3 DEF ManualRun, Alone
      <4> QED BY <2>1, <3>3, <4>1
    <3>4. CASE ReplayNext
      BY <1>1, <2>1, <3>4, WhoseStep
    <3> QED BY <3>1, <3>2, <3>3, <3>4, MarkComesFrom
  <2> QED BY <2>1, <2>3, <2>4, <2>5
<1>3. CASE Fire(j) \/ DropTick(j)
  <2>1. /\ timer[j] # 0 /\ daemon' = "up" /\ now' = now /\ watermark' = watermark
        /\ timer'[j] \in Nat /\ (timer'[j] # 0 => timer'[j] \in Grid[j] /\ timer'[j] > timer[j])
    BY <1>1, <1>3, TimerMovesOn
  <2>2. now <= timer[j] /\ watermark[j] <= timer[j]
    BY <1>1, <2>1 DEF TimerInv
  <2>3. timer'[j] # 0 => /\ timer'[j] \in Grid[j] /\ now' <= timer'[j]
                         /\ watermark'[j] < timer'[j] /\ watermark'[j] <= timer'[j]
    BY <1>0, <2>1, <2>2
  <2> QED BY <2>1, <2>3 DEF TimerInv
<1>4. CASE EndPass /\ daemon = "starting" /\ timer'[j] = NextAfter(j, now)
  <2>1. /\ daemon' = "up" /\ now' = now /\ watermark' = watermark /\ manuals' = manuals
    BY <1>4 DEF EndPass
  <2> SUFFICES ASSUME timer'[j] # 0
               PROVE  /\ timer'[j] \in Grid[j] /\ now < timer'[j] /\ watermark[j] <= timer'[j]
                      /\ Alone => watermark[j] < timer'[j]
    <3>1. timer'[j] \in Nat
      BY <1>0, <1>4, NextIs
    <3> QED BY <1>0, <2>1, <3>1 DEF TimerInv, Alone
  <2>2. /\ timer'[j] \in Nat /\ timer'[j] \in Grid[j] /\ now < timer'[j]
        /\ \A o \in Grid[j] : o > now => timer'[j] <= o
    BY <1>0, <1>4, NextIs
  <2>3. CASE watermark[j] <= now
    BY <1>0, <2>2, <2>3
  <2>4. CASE watermark[j] > now
    <3>1. /\ watermark[j] \in Grid[j] /\ watermark[j] <= now + MaxEarly
          /\ ~Alone
      BY <1>1, <1>4, <2>4, <1>0 DEF MarkInv, Alone
    <3>2. timer'[j] <= watermark[j]
      BY <2>2, <2>4, <3>1
    <3>3. ~(timer'[j] < watermark[j])
      <4>1. ~(watermark[j] - timer'[j] > 2 * Skew)
        BY <1>0, <2>2, <2>4, <3>1
      <4> QED BY <2>2, <3>1, <4>1 DEF Sparse
    <3> QED BY <1>0, <2>2, <3>1, <3>2, <3>3
  <2> QED BY <1>0, <2>3, <2>4
<1>5. CASE timer'[j] = 0
  BY <1>5 DEF TimerInv
<1> QED BY <1>1, <1>2, <1>3, <1>4, <1>5, TimerComesFrom, WhoseStep

LEMMA AloneWas ==
  ASSUME TypeOK, [Next]_vars, NEW j \in Ids
  PROVE  /\ Alone' => Alone /\ ~ManualRun(j)
         /\ Calm(j)' => Calm(j) /\ (ManualRun(j) => Jitter[j] = 0)
<1>1. manuals \in Nat
  BY DEF TypeOK
<1>2. manuals' = manuals \/ manuals' = manuals + 1
  BY ManualsGrow
<1>3. ManualRun(j) => manuals' = manuals + 1
  BY DEF ManualRun
<1> QED BY <1>1, <1>2, <1>3 DEF Alone, Calm

LEMMA TaskStep ==
  ASSUME Sparse, TypeOK, PassInv, Awake, [Next]_vars, ~Sleep, NEW j \in Ids
  PROVE  TaskInv(j)'
<1>0. /\ now \in Nat /\ MaxEarly \in Nat /\ watermark[j] \in Nat /\ timer[j] \in Nat
      /\ task[j].occ \in Nat /\ task[j].until \in Nat /\ Grid[j] \subseteq Nat
      /\ Jitter[j] \in Nat
  BY Numbers
<1>1. MarkInv(j) /\ TimerInv(j) /\ TaskInv(j) /\ ShapeInv
  BY DEF Awake
<1>2. CASE task'[j] = task[j] /\ task[j].stage = "jitter"
  <2>1. daemon = "up" /\ ~FireExecute(j) /\ ~Fire(j)
    BY <1>1, <1>2, TaskLeavesJitter DEF ShapeInv, Fire
  <2>2. /\ task[j].occ \in Grid[j] /\ task[j].occ <= now + MaxEarly
        /\ timer[j] # 0 => task[j].occ < timer[j]
        /\ Calm(j) => watermark[j] <= task[j].occ
        /\ Alone => watermark[j] < task[j].occ
        /\ Jitter[j] = 0 => now <= task[j].occ /\ task[j].until <= now
    BY <1>1, <1>2 DEF TaskInv
  <2>3. task[j].occ <= now' + MaxEarly
    BY <1>0, <2>2, ClockMoves
  <2>4. Jitter[j] = 0 => now' <= task[j].occ /\ task[j].until <= now'
    <3>1. Tick => task[j].until > now
      BY <1>2 DEF Tick
    <3> QED BY <1>0, <2>2, <3>1, ClockMoves
  <2>5. timer'[j] # 0 => task[j].occ < timer'[j]
    <3>1. CASE timer'[j] = timer[j]
      BY <2>2, <3>1
    <3>2. CASE Fire(j) \/ DropTick(j)
      BY <1>0, <1>1, <2>2, <3>2, TimerMovesOn
    <3>3. ~NoticeSleep /\ ~EndPass
      BY <1>1, <2>1, WhoseStep
    <3> QED BY <3>1, <3>2, <3>3, TimerComesFrom
  <2>6. \/ watermark'[j] = watermark[j]
        \/ ManualRun(j) /\ watermark'[j] = now
    <3>1. ~ReplayNext
      BY <1>1, <2>1, WhoseStep
    <3> QED BY <2>1, <3>1, MarkComesFrom
  <2>7. /\ Calm(j)' => watermark'[j] <= task[j].occ
        /\ Alone' => watermark'[j] < task[j].occ
    BY <2>2, <2>6, AloneWas
  <2> QED BY <1>2, <2>2, <2>3, <2>4, <2>5, <2>7 DEF TaskInv
<1>3. CASE Fire(j)
  <2>1. /\ timer[j] # 0 /\ now' = now /\ watermark' = watermark /\ manuals' = manuals
        /\ now + MaxEarly >= timer[j] /\ timer'[j] \in Nat
        /\ timer'[j] # 0 => timer'[j] > timer[j]
    BY <1>1, <1>3, TimerMovesOn
  <2>2. /\ timer[j] \in Grid[j] /\ now <= timer[j] /\ watermark[j] <= timer[j]
        /\ Alone => watermark[j] < timer[j]
    BY <1>1, <2>1 DEF TimerInv
  <2>3. Occurrence(j, now) = timer[j]
    <3>1. now \in Instants /\ timer[j] <= now + MaxEarly
      BY <1>0, <2>1 DEF TypeOK
    <3> QED BY <2>2, <3>1, EarlyFireIsNamed
  <2>4. task'[j] = [stage |-> "jitter", occ |-> timer[j], until |-> now + Jitter[j]]
    BY <1>3, <2>3 DEF Fire, TypeOK
  <2>5. task'[j].occ = timer[j] /\ task'[j].until = now + Jitter[j]
    BY <2>4
  <2> QED BY <1>0, <2>1, <2>2, <2>5 DEF TaskInv, Calm, Alone
<1>4. CASE task'[j].stage # "jitter"
  BY <1>4 DEF TaskInv
<1> QED BY <1>2, <1>3, <1>4, TaskComesFrom

LEMMA OwedStep ==
  ASSUME TypeOK, PassInv, Awake, [Next]_vars, ~Sleep
  PROVE  OwedInv'
<1>1. OwedInv /\ ShapeInv
  BY DEF Awake
<1>2. SUFFICES ASSUME pass'.stage = "replay"
               PROVE  \A o \in pass'.owed :
                        o \in Grid[Current'] /\ watermark'[Current'] < o /\ o <= pass'.at
  BY DEF OwedInv
<1>3. CASE ReplayNext
  <2>1. /\ pass'.at = pass.at /\ pass'.todo = pass.todo /\ pass.stage = "replay"
        /\ pass'.owed = pass.owed \ {Min(pass.owed)} /\ pass.owed # {}
    BY <1>3, PassMoves DEF PassInv, ReplayNext
  <2>2. Current' = Current /\ Current \in Ids
    BY <2>1, PassHas DEF PassInv, Current
  <2>3. /\ Min(pass.owed) \in pass.owed /\ Min(pass.owed) \in Nat
        /\ \A o \in pass.owed : o \in Nat /\ Min(pass.owed) <= o
    BY <2>1, OldestOwed, PassHas, GridAssumption DEF Instants
  <2>4. watermark'[Current] = watermark[Current] \/ watermark'[Current] = Min(pass.owed)
    <3>1. ~FireExecute(Current) /\ ~ManualRun(Current)
      BY <1>1, <1>3, <2>2, WhoseStep
    <3> QED BY <2>2, <3>1, MarkComesFrom
  <2>5. \A o \in pass.owed : o \in Grid[Current] /\ watermark[Current] < o /\ o <= pass.at
    BY <1>1, <2>1 DEF OwedInv
  <2> QED BY <2>1, <2>2, <2>3, <2>4, <2>5
<1>4. CASE UNCHANGED pass /\ ~ReplayNext
  <2>1. pass.stage = "replay" /\ Current' = Current /\ Current \in Ids
    BY <1>2, <1>4, PassHas DEF PassInv, Current
  <2>2. ~FireExecute(Current) /\ ~ManualRun(Current)
    BY <1>1, <2>1, WhoseStep DEF Passing
  <2>3. watermark'[Current] = watermark[Current]
    BY <1>4, <2>1, <2>2, MarkComesFrom
  <2> QED BY <1>1, <1>4, <2>1, <2>3 DEF OwedInv
<1>5. CASE EnumerateJob
  <2>1. /\ pass'.at = pass.at /\ pass'.todo = pass.todo /\ pass.stage = "jobs"
        /\ pass'.owed = Owed(Current, pass.snap[Current], pass.at) /\ pass.todo # <<>>
        /\ watermark' = watermark
    BY <1>5, PassMoves DEF PassInv, EnumerateJob
  <2>2. /\ Current' = Current /\ Current \in Ids /\ Current = pass.todo[1]
        /\ 1 \in DOMAIN pass.todo
    BY <2>1, PassHas DEF Current
  <2>3. pass.snap[Current] = watermark[Current]
    <3>1. Passing /\ Ahead(Current)
      BY <2>1, <2>2 DEF Ahead, Passing
    <3> QED BY <2>2, <3>1 DEF Awake, MarkInv
  <2>4. \A o \in Owed(Current, watermark[Current], pass.at) :
          o \in Grid[Current] /\ watermark[Current] < o /\ o <= pass.at
    <3>1. watermark[Current] \in Instants /\ pass.at \in Instants
      BY <2>2, PassHas DEF TypeOK
    <3> QED BY <2>2, <3>1, OwedIsMissed
  <2> QED BY <2>1, <2>2, <2>3, <2>4
<1>6. CASE ReplayDone
  <2>1. /\ pass'.at = pass.at /\ pass'.todo = pass.todo /\ pass'.owed = pass.owed
        /\ pass'.stage = pass.stage /\ watermark' = watermark /\ Current' = Current
    BY <1>6, PassMoves DEF PassInv, ReplayDone, Current
  <2> QED BY <1>1, <1>2, <2>1 DEF OwedInv
<1>7. ASSUME NEW stage \in {"start", "wake"}, BeginPass(stage) PROVE FALSE
  BY <1>2, <1>7 DEF BeginPass
<1>8. CASE NextJob
  BY <1>2, <1>8, PassMoves DEF PassInv
<1>9. CASE StartDaemon \/ NoticeSleep \/ Crash \/ EndPass
  BY <1>2, <1>9 DEF StartDaemon, NoticeSleep, Crash, EndPass, NoPass
<1> QED BY <1>3, <1>4, <1>5, <1>6, <1>7, <1>8, <1>9, PassSteps DEF PassStep

LEMMA OnceStep ==
  ASSUME TypeOK, PassInv, Awake, [Next]_vars, ~Sleep
  PROVE  OnceInv'
<1> SUFFICES ASSUME Alone', NEW j \in Ids, NEW o \in Grid[j]
             PROVE  ran'[j][o] <= 1 /\ (ran'[j][o] > 0 => o <= watermark'[j])
  BY DEF OnceInv
<1>0. Alone /\ ~ManualRun(j) /\ Calm(j)
  BY AloneWas DEF Alone, Calm
<1>1. /\ ran[j][o] \in Nat /\ watermark[j] \in Nat /\ o \in Nat /\ task[j].occ \in Nat
      /\ watermark'[j] \in Nat
  <2>1. watermark'[j] \in Instants
    BY TypeStep DEF TypeOK
  <2> QED BY <2>1, Numbers, GridAssumption DEF Instants
<1>2. ran[j][o] <= 1 /\ (ran[j][o] > 0 => o <= watermark[j])
  BY <1>0 DEF Awake, OnceInv
<1>3. watermark'[j] >= watermark[j]
  BY <1>0, MarkMovesOn
<1>4. CASE ran'[j][o] = ran[j][o]
  BY <1>1, <1>2, <1>3, <1>4
<1>5. CASE ran'[j][o] = ran[j][o] + 1 /\ watermark'[j] = o /\ watermark[j] < o
  BY <1>1, <1>2, <1>5
<1>6. FireExecute(j) /\ o = task[j].occ => watermark[j] < o
  BY <1>0, TaskLeavesJitter DEF Awake, TaskInv
<1>7. ReplayNext /\ j = Current /\ o = Min(pass.owed) => watermark[j] < o
  <2> SUFFICES ASSUME ReplayNext, j = Current, o = Min(pass.owed) PROVE watermark[j] < o
    OBVIOUS
  <2>1. pass.stage = "replay" /\ o \in pass.owed
    BY OldestOwed DEF ReplayNext
  <2> QED BY <2>1 DEF Awake, OwedInv
<1> QED BY <1>4, <1>5, <1>6, <1>7, RunComesFrom

\* As long as the machine has not slept, all of this holds.
AwakeInv == sleeps = 0 => Awake

LEMMA AwakeStep ==
  ASSUME Sparse, TypeOK, PassInv, AwakeInv, [Next]_vars
  PROVE  AwakeInv'
<1> SUFFICES ASSUME sleeps' = 0 PROVE Awake'
  BY DEF AwakeInv
<1>1. sleeps' = sleeps \/ sleeps' = sleeps + 1
  <2>1. ASSUME NEW j \in Ids, \/ Fire(j) \/ DropTick(j) \/ FireExecute(j) \/ FireDone(j)
                              \/ ManualRun(j) \/ ManualDone(j)
        PROVE  sleeps' = sleeps
    BY <2>1 DEF Fire, DropTick, FireExecute, FireDone, ManualRun, ManualDone
  <2>2. CASE StartDaemon \/ BeginPass("start") \/ BeginPass("wake") \/ EnumerateJob
             \/ ReplayNext \/ ReplayDone \/ NextJob \/ EndPass \/ NoticeSleep
             \/ UNCHANGED vars \/ Crash \/ Tick
    BY <2>2 DEF StartDaemon, BeginPass, EnumerateJob, ReplayNext, ReplayDone, NextJob,
                EndPass, NoticeSleep, Crash, Tick, vars
  <2>3. CASE Sleep
    BY <2>3 DEF Sleep
  <2> QED BY <2>1, <2>2, <2>3 DEF Next, PassStep
<1>2. sleeps \in Nat
  BY DEF TypeOK
<1>3. sleeps = 0 /\ ~Sleep
  BY <1>1, <1>2 DEF Sleep
<1>4. Awake
  BY <1>3 DEF AwakeInv
<1>5. ShapeInv' /\ OwedInv' /\ OnceInv'
  BY <1>3, <1>4, ShapeStep, OwedStep, OnceStep DEF Awake
<1>6. \A j \in Ids : MarkInv(j)' /\ TimerInv(j)' /\ TaskInv(j)'
  BY <1>3, <1>4, MarkStep, TimerStep, TaskStep
<1> QED BY <1>5, <1>6 DEF Awake

LEMMA AwakeHolds == ASSUME Sparse PROVE Spec => [](TypeOK /\ PassInv /\ AwakeInv)
<1>1. Init => AwakeInv
  <2> SUFFICES ASSUME Init PROVE Awake
    BY DEF AwakeInv
  <2>1. ShapeInv /\ OwedInv
    BY DEF Init, ShapeInv, OwedInv, NoPass, Idle
  <2>2. OnceInv
    BY DEF Init, OnceInv
  <2>3. ASSUME NEW j \in Ids PROVE MarkInv(j) /\ TimerInv(j) /\ TaskInv(j)
    BY SkewAssumption DEF Init, MarkInv, TimerInv, TaskInv, NoPass, Idle, Passing
  <2> QED BY <2>1, <2>2, <2>3 DEF Awake
<1>2. TypeOK /\ PassInv /\ AwakeInv /\ [Next]_vars => AwakeInv'
  BY AwakeStep
<1> QED BY <1>1, <1>2, TypesHold, PTL DEF Spec

\* While the machine has not slept and nobody runs a job by hand, no occurrence is executed twice:
\* not by a fire and the pass, not by two passes, not by the daemons before and after a crash.
THEOREM RunsOnceUndisturbed == ASSUME Sparse, ~QuickRestart PROVE Spec => []OnceUndisturbed
<1>1. AwakeInv => OnceUndisturbed
  BY DEF AwakeInv, Awake, OnceInv, Alone, OnceUndisturbed
<1> QED BY <1>1, AwakeHolds, PTL

\* While the machine has not slept, the watermark of a job goes back only when somebody runs it by
\* hand, or has done so while a fire of the job slept its jitter.
THEOREM WatermarkMovesOn == ASSUME Sparse PROVE Spec => WatermarkForward
<1>1. TypeOK /\ PassInv /\ AwakeInv /\ [Next]_vars
        => [sleeps = 0 => \A j \in Ids : \/ watermark'[j] >= watermark[j] \/ lock'[j] = "manual"
                                         \/ Jitter[j] > 0 /\ manuals > 0]_watermark
  <2> SUFFICES ASSUME TypeOK, PassInv, AwakeInv, [Next]_vars, sleeps = 0, NEW j \in Ids
               PROVE  \/ watermark'[j] >= watermark[j] \/ lock'[j] = "manual"
                      \/ Jitter[j] > 0 /\ manuals > 0
    OBVIOUS
  <2>1. \/ watermark'[j] >= watermark[j] \/ lock'[j] = "manual" \/ ~Calm(j)
    BY MarkMovesOn DEF AwakeInv
  <2>2. Jitter[j] \in Nat /\ manuals \in Nat
    BY JitterAssumption DEF TypeOK
  <2> QED BY <2>1, <2>2 DEF Calm
<1> QED BY <1>1, AwakeHolds, PTL DEF Spec, WatermarkForward
=============================================================================
