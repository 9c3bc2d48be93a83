----------------------------- MODULE ReloadProofs ------------------------------
(***************************************************************************)
(* What a change of jobs.yaml sets going: rebuild, and the reconciliation  *)
(* of one-time jobs.                                                       *)
(*                                                                         *)
(* Rebuild: whatever the goroutines that rebuild and the run that trips    *)
(* the breaker have read, and however long ago, who spoke last is obeyed,  *)
(* until jobs.yaml is edited a second time; and the watcher, while it is   *)
(* the only one that rebuilds, leaves gocron in step with both files.      *)
(*                                                                         *)
(* OneShot: while there is neither a change of jobs.yaml nor a sleep, the  *)
(* timer and the pass of the start execute an occurrence once.             *)
(***************************************************************************)
EXTENDS Rebuild, OneShot, TLAPS

\* jobs.yaml has had one version for each edit, and a run that has ended has an outcome.
CountInv ==
  /\ file.version = edits + 1 /\ edits <= MaxEdits
  /\ run = "ended" => outcome # "none"

\* As long as jobs.yaml has not said that the job is disabled, nothing that was read of it does.
ReadInv ==
  /\ edits = 0 => file.enabled
  /\ edits <= 1 /\ file.enabled =>
       /\ loaded.enabled /\ declared
       /\ \A g \in Rebuilders : rebuilder[g].read.enabled
       /\ override # None => override.declared

RebuildInv == TypeOK /\ CountInv /\ ReadInv /\ LastWord

LEMMA RestingType == Resting \in RebuilderState
  BY BoundAssumption DEF Resting, FirstFile, RebuilderState, FileState, Versions

\* A rebuilding goroutine that moves on stays in RebuilderState.
LEMMA Moves ==
  ASSUME TypeOK, NEW g \in Rebuilders, NEW x \in RebuilderState
  PROVE  [rebuilder EXCEPT ![g] = x] \in [Rebuilders -> RebuilderState]
  BY DEF TypeOK

LEMMA MoveType ==
  ASSUME TypeOK, NEW g \in Rebuilders, NEW where \in {"read", "want"}, Move(g, where)
  PROVE  rebuilder' \in [Rebuilders -> RebuilderState]
<1>1. [rebuilder[g] EXCEPT !.at = where] \in RebuilderState
  BY DEF TypeOK, RebuilderState
<1>2. rebuilder' = [rebuilder EXCEPT ![g] = [rebuilder[g] EXCEPT !.at = where]]
  BY DEF Move
<1> QED BY <1>1, <1>2, Moves

LEMMA SetEnabledType ==
  ASSUME NEW enabled \in BOOLEAN, NEW dec \in BOOLEAN, SetEnabled(enabled, dec)
  PROVE  override' \in Override \cup {None} /\ asked' \in BOOLEAN
  BY DEF SetEnabled, Override

LEMMA NotifyType ==
  ASSUME TypeOK, Notify
  PROVE  event' \in BOOLEAN /\ lost' \in Nat
<1>1. event' \in BOOLEAN
  BY Zenon DEF Notify, TypeOK
<1>2. lost' \in Nat
  BY DEF Notify, TypeOK
<1> QED BY <1>1, <1>2

\* The steps of a goroutine that rebuilds.
LEMMA RebuildType ==
  ASSUME TypeOK, NEW g \in Rebuilders, RebuildStep(g)
  PROVE  TypeOK'
<1>1. rebuilder[g] \in RebuilderState
  BY DEF TypeOK
<1>2. CASE ReadFile(g)
  <2>1. [rebuilder[g] EXCEPT !.at = "loaded", !.read = file] \in RebuilderState
    BY <1>1 DEF RebuilderState, TypeOK
  <2>2. [rebuilder[g] EXCEPT !.at = "want"] \in RebuilderState
    BY <1>1 DEF RebuilderState
  <2>3. rebuilder' \in [Rebuilders -> RebuilderState]
    BY <1>2, <2>1, <2>2, Moves DEF ReadFile
  <2> QED BY <1>2, <2>3 DEF ReadFile, TypeOK, running, counters
<1>3. CASE SetLoaded(g)
  <2>1. [Resting EXCEPT !.at = "want"] \in RebuilderState
    BY RestingType DEF RebuilderState
  <2>2. rebuilder' \in [Rebuilders -> RebuilderState]
    BY <1>3, <2>1, Moves DEF SetLoaded
  <2>3. loaded' \in FileState
    BY <1>1, <1>3 DEF SetLoaded, RebuilderState
  <2> QED BY <1>3, <2>2, <2>3 DEF SetLoaded, TypeOK, running, counters
<1>4. CASE Want(g)
  <2> DEFINE wanted == EffectiveEnabled(loaded.enabled, override)
  <2>1. wanted \in BOOLEAN
    BY DEF EffectiveEnabled, TypeOK, FileState, Override
  <2>2. [rebuilder[g] EXCEPT !.at = "current", !.want = wanted] \in RebuilderState
    BY <1>1, <2>1 DEF RebuilderState
  <2>3. rebuilder' = [rebuilder EXCEPT ![g] =
                        [rebuilder[g] EXCEPT !.at = "current", !.want = wanted]]
    BY <1>4 DEF Want
  <2> HIDE DEF wanted
  <2>4. rebuilder' \in [Rebuilders -> RebuilderState]
    BY <2>2, <2>3, Moves
  <2> QED BY <1>4, <2>4 DEF Want, TypeOK, running, counters
<1>5. CASE Current(g)
  <2>1. [rebuilder[g] EXCEPT !.at = "apply", !.seen = scheduled] \in RebuilderState
    BY <1>1 DEF RebuilderState, TypeOK
  <2>2. rebuilder' = [rebuilder EXCEPT ![g] =
                        [rebuilder[g] EXCEPT !.at = "apply", !.seen = scheduled]]
    BY <1>5 DEF Current
  <2>3. rebuilder' \in [Rebuilders -> RebuilderState]
    BY <2>1, <2>2, Moves
  <2> QED BY <1>5, <2>3 DEF Current, TypeOK, running, counters
<1>6. CASE Apply(g)
  <2>1. rebuilder' \in [Rebuilders -> RebuilderState]
    BY <1>6, RestingType, Moves DEF Apply
  <2>2. scheduled' \in BOOLEAN
    BY <1>1, <1>6 DEF Apply, RebuilderState, TypeOK
  <2>3. run' \in {"none", "going", "ended", "trips", "rebuilds"}
    BY <1>6 DEF Apply, TypeOK
  <2> QED BY <1>6, <2>1, <2>2, <2>3 DEF Apply, TypeOK, counters
<1> QED BY <1>2, <1>3, <1>4, <1>5, <1>6 DEF RebuildStep

LEMMA TypeStep == TypeOK /\ CountInv /\ [Next]_vars => TypeOK'
<1> SUFFICES ASSUME TypeOK, CountInv, [Next]_vars PROVE TypeOK'
  OBVIOUS
<1> USE DEF running, counters
<1>1. CASE Edit
  <2>1. PICK valid \in BOOLEAN, enabled \in BOOLEAN :
          /\ file' = [version |-> file.version + 1, valid |-> valid,
                      enabled |-> IF valid THEN enabled ELSE file.enabled]
          /\ asked' = IF file'.enabled # file.enabled THEN enabled ELSE asked
    BY <1>1 DEF Edit
  <2>2. file.version + 1 \in Versions /\ file.enabled \in BOOLEAN
    BY <1>1, BoundAssumption DEF Edit, TypeOK, CountInv, FileState, Versions
  <2>3. file' \in FileState
    BY <2>1, <2>2 DEF FileState
  <2>4. edits' \in Nat
    BY <1>1 DEF Edit, TypeOK
  <2>5. asked' \in BOOLEAN
    BY <2>1, Zenon DEF TypeOK
  <2>6. event' \in BOOLEAN
    BY <1>1, Zenon DEF Edit, TypeOK
  <2>7. UNCHANGED <<polled, loaded, override, scheduled, rebuilder, run, outcome, declared, failures,
                    tripped, switches, commands, sleeps, runs, lost>>
    BY <1>1 DEF Edit
  <2> QED BY <2>3, <2>4, <2>5, <2>6, <2>7 DEF TypeOK
<1>2. ASSUME NEW enabled \in BOOLEAN, Switch(enabled) PROVE TypeOK'
  <2>1. file.enabled \in BOOLEAN
    BY DEF TypeOK, FileState
  <2>2. override' \in Override \cup {None} /\ asked' \in BOOLEAN
    BY <1>2, <2>1, SetEnabledType DEF Switch
  <2>3. lost' \in Nat /\ switches' \in Nat
    BY <1>2, NotifyType DEF Switch, TypeOK
  <2>4. event' \in BOOLEAN
    BY <1>2, NotifyType DEF Switch, TypeOK
  <2>5. UNCHANGED <<file, polled, loaded, scheduled, rebuilder, run, outcome, declared, failures,
                    tripped, edits, commands, sleeps, runs>>
    BY <1>2 DEF Switch
  <2> QED BY <2>2, <2>3, <2>4, <2>5 DEF TypeOK
<1>3. CASE WatchFire \/ Poll \/ ReloadCommand \/ WakeUp
  <2>1. rebuilder' \in [Rebuilders -> RebuilderState]
    BY <1>3, MoveType DEF WatchFire, Poll, ReloadCommand, WakeUp, Rebuilders, TypeOK
  <2>2. file.version \in Versions
    BY DEF TypeOK, FileState
  <2>3. CASE WatchFire
    BY <2>1, <2>3 DEF WatchFire, TypeOK
  <2>4. CASE Poll
    BY <2>1, <2>2, <2>4 DEF Poll, TypeOK
  <2>5. CASE ReloadCommand
    BY <2>1, <2>5 DEF ReloadCommand, TypeOK
  <2>6. CASE WakeUp
    BY <2>1, <2>6 DEF WakeUp, TypeOK
  <2> QED BY <1>3, <2>3, <2>4, <2>5, <2>6
<1>4. ASSUME NEW g \in Rebuilders, RebuildStep(g) PROVE TypeOK'
  BY <1>4, RebuildType
<1>5. CASE Fire
  <2>1. loaded.enabled \in BOOLEAN
    BY DEF TypeOK, FileState
  <2> QED BY <1>5, <2>1 DEF Fire, TypeOK
<1>6. ASSUME NEW how \in {"failure", "success", "cancelled"}, Finish(how) PROVE TypeOK'
  BY <1>6 DEF Finish, TypeOK
<1>7. CASE AutoDisable
  BY <1>7 DEF AutoDisable, TypeOK, CountInv
<1>8. CASE Trip
  <2>1. override' \in Override \cup {None} /\ asked' \in BOOLEAN
    BY <1>8, SetEnabledType DEF Trip, TypeOK
  <2>2. rebuilder' \in [Rebuilders -> RebuilderState]
    BY <1>8, MoveType DEF Trip, Rebuilders
  <2>3. event' \in BOOLEAN /\ lost' \in Nat
    BY <1>8, NotifyType DEF Trip
  <2>4. run' = "rebuilds" /\ UNCHANGED <<file, polled, loaded, scheduled, outcome, declared,
                              failures, tripped, edits, switches, commands, sleeps, runs>>
    BY <1>8 DEF Trip
  <2> QED BY <2>1, <2>2, <2>3, <2>4 DEF TypeOK
<1>9. CASE UNCHANGED vars
  BY <1>9 DEF vars, TypeOK
<1> QED BY <1>1, <1>2, <1>3, <1>4, <1>5, <1>6, <1>7, <1>8, <1>9 DEF Next, RunStep

LEMMA CountStep == TypeOK /\ CountInv /\ [Next]_vars => CountInv'
<1> SUFFICES ASSUME TypeOK, CountInv, [Next]_vars PROVE CountInv'
  OBVIOUS
<1> USE BoundAssumption DEF TypeOK, CountInv, running, counters
<1>1. CASE Edit
  BY <1>1 DEF Edit
<1>2. ASSUME NEW enabled \in BOOLEAN, Switch(enabled) PROVE CountInv'
  BY <1>2 DEF Switch
<1>3. CASE WatchFire \/ Poll \/ ReloadCommand \/ WakeUp
  BY <1>3 DEF WatchFire, Poll, ReloadCommand, WakeUp
<1>4. ASSUME NEW g \in Rebuilders, RebuildStep(g) PROVE CountInv'
  BY <1>4 DEF RebuildStep, ReadFile, SetLoaded, Want, Current, Apply
<1>5. CASE Fire
  BY <1>5 DEF Fire
<1>6. ASSUME NEW how \in {"failure", "success", "cancelled"}, Finish(how) PROVE CountInv'
  BY <1>6 DEF Finish
<1>7. CASE AutoDisable
  BY <1>7 DEF AutoDisable
<1>8. CASE Trip
  BY <1>8 DEF Trip
<1>9. CASE UNCHANGED vars
  BY <1>9 DEF vars
<1> QED BY <1>1, <1>2, <1>3, <1>4, <1>5, <1>6, <1>7, <1>8, <1>9 DEF Next, RunStep

\* What SetEnabled leaves means what it was asked for, to whoever goes by the same jobs.yaml.
LEMMA SetEnabledMeans ==
  ASSUME NEW enabled \in BOOLEAN, NEW dec \in BOOLEAN, SetEnabled(enabled, dec)
  PROVE  /\ EffectiveEnabled(dec, override') = enabled /\ asked' = enabled
         /\ override' # None => override'.declared = dec
  BY NoneAssumption DEF SetEnabled, EffectiveEnabled, Override

LEMMA ReadStep == RebuildInv /\ [Next]_vars => ReadInv'
<1> SUFFICES ASSUME RebuildInv, [Next]_vars PROVE ReadInv'
  OBVIOUS
<1> USE DEF RebuildInv, TypeOK, ReadInv, FileState, RebuilderState, Override, running, counters
<1>1. CASE Edit
  BY <1>1 DEF Edit
<1>2. ASSUME NEW enabled \in BOOLEAN, Switch(enabled) PROVE ReadInv'
  BY <1>2, SetEnabledMeans DEF Switch
<1>3. CASE WatchFire \/ Poll \/ ReloadCommand \/ WakeUp
  BY <1>3 DEF WatchFire, Poll, ReloadCommand, WakeUp, Move
<1>4. ASSUME NEW g \in Rebuilders, RebuildStep(g) PROVE ReadInv'
  <2>1. CASE ReadFile(g)
    BY <2>1 DEF ReadFile
  <2>2. CASE SetLoaded(g)
    BY <2>2 DEF SetLoaded, Resting, FirstFile
  <2>3. CASE Want(g)
    BY <2>3 DEF Want
  <2>4. CASE Current(g)
    BY <2>4 DEF Current
  <2>5. CASE Apply(g)
    BY <2>5 DEF Apply, Resting, FirstFile
  <2> QED BY <1>4, <2>1, <2>2, <2>3, <2>4, <2>5 DEF RebuildStep
<1>5. CASE Fire
  BY <1>5 DEF Fire
<1>6. ASSUME NEW how \in {"failure", "success", "cancelled"}, Finish(how) PROVE ReadInv'
  BY <1>6 DEF Finish
<1>7. CASE AutoDisable
  BY <1>7 DEF AutoDisable
<1>8. CASE Trip
  BY <1>8, SetEnabledMeans DEF Trip, Move
<1>9. CASE UNCHANGED vars
  BY <1>9 DEF vars
<1> QED BY <1>1, <1>2, <1>3, <1>4, <1>5, <1>6, <1>7, <1>8, <1>9 DEF Next, RunStep

LEMMA WordStep == RebuildInv /\ [Next]_vars => LastWord'
<1> SUFFICES ASSUME RebuildInv, [Next]_vars PROVE LastWord'
  OBVIOUS
<1> USE DEF RebuildInv, TypeOK, FileState, LastWord, running, counters
<1>1. CASE Edit
  BY <1>1, NoneAssumption DEF Edit, ReadInv, EffectiveEnabled, Override
<1>2. ASSUME NEW enabled \in BOOLEAN, Switch(enabled) PROVE LastWord'
  BY <1>2, SetEnabledMeans DEF Switch
<1>3. CASE WatchFire \/ Poll \/ ReloadCommand \/ WakeUp
  BY <1>3 DEF WatchFire, Poll, ReloadCommand, WakeUp, EffectiveEnabled
<1>4. ASSUME NEW g \in Rebuilders, RebuildStep(g) PROVE LastWord'
  BY <1>4 DEF RebuildStep, ReadFile, SetLoaded, Want, Current, Apply, EffectiveEnabled
<1>5. CASE Fire
  BY <1>5 DEF Fire, EffectiveEnabled
<1>6. ASSUME NEW how \in {"failure", "success", "cancelled"}, Finish(how) PROVE LastWord'
  BY <1>6 DEF Finish, EffectiveEnabled
<1>7. CASE AutoDisable
  BY <1>7 DEF AutoDisable, EffectiveEnabled
<1>8. CASE Trip
  <2>1. EffectiveEnabled(declared, override') = FALSE /\ asked' = FALSE
    BY <1>8, SetEnabledMeans DEF Trip
  <2>2. file' = file /\ edits' = edits
    BY <1>8 DEF Trip
  <2>3. edits <= 1 /\ file.enabled => declared
    BY DEF ReadInv
  <2> QED BY <2>1, <2>2, <2>3 DEF EffectiveEnabled
<1>9. CASE UNCHANGED vars
  BY <1>9 DEF vars, EffectiveEnabled
<1> QED BY <1>1, <1>2, <1>3, <1>4, <1>5, <1>6, <1>7, <1>8, <1>9 DEF Next, RunStep

LEMMA RebuildInvariant == Spec => []RebuildInv
<1>1. Init => RebuildInv
  <2> SUFFICES ASSUME Init PROVE RebuildInv
    OBVIOUS
  <2>1. FirstFile \in FileState /\ FirstFile.enabled = TRUE /\ FirstFile.version = 1
    BY BoundAssumption DEF FirstFile, FileState, Versions
  <2>2. rebuilder \in [Rebuilders -> RebuilderState]
    BY RestingType DEF Init
  <2>3. TypeOK
    BY <2>1, <2>2 DEF Init, TypeOK
  <2>4. CountInv
    BY <2>1, BoundAssumption DEF Init, CountInv
  <2>5. ReadInv
    BY <2>1 DEF Init, ReadInv, Resting
  <2>6. LastWord
    BY <2>1 DEF Init, LastWord, EffectiveEnabled
  <2> QED BY <2>3, <2>4, <2>5, <2>6 DEF RebuildInv
<1>2. RebuildInv /\ [Next]_vars => RebuildInv'
  BY TypeStep, CountStep, ReadStep, WordStep DEF RebuildInv
<1> QED BY <1>1, <1>2, PTL DEF Spec

\* Every variable holds a value of its kind, in every reachable state; a breaker trips on the
\* outcome of a run.
THEOREM RebuildTypeCorrect == Spec => []TypeOK
<1>1. RebuildInv => TypeOK
  BY DEF RebuildInv
<1> QED BY <1>1, RebuildInvariant, PTL

\* As long as jobs.yaml was not edited twice, jobs.yaml and overrides.json together say what the
\* last edit of enabled, pause, resume or tripped breaker asked for, however many goroutines
\* rebuild with a configuration read long ago.
THEOREM LastWordIsObeyed == Spec => []LastWord
<1>1. RebuildInv => LastWord
  BY DEF RebuildInv
<1> QED BY <1>1, RebuildInvariant, PTL

-----------------------------------------------------------------------------
(***************************************************************************)
(* The watcher in step.                                                    *)
(*                                                                         *)
(* While nobody but the watcher rebuilds, what it has read is what is on   *)
(* disk, at each of its steps, unless fire or the poll has yet to tell it  *)
(* of a change: it tells the daemon of an override by an event that it     *)
(* cannot have consumed yet, and of a version of jobs.yaml by the poll.    *)
(***************************************************************************)
Others == Rebuilders \ {"watch"}
InCharge == Alone /\ tripped = {}
Enabled == EffectiveEnabled(loaded.enabled, override)

\* The schedule that the watcher is about to apply, or has applied.
Follows(w) ==
  /\ w.at = "rest" => scheduled = Enabled
  /\ w.at \in {"current", "apply"} => w.want = Enabled
  /\ w.at = "apply" => w.seen = scheduled

\* The jobs.yaml that it is about to load, or has loaded.
HasRead(w) ==
  file.valid => /\ w.at = "loaded" => w.read = file
                /\ w.at \notin {"read", "loaded"} => loaded = file

WatchInv ==
  /\ polled <= file.version
  /\ run \in {"trips", "rebuilds"} => tripped # {}
  /\ InCharge =>
       /\ \A g \in Others : AtRest(g)
       /\ ~event => Follows(rebuilder["watch"])
       /\ ~event /\ polled = file.version => HasRead(rebuilder["watch"])

\* Nobody takes back a command, a sleep, a missed change or a tripped breaker.
LEMMA ChargeIsKept ==
  ASSUME TypeOK, [Next]_vars, InCharge'
  PROVE  InCharge
<1> USE DEF InCharge, Alone, running, counters
<1>1. CASE Edit
  BY <1>1 DEF Edit
<1>2. CASE \E enabled \in BOOLEAN : Switch(enabled)
  BY <1>2 DEF Switch, Notify, TypeOK
<1>3. CASE WatchFire \/ Poll
  BY <1>3 DEF WatchFire, Poll
<1>4. CASE ReloadCommand \/ WakeUp
  BY <1>4 DEF ReloadCommand, WakeUp, TypeOK
<1>5. CASE \E g \in Rebuilders : RebuildStep(g)
  BY <1>5 DEF RebuildStep, ReadFile, SetLoaded, Want, Current, Apply
<1>6. CASE Fire
  BY <1>6 DEF Fire
<1>7. CASE \E how \in {"failure", "success", "cancelled"} : Finish(how)
  BY <1>7 DEF Finish
<1>8. CASE AutoDisable
  BY <1>8 DEF AutoDisable
<1>9. CASE Trip
  BY <1>9 DEF Trip, Notify, TypeOK
<1>10. CASE UNCHANGED vars
  BY <1>10 DEF vars
<1> QED BY <1>1, <1>2, <1>3, <1>4, <1>5, <1>6, <1>7, <1>8, <1>9, <1>10 DEF Next, RunStep

\* A step of the watcher, while nobody else rebuilds.
LEMMA WatcherMoves ==
  ASSUME TypeOK, WatchInv, InCharge, RebuildStep("watch")
  PROVE  /\ \A g \in Others : AtRest(g)'
         /\ ~event' => Follows(rebuilder["watch"])'
         /\ ~event' /\ polled' = file'.version => HasRead(rebuilder["watch"])'
<1> DEFINE w == rebuilder["watch"]
<1>1. /\ rebuilder \in [Rebuilders -> RebuilderState] /\ "watch" \in Rebuilders
      /\ w \in RebuilderState /\ scheduled \in BOOLEAN
  BY DEF TypeOK, Rebuilders
<1>2. \A g \in Others : AtRest(g)
  BY DEF WatchInv
<1>3. \A g \in Others : g \in Rebuilders /\ g # "watch"
  BY DEF Others
<1>4. UNCHANGED <<file, polled, event, override>>
  BY DEF RebuildStep, ReadFile, SetLoaded, Want, Current, Apply
<1>5. (~event => Follows(w)) /\ (~event /\ polled = file.version => HasRead(w))
  BY DEF WatchInv
<1> USE DEF Follows, HasRead, Enabled
<1>6. CASE ReadFile("watch")
  <2>1. /\ \A g \in Others : rebuilder'[g] = rebuilder[g]
        /\ w.at = "read" /\ UNCHANGED <<loaded, scheduled>>
        /\ w' = IF file.valid THEN [w EXCEPT !.at = "loaded", !.read = file]
                ELSE [w EXCEPT !.at = "want"]
    BY <1>1, <1>3, <1>6 DEF ReadFile
  <2>2. IF file.valid THEN w'.at = "loaded" /\ w'.read = file ELSE w'.at = "want"
    BY <1>1, <2>1 DEF RebuilderState
  <2> QED BY <1>2, <1>4, <2>1, <2>2 DEF AtRest
<1>7. CASE SetLoaded("watch")
  <2>1. /\ \A g \in Others : rebuilder'[g] = rebuilder[g]
        /\ w.at = "loaded" /\ loaded' = w.read /\ w'.at = "want"
    BY <1>1, <1>3, <1>7 DEF SetLoaded, Resting
  <2> QED BY <1>2, <1>4, <1>5, <2>1 DEF AtRest
<1>8. CASE Want("watch")
  <2>1. /\ \A g \in Others : rebuilder'[g] = rebuilder[g]
        /\ w.at = "want" /\ UNCHANGED <<loaded, scheduled>>
        /\ w' = [w EXCEPT !.at = "current", !.want = Enabled]
    BY <1>1, <1>3, <1>8 DEF Want
  <2>2. w'.at = "current" /\ w'.want = Enabled
    BY <1>1, <2>1 DEF RebuilderState
  <2>3. Enabled' = Enabled
    BY <1>4, <2>1 DEF EffectiveEnabled
  <2> QED BY <1>2, <1>4, <1>5, <2>1, <2>2, <2>3 DEF AtRest
<1>9. CASE Current("watch")
  <2>1. /\ \A g \in Others : rebuilder'[g] = rebuilder[g]
        /\ w.at = "current" /\ UNCHANGED <<loaded, scheduled>>
        /\ w' = [w EXCEPT !.at = "apply", !.seen = scheduled]
    BY <1>1, <1>3, <1>9 DEF Current
  <2>2. w'.at = "apply" /\ w'.want = w.want /\ w'.seen = scheduled
    BY <1>1, <2>1 DEF RebuilderState
  <2>3. Enabled' = Enabled
    BY <1>4, <2>1 DEF EffectiveEnabled
  <2> QED BY <1>2, <1>4, <1>5, <2>1, <2>2, <2>3 DEF AtRest
<1>10. CASE Apply("watch")
  <2>1. /\ \A g \in Others : rebuilder'[g] = rebuilder[g]
        /\ w.at = "apply" /\ loaded' = loaded /\ w'.at = "rest"
        /\ scheduled' = IF w.seen THEN w.want /\ scheduled ELSE w.want \/ scheduled
    BY <1>1, <1>3, <1>10 DEF Apply, Resting
  <2>2. w.want \in BOOLEAN
    BY <1>1 DEF RebuilderState
  <2>3. w.seen = scheduled => scheduled' = w.want
    BY <1>1, <2>1, <2>2
  <2>4. Enabled' = Enabled
    BY <1>4, <2>1 DEF EffectiveEnabled
  <2> QED BY <1>2, <1>4, <1>5, <2>1, <2>3, <2>4 DEF AtRest
<1> QED BY <1>6, <1>7, <1>8, <1>9, <1>10 DEF RebuildStep

LEMMA WatchStep ==
  ASSUME TypeOK, CountInv, WatchInv, [Next]_vars
  PROVE  WatchInv'
<1> DEFINE w == rebuilder["watch"]
           Goal == InCharge' => /\ \A g \in Others : AtRest(g)'
                                /\ ~event' => Follows(w)'
                                /\ ~event' /\ polled' = file'.version => HasRead(w)'
<1> USE DEF running, counters
<1>1. polled' <= file'.version /\ (run' \in {"trips", "rebuilds"} => tripped' # {})
  <2>1. polled \in Nat /\ file.version \in Nat /\ polled <= file.version
    BY BoundAssumption DEF TypeOK, FileState, Versions, WatchInv
  <2>2. CASE Edit
    BY <2>1, <2>2 DEF Edit, WatchInv
  <2>3. CASE \E enabled \in BOOLEAN : Switch(enabled)
    BY <2>1, <2>3 DEF Switch, WatchInv
  <2>4. CASE WatchFire \/ Poll \/ ReloadCommand \/ WakeUp
    BY <2>1, <2>4 DEF WatchFire, Poll, ReloadCommand, WakeUp, WatchInv
  <2>5. CASE \E g \in Rebuilders : RebuildStep(g)
    BY <2>1, <2>5 DEF RebuildStep, ReadFile, SetLoaded, Want, Current, Apply, WatchInv
  <2>6. CASE Fire
    BY <2>1, <2>6 DEF Fire, WatchInv
  <2>7. CASE \E how \in {"failure", "success", "cancelled"} : Finish(how)
    BY <2>1, <2>7 DEF Finish, WatchInv
  <2>8. CASE AutoDisable
    BY <2>1, <2>8 DEF AutoDisable, WatchInv
  <2>9. CASE Trip
    BY <2>1, <2>9 DEF Trip, WatchInv
  <2>10. CASE UNCHANGED vars
    BY <2>1, <2>10 DEF vars, WatchInv
  <2> QED BY <2>2, <2>3, <2>4, <2>5, <2>6, <2>7, <2>8, <2>9, <2>10 DEF Next, RunStep
<1>2. Goal
  <2> SUFFICES ASSUME InCharge'
               PROVE  /\ \A g \in Others : AtRest(g)'
                      /\ ~event' => Follows(w)'
                      /\ ~event' /\ polled' = file'.version => HasRead(w)'
    OBVIOUS
  <2>1. /\ InCharge /\ \A g \in Others : AtRest(g)
        /\ ~event => Follows(w)
        /\ ~event /\ polled = file.version => HasRead(w)
    BY ChargeIsKept DEF WatchInv
  <2>2. "watch" \in Rebuilders /\ rebuilder \in [Rebuilders -> RebuilderState]
    BY DEF TypeOK, Rebuilders
  \* A step that moves no goroutine and tells the watcher of whatever it changes.
  <2>3. ASSUME UNCHANGED <<rebuilder, loaded, scheduled>>,
               event \/ ~event, event => event',
               ~event' => override' = override,
               \/ file' = file /\ polled' = polled
               \/ polled' # file'.version
               \/ event'
        PROVE  /\ \A g \in Others : AtRest(g)'
               /\ ~event' => Follows(w)'
               /\ ~event' /\ polled' = file'.version => HasRead(w)'
    <3>1. \A g \in Others : AtRest(g)'
      BY <2>1, <2>3 DEF AtRest
    <3>2. ~event' => Follows(w)'
      BY <2>1, <2>3 DEF Follows, Enabled, EffectiveEnabled
    <3>3. ~event' /\ polled' = file'.version => HasRead(w)'
      BY <2>1, <2>3 DEF HasRead
    <3> QED BY <3>1, <3>2, <3>3
  <2>4. CASE Edit
    <3>1. polled' # file'.version
      BY <2>4, BoundAssumption DEF Edit, WatchInv, TypeOK, FileState, Versions
    <3>2. event => event'
      BY <2>4 DEF Edit
    <3>3. UNCHANGED <<rebuilder, loaded, scheduled, override>>
      BY <2>4 DEF Edit
    <3> QED BY <2>3, <3>1, <3>2, <3>3
  <2>5. CASE \E enabled \in BOOLEAN : Switch(enabled)
    <3>1. UNCHANGED <<rebuilder, loaded, scheduled, file, polled>> /\ Notify
      BY <2>5 DEF Switch
    <3>2. event'
      BY <3>1, <2>1 DEF Notify, InCharge, Alone, TypeOK
    <3> QED BY <2>3, <3>1, <3>2
  <2>6. CASE WatchFire
    <3>1. /\ \A g \in Others : rebuilder'[g] = rebuilder[g]
          /\ w'.at = "read"
      BY <2>2, <2>6 DEF WatchFire, Move, Others, RebuilderState
    <3> QED BY <2>1, <3>1 DEF AtRest, Follows, HasRead
  <2>7. CASE Poll
    BY <2>3, <2>7 DEF Poll
  <2>8. CASE ReloadCommand \/ WakeUp
    <3>1. commands' # 0 \/ sleeps' # 0
      BY <2>8 DEF ReloadCommand, WakeUp, TypeOK
    <3> QED BY <3>1 DEF InCharge, Alone
  <2>9. ASSUME NEW g \in Rebuilders, RebuildStep(g) PROVE g = "watch"
    BY <2>1, <2>9 DEF RebuildStep, ReadFile, SetLoaded, Want, Current, Apply, AtRest, Others
  <2>10. CASE \E g \in Rebuilders : RebuildStep(g)
    BY <2>1, <2>9, <2>10, WatcherMoves
  <2>11. CASE Fire
    BY <2>3, <2>11 DEF Fire
  <2>12. CASE \E how \in {"failure", "success", "cancelled"} : Finish(how)
    BY <2>3, <2>12 DEF Finish
  <2>13. CASE AutoDisable
    BY <2>3, <2>13 DEF AutoDisable
  <2>14. ~Trip
    BY <2>1 DEF Trip, InCharge, WatchInv
  <2>15. CASE UNCHANGED vars
    BY <2>3, <2>15 DEF vars
  <2> QED BY <2>4, <2>5, <2>6, <2>7, <2>8, <2>10, <2>11, <2>12, <2>13, <2>14, <2>15
             DEF Next, RunStep
<1> QED BY <1>1, <1>2 DEF WatchInv

\* While no reload command, no sleep, no missed change and no tripped breaker came between, then
\* whenever nothing is being rebuilt and the watcher and its poll have nothing to act on, gocron
\* is in step with jobs.yaml and overrides.json: a change that the watcher has not read is one
\* that it will be told of (watchLoop, reload, rebuild).
THEOREM WatcherStaysInStep == Spec => []WatcherInStep
<1>1. Init => WatchInv
  <2> SUFFICES ASSUME Init PROVE WatchInv
    OBVIOUS
  <2>1. \A g \in Rebuilders : rebuilder[g].at = "rest"
    BY DEF Init, Resting
  <2>2. FirstFile.version = 1 /\ Enabled = TRUE
    BY DEF Init, FirstFile, Enabled, EffectiveEnabled
  <2>3. Follows(rebuilder["watch"]) /\ HasRead(rebuilder["watch"])
    BY <2>1, <2>2 DEF Init, Follows, HasRead, Rebuilders
  <2>4. polled <= file.version /\ run = "none"
    BY <2>2 DEF Init
  <2> QED BY <2>1, <2>3, <2>4 DEF WatchInv, AtRest, Others
<1>2. RebuildInv /\ WatchInv /\ [Next]_vars => WatchInv'
  BY WatchStep DEF RebuildInv
<1>3. WatchInv => WatcherInStep
  BY DEF WatchInv, WatcherInStep, Quiet, Same, InCharge, Follows, HasRead, Enabled, AtRest,
         Rebuilders
<1> QED BY <1>1, <1>2, <1>3, RebuildInvariant, PTL DEF Spec

-----------------------------------------------------------------------------
(***************************************************************************)
(* OneShot: types.                                                         *)
(***************************************************************************)
\* A pass that has decided about a job has one.
PassInv == pass.then # "look" => pass.todo # <<>>

OneShotInv == OneShotTypeOK /\ PassInv

LEMMA InstantsOfJobs ==
  ASSUME NEW j \in Ids
  PROVE  At[j] \in Nat /\ At[j] > 0 /\ At[j] \in Instants
  BY AtAssumption DEF Instants

\* The job that a pass is at, what is left behind it, and the same pass with another verdict.
LEMMA PassHasJob ==
  ASSUME OneShotInv, pass.todo # <<>>
  PROVE  /\ CurrentJob \in Ids
         /\ Onwards.by = pass.by /\ Onwards.then = "look"
         /\ Onwards \in [by: Callers \cup {Free}, todo: Seq(Ids),
                         then: {"look", "execute", "run", "catchup_off", "missed_window"}]
<1>1. pass.todo \in Seq(Ids) /\ pass.by \in Callers \cup {Free}
  BY DEF OneShotInv, OneShotTypeOK
<1>2. Head(pass.todo) \in Ids /\ Tail(pass.todo) \in Seq(Ids)
  BY <1>1
<1>3. DOMAIN pass = {"by", "todo", "then"}
      /\ pass = [by |-> pass.by, todo |-> pass.todo, then |-> pass.then]
  BY DEF OneShotInv, OneShotTypeOK
<1>4. Onwards = [by |-> pass.by, todo |-> Tail(pass.todo), then |-> "look"]
  <2>1. DOMAIN Onwards = {"by", "todo", "then"}
    BY <1>3, Zenon DEF Onwards
  <2>2. Onwards.by = pass.by
    BY <1>3 DEF Onwards
  <2>3. Onwards.then = "look"
    BY <1>3 DEF Onwards
  <2>4. Onwards.todo = Tail(pass.todo)
    BY <1>3 DEF Onwards
  <2>5. Onwards = [k \in DOMAIN Onwards |-> Onwards[k]]
    BY DEF Onwards
  <2> HIDE DEF Onwards
  <2> QED BY <2>1, <2>2, <2>3, <2>4, <2>5
<1> QED BY <1>1, <1>2, <1>4 DEF CurrentJob

LEMMA NoPassType ==
  NoPass \in [by: Callers \cup {Free}, todo: Seq(Ids),
              then: {"look", "execute", "run", "catchup_off", "missed_window"}]
<1>1. <<>> \in Seq(Ids)
  OBVIOUS
<1> QED BY <1>1 DEF NoPass

\* An execution: it claims the occurrence, or it is refused and the occurrence stays as it was.
LEMMA ExecuteClaims ==
  ASSUME OneShotInv, NEW j \in Ids, NEW who \in {"task", "pass"}, Execute(j, who)
  PROVE  /\ lock' \in [Ids -> {Free, "task", "pass", "manual"}]
         /\ watermark' \in [Ids -> Instants] /\ ran' \in [Ids -> Nat]
         /\ skips' \in [Ids -> Seq({"overlap", "catchup_off", "missed_window"})]
         /\ \A i \in Ids \ {j} : watermark'[i] = watermark[i] /\ ran'[i] = ran[i]
         /\ \/ lock[j] = Free /\ watermark'[j] = At[j] /\ ran'[j] = ran[j] + 1
            \/ lock[j] # Free /\ watermark' = watermark /\ ran' = ran
<1>1. At[j] \in Instants
  BY InstantsOfJobs
<1>2. CASE lock[j] = Free
  <2>1. /\ lock' = [lock EXCEPT ![j] = who] /\ watermark' = [watermark EXCEPT ![j] = At[j]]
        /\ ran' = [ran EXCEPT ![j] = @ + 1] /\ UNCHANGED skips
    BY <1>2 DEF Execute
  <2>2. /\ lock \in [Ids -> {Free, "task", "pass", "manual"}]
        /\ watermark \in [Ids -> Instants] /\ ran \in [Ids -> Nat]
        /\ skips \in [Ids -> Seq({"overlap", "catchup_off", "missed_window"})]
    BY DEF OneShotInv, OneShotTypeOK
  <2>3. lock' \in [Ids -> {Free, "task", "pass", "manual"}]
    BY <2>1, <2>2
  <2>4. /\ watermark' \in [Ids -> Instants] /\ ran' \in [Ids -> Nat]
        /\ watermark'[j] = At[j] /\ ran'[j] = ran[j] + 1
        /\ \A i \in Ids \ {j} : watermark'[i] = watermark[i] /\ ran'[i] = ran[i]
    BY <1>1, <2>1, <2>2
  <2> QED BY <1>2, <2>1, <2>2, <2>3, <2>4
<1>3. CASE lock[j] # Free
  <2>1. Append(skips[j], "overlap") \in Seq({"overlap", "catchup_off", "missed_window"})
    BY DEF OneShotInv, OneShotTypeOK
  <2>2. skips' = [skips EXCEPT ![j] = Append(@, "overlap")] /\ UNCHANGED <<lock, watermark, ran>>
    BY <1>3 DEF Execute
  <2>3. skips' \in [Ids -> Seq({"overlap", "catchup_off", "missed_window"})]
    BY <2>1, <2>2 DEF OneShotInv, OneShotTypeOK
  <2> QED BY <1>3, <2>2, <2>3 DEF OneShotInv, OneShotTypeOK
<1> QED BY <1>2, <1>3

\* A release frees a lock and nothing else.
LEMMA ReleaseType ==
  ASSUME OneShotInv, NEW j \in Ids, Release(j)
  PROVE  lock' \in [Ids -> {Free, "task", "pass", "manual"}]
  BY DEF Release, OneShotInv, OneShotTypeOK

\* Use counts what happens, and only up.
LEMMA UseCounts ==
  ASSUME OneShotInv, NEW what \in DOMAIN Unused, Use(what)
  PROVE  /\ used' \in [DOMAIN Unused -> Nat]
         /\ used'[what] = used[what] + 1
         /\ \A k \in DOMAIN Unused \ {what} : used'[k] = used[k]
  BY DEF Use, OneShotInv, OneShotTypeOK

LEMMA RebuiltType == Rebuilt \in [Ids -> Nat]
  BY InstantsOfJobs DEF Rebuilt

LEMMA CountersOfUse == DOMAIN Unused = {"reloads", "commands", "sleeps", "crashes", "manuals"}
  BY DEF Unused

\* What a timer, a task or a manual run of one job does to the types.
LEMMA JobStepTypes ==
  ASSUME OneShotInv, NEW j \in Ids,
         \/ FireTimer(j) \/ FireExecute(j) \/ FireDone(j) \/ ManualRun(j) \/ ManualDone(j)
  PROVE  OneShotInv'
<1>1. PassInv'
  BY DEF FireTimer, FireExecute, FireDone, ManualRun, ManualDone, OneShotInv, PassInv
<1>2. CASE FireTimer(j)
  BY <1>1, <1>2 DEF FireTimer, OneShotInv, OneShotTypeOK
<1>3. CASE FireExecute(j)
  <2>1. Execute(j, "task")
    BY <1>3 DEF FireExecute
  <2>2. task' \in [Ids -> {"idle", "tripped", "run"}]
    BY <1>3 DEF FireExecute, OneShotInv, OneShotTypeOK
  <2> QED BY <1>1, <1>3, <2>1, <2>2, ExecuteClaims DEF FireExecute, OneShotInv, OneShotTypeOK
<1>4. CASE FireDone(j)
  BY <1>1, <1>4, ReleaseType DEF FireDone, OneShotInv, OneShotTypeOK
<1>5. CASE ManualRun(j)
  <2>1. used' \in [DOMAIN Unused -> Nat]
    BY <1>5, CountersOfUse, UseCounts DEF ManualRun
  <2> QED BY <1>1, <1>5, <2>1 DEF ManualRun, OneShotInv, OneShotTypeOK
<1>6. CASE ManualDone(j)
  BY <1>1, <1>6, ReleaseType DEF ManualDone, OneShotInv, OneShotTypeOK
<1> QED BY <1>2, <1>3, <1>4, <1>5, <1>6

\* A pass: it begins, decides, acts, ends.
LEMMA PassStepTypes ==
  ASSUME OneShotInv, PassStep \/ \E c \in Callers : Begin(c)
  PROVE  OneShotInv'
<1>1. ASSUME NEW c \in Callers, Begin(c)
      PROVE  OneShotInv'
  BY <1>1, JobsAssumption DEF Begin, OneShotInv, OneShotTypeOK, PassInv
<1>2. CASE Look
  <2>1. pass.todo # <<>>
    BY <1>2 DEF Look
  <2>2. CASE pass' = Onwards
    BY <1>2, <2>1, <2>2, PassHasJob DEF Look, OneShotInv, OneShotTypeOK, PassInv
  <2>3. CASE /\ Verdict(CurrentJob) # "leave"
             /\ pass' = [pass EXCEPT !.then = Verdict(CurrentJob)]
    <3>1. Verdict(CurrentJob) \in {"look", "execute", "run", "catchup_off", "missed_window"}
      BY <2>3 DEF Verdict
    <3>2. /\ pass' \in [by: Callers \cup {Free}, todo: Seq(Ids),
                        then: {"look", "execute", "run", "catchup_off", "missed_window"}]
          /\ pass'.todo = pass.todo
      BY <2>3, <3>1 DEF OneShotInv, OneShotTypeOK
    <3> QED BY <1>2, <2>1, <3>2 DEF Look, OneShotInv, OneShotTypeOK, PassInv
  <2> QED BY <1>2, <2>2, <2>3 DEF Look
<1>3. CASE Refuse
  <2>1. pass.todo # <<>>
    BY <1>3 DEF Refuse, OneShotInv, PassInv
  <2>2. /\ CurrentJob \in Ids /\ pass' = Onwards
        /\ pass.then \in {"overlap", "catchup_off", "missed_window"}
        /\ RecordSkip(CurrentJob, pass.then)
    BY <1>3, <2>1, PassHasJob DEF Refuse
  <2>3. Append(skips[CurrentJob], pass.then) \in Seq({"overlap", "catchup_off", "missed_window"})
    BY <2>2 DEF OneShotInv, OneShotTypeOK
  <2>4. /\ skips' \in [Ids -> Seq({"overlap", "catchup_off", "missed_window"})]
        /\ watermark' \in [Ids -> Instants] /\ UNCHANGED <<lock, ran>>
    BY <2>2, <2>3, InstantsOfJobs DEF RecordSkip, OneShotInv, OneShotTypeOK
  <2> QED BY <1>3, <2>1, <2>2, <2>4, PassHasJob DEF Refuse, OneShotInv, OneShotTypeOK, PassInv
<1>4. CASE CatchUpRun
  <2>1. pass.todo # <<>>
    BY <1>4 DEF CatchUpRun, OneShotInv, PassInv
  <2>2. CurrentJob \in Ids /\ Execute(CurrentJob, "pass")
    BY <1>4, <2>1, PassHasJob DEF CatchUpRun
  <2>3. /\ pass' \in [by: Callers \cup {Free}, todo: Seq(Ids),
                      then: {"look", "execute", "run", "catchup_off", "missed_window"}]
        /\ PassInv'
    <3>1. CASE pass' = Onwards
      BY <2>1, <3>1, PassHasJob DEF PassInv
    <3>2. CASE pass' = [pass EXCEPT !.then = "run"]
      BY <2>1, <3>2 DEF OneShotInv, OneShotTypeOK, PassInv
    <3> QED BY <1>4, <3>1, <3>2 DEF CatchUpRun
  <2> QED BY <1>4, <2>2, <2>3, ExecuteClaims DEF CatchUpRun, OneShotInv, OneShotTypeOK
<1>5. CASE CatchUpDone
  <2>1. pass.todo # <<>>
    BY <1>5 DEF CatchUpDone, OneShotInv, PassInv
  <2>2. CurrentJob \in Ids /\ pass' = Onwards /\ Release(CurrentJob)
    BY <1>5, <2>1, PassHasJob DEF CatchUpDone
  <2> QED BY <1>5, <2>1, <2>2, PassHasJob, ReleaseType
      DEF CatchUpDone, OneShotInv, OneShotTypeOK, PassInv
<1>6. CASE End
  <2>1. timer' \in [Ids -> Nat]
    BY <1>6 DEF End, OneShotInv, OneShotTypeOK
  <2> QED BY <1>6, <2>1 DEF End, NoPass, OneShotInv, OneShotTypeOK, PassInv
<1> QED BY <1>1, <1>2, <1>3, <1>4, <1>5, <1>6 DEF PassStep

LEMMA OneShotTypeStep == OneShotInv /\ [OneShotNext]_oneShotVars => OneShotInv'
<1> SUFFICES ASSUME OneShotInv, [OneShotNext]_oneShotVars PROVE OneShotInv'
  OBVIOUS
<1>1. CASE StartDaemon
  BY <1>1, RebuiltType DEF StartDaemon, Callers, OneShotInv, OneShotTypeOK, PassInv
<1>2. CASE Reload
  <2>1. used' \in [DOMAIN Unused -> Nat]
    BY <1>2, CountersOfUse, UseCounts DEF Reload
  <2> QED BY <1>2, <2>1, RebuiltType DEF Reload, Callers, OneShotInv, OneShotTypeOK, PassInv
<1>3. CASE ReloadTrigger
  <2>1. used' \in [DOMAIN Unused -> Nat]
    BY <1>3, CountersOfUse, UseCounts DEF ReloadTrigger
  <2> QED BY <1>3, <2>1, RebuiltType DEF ReloadTrigger, OneShotInv, OneShotTypeOK, PassInv
<1>4. CASE NoticeSleep
  BY <1>4, RebuiltType DEF NoticeSleep, Callers, OneShotInv, OneShotTypeOK, PassInv
<1>5. CASE Sleep
  <2>1. used' \in [DOMAIN Unused -> Nat]
    BY <1>5, CountersOfUse, UseCounts DEF Sleep
  <2>2. now' \in Instants /\ timer' \in [Ids -> Nat] /\ slept' \in BOOLEAN
    BY <1>5, AtAssumption DEF Sleep, OneShotInv, OneShotTypeOK, Instants
  <2> QED BY <1>5, <2>1, <2>2 DEF Sleep, OneShotInv, OneShotTypeOK, PassInv
<1>6. CASE Crash
  <2>1. used' \in [DOMAIN Unused -> Nat]
    BY <1>6, CountersOfUse, UseCounts DEF Crash
  <2>2. pass' = NoPass /\ NoPass.then = "look"
    BY <1>6 DEF Crash, NoPass
  <2> QED BY <1>6, <2>1, <2>2, NoPassType DEF Crash, OneShotInv, OneShotTypeOK, PassInv
<1>7. CASE Tick
  BY <1>7, AtAssumption DEF Tick, OneShotInv, OneShotTypeOK, PassInv, Instants
<1>8. CASE UNCHANGED oneShotVars
  BY <1>8 DEF oneShotVars, OneShotInv, OneShotTypeOK, PassInv
<1> QED BY <1>1, <1>2, <1>3, <1>4, <1>5, <1>6, <1>7, <1>8, JobStepTypes, PassStepTypes
    DEF OneShotNext

LEMMA OneShotStarts == OneShotInit => OneShotInv
<1> SUFFICES ASSUME OneShotInit PROVE OneShotInv
  OBVIOUS
<1>1. 0 \in Instants /\ 0 \in Nat
  BY AtAssumption DEF Instants
<1>2. <<>> \in Seq({"overlap", "catchup_off", "missed_window"})
  OBVIOUS
<1>3. used \in [DOMAIN Unused -> Nat]
  BY DEF OneShotInit, Unused
<1>4. pass = NoPass /\ NoPass.then = "look"
  BY DEF OneShotInit, NoPass
<1> QED BY <1>1, <1>2, <1>3, <1>4, NoPassType
    DEF OneShotInit, OneShotInv, OneShotTypeOK, PassInv

\* Every variable of OneShot has its type, and no instant leaves the horizon.
THEOREM OneShotTypeCorrect == OneShotSpec => []OneShotTypeOK
<1>1. OneShotInv => OneShotTypeOK
  BY DEF OneShotInv
<1> QED BY <1>1, OneShotStarts, OneShotTypeStep, PTL DEF OneShotSpec

-----------------------------------------------------------------------------
(***************************************************************************)
(* OneShot: an occurrence is executed once, while jobs.yaml stays as it is *)
(* and the machine does not sleep.                                         *)
(***************************************************************************)
\* Only a daemon that starts has a pass, and then no task of gocron runs.
StartPassInv ==
  /\ slept = FALSE /\ waiting["watch"] = 0 /\ waiting["clock"] = 0
  /\ waiting["start"] <= 1
  /\ daemon # "starting" => pass = NoPass /\ waiting["start"] = 0
  /\ pass # NoPass => waiting["start"] = 0 /\ pass.by = "start"
  /\ daemon # "up" => \A j \in Ids : task[j] = "idle"

\* A pass that is about to execute an occurrence found it past and unclaimed, and it still is.
MissedInv ==
  pass.then = "execute" =>
    watermark[CurrentJob] < At[CurrentJob] /\ At[CurrentJob] <= now

\* A timer is for the job's instant, and has tripped only when that has come; there is none for an
\* instant that has passed, so it is not set again.
AtInstantInv ==
  \A j \in Ids : /\ timer[j] \in {0, At[j]}
                 /\ task[j] = "tripped" => timer[j] = 0 /\ At[j] <= now

\* What was executed is claimed, and a daemon that serves has neither a timer nor a task for it.
SpentInv ==
  \A j \in Ids : /\ ran[j] <= 1
                 /\ ran[j] > 0 => /\ watermark[j] >= At[j] /\ At[j] <= now
                                  /\ daemon = "up" => timer[j] = 0 /\ task[j] # "tripped"

OnceInv == StartPassInv /\ MissedInv /\ AtInstantInv /\ SpentInv

\* The counters only grow, so what is undisturbed always was.
LEMMA UndisturbedWas ==
  ASSUME OneShotInv, [OneShotNext]_oneShotVars, Undisturbed'
  PROVE  Undisturbed /\ UNCHANGED <<tripsLate, used.reloads, used.sleeps>>
<1>1. used \in [DOMAIN Unused -> Nat] /\ {"reloads", "sleeps"} \subseteq DOMAIN Unused
  BY CountersOfUse DEF OneShotInv, OneShotTypeOK
<1>2. UNCHANGED tripsLate
  BY DEF OneShotNext, oneShotVars, FireTimer, FireExecute, FireDone, ManualRun, ManualDone, Begin,
         PassStep, Look, Refuse, CatchUpRun, CatchUpDone, End, StartDaemon, Reload,
         ReloadTrigger, NoticeSleep, Sleep, Crash, Tick
<1>3. used' = used \/ \E what \in DOMAIN Unused : Use(what)
  BY CountersOfUse
  DEF OneShotNext, oneShotVars, FireTimer, FireExecute, FireDone, ManualRun, ManualDone, Begin,
      PassStep, Look, Refuse, CatchUpRun, CatchUpDone, End, StartDaemon, Reload,
      ReloadTrigger, NoticeSleep, Sleep, Crash, Tick
<1>4. CASE used' = used
  BY <1>2, <1>4 DEF Undisturbed
<1>5. ASSUME NEW what \in DOMAIN Unused, Use(what)
      PROVE  used'.reloads >= used.reloads /\ used'.sleeps >= used.sleeps
  BY <1>1, <1>5, UseCounts
<1>6. CASE \E what \in DOMAIN Unused : Use(what)
  BY <1>1, <1>2, <1>5, <1>6 DEF Undisturbed
<1> QED BY <1>3, <1>4, <1>6

\* Timers, tasks and manual runs, which only a daemon that serves has: the occurrence is executed
\* by a task that has tripped, whose timer is gone for good.
LEMMA JobStepOnce ==
  ASSUME OneShotInv, OnceInv, NEW j \in Ids,
         \/ FireTimer(j) \/ FireExecute(j) \/ FireDone(j) \/ ManualRun(j) \/ ManualDone(j)
  PROVE  OnceInv'
<1>1. /\ \A i \in Ids : At[i] \in Nat /\ At[i] > 0
      /\ now \in Nat /\ ran \in [Ids -> Nat] /\ watermark \in [Ids -> Nat]
      /\ timer \in [Ids -> Nat] /\ task \in [Ids -> {"idle", "tripped", "run"}]
  BY InstantsOfJobs DEF OneShotInv, OneShotTypeOK, Instants
<1>2. UNCHANGED <<now, daemon, slept, waiting, pass>>
  BY DEF FireTimer, FireExecute, FireDone, ManualRun, ManualDone
<1>3. CASE FireTimer(j)
  <2>1. daemon = "up" /\ timer[j] # 0 /\ timer[j] <= now
    BY <1>3 DEF FireTimer, Due
  <2>2. timer[j] = At[j] /\ ran[j] = 0
    BY <1>1, <2>1 DEF OnceInv, AtInstantInv, SpentInv
  <2>3. StartPassInv' /\ MissedInv'
    BY <1>2, <1>3, <2>1
    DEF FireTimer, OnceInv, StartPassInv, MissedInv, CurrentJob
  <2>4. AtInstantInv' /\ SpentInv'
    BY <1>1, <1>2, <1>3, <2>1, <2>2 DEF FireTimer, OnceInv, AtInstantInv, SpentInv
  <2> QED BY <2>3, <2>4 DEF OnceInv
<1>4. CASE FireExecute(j)
  <2>1. /\ task[j] = "tripped" /\ timer' = timer /\ Execute(j, "task")
        /\ task' = [task EXCEPT ![j] = IF lock[j] = Free THEN "run" ELSE "idle"]
    BY <1>4 DEF FireExecute
  <2>2. /\ daemon = "up" /\ timer[j] = 0 /\ At[j] <= now
    BY <2>1 DEF OnceInv, StartPassInv, AtInstantInv
  <2>3. ran[j] = 0
    BY <1>1, <2>1, <2>2 DEF OnceInv, SpentInv
  <2>4. StartPassInv'
    BY <1>2, <2>2 DEF OnceInv, StartPassInv
  <2>5. MissedInv'
    BY <1>2, <2>2 DEF OnceInv, StartPassInv, MissedInv, NoPass
  <2>6. AtInstantInv'
    BY <1>1, <1>2, <2>1 DEF OnceInv, AtInstantInv
  <2>7. /\ \A i \in Ids \ {j} : watermark'[i] = watermark[i] /\ ran'[i] = ran[i]
        /\ \/ watermark'[j] = At[j] /\ ran'[j] = ran[j] + 1
           \/ watermark' = watermark /\ ran' = ran
    BY <2>1, ExecuteClaims
  <2>8. SpentInv'
    <3> SUFFICES ASSUME NEW i \in Ids
                 PROVE  /\ ran'[i] <= 1
                        /\ ran'[i] > 0 => /\ watermark'[i] >= At[i] /\ At[i] <= now'
                                          /\ daemon' = "up" => timer'[i] = 0 /\ task'[i] # "tripped"
      BY DEF SpentInv
    <3>1. CASE i = j
      BY <1>1, <1>2, <2>1, <2>2, <2>3, <2>7, <3>1
    <3>2. CASE i # j
      BY <1>1, <1>2, <2>1, <2>7, <3>2 DEF OnceInv, SpentInv
    <3> QED BY <3>1, <3>2
  <2> QED BY <2>4, <2>5, <2>6, <2>8 DEF OnceInv
<1>5. CASE FireDone(j)
  <2>1. /\ task' = [task EXCEPT ![j] = "idle"] /\ UNCHANGED <<timer, watermark, ran>>
    BY <1>5 DEF FireDone
  <2> QED BY <1>1, <1>2, <2>1
      DEF OnceInv, StartPassInv, MissedInv, CurrentJob, AtInstantInv, SpentInv
<1>6. CASE ManualRun(j)
  <2>1. /\ daemon = "up" /\ watermark' = [watermark EXCEPT ![j] = now]
        /\ UNCHANGED <<timer, task, ran>>
    BY <1>6 DEF ManualRun
  <2>2. MissedInv'
    BY <1>2, <2>1 DEF OnceInv, StartPassInv, MissedInv, NoPass
  <2> QED BY <1>1, <1>2, <2>1, <2>2 DEF OnceInv, StartPassInv, AtInstantInv, SpentInv
<1>7. CASE ManualDone(j)
  <2>1. UNCHANGED <<timer, task, watermark, ran>>
    BY <1>7 DEF ManualDone
  <2> QED BY <1>2, <2>1
      DEF OnceInv, StartPassInv, MissedInv, CurrentJob, AtInstantInv, SpentInv
<1> QED BY <1>3, <1>4, <1>5, <1>6, <1>7

\* The pass of the start executes what it found past and unclaimed.  What came due meanwhile has
\* lost its timer when the scheduler starts.
LEMMA PassStepOnce ==
  ASSUME OneShotInv, OnceInv, ~tripsLate, PassStep \/ \E c \in Callers : Begin(c)
  PROVE  OnceInv'
<1>1. /\ \A i \in Ids : At[i] \in Nat /\ At[i] > 0
      /\ now \in Nat /\ ran \in [Ids -> Nat] /\ watermark \in [Ids -> Nat]
      /\ timer \in [Ids -> Nat] /\ waiting \in [Callers -> Nat]
  BY InstantsOfJobs DEF OneShotInv, OneShotTypeOK, Instants
<1>2. UNCHANGED <<now, task, slept>>
  BY DEF PassStep, Look, Refuse, CatchUpRun, CatchUpDone, End, Begin
<1>3. ASSUME NEW c \in Callers, Begin(c)
      PROVE  OnceInv'
  <2>1. /\ waiting[c] > 0 /\ waiting' = [waiting EXCEPT ![c] = @ - 1]
        /\ pass' = [by |-> c, todo |-> Jobs, then |-> "look"]
        /\ UNCHANGED <<daemon, timer, watermark, ran>>
    BY <1>3 DEF Begin
  <2>2. c = "start" /\ waiting["start"] = 1
    BY <1>1, <2>1 DEF OnceInv, StartPassInv, Callers
  <2>3. daemon = "starting"
    BY <2>2 DEF OnceInv, StartPassInv
  <2>4. StartPassInv'
    BY <1>1, <1>2, <2>1, <2>2, <2>3 DEF OnceInv, StartPassInv, Callers
  <2> QED BY <1>2, <2>1, <2>4 DEF OnceInv, MissedInv, AtInstantInv, SpentInv
<1>4. ASSUME PassStep
      PROVE  /\ pass # NoPass /\ daemon = "starting" /\ waiting["start"] = 0
             /\ pass.by = "start" /\ UNCHANGED waiting
  <2>1. pass # NoPass
    BY <1>4 DEF PassStep, Look, Refuse, CatchUpRun, CatchUpDone, End, NoPass
  <2> QED BY <1>4, <2>1
      DEF PassStep, Look, Refuse, CatchUpRun, CatchUpDone, End, OnceInv, StartPassInv
<1>5. ASSUME PassStep, daemon' = daemon, timer' = timer, pass'.by = pass.by
      PROVE  StartPassInv' /\ AtInstantInv'
  BY <1>2, <1>4, <1>5 DEF OnceInv, StartPassInv, AtInstantInv
<1>6. CASE Look
  <2>1. pass.todo # <<>> /\ UNCHANGED <<daemon, timer, watermark, ran>>
    BY <1>6 DEF Look
  <2>2. /\ pass'.by = pass.by
        /\ pass'.then = "execute" => pass'.todo = pass.todo /\ Verdict(CurrentJob) = "execute"
    BY <1>6, <2>1, PassHasJob DEF Look, OneShotInv, OneShotTypeOK
  <2>3. ASSUME Verdict(CurrentJob) = "execute"
        PROVE  watermark[CurrentJob] < At[CurrentJob] /\ At[CurrentJob] <= now
    BY <1>1, <2>1, <2>3, PassHasJob DEF Verdict, OneShotCompleted
  <2>4. MissedInv'
    BY <1>2, <2>1, <2>2, <2>3 DEF MissedInv, CurrentJob
  <2>5. SpentInv'
    BY <1>2, <2>1 DEF OnceInv, SpentInv
  <2> QED BY <1>5, <1>6, <2>1, <2>2, <2>4, <2>5 DEF OnceInv, PassStep
<1>7. CASE Refuse
  <2>1. pass.todo # <<>>
    BY <1>7 DEF Refuse, OneShotInv, PassInv
  <2>2. CurrentJob \in Ids /\ pass'.by = pass.by /\ pass'.then = "look"
    BY <1>7, <2>1, PassHasJob DEF Refuse
  <2>3. /\ watermark' = [watermark EXCEPT ![CurrentJob] =
                           IF @ < At[CurrentJob] THEN At[CurrentJob] ELSE @]
        /\ UNCHANGED <<daemon, timer, ran>>
    BY <1>7 DEF Refuse, RecordSkip
  <2>4. SpentInv'
    BY <1>1, <1>2, <2>2, <2>3 DEF OnceInv, SpentInv
  <2>5. MissedInv'
    BY <2>2 DEF MissedInv
  <2> QED BY <1>5, <1>7, <2>2, <2>3, <2>4, <2>5 DEF OnceInv, PassStep
<1>8. CASE CatchUpRun
  <2>1. pass.then = "execute" /\ pass.todo # <<>>
    BY <1>8 DEF CatchUpRun, OneShotInv, PassInv
  <2>2. CurrentJob \in Ids /\ Onwards.by = pass.by /\ Onwards.then = "look"
    BY <2>1, PassHasJob
  <2>3. pass'.by = pass.by /\ pass'.then # "execute"
    BY <1>8, <2>2 DEF CatchUpRun, OneShotInv, OneShotTypeOK
  <2>4. daemon = "starting" /\ UNCHANGED <<daemon, timer>> /\ Execute(CurrentJob, "pass")
    BY <1>4, <1>8 DEF CatchUpRun, PassStep
  <2>5. watermark[CurrentJob] < At[CurrentJob] /\ At[CurrentJob] <= now
    BY <2>1 DEF OnceInv, MissedInv
  <2>6. ran[CurrentJob] = 0
    BY <1>1, <2>2, <2>5 DEF OnceInv, SpentInv
  <2>7. /\ \A i \in Ids \ {CurrentJob} : watermark'[i] = watermark[i] /\ ran'[i] = ran[i]
        /\ \/ watermark'[CurrentJob] = At[CurrentJob] /\ ran'[CurrentJob] = ran[CurrentJob] + 1
           \/ watermark' = watermark /\ ran' = ran
    BY <2>2, <2>4, ExecuteClaims
  <2>8. SpentInv'
    <3> SUFFICES ASSUME NEW i \in Ids
                 PROVE  /\ ran'[i] <= 1
                        /\ ran'[i] > 0 => watermark'[i] >= At[i] /\ At[i] <= now'
      BY <2>4 DEF SpentInv
    <3>1. CASE i = CurrentJob
      BY <1>1, <1>2, <2>2, <2>5, <2>6, <2>7, <3>1
    <3>2. CASE i # CurrentJob
      BY <1>2, <2>7, <3>2 DEF OnceInv, SpentInv
    <3> QED BY <3>1, <3>2
  <2>9. MissedInv'
    BY <2>3 DEF MissedInv
  <2> QED BY <1>5, <1>8, <2>3, <2>4, <2>8, <2>9 DEF OnceInv, PassStep
<1>9. CASE CatchUpDone
  <2>1. pass.todo # <<>>
    BY <1>9 DEF CatchUpDone, OneShotInv, PassInv
  <2>2. pass'.by = pass.by /\ pass'.then = "look"
    BY <1>9, <2>1, PassHasJob DEF CatchUpDone
  <2>3. UNCHANGED <<daemon, timer, watermark, ran>>
    BY <1>9 DEF CatchUpDone
  <2>4. SpentInv' /\ MissedInv'
    BY <1>2, <2>2, <2>3 DEF OnceInv, SpentInv, MissedInv
  <2> QED BY <1>5, <1>9, <2>2, <2>3, <2>4 DEF OnceInv, PassStep
<1>10. CASE End
  <2>1. /\ pass' = NoPass /\ daemon' = "up" /\ UNCHANGED <<watermark, ran>>
        /\ timer' = [j \in Ids |-> IF timer[j] > now THEN timer[j] ELSE 0]
    BY <1>4, <1>10 DEF End, PassStep
  <2>2. \A i \in Ids : task[i] = "idle"
    BY <1>4, <1>10 DEF PassStep, OnceInv, StartPassInv
  <2>3. StartPassInv' /\ MissedInv'
    BY <1>2, <1>4, <1>10, <2>1 DEF PassStep, OnceInv, StartPassInv, MissedInv, NoPass
  <2>4. AtInstantInv' /\ SpentInv'
    BY <1>1, <1>2, <2>1, <2>2 DEF OnceInv, AtInstantInv, SpentInv
  <2> QED BY <2>3, <2>4 DEF OnceInv
<1> QED BY <1>3, <1>6, <1>7, <1>8, <1>9, <1>10 DEF PassStep

LEMMA OnceStep ==
  ASSUME OneShotInv, OnceInv, [OneShotNext]_oneShotVars, Undisturbed'
  PROVE  OnceInv'
<1>1. /\ \A i \in Ids : At[i] \in Nat /\ At[i] > 0
      /\ now \in Nat /\ ran \in [Ids -> Nat] /\ watermark \in [Ids -> Nat]
      /\ timer \in [Ids -> Nat] /\ waiting \in [Callers -> Nat]
      /\ used \in [DOMAIN Unused -> Nat]
  BY InstantsOfJobs DEF OneShotInv, OneShotTypeOK, Instants
<1>2. ~tripsLate /\ used'.reloads = used.reloads /\ used'.sleeps = used.sleeps
  BY UndisturbedWas DEF Undisturbed
<1>3. \A i \in Ids : Rebuilt[i] \in {0, At[i]} /\ (At[i] <= now => Rebuilt[i] = 0)
  BY <1>1 DEF Rebuilt
<1>4. CASE StartDaemon
  <2>1. /\ daemon = "down" /\ daemon' = "starting" /\ timer' = Rebuilt
        /\ waiting' = [waiting EXCEPT !["start"] = 1]
        /\ UNCHANGED <<now, task, watermark, ran, pass, slept>>
    BY <1>4 DEF StartDaemon
  <2>2. pass = NoPass /\ \A i \in Ids : task[i] = "idle"
    BY <2>1 DEF OnceInv, StartPassInv
  <2>3. StartPassInv' /\ MissedInv'
    BY <1>1, <2>1, <2>2 DEF OnceInv, StartPassInv, MissedInv, NoPass, Callers
  <2>4. AtInstantInv' /\ SpentInv'
    BY <1>3, <2>1, <2>2 DEF OnceInv, AtInstantInv, SpentInv
  <2> QED BY <2>3, <2>4 DEF OnceInv
<1>5. CASE ReloadTrigger
  <2>1. timer' = Rebuilt /\ UNCHANGED <<now, daemon, task, watermark, ran, waiting, pass, slept>>
    BY <1>5 DEF ReloadTrigger
  <2>2. StartPassInv' /\ MissedInv'
    BY <2>1 DEF OnceInv, StartPassInv, MissedInv, CurrentJob
  <2>3. AtInstantInv' /\ SpentInv'
    BY <1>3, <2>1 DEF OnceInv, AtInstantInv, SpentInv
  <2> QED BY <2>2, <2>3 DEF OnceInv
<1>6. ASSUME Reload \/ Sleep
      PROVE  FALSE
  <2>1. CASE Reload
    BY <1>1, <1>2, <2>1, CountersOfUse, UseCounts DEF Reload
  <2>2. CASE Sleep
    BY <1>1, <1>2, <2>2, CountersOfUse, UseCounts DEF Sleep
  <2> QED BY <1>6, <2>1, <2>2
<1>7. ASSUME NoticeSleep
      PROVE  FALSE
  BY <1>7 DEF NoticeSleep, OnceInv, StartPassInv
<1>8. CASE Crash
  <2>1. /\ daemon' = "down" /\ slept' = FALSE /\ pass' = NoPass
        /\ timer' = [j \in Ids |-> 0] /\ task' = [j \in Ids |-> "idle"]
        /\ waiting' = [c \in Callers |-> 0] /\ UNCHANGED <<now, watermark, ran>>
    BY <1>8 DEF Crash
  <2>2. StartPassInv' /\ MissedInv'
    BY <2>1 DEF StartPassInv, MissedInv, NoPass, Callers
  <2>3. AtInstantInv' /\ SpentInv'
    BY <2>1 DEF OnceInv, AtInstantInv, SpentInv
  <2> QED BY <2>2, <2>3 DEF OnceInv
<1>9. CASE Tick
  <2>1. now' = now + 1 /\ UNCHANGED <<daemon, timer, task, watermark, ran, waiting, pass, slept>>
    BY <1>9 DEF Tick
  <2>2. StartPassInv'
    BY <2>1 DEF OnceInv, StartPassInv
  <2>3. MissedInv'
    <3> SUFFICES ASSUME pass.then = "execute"
                 PROVE  watermark[CurrentJob] < At[CurrentJob] /\ At[CurrentJob] <= now + 1
      BY <2>1 DEF MissedInv, CurrentJob
    <3>1. CurrentJob \in Ids
      BY PassHasJob DEF OneShotInv, PassInv
    <3> QED BY <1>1, <3>1 DEF OnceInv, MissedInv
  <2>4. AtInstantInv' /\ SpentInv'
    BY <1>1, <2>1 DEF OnceInv, AtInstantInv, SpentInv
  <2> QED BY <2>2, <2>3, <2>4 DEF OnceInv
<1>10. CASE UNCHANGED oneShotVars
  BY <1>10 DEF oneShotVars, OnceInv, StartPassInv, MissedInv, CurrentJob, AtInstantInv, SpentInv
<1> QED BY <1>2, <1>4, <1>5, <1>6, <1>7, <1>8, <1>9, <1>10, JobStepOnce, PassStepOnce
    DEF OneShotNext

\* If gocron loses late timers, then as long as jobs.yaml does not change and the machine does not
\* sleep, no occurrence of a one-time job is executed twice by fire and the pass of the start,
\* wherever the daemon crashes, whatever runs by hand and however often a reload is asked for.
THEOREM OneTimeRunsOnce == OneShotSpec => []QuietRunsOnce
<1> DEFINE Inv == OneShotInv /\ (Undisturbed => OnceInv)
<1>1. OneShotInit => Inv
  <2> SUFFICES ASSUME OneShotInit PROVE OnceInv
    BY OneShotStarts
  <2>1. \A i \in Ids : At[i] \in Nat /\ At[i] > 0
    BY InstantsOfJobs
  <2>2. StartPassInv /\ MissedInv
    BY DEF OneShotInit, StartPassInv, MissedInv, NoPass, Callers
  <2>3. AtInstantInv /\ SpentInv
    BY <2>1 DEF OneShotInit, AtInstantInv, SpentInv
  <2> QED BY <2>2, <2>3 DEF OnceInv
<1>2. Inv /\ [OneShotNext]_oneShotVars => Inv'
  <2> SUFFICES ASSUME Inv, [OneShotNext]_oneShotVars PROVE Inv'
    OBVIOUS
  <2>1. OneShotInv'
    BY OneShotTypeStep
  <2>2. ASSUME Undisturbed'
        PROVE  OnceInv'
    BY <2>2, UndisturbedWas, OnceStep
  <2> QED BY <2>1, <2>2
<1>3. Inv => QuietRunsOnce
  BY DEF QuietRunsOnce, OnceInv, SpentInv
<1> QED BY <1>1, <1>2, <1>3, PTL DEF OneShotSpec
=============================================================================
