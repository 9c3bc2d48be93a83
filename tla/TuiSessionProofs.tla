-------------------------- MODULE TuiSessionProofs ---------------------------
(***************************************************************************)
(* Commands from any number of shells and of a TUI do not lose one         *)
(* another's edits of jobs.yaml, do not make it invalid, and the TUI's     *)
(* dialog removes the job it named.                                        *)
(***************************************************************************)
EXTENDS TuiSession, FiniteSetTheorems, TLAPS

\* Where a flow may stand between its read of jobs.yaml and its rename, it holds the lock.
Locked(p) == pc[p] \in {"read", "rename"}

\* What it has read is what is there, as long as nobody wrote by hand.
HolderInv ==
  /\ DOMAIN pc = Flows /\ DOMAIN cmd = Flows /\ DOMAIN doc = Flows
  /\ hands \in Nat
  /\ \A p \in Flows : Locked(p) => lock = p
  /\ hands = 0 => \A p \in Flows : pc[p] = "rename" => doc[p] = file

\* A command that ends frees no lock but its own, and leaves the others where they are.
LEMMA EndMoves ==
  ASSUME HolderInv, NEW p \in Flows, End(p)
  PROVE  /\ DOMAIN pc' = Flows /\ DOMAIN cmd' = Flows /\ DOMAIN doc' = Flows
         /\ pc'[p] = "idle"
         /\ \A q \in Flows \ {p} : pc'[q] = pc[q] /\ doc'[q] = doc[q]
         /\ lock # p => lock' = lock
  BY DEF HolderInv, End, GoTo, Drop, Unlock

\* A command that begins is not in Apply yet.
LEMMA BeginMoves ==
  ASSUME HolderInv, NEW p \in Flows, NEW c, NEW place \in {"load", "lock", "set"},
         Begin(p, c, place)
  PROVE  /\ DOMAIN pc' = Flows /\ DOMAIN cmd' = Flows
         /\ pc[p] = "idle" /\ pc'[p] = place /\ cmd'[p] = c
         /\ \A q \in Flows \ {p} : pc'[q] = pc[q]
  BY DEF HolderInv, Begin, GoTo

\* Only the holder of the lock replaces jobs.yaml, and it is found in one place.
LEMMA HolderAlone ==
  ASSUME HolderInv, NEW p \in Flows, NEW q \in Flows, Locked(p), Locked(q)
  PROVE  p = q
  BY DEF HolderInv

LEMMA FlowStepHolder ==
  ASSUME HolderInv, NEW p \in Flows, FlowStep(p)
  PROVE  HolderInv'
<1>1. CASE Call(p)
  <2>1. PICK c \in Command :
          Begin(p, c, IF c.kind \in {"pause", "resume"} THEN "load" ELSE "lock")
    BY <1>1 DEF Call
  <2> QED BY <1>1, <2>1, BeginMoves DEF Call, HolderInv, Locked, files
<1>2. CASE TakeLock(p)
  <2>1. Free \notin Flows
    BY EditConstants
  <2>2. \A q \in Flows : ~Locked(q)
    BY <1>2, <2>1 DEF HolderInv, TakeLock
  <2>3. /\ DOMAIN pc' = Flows /\ pc'[p] = "read" /\ lock' = p
        /\ \A q \in Flows \ {p} : pc'[q] = pc[q]
    BY <1>2 DEF HolderInv, TakeLock, GoTo
  <2> QED BY <1>2, <2>2, <2>3 DEF HolderInv, Locked, TakeLock, counters
<1>3. CASE ReadDoc(p)
  <2>1. CASE End(p)
    BY <1>3, <2>1, EndMoves DEF ReadDoc, HolderInv, Locked, counters
  <2>2. CASE GoTo(p, "rename") /\ doc' = [doc EXCEPT ![p] = file] /\ UNCHANGED <<lock, cmd, declared>>
    <3>1. /\ DOMAIN pc' = Flows /\ DOMAIN doc' = Flows /\ doc'[p] = file
          /\ \A q \in Flows \ {p} : pc'[q] = pc[q] /\ doc'[q] = doc[q]
      BY <2>2 DEF HolderInv, GoTo
    <3> QED BY <1>3, <2>2, <3>1 DEF ReadDoc, HolderInv, Locked, counters
  <2> QED BY <1>3, <2>1, <2>2 DEF ReadDoc
<1>4. CASE Rename(p)
  <2>1. Locked(p)
    BY <1>4 DEF Rename, Locked
  <2>2. \A q \in Flows \ {p} : ~Locked(q)
    BY <2>1, HolderAlone
  <2>3. /\ DOMAIN pc' = Flows /\ DOMAIN cmd' = Flows /\ DOMAIN doc' = Flows
        /\ pc'[p] \in {"idle", "forget"} /\ \A q \in Flows \ {p} : pc'[q] = pc[q]
    <3>1. CASE End(p)
      BY <3>1, EndMoves
    <3>2. CASE GoTo(p, "forget") /\ Drop(p) /\ UNCHANGED <<cmd, declared>>
      BY <3>2 DEF HolderInv, GoTo, Drop
    <3> QED BY <1>4, <3>1, <3>2 DEF Rename
  <2> QED BY <1>4, <2>2, <2>3 DEF Rename, HolderInv, Locked, counters
<1>5. CASE ForgetJob(p)
  BY <1>5, EndMoves DEF ForgetJob, HolderInv, Locked, counters
<1>6. CASE LoadAll(p)
  <2>1. CASE End(p)
    BY <1>6, <2>1, EndMoves DEF LoadAll, HolderInv, Locked, counters
  <2>2. CASE GoTo(p, "set") /\ UNCHANGED <<lock, cmd, doc>>
    BY <1>6, <2>2 DEF LoadAll, GoTo, HolderInv, Locked, counters
  <2> QED BY <1>6, <2>1, <2>2 DEF LoadAll
<1>7. CASE SetEnabled(p)
  BY <1>7, EndMoves DEF SetEnabled, HolderInv, Locked, counters
<1>8. CASE Fail(p)
  BY <1>8, EndMoves DEF Fail, HolderInv, Locked
<1> QED BY <1>1, <1>2, <1>3, <1>4, <1>5, <1>6, <1>7, <1>8 DEF FlowStep

\* A command that the TUI begins, and which one.
LEMMA LaunchMoves ==
  ASSUME HolderInv, NEW c, NEW place \in {"lock", "set"}, NEW dec, Launch(c, place, dec)
  PROVE  /\ HolderInv' /\ UNCHANGED files
         /\ \A q \in Flows : pc[q] = "idle" /\ pc'[q] = "lock" => place = "lock" /\ cmd'[q] = c
<1>1. PICK p \in Tui : Begin(p, c, place)
  BY DEF Launch
<1>2. p \in Flows
  BY DEF Flows
<1> QED BY <1>1, <1>2, BeginMoves DEF Launch, HolderInv, Locked, files

\* What an input does to the files and the flows: nothing, or it begins a command, and when that
\* is a removal it is of the job in the dialog.
LEMMA InputMoves ==
  ASSUME HolderInv, Input
  PROVE  /\ HolderInv' /\ UNCHANGED files
         /\ \A q \in Flows : pc[q] = "idle" /\ pc'[q] = "lock" => cmd'[q].job = modal
<1>1. ASSUME UNCHANGED editVars
      PROVE  /\ HolderInv' /\ UNCHANGED files
             /\ \A q \in Flows : pc[q] = "idle" /\ pc'[q] = "lock" => cmd'[q].job = modal
  BY <1>1 DEF editVars, files, flows, counters, HolderInv, Locked
<1>2. ASSUME NEW row, NEW job, NEW dialog, Shows(row, job, dialog)
      PROVE  UNCHANGED editVars
  BY <1>2 DEF Shows
<1>3. ASSUME NEW j, ToggleEnabled(j)
      PROVE  /\ HolderInv' /\ UNCHANGED files
             /\ \A q \in Flows : pc[q] = "idle" /\ pc'[q] = "lock" => cmd'[q].job = modal
  BY <1>3, LaunchMoves DEF ToggleEnabled
<1>4. CASE Confirm
  <2>1. Launch([kind |-> "rm", job |-> modal], "lock", FALSE)
    BY <1>4 DEF Confirm, Deletes
  <2>2. /\ HolderInv' /\ UNCHANGED files
        /\ \A q \in Flows :
             pc[q] = "idle" /\ pc'[q] = "lock" => cmd'[q] = [kind |-> "rm", job |-> modal]
    BY <2>1, LaunchMoves
  <2> QED BY <2>2
<1>5. CASE Dismiss
  BY <1>1, <1>5 DEF Dismiss
<1>6. CASE ToggleKey \/ \E j \in Jobs : ClickToggle(j)
  BY <1>3, <1>6 DEF ToggleKey, ClickToggle
<1>7. CASE DeleteKey \/ OpenKey \/ BackKey \/ DownKey \/ UpKey \/ \E j \in Jobs : ClickRow(j)
  BY <1>1, <1>2, <1>7 DEF DeleteKey, OpenKey, BackKey, DownKey, UpKey, ClickRow
<1> QED BY <1>4, <1>5, <1>6, <1>7 DEF Input

LEMMA HolderStep == HolderInv /\ [Next]_vars => HolderInv'
<1> SUFFICES ASSUME HolderInv, [Next]_vars PROVE HolderInv'
  OBVIOUS
<1>1. CASE UNCHANGED editVars
  BY <1>1 DEF editVars, files, flows, counters, HolderInv, Locked
<1>2. CASE HandEdit
  BY <1>2 DEF HandEdit, flows, HolderInv, Locked
<1>3. CASE \E p \in Flows : FlowStep(p)
  BY <1>3, FlowStepHolder
<1>4. CASE Refresh \/ \E r \in loads : ReadOverrides(r) \/ Deliver(r)
  BY <1>1, <1>4 DEF Refresh, ReadOverrides, Deliver
<1>5. CASE Input
  BY <1>5, InputMoves
<1> QED BY <1>1, <1>2, <1>3, <1>4, <1>5 DEF Next, EditNext, vars

LEMMA HolderInvariant == Spec => []HolderInv
<1>1. Init => HolderInv
  BY DEF Init, EditInit, HolderInv, Locked
<1> QED BY <1>1, HolderStep, PTL DEF Spec

-----------------------------------------------------------------------------
\* No command overwrites what another has written since it read jobs.yaml, for any number of
\* shells and goroutines: Apply holds jobs.yaml.lock from its read to its rename, every process
\* that dies gives it back, and nobody else replaces the file.
THEOREM EditsAreSerialised == Spec => EditsSerialised
<1>1. HolderInv => [hands = 0 => \A p \in Flows : Replaces(p) => doc[p] = file]_editVars
  BY DEF HolderInv, Replaces
<1> QED BY <1>1, HolderInvariant, PTL DEF Spec, EditsSerialised

\* A jobs.yaml that does not validate was written by hand: of a command's steps only Rename
\* writes it, and only what it has found sound as a whole.
THEOREM CommandsKeepItSound == Spec => InvalidIsByHand
<1>1. ASSUME HolderInv, [Next]_vars
      PROVE  [file' # file /\ ~Sound(file') => hands' # hands]_editVars
  <2> SUFFICES ASSUME file' # file, ~Sound(file') PROVE hands' # hands
    OBVIOUS
  <2>1. CASE HandEdit
    BY <1>1, <2>1 DEF HandEdit, HolderInv
  <2>2. CASE \E p \in Flows : FlowStep(p)
    BY <2>2 DEF FlowStep, Call, TakeLock, ReadDoc, Rename, Acceptable, ForgetJob, LoadAll,
                SetEnabled, Fail, files
  <2>3. CASE Refresh \/ \E r \in loads : ReadOverrides(r) \/ Deliver(r)
    BY <2>3 DEF Refresh, ReadOverrides, Deliver, editVars, files
  <2>4. CASE Input
    BY <1>1, <2>4, InputMoves DEF files
  <2>5. CASE UNCHANGED vars
    BY <2>5 DEF vars, editVars, files
  <2> QED BY <1>1, <2>1, <2>2, <2>3, <2>4, <2>5 DEF Next, EditNext
<1> QED BY <1>1, HolderInvariant, PTL DEF Spec, InvalidIsByHand

\* Whatever jobs appear, disappear or change places on the screen while the dialog is open, a
\* removal begun by the TUI is of the job the dialog has named since it was opened.
THEOREM DialogDeletesNamed == Spec => DeletesNamed
<1>1. ASSUME HolderInv, [Next]_vars
      PROVE  [\A p \in Tui : pc[p] = "idle" /\ pc'[p] = "lock" => cmd'[p].job = modal]_vars
  <2> SUFFICES ASSUME NEW q \in Tui, pc[q] = "idle", pc'[q] = "lock" PROVE cmd'[q].job = modal
    OBVIOUS
  <2>1. q \in Flows /\ q \notin Cli
    BY EditConstants DEF Flows
  <2>2. CASE Input
    BY <1>1, <2>1, <2>2, InputMoves
  <2>3. ASSUME NEW p \in Flows, FlowStep(p)
        PROVE  FALSE
    <3>1. p = q \/ pc'[q] = pc[q]
      BY <1>1, <2>1, <2>3, EndMoves
      DEF FlowStep, Call, Begin, GoTo, TakeLock, ReadDoc, Rename, ForgetJob, LoadAll,
          SetEnabled, Fail, HolderInv
    <3>2. p # q
      BY <2>1, <2>3 DEF FlowStep, Call, TakeLock, ReadDoc, Rename, ForgetJob, LoadAll,
                        SetEnabled, Fail
    <3> QED BY <3>1, <3>2
  <2>4. CASE HandEdit \/ UNCHANGED editVars
    BY <2>4 DEF HandEdit, flows, editVars
  <2>5. CASE Refresh \/ \E r \in loads : ReadOverrides(r) \/ Deliver(r)
    BY <2>4, <2>5 DEF Refresh, ReadOverrides, Deliver
  <2> QED BY <1>1, <2>2, <2>3, <2>4, <2>5 DEF Next, EditNext, vars
<1> QED BY <1>1, HolderInvariant, PTL DEF Spec, DeletesNamed

-----------------------------------------------------------------------------
(***************************************************************************)
(* Types, and the rows of the list.                                        *)
(***************************************************************************)
Shown == [Jobs -> Override \cup {Absent}]

\* A command that is under way is one, and Apply renames over a document it could read.
FlowInv ==
  /\ \A p \in Flows : pc[p] # "idle" => cmd[p] \in Command
  /\ \A p \in Flows : pc[p] = "rename" => doc[p] # Garbled

TypeInv == TypeOK /\ FlowInv /\ IsFiniteSet(loads)

\* The list has finitely many rows, and none only when it is empty.
LEMMA ListedFinite ==
  ASSUME NEW s
  PROVE  /\ IsFiniteSet(Listed(s)) /\ Cardinality(Listed(s)) \in Nat
         /\ Cardinality(Listed(s)) = 0 <=> Listed(s) = {}
  BY EditConstants, FS_Subset, FS_CardinalityType, FS_EmptySet DEF Listed

\* A job of the list is on a row of it.
LEMMA RowOnList ==
  ASSUME NEW s, NEW j \in Listed(s)
  PROVE  Row(s, j) \in 0..Cardinality(Listed(s)) - 1
<1> DEFINE before == {i \in Listed(s) : i < j}
<1>1. j \in Nat /\ ~(j < j)
  BY EditConstants DEF Listed
<1>2. before \in SUBSET Listed(s) /\ before # Listed(s)
  BY <1>1
<1>3. IsFiniteSet(before) /\ Cardinality(before) \in Nat
  BY <1>2, ListedFinite, FS_Subset, FS_CardinalityType
<1>4. Cardinality(before) <= Cardinality(Listed(s)) /\ Cardinality(before) # Cardinality(Listed(s))
  BY <1>2, ListedFinite, FS_Subset
<1> QED BY <1>3, <1>4, ListedFinite DEF Row

\* Two jobs are on different rows: what is before one of them is before the other as well, and
\* so is the job itself.
LEMMA RowsDiffer ==
  ASSUME NEW s, NEW i \in Listed(s), NEW j \in Listed(s), i < j
  PROVE  Row(s, i) # Row(s, j)
<1> DEFINE before(k) == {h \in Listed(s) : h < k}
<1>1. \A k \in Listed(s) : k \in Nat
  BY EditConstants DEF Listed
<1>2. before(i) \in SUBSET before(j) /\ i \in before(j) /\ i \notin before(i)
  BY <1>1
<1>3. IsFiniteSet(before(j))
  BY ListedFinite, FS_Subset
<1>4. Cardinality(before(i)) # Cardinality(before(j))
  BY <1>2, <1>3, FS_Subset
<1> QED BY <1>4 DEF Row

\* There is a job on every row of the list: the rows of its jobs are different, and there are as
\* many of them as rows.
LEMMA RowHasJob ==
  ASSUME NEW s, NEW n \in 0..Cardinality(Listed(s)) - 1
  PROVE  \E j \in Listed(s) : Row(s, j) = n
<1> DEFINE L == Listed(s)
           R == 0..Cardinality(L) - 1
           row == [j \in L |-> Row(s, j)]
<1>1. \A i, j \in L : i # j => Row(s, i) # Row(s, j)
  <2> SUFFICES ASSUME NEW i \in L, NEW j \in L, i # j PROVE Row(s, i) # Row(s, j)
    OBVIOUS
  <2>1. i \in Nat /\ j \in Nat
    BY EditConstants DEF Listed
  <2>2. i < j \/ j < i
    BY <2>1
  <2> QED BY <2>2, RowsDiffer
<1>2. \A j \in L : Row(s, j) \in R
  BY RowOnList
<1>3. row \in Injection(L, R)
  BY <1>1, <1>2 DEF Injection, IsInjective
<1>4. Cardinality(L) \in Nat
  BY ListedFinite
<1>5. IsFiniteSet(R) /\ Cardinality(R) = Cardinality(L)
  BY <1>4, FS_Interval
<1>6. row \in Surjection(L, R)
  BY <1>3, <1>5, FS_Injection
<1>7. \E j \in L : row[j] = n
  BY <1>6 DEF Surjection
<1> QED BY <1>7

\* The cursor is on a row whenever there is one.
OnList(n, s) == n \in Nat /\ (Listed(s) = {} \/ n < Cardinality(Listed(s)))

LEMMA CursorJobType ==
  ASSUME TypeInv
  PROVE  CursorJob \in Jobs \cup {Nobody}
<1>1. CASE Listed(snap) = {}
  BY <1>1 DEF CursorJob
<1>2. CASE Listed(snap) # {}
  <2>1. cursor \in 0..Cardinality(Listed(snap)) - 1
    BY <1>2, ListedFinite DEF TypeInv, TypeOK
  <2>2. \E j \in Listed(snap) : Row(snap, j) = cursor
    BY <2>1, RowHasJob
  <2>3. CursorJob \in Listed(snap)
    BY <1>2, <2>2 DEF CursorJob
  <2> QED BY <2>3 DEF Listed
<1> QED BY <1>1, <1>2

LEMMA ClampedOnList ==
  ASSUME NEW s, NEW n \in Nat
  PROVE  OnList(Clamped(n, s), s)
  BY ListedFinite DEF Clamped, OnList

\* What is shown of two files is a snapshot.
LEMMA ViewType ==
  ASSUME NEW f \in File, NEW ov \in [Jobs -> Override \cup {Absent}]
  PROVE  View(f, ov) \in Shown
<1>1. CASE ~Sound(f)
  BY <1>1 DEF View, Nothing, Shown
<1>2. CASE Sound(f)
  <2>1. f \in [Jobs -> Def \cup {Absent}]
    BY <1>2 DEF Sound, File
  <2>2. ASSUME NEW j \in Jobs
        PROVE  EffectiveEnabled(f[j] = "on", ov[j]) \in BOOLEAN
    BY DEF EffectiveEnabled, Override
  <2> QED BY <1>2, <2>1, <2>2 DEF View, Shown, Override
<1> QED BY <1>1, <1>2

\* An edited jobs.yaml is one, and not a garbled one.
LEMMA MutatedType ==
  ASSUME NEW f \in File, f # Garbled, NEW c \in Command
  PROVE  Mutated(f, c) \in File
  BY DEF Mutated, Edited, File, Def, Command

\* A flow that ends, and one that a command begins in.
LEMMA EndTypes ==
  ASSUME TypeInv, NEW p \in Flows, End(p)
  PROVE  /\ pc' \in [Flows -> {"idle", "lock", "read", "rename", "forget", "load", "set"}]
         /\ cmd' \in [Flows -> Command \cup {Absent}] /\ doc' \in [Flows -> File]
         /\ declared' \in [Flows -> BOOLEAN] /\ lock' \in Flows \cup {Free}
         /\ FlowInv'
  BY DEF TypeInv, TypeOK, EditTypeOK, FlowInv, End, GoTo, Drop, Unlock, File

LEMMA BeginTypes ==
  ASSUME TypeInv, NEW p \in Flows, NEW c \in Command, NEW place \in {"load", "lock", "set"},
         Begin(p, c, place), UNCHANGED <<doc, hands>>
  PROVE  /\ pc' \in [Flows -> {"idle", "lock", "read", "rename", "forget", "load", "set"}]
         /\ cmd' \in [Flows -> Command \cup {Absent}]
         /\ commands' \in Nat /\ Changes' <= MaxChanges
         /\ FlowInv'
  BY EditConstants DEF TypeInv, TypeOK, EditTypeOK, FlowInv, Begin, GoTo, Changes

\* A step of a flow leaves the files and the flows of their types.
LEMMA FlowStepTypes ==
  ASSUME TypeInv, NEW p \in Flows, FlowStep(p)
  PROVE  EditTypeOK' /\ FlowInv'
<1> USE DEF TypeInv, TypeOK
<1>1. CASE Call(p)
  <2>1. PICK c \in Command :
          Begin(p, c, IF c.kind \in {"pause", "resume"} THEN "load" ELSE "lock")
    BY <1>1 DEF Call
  <2>2. UNCHANGED <<files, doc, declared, hands, faults>>
    BY <1>1 DEF Call
  <2> QED BY <2>1, <2>2, BeginTypes DEF EditTypeOK, files
<1>2. CASE TakeLock(p)
  BY <1>2 DEF TakeLock, GoTo, EditTypeOK, FlowInv, counters, Changes
<1>3. CASE ReadDoc(p)
  <2>1. CASE End(p)
    BY <1>3, <2>1, EndTypes DEF ReadDoc, EditTypeOK, counters, Changes
  <2>2. CASE /\ file # Garbled /\ GoTo(p, "rename") /\ doc' = [doc EXCEPT ![p] = file]
             /\ UNCHANGED <<lock, cmd, declared>>
    BY <1>3, <2>2 DEF ReadDoc, GoTo, EditTypeOK, FlowInv, counters, Changes
  <2> QED BY <1>3, <2>1, <2>2 DEF ReadDoc
<1>4. CASE Rename(p)
  <2>1. Mutated(doc[p], cmd[p]) \in File
    BY <1>4, MutatedType DEF Rename, FlowInv, EditTypeOK
  <2>2. file' \in File /\ UNCHANGED <<override, counters>>
    BY <1>4, <2>1 DEF Rename, EditTypeOK
  <2>3. CASE End(p)
    BY <2>2, <2>3, EndTypes DEF EditTypeOK, counters, Changes
  <2>4. CASE GoTo(p, "forget") /\ Drop(p) /\ UNCHANGED <<cmd, declared>>
    <3>1. /\ pc' \in [Flows -> {"idle", "lock", "read", "rename", "forget", "load", "set"}]
          /\ doc' \in [Flows -> File] /\ lock' \in Flows \cup {Free}
      BY <2>4 DEF GoTo, Drop, Unlock, EditTypeOK, File
    <3>2. FlowInv'
      BY <1>4, <2>4 DEF Rename, GoTo, Drop, EditTypeOK, FlowInv
    <3> QED BY <2>2, <2>4, <3>1, <3>2 DEF EditTypeOK, counters, Changes
  <2> QED BY <1>4, <2>3, <2>4 DEF Rename
<1>5. CASE ForgetJob(p)
  <2>1. override' \in [Jobs -> Override \cup {Absent}]
    BY <1>5 DEF ForgetJob, EditTypeOK
  <2> QED BY <1>5, <2>1, EndTypes DEF ForgetJob, EditTypeOK, counters, Changes
<1>6. CASE LoadAll(p)
  <2>1. CASE End(p)
    BY <1>6, <2>1, EndTypes DEF LoadAll, EditTypeOK, counters, Changes
  <2>2. CASE /\ GoTo(p, "set")
             /\ declared' = [declared EXCEPT ![p] = file[cmd[p].job] = "on"]
             /\ UNCHANGED <<lock, cmd, doc>>
    BY <1>6, <2>2 DEF LoadAll, GoTo, EditTypeOK, FlowInv, counters, Changes
  <2> QED BY <1>6, <2>1, <2>2 DEF LoadAll
<1>7. CASE SetEnabled(p)
  <2>1. override' \in [Jobs -> Override \cup {Absent}]
    BY <1>7 DEF SetEnabled, EditTypeOK, Override
  <2> QED BY <1>7, <2>1, EndTypes DEF SetEnabled, EditTypeOK, counters, Changes
<1>8. CASE Fail(p)
  <2>1. faults' \in 0..MaxFaults
    BY <1>8, EditConstants DEF Fail, EditTypeOK
  <2> QED BY <1>8, <2>1, EndTypes DEF Fail, EditTypeOK, Changes
<1> QED BY <1>1, <1>2, <1>3, <1>4, <1>5, <1>6, <1>7, <1>8 DEF FlowStep

\* An editor leaves a jobs.yaml, and the flows alone.
LEMMA GivenType == GivenFiles \subseteq File
  BY DEF GivenFiles, File, Def

LEMMA HandEditTypes ==
  ASSUME TypeInv, HandEdit
  PROVE  EditTypeOK' /\ FlowInv'
<1>1. file' \in File
  <2>1. CASE file = Garbled
    BY <2>1, GivenType DEF HandEdit, Rewritten
  <2>2. CASE file # Garbled
    <3>1. file \in [Jobs -> Def \cup {Absent}]
      BY <2>2 DEF TypeInv, TypeOK, EditTypeOK, File
    <3>2. \A j \in Jobs, d \in Def \cup {Absent} : [file EXCEPT ![j] = d] \in File
      BY <3>1 DEF File
    <3> QED BY <2>2, <3>2 DEF HandEdit, Rewritten, File
  <2> QED BY <2>1, <2>2
<1>2. hands' \in Nat /\ Changes' <= MaxChanges
  BY EditConstants DEF TypeInv, TypeOK, EditTypeOK, HandEdit, Changes
<1> QED BY <1>1, <1>2 DEF TypeInv, TypeOK, EditTypeOK, FlowInv, HandEdit, flows

\* A command that the TUI begins.
LEMMA LaunchTypes ==
  ASSUME TypeInv, NEW c \in Command, NEW place \in {"lock", "set"}, NEW dec \in BOOLEAN,
         Launch(c, place, dec)
  PROVE  EditTypeOK' /\ FlowInv'
<1>1. PICK p \in Tui : Begin(p, c, place) /\ declared' = [declared EXCEPT ![p] = dec]
  BY DEF Launch
<1>2. p \in Flows /\ UNCHANGED <<files, doc, hands, faults>>
  BY DEF Flows, Launch
<1>3. declared' \in [Flows -> BOOLEAN]
  BY <1>1 DEF TypeInv, TypeOK, EditTypeOK
<1> QED BY <1>1, <1>2, <1>3, BeginTypes DEF TypeInv, TypeOK, EditTypeOK, files

\* What is on the screen stays of its type.
ScreenOK ==
  /\ snap \in Shown /\ OnList(cursor, snap)
  /\ selected \in Jobs \cup {Nobody} /\ modal \in Jobs \cup {Nobody}

LoadsOK ==
  /\ loads \subseteq [jobs : File] \cup [view : Shown]
  /\ IsFiniteSet(loads) /\ Cardinality(loads) <= MaxLoads

LEMMA TypeParts == TypeInv <=> EditTypeOK /\ FlowInv /\ ScreenOK /\ LoadsOK
  BY DEF TypeInv, TypeOK, ScreenOK, LoadsOK, OnList, Shown

LEMMA ShowsTypes ==
  ASSUME TypeInv, NEW row, NEW job \in Jobs \cup {Nobody}, NEW dialog \in Jobs \cup {Nobody},
         OnList(row, snap), Shows(row, job, dialog)
  PROVE  TypeInv'
<1>1. EditTypeOK' /\ FlowInv' /\ LoadsOK'
  BY TypeParts DEF Shows, editVars, files, flows, counters, EditTypeOK, Changes, FlowInv, LoadsOK
<1>2. ScreenOK'
  BY TypeParts DEF Shows, ScreenOK, OnList
<1> QED BY <1>1, <1>2, TypeParts, PTL

LEMMA ToggleTypes ==
  ASSUME TypeInv, NEW j, ToggleEnabled(j)
  PROVE  TypeInv'
<1>1. j \in Jobs /\ snap[j] \in Override
  BY DEF ToggleEnabled, Listed, TypeInv, TypeOK
<1>2. /\ [kind |-> IF snap[j].enabled THEN "pause" ELSE "resume", job |-> j] \in Command
      /\ snap[j].declared \in BOOLEAN
  BY <1>1 DEF Override, Command
<1>3. EditTypeOK' /\ FlowInv'
  BY <1>2, LaunchTypes DEF ToggleEnabled
<1>4. ScreenOK' /\ LoadsOK'
  BY TypeParts DEF ToggleEnabled, screen, ScreenOK, LoadsOK, OnList
<1> QED BY <1>3, <1>4, TypeParts, PTL

LEMMA InputTypes ==
  ASSUME TypeInv, Input
  PROVE  TypeInv'
<1>1. /\ OnList(cursor, snap) /\ selected \in Jobs \cup {Nobody}
      /\ CursorJob \in Jobs \cup {Nobody} /\ Target \in Jobs \cup {Nobody}
  BY CursorJobType DEF TypeInv, TypeOK, OnList, Target
<1>2. Nobody \in Jobs \cup {Nobody} /\ cursor \in Nat /\ cursor + 1 \in Nat
  BY <1>1 DEF OnList
<1>3. CASE Confirm
  <2>1. modal \in Jobs
    BY <1>3 DEF Confirm, TypeInv, TypeOK
  <2>2. [kind |-> "rm", job |-> modal] \in Command
    BY <2>1 DEF Command
  <2>3. EditTypeOK' /\ FlowInv'
    BY <1>3, <2>2, LaunchTypes DEF Confirm, Deletes
  <2>4. ScreenOK' /\ LoadsOK'
    BY <1>3, TypeParts DEF Confirm, ScreenOK, LoadsOK, OnList
  <2> QED BY <2>3, <2>4, TypeParts, PTL
<1>4. CASE Dismiss
  <2>1. EditTypeOK' /\ FlowInv' /\ LoadsOK'
    BY <1>4, TypeParts
    DEF Dismiss, editVars, files, flows, counters, EditTypeOK, Changes, FlowInv, LoadsOK
  <2>2. ScreenOK'
    BY <1>4, TypeParts DEF Dismiss, ScreenOK, OnList
  <2> QED BY <2>1, <2>2, TypeParts, PTL
<1>5. CASE ToggleKey \/ \E j \in Jobs : ClickToggle(j)
  BY <1>5, ToggleTypes DEF ToggleKey, ClickToggle
<1>6. CASE DeleteKey
  BY <1>1, <1>6, ShowsTypes DEF DeleteKey
<1>7. CASE OpenKey
  BY <1>1, <1>2, <1>7, ShowsTypes DEF OpenKey
<1>8. CASE BackKey
  BY <1>1, <1>2, <1>8, ShowsTypes DEF BackKey
<1>9. CASE DownKey
  BY <1>2, <1>9, ClampedOnList, ShowsTypes DEF DownKey
<1>10. CASE UpKey
  <2>1. OnList(cursor - 1, snap)
    BY <1>1, <1>10, ListedFinite DEF OnList, UpKey
  <2> QED BY <1>2, <1>10, <2>1, ShowsTypes DEF UpKey
<1>11. ASSUME NEW j \in Jobs, ClickRow(j)
       PROVE  TypeInv'
  <2> DEFINE row == IF j \in Listed(snap) THEN Row(snap, j) ELSE cursor
  <2>1. OnList(row, snap)
    BY <1>1, RowOnList, ListedFinite DEF OnList
  <2> HIDE DEF row
  <2>2. Shows(row, selected, Nobody) \/ Shows(row, j, Nobody)
    BY <1>11 DEF ClickRow, row
  <2> QED BY <1>1, <1>2, <2>1, <2>2, ShowsTypes
<1> QED BY <1>3, <1>4, <1>5, <1>6, <1>7, <1>8, <1>9, <1>10, <1>11 DEF Input

\* One element more, and one less.
LEMMA OneMore ==
  ASSUME NEW S, IsFiniteSet(S), NEW x
  PROVE  /\ IsFiniteSet(S \cup {x})
         /\ Cardinality(S \cup {x}) \in {Cardinality(S), Cardinality(S) + 1}
  BY FS_AddElement

LEMMA OneLess ==
  ASSUME NEW S, IsFiniteSet(S), NEW x \in S
  PROVE  /\ IsFiniteSet(S \ {x}) /\ Cardinality(S \ {x}) \in Nat
         /\ Cardinality(S \ {x}) = Cardinality(S) - 1
  BY FS_RemoveElement, FS_CardinalityType

\* Loads of a snapshot: one more, one that ends its reading, one that is delivered.
LEMMA LoadTypes ==
  ASSUME TypeInv,
         Refresh \/ \E r \in loads : ReadOverrides(r) \/ Deliver(r)
  PROVE  TypeInv'
<1>1. EditTypeOK' /\ FlowInv'
  BY TypeParts
  DEF Refresh, ReadOverrides, Deliver, editVars, files, flows, counters, EditTypeOK, Changes,
      FlowInv
<1>2. /\ loads \subseteq [jobs : File] \cup [view : Shown]
      /\ IsFiniteSet(loads) /\ Cardinality(loads) \in Nat /\ Cardinality(loads) <= MaxLoads
      /\ MaxLoads \in Nat
      /\ file \in File /\ override \in [Jobs -> Override \cup {Absent}]
  BY TypeParts, TuiConstants, FS_CardinalityType DEF LoadsOK, EditTypeOK
<1>3. CASE Refresh
  <2>1. Loaded(file) \in [jobs : File] \cup [view : Shown]
    BY <1>2 DEF Loaded, Nothing, Shown
  <2>2. LoadsOK'
    <3>1. /\ IsFiniteSet(loads \cup {Loaded(file)})
          /\ Cardinality(loads \cup {Loaded(file)}) \in {Cardinality(loads), Cardinality(loads) + 1}
      BY <1>2, OneMore
    <3>2. Cardinality(loads) < MaxLoads /\ loads' = loads \cup {Loaded(file)}
      BY <1>3 DEF Refresh, BeginLoad
    <3> QED BY <1>2, <2>1, <3>1, <3>2 DEF LoadsOK
  <2>3. ScreenOK'
    BY <1>3, TypeParts DEF Refresh, screen, ScreenOK, OnList
  <2> QED BY <1>1, <2>2, <2>3, TypeParts, PTL
<1>4. ASSUME NEW r \in loads
      PROVE  /\ loads \ {r} \subseteq [jobs : File] \cup [view : Shown]
             /\ IsFiniteSet(loads \ {r}) /\ Cardinality(loads \ {r}) \in Nat
             /\ Cardinality(loads \ {r}) + 1 <= MaxLoads
  <2>1. /\ IsFiniteSet(loads \ {r}) /\ Cardinality(loads \ {r}) \in Nat
        /\ Cardinality(loads \ {r}) = Cardinality(loads) - 1
    BY <1>2, OneLess
  <2> QED BY <1>2, <2>1
<1>5. ASSUME NEW r \in loads, ReadOverrides(r)
      PROVE  TypeInv'
  <2>1. r \in [jobs : File]
    BY <1>2, <1>5 DEF ReadOverrides, EndLoad
  <2> DEFINE ready == [view |-> View(r.jobs, override)]
             rest == loads \ {r}
  <2>2. ready \in [view : Shown]
    BY <1>2, <2>1, ViewType
  <2>3. loads' = rest \cup {ready}
    BY <1>5 DEF ReadOverrides, EndLoad
  <2> HIDE DEF ready, rest
  <2>4. /\ rest \subseteq [jobs : File] \cup [view : Shown]
        /\ IsFiniteSet(rest) /\ Cardinality(rest) \in Nat /\ Cardinality(rest) + 1 <= MaxLoads
    BY <1>4 DEF rest
  <2>5. /\ IsFiniteSet(rest \cup {ready})
        /\ Cardinality(rest \cup {ready}) \in {Cardinality(rest), Cardinality(rest) + 1}
    BY <2>4, OneMore
  <2>6. LoadsOK'
    BY <1>2, <2>2, <2>3, <2>4, <2>5 DEF LoadsOK
  <2>7. ScreenOK'
    BY <1>5, TypeParts DEF ReadOverrides, screen, ScreenOK, OnList
  <2> QED BY <1>1, <2>6, <2>7, TypeParts, PTL
<1>6. ASSUME NEW r \in loads, Deliver(r)
      PROVE  TypeInv'
  <2>1. r \in [view : Shown]
    BY <1>2, <1>6 DEF Deliver, HandOver
  <2>2. r.view \in Shown /\ cursor \in Nat
    BY <2>1, TypeParts DEF ScreenOK, OnList
  <2>3. OnList(Clamped(cursor, r.view), r.view)
    BY <2>2, ClampedOnList
  <2>4. ScreenOK'
    BY <1>6, <2>2, <2>3, TypeParts DEF Deliver, ScreenOK, OnList
  <2>5. loads' = loads \ {r}
    BY <1>6 DEF Deliver, HandOver
  <2> DEFINE rest == loads \ {r}
  <2> HIDE DEF rest
  <2>6. LoadsOK'
    <3>1. /\ rest \subseteq [jobs : File] \cup [view : Shown]
          /\ IsFiniteSet(rest) /\ Cardinality(rest) \in Nat /\ Cardinality(rest) + 1 <= MaxLoads
      BY <1>4 DEF rest
    <3>2. loads' = rest
      BY <2>5 DEF rest
    <3> QED BY <1>2, <3>1, <3>2 DEF LoadsOK
  <2> QED BY <1>1, <2>4, <2>6, TypeParts, PTL
<1> QED BY <1>3, <1>5, <1>6

LEMMA TypeStep == TypeInv /\ [Next]_vars => TypeInv'
<1> SUFFICES ASSUME TypeInv, [Next]_vars PROVE TypeInv'
  OBVIOUS
<1>1. ASSUME UNCHANGED tuiVars, EditTypeOK', FlowInv'
      PROVE  TypeInv'
  <2>1. ScreenOK' /\ LoadsOK'
    BY <1>1, TypeParts DEF tuiVars, screen, ScreenOK, LoadsOK, OnList
  <2> QED BY <1>1, <2>1, TypeParts, PTL
<1>2. CASE HandEdit /\ UNCHANGED tuiVars
  BY <1>1, <1>2, HandEditTypes
<1>3. CASE (\E p \in Flows : FlowStep(p)) /\ UNCHANGED tuiVars
  BY <1>1, <1>3, FlowStepTypes
<1>4. CASE UNCHANGED vars
  <2>1. EditTypeOK' /\ FlowInv'
    BY <1>4, TypeParts
    DEF vars, editVars, files, flows, counters, EditTypeOK, Changes, FlowInv
  <2> QED BY <1>1, <1>4, <2>1 DEF vars
<1> QED BY <1>2, <1>3, <1>4, LoadTypes, InputTypes DEF Next, EditNext

\* Every variable has its type, the cursor is on a row whenever the list has one, and so there is
\* a job under it, whatever the snapshots bring and in whatever order they arrive.
THEOREM TuiTypeCorrect == Spec => []TypeOK
<1>1. Init => TypeInv
  <2> SUFFICES ASSUME Init PROVE TypeInv
    OBVIOUS
  <2>1. file \in File /\ override \in [Jobs -> Override \cup {Absent}]
    BY GivenType DEF Init, EditInit
  <2>2. EditTypeOK /\ FlowInv
    BY <2>1, EditConstants DEF Init, EditInit, EditTypeOK, FlowInv, Changes, File
  <2>3. ScreenOK
    BY <2>1, ViewType, ListedFinite DEF Init, ScreenOK, OnList
  <2>4. LoadsOK
    BY TuiConstants, FS_EmptySet DEF Init, LoadsOK
  <2> QED BY <2>2, <2>3, <2>4, TypeParts
<1>2. TypeInv => TypeOK
  BY DEF TypeInv
<1> QED BY <1>1, <1>2, TypeStep, PTL DEF Spec
=============================================================================
