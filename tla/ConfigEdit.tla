----------------------------- MODULE ConfigEdit ------------------------------
(***************************************************************************)
(* Commands that edit jobs.yaml and overrides.json: config.Apply           *)
(* (internal/config/edit.go), job add, update, rm, pause and resume        *)
(* (internal/cli/job.go), SetEnabled and ForgetJob                         *)
(* (internal/store/overrides.go).                                          *)
(*                                                                         *)
(* Apply reads, edits, validates and renames under a lock that humans,     *)
(* editors and git do not take.  The override of a job is in another file  *)
(* under another lock.                                                     *)
(***************************************************************************)
EXTENDS Naturals, FiniteSets

CONSTANTS
  Jobs,         \* job ids, numbered in their sort order
  Cli,          \* processes of CLI commands
  Tui,          \* goroutines of the TUI's commands
  Absent,       \* no entry
  Garbled,      \* a jobs.yaml that is not YAML
  Given,        \* bound: the sets of jobs that jobs.yaml may have when it is written anew
  Free,         \* nobody holds the lock
  MaxChanges,   \* bound: commands, and changes of jobs.yaml by hand, by an editor or by git
  MaxFaults     \* bound: writes that fail, CLI processes that die

Flows == Cli \cup Tui

\* A definition validates and says that the job is enabled or is not, or it does not validate.
Def == {"on", "off", "bad"}
File == [Jobs -> Def \cup {Absent}] \cup {Garbled}
Override == [enabled : BOOLEAN, declared : BOOLEAN]

\* The flags of add and update: --paused, ones that do not validate, any others.
Edits == {"paused", "bad", "plain"}
Command == [kind : {"add", "update"}, job : Jobs, edit : Edits]
           \cup [kind : {"rm", "pause", "resume"}, job : Jobs]

ASSUME EditConstants ==
  /\ Jobs \subseteq Nat /\ IsFiniteSet(Jobs)
  /\ Cli \cap Tui = {} /\ Free \notin Flows
  /\ Given \subseteq SUBSET Jobs
  /\ Absent \notin Def \cup Override \cup Command /\ Garbled \notin [Jobs -> Def \cup {Absent}]
  /\ MaxChanges \in Nat /\ MaxFaults \in Nat

VARIABLES
  file,      \* jobs.yaml; a missing file is one without jobs
  override,  \* overrides.json, per job
  lock,      \* who holds jobs.yaml.lock
  pc,        \* where each flow is
  cmd,       \* its command
  doc,       \* the jobs.yaml it read
  declared,  \* what it takes jobs.yaml to say of enabled
  commands, hands, faults

files == <<file, override, lock>>
flows == <<pc, cmd, doc, declared>>
counters == <<commands, hands, faults>>

Changes == commands + hands

Sound(f) == f # Garbled /\ \A j \in Jobs : f[j] # "bad"

\* An override made for another declared value does not count.
EffectiveEnabled(dec, ov) == IF ov # Absent /\ ov.declared = dec THEN ov.enabled ELSE dec

GoTo(p, place) == pc' = [pc EXCEPT ![p] = place]
Unlock(p) == lock' = IF lock = p THEN Free ELSE lock

\* The call of Apply returns, or its process dies: the lock is given back.
Drop(p) == Unlock(p) /\ doc' = [doc EXCEPT ![p] = Garbled]

\* The command is over.
End(p) ==
  /\ GoTo(p, "idle")
  /\ cmd' = [cmd EXCEPT ![p] = Absent] /\ declared' = [declared EXCEPT ![p] = FALSE]
  /\ Drop(p)

-----------------------------------------------------------------------------
(***************************************************************************)
(* The edits of a document (AddJob, UpdateJob, RemoveJob, applyEdit).      *)
(***************************************************************************)
Refuses(f, c) == IF c.kind = "add" THEN f[c.job] # Absent ELSE f[c.job] = Absent

\* No flag says enabled: true; a job that is added is, without --paused.
Edited(d, edit) ==
  IF edit = "bad" THEN "bad" ELSE IF edit = "paused" \/ d = "off" THEN "off" ELSE "on"

Mutated(f, c) ==
  [f EXCEPT ![c.job] = IF c.kind = "rm" THEN Absent ELSE Edited(@, c.edit)]

-----------------------------------------------------------------------------
(***************************************************************************)
(* config.Apply.                                                           *)
(***************************************************************************)
\* Mutant of TakeLock: the lock is taken, and not waited for.
TryLock(p) ==
  /\ pc[p] = "lock"
  /\ lock' = IF lock = Free THEN p ELSE lock
  /\ GoTo(p, "read")
  /\ UNCHANGED <<file, override, cmd, doc, declared, counters>>

TakeLock(p) ==
  /\ pc[p] = "lock" /\ lock = Free
  /\ lock' = p
  /\ GoTo(p, "read")
  /\ UNCHANGED <<file, override, cmd, doc, declared, counters>>

\* A file that is not YAML, a job that exists or does not: nothing is written.
ReadDoc(p) ==
  /\ pc[p] = "read"
  /\ IF file = Garbled \/ Refuses(file, cmd[p]) THEN End(p)
     ELSE /\ GoTo(p, "rename") /\ doc' = [doc EXCEPT ![p] = file]
          /\ UNCHANGED <<lock, cmd, declared>>
  /\ UNCHANGED <<file, override, counters>>

\* Mutant of Acceptable: the job that was edited is validated, and not the file.
EditAcceptable(f, j) == f[j] # "bad"

\* What would be written is what is checked, all of it.
Acceptable(f, j) == Sound(f)

Rename(p) ==
  LET next == Mutated(doc[p], cmd[p])
      valid == Acceptable(next, cmd[p].job)
  IN /\ pc[p] = "rename"
     /\ IF valid /\ cmd[p].kind = "rm"
        THEN GoTo(p, "forget") /\ Drop(p) /\ UNCHANGED <<cmd, declared>>
        ELSE End(p)
     /\ file' = IF valid THEN next ELSE file
     /\ UNCHANGED <<override, counters>>

-----------------------------------------------------------------------------
(***************************************************************************)
(* overrides.json: read, changed and renamed under overrides.lock, which   *)
(* every writer takes, so in one step.                                     *)
(***************************************************************************)
\* job rm, without --purge.
ForgetJob(p) ==
  /\ pc[p] = "forget"
  /\ override' = [override EXCEPT ![cmd[p].job] = Absent]
  /\ End(p)
  /\ UNCHANGED <<file, counters>>

\* job pause and job resume read jobs.yaml, the whole of which has to be valid.
LoadAll(p) ==
  /\ pc[p] = "load"
  /\ IF ~Sound(file) \/ file[cmd[p].job] = Absent THEN End(p)
     ELSE /\ GoTo(p, "set")
          /\ declared' = [declared EXCEPT ![p] = file[cmd[p].job] = "on"]
          /\ UNCHANGED <<lock, cmd, doc>>
  /\ UNCHANGED <<file, override, counters>>

SetEnabled(p) ==
  LET want == cmd[p].kind = "resume"
  IN /\ pc[p] = "set"
     /\ override' = [override EXCEPT ![cmd[p].job] =
                       IF want = declared[p] THEN Absent
                       ELSE [enabled |-> want, declared |-> declared[p]]]
     /\ End(p)
     /\ UNCHANGED <<file, counters>>

-----------------------------------------------------------------------------
(***************************************************************************)
(* Users, editors, faults.                                                 *)
(***************************************************************************)
Begin(p, c, place) ==
  /\ pc[p] = "idle" /\ Changes < MaxChanges
  /\ commands' = commands + 1
  /\ cmd' = [cmd EXCEPT ![p] = c]
  /\ GoTo(p, place)

Call(p) ==
  /\ p \in Cli
  /\ \E c \in Command : Begin(p, c, IF c.kind \in {"pause", "resume"} THEN "load" ELSE "lock")
  /\ UNCHANGED <<files, doc, declared, hands, faults>>

\* The files that jobs.yaml may be at first, and may be mended to.
GivenFiles == {[j \in Jobs |-> IF j \in js THEN "on" ELSE Absent] : js \in Given}

\* One entry of the file written, removed or spoilt, or all of it spoilt or mended.
Rewritten(old) ==
  IF old = Garbled THEN GivenFiles
  ELSE {Garbled} \cup UNION {{[old EXCEPT ![j] = d] : d \in Def \cup {Absent}} : j \in Jobs}

\* An editor's save, or git.
HandEdit ==
  /\ Changes < MaxChanges /\ hands' = hands + 1
  /\ UNCHANGED flows
  /\ file' \in Rewritten(file) \ {file}
  /\ UNCHANGED <<override, lock, commands, faults>>

\* A write fails (rm may have removed the job already), or the process of a CLI command dies.
Fail(p) ==
  /\ pc[p] \in {"rename", "forget", "set"} \/ (p \in Cli /\ pc[p] # "idle")
  /\ faults < MaxFaults /\ faults' = faults + 1
  /\ End(p)
  /\ UNCHANGED <<file, override, commands, hands>>

EditInit ==
  /\ file \in GivenFiles
  /\ override = [j \in Jobs |-> Absent]
  /\ lock = Free /\ pc = [p \in Flows |-> "idle"]
  /\ cmd = [p \in Flows |-> Absent] /\ doc = [p \in Flows |-> Garbled]
  /\ declared = [p \in Flows |-> FALSE]
  /\ commands = 0 /\ hands = 0 /\ faults = 0

FlowStep(p) ==
  \/ Call(p) \/ TakeLock(p) \/ ReadDoc(p) \/ Rename(p) \/ ForgetJob(p)
  \/ LoadAll(p) \/ SetEnabled(p) \/ Fail(p)

EditNext == HandEdit \/ \E p \in Flows : FlowStep(p)

editVars == <<files, flows, counters>>

-----------------------------------------------------------------------------
(***************************************************************************)
(* Properties.                                                             *)
(***************************************************************************)
\* Every variable has its type.
EditTypeOK ==
  /\ file \in File
  /\ override \in [Jobs -> Override \cup {Absent}]
  /\ lock \in Flows \cup {Free}
  /\ pc \in [Flows -> {"idle", "lock", "read", "rename", "forget", "load", "set"}]
  /\ cmd \in [Flows -> Command \cup {Absent}] /\ doc \in [Flows -> File]
  /\ declared \in [Flows -> BOOLEAN]
  /\ commands \in Nat /\ hands \in Nat /\ Changes <= MaxChanges /\ faults \in 0..MaxFaults

Replaces(p) == pc[p] = "rename" /\ pc'[p] # "rename" /\ file' # file

\* No command overwrites what another command has written since it read jobs.yaml, whether both
\* come from the shell or one from the TUI, and whatever dies in between (Apply).
EditsSerialised == [][hands = 0 => \A p \in Flows : Replaces(p) => doc[p] = file]_editVars

\* A jobs.yaml that does not validate was written by hand: a command checks the whole of what it
\* would write, and so neither writes a bad definition nor writes around one (Apply).
InvalidIsByHand == [][file' # file /\ ~Sound(file') => hands' # hands]_editVars
=============================================================================
