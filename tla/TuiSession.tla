----------------------------- MODULE TuiSession ------------------------------
(***************************************************************************)
(* The TUI (internal/tui/tui.go, view.go, data.go, list.go) beside the     *)
(* commands that edit the same files: ConfigEdit, with the goroutines of   *)
(* the TUI's own commands among its flows.                                 *)
(*                                                                         *)
(* What is on the screen is a snapshot of the files.  Snapshots are loaded *)
(* by goroutines and delivered in any order, and another may be between a  *)
(* click and its turn in the event loop.  A click that does what a key     *)
(* does, on the dialog or on a button of the detail screen, is that key.   *)
(***************************************************************************)
EXTENDS ConfigEdit

CONSTANTS
  MaxLoads,  \* bound: loads of a snapshot under way
  Nobody     \* no job

ASSUME TuiConstants == Nobody \notin Jobs \cup Command /\ MaxLoads \in Nat \ {0}

VARIABLES
  snap,      \* what is shown of each job: whether it is enabled, and jobs.yaml's word for it
  cursor,    \* the row of the job list that the cursor is on, from 0
  selected,  \* the job of the detail screen, Nobody on the list
  modal,     \* the job the dialog asks about, Nobody without one
  loads      \* the loads under way, by what each has: jobs.yaml, or all it shows

screen == <<snap, cursor, selected, modal>>
tuiVars == <<screen, loads>>
vars == <<editVars, tuiVars>>

Nothing == [j \in Jobs |-> Absent]

\* tui.Load, once it has the two files; of a broken jobs.yaml it shows no job.
View(f, ov) ==
  IF ~Sound(f) THEN Nothing
  ELSE [j \in Jobs |->
         IF f[j] = Absent THEN Absent
         ELSE LET dec == f[j] = "on"
              IN [enabled |-> EffectiveEnabled(dec, ov[j]), declared |-> dec]]

\* The list is sorted by id.
Listed(s) == {j \in Jobs : s[j] # Absent}
Row(s, j) == Cardinality({i \in Listed(s) : i < j})

\* Mutant of Clamped: the cursor stays where it was.
Unclamped(n, s) == n

Clamped(n, s) ==
  IF n < Cardinality(Listed(s)) THEN n
  ELSE IF Listed(s) = {} THEN 0 ELSE Cardinality(Listed(s)) - 1

CursorJob == IF Listed(snap) = {} THEN Nobody
             ELSE CHOOSE j \in Listed(snap) : Row(snap, j) = cursor

\* The job that a key acts on.
Target == IF selected # Nobody THEN selected ELSE CursorJob

-----------------------------------------------------------------------------
(***************************************************************************)
(* Snapshots.  Loads take no lock and read one file after the other.  Two  *)
(* that have the same are one.                                             *)
(***************************************************************************)
Loaded(f) == IF Sound(f) THEN [jobs |-> f] ELSE [view |-> Nothing]

\* Mutant of BeginLoad: the screen behind a dialog is left alone.
BeginUndisturbed ==
  /\ modal = Nobody /\ Cardinality(loads) < MaxLoads
  /\ loads' = loads \cup {Loaded(file)}

BeginLoad ==
  /\ Cardinality(loads) < MaxLoads
  /\ loads' = loads \cup {Loaded(file)}

EndLoad(r) ==
  /\ DOMAIN r = {"jobs"}
  /\ loads' = (loads \ {r}) \cup {[view |-> View(r.jobs, override)]}

HandOver(r) ==
  /\ DOMAIN r = {"view"}
  /\ loads' = loads \ {r}

\* The clock, when the snapshot is two seconds old, the reload key, a command that reports back.
Refresh ==
  /\ BeginLoad
  /\ UNCHANGED <<editVars, screen>>

ReadOverrides(r) ==
  /\ EndLoad(r)
  /\ UNCHANGED <<editVars, screen>>

\* The newest to arrive is shown, whether or not it is the newest; the cursor keeps its row.
Deliver(r) ==
  /\ HandOver(r)
  /\ snap' = r.view
  /\ cursor' = Clamped(cursor, r.view)
  /\ UNCHANGED <<editVars, selected, modal>>

-----------------------------------------------------------------------------
(***************************************************************************)
(* Input.                                                                  *)
(***************************************************************************)
\* A goroutine of the TUI begins a command of ConfigEdit.
Launch(c, place, dec) ==
  /\ \E p \in Tui : /\ Begin(p, c, place)
                    /\ declared' = [declared EXCEPT ![p] = dec]
  /\ UNCHANGED <<files, doc, hands, faults>>

\* What is written to overrides.json comes from the snapshot.
ToggleEnabled(j) ==
  /\ j \in Listed(snap)
  /\ Launch([kind |-> IF snap[j].enabled THEN "pause" ELSE "resume", job |-> j],
            "set", snap[j].declared)
  /\ UNCHANGED <<screen, loads>>

\* Mutant of Deletes: the dialog's action looks at the cursor when it is confirmed.
DeletesAtCursor == IF Target = Nobody THEN modal ELSE Target

\* The job the dialog named when it was opened.
Deletes == modal

\* Keys that have nothing to act on, and all others while there is a dialog, are ignored.
Confirm ==
  /\ modal # Nobody /\ modal' = Nobody
  /\ Launch([kind |-> "rm", job |-> Deletes], "lock", FALSE)
  /\ UNCHANGED <<snap, cursor, selected, loads>>

Dismiss ==
  /\ modal # Nobody /\ modal' = Nobody
  /\ UNCHANGED <<editVars, snap, cursor, selected, loads>>

Shows(row, job, dialog) ==
  /\ modal = Nobody
  /\ cursor' = row /\ selected' = job /\ modal' = dialog
  /\ UNCHANGED <<editVars, snap, loads>>

ToggleKey == modal = Nobody /\ ToggleEnabled(Target)
DeleteKey == Target # Nobody /\ Shows(cursor, selected, Target)
OpenKey == selected = Nobody /\ Shows(cursor, CursorJob, Nobody)
BackKey == selected # Nobody /\ Shows(cursor, Nobody, Nobody)
DownKey == selected = Nobody /\ Shows(Clamped(cursor + 1, snap), Nobody, Nobody)
UpKey == selected = Nobody /\ cursor > 0 /\ Shows(cursor - 1, Nobody, Nobody)

\* The hit test has turned the place of a click into the id of the job drawn there, which may
\* have left the screen, and the list the screen, by now.
ClickToggle(j) == modal = Nobody /\ ToggleEnabled(j)

\* A click on a row moves the cursor to its job, a second one opens it.
ClickRow(j) ==
  LET row == IF j \in Listed(snap) THEN Row(snap, j) ELSE cursor
  IN Shows(row, selected, Nobody) \/ Shows(row, j, Nobody)

Input ==
  \/ Confirm \/ Dismiss
  \/ ToggleKey \/ DeleteKey \/ OpenKey \/ BackKey \/ DownKey \/ UpKey
  \/ \E j \in Jobs : ClickToggle(j) \/ ClickRow(j)

-----------------------------------------------------------------------------
Init ==
  /\ EditInit
  /\ snap = View(file, override)
  /\ cursor = 0 /\ selected = Nobody /\ modal = Nobody
  /\ loads = {}

Next ==
  \/ EditNext /\ UNCHANGED tuiVars
  \/ Refresh
  \/ \E r \in loads : ReadOverrides(r) \/ Deliver(r)
  \/ Input

Spec == Init /\ [][Next]_vars

\* The clock ticks, reads of files end, messages are delivered.  Nobody has to press a key.
FairSpec ==
  /\ Spec
  /\ WF_loads(BeginLoad)
  /\ WF_loads(\E r \in loads : EndLoad(r)) /\ WF_loads(\E r \in loads : HandOver(r))

-----------------------------------------------------------------------------
(***************************************************************************)
(* Properties; EditsSerialised and InvalidIsByHand are ConfigEdit's.       *)
(***************************************************************************)
\* Every variable has its type, and the cursor is on a row whenever there is one.
TypeOK ==
  /\ EditTypeOK
  /\ snap \in [Jobs -> Override \cup {Absent}]
  /\ cursor \in Nat /\ (Listed(snap) = {} \/ cursor < Cardinality(Listed(snap)))
  /\ selected \in Jobs \cup {Nobody} /\ modal \in Jobs \cup {Nobody}
  /\ loads \subseteq [jobs : File] \cup [view : [Jobs -> Override \cup {Absent}]]
  /\ Cardinality(loads) <= MaxLoads

\* A dialog that is confirmed removes the job it has named since it was opened, whatever jobs
\* come, go or change places on the screen behind it (openDeleteModal, deleteJob).
DeletesNamed ==
  [][\A p \in Tui : pc[p] = "idle" /\ pc'[p] = "lock" => cmd'[p].job = modal]_vars

\* When the files stop changing, the screen comes to show them, and goes on to, though loads
\* read one file after the other and may be delivered in the wrong order (clockMsg).
ShowsFiles == <>[](snap = View(file, override))

-----------------------------------------------------------------------------
(***************************************************************************)
(* What comments and documents say and the code does not do (README).      *)
(***************************************************************************)
\* docs/spec/04-storage.md:113, "the file may have been edited by hand or by git between
\* commands", for which Apply reads it again; between its read and its rename it may be, too.
HandEditsKept == [][\A p \in Flows : Replaces(p) => doc[p] = file]_vars

\* docs/spec/03-job-model.md:485, "a job that has never run has no state worth overriding".  A
\* pause whose job is removed meanwhile leaves an override, and the next job of that id is
\* paused from the start.
OverridesBelong ==
  (\A p \in Flows : pc[p] = "idle") /\ file # Garbled /\ hands = 0 /\ faults = 0
    => \A j \in Jobs : file[j] = Absent => override[j] = Absent

\* docs/spec/06-tui.md:592, the list "MUST still render from the last parseable `jobs.yaml`".
\* Load of an invalid file has no jobs.
ListKept == [][~Sound(file) => Listed(snap) \subseteq Listed(snap')]_vars
=============================================================================
