-------------------------------- MODULE Service --------------------------------
(***************************************************************************)
(* herdr-cron service install and uninstall (internal/cli/service.go) over *)
(* the backends of internal/service: systemd, launchd and schtasks.        *)
(*                                                                         *)
(* A command is a sequence of file writes, removals and calls of the OS    *)
(* scheduler.  Each is a step, at each of which the command may be killed, *)
(* and most of which may fail without the command failing.  Registering    *)
(* and removing are known by a fence in the file: begin and end markers.   *)
(***************************************************************************)
EXTENDS Calendar, FiniteSets

CONSTANTS
  Jobs,       \* job ids
  Daemon,     \* what --driver daemon registers
  Backends,   \* the operating systems: "systemd", "launchd", "schtasks"
  Fields,     \* the schedules of jobs: day-of-week fields
  Off,        \* of a job that is disabled, paused or not in jobs.yaml
  None,       \* no file, nothing registered
  Foreign,    \* a file, or a unit, that herdr-cron did not write
  Torn,       \* a file that a write has truncated and not filled
  Program,    \* the text of a file that says what to run
  MaxCalls, MaxEdits, MaxFaults   \* bounds: commands, edits of jobs.yaml, failures and kills

Units == Jobs \cup {Daemon}

ASSUME ServiceAssumption ==
  /\ Daemon \notin Jobs
  /\ \A f \in Fields : f \in Seq(Item) /\ Valid(f)
  /\ Backends \subseteq {"systemd", "launchd", "schtasks"}

\* No text of a file is one of these.
ASSUME MarkAssumption ==
  /\ Foreign # None /\ Torn # None /\ Program \notin {None, Foreign, Torn, Off, Untranslatable}
  /\ \A days \in SUBSET Days : days \notin {None, Foreign, Torn}

VARIABLES
  backend,    \* the backend of this machine
  want,       \* the schedule of each job that is to fire, Off for the others
  file,       \* per unit: its .service file or plist, and its .timer file
  known,      \* the text of the timer, task or agent that the OS scheduler has loaded
  armed,      \* the units that it starts
  call,       \* the command that is running, or the last one
  slipped,    \* history variable: units that could not be stopped when they should have been
  calls, edits, faults

vars == <<backend, want, file, known, armed, call, slipped, calls, edits, faults>>
os == <<known, armed>>
counters == <<calls, edits, faults>>

\* A file with both markers.
Owned(text) == text \notin {None, Foreign, Torn}

\* The file by which a unit is armed.  A task of schtasks has none.
Kind(u) == IF backend = "systemd" /\ u # Daemon THEN "timer" ELSE "service"
Armer(u) == file[u][Kind(u)]

\* The job's schedule as asked for, Program for the daemon, which is always on.
Asked(u) == IF u = Daemon THEN Program ELSE want[u]

NoCall == [op |-> "none", driver |-> "daemon", phase |-> "idle", asked |-> [u \in Units |-> Off],
           todo |-> {}, unit |-> Daemon, steps |-> <<>>, text |-> Program,
           placed |-> {}, clean |-> TRUE]

-----------------------------------------------------------------------------
(***************************************************************************)
(* The course of a command: its phases, the units of each phase, and the   *)
(* steps for a unit.                                                       *)
(***************************************************************************)
\* Mutant of LoadSteps: an agent is loaded over the one that is loaded.
LoadOver == <<"translate", "write-service", "enable">>

\* launchd's write: the agent is unloaded before it is loaded.
LoadSteps == <<"translate", "write-service", "disable", "enable">>

\* Mutant of SweepSteps: the sweep removes a timer without stopping it.
FilesOnly == <<"remove-timer">>

SweepSteps == <<"disable", "remove-timer">>

InstallSteps(u) ==
  CASE backend = "systemd" /\ u = Daemon -> <<"write-service">>
    [] backend = "systemd" /\ u # Daemon -> <<"translate", "write-service", "write-timer">>
    [] backend = "launchd" -> LoadSteps
    [] backend = "schtasks" -> <<"translate", "create">>

UninstallSteps(u) ==
  CASE backend = "systemd" /\ u # Daemon -> <<"disable", "remove-timer", "remove-service">>
    [] backend = "launchd" \/ (backend = "systemd" /\ u = Daemon) ->
         <<"disable", "remove-service">>
    [] backend = "schtasks" -> <<"delete">>

Steps(op, phase, u) ==
  CASE phase = "units" -> IF op = "install" THEN InstallSteps(u) ELSE UninstallSteps(u)
    [] phase = "timers" -> SweepSteps
    [] phase = "services" -> <<"remove-service">>
    [] phase = "enable" -> <<"enable">>

\* Mutant of AfterPhase: uninstall does not sweep.
NoSweep(op, phase) ==
  CASE phase = "units" /\ backend = "systemd" -> "reload"
    [] phase = "reload" /\ op = "install" -> "enable"
    [] OTHER -> "idle"

\* The phases of systemd's backend: its daemon-reload comes after the files are written, and
\* after they are removed.  The others have one.
AfterPhase(op, phase) ==
  CASE phase = "units" /\ backend = "systemd" -> IF op = "install" THEN "reload" ELSE "timers"
    [] phase = "timers" -> "services"
    [] phase = "services" -> "reload"
    [] phase = "reload" /\ op = "install" -> "enable"
    [] OTHER -> "idle"

\* What sweep's Glob finds.  herdr-cron.service does not match herdr-cron-*.
Globbed(kind) == {j \in Jobs : file[j][kind] # None}

UnitsOf(phase) ==
  CASE phase = "timers" -> Globbed("timer")
    [] phase = "services" -> Globbed("service")
    [] phase = "enable" -> call.placed
    [] OTHER -> {}

Running == call.phase # "idle"

\* serviceRequest: every enabled job for os-scheduler, none of them for daemon.
Requested(driver) == IF driver = "daemon" THEN {Daemon} ELSE {j \in Jobs : want[j] # Off}

Begin(op, driver) ==
  /\ ~Running /\ calls < MaxCalls
  /\ calls' = calls + 1
  /\ call' = [NoCall EXCEPT !.op = op, !.driver = driver, !.phase = "units",
                            !.todo = Requested(driver),
                            !.asked = [u \in Units |-> IF u \in Requested(driver) THEN Asked(u)
                                                       ELSE Off]]
  /\ UNCHANGED <<backend, want, file, os, slipped, edits, faults>>

\* On to the next unit of the phase, or to the next phase, or the command is over.
Proceed ==
  LET next == AfterPhase(call.op, call.phase)
  IN /\ Running /\ call.steps = <<>> /\ call.phase # "reload"
     /\ \/ \E u \in call.todo :
             call' = [call EXCEPT !.todo = @ \ {u}, !.unit = u,
                                  !.steps = Steps(call.op, call.phase, u)]
        \/ /\ call.todo = {}
           /\ call' = [call EXCEPT !.phase = next, !.todo = UnitsOf(next)]
     /\ UNCHANGED <<backend, want, file, os, slipped, counters>>

Writing(kind) == IF kind = "timer" THEN "write-timer" ELSE "write-service"
Removing(kind) == IF kind = "timer" THEN "remove-timer" ELSE "remove-service"

AtStep(name) == Running /\ call.steps # <<>> /\ Head(call.steps) = name
Done == [call EXCEPT !.steps = Tail(@)]
Unclean(c) == [c EXCEPT !.clean = FALSE]

-----------------------------------------------------------------------------
(***************************************************************************)
(* The steps for a unit.                                                   *)
(***************************************************************************)
\* The translations that may come out: systemd-analyze may be there or not, on any day.
Translations(f) ==
  {Translation(backend, f)}
  \cup IF backend = "systemd" /\ \E today \in Days : ~VerifierAgrees(f, today)
       THEN {Untranslatable} ELSE {}

\* A schedule that is refused becomes an entry with an error, and the next job's turn comes.
Translate ==
  /\ AtStep("translate")
  /\ \E text \in IF call.unit = Daemon THEN {Program} ELSE Translations(call.asked[call.unit]) :
       call' = IF text = Untranslatable THEN [call EXCEPT !.steps = <<>>]
               ELSE [Done EXCEPT !.text = text]
  /\ UNCHANGED <<backend, want, file, os, slipped, counters>>

Content(kind) == IF kind = Kind(call.unit) THEN call.text ELSE Program

\* The unit is registered as far as files go; install names it "ok".
Placed(c, kind) ==
  IF kind = Kind(c.unit) THEN [c EXCEPT !.placed = @ \cup {c.unit}] ELSE c

\* Mutant of Writable: any file is overwritten.
AlwaysWritable(text) == TRUE

\* writeFenced refuses a file without both markers: a foreign one, and one torn by a kill.
Writable(text) == text = None \/ Owned(text)

WriteFenced(kind) ==
  LET u == call.unit
  IN /\ AtStep(Writing(kind))
     /\ IF Writable(file[u][kind])
        THEN file' = [file EXCEPT ![u][kind] = Content(kind)] /\ call' = Placed(Done, kind)
        ELSE UNCHANGED file /\ call' = Unclean([call EXCEPT !.phase = "idle", !.steps = <<>>])
     /\ UNCHANGED <<backend, want, os, slipped, counters>>

\* removeFenced leaves what herdr-cron does not own.
Removable(text) == Owned(text)

RemoveFenced(kind) ==
  LET u == call.unit
  IN /\ AtStep(Removing(kind))
     /\ file' = [file EXCEPT ![u][kind] = IF Removable(@) THEN None ELSE @]
     /\ call' = Done
     /\ UNCHANGED <<backend, want, os, slipped, counters>>

\* What systemd knows once it has read every file again.  What runs from a file that is gone, or
\* empty, goes on.
Reread ==
  [u \in Units |-> IF Armer(u) \notin {None, Torn} THEN Armer(u)
                   ELSE IF u \in armed THEN known[u] ELSE None]

\* systemctl enable --now, which reads the files, and launchctl load.  Both need the file;
\* launchctl refuses an agent that is loaded.
Enable ==
  LET u == call.unit
      loads == Armer(u) \notin {None, Torn} /\ (backend = "systemd" \/ u \notin armed)
  IN /\ AtStep("enable")
     /\ known' = IF backend = "systemd" THEN Reread
                 ELSE IF loads THEN [known EXCEPT ![u] = Armer(u)] ELSE known
     /\ armed' = IF loads THEN armed \cup {u} ELSE armed
     /\ call' = IF backend = "launchd" THEN Placed(Done, "service") ELSE Done
     /\ UNCHANGED <<backend, want, file, slipped, counters>>

Stoppable(u) == Armer(u) # None /\ (backend = "systemd" \/ Armer(u) # Torn)

\* systemctl disable --now, which reads the files too, and launchctl unload; both are named the
\* file.
Disable ==
  LET u == call.unit
  IN /\ AtStep("disable")
     /\ armed' = IF Stoppable(u) THEN armed \ {u} ELSE armed
     /\ known' = IF backend = "systemd" THEN Reread
                 ELSE IF Stoppable(u) THEN [known EXCEPT ![u] = None] ELSE known
     /\ slipped' = IF Stoppable(u) \/ u \notin armed THEN slipped ELSE slipped \cup {u}
     /\ call' = Done
     /\ UNCHANGED <<backend, want, file, counters>>

\* schtasks /Create /F, /Delete /F.
Create ==
  LET u == call.unit
  IN /\ AtStep("create")
     /\ known' = [known EXCEPT ![u] = call.text] /\ armed' = armed \cup {u}
     /\ call' = [Done EXCEPT !.placed = @ \cup {u}]
     /\ UNCHANGED <<backend, want, file, slipped, counters>>

Delete ==
  LET u == call.unit
  IN /\ AtStep("delete")
     /\ known' = [known EXCEPT ![u] = None] /\ armed' = armed \ {u}
     /\ call' = Done
     /\ UNCHANGED <<backend, want, file, slipped, counters>>

Reload ==
  LET next == AfterPhase(call.op, "reload")
  IN /\ call.phase = "reload"
     /\ known' = Reread
     /\ call' = [call EXCEPT !.phase = next, !.todo = UnitsOf(next)]
     /\ UNCHANGED <<backend, want, file, armed, slipped, counters>>

-----------------------------------------------------------------------------
(***************************************************************************)
(* What goes wrong, and what the user does.                                *)
(***************************************************************************)
Fault == faults < MaxFaults /\ faults' = faults + 1

\* A call of the OS scheduler fails or does not end in time; the command goes on.  (One that
\* was killed having done its work is Enable, Disable, Create, Delete or Reload.)
CommandFails ==
  /\ Fault
  /\ \/ /\ \E name \in {"enable", "disable", "create", "delete"} : AtStep(name)
        /\ call' = Unclean(Done)
        /\ slipped' = IF Head(call.steps) \in {"disable", "delete"} /\ call.unit \in armed
                      THEN slipped \cup {call.unit} ELSE slipped
     \/ /\ call.phase = "reload"
        /\ call' = LET next == AfterPhase(call.op, "reload")
                   IN Unclean([call EXCEPT !.phase = next, !.todo = UnitsOf(next)])
        /\ UNCHANGED slipped
  /\ UNCHANGED <<backend, want, file, os, calls, edits>>

\* os.WriteFile truncates, then writes.  Before, between or in the middle the disk is full or
\* the process is killed; either ends the command.
WriteFails(kind) ==
  LET u == call.unit
  IN /\ Fault /\ AtStep(Writing(kind)) /\ Writable(file[u][kind])
     /\ file' \in {file, [file EXCEPT ![u][kind] = Torn]}
     /\ call' = Unclean([call EXCEPT !.phase = "idle", !.steps = <<>>])
     /\ UNCHANGED <<backend, want, os, slipped, calls, edits>>

\* The file stays; the error is in the entry, and uninstall goes on.
RemoveFails(kind) ==
  /\ Fault /\ AtStep(Removing(kind))
  /\ call' = Unclean(Done)
  /\ UNCHANGED <<backend, want, file, os, slipped, calls, edits>>

Kill ==
  /\ Fault /\ Running
  /\ call' = Unclean([call EXCEPT !.phase = "idle", !.steps = <<>>])
  /\ UNCHANGED <<backend, want, file, os, slipped, calls, edits>>

\* A job is added, removed, paused, resumed or given another schedule.
Edit(j) ==
  /\ edits < MaxEdits /\ edits' = edits + 1
  /\ \E f \in (Fields \cup {Off}) \ {want[j]} : want' = [want EXCEPT ![j] = f]
  /\ UNCHANGED <<backend, file, os, call, slipped, calls, faults>>

Init ==
  /\ backend \in Backends
  /\ want \in [Jobs -> Fields \cup {Off}]
  /\ \E mine \in {{}} \cup {{j} : j \in Jobs} :   \* a timer or an agent of the user's own
       /\ file = [u \in Units |-> [service |-> IF u \in mine /\ backend = "launchd" THEN Foreign
                                               ELSE None,
                                   timer |-> IF u \in mine /\ backend = "systemd" THEN Foreign
                                             ELSE None]]
       /\ armed = IF backend = "schtasks" THEN {} ELSE mine
       /\ known = [u \in Units |-> IF u \in armed THEN Foreign ELSE None]
  /\ call = NoCall /\ slipped = {}
  /\ calls = 0 /\ edits = 0 /\ faults = 0

Step ==
  \/ Proceed \/ Translate \/ Enable \/ Disable \/ Create \/ Delete \/ Reload \/ CommandFails
  \/ \E kind \in {"service", "timer"} :
       WriteFenced(kind) \/ RemoveFenced(kind) \/ WriteFails(kind) \/ RemoveFails(kind)

Next ==
  \/ \E op \in {"install", "uninstall"}, driver \in {"daemon", "os-scheduler"} : Begin(op, driver)
  \/ Step \/ Kill
  \/ \E j \in Jobs : Edit(j)

Spec == Init /\ [][Next]_vars

-----------------------------------------------------------------------------
(***************************************************************************)
(* Properties.                                                             *)
(***************************************************************************)
Texts == (SUBSET Days) \cup {Program}
Contents == Texts \cup {None, Foreign, Torn}
StepNames ==
  {"translate", "write-service", "write-timer", "remove-service", "remove-timer",
   "enable", "disable", "create", "delete"}
CallState ==
  [op: {"none", "install", "uninstall"}, driver: {"daemon", "os-scheduler"},
   phase: {"idle", "units", "timers", "services", "reload", "enable"},
   asked: [Units -> Fields \cup {Off, Program}], todo: SUBSET Units, unit: Units,
   steps: Seq(StepNames), text: Texts, placed: SUBSET Units, clean: BOOLEAN]

\* Every variable holds a value of its kind.
TypeOK ==
  /\ backend \in Backends
  /\ want \in [Jobs -> Fields \cup {Off}]
  /\ file \in [Units -> [service : Contents, timer : Contents]]
  /\ known \in [Units -> Texts \cup {None, Foreign}] /\ armed \subseteq Units
  /\ call \in CallState /\ slipped \subseteq Units
  /\ calls \in Nat /\ edits \in Nat /\ faults \in Nat

\* A command that went through all its steps, none of which failed.
Clean(op) == call.op = op /\ ~Running /\ call.clean

\* The fields that are translated to what they say: no list has a range in it.
Plain(f) == Len(f) = 1 \/ ~HasRange(f)

\* service install is safe to run again: whatever earlier commands left when they failed or were
\* killed, an install that goes through registers every job it was asked for, except those it may
\* refuse, and leaves what it registered armed, with its files, on the days that jobs.yaml said.
InstallConverges ==
  Clean("install") => \A u \in Units :
    /\ call.asked[u] # Off =>
         u \in call.placed \/ (u # Daemon /\ Untranslatable \in Translations(call.asked[u]))
    /\ u \in call.placed =>
         /\ u \in armed
         /\ backend # "schtasks" => Owned(Armer(u)) /\ known[u] = Armer(u)
         /\ u # Daemon /\ Plain(call.asked[u]) => known[u] = DaysOf(call.asked[u])

\* After an uninstall that goes through, nothing that herdr-cron registered is left and nothing
\* fires, whichever jobs have left jobs.yaml since and whatever died on the way (sweep); except a
\* unit that the OS scheduler would not stop.  Only systemd's backend promises it for jobs that
\* were not asked about.
UninstallSilences ==
  Clean("uninstall") =>
    \A u \in Units \ slipped :
      (u \in Jobs /\ backend = "systemd") \/ call.asked[u] # Off =>
        /\ \A kind \in {"service", "timer"} : ~Owned(file[u][kind])
        /\ u \notin armed

\* The entries of service status: the jobs asked about, and systemd's orphans.
StatusEntries(driver) ==
  Requested(driver) \cup
  IF driver = "os-scheduler" /\ backend = "systemd" THEN Globbed("timer") ELSE {}

\* No job fires unseen: what the OS scheduler starts for a job that has left jobs.yaml has its
\* file, by which status lists it and uninstall finds it, in the middle of every command too.
DriftVisible ==
  backend = "systemd" => armed \ (slipped \cup {Daemon}) \subseteq StatusEntries("os-scheduler")

\* A file of the user's own is never written or removed, by install, uninstall or the sweep.
ForeignKept ==
  [][\A u \in Units, kind \in {"service", "timer"} :
       file[u][kind] = Foreign => file'[u][kind] = Foreign]_vars

-----------------------------------------------------------------------------
(***************************************************************************)
(* What comments and documents say, refuted by the code.                   *)
(***************************************************************************)
\* "The registered artefact" is as "this version would generate" it (entryState).
StatusOk(j) ==
  want[j] # Off /\ Owned(Armer(j)) /\ Armer(j) = Translation(backend, want[j])

\* cli/service.go:158: service status reports "whether the OS agrees".
StatusAgrees ==
  ~Running /\ faults = 0 /\ backend # "schtasks" =>
    \A j \in Jobs : StatusOk(j) => j \in armed /\ known[j] = Armer(j)

\* docs/spec/02-architecture.md:335: install "removes fenced entries whose job id has left".
InstallRemovesOrphans ==
  Clean("install") /\ call.driver = "os-scheduler" =>
    \A j \in Jobs : call.asked[j] = Off => j \notin armed \/ known[j] = Foreign

\* docs/spec/02-architecture.md:564: install "is the only repair action and is safe to re-run".
InstallRepairs ==
  ~Running => \A u \in Units, kind \in {"service", "timer"} : file[u][kind] # Torn

\* cli/service.go:120: uninstall removes "every artefact herdr-cron registered".
UninstallRemovesAll ==
  Clean("uninstall") => \A u \in Units \ slipped : u \in armed => known[u] = Foreign

\* docs/spec/02-architecture.md:560: an entry with no fence is "never touched".
ForeignUntouched ==
  [][\A u \in Units : known[u] = Foreign /\ u \in armed => u \in armed']_vars

\* systemd_test.go:13: "Everything that cannot be translated exactly must be refused".
FiresAsAsked ==
  Clean("install") => \A j \in call.placed \ {Daemon} : known[j] = DaysOf(call.asked[j])
=============================================================================
