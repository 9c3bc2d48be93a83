---------------------------- MODULE ServiceProofs -----------------------------
(***************************************************************************)
(* Files of the user's own are left alone, no timer goes on firing without *)
(* its file, an install that goes through has arranged what it was asked   *)
(* for, and an uninstall has undone it, for any jobs and schedules, on any *)
(* backend, and whatever failed or was killed before.                      *)
(*                                                                         *)
(* The last two are promises of a whole command, so the invariant has to   *)
(* say of every step what the command has done by then: PlanInv and Course *)
(* say which step of which unit in which phase comes next, UninstallInv    *)
(* and InstallInv what is already true of the units whose turn is over.    *)
(***************************************************************************)
EXTENDS Service, TLAPS

Kinds == {"service", "timer"}
Files == [service : Contents, timer : Contents]

\* What may be left of the steps for a unit, on systemd and on the other backends.
SystemdPlans ==
  {<<>>, <<"write-service">>, <<"enable">>, <<"remove-service">>,
   <<"translate", "write-service", "write-timer">>, <<"write-service", "write-timer">>,
   <<"write-timer">>, <<"disable", "remove-timer", "remove-service">>,
   <<"remove-timer", "remove-service">>, <<"disable", "remove-service">>,
   <<"disable", "remove-timer">>, <<"remove-timer">>}

OtherPlans ==
  {<<>>, <<"translate", "write-service", "disable", "enable">>,
   <<"write-service", "disable", "enable">>, <<"disable", "enable">>, <<"enable">>,
   <<"translate", "create">>, <<"create">>, <<"disable", "remove-service">>,
   <<"remove-service">>, <<"delete">>}

Plans == IF backend = "systemd" THEN SystemdPlans ELSE OtherPlans

\* After one step comes another of its plan; a timer is removed when it has been stopped, and a
\* schedule is translated first.
LEMMA NextOfPlan ==
  ASSUME NEW s \in SystemdPlans \cup OtherPlans, s # <<>>
  PROVE  /\ s \in SystemdPlans => Tail(s) \in SystemdPlans
         /\ s \in OtherPlans => Tail(s) \in OtherPlans
         /\ Tail(s) # <<>> => Head(Tail(s)) # "translate"
         /\ Tail(s) # <<>> /\ Head(Tail(s)) = "remove-timer" => Head(s) = "disable"
         /\ s \in SystemdPlans => Head(s) \notin {"create", "delete"}
<1>1. \A a \in StepNames : Head(<<a>>) = a /\ Tail(<<a>>) = <<>>
  OBVIOUS
<1>2. /\ Head(<<"translate", "write-service", "write-timer">>) = "translate"
      /\ Tail(<<"translate", "write-service", "write-timer">>) = <<"write-service", "write-timer">>
      /\ Head(<<"write-service", "write-timer">>) = "write-service"
      /\ Tail(<<"write-service", "write-timer">>) = <<"write-timer">>
      /\ Head(<<"disable", "remove-timer", "remove-service">>) = "disable"
      /\ Tail(<<"disable", "remove-timer", "remove-service">>) = <<"remove-timer", "remove-service">>
      /\ Head(<<"remove-timer", "remove-service">>) = "remove-timer"
      /\ Tail(<<"remove-timer", "remove-service">>) = <<"remove-service">>
      /\ Head(<<"disable", "remove-service">>) = "disable"
      /\ Tail(<<"disable", "remove-service">>) = <<"remove-service">>
      /\ Head(<<"disable", "remove-timer">>) = "disable"
      /\ Tail(<<"disable", "remove-timer">>) = <<"remove-timer">>
  OBVIOUS
<1>3. /\ Head(<<"translate", "write-service", "disable", "enable">>) = "translate"
      /\ Tail(<<"translate", "write-service", "disable", "enable">>) = <<"write-service", "disable", "enable">>
      /\ Head(<<"write-service", "disable", "enable">>) = "write-service"
      /\ Tail(<<"write-service", "disable", "enable">>) = <<"disable", "enable">>
      /\ Head(<<"disable", "enable">>) = "disable"
      /\ Tail(<<"disable", "enable">>) = <<"enable">>
      /\ Head(<<"translate", "create">>) = "translate"
      /\ Tail(<<"translate", "create">>) = <<"create">>
  OBVIOUS
<1> QED BY <1>1, <1>2, <1>3 DEF SystemdPlans, OtherPlans, StepNames

LEMMA PlansAreSteps == SystemdPlans \cup OtherPlans \subseteq Seq(StepNames)
  BY DEF SystemdPlans, OtherPlans, StepNames

\* A command under way installs or uninstalls, and of the jobs that it was asked about.
CallInv ==
  /\ call.steps \in Plans
  /\ Running => call.op # "none"
  /\ call.steps # <<>> => call.phase \notin {"idle", "reload"}
  /\ backend # "systemd" => call.phase \in {"idle", "units"}
  /\ \A j \in Jobs : call.asked[j] \in Fields \cup {Off}
  /\ call.phase = "units" => \A u \in call.todo : call.asked[u] # Off
  /\ AtStep("translate") => call.asked[call.unit] # Off

\* What systemd starts for a job has its file, and is stopped before the file is removed.
TimerInv ==
  backend = "systemd" =>
    /\ \A j \in Jobs : j \in armed /\ j \notin slipped => file[j]["timer"] # None
    /\ AtStep("remove-timer") => call.unit \notin armed \/ call.unit \in slipped

Inv == TypeOK /\ CallInv /\ TimerInv

\* What may be translated is a text, unless it is refused.
LEMMA TranslationType ==
  ASSUME NEW f, NEW text \in Translations(f), text # Untranslatable
  PROVE  f \in Fields => text \in SUBSET Days
<1>1. text = Translation(backend, f)
  BY DEF Translations
<1>2. text = Named(f)
  BY <1>1 DEF Translation
<1>3. \A n \in Int : Day(n) \in Days
  BY DEF Days, Day
<1>4. SplitRange(f) \subseteq Days
  BY <1>3 DEF SplitRange
<1>5. ASSUME f \in Fields, NEW k \in DOMAIN f PROVE f[k].lo \in Int
  <2>1. f \in Seq(Item)
    BY <1>5, ServiceAssumption
  <2>2. f[k] \in Item
    BY <2>1, <1>5
  <2> QED BY <2>2 DEF Item
<1>6. f \in Fields => ListDays(f) \subseteq Days
  BY <1>3, <1>5 DEF ListDays
<1> QED BY <1>2, <1>4, <1>6 DEF Named

LEMMA FileType ==
  ASSUME file \in [Units -> Files], NEW u \in Units
  PROVE  Kind(u) \in Kinds /\ Armer(u) \in Contents /\ \A k \in Kinds : file[u][k] \in Contents
  BY DEF Files, Kinds, Kind, Armer

-----------------------------------------------------------------------------
(***************************************************************************)
(* The invariant.                                                          *)
(***************************************************************************)
\* A step is over, and the next one of the plan comes.
LEMMA Advances ==
  ASSUME Inv, call.steps # <<>>, UNCHANGED backend,
         call'.steps = Tail(call.steps), call'.phase = call.phase, call'.op = call.op,
         call'.asked = call.asked, call'.todo = call.todo, call'.unit = call.unit
  PROVE  /\ CallInv'
         /\ call'.steps \in Seq(StepNames)
         /\ AtStep("remove-timer")' => AtStep("disable")
<1>1. /\ call'.steps \in Plans /\ Plans' = Plans
      /\ Tail(call.steps) # <<>> => Head(Tail(call.steps)) # "translate"
      /\ Tail(call.steps) # <<>> /\ Head(Tail(call.steps)) = "remove-timer"
           => Head(call.steps) = "disable"
  BY NextOfPlan DEF Inv, CallInv, Plans
<1>2. call'.steps \in Seq(StepNames)
  BY <1>1, PlansAreSteps DEF Plans
<1> QED BY <1>1, <1>2 DEF Inv, CallInv, AtStep, Running

\* The command ends, of itself or killed.
LEMMA Stops ==
  ASSUME Inv, UNCHANGED backend, call'.steps = <<>>, call'.phase = "idle",
         call'.asked = call.asked
  PROVE  CallInv' /\ call'.steps \in Seq(StepNames) /\ ~AtStep("remove-timer")'
<1>1. <<>> \in Plans'
  BY DEF Plans, SystemdPlans, OtherPlans
<1> QED BY <1>1 DEF Inv, CallInv, AtStep, Running

\* One phase is over, and the units of the next one are known.
LEMMA NextPhase ==
  ASSUME Inv, Running, call.steps = <<>>, NEW op,
         NEW c \in {call, Unclean(call)},
         call' = [c EXCEPT !.phase = AfterPhase(op, call.phase),
                           !.todo = UnitsOf(AfterPhase(op, call.phase))],
         UNCHANGED backend
  PROVE  CallInv' /\ call' \in CallState /\ ~AtStep("remove-timer")'
<1>1. /\ AfterPhase(op, call.phase) \in {"idle", "timers", "services", "reload", "enable"}
      /\ UnitsOf(AfterPhase(op, call.phase)) \in SUBSET Units
  BY DEF AfterPhase, UnitsOf, Globbed, Units, Inv, TypeOK, CallState
<1>2. call \in CallState /\ c \in CallState /\ c.steps = <<>> /\ c.op = call.op
      /\ c.asked = call.asked /\ c.unit = call.unit
  BY DEF Inv, TypeOK, CallState, Unclean
<1>3. call' \in CallState /\ call'.steps = <<>> /\ call'.op = call.op
      /\ call'.asked = call.asked /\ call'.phase # "units"
  BY <1>1, <1>2 DEF CallState
<1>4. Plans' = Plans
  BY DEF Plans
<1>5. backend # "systemd" => call'.phase = "idle"
  BY <1>2 DEF Inv, CallInv, AfterPhase, Running, CallState
<1> QED BY <1>3, <1>4, <1>5 DEF Inv, CallInv, AtStep, Running

LEMMA InitInv == Init => Inv
<1> SUFFICES ASSUME Init PROVE Inv
  OBVIOUS
<1>1. file \in [Units -> Files] /\ known \in [Units -> Texts \cup {None, Foreign}]
      /\ armed \subseteq Units
  BY DEF Init, Files, Contents, Units
<1>2. call = NoCall
  BY DEF Init
<1>3. NoCall \in CallState
  <2>1. <<>> \in Seq(StepNames)
    OBVIOUS
  <2>2. [u \in Units |-> Off] \in [Units -> Fields \cup {Off, Program}]
    OBVIOUS
  <2>3. Daemon \in Units /\ Program \in Texts
    BY DEF Units, Texts
  <2> QED BY <2>1, <2>2, <2>3 DEF NoCall, CallState
<1>4. TypeOK
  BY <1>1, <1>2, <1>3 DEF Init, TypeOK, Files
<1>5. CallInv
  BY <1>2 DEF NoCall, CallInv, Plans, SystemdPlans, OtherPlans, AtStep, Running, Units
<1>6. TimerInv
  BY <1>2, MarkAssumption, ServiceAssumption
  DEF Init, TimerInv, NoCall, AtStep, Running, Units
<1> QED BY <1>4, <1>5, <1>6 DEF Inv

LEMMA BeginKeeps ==
  ASSUME Inv, NEW op \in {"install", "uninstall"}, NEW driver \in {"daemon", "os-scheduler"},
         Begin(op, driver)
  PROVE  Inv'
<1>1. Requested(driver) \subseteq Units
  BY DEF Requested, Units
<1>2. [u \in Units |-> IF u \in Requested(driver) THEN Asked(u) ELSE Off]
        \in [Units -> Fields \cup {Off, Program}]
  BY DEF Asked, Units, Inv, TypeOK
<1>3. /\ call'.op = op /\ call'.phase = "units" /\ call'.steps = <<>>
      /\ call'.todo = Requested(driver)
      /\ call'.asked = [u \in Units |-> IF u \in Requested(driver) THEN Asked(u) ELSE Off]
  BY DEF Begin, NoCall
<1>4. call' \in CallState
  <2>1. <<>> \in Seq(StepNames)
    OBVIOUS
  <2>2. Daemon \in Units /\ Program \in Texts
    BY DEF Units, Texts
  <2> QED BY <1>1, <1>2, <2>1, <2>2 DEF Begin, NoCall, CallState
<1>5. TypeOK'
  BY <1>4 DEF Begin, Inv, TypeOK, os
<1>6. CallInv'
  <2>1. \A j \in Jobs : j \in Requested(driver) => want[j] \in Fields /\ j # Daemon
    BY ServiceAssumption DEF Requested, Inv, TypeOK
  <2>2. \A j \in Jobs : call'.asked[j] \in Fields \cup {Off}
    BY <1>3, <2>1 DEF Asked, Units
  <2>3. \A u \in call'.todo : call'.asked[u] # Off
    BY <1>1, <1>3, MarkAssumption DEF Requested, Asked
  <2>4. <<>> \in Plans'
    BY DEF Plans, SystemdPlans, OtherPlans
  <2> QED BY <1>3, <2>2, <2>3, <2>4 DEF CallInv, AtStep, Running
<1>7. TimerInv'
  BY <1>3 DEF Begin, Inv, TimerInv, AtStep, os
<1> QED BY <1>5, <1>6, <1>7 DEF Inv

LEMMA ProceedKeeps == ASSUME Inv, Proceed PROVE Inv'
<1> DEFINE next == AfterPhase(call.op, call.phase)
<1>1. /\ Running /\ call.steps = <<>> /\ call.phase # "reload"
      /\ UNCHANGED <<backend, want, file, os, slipped, counters>>
  BY DEF Proceed
<1>2. Plans' = Plans
  BY <1>1 DEF Plans
<1>3. ASSUME NEW u \in call.todo,
             call' = [call EXCEPT !.todo = @ \ {u}, !.unit = u,
                                  !.steps = Steps(call.op, call.phase, u)]
      PROVE  Inv'
  <2>1. /\ call \in CallState /\ u \in Units /\ call.op \in {"install", "uninstall"}
        /\ call.phase \in {"units", "timers", "services", "enable"}
        /\ backend \in {"systemd", "launchd", "schtasks"}
    BY <1>1, ServiceAssumption DEF Inv, TypeOK, CallInv, CallState, Running
  <2>2. /\ call'.steps = Steps(call.op, call.phase, u) /\ call'.unit = u
        /\ call'.todo = call.todo \ {u} /\ call'.phase = call.phase /\ call'.op = call.op
        /\ call'.asked = call.asked
    BY <1>3, <2>1 DEF CallState
  <2>3. call'.steps \in Plans /\ Head(call'.steps) # "remove-timer"
        /\ (Head(call'.steps) = "translate" => call.phase = "units")
    <3>1. CASE call.phase = "units"
      BY <2>1, <2>2, <3>1 DEF Steps, InstallSteps, UninstallSteps, LoadSteps, Plans,
                              SystemdPlans, OtherPlans
    <3>2. CASE call.phase # "units"
      BY <2>1, <2>2, <3>2 DEF Inv, CallInv, Steps, SweepSteps, Plans, SystemdPlans, OtherPlans
    <3> QED BY <3>1, <3>2
  <2>4. call' \in CallState
    <3>1. call'.steps \in Seq(StepNames)
      BY <2>3, PlansAreSteps DEF Plans
    <3> QED BY <1>3, <2>1, <2>2, <3>1 DEF CallState
  <2>5. TypeOK'
    BY <1>1, <2>4 DEF Inv, TypeOK, os, counters
  <2>6. CallInv'
    BY <1>1, <1>2, <2>1, <2>2, <2>3 DEF Inv, CallInv, AtStep, Running
  <2>7. TimerInv'
    BY <1>1, <2>2, <2>3 DEF Inv, TimerInv, AtStep, os
  <2> QED BY <2>5, <2>6, <2>7 DEF Inv
<1>4. ASSUME call' = [call EXCEPT !.phase = next, !.todo = UnitsOf(next)]
      PROVE  Inv'
  <2>1. CallInv' /\ call' \in CallState /\ ~AtStep("remove-timer")'
    BY <1>1, <1>4, NextPhase
  <2>2. TypeOK'
    BY <1>1, <2>1 DEF Inv, TypeOK, os, counters
  <2>3. TimerInv'
    BY <1>1, <2>1 DEF Inv, TimerInv, os
  <2> QED BY <2>1, <2>2, <2>3 DEF Inv
<1> QED BY <1>3, <1>4 DEF Proceed

LEMMA TranslateKeeps == ASSUME Inv, Translate PROVE Inv'
<1>1. /\ AtStep("translate") /\ call.steps # <<>>
      /\ UNCHANGED <<backend, want, file, os, slipped, counters>>
      /\ call \in CallState
  BY DEF Translate, AtStep, Inv, TypeOK
<1>2. PICK text \in IF call.unit = Daemon THEN {Program} ELSE Translations(call.asked[call.unit]) :
        call' = IF text = Untranslatable THEN [call EXCEPT !.steps = <<>>]
                ELSE [Done EXCEPT !.text = text]
  BY DEF Translate
<1>3. CASE text = Untranslatable
  <2>1. <<>> \in Plans' /\ <<>> \in Seq(StepNames)
    BY DEF Plans, SystemdPlans, OtherPlans
  <2>2. /\ call' \in CallState /\ call'.steps = <<>> /\ call'.phase = call.phase
        /\ call'.op = call.op /\ call'.todo = call.todo /\ call'.asked = call.asked
    BY <1>1, <1>2, <1>3, <2>1 DEF CallState
  <2>3. TypeOK'
    BY <1>1, <2>2 DEF Inv, TypeOK, os, counters
  <2>4. CallInv'
    BY <1>1, <2>1, <2>2 DEF Inv, CallInv, AtStep, Running
  <2>5. TimerInv'
    BY <1>1, <2>2 DEF Inv, TimerInv, AtStep, os
  <2> QED BY <2>3, <2>4, <2>5 DEF Inv
<1>4. CASE text # Untranslatable
  <2>1. text \in Texts
    <3>1. CASE call.unit = Daemon
      BY <1>2, <3>1 DEF Texts
    <3>2. CASE call.unit # Daemon
      <4>1. call.asked[call.unit] \in Fields
        BY <1>1, <3>2 DEF Inv, CallInv, CallState, Units
      <4> QED BY <1>2, <1>4, <3>2, <4>1, TranslationType DEF Texts
    <3> QED BY <3>1, <3>2
  <2>2. call' = [call EXCEPT !.steps = Tail(call.steps), !.text = text]
    BY <1>1, <1>2, <1>4 DEF Done, CallState
  <2>3. /\ call'.steps = Tail(call.steps) /\ call'.phase = call.phase /\ call'.op = call.op
        /\ call'.asked = call.asked /\ call'.todo = call.todo /\ call'.unit = call.unit
    BY <1>1, <2>2 DEF CallState
  <2>4. CallInv' /\ call'.steps \in Seq(StepNames) /\ (AtStep("remove-timer")' => AtStep("disable"))
    BY <1>1, <2>3, Advances
  <2>5. call' \in CallState
    BY <1>1, <2>1, <2>2, <2>3, <2>4 DEF CallState
  <2>6. TypeOK'
    BY <1>1, <2>5 DEF Inv, TypeOK, os, counters
  <2>7. TimerInv'
    BY <1>1, <2>4 DEF Inv, TimerInv, AtStep, os
  <2> QED BY <2>4, <2>6, <2>7 DEF Inv
<1> QED BY <1>3, <1>4

\* The forms that the command takes when a step is over, and when it stops.
LEMMA StepOver ==
  ASSUME Inv, call.steps # <<>>, UNCHANGED backend,
         call' \in {Done, Unclean(Done), [Done EXCEPT !.placed = @ \cup {call.unit}]}
  PROVE  /\ CallInv' /\ call' \in CallState /\ call'.unit = call.unit
         /\ AtStep("remove-timer")' => AtStep("disable")
<1>1. call \in CallState
  BY DEF Inv, TypeOK
<1>2. /\ call'.steps = Tail(call.steps) /\ call'.phase = call.phase /\ call'.op = call.op
      /\ call'.asked = call.asked /\ call'.todo = call.todo /\ call'.unit = call.unit
  BY <1>1 DEF CallState, Done, Unclean
<1>3. CallInv' /\ call'.steps \in Seq(StepNames) /\ (AtStep("remove-timer")' => AtStep("disable"))
  BY <1>2, Advances
<1>4. call' \in CallState
  <2>1. Tail(call.steps) \in Seq(StepNames)
    BY <1>2, <1>3
  <2>2. Done \in CallState
    BY <1>1, <2>1 DEF CallState, Done
  <2>3. Unclean(Done) \in CallState
    BY <2>2 DEF CallState, Unclean
  <2>4. [Done EXCEPT !.placed = @ \cup {call.unit}] \in CallState
    BY <1>1, <2>2 DEF CallState
  <2> QED BY <2>2, <2>3, <2>4
<1> QED BY <1>2, <1>3, <1>4

LEMMA StopOver ==
  ASSUME Inv, UNCHANGED backend,
         call' = Unclean([call EXCEPT !.phase = "idle", !.steps = <<>>])
  PROVE  CallInv' /\ call' \in CallState /\ ~AtStep("remove-timer")'
<1>1. call \in CallState
  BY DEF Inv, TypeOK
<1>2. call'.steps = <<>> /\ call'.phase = "idle" /\ call'.asked = call.asked
  BY <1>1 DEF CallState, Unclean
<1>3. CallInv' /\ call'.steps \in Seq(StepNames) /\ ~AtStep("remove-timer")'
  BY <1>2, Stops
<1> QED BY <1>1, <1>2, <1>3 DEF CallState, Unclean

\* The step that a file is written or removed at.
LEMMA FileSteps ==
  ASSUME NEW kind \in Kinds
  PROVE  /\ AtStep(Writing(kind)) \/ AtStep(Removing(kind)) =>
              call.steps # <<>> /\ ~AtStep("disable")
         /\ AtStep(Removing(kind)) /\ kind = "timer" => AtStep("remove-timer")
  BY DEF Kinds, Writing, Removing, AtStep

LEMMA ContentIsText ==
  ASSUME Inv, NEW kind
  PROVE  Content(kind) \in Texts /\ Content(kind) \notin {None, Foreign, Torn}
<1>1. Content(kind) \in Texts
  BY DEF Content, Inv, TypeOK, CallState, Texts
<1> QED BY <1>1, MarkAssumption DEF Texts

\* A file is written, torn or removed, and the command goes on or stops.
LEMMA FileStepKeeps ==
  ASSUME Inv, NEW kind \in Kinds,
         WriteFenced(kind) \/ RemoveFenced(kind) \/ WriteFails(kind) \/ RemoveFails(kind)
  PROVE  Inv'
<1>1. /\ call.steps # <<>> /\ ~AtStep("disable") /\ call.unit \in Units /\ call \in CallState
      /\ UNCHANGED <<backend, want, os, slipped, calls, edits>> /\ faults' \in Nat
      /\ file \in [Units -> Files]
  BY FileSteps DEF WriteFenced, RemoveFenced, WriteFails, RemoveFails, Fault, counters, Inv, TypeOK,
                   CallState, Files
<1>2. /\ CallInv' /\ call' \in CallState /\ ~AtStep("remove-timer")'
  <2>1. call' \in {Done, Unclean(Done), [Done EXCEPT !.placed = @ \cup {call.unit}],
                   Unclean([call EXCEPT !.phase = "idle", !.steps = <<>>])}
    BY DEF WriteFenced, RemoveFenced, WriteFails, RemoveFails, Placed, Done
  <2> QED BY <1>1, <2>1, StepOver, StopOver
<1>3. \/ UNCHANGED file
      \/ \E t \in Contents :
           /\ file' = [file EXCEPT ![call.unit][kind] = t]
           /\ t = None => AtStep(Removing(kind))
  <2>1. Content(kind) \in Contents /\ Content(kind) # None /\ None \in Contents
        /\ Torn \in Contents /\ Torn # None
    BY ContentIsText, MarkAssumption DEF Contents
  <2>2. ASSUME RemoveFenced(kind) PROVE <1>3!1 \/ <1>3!2
    <3>1. file' = [file EXCEPT ![call.unit][kind] =
                      IF Removable(file[call.unit][kind]) THEN None ELSE file[call.unit][kind]]
      BY <2>2 DEF RemoveFenced
    <3>2. file[call.unit][kind] \in Contents
      BY <1>1, FileType
    <3> QED BY <2>1, <2>2, <3>1, <3>2 DEF RemoveFenced
  <2> QED BY <2>1, <2>2 DEF WriteFenced, WriteFails, RemoveFails
<1>4. /\ file' \in [Units -> Files]
      /\ \A v \in Units, k \in Kinds :
           \/ file'[v][k] = file[v][k]
           \/ file'[v][k] # None
           \/ v = call.unit /\ k = kind /\ AtStep(Removing(kind))
  <2>1. CASE UNCHANGED file
    BY <1>1, <2>1
  <2>2. ASSUME NEW t \in Contents, file' = [file EXCEPT ![call.unit][kind] = t],
               t = None => AtStep(Removing(kind))
        PROVE  <1>4!1 /\ <1>4!2
    <3>1. /\ file' \in [Units -> Files]
          /\ \A v \in Units, k \in Kinds :
               file'[v][k] = IF v = call.unit /\ k = kind THEN t ELSE file[v][k]
      <4>1. CASE kind = "service"
        BY <1>1, <2>2, <4>1 DEF Files, Kinds
      <4>2. CASE kind = "timer"
        BY <1>1, <2>2, <4>2 DEF Files, Kinds
      <4> QED BY <4>1, <4>2 DEF Kinds
    <3> QED BY <2>2, <3>1
  <2> QED BY <1>3, <2>1, <2>2
<1>5. TypeOK'
  BY <1>1, <1>2, <1>4 DEF Inv, TypeOK, os, Files
<1>6. TimerInv'
  <2>1. SUFFICES ASSUME backend = "systemd", NEW j \in Jobs, j \in armed, j \notin slipped
                 PROVE  file'[j]["timer"] # None
    BY <1>1, <1>2 DEF TimerInv, os
  <2>2. file[j]["timer"] # None
    BY <2>1 DEF Inv, TimerInv
  <2>3. ~(j = call.unit /\ "timer" = kind /\ AtStep(Removing(kind)))
    BY <2>1, FileSteps DEF Inv, TimerInv
  <2> QED BY <1>4, <2>2, <2>3 DEF Kinds, Units
<1> QED BY <1>2, <1>5, <1>6 DEF Inv

\* systemd knows the texts of files, and of units whose files are gone.
LEMMA RereadType == ASSUME Inv PROVE Reread \in [Units -> Texts \cup {None, Foreign}]
<1>1. \A u \in Units : Armer(u) \in Contents /\ known[u] \in Texts \cup {None, Foreign}
  BY FileType DEF Inv, TypeOK, Files
<1> QED BY <1>1 DEF Reread, Contents

\* The steps of the plans of systemd: no task is created.
LEMMA NoTasks == ASSUME Inv, AtStep("create") \/ AtStep("delete") PROVE backend # "systemd"
  BY NextOfPlan DEF Inv, CallInv, AtStep, Plans

LEMMA EnableKeeps == ASSUME Inv, Enable PROVE Inv'
<1> DEFINE u == call.unit
           loads == Armer(u) \notin {None, Torn} /\ (backend = "systemd" \/ u \notin armed)
<1>1. /\ AtStep("enable") /\ call.steps # <<>> /\ ~AtStep("disable") /\ u \in Units
      /\ Armer(u) \in Contents /\ UNCHANGED <<backend, want, file, slipped, counters>>
  BY FileType DEF Enable, AtStep, Inv, TypeOK, CallState, Files
<1>2. /\ CallInv' /\ call' \in CallState /\ ~AtStep("remove-timer")'
  <2>1. call' \in {Done, Unclean(Done), [Done EXCEPT !.placed = @ \cup {call.unit}]}
    BY DEF Enable, Placed, Done
  <2> QED BY <1>1, <2>1, StepOver
<1>3. known' \in [Units -> Texts \cup {None, Foreign}]
  <2>1. loads => Armer(u) \in Texts \cup {None, Foreign}
    BY <1>1 DEF Contents
  <2>2. known' \in {Reread, known, [known EXCEPT ![u] = Armer(u)]}
        /\ (known' = [known EXCEPT ![u] = Armer(u)] => loads \/ known' = Reread \/ known' = known)
    BY DEF Enable
  <2>3. known \in [Units -> Texts \cup {None, Foreign}]
    BY DEF Inv, TypeOK
  <2> QED BY <2>1, <2>2, <2>3, RereadType
<1>4. armed' \subseteq Units /\ \A v \in armed' : v \in armed \/ (v = u /\ loads)
  BY <1>1 DEF Enable, Inv, TypeOK
<1>5. TypeOK'
  BY <1>1, <1>2, <1>3, <1>4 DEF Inv, TypeOK, counters
<1>6. TimerInv'
  <2>1. SUFFICES ASSUME backend = "systemd", NEW j \in Jobs, j \in armed', j \notin slipped
                 PROVE  file[j]["timer"] # None
    BY <1>1, <1>2 DEF TimerInv
  <2>2. Armer(j) = file[j]["timer"]
    BY <2>1, ServiceAssumption DEF Armer, Kind
  <2> QED BY <1>4, <2>1, <2>2 DEF Inv, TimerInv
<1> QED BY <1>2, <1>5, <1>6 DEF Inv

LEMMA DisableKeeps == ASSUME Inv, Disable PROVE Inv'
<1> DEFINE u == call.unit
<1>1. /\ AtStep("disable") /\ call.steps # <<>> /\ u \in Units /\ call' = Done
      /\ UNCHANGED <<backend, want, file, counters>>
  BY DEF Disable, AtStep, Inv, TypeOK, CallState
<1>2. CallInv' /\ call' \in CallState /\ call'.unit = u
  BY <1>1, StepOver
<1>3. known' \in [Units -> Texts \cup {None, Foreign}]
  <2>1. known' \in {Reread, known, [known EXCEPT ![u] = None]}
    BY DEF Disable
  <2>2. known \in [Units -> Texts \cup {None, Foreign}]
    BY DEF Inv, TypeOK
  <2> QED BY <2>1, <2>2, RereadType
<1>4. /\ armed' \subseteq armed /\ slipped \subseteq slipped' /\ slipped' \subseteq Units
      /\ u \notin armed' \/ u \in slipped'
  BY <1>1 DEF Disable, Inv, TypeOK
<1>5. TypeOK'
  BY <1>1, <1>2, <1>3, <1>4 DEF Inv, TypeOK, counters
<1>6. TimerInv'
  BY <1>1, <1>2, <1>4 DEF Inv, TimerInv
<1> QED BY <1>2, <1>5, <1>6 DEF Inv

LEMMA TaskStepKeeps == ASSUME Inv, Create \/ Delete PROVE Inv'
<1>1. /\ AtStep("create") \/ AtStep("delete")
      /\ call.steps # <<>> /\ call.unit \in Units /\ call.text \in Texts
      /\ UNCHANGED <<backend, want, file, slipped, counters>>
  BY DEF Create, Delete, AtStep, Inv, TypeOK, CallState
<1>2. CallInv' /\ call' \in CallState
  <2>1. call' \in {Done, Unclean(Done), [Done EXCEPT !.placed = @ \cup {call.unit}]}
    BY DEF Create, Delete
  <2> QED BY <1>1, <2>1, StepOver
<1>3. known' \in [Units -> Texts \cup {None, Foreign}] /\ armed' \subseteq Units
  BY <1>1 DEF Create, Delete, Inv, TypeOK
<1>4. TypeOK'
  BY <1>1, <1>2, <1>3 DEF Inv, TypeOK, counters
<1>5. TimerInv'
  BY <1>1, NoTasks DEF TimerInv
<1> QED BY <1>2, <1>4, <1>5 DEF Inv

LEMMA ReloadKeeps == ASSUME Inv, Reload PROVE Inv'
<1> DEFINE next == AfterPhase(call.op, call.phase)
<1>1. /\ call.phase = "reload" /\ Running /\ call.steps = <<>>
      /\ call' = [call EXCEPT !.phase = next, !.todo = UnitsOf(next)]
      /\ known' = Reread /\ UNCHANGED <<backend, want, file, armed, slipped, counters>>
  BY DEF Reload, Running, Inv, CallInv
<1>2. CallInv' /\ call' \in CallState /\ ~AtStep("remove-timer")'
  BY <1>1, NextPhase
<1>3. TypeOK'
  BY <1>1, <1>2, RereadType DEF Inv, TypeOK, counters
<1>4. TimerInv'
  BY <1>1, <1>2 DEF Inv, TimerInv
<1> QED BY <1>2, <1>3, <1>4 DEF Inv

LEMMA CommandFailsKeeps == ASSUME Inv, CommandFails PROVE Inv'
<1> DEFINE next == AfterPhase(call.op, call.phase)
           u == call.unit
<1>1. UNCHANGED <<backend, want, file, os, calls, edits>> /\ faults' \in Nat /\ u \in Units
  BY DEF CommandFails, Fault, Inv, TypeOK, CallState
<1>2. ASSUME NEW name \in {"enable", "disable", "create", "delete"}, AtStep(name),
             call' = Unclean(Done),
             slipped' = IF Head(call.steps) \in {"disable", "delete"} /\ u \in armed
                        THEN slipped \cup {u} ELSE slipped
      PROVE  Inv'
  <2>1. call.steps # <<>>
    BY <1>2 DEF AtStep
  <2>2. /\ CallInv' /\ call' \in CallState /\ call'.unit = u
        /\ AtStep("remove-timer")' => AtStep("disable")
    BY <1>1, <1>2, <2>1, StepOver
  <2>3. slipped \subseteq slipped' /\ slipped' \subseteq Units
        /\ (AtStep("disable") => u \notin armed \/ u \in slipped')
    BY <1>1, <1>2 DEF Inv, TypeOK, AtStep
  <2>4. TypeOK'
    BY <1>1, <2>2, <2>3 DEF Inv, TypeOK, os
  <2>5. TimerInv'
    BY <1>1, <2>2, <2>3 DEF Inv, TimerInv, os
  <2> QED BY <2>2, <2>4, <2>5 DEF Inv
<1>3. ASSUME call.phase = "reload", UNCHANGED slipped,
             call' = Unclean([call EXCEPT !.phase = next, !.todo = UnitsOf(next)])
      PROVE  Inv'
  <2>1. /\ Running /\ call.steps = <<>> /\ call \in CallState
    BY <1>3 DEF Running, Inv, CallInv, TypeOK
  <2>2. call' = [Unclean(call) EXCEPT !.phase = next, !.todo = UnitsOf(next)]
    BY <1>3, <2>1 DEF Unclean, CallState
  <2>3. CallInv' /\ call' \in CallState /\ ~AtStep("remove-timer")'
    BY <1>1, <2>1, <2>2, NextPhase
  <2>4. TypeOK'
    BY <1>1, <1>3, <2>3 DEF Inv, TypeOK, os
  <2>5. TimerInv'
    BY <1>1, <1>3, <2>3 DEF Inv, TimerInv, os
  <2> QED BY <2>3, <2>4, <2>5 DEF Inv
<1> QED BY <1>2, <1>3 DEF CommandFails

LEMMA KillKeeps == ASSUME Inv, Kill PROVE Inv'
<1>1. CallInv' /\ call' \in CallState /\ ~AtStep("remove-timer")'
  BY StopOver DEF Kill
<1>2. TypeOK'
  BY <1>1 DEF Kill, Fault, Inv, TypeOK, os
<1>3. TimerInv'
  BY <1>1 DEF Kill, Inv, TimerInv, os
<1> QED BY <1>1, <1>2, <1>3 DEF Inv

LEMMA EditKeeps == ASSUME Inv, NEW j \in Jobs, Edit(j) PROVE Inv'
<1>1. TypeOK'
  BY DEF Edit, Inv, TypeOK, os
<1>2. CallInv' /\ TimerInv'
  BY DEF Edit, Inv, CallInv, TimerInv, Plans, AtStep, Running, os
<1> QED BY <1>1, <1>2 DEF Inv

LEMMA NextInv == Inv /\ [Next]_vars => Inv'
<1> SUFFICES ASSUME Inv, [Next]_vars PROVE Inv'
  OBVIOUS
<1>1. CASE UNCHANGED vars
  <2>1. TypeOK'
    BY <1>1 DEF Inv, TypeOK, vars
  <2> QED BY <1>1, <2>1 DEF Inv, CallInv, TimerInv, Plans, AtStep, Running, vars
<1>2. CASE Step
  <2>1. ASSUME NEW kind \in {"service", "timer"},
               WriteFenced(kind) \/ RemoveFenced(kind) \/ WriteFails(kind) \/ RemoveFails(kind)
        PROVE  Inv'
    BY <2>1, FileStepKeeps DEF Kinds
  <2> QED BY <1>2, <2>1, ProceedKeeps, TranslateKeeps, EnableKeeps, DisableKeeps, TaskStepKeeps,
             ReloadKeeps, CommandFailsKeeps DEF Step
<1> QED BY <1>1, <1>2, BeginKeeps, KillKeeps, EditKeeps DEF Next

LEMMA InvAlways == Spec => []Inv
  BY InitInv, NextInv, PTL DEF Spec

-----------------------------------------------------------------------------
(***************************************************************************)
(* The course of a command: what is left of it says where it is.           *)
(***************************************************************************)
\* The step that a unit is at and the one after it, "end" after the last, for each command,
\* backend and phase.
Course(now, next) ==
  \/ /\ call.op = "install" /\ call.phase = "units" /\ backend = "systemd" /\ call.unit = Daemon
     /\ now = "write-service" /\ next = "end"
  \/ /\ call.op = "install" /\ call.phase = "units" /\ backend = "systemd" /\ call.unit # Daemon
     /\ \/ now = "translate" /\ next = "write-service"
        \/ now = "write-service" /\ next = "write-timer"
        \/ now = "write-timer" /\ next = "end"
  \/ /\ call.op = "install" /\ call.phase = "units" /\ backend = "launchd"
     /\ \/ now = "translate" /\ next = "write-service"
        \/ now = "write-service" /\ next = "disable"
        \/ now = "disable" /\ next = "enable"
        \/ now = "enable" /\ next = "end"
  \/ /\ call.op = "install" /\ call.phase = "units" /\ backend = "schtasks"
     /\ \/ now = "translate" /\ next = "create"
        \/ now = "create" /\ next = "end"
  \/ /\ call.op = "install" /\ call.phase = "enable" /\ backend = "systemd"
     /\ now = "enable" /\ next = "end"
  \/ /\ call.op = "uninstall" /\ call.phase = "units" /\ backend = "systemd" /\ call.unit # Daemon
     /\ \/ now = "disable" /\ next = "remove-timer"
        \/ now = "remove-timer" /\ next = "remove-service"
        \/ now = "remove-service" /\ next = "end"
  \/ /\ call.op = "uninstall" /\ call.phase = "units"
     /\ backend = "launchd" \/ (backend = "systemd" /\ call.unit = Daemon)
     /\ \/ now = "disable" /\ next = "remove-service"
        \/ now = "remove-service" /\ next = "end"
  \/ /\ call.op = "uninstall" /\ call.phase = "units" /\ backend = "schtasks"
     /\ now = "delete" /\ next = "end"
  \/ /\ call.op = "uninstall" /\ call.phase = "timers" /\ backend = "systemd" /\ call.unit # Daemon
     /\ \/ now = "disable" /\ next = "remove-timer"
        \/ now = "remove-timer" /\ next = "end"
  \/ /\ call.op = "uninstall" /\ call.phase = "services" /\ backend = "systemd"
     /\ call.unit # Daemon /\ now = "remove-service" /\ next = "end"

\* The same in terms of what is left.
PlanInv ==
  \/ call.steps = <<>>
  \/ /\ call.op = "install" /\ call.phase = "units" /\ backend = "systemd" /\ call.unit = Daemon
     /\ call.steps = <<"write-service">>
  \/ /\ call.op = "install" /\ call.phase = "units" /\ backend = "systemd" /\ call.unit # Daemon
     /\ call.steps \in {<<"translate", "write-service", "write-timer">>,
                        <<"write-service", "write-timer">>, <<"write-timer">>}
  \/ /\ call.op = "install" /\ call.phase = "units" /\ backend = "launchd"
     /\ call.steps \in {<<"translate", "write-service", "disable", "enable">>,
                        <<"write-service", "disable", "enable">>, <<"disable", "enable">>,
                        <<"enable">>}
  \/ /\ call.op = "install" /\ call.phase = "units" /\ backend = "schtasks"
     /\ call.steps \in {<<"translate", "create">>, <<"create">>}
  \/ /\ call.op = "install" /\ call.phase = "enable" /\ backend = "systemd"
     /\ call.steps = <<"enable">>
  \/ /\ call.op = "uninstall" /\ call.phase = "units" /\ backend = "systemd" /\ call.unit # Daemon
     /\ call.steps \in {<<"disable", "remove-timer", "remove-service">>,
                        <<"remove-timer", "remove-service">>, <<"remove-service">>}
  \/ /\ call.op = "uninstall" /\ call.phase = "units"
     /\ backend = "launchd" \/ (backend = "systemd" /\ call.unit = Daemon)
     /\ call.steps \in {<<"disable", "remove-service">>, <<"remove-service">>}
  \/ /\ call.op = "uninstall" /\ call.phase = "units" /\ backend = "schtasks"
     /\ call.steps = <<"delete">>
  \/ /\ call.op = "uninstall" /\ call.phase = "timers" /\ backend = "systemd" /\ call.unit # Daemon
     /\ call.steps \in {<<"disable", "remove-timer">>, <<"remove-timer">>}
  \/ /\ call.op = "uninstall" /\ call.phase = "services" /\ backend = "systemd"
     /\ call.unit # Daemon /\ call.steps = <<"remove-service">>

\* Only systemd's backend has more phases than one; its sweep is of jobs.
PhaseInv ==
  /\ call.phase \in {"timers", "services"} =>
       backend = "systemd" /\ call.op = "uninstall" /\ call.todo \subseteq Jobs
  /\ call.phase = "enable" => backend = "systemd" /\ call.op = "install"
  /\ call.phase = "reload" => backend = "systemd"

\* Timer files are systemd's, and of jobs; schtasks has no files.
FileInv ==
  \A u \in Units :
    /\ Owned(file[u]["timer"]) => backend = "systemd" /\ u # Daemon
    /\ Owned(file[u]["service"]) => backend # "schtasks"

CourseInv == PlanInv /\ PhaseInv /\ FileInv

After(steps) == IF Tail(steps) = <<>> THEN "end" ELSE Head(Tail(steps))

\* The next step of what is left, and the one after it.
At(steps, now, next) == steps # <<>> /\ Head(steps) = now /\ After(steps) = next

LEMMA Singles ==
  /\ At(<<"write-service">>, "write-service", "end")
  /\ At(<<"enable">>, "enable", "end")
  /\ At(<<"remove-service">>, "remove-service", "end")
  /\ At(<<"write-timer">>, "write-timer", "end")
  /\ At(<<"remove-timer">>, "remove-timer", "end")
  /\ At(<<"create">>, "create", "end")
  /\ At(<<"delete">>, "delete", "end")
  BY DEF At, After

LEMMA Pairs ==
  /\ At(<<"write-service", "write-timer">>, "write-service", "write-timer")
  /\ At(<<"disable", "enable">>, "disable", "enable")
  /\ At(<<"translate", "create">>, "translate", "create")
  /\ At(<<"remove-timer", "remove-service">>, "remove-timer", "remove-service")
  /\ At(<<"disable", "remove-service">>, "disable", "remove-service")
  /\ At(<<"disable", "remove-timer">>, "disable", "remove-timer")
  BY DEF At, After

LEMMA Longer ==
  /\ At(<<"translate", "write-service", "write-timer">>, "translate", "write-service")
  /\ At(<<"write-service", "disable", "enable">>, "write-service", "disable")
  /\ At(<<"disable", "remove-timer", "remove-service">>, "disable", "remove-timer")
  /\ At(<<"translate", "write-service", "disable", "enable">>, "translate", "write-service")
  BY DEF At, After

LEMMA Tails ==
  /\ Tail(<<"write-service", "write-timer">>) = <<"write-timer">>
  /\ Tail(<<"disable", "enable">>) = <<"enable">>
  /\ Tail(<<"translate", "create">>) = <<"create">>
  /\ Tail(<<"remove-timer", "remove-service">>) = <<"remove-service">>
  /\ Tail(<<"disable", "remove-service">>) = <<"remove-service">>
  /\ Tail(<<"disable", "remove-timer">>) = <<"remove-timer">>
  /\ Tail(<<"translate", "write-service", "write-timer">>) = <<"write-service", "write-timer">>
  /\ Tail(<<"write-service", "disable", "enable">>) = <<"disable", "enable">>
  /\ Tail(<<"disable", "remove-timer", "remove-service">>) = <<"remove-timer", "remove-service">>
  /\ Tail(<<"translate", "write-service", "disable", "enable">>) = <<"write-service", "disable", "enable">>
  OBVIOUS

LEMMA Short == \A a \in StepNames : Tail(<<a>>) = <<>>
  OBVIOUS

LEMMA CourseKnown ==
  ASSUME PlanInv, call.steps # <<>>
  PROVE  Course(Head(call.steps), After(call.steps))
<1> USE DEF At
<1>1. CASE PlanInv!2
  BY <1>1, Singles, Pairs, Longer DEF Course
<1>2. CASE PlanInv!3
  BY <1>2, Singles, Pairs, Longer DEF Course
<1>3. CASE PlanInv!4
  BY <1>3, Singles, Pairs, Longer DEF Course
<1>4. CASE PlanInv!5
  BY <1>4, Singles, Pairs, Longer DEF Course
<1>5. CASE PlanInv!6
  BY <1>5, Singles, Pairs, Longer DEF Course
<1>6. CASE PlanInv!7
  BY <1>6, Singles, Pairs, Longer DEF Course
<1>7. CASE PlanInv!8
  BY <1>7, Singles, Pairs, Longer DEF Course
<1>8. CASE PlanInv!9
  BY <1>8, Singles, Pairs, Longer DEF Course
<1>9. CASE PlanInv!10
  BY <1>9, Singles, Pairs, Longer DEF Course
<1>10. CASE PlanInv!11
  BY <1>10, Singles, Pairs, Longer DEF Course
<1> QED BY <1>1, <1>2, <1>3, <1>4, <1>5, <1>6, <1>7, <1>8, <1>9, <1>10 DEF PlanInv

\* A step is over: what is left is still a course, and the step that is next was announced.
LEMMA CourseGoesOn ==
  ASSUME PlanInv, call.steps # <<>>, UNCHANGED backend, call'.steps = Tail(call.steps),
         call'.op = call.op, call'.phase = call.phase, call'.unit = call.unit
  PROVE  /\ PlanInv'
         /\ call'.steps = <<>> <=> After(call.steps) = "end"
         /\ call'.steps # <<>> => Head(call'.steps) = After(call.steps)
<1>1. PlanInv'
  <2> USE DEF At
  <2>1. CASE PlanInv!2
    BY <2>1, Tails, Short DEF PlanInv, StepNames
  <2>2. CASE PlanInv!3
    BY <2>2, Tails, Short DEF PlanInv, StepNames
  <2>3. CASE PlanInv!4
    BY <2>3, Tails, Short DEF PlanInv, StepNames
  <2>4. CASE PlanInv!5
    BY <2>4, Tails, Short DEF PlanInv, StepNames
  <2>5. CASE PlanInv!6
    BY <2>5, Tails, Short DEF PlanInv, StepNames
  <2>6. CASE PlanInv!7
    BY <2>6, Tails, Short DEF PlanInv, StepNames
  <2>7. CASE PlanInv!8
    BY <2>7, Tails, Short DEF PlanInv, StepNames
  <2>8. CASE PlanInv!9
    BY <2>8, Tails, Short DEF PlanInv, StepNames
  <2>9. CASE PlanInv!10
    BY <2>9, Tails, Short DEF PlanInv, StepNames
  <2>10. CASE PlanInv!11
    BY <2>10, Tails, Short DEF PlanInv, StepNames
  <2> QED BY <2>1, <2>2, <2>3, <2>4, <2>5, <2>6, <2>7, <2>8, <2>9, <2>10 DEF PlanInv
<1>2. call'.steps # <<>> => Head(call'.steps) = After(call.steps)
  BY DEF After
<1>3. call'.steps = <<>> => After(call.steps) = "end"
  BY DEF After
<1>4. After(call.steps) = "end" => call'.steps = <<>>
  BY Pairs, Longer, Singles DEF PlanInv, At, After
<1> QED BY <1>1, <1>2, <1>3, <1>4

\* The call goes on to the next step of the same unit.
Onward ==
  /\ call'.steps = Tail(call.steps) /\ call'.op = call.op /\ call'.phase = call.phase
  /\ call'.asked = call.asked /\ call'.todo = call.todo /\ call'.unit = call.unit

\* The forms of a step that is over, and what they change besides.
LEMMA DoneIsOnward ==
  ASSUME call \in CallState
  PROVE  /\ call' = Done => /\ Onward /\ call'.placed = call.placed /\ call'.text = call.text
                            /\ call'.clean = call.clean
         /\ call' = Unclean(Done) => Onward /\ ~call'.clean
         /\ call' = [Done EXCEPT !.placed = @ \cup {call.unit}] =>
              /\ Onward /\ call'.placed = call.placed \cup {call.unit} /\ call'.text = call.text
              /\ call'.clean = call.clean
         /\ \A x : call' = [Done EXCEPT !.text = x] =>
              /\ Onward /\ call'.placed = call.placed /\ call'.text = x
              /\ call'.clean = call.clean
<1>1. Done.steps = Tail(call.steps) /\ Done.op = call.op /\ Done.phase = call.phase
      /\ Done.asked = call.asked /\ Done.todo = call.todo /\ Done.unit = call.unit
      /\ Done.placed = call.placed /\ Done.text = call.text /\ Done.clean = call.clean
  BY DEF Done, CallState
<1>2. DOMAIN Done = {"op", "driver", "phase", "asked", "todo", "unit", "steps", "text", "placed",
                     "clean"}
  BY DEF Done, CallState
<1> DEFINE d == Done
<1>3. [d EXCEPT !.placed = @ \cup {call.unit}] = [d EXCEPT !.placed = d.placed \cup {call.unit}]
  OBVIOUS
<1> QED BY <1>1, <1>2, <1>3 DEF Onward, Unclean, Done, CallState

\* Steps go on along their course, and the next step of the unit is the one announced.
LEMMA OnwardKeeps ==
  ASSUME CourseInv, call.steps # <<>>, UNCHANGED backend, Onward
  PROVE  /\ PlanInv' /\ PhaseInv'
         /\ Course(Head(call.steps), After(call.steps))
         /\ call'.steps = <<>> <=> After(call.steps) = "end"
         /\ \A name : AtStep(name)' => After(call.steps) = name
         /\ \A name : After(call.steps) = name /\ name # "end" => AtStep(name)'
<1>1. PlanInv' /\ (call'.steps = <<>> <=> After(call.steps) = "end")
      /\ (call'.steps # <<>> => Head(call'.steps) = After(call.steps))
  BY CourseGoesOn DEF CourseInv, Onward
<1>2. Course(Head(call.steps), After(call.steps))
  BY CourseKnown DEF CourseInv
<1>3. PhaseInv'
  BY DEF CourseInv, PhaseInv, Onward
<1>4. \A name : AtStep(name)' => After(call.steps) = name
  BY <1>1 DEF AtStep
<1>5. \A name : After(call.steps) = name /\ name # "end" => AtStep(name)'
  BY <1>1, <1>2 DEF AtStep, Running, Onward, Course
<1> QED BY <1>1, <1>2, <1>3, <1>4, <1>5

\* What a unit's turn begins with.
LEMMA TurnKeeps ==
  ASSUME Inv, CourseInv, Running, call.phase # "reload", NEW u \in call.todo,
         call' = [call EXCEPT !.todo = @ \ {u}, !.unit = u,
                              !.steps = Steps(call.op, call.phase, u)],
         UNCHANGED backend
  PROVE  /\ PlanInv' /\ PhaseInv' /\ call'.steps # <<>> /\ call'.unit = u
         /\ call'.todo = call.todo \ {u} /\ call'.phase = call.phase /\ call'.op = call.op
         /\ call'.asked = call.asked /\ call'.placed = call.placed /\ call'.clean = call.clean
         /\ call.phase = "units" /\ call.op = "uninstall" => ~AtStep("remove-service")'
         /\ call.op = "install" /\ call.phase = "units" =>
              ~AtStep("disable")' /\ ~AtStep("enable")' /\ ~AtStep("create")'
              /\ ~AtStep("write-timer")' /\ (AtStep("write-service")' => u = Daemon)
<1>1. /\ call \in CallState /\ u \in Units /\ call.op \in {"install", "uninstall"}
      /\ call.phase \in {"units", "timers", "services", "enable"}
      /\ backend \in {"systemd", "launchd", "schtasks"}
  BY ServiceAssumption DEF Inv, TypeOK, CallInv, CallState, Running
<1>2. /\ call'.steps = Steps(call.op, call.phase, u) /\ call'.unit = u
      /\ call'.todo = call.todo \ {u} /\ call'.phase = call.phase /\ call'.op = call.op
      /\ call'.asked = call.asked /\ call'.placed = call.placed /\ call'.clean = call.clean
  BY <1>1 DEF CallState
<1>3. call.phase \in {"timers", "services"} => u # Daemon
  BY ServiceAssumption DEF CourseInv, PhaseInv
<1>4. PhaseInv'
  BY <1>2 DEF CourseInv, PhaseInv
<1>5. CASE call.phase = "units" /\ call.op = "install"
  <2>1. Steps(call.op, call.phase, u) = InstallSteps(u)
    BY <1>5 DEF Steps
  <2> QED BY <1>1, <1>2, <1>4, <1>5, <2>1, Singles, Pairs, Longer
      DEF InstallSteps, LoadSteps, PlanInv, AtStep, At
<1>6. CASE call.phase = "units" /\ call.op = "uninstall"
  <2>1. Steps(call.op, call.phase, u) = UninstallSteps(u)
    BY <1>6 DEF Steps
  <2> QED BY <1>1, <1>2, <1>4, <1>6, <2>1, Singles, Pairs, Longer
      DEF UninstallSteps, PlanInv, AtStep, At
<1>7. CASE call.phase # "units"
  BY <1>1, <1>2, <1>3, <1>4, <1>7, Singles, Pairs
  DEF CourseInv, PhaseInv, Steps, SweepSteps, PlanInv, At
<1> QED BY <1>1, <1>5, <1>6, <1>7

\* The next phase has no steps yet; what it begins with is known.
LEMMA PhaseKeeps ==
  ASSUME Inv, CourseInv, Running, call.steps = <<>>, UNCHANGED backend,
         NEW c \in {call, Unclean(call)},
         call' = [c EXCEPT !.phase = AfterPhase(call.op, call.phase),
                           !.todo = UnitsOf(AfterPhase(call.op, call.phase))]
  PROVE  /\ PlanInv' /\ PhaseInv' /\ call'.steps = <<>> /\ call'.op = call.op
         /\ call'.phase = AfterPhase(call.op, call.phase) /\ call'.todo = UnitsOf(call'.phase)
         /\ call'.asked = call.asked /\ call'.placed = call.placed /\ call'.unit = call.unit
         /\ call'.clean = c.clean
<1>1. /\ c \in CallState /\ c.steps = <<>> /\ c.op = call.op /\ c.asked = call.asked
      /\ c.placed = call.placed /\ c.unit = call.unit
  BY DEF Inv, TypeOK, CallState, Unclean
<1>2. /\ call'.steps = <<>> /\ call'.op = call.op
      /\ call'.phase = AfterPhase(call.op, call.phase) /\ call'.todo = UnitsOf(call'.phase)
      /\ call'.asked = call.asked /\ call'.placed = call.placed /\ call'.unit = call.unit
      /\ call'.clean = c.clean
  BY <1>1 DEF CallState
<1>3. PlanInv'
  BY <1>2 DEF PlanInv
<1>4. call.op \in {"install", "uninstall"}
  BY DEF Inv, TypeOK, CallInv, CallState
<1>5. PhaseInv'
  BY <1>2, <1>4 DEF CourseInv, PhaseInv, AfterPhase, UnitsOf, Globbed
<1> QED BY <1>2, <1>3, <1>5

\* A file that becomes the command's own is one that its backend has.
LEMMA WriteKeeps ==
  ASSUME Inv, CourseInv, NEW kind \in Kinds, WriteFenced(kind)
  PROVE  FileInv'
<1>1. AtStep(Writing(kind)) /\ call.steps # <<>> /\ UNCHANGED backend
      /\ file \in [Units -> Files] /\ call.unit \in Units
  BY DEF WriteFenced, AtStep, Inv, TypeOK, Files, CallState
<1>2. Course(Head(call.steps), After(call.steps))
  BY <1>1, CourseKnown DEF CourseInv
<1>3. kind = "timer" => backend = "systemd" /\ call.unit # Daemon
  BY <1>1, <1>2 DEF Course, AtStep, Writing
<1>4. kind = "service" => backend # "schtasks"
  BY <1>1, <1>2 DEF Course, AtStep, Writing
<1>5. CASE UNCHANGED file
  BY <1>1, <1>5 DEF CourseInv, FileInv
<1>6. ASSUME NEW t, file' = [file EXCEPT ![call.unit][kind] = t] PROVE FileInv'
  <2>1. CASE kind = "service"
    BY <1>1, <1>4, <1>6, <2>1 DEF CourseInv, FileInv, Files
  <2>2. CASE kind = "timer"
    BY <1>1, <1>3, <1>6, <2>2 DEF CourseInv, FileInv, Files
  <2> QED BY <2>1, <2>2 DEF Kinds
<1> QED BY <1>5, <1>6 DEF WriteFenced

\* What is not the command's own becomes so only when it is written.
LEMMA NotOwnedStays ==
  ASSUME file \in [Units -> Files], NEW kind \in Kinds, call.unit \in Units,
         RemoveFenced(kind) \/ WriteFails(kind) \/ RemoveFails(kind)
  PROVE  \A u \in Units, k \in Kinds : ~Owned(file[u][k]) => ~Owned(file'[u][k])
<1>1. UNCHANGED file \/ \E t \in {None, Torn, file[call.unit][kind]} :
                           file' = [file EXCEPT ![call.unit][kind] = t]
  BY DEF RemoveFenced, WriteFails, RemoveFails
<1>2. ASSUME NEW t \in {None, Torn, file[call.unit][kind]},
             file' = [file EXCEPT ![call.unit][kind] = t]
      PROVE  \A u \in Units, k \in Kinds : ~Owned(file[u][k]) => ~Owned(file'[u][k])
  <2>1. CASE kind = "service"
    BY <1>2, <2>1 DEF Files, Kinds, Owned
  <2>2. CASE kind = "timer"
    BY <1>2, <2>2 DEF Files, Kinds, Owned
  <2> QED BY <2>1, <2>2 DEF Kinds
<1> QED BY <1>1, <1>2

LEMMA CourseNext == Inv /\ CourseInv /\ [Next]_vars => CourseInv'
<1> SUFFICES ASSUME Inv, CourseInv, [Next]_vars PROVE CourseInv'
  OBVIOUS
<1>1. ASSUME UNCHANGED <<file, backend>> PROVE FileInv'
  BY <1>1 DEF CourseInv, FileInv
<1>2. ASSUME call' = Unclean([call EXCEPT !.phase = "idle", !.steps = <<>>]) PROVE PlanInv' /\ PhaseInv'
  <2>1. call'.steps = <<>> /\ call'.phase = "idle"
    BY <1>2 DEF Inv, TypeOK, CallState, Unclean
  <2> QED BY <2>1 DEF PlanInv, PhaseInv
<1>3. ASSUME call.steps # <<>>, UNCHANGED backend, call' \in {Done, Unclean(Done), [Done EXCEPT !.placed = @ \cup {call.unit}]}
      PROVE  PlanInv' /\ PhaseInv'
  BY <1>3, DoneIsOnward, OnwardKeeps DEF Inv, TypeOK
<1>4. ASSUME NEW op \in {"install", "uninstall"}, NEW driver \in {"daemon", "os-scheduler"},
             Begin(op, driver)
      PROVE  CourseInv'
  <2>1. call'.steps = <<>> /\ call'.phase = "units"
    BY <1>4 DEF Begin, NoCall
  <2> QED BY <1>1, <1>4, <2>1 DEF Begin, CourseInv, PlanInv, PhaseInv
<1>5. CASE Proceed
  BY <1>1, <1>5, TurnKeeps, PhaseKeeps DEF Proceed, CourseInv
<1>6. CASE Translate
  <2>1. PICK text : call' = IF text = Untranslatable THEN [call EXCEPT !.steps = <<>>]
                            ELSE [Done EXCEPT !.text = text]
    BY <1>6 DEF Translate
  <2>2. call.steps # <<>> /\ UNCHANGED <<file, backend>> /\ call \in CallState
    BY <1>6 DEF Translate, AtStep, Inv, TypeOK
  <2>3. CASE text = Untranslatable
    <3>1. call'.steps = <<>> /\ call'.phase = call.phase /\ call'.op = call.op /\ call'.todo = call.todo
      BY <2>1, <2>2, <2>3 DEF CallState
    <3> QED BY <1>1, <2>2, <3>1 DEF CourseInv, PlanInv, PhaseInv
  <2>4. CASE text # Untranslatable
    BY <1>1, <2>1, <2>2, <2>4, DoneIsOnward, OnwardKeeps DEF CourseInv
  <2> QED BY <2>3, <2>4
<1>7. CASE Enable \/ Disable \/ Create \/ Delete
  <2>1. /\ call.steps # <<>> /\ UNCHANGED <<file, backend>>
        /\ call' \in {Done, Unclean(Done), [Done EXCEPT !.placed = @ \cup {call.unit}]}
    BY <1>7 DEF Enable, Disable, Create, Delete, AtStep, Placed, Done
  <2> QED BY <1>1, <1>3, <2>1 DEF CourseInv
<1>8. CASE Reload
  BY <1>1, <1>8, PhaseKeeps DEF Reload, Inv, CallInv, Running, CourseInv
<1>9. CASE CommandFails
  <2>1. UNCHANGED <<file, backend>>
    BY <1>9 DEF CommandFails
  <2>2. ASSUME call' = Unclean(Done), NEW name, AtStep(name) PROVE PlanInv' /\ PhaseInv'
    BY <1>3, <2>1, <2>2 DEF AtStep
  <2>3. ASSUME call.phase = "reload",
               call' = LET next == AfterPhase(call.op, "reload")
                       IN Unclean([call EXCEPT !.phase = next, !.todo = UnitsOf(next)])
        PROVE  PlanInv' /\ PhaseInv'
    <3>1. call' = [Unclean(call) EXCEPT !.phase = AfterPhase(call.op, call.phase),
                                        !.todo = UnitsOf(AfterPhase(call.op, call.phase))]
      BY <2>3 DEF Unclean, Inv, TypeOK, CallState
    <3> QED BY <2>1, <2>3, <3>1, PhaseKeeps DEF Inv, CallInv, Running
  <2> QED BY <1>1, <1>9, <2>1, <2>2, <2>3 DEF CommandFails, CourseInv
<1>10. ASSUME NEW kind \in Kinds,
              WriteFenced(kind) \/ RemoveFenced(kind) \/ WriteFails(kind) \/ RemoveFails(kind)
       PROVE  CourseInv'
  <2>1. /\ call.steps # <<>> /\ UNCHANGED backend /\ file \in [Units -> Files] /\ call.unit \in Units
        /\ \/ call' \in {Done, Unclean(Done), [Done EXCEPT !.placed = @ \cup {call.unit}]}
           \/ call' = Unclean([call EXCEPT !.phase = "idle", !.steps = <<>>])
    BY <1>10 DEF WriteFenced, RemoveFenced, WriteFails, RemoveFails, AtStep, Placed, Done,
                 Inv, TypeOK, Files, CallState
  <2>2. PlanInv' /\ PhaseInv'
    BY <1>2, <1>3, <2>1
  <2>3. CASE WriteFenced(kind)
    BY <2>2, <2>3, WriteKeeps DEF CourseInv
  <2>4. CASE RemoveFenced(kind) \/ WriteFails(kind) \/ RemoveFails(kind)
    <3>1. \A u \in Units, k \in Kinds : ~Owned(file[u][k]) => ~Owned(file'[u][k])
      BY <2>1, <2>4, NotOwnedStays
    <3> QED BY <2>1, <2>2, <3>1 DEF CourseInv, FileInv, Kinds
  <2> QED BY <1>10, <2>3, <2>4
<1>11. CASE Kill
  BY <1>1, <1>2, <1>11 DEF Kill, CourseInv
<1>12. CASE UNCHANGED <<file, backend, call>>
  BY <1>1, <1>12 DEF CourseInv, PlanInv, PhaseInv
<1> QED BY <1>4, <1>5, <1>6, <1>7, <1>8, <1>9, <1>10, <1>11, <1>12
        DEF Next, Step, Edit, vars, Kinds

-----------------------------------------------------------------------------
(***************************************************************************)
(* What an uninstall has done when it is half way.                         *)
(***************************************************************************)
\* The steps of the unit in this phase are still to come, or not over.
Pending(phase, u) ==
  call.phase = phase /\ (u \in call.todo \/ (call.unit = u /\ call.steps # <<>>))

Quiet(u) == u \notin armed \/ u \in slipped

Cleared(u) == Quiet(u) /\ ~Owned(file[u]["service"]) /\ ~Owned(file[u]["timer"])

\* Found by being asked for only; the jobs of systemd are swept too.
Alone(u) == backend # "systemd" \/ u = Daemon

\* The sweep stops a job's timer and removes its timer file, then its service file.
Swept(j) ==
  /\ Pending("timers", j) \/ (Quiet(j) /\ ~Owned(file[j]["timer"]))
  /\ call.phase = "timers" \/ Pending("services", j) \/ ~Owned(file[j]["service"])

\* An uninstall that went well so far has cleared the units it is through with.
UninstallInv ==
  call.op = "uninstall" /\ call.clean =>
    /\ \A u \in Units : call.asked[u] # Off /\ Alone(u) => Pending("units", u) \/ Cleared(u)
    /\ call.phase = "units" /\ AtStep("remove-service") /\ Alone(call.unit) => Quiet(call.unit)
    /\ backend = "systemd" /\ call.phase # "units" => \A j \in Jobs : Swept(j)

\* What is quiet stays so, and what is not the command's own stays so.
Calmer ==
  /\ armed' \subseteq armed /\ slipped \subseteq slipped' /\ UNCHANGED backend
  /\ \A u \in Units, k \in Kinds : ~Owned(file[u][k]) => ~Owned(file'[u][k])

\* The unit's turn is over; the others are where they were.
LEMMA PendingOnward ==
  ASSUME Onward, call.steps # <<>>, NEW phase, NEW u,
         call'.steps = <<>> <=> After(call.steps) = "end"
  PROVE  /\ u # call.unit => Pending(phase, u)' = Pending(phase, u)
         /\ After(call.steps) # "end" => Pending(phase, u)' = Pending(phase, u)
         /\ Pending(phase, u)' => Pending(phase, u)
         /\ Pending(phase, u) /\ ~Pending(phase, u)' =>
              u = call.unit /\ After(call.steps) = "end" /\ call.phase = phase
  BY DEF Onward, Pending

\* A step that calms things and leaves the unit under way pending, or cleared, keeps the promise.
LEMMA ClearsOnward ==
  ASSUME Inv, CourseInv, UninstallInv, call.op = "uninstall", call.clean, call.steps # <<>>,
         Onward, Calmer,
         After(call.steps) = "end" /\ call.phase = "units" /\ Alone(call.unit)
           => Cleared(call.unit)',
         After(call.steps) = "end" /\ call.phase = "timers"
           => Quiet(call.unit)' /\ ~Owned(file'[call.unit]["timer"]),
         After(call.steps) = "end" /\ call.phase = "services"
           => ~Owned(file'[call.unit]["service"]),
         After(call.steps) = "remove-service" /\ Alone(call.unit) => Quiet(call.unit)'
  PROVE  UninstallInv'
<1>1. /\ Course(Head(call.steps), After(call.steps))
      /\ call'.steps = <<>> <=> After(call.steps) = "end"
      /\ AtStep("remove-service")' => After(call.steps) = "remove-service"
  BY OnwardKeeps DEF Calmer
<1>2. \A u \in Units : /\ Quiet(u) => Quiet(u)'
                       /\ \A k \in Kinds : ~Owned(file[u][k]) => ~Owned(file'[u][k])
                       /\ Cleared(u) => Cleared(u)'
                       /\ Alone(u)' = Alone(u)
  BY DEF Calmer, Quiet, Cleared, Alone, Kinds
<1>3. \A u \in Units : call'.asked[u] # Off /\ Alone(u)' => Pending("units", u)' \/ Cleared(u)'
  <2> SUFFICES ASSUME NEW u \in Units, call.asked[u] # Off, Alone(u), ~Pending("units", u)'
               PROVE  Cleared(u)'
    BY <1>2 DEF Onward
  <2>1. CASE Pending("units", u)
    <3>1. u = call.unit /\ After(call.steps) = "end" /\ call.phase = "units"
      BY <1>1, <2>1, PendingOnward
    <3> QED BY <3>1 DEF Cleared, Quiet, Onward
  <2>2. CASE ~Pending("units", u)
    BY <1>2, <2>2 DEF UninstallInv
  <2> QED BY <2>1, <2>2
<1>4. (call.phase = "units" /\ AtStep("remove-service") /\ Alone(call.unit) => Quiet(call.unit))'
  BY <1>1 DEF Onward, Alone, Calmer, Quiet
<1>5. ASSUME backend' = "systemd", call'.phase # "units", NEW j \in Jobs PROVE Swept(j)'
  <2>1. Swept(j) /\ j \in Units
    BY <1>5 DEF Onward, Calmer, UninstallInv, Units
  <2>2. Pending("timers", j)' \/ (Quiet(j)' /\ ~Owned(file'[j]["timer"]))
    <3>1. CASE Pending("timers", j) /\ ~Pending("timers", j)'
      <4>1. j = call.unit /\ After(call.steps) = "end" /\ call.phase = "timers"
        BY <1>1, <3>1, PendingOnward
      <4> QED BY <4>1 DEF Quiet, Onward
    <3>2. CASE ~Pending("timers", j)
      BY <1>2, <2>1, <3>2 DEF Swept, Kinds
    <3> QED BY <3>1, <3>2
  <2>3. call'.phase = "timers" \/ Pending("services", j)' \/ ~Owned(file'[j]["service"])
    <3>1. CASE Pending("services", j) /\ ~Pending("services", j)'
      <4>1. j = call.unit /\ After(call.steps) = "end" /\ call.phase = "services"
        BY <1>1, <3>1, PendingOnward
      <4> QED BY <4>1 DEF Quiet, Onward
    <3>2. CASE ~Pending("services", j)
      BY <1>2, <2>1, <3>2 DEF Swept, Kinds, Onward
    <3> QED BY <3>1, <3>2
  <2> QED BY <2>2, <2>3 DEF Swept
<1> QED BY <1>3, <1>4, <1>5 DEF UninstallInv

LEMMA BeginUninstall ==
  ASSUME Inv, NEW op \in {"install", "uninstall"}, NEW driver \in {"daemon", "os-scheduler"},
         Begin(op, driver)
  PROVE  UninstallInv'
<1>1. /\ call'.todo = Requested(driver) /\ call'.phase = "units" /\ call'.steps = <<>>
      /\ \A u \in Units : call'.asked[u] # Off => u \in Requested(driver)
  BY DEF Begin, NoCall
<1> QED BY <1>1 DEF UninstallInv, Pending, AtStep

LEMMA TurnUninstall ==
  ASSUME Inv, CourseInv, UninstallInv, Running, call.phase # "reload", call.steps = <<>>,
         NEW u \in call.todo,
         call' = [call EXCEPT !.todo = @ \ {u}, !.unit = u,
                              !.steps = Steps(call.op, call.phase, u)],
         UNCHANGED <<backend, file, armed, slipped>>
  PROVE  UninstallInv'
<1>1. /\ call'.steps # <<>> /\ call'.unit = u
      /\ call'.todo = call.todo \ {u} /\ call'.phase = call.phase /\ call'.op = call.op
      /\ call'.asked = call.asked /\ call'.clean = call.clean
      /\ call.phase = "units" /\ call.op = "uninstall" => ~AtStep("remove-service")'
  BY TurnKeeps
<1>2. \A phase, v : Pending(phase, v)' = Pending(phase, v)
  BY <1>1 DEF Pending
<1>3. \A v : Cleared(v)' = Cleared(v) /\ Quiet(v)' = Quiet(v) /\ Alone(v)' = Alone(v)
  BY DEF Cleared, Quiet, Alone
<1>4. \A j : Swept(j)' = Swept(j)
  BY <1>1, <1>2, <1>3 DEF Swept
<1> QED BY <1>1, <1>2, <1>3, <1>4 DEF UninstallInv

\* The next phase of an uninstall begins with what the last one has left.
LEMMA PhaseUninstall ==
  ASSUME Inv, CourseInv, UninstallInv, Running, call.steps = <<>>,
         call.phase # "reload" => call.todo = {},
         call' = [call EXCEPT !.phase = AfterPhase(call.op, call.phase),
                              !.todo = UnitsOf(AfterPhase(call.op, call.phase))],
         UNCHANGED <<backend, file, armed, slipped>>
  PROVE  UninstallInv'
<1>1. /\ call'.steps = <<>> /\ call'.op = call.op /\ call'.phase = AfterPhase(call.op, call.phase)
      /\ call'.todo = UnitsOf(call'.phase) /\ call'.asked = call.asked
      /\ call'.clean = call.clean
  BY PhaseKeeps
<1>2. SUFFICES ASSUME call.op = "uninstall", call.clean PROVE UninstallInv'
  BY <1>1 DEF UninstallInv
<1>3. call'.phase \in {"idle", "timers", "services", "reload"}
  BY <1>1, <1>2 DEF AfterPhase
<1>4. \A u : ~Pending("units", u)
  BY <1>2 DEF Pending, Running
<1>5. \A v : Cleared(v)' = Cleared(v) /\ Quiet(v)' = Quiet(v) /\ Alone(v)' = Alone(v)
  BY DEF Cleared, Quiet, Alone
<1>6. ASSUME backend = "systemd", NEW j \in Jobs PROVE Swept(j)'
  <2>1. call.phase \in {"units", "timers", "services", "reload"} /\ j \in Units /\ file \in [Units -> Files]
    BY <1>2 DEF Inv, TypeOK, CallState, Running, CourseInv, PhaseInv, Units, Files
  <2>2. CASE call.phase = "units"
    <3>1. call'.phase = "timers" /\ call'.todo = Globbed("timer")
      BY <1>1, <1>2, <1>6, <2>2 DEF AfterPhase, UnitsOf
    <3>2. file[j]["timer"] = None => Quiet(j) /\ ~Owned(file[j]["timer"])
      BY <1>6 DEF Inv, TimerInv, Quiet, Owned
    <3> QED BY <1>5, <3>1, <3>2 DEF Swept, Pending, Globbed
  <2>3. CASE call.phase = "timers"
    <3>1. call'.phase = "services" /\ call'.todo = Globbed("service")
      BY <1>1, <1>2, <1>6, <2>3 DEF AfterPhase, UnitsOf
    <3>2. Quiet(j) /\ ~Owned(file[j]["timer"])
      BY <1>2, <1>6, <2>3 DEF UninstallInv, Swept, Pending
    <3> QED BY <1>5, <3>1, <3>2 DEF Swept, Pending, Globbed, Owned
  <2>4. CASE call.phase \in {"services", "reload"}
    <3>1. Quiet(j) /\ ~Owned(file[j]["timer"]) /\ ~Owned(file[j]["service"])
      BY <1>2, <1>6, <2>4 DEF UninstallInv, Swept, Pending
    <3> QED BY <1>5, <3>1 DEF Swept
  <2> QED BY <2>1, <2>2, <2>3, <2>4
<1>7. \A u \in Units : call.asked[u] # Off /\ Alone(u) => Cleared(u)
  BY <1>2, <1>4 DEF UninstallInv
<1> QED BY <1>1, <1>3, <1>5, <1>6, <1>7 DEF UninstallInv

\* The unit is stopped, or counted among those that were not.
LEMMA DisableUninstall == ASSUME Inv, CourseInv, UninstallInv, Disable PROVE UninstallInv'
<1>1. /\ AtStep("disable") /\ call.steps # <<>> /\ call.unit \in Units /\ call \in CallState
      /\ call' = Done /\ UNCHANGED <<backend, want, file, counters>>
  BY DEF Disable, AtStep, Inv, TypeOK, CallState
<1>2. Onward /\ call'.clean = call.clean
  BY <1>1, DoneIsOnward
<1>3. SUFFICES ASSUME call.op = "uninstall", call.clean PROVE UninstallInv'
  BY <1>2 DEF UninstallInv, Onward
<1>4. Calmer /\ Quiet(call.unit)'
  BY <1>1, <1>2 DEF Disable, Calmer, Quiet, Onward
<1>5. After(call.steps) # "end"
  BY <1>1, <1>3, CourseKnown DEF CourseInv, Course, AtStep
<1> QED BY <1>1, <1>2, <1>3, <1>4, <1>5, ClearsOnward

\* schtasks keeps no files: the task is all there is.
LEMMA DeleteUninstall == ASSUME Inv, CourseInv, UninstallInv, Delete PROVE UninstallInv'
<1>1. /\ AtStep("delete") /\ call.steps # <<>> /\ call.unit \in Units /\ call \in CallState
      /\ call' = Done /\ UNCHANGED <<backend, want, file, slipped, counters>>
      /\ armed' = armed \ {call.unit}
  BY DEF Delete, AtStep, Inv, TypeOK, CallState
<1>2. Onward /\ call'.clean = call.clean
  BY <1>1, DoneIsOnward
<1>3. SUFFICES ASSUME call.op = "uninstall", call.clean PROVE UninstallInv'
  BY <1>2 DEF UninstallInv, Onward
<1>4. Calmer /\ Quiet(call.unit)'
  BY <1>1, <1>2 DEF Calmer, Quiet, Onward
<1>5. After(call.steps) = "end" /\ call.phase = "units" /\ backend = "schtasks"
  BY <1>1, CourseKnown DEF CourseInv, Course, AtStep
<1>6. Cleared(call.unit)'
  BY <1>1, <1>2, <1>4, <1>5 DEF Cleared, CourseInv, FileInv, Onward
<1> QED BY <1>1, <1>2, <1>3, <1>4, <1>5, <1>6, ClearsOnward

\* The last file of a unit goes when the unit is quiet.
LEMMA RemoveUninstall ==
  ASSUME Inv, CourseInv, UninstallInv, NEW kind \in Kinds, RemoveFenced(kind)
  PROVE  UninstallInv'
<1>1. /\ AtStep(Removing(kind)) /\ call.steps # <<>> /\ call.unit \in Units /\ call \in CallState
      /\ call' = Done /\ UNCHANGED <<backend, want, os, slipped, counters>>
      /\ file \in [Units -> Files]
  BY DEF RemoveFenced, AtStep, Inv, TypeOK, CallState, Files
<1>2. Onward /\ call'.clean = call.clean
  BY <1>1, DoneIsOnward
<1>3. SUFFICES ASSUME call.op = "uninstall", call.clean PROVE UninstallInv'
  BY <1>2 DEF UninstallInv, Onward
<1>4. Calmer
  BY <1>1, NotOwnedStays DEF Calmer, os
<1>5. ~Owned(file'[call.unit][kind])
  <2>1. CASE kind = "service"
    BY <1>1, <2>1 DEF RemoveFenced, Removable, Files, Owned
  <2>2. CASE kind = "timer"
    BY <1>1, <2>2 DEF RemoveFenced, Removable, Files, Owned
  <2> QED BY <2>1, <2>2 DEF Kinds
<1>6. Quiet(call.unit) => Quiet(call.unit)'
  BY <1>2, <1>4 DEF Calmer, Quiet, Onward
<1>7. Course(Head(call.steps), After(call.steps))
  BY <1>1, CourseKnown DEF CourseInv
<1>8. CASE kind = "service"
  <2>1. AtStep("remove-service") /\ After(call.steps) = "end" /\ call.phase # "timers"
    BY <1>1, <1>3, <1>7, <1>8 DEF Course, AtStep, Removing
  <2>2. ASSUME call.phase = "units", Alone(call.unit) PROVE Cleared(call.unit)'
    <3>1. Quiet(call.unit)'
      BY <1>3, <1>6, <2>1, <2>2 DEF UninstallInv
    <3>2. ~Owned(file'[call.unit]["timer"])
      BY <1>1, <1>4, <2>2 DEF CourseInv, FileInv, Alone, Calmer, Kinds
    <3> QED BY <1>2, <1>5, <1>8, <3>1, <3>2 DEF Cleared, Onward
  <2> QED BY <1>1, <1>2, <1>3, <1>4, <1>5, <1>8, <2>1, <2>2, ClearsOnward
<1>9. CASE kind = "timer"
  <2>1. AtStep("remove-timer") /\ backend = "systemd" /\ call.unit # Daemon /\ call.phase # "services"
        /\ (call.phase = "units" => After(call.steps) # "end")
    BY <1>1, <1>3, <1>7, <1>9 DEF Course, AtStep, Removing
  <2>2. Quiet(call.unit)' /\ ~Alone(call.unit)
    BY <1>6, <2>1 DEF Inv, TimerInv, Quiet, Alone
  <2> QED BY <1>1, <1>2, <1>3, <1>4, <1>5, <1>9, <2>1, <2>2, ClearsOnward
<1> QED BY <1>8, <1>9 DEF Kinds

LEMMA UninstallNext == Inv /\ CourseInv /\ UninstallInv /\ [Next]_vars => UninstallInv'
<1> SUFFICES ASSUME Inv, CourseInv, UninstallInv, [Next]_vars PROVE UninstallInv'
  OBVIOUS
<1>1. call \in CallState
  BY DEF Inv, TypeOK
<1>2. CASE ~call'.clean \/ call'.op # "uninstall"
  BY <1>2 DEF UninstallInv
<1>3. CASE Proceed
  <2>1. UNCHANGED <<backend, file, armed, slipped>>
    BY <1>3 DEF Proceed, os
  <2> QED BY <1>3, <2>1, TurnUninstall, PhaseUninstall DEF Proceed
<1>4. CASE Reload
  <2>1. Running /\ call.steps = <<>> /\ UNCHANGED <<backend, file, armed, slipped>>
    BY <1>4 DEF Reload, Running, Inv, CallInv
  <2> QED BY <1>4, <2>1, PhaseUninstall DEF Reload
<1>5. CASE Translate \/ Enable \/ Create \/ \E kind \in Kinds : WriteFenced(kind)
  <2>1. PICK name \in {"translate", "enable", "create", "write-service", "write-timer"} :
          AtStep(name)
    BY <1>5 DEF Translate, Enable, Create, WriteFenced, Writing
  <2>2. call.op = "install"
    BY <2>1, CourseKnown DEF CourseInv, Course, AtStep
  <2>3. call'.op = call.op
    BY <1>1, <1>5 DEF Translate, Enable, Create, WriteFenced, Placed, Done, Unclean, CallState
  <2> QED BY <2>2, <2>3 DEF UninstallInv
<1>6. CASE CommandFails \/ Kill \/ \E kind \in Kinds : WriteFails(kind) \/ RemoveFails(kind)
  <2>1. ~call'.clean
    BY <1>1, <1>6 DEF CommandFails, Kill, WriteFails, RemoveFails, Unclean, Done, CallState
  <2> QED BY <2>1 DEF UninstallInv
<1>7. CASE UNCHANGED <<file, backend, call, armed, slipped>>
  <2>1. \A j : Swept(j)' = Swept(j)
    BY <1>7 DEF Swept, Pending, Quiet
  <2> QED BY <1>7, <2>1 DEF UninstallInv, Pending, Quiet, Cleared, Alone, AtStep, Running
<1> QED BY <1>3, <1>4, <1>5, <1>6, <1>7, BeginUninstall, DisableUninstall, DeleteUninstall,
           RemoveUninstall DEF Next, Step, Edit, vars, Kinds, os

-----------------------------------------------------------------------------
(***************************************************************************)
(* What an install has done when it is half way.                           *)
(***************************************************************************)
\* The text that is to arm the unit is a translation of the schedule it was asked for.
Fits(u, text) == u # Daemon => text \in Translations(call.asked[u]) \ {Untranslatable}

Refused(u) == u # Daemon /\ Untranslatable \in Translations(call.asked[u])

\* The OS scheduler starts the unit, by the file it has.
Live(u) == u \in armed /\ (backend # "schtasks" => known[u] = Armer(u))

\* The file of a unit that is placed, or its task, is what was asked for, and once the command is
\* through with it, it is live.
Arranged(u) ==
  /\ backend # "schtasks" => Owned(Armer(u)) /\ Fits(u, Armer(u))
  /\ backend = "schtasks" => Live(u) /\ Fits(u, known[u])
  /\ backend = "launchd" => Pending("units", u) \/ Live(u)
  /\ backend = "systemd" /\ call.phase \in {"enable", "idle"} => Pending("enable", u) \/ Live(u)

\* What launchd's agent of the unit under way has come to: it is placed when it is written, and
\* loaded when the old one is gone.
TurnInv ==
  /\ AtStep("write-service") \/ AtStep("write-timer") \/ AtStep("create") =>
       Fits(call.unit, call.text)
  /\ call.phase = "units" /\ call.steps # <<>> =>
       call.unit \notin call.todo /\ call.asked[call.unit] # Off
  /\ call.phase = "units" /\ call.steps # <<>> /\ call.unit \in call.placed =>
       AtStep("disable") \/ AtStep("enable")
  /\ call.phase = "units" /\ (AtStep("disable") \/ AtStep("enable")) => call.unit \in call.placed
  /\ call.phase = "units" /\ AtStep("enable") => call.unit \notin armed

\* An install that went well so far has placed the units it is through with, unless it may refuse
\* them, and arranged what it has placed.
InstallInv ==
  call.op = "install" /\ call.clean =>
    /\ TurnInv
    /\ call.phase = "units" => call.todo \cap call.placed = {}
    /\ \A u \in Units : call.asked[u] # Off =>
         Pending("units", u) \/ u \in call.placed \/ Refused(u)
    /\ \A u \in call.placed : call.asked[u] # Off /\ Arranged(u)

LEMMA BeginInstall ==
  ASSUME Inv, NEW op \in {"install", "uninstall"}, NEW driver \in {"daemon", "os-scheduler"},
         Begin(op, driver)
  PROVE  InstallInv'
<1>1. /\ call'.todo = Requested(driver) /\ call'.phase = "units" /\ call'.steps = <<>>
      /\ \A u \in Units : call'.asked[u] # Off => u \in Requested(driver)
      /\ call'.placed = {}
  BY DEF Begin, NoCall
<1> QED BY <1>1 DEF InstallInv, TurnInv, Pending, AtStep

LEMMA TurnInstall ==
  ASSUME Inv, CourseInv, InstallInv, Running, call.phase # "reload", call.steps = <<>>,
         NEW u \in call.todo,
         call' = [call EXCEPT !.todo = @ \ {u}, !.unit = u,
                              !.steps = Steps(call.op, call.phase, u)],
         UNCHANGED <<backend, file, armed, known>>
  PROVE  InstallInv'
<1>1. /\ call'.steps # <<>> /\ call'.unit = u
      /\ call'.todo = call.todo \ {u} /\ call'.phase = call.phase /\ call'.op = call.op
      /\ call'.asked = call.asked /\ call'.placed = call.placed /\ call'.clean = call.clean
      /\ call.op = "install" /\ call.phase = "units" =>
           ~AtStep("disable")' /\ ~AtStep("enable")' /\ ~AtStep("create")'
           /\ ~AtStep("write-timer")' /\ (AtStep("write-service")' => u = Daemon)
  BY TurnKeeps
<1>2. SUFFICES ASSUME call.op = "install", call.clean PROVE InstallInv'
  BY <1>1 DEF InstallInv
<1>3. \A phase, v : Pending(phase, v)' = Pending(phase, v)
  BY <1>1 DEF Pending
<1>4. \A v : Live(v)' = Live(v) /\ Armer(v)' = Armer(v) /\ Refused(v)' = Refused(v)
             /\ (\A t : Fits(v, t)' = Fits(v, t))
  BY <1>1 DEF Live, Armer, Kind, Fits, Refused, Translations
<1>5. \A v \in call.placed : Arranged(v)'
  BY <1>1, <1>2, <1>3, <1>4 DEF InstallInv, Arranged
<1>6. TurnInv'
  <2>1. CASE call.phase = "units"
    <3>1. u \notin call.placed /\ call.asked[u] # Off
      BY <1>2, <2>1 DEF InstallInv, Inv, CallInv
    <3>2. AtStep("write-service")' => Fits(call.unit, call.text)'
      BY <1>1, <1>2, <2>1 DEF Fits
    <3> QED BY <1>1, <1>2, <2>1, <3>1, <3>2 DEF TurnInv
  <2>2. CASE call.phase # "units"
    <3>1. call.phase = "enable"
      BY <1>2, <2>2 DEF CourseInv, PhaseInv, Inv, TypeOK, CallState, Running
    <3>2. call'.steps = <<"enable">>
      <4>1. call.unit \in Units /\ call'.steps = Steps(call.op, call.phase, u)
        BY DEF Inv, TypeOK, CallState
      <4> QED BY <3>1, <4>1 DEF Steps
    <3> QED BY <1>1, <2>2, <3>2, Singles DEF TurnInv, AtStep, At
  <2> QED BY <2>1, <2>2
<1> QED BY <1>1, <1>2, <1>3, <1>4, <1>5, <1>6 DEF InstallInv

\* systemd reads the files when they are all written, and starts the timers after that.
LEMMA PhaseInstall ==
  ASSUME Inv, CourseInv, InstallInv, Running, call.steps = <<>>,
         call.phase # "reload" => call.todo = {} /\ UNCHANGED known,
         call' = [call EXCEPT !.phase = AfterPhase(call.op, call.phase),
                              !.todo = UnitsOf(AfterPhase(call.op, call.phase))],
         UNCHANGED <<backend, file, armed>>
  PROVE  InstallInv'
<1>1. /\ call'.steps = <<>> /\ call'.op = call.op /\ call'.phase = AfterPhase(call.op, call.phase)
      /\ call'.todo = UnitsOf(call'.phase) /\ call'.asked = call.asked
      /\ call'.placed = call.placed /\ call'.clean = call.clean
  BY PhaseKeeps
<1>2. SUFFICES ASSUME call.op = "install", call.clean PROVE InstallInv'
  BY <1>1 DEF InstallInv
<1>3. /\ call.phase \in {"units", "reload", "enable"}
      /\ backend \in {"systemd", "launchd", "schtasks"}
  BY <1>2, ServiceAssumption DEF Inv, TypeOK, CallState, Running, CourseInv, PhaseInv
<1>4. \/ call.phase = "units" /\ backend = "systemd" /\ call'.phase = "reload"
      \/ call.phase = "units" /\ backend # "systemd" /\ call'.phase = "idle"
      \/ call.phase = "reload" /\ backend = "systemd" /\ call'.phase = "enable"
         /\ call'.todo = call.placed
      \/ call.phase = "enable" /\ backend = "systemd" /\ call'.phase = "idle"
  BY <1>1, <1>2, <1>3 DEF AfterPhase, UnitsOf, CourseInv, PhaseInv
<1>5. TurnInv'
  BY <1>1 DEF TurnInv, AtStep
<1>6. \A u : ~Pending("units", u)
  BY <1>4 DEF Pending
<1>7. \A v : Armer(v)' = Armer(v) /\ Refused(v)' = Refused(v)
             /\ (\A t : Fits(v, t)' = Fits(v, t))
  BY <1>1 DEF Armer, Kind, Fits, Refused, Translations
<1>8. ASSUME NEW v \in call.placed PROVE Arranged(v)'
  <2>1. Arranged(v)
    BY <1>2 DEF InstallInv
  <2>2. CASE call.phase = "reload"
    BY <1>1, <1>4, <1>7, <2>1, <2>2 DEF Arranged, Pending
  <2>3. CASE call.phase # "reload"
    <3>1. Live(v)' = Live(v)
      BY <1>7, <2>3 DEF Live
    <3>2. backend = "systemd" /\ call.phase = "enable" => Live(v)
      BY <2>1, <2>3 DEF Arranged, Pending
    <3>3. backend = "launchd" => Live(v)
      BY <1>6, <2>1 DEF Arranged
    <3>4. known' = known
      BY <2>3
    <3>5. backend # "schtasks" => (Owned(Armer(v)) /\ Fits(v, Armer(v)))'
      BY <1>7, <2>1 DEF Arranged
    <3>6. backend = "schtasks" => (Live(v) /\ Fits(v, known[v]))'
      BY <1>7, <2>1, <3>1, <3>4 DEF Arranged
    <3>7. backend = "launchd" => Live(v)'
      BY <3>1, <3>3
    <3>8. backend = "systemd" /\ call'.phase \in {"enable", "idle"} => Live(v)'
      BY <1>4, <2>3, <3>1, <3>2
    <3> QED BY <3>5, <3>6, <3>7, <3>8 DEF Arranged
  <2> QED BY <2>2, <2>3
<1>9. \A u \in Units : call.asked[u] # Off => u \in call.placed \/ Refused(u)
  BY <1>2, <1>6 DEF InstallInv
<1>10. call'.phase # "units"
  BY <1>4
<1> QED BY <1>1, <1>5, <1>7, <1>8, <1>9, <1>10 DEF InstallInv

\* A step for one unit leaves the others as they were.
LEMMA OthersArranged ==
  ASSUME Onward, call.steps # <<>>, NEW v \in Units, Arranged(v), v # call.unit,
         UNCHANGED backend, Armer(v)' = Armer(v), v \in armed' <=> v \in armed,
         known'[v] = known[v]
  PROVE  Arranged(v)'
<1>1. \A phase : Pending(phase, v)' = Pending(phase, v)
  BY DEF Pending, Onward
<1>2. /\ Live(v)' = Live(v) /\ (\A t : Fits(v, t)' = Fits(v, t))
      /\ call'.phase = call.phase
  BY DEF Live, Fits, Translations, Onward
<1>3. backend # "schtasks" => (Owned(Armer(v)) /\ Fits(v, Armer(v)))'
  BY <1>2 DEF Arranged
<1>4. backend = "schtasks" => (Live(v) /\ Fits(v, known[v]))'
  BY <1>2 DEF Arranged
<1>5. (backend = "launchd" => Pending("units", v) \/ Live(v))'
  BY <1>1, <1>2 DEF Arranged
<1>6. (backend = "systemd" /\ call.phase \in {"enable", "idle"} => Pending("enable", v) \/ Live(v))'
  BY <1>1, <1>2 DEF Arranged
<1> QED BY <1>3, <1>4, <1>5, <1>6 DEF Arranged

\* What a step of an install owes, for the unit it is at: the rest is as it was.
LEMMA ArrangesOnward ==
  ASSUME Inv, CourseInv, InstallInv, call.op = "install", call.clean, call.steps # <<>>,
         UNCHANGED backend, Onward, TurnInv',
         call'.placed \in {call.placed, call.placed \cup {call.unit}},
         call'.placed # call.placed => call.phase = "units" /\ call.unit \notin call.todo,
         After(call.steps) = "end" /\ call.phase = "units" =>
           call.unit \in call'.placed \/ Refused(call.unit),
         \A v \in call'.placed : Arranged(v)'
  PROVE  InstallInv'
<1>1. call'.steps = <<>> <=> After(call.steps) = "end"
  BY OnwardKeeps
<1>2. (call.phase = "units" => call.todo \cap call.placed = {})'
  BY DEF InstallInv, Onward
<1>3. (\A u \in Units : call.asked[u] # Off =>
         Pending("units", u) \/ u \in call.placed \/ Refused(u))'
  <2> SUFFICES ASSUME NEW u \in Units, call.asked[u] # Off, ~Pending("units", u)',
                      u \notin call'.placed
               PROVE  Refused(u)'
    BY DEF Onward
  <2>1. Refused(u)' = Refused(u)
    BY DEF Refused, Translations, Onward
  <2>2. CASE Pending("units", u)
    <3>1. u = call.unit /\ After(call.steps) = "end" /\ call.phase = "units"
      BY <1>1, <2>2, PendingOnward
    <3> QED BY <2>1, <3>1
  <2>3. CASE ~Pending("units", u)
    BY <2>1, <2>3 DEF InstallInv
  <2> QED BY <2>2, <2>3
<1>4. (\A u \in call.placed : call.asked[u] # Off)'
  BY DEF InstallInv, TurnInv, Onward
<1> QED BY <1>2, <1>3, <1>4 DEF InstallInv

\* A schedule is translated, or may be refused.
LEMMA TranslateInstall == ASSUME Inv, CourseInv, InstallInv, Translate PROVE InstallInv'
<1>1. /\ AtStep("translate") /\ call.steps # <<>> /\ call.unit \in Units /\ call \in CallState
      /\ UNCHANGED <<backend, want, file, os, slipped, counters>>
  BY DEF Translate, AtStep, Inv, TypeOK, CallState
<1>2. PICK text \in IF call.unit = Daemon THEN {Program} ELSE Translations(call.asked[call.unit]) :
        call' = IF text = Untranslatable THEN [call EXCEPT !.steps = <<>>]
                ELSE [Done EXCEPT !.text = text]
  BY DEF Translate
<1>3. /\ Course("translate", After(call.steps)) /\ call.op = "install" /\ call.phase = "units"
      /\ After(call.steps) \in {"write-service", "create"}
  BY <1>1, CourseKnown DEF CourseInv, Course, AtStep
<1>4. SUFFICES ASSUME call.clean PROVE InstallInv'
  BY <1>1, <1>2 DEF InstallInv, Done, CallState
<1>5. call.unit \notin call.placed /\ call.unit \notin call.todo /\ call.asked[call.unit] # Off
  BY <1>1, <1>3, <1>4 DEF InstallInv, TurnInv, AtStep
<1>6. \A v : Armer(v)' = Armer(v)
  BY <1>1 DEF Armer, Kind
<1>7. call.placed \subseteq Units
  BY <1>1 DEF CallState
<1>8. CASE text = Untranslatable
  <2>1. /\ call'.steps = <<>> /\ call'.phase = call.phase /\ call'.op = call.op
        /\ call'.todo = call.todo /\ call'.asked = call.asked /\ call'.placed = call.placed
        /\ call'.unit = call.unit /\ call'.clean = call.clean
    BY <1>1, <1>2, <1>8 DEF CallState
  <2>2. Refused(call.unit)
    BY <1>2, <1>8, MarkAssumption DEF Refused
  <2>3. \A v, phase : v # call.unit => Pending(phase, v)' = Pending(phase, v)
    BY <2>1 DEF Pending
  <2>4. \A v : /\ Refused(v)' = Refused(v) /\ Live(v)' = Live(v)
               /\ \A t : Fits(v, t)' = Fits(v, t)
    BY <1>1, <1>6, <2>1 DEF Refused, Live, Fits, Translations, os
  <2>5. ASSUME NEW v \in call.placed PROVE Arranged(v)'
    BY <1>1, <1>3, <1>4, <1>5, <1>6, <2>1, <2>3, <2>4 DEF InstallInv, Arranged, os
  <2>6. ASSUME NEW u \in Units, call.asked[u] # Off
        PROVE  Pending("units", u)' \/ u \in call.placed \/ Refused(u)
    BY <1>3, <1>4, <2>2, <2>3, <2>6 DEF InstallInv
  <2>7. TurnInv'
    BY <2>1 DEF TurnInv, AtStep
  <2> QED BY <1>3, <1>4, <2>1, <2>4, <2>5, <2>6, <2>7 DEF InstallInv
<1>9. CASE text # Untranslatable
  <2>1. Onward /\ call'.placed = call.placed /\ call'.text = text /\ call'.clean = call.clean
    BY <1>1, <1>2, <1>9, DoneIsOnward
  <2>2. \A name : AtStep(name)' => After(call.steps) = name
    BY <1>1, <2>1, OnwardKeeps
  <2>3. Fits(call.unit, text)
    BY <1>2, <1>9 DEF Fits
  <2>4. TurnInv'
    <3>1. Fits(call.unit, call.text)'
      BY <1>1, <2>1, <2>3 DEF Fits, Onward, Translations
    <3>2. ~AtStep("disable")' /\ ~AtStep("enable")'
      BY <1>3, <2>2
    <3> QED BY <1>5, <2>1, <3>1, <3>2 DEF TurnInv, Onward
  <2>5. \A v \in call'.placed : Arranged(v)'
    <3> SUFFICES ASSUME NEW v \in call.placed PROVE Arranged(v)'
      BY <2>1
    <3>1. Arranged(v) /\ v # call.unit /\ v \in Units
      BY <1>3, <1>4, <1>5, <1>7 DEF InstallInv
    <3> QED BY <1>1, <1>6, <2>1, <3>1, OthersArranged DEF os
  <2> QED BY <1>1, <1>3, <1>4, <2>1, <2>4, <2>5, ArrangesOnward
<1> QED BY <1>8, <1>9

\* A file that is written is the one that was translated; the unit counts when it is the file by
\* which the unit is armed.
LEMMA WriteInstall ==
  ASSUME Inv, CourseInv, InstallInv, NEW kind \in Kinds, WriteFenced(kind)
  PROVE  InstallInv'
<1>1. /\ AtStep(Writing(kind)) /\ call.steps # <<>> /\ call.unit \in Units /\ call \in CallState
      /\ UNCHANGED <<backend, want, os, slipped, counters>> /\ file \in [Units -> Files]
  BY DEF WriteFenced, AtStep, Inv, TypeOK, CallState, Files
<1>2. /\ Course(Writing(kind), After(call.steps)) /\ call.op = "install" /\ call.phase = "units"
      /\ backend # "schtasks"
  BY <1>1, CourseKnown DEF CourseInv, Course, AtStep, Writing
<1>3. CASE ~Writable(file[call.unit][kind])
  BY <1>1, <1>3 DEF WriteFenced, InstallInv, Unclean, CallState
<1>4. SUFFICES ASSUME call.clean, file' = [file EXCEPT ![call.unit][kind] = Content(kind)],
                      call' = Placed(Done, kind)
               PROVE  InstallInv'
  <2>1. call.clean \/ ~call'.clean
    BY <1>1 DEF WriteFenced, Placed, Done, Unclean, CallState
  <2> QED BY <1>3, <1>4, <2>1 DEF WriteFenced, InstallInv
<1>5. /\ call.unit \notin call.placed /\ call.unit \notin call.todo
      /\ call.asked[call.unit] # Off
      /\ Fits(call.unit, call.text) /\ call.placed \subseteq Units
  BY <1>1, <1>2, <1>4 DEF InstallInv, TurnInv, AtStep, Writing, CallState
<1>6. \A v \in Units, k \in Kinds :
        file'[v][k] = IF v = call.unit /\ k = kind THEN Content(kind) ELSE file[v][k]
  <2>1. CASE kind = "service"
    BY <1>1, <1>4, <2>1 DEF Files, Kinds
  <2>2. CASE kind = "timer"
    BY <1>1, <1>4, <2>2 DEF Files, Kinds
  <2> QED BY <2>1, <2>2 DEF Kinds
<1>7. Done.unit = call.unit
  BY <1>1 DEF Done, CallState
<1>8. \A v \in Units : v # call.unit => Armer(v)' = Armer(v)
  BY <1>1, <1>6 DEF Armer, Kind, Kinds
<1>9. CASE kind = Kind(call.unit)
  <2>1. call' = [Done EXCEPT !.placed = @ \cup {call.unit}]
    BY <1>4, <1>7, <1>9 DEF Placed
  <2>2. Onward /\ call'.placed = call.placed \cup {call.unit} /\ call'.text = call.text
        /\ call'.clean = call.clean
    BY <1>1, <2>1, DoneIsOnward
  <2>3. /\ \A name : AtStep(name)' => After(call.steps) = name
        /\ call'.steps = <<>> <=> After(call.steps) = "end"
        /\ After(call.steps) = "disable" => AtStep("disable")'
    BY <1>1, <2>2, OnwardKeeps
  <2>4. \/ backend = "launchd" /\ After(call.steps) = "disable"
        \/ backend = "systemd" /\ After(call.steps) = "end"
    BY <1>2, <1>9 DEF Course, Kind, Writing
  <2>5. TurnInv'
    <3>1. CASE After(call.steps) = "disable"
      BY <1>5, <2>2, <2>3, <3>1 DEF TurnInv, Onward
    <3>2. CASE call'.steps = <<>>
      BY <3>2 DEF TurnInv, AtStep
    <3> QED BY <2>3, <2>4, <3>1, <3>2
  <2>6. Armer(call.unit)' = call.text /\ Owned(call.text)
    <3>1. Content(kind) = call.text
      BY <1>9 DEF Content
    <3>2. Owned(call.text)
      BY <3>1, ContentIsText DEF Owned
    <3> QED BY <1>1, <1>6, <1>9, <2>2, <3>1, <3>2 DEF Armer, Kind, Onward
  <2>7. Arranged(call.unit)'
    <3>1. (Owned(Armer(call.unit)) /\ Fits(call.unit, Armer(call.unit)))'
      BY <1>1, <1>5, <2>2, <2>6 DEF Fits, Translations, Onward, Owned
    <3>2. (backend = "launchd" => Pending("units", call.unit))'
      BY <1>1, <1>2, <2>2, <2>3, <2>4 DEF Pending, Onward
    <3> QED BY <1>1, <1>2, <2>2, <3>1, <3>2 DEF Arranged, Onward
  <2>8. \A v \in call'.placed : Arranged(v)'
    <3> SUFFICES ASSUME NEW v \in call.placed PROVE Arranged(v)'
      BY <2>2, <2>7 DEF Onward
    <3>1. Arranged(v) /\ v # call.unit /\ v \in Units
      BY <1>2, <1>4, <1>5 DEF InstallInv
    <3> QED BY <1>1, <1>8, <2>2, <3>1, OthersArranged DEF os
  <2> QED BY <1>1, <1>2, <1>4, <1>5, <2>2, <2>5, <2>8, ArrangesOnward
<1>10. CASE kind # Kind(call.unit)
  <2>1. call' = Done
    BY <1>4, <1>7, <1>10 DEF Placed
  <2>2. Onward /\ call'.placed = call.placed /\ call'.text = call.text
        /\ call'.clean = call.clean
    BY <1>1, <2>1, DoneIsOnward
  <2>3. \A name : AtStep(name)' => After(call.steps) = name
    BY <1>1, <2>2, OnwardKeeps
  <2>4. After(call.steps) = "write-timer"
    BY <1>2, <1>10 DEF Course, Kind, Writing, Kinds
  <2>5. TurnInv'
    <3>1. Fits(call.unit, call.text)'
      BY <1>1, <1>5, <2>2 DEF Fits, Onward, Translations
    <3>2. ~AtStep("disable")' /\ ~AtStep("enable")'
      BY <2>3, <2>4
    <3> QED BY <1>5, <2>2, <3>1, <3>2 DEF TurnInv, Onward
  <2>6. \A v \in call'.placed : Arranged(v)'
    <3> SUFFICES ASSUME NEW v \in call.placed PROVE Arranged(v)'
      BY <2>2
    <3>1. Arranged(v) /\ v # call.unit /\ v \in Units
      BY <1>2, <1>4, <1>5 DEF InstallInv
    <3> QED BY <1>1, <1>8, <2>2, <3>1, OthersArranged DEF os
  <2> QED BY <1>1, <1>2, <1>4, <2>2, <2>4, <2>5, <2>6, ArrangesOnward
<1> QED BY <1>9, <1>10

\* launchctl unload is named the new file, and unloads the old agent.
LEMMA DisableInstall == ASSUME Inv, CourseInv, InstallInv, Disable PROVE InstallInv'
<1>1. /\ AtStep("disable") /\ call.steps # <<>> /\ call.unit \in Units /\ call \in CallState
      /\ call' = Done /\ UNCHANGED <<backend, want, file, counters>>
      /\ known \in [Units -> Texts \cup {None, Foreign}]
  BY DEF Disable, AtStep, Inv, TypeOK, CallState
<1>2. Onward /\ call'.placed = call.placed /\ call'.clean = call.clean
  BY <1>1, DoneIsOnward
<1>3. SUFFICES ASSUME call.op = "install", call.clean PROVE InstallInv'
  BY <1>2 DEF InstallInv, Onward
<1>4. After(call.steps) = "enable" /\ call.phase = "units" /\ backend = "launchd"
  BY <1>1, <1>3, CourseKnown DEF CourseInv, Course, AtStep
<1>5. /\ call.unit \in call.placed /\ call.unit \notin call.todo /\ call.placed \subseteq Units
      /\ call.asked[call.unit] # Off
  BY <1>1, <1>3, <1>4 DEF InstallInv, TurnInv, CallState
<1>6. Owned(Armer(call.unit)) /\ Fits(call.unit, Armer(call.unit))
  BY <1>3, <1>4, <1>5 DEF InstallInv, Arranged
<1>7. armed' = armed \ {call.unit} /\ known' = [known EXCEPT ![call.unit] = None]
  BY <1>4, <1>6 DEF Disable, Stoppable, Owned
<1>8. /\ \A name : AtStep(name)' => name = "enable"
      /\ AtStep("enable")' /\ call'.steps # <<>>
  BY <1>1, <1>2, <1>4, OnwardKeeps
<1>9. TurnInv'
  BY <1>2, <1>4, <1>5, <1>7, <1>8 DEF TurnInv, Onward
<1>10. \A v : Armer(v)' = Armer(v)
  BY <1>1 DEF Armer, Kind
<1>11. ASSUME NEW v \in call.placed PROVE Arranged(v)'
  <2>1. CASE v = call.unit
    <3>1. (Owned(Armer(v)) /\ Fits(v, Armer(v)))'
      BY <1>1, <1>2, <1>6, <1>10, <2>1 DEF Fits, Translations, Onward, Owned
    <3>2. Pending("units", v)'
      BY <1>2, <1>4, <1>8, <2>1 DEF Pending, Onward
    <3> QED BY <1>1, <1>4, <3>1, <3>2 DEF Arranged
  <2>2. CASE v # call.unit
    <3>1. Arranged(v) /\ v \in Units /\ (v \in armed' <=> v \in armed) /\ known'[v] = known[v]
      BY <1>1, <1>3, <1>5, <1>7, <2>2 DEF InstallInv
    <3> QED BY <1>1, <1>2, <1>10, <2>2, <3>1, OthersArranged
  <2> QED BY <2>1, <2>2
<1> QED BY <1>1, <1>2, <1>3, <1>4, <1>9, <1>11, ArrangesOnward

\* launchctl load finds the file, and no agent in its way; systemctl enable reads every file again
\* and finds those of the units that are placed.
LEMMA EnableInstall == ASSUME Inv, CourseInv, InstallInv, Enable PROVE InstallInv'
<1>1. /\ AtStep("enable") /\ call.steps # <<>> /\ call.unit \in Units /\ call \in CallState
      /\ UNCHANGED <<backend, want, file, slipped, counters>>
      /\ known \in [Units -> Texts \cup {None, Foreign}]
  BY DEF Enable, AtStep, Inv, TypeOK, CallState
<1>2. /\ After(call.steps) = "end" /\ call.op = "install"
      /\ \/ backend = "launchd" /\ call.phase = "units"
         \/ backend = "systemd" /\ call.phase = "enable"
  BY <1>1, CourseKnown DEF CourseInv, Course, AtStep
<1>3. SUFFICES ASSUME call.clean PROVE InstallInv'
  BY <1>1 DEF Enable, Placed, Done, InstallInv, CallState
<1>4. \A v : Armer(v)' = Armer(v)
  BY <1>1 DEF Armer, Kind
<1>5. call.placed \subseteq Units /\ \A v \in call.placed : Arranged(v) /\ Owned(Armer(v))
  BY <1>1, <1>2, <1>3 DEF InstallInv, Arranged, CallState
<1>6. CASE backend = "launchd"
  <2>1. call.unit \in call.placed /\ call.unit \notin call.todo /\ call.unit \notin armed
    BY <1>1, <1>2, <1>3, <1>6 DEF InstallInv, TurnInv
  <2>2. /\ armed' = armed \cup {call.unit}
        /\ known' = [known EXCEPT ![call.unit] = Armer(call.unit)]
    BY <1>5, <1>6, <2>1 DEF Enable, Owned
  <2>3. Onward /\ call'.placed = call.placed \cup {call.unit} /\ call'.clean = call.clean
    <3>1. Done.unit = call.unit /\ Kind(call.unit) = "service"
      BY <1>1, <1>6 DEF Done, CallState, Kind
    <3>2. call' = [Done EXCEPT !.placed = @ \cup {call.unit}]
      BY <1>6, <3>1 DEF Enable, Placed
    <3> QED BY <1>1, <3>2, DoneIsOnward
  <2>4. call'.placed = call.placed
    BY <2>1, <2>3
  <2>5. call'.steps = <<>>
    BY <1>1, <1>2, <2>3, OnwardKeeps
  <2>6. TurnInv'
    BY <2>5 DEF TurnInv, AtStep
  <2>7. ASSUME NEW v \in call.placed PROVE Arranged(v)'
    <3>1. CASE v = call.unit
      <4>1. (Owned(Armer(v)) /\ Fits(v, Armer(v)))'
        BY <1>1, <1>4, <1>5, <1>6, <2>3 DEF Arranged, Fits, Translations, Onward, Owned
      <4>2. Live(v)'
        BY <1>1, <1>4, <2>2, <3>1 DEF Live
      <4> QED BY <1>1, <1>6, <4>1, <4>2 DEF Arranged
    <3>2. CASE v # call.unit
      <4>1. v \in Units /\ (v \in armed' <=> v \in armed) /\ known'[v] = known[v]
        BY <1>1, <1>5, <2>2, <3>2
      <4> QED BY <1>1, <1>4, <1>5, <2>3, <3>2, <4>1, OthersArranged
    <3> QED BY <3>1, <3>2
  <2> QED BY <1>1, <1>2, <1>3, <2>1, <2>3, <2>4, <2>6, <2>7, ArrangesOnward
<1>7. CASE backend = "systemd"
  <2>1. Onward /\ call'.placed = call.placed /\ call'.clean = call.clean
    BY <1>1, <1>7, DoneIsOnward DEF Enable
  <2>2. call'.steps = <<>>
    BY <1>1, <1>2, <2>1, OnwardKeeps
  <2>3. TurnInv'
    BY <2>2 DEF TurnInv, AtStep
  <2>4. ASSUME NEW v \in call.placed PROVE Arranged(v)'
    <3>1. (Owned(Armer(v)) /\ Fits(v, Armer(v)))'
      BY <1>1, <1>4, <1>5, <1>7, <2>1, <2>4 DEF Arranged, Fits, Translations, Onward, Owned
    <3>2. known'[v] = Armer(v)
      BY <1>5, <1>7, <2>4 DEF Enable, Reread, Owned
    <3>3. armed \subseteq armed' /\ (v = call.unit => v \in armed')
      BY <1>5, <1>7, <2>4 DEF Enable, Owned
    <3>4. Pending("enable", v)' \/ Live(v)'
      <4>1. CASE Pending("enable", v) /\ v # call.unit
        BY <2>1, <4>1 DEF Pending, Onward
      <4>2. CASE ~Pending("enable", v)
        BY <1>1, <1>2, <1>4, <1>5, <1>7, <2>4, <3>2, <3>3, <4>2 DEF Arranged, Live
      <4>3. CASE v = call.unit
        BY <1>4, <3>2, <3>3, <4>3 DEF Live
      <4> QED BY <4>1, <4>2, <4>3
    <3> QED BY <1>1, <1>7, <3>1, <3>4 DEF Arranged
  <2> QED BY <1>1, <1>2, <1>3, <1>7, <2>1, <2>3, <2>4, ArrangesOnward
<1> QED BY <1>2, <1>6, <1>7

\* A task of schtasks replaces the one of its name.
LEMMA CreateInstall == ASSUME Inv, CourseInv, InstallInv, Create PROVE InstallInv'
<1>1. /\ AtStep("create") /\ call.steps # <<>> /\ call.unit \in Units /\ call \in CallState
      /\ call' = [Done EXCEPT !.placed = @ \cup {call.unit}]
      /\ UNCHANGED <<backend, want, file, slipped, counters>>
      /\ known \in [Units -> Texts \cup {None, Foreign}]
      /\ known' = [known EXCEPT ![call.unit] = call.text] /\ armed' = armed \cup {call.unit}
  BY DEF Create, AtStep, Inv, TypeOK, CallState
<1>2. /\ After(call.steps) = "end" /\ call.op = "install" /\ backend = "schtasks"
      /\ call.phase = "units"
  BY <1>1, CourseKnown DEF CourseInv, Course, AtStep
<1>3. Onward /\ call'.placed = call.placed \cup {call.unit} /\ call'.clean = call.clean
  BY <1>1, DoneIsOnward
<1>4. SUFFICES ASSUME call.clean PROVE InstallInv'
  BY <1>3 DEF InstallInv
<1>5. call'.steps = <<>>
  BY <1>1, <1>2, <1>3, OnwardKeeps
<1>6. TurnInv'
  BY <1>5 DEF TurnInv, AtStep
<1>7. call.unit \notin call.todo /\ Fits(call.unit, call.text) /\ call.placed \subseteq Units
  BY <1>1, <1>2, <1>4 DEF InstallInv, TurnInv, CallState
<1>8. \A v : Armer(v)' = Armer(v)
  BY <1>1 DEF Armer, Kind
<1>9. ASSUME NEW v \in call.placed \cup {call.unit} PROVE Arranged(v)'
  <2>1. CASE v = call.unit
    <3>1. (Live(v) /\ Fits(v, known[v]))'
      BY <1>1, <1>2, <1>3, <1>7, <2>1 DEF Live, Fits, Translations, Onward
    <3> QED BY <1>1, <1>2, <3>1 DEF Arranged
  <2>2. CASE v # call.unit
    <3>1. Arranged(v) /\ v \in Units /\ (v \in armed' <=> v \in armed) /\ known'[v] = known[v]
      BY <1>1, <1>2, <1>4, <1>7, <1>9, <2>2 DEF InstallInv
    <3> QED BY <1>1, <1>3, <1>8, <2>2, <3>1, OthersArranged
  <2> QED BY <2>1, <2>2
<1> QED BY <1>1, <1>2, <1>3, <1>4, <1>6, <1>7, <1>9, ArrangesOnward

LEMMA InstallNext == Inv /\ CourseInv /\ InstallInv /\ [Next]_vars => InstallInv'
<1> SUFFICES ASSUME Inv, CourseInv, InstallInv, [Next]_vars PROVE InstallInv'
  OBVIOUS
<1>1. call \in CallState
  BY DEF Inv, TypeOK
<1>2. CASE Proceed
  <2>1. UNCHANGED <<backend, file, armed, known>>
    BY <1>2 DEF Proceed, os
  <2> QED BY <1>2, <2>1, TurnInstall, PhaseInstall DEF Proceed
<1>3. CASE Reload
  <2>1. Running /\ call.steps = <<>> /\ UNCHANGED <<backend, file, armed>>
    BY <1>3 DEF Reload, Running, Inv, CallInv
  <2> QED BY <1>3, <2>1, PhaseInstall DEF Reload
<1>4. CASE Delete \/ \E kind \in Kinds : RemoveFenced(kind)
  <2>1. PICK name \in {"delete", "remove-service", "remove-timer"} : AtStep(name)
    BY <1>4 DEF Delete, RemoveFenced, Removing
  <2>2. call.op = "uninstall"
    BY <2>1, CourseKnown DEF CourseInv, Course, AtStep
  <2>3. call'.op = call.op
    BY <1>1, <1>4 DEF Delete, RemoveFenced, Done, CallState
  <2> QED BY <2>2, <2>3 DEF InstallInv
<1>5. CASE CommandFails \/ Kill \/ \E kind \in Kinds : WriteFails(kind) \/ RemoveFails(kind)
  <2>1. ~call'.clean
    BY <1>1, <1>5 DEF CommandFails, Kill, WriteFails, RemoveFails, Unclean, Done, CallState
  <2> QED BY <2>1 DEF InstallInv
<1>6. CASE UNCHANGED <<file, backend, call, armed, known>>
  <2>1. \A v : Live(v)' = Live(v) /\ Armer(v)' = Armer(v) /\ Refused(v)' = Refused(v)
               /\ (\A t : Fits(v, t)' = Fits(v, t))
               /\ (\A phase : Pending(phase, v)' = Pending(phase, v))
    BY <1>6 DEF Live, Armer, Kind, Refused, Fits, Translations, Pending
  <2>2. TurnInv' = TurnInv
    BY <1>6, <2>1 DEF TurnInv, AtStep, Running
  <2>3. \A v : Arranged(v) => Arranged(v)'
    BY <1>6, <2>1 DEF Arranged
  <2> QED BY <1>6, <2>1, <2>2, <2>3 DEF InstallInv
<1> QED BY <1>2, <1>3, <1>4, <1>5, <1>6, BeginInstall, TranslateInstall, WriteInstall,
           DisableInstall, EnableInstall, CreateInstall DEF Next, Step, Edit, vars, Kinds, os


\* The schedules that are no list with a range in it are told as they are.
LEMMA PlainIsNamed ==
  ASSUME NEW f \in Seq(Item), Valid(f), Plain(f)
  PROVE  Named(f) = DaysOf(f)
<1>1. f # <<>> /\ \A k \in DOMAIN f : f[k] \in Item
  BY DEF Valid
<1>2. CASE ~HasRange(f)
  <2>1. \A k \in DOMAIN f : f[k].lo \in Int /\ f[k].hi = f[k].lo
    BY <1>1, <1>2 DEF HasRange, Item
  <2>2. \A k \in DOMAIN f : {Day(n) : n \in f[k].lo..f[k].hi} = {Day(f[k].lo)}
    <3> SUFFICES ASSUME NEW k \in DOMAIN f
                 PROVE  {Day(n) : n \in f[k].lo..f[k].hi} = {Day(f[k].lo)}
      OBVIOUS
    <3>1. f[k].lo..f[k].hi = {f[k].lo}
      BY <2>1
    <3> QED BY <3>1
  <2>3. DaysOf(f) = UNION {{Day(f[k].lo)} : k \in DOMAIN f}
    BY <2>2, Zenon DEF DaysOf
  <2>4. UNION {{Day(f[k].lo)} : k \in DOMAIN f} = ListDays(f)
    BY DEF ListDays
  <2> QED BY <1>2, <2>3, <2>4 DEF Named
<1>3. CASE HasRange(f)
  <2>1. DOMAIN f = {1} /\ f[1].range
    BY <1>1, <1>3 DEF Plain, HasRange
  <2>2. (CHOOSE i \in DOMAIN f : f[i].range /\ \A m \in DOMAIN f : f[m].range => i <= m) = 1
    BY <2>1
  <2>3. SplitRange(f) = {Day(n) : n \in f[1].lo..f[1].hi}
    BY <2>2 DEF SplitRange
  <2>4. DaysOf(f) = {Day(n) : n \in f[1].lo..f[1].hi}
    BY <2>1 DEF DaysOf
  <2> QED BY <1>3, <2>3, <2>4 DEF Named
<1> QED BY <1>2, <1>3

LEMMA FitsIsDays ==
  ASSUME NEW u, u # Daemon, NEW text, Fits(u, text), call.asked[u] \in Fields,
         Plain(call.asked[u])
  PROVE  text = DaysOf(call.asked[u])
<1> DEFINE f == call.asked[u]
<1>1. f \in Seq(Item) /\ Valid(f)
  BY ServiceAssumption
<1>2. text = Named(f)
  BY DEF Fits, Translations, Translation
<1> QED BY <1>1, <1>2, PlainIsNamed

ServiceInv == Inv /\ CourseInv /\ UninstallInv /\ InstallInv

LEMMA ServiceInvAlways == Spec => []ServiceInv
<1>1. Init => ServiceInv
  <2> SUFFICES ASSUME Init PROVE ServiceInv
    OBVIOUS
  <2>1. call.op = "none" /\ call.steps = <<>> /\ call.phase = "idle"
    BY DEF Init, NoCall
  <2>2. FileInv
    BY DEF Init, FileInv, Owned
  <2> QED BY <2>1, <2>2, InitInv
      DEF ServiceInv, CourseInv, PlanInv, PhaseInv, UninstallInv, InstallInv
<1>2. ServiceInv /\ [Next]_vars => ServiceInv'
  BY NextInv, CourseNext, UninstallNext, InstallNext DEF ServiceInv
<1> QED BY <1>1, <1>2, PTL DEF Spec

-----------------------------------------------------------------------------
(***************************************************************************)
(* The theorems.                                                           *)
(***************************************************************************)
\* Every variable holds a value of its kind, whatever is killed and whatever fails.
THEOREM ServiceTypeCorrect == Spec => []TypeOK
  BY InvAlways, PTL DEF Inv

\* With systemd no job fires unseen: a timer that is started has its file, by which status lists
\* it and the sweep of an uninstall finds it (the disable that comes before every removal).
THEOREM NothingFiresUnseen == Spec => []DriftVisible
<1>1. Inv => DriftVisible
  <2> SUFFICES ASSUME Inv, backend = "systemd",
                      NEW j \in armed \ (slipped \cup {Daemon})
               PROVE  j \in StatusEntries("os-scheduler")
    BY DEF DriftVisible
  <2>1. j \in Jobs
    BY DEF Inv, TypeOK, Units
  <2>2. file[j]["timer"] # None
    BY <2>1 DEF Inv, TimerInv
  <2> QED BY <2>1, <2>2 DEF StatusEntries, Globbed
<1> QED BY <1>1, InvAlways, PTL

\* What the user wrote is never overwritten nor removed (the fences of writeFenced and of
\* removeFenced), by any command.
THEOREM FilesOfOthersStay == Spec => ForeignKept
<1> DEFINE Kept == \A u \in Units, kind \in {"service", "timer"} :
                     file[u][kind] = Foreign => file'[u][kind] = Foreign
<1>1. Inv /\ [Next]_vars => [Kept]_vars
  <2> SUFFICES ASSUME Inv, Next PROVE Kept
    BY DEF vars
  <2>1. ASSUME NEW kind \in {"service", "timer"},
               WriteFenced(kind) \/ RemoveFenced(kind) \/ WriteFails(kind) \/ RemoveFails(kind)
        PROVE  Kept
    <3>1. /\ file \in [Units -> Files] /\ call.unit \in Units
      BY DEF Inv, TypeOK, Files, CallState
    <3>2. UNCHANGED file \/ \E t : file' = [file EXCEPT ![call.unit][kind] = t]
      BY <2>1 DEF WriteFenced, RemoveFenced, WriteFails, RemoveFails
    <3>3. file[call.unit][kind] = Foreign => UNCHANGED file
      <4>1. ASSUME file[call.unit][kind] = Foreign, RemoveFenced(kind) PROVE UNCHANGED file
        <5>1. file' = [file EXCEPT ![call.unit][kind] = file[call.unit][kind]]
          BY <4>1 DEF RemoveFenced, Removable, Owned
        <5> QED BY <3>1, <5>1 DEF Files
      <4> QED BY <2>1, <4>1, MarkAssumption
              DEF WriteFenced, WriteFails, RemoveFails, Writable, Owned
    <3>4. ASSUME NEW t, file' = [file EXCEPT ![call.unit][kind] = t],
                 file[call.unit][kind] # Foreign
          PROVE  Kept
      <4>1. CASE kind = "service"
        BY <3>1, <3>4, <4>1 DEF Files
      <4>2. CASE kind = "timer"
        BY <3>1, <3>4, <4>2 DEF Files
      <4> QED BY <2>1, <4>1, <4>2
    <3>5. CASE UNCHANGED file
      BY <3>5
    <3> QED BY <3>2, <3>3, <3>4, <3>5
  <2>2. CASE ~\E kind \in {"service", "timer"} :
                WriteFenced(kind) \/ RemoveFenced(kind) \/ WriteFails(kind) \/ RemoveFails(kind)
    <3>1. UNCHANGED file
      BY <2>2 DEF Next, Step, Begin, Proceed, Translate, Enable, Disable, Create, Delete, Reload,
                  CommandFails, Kill, Edit
    <3> QED BY <3>1
  <2> QED BY <2>1, <2>2
<1> QED BY <1>1, InvAlways, PTL DEF Spec, ForeignKept

\* Whatever earlier commands left behind, an uninstall that goes through leaves nothing of its own
\* for the units it was asked about, and on systemd for no job at all (sweep): no file, and
\* nothing that fires but what the OS scheduler would not stop.
THEOREM UninstallIsComplete == Spec => []UninstallSilences
<1>1. ServiceInv => UninstallSilences
  <2> SUFFICES ASSUME ServiceInv, Clean("uninstall"), NEW u \in Units \ slipped,
                      (u \in Jobs /\ backend = "systemd") \/ call.asked[u] # Off
               PROVE  /\ \A kind \in {"service", "timer"} : ~Owned(file[u][kind])
                      /\ u \notin armed
    BY DEF UninstallSilences
  <2>1. call.op = "uninstall" /\ call.clean /\ call.phase = "idle"
    BY DEF Clean, Running
  <2>2. \A phase, v : Pending(phase, v) => phase = "idle"
    BY <2>1 DEF Pending
  <2>3. CASE u \in Jobs /\ backend = "systemd"
    BY <2>1, <2>2, <2>3 DEF ServiceInv, UninstallInv, Swept, Quiet
  <2>4. CASE Alone(u) /\ call.asked[u] # Off
    BY <2>1, <2>2, <2>4 DEF ServiceInv, UninstallInv, Cleared, Quiet
  <2> QED BY <2>3, <2>4 DEF Alone, Units
<1> QED BY <1>1, ServiceInvAlways, PTL

\* service install can be run again: whatever earlier commands left behind, one that goes through
\* has registered what it was asked for unless it may refuse it, with its file, loaded and started,
\* on the days that jobs.yaml said.
THEOREM InstallIsComplete == Spec => []InstallConverges
<1>1. ServiceInv => InstallConverges
  <2> SUFFICES ASSUME ServiceInv, Clean("install"), NEW u \in Units
               PROVE  /\ call.asked[u] # Off =>
                           u \in call.placed
                           \/ (u # Daemon /\ Untranslatable \in Translations(call.asked[u]))
                      /\ u \in call.placed =>
                           /\ u \in armed
                           /\ backend # "schtasks" => Owned(Armer(u)) /\ known[u] = Armer(u)
                           /\ u # Daemon /\ Plain(call.asked[u]) =>
                                known[u] = DaysOf(call.asked[u])
    BY DEF InstallConverges
  <2>1. call.op = "install" /\ call.clean /\ call.phase = "idle"
    BY DEF Clean, Running
  <2>2. \A phase : phase # "idle" => ~Pending(phase, u)
    BY <2>1 DEF Pending
  <2>3. call.asked[u] # Off => u \in call.placed \/ Refused(u)
    BY <2>1, <2>2 DEF ServiceInv, InstallInv
  <2>4. ASSUME u \in call.placed
        PROVE  /\ Live(u) /\ Fits(u, known[u])
               /\ backend # "schtasks" => Owned(Armer(u)) /\ known[u] = Armer(u)
    <3>1. Arranged(u)
      BY <2>1, <2>4 DEF ServiceInv, InstallInv
    <3>2. backend \in {"systemd", "launchd", "schtasks"}
      BY ServiceAssumption DEF ServiceInv, Inv, TypeOK
    <3>3. Live(u)
      BY <2>1, <2>2, <3>1, <3>2 DEF Arranged
    <3> QED BY <3>1, <3>3 DEF Arranged, Live
  <2>5. ASSUME u \in call.placed, u # Daemon, Plain(call.asked[u])
        PROVE  known[u] = DaysOf(call.asked[u])
    <3>1. call.asked[u] \in Fields
      <4>1. call.asked[u] # Off
        BY <2>1, <2>5 DEF ServiceInv, InstallInv
      <4> QED BY <2>5, <4>1 DEF ServiceInv, Inv, CallInv, Units
    <3> QED BY <2>4, <2>5, <3>1, FitsIsDays
  <2> QED BY <2>3, <2>4, <2>5 DEF Refused, Live
<1> QED BY <1>1, ServiceInvAlways, PTL
=============================================================================
