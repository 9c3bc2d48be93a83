--------------------------- MODULE AgentRunProofs ----------------------------
(***************************************************************************)
(* A run speaks only to its own agent, starts it by a name that is free,   *)
(* and leaves its pane as evidence, for every set of jobs and of runs.     *)
(*                                                                         *)
(* OwnAgent is not inductive: it needs that no other pane has the alias by *)
(* which a run is about to address its agent (NamesInv).  That holds when  *)
(* the agent is started, since herdr refuses an alias that is taken, and   *)
(* is kept because the alias that another run starts an agent by is its    *)
(* own or its job's, and the run lock keeps two runs of a job apart.       *)
(***************************************************************************)
EXTENDS AgentRun, TLAPS

\* The places in which a run addresses an agent by its alias.
Speaking == {"prompt", "wait", "capture", "explain"}

\* The names that a run may use.
NamesOf(r) == {AgentName[job[r]], r}

\* Two runs of one job are never in flight together (the run lock).
JobsInv ==
  /\ \A r \in Runs : InFlight(r) => job[r] \in Jobs
  /\ \A r, q \in Runs : InFlight(r) /\ InFlight(q) /\ job[r] = job[q] => r = q

\* Whose alias is whose.
NamesInv ==
  /\ \A r \in Runs : pc[r] \in Speaking \cup {"start"} => local[r].name \in NamesOf(r)
  /\ \A r \in Runs : pc[r] \in Speaking => \A p \in Runs \ {r} : alias[p] # local[r].name

AgentInv == TypeOK /\ JobsInv /\ NamesInv /\ OwnAgent

\* What a step of a run does to what it keeps of itself.
OwnShape(r) ==
  /\ \A q \in Runs \ {r} : pc'[q] = pc[q] /\ local'[q] = local[q]
  /\ pc'[r] = "start" => local'[r].name \in NamesOf(r)
  /\ pc'[r] \in Speaking =>
       /\ local'[r].name = local[r].name
       /\ pc[r] \in Speaking \/ (pc[r] = "start" /\ Target(r) = Nobody)

\* What it does to the aliases of the session.
AliasShape(r) ==
  /\ \A q \in Runs \ {r} : alias'[q] = alias[q]
  /\ alias'[r] \in {alias[r], Nobody} \/ (pc[r] = "start" /\ alias'[r] = local[r].name)

\* What it does to what the invariant speaks of.
Shape(r) ==
  /\ InFlight(r)
  /\ job' = job
  /\ OwnShape(r) /\ AliasShape(r)
  /\ strayed' = strayed \/ (pc[r] \in Speaking /\ Address(r))

\* An alias is free when no pane has it.
LEMMA HolderOf ==
  ASSUME TypeOK, NEW n \in Aliases
  PROVE  /\ Holder(n) = Nobody => \A p \in Runs : alias[p] # n
         /\ \A r \in Runs : (\A p \in Runs \ {r} : alias[p] # n) => Holder(n) \in {r, Nobody}
<1>1. Nobody \notin Runs
  BY ConstantsAssumption DEF Aliases
<1>2. CASE \E p \in Runs : alias[p] = n
  <2>1. Holder(n) = CHOOSE p \in Runs : alias[p] = n
    BY <1>2 DEF Holder
  <2>2. Holder(n) \in Runs /\ alias[Holder(n)] = n
    BY <1>2, <2>1
  <2> QED BY <1>1, <2>2
<1>3. CASE ~\E p \in Runs : alias[p] = n
  BY <1>3 DEF Holder
<1> QED BY <1>2, <1>3

LEMMA NameKnown ==
  ASSUME JobsInv, NEW r \in Runs, InFlight(r)
  PROVE  NamesOf(r) \subseteq Aliases
BY DEF JobsInv, NamesOf, Aliases, Names

\* A step of that shape keeps a run's words to its own agent.
LEMMA ShapeKeepsNames ==
  ASSUME AgentInv, NEW r \in Runs, Shape(r), TypeOK'
  PROVE  JobsInv' /\ NamesInv' /\ OwnAgent'
<1> USE DEF AgentInv, OwnShape, AliasShape
<1>1. \A q \in Runs \ {r} : pc'[q] = pc[q] /\ local'[q] = local[q] /\ alias'[q] = alias[q]
  BY DEF Shape
<1>2. JobsInv'
  <2>1. \A q \in Runs : InFlight(q)' => InFlight(q)
    BY <1>1 DEF Shape, InFlight
  <2> QED BY <2>1 DEF Shape, JobsInv
<1>3. ASSUME NEW q \in Runs, pc'[q] \in Speaking \cup {"start"}
      PROVE  local'[q].name \in NamesOf(q)'
  <2>1. NamesOf(q)' = NamesOf(q)
    BY DEF Shape, NamesOf
  <2>2. CASE q = r
    BY <1>3, <2>1, <2>2 DEF Shape, NamesInv
  <2>3. CASE q # r
    BY <1>1, <1>3, <2>1, <2>3 DEF NamesInv
  <2> QED BY <2>2, <2>3
<1>4. ASSUME NEW q \in Runs, pc'[q] \in Speaking, NEW p \in Runs \ {q}
      PROVE  alias'[p] # local'[q].name
  <2>0. local'[q].name \in NamesOf(q) /\ InFlight(q) /\ NamesOf(q) \subseteq Aliases
    <3>1. local'[q].name \in NamesOf(q)
      BY <1>3, <1>4 DEF Shape, NamesOf
    <3>2. InFlight(q)
      BY <1>1, <1>4 DEF Shape, InFlight, Places, Calls, Speaking
    <3> QED BY <3>1, <3>2, NameKnown
  <2>1. local'[q].name # Nobody
    BY <2>0, ConstantsAssumption
  <2>2. CASE q = r
    <3>1. alias'[p] = alias[p] /\ local'[q].name = local[q].name
      BY <1>1, <1>4, <2>2 DEF Shape
    <3>2. CASE pc[r] \in Speaking
      BY <2>2, <3>1, <3>2 DEF NamesInv
    <3>3. CASE pc[r] = "start" /\ Target(r) = Nobody
      BY <2>0, <2>2, <3>1, <3>3, HolderOf DEF Target
    <3> QED BY <1>4, <2>2, <3>2, <3>3 DEF Shape
  <2>3. CASE q # r
    <3>1. pc[q] \in Speaking /\ local'[q].name = local[q].name
      BY <1>1, <1>4, <2>3
    <3>2. alias[p] # local[q].name
      BY <3>1 DEF NamesInv
    <3>3. CASE p # r \/ alias'[r] = alias[r]
      BY <1>1, <3>1, <3>2, <3>3
    <3>4. CASE p = r /\ alias'[r] = Nobody
      BY <2>1, <3>4
    <3>5. CASE p = r /\ pc[r] = "start" /\ alias'[r] = local[r].name
      <4>1. InFlight(r) /\ job[r] # job[q] /\ job[r] \in Jobs /\ job[q] \in Jobs
        BY <2>0, <2>3 DEF Shape, JobsInv
      <4>2. AgentName[job[r]] # AgentName[job[q]]
        BY <4>1, DistinctNames
      <4>3. /\ AgentName[job[r]] \in Names /\ AgentName[job[q]] \in Names
            /\ AgentName[job[r]] \notin Runs /\ AgentName[job[q]] \notin Runs
        BY <4>1, ConstantsAssumption DEF Names
      <4>4. NamesOf(r) \cap NamesOf(q) = {}
        BY <2>3, <4>2, <4>3 DEF NamesOf
      <4>5. local[r].name \in NamesOf(r)
        BY <3>5 DEF NamesInv
      <4> QED BY <2>0, <3>5, <4>4, <4>5
    <3> QED BY <3>3, <3>4, <3>5 DEF Shape
  <2> QED BY <2>2, <2>3
<1>5. OwnAgent'
  <2>1. CASE strayed' = strayed
    BY <2>1 DEF OwnAgent
  <2>2. CASE pc[r] \in Speaking /\ Address(r)
    <3>1. local[r].name \in Aliases
      BY <2>2, NameKnown DEF NamesInv, Shape
    <3>2. Target(r) \in {r, Nobody}
      BY <2>2, <3>1, HolderOf DEF NamesInv, Target
    <3> QED BY <2>2, <3>2 DEF Address, OwnAgent
  <2> QED BY <2>1, <2>2 DEF Shape
<1>6. NamesInv'
  BY <1>3, <1>4 DEF NamesInv
<1> QED BY <1>2, <1>5, <1>6

-----------------------------------------------------------------------------
(***************************************************************************)
(* What the pieces of the actions do.                                      *)
(***************************************************************************)
\* TypeOK, part by part: what a run keeps of itself, and what herdr keeps of it.
RunTypes ==
  /\ pc \in [Runs -> Places \cup {"idle", "done", "dead"}]
  /\ local \in [Runs ->
       [listed : BOOLEAN, name : Aliases \cup {Nobody}, words : BOOLEAN,
        settled : {"none", "done", "idle", "stuck", "blocked", "unknown"}]]
  /\ \A r \in Runs : pc[r] \in Speaking \cup {"start"} => local[r].name # Nobody
  /\ status \in [Runs -> Outcomes \cup {"none"}]
  /\ \A r \in Runs : pc[r] \in {"close", "done", "dead"} => status[r] # "none"

HerdrTypes ==
  /\ server \in {"down", "starting", "up"} /\ hosts \subseteq Runs
  /\ pane \in [Runs -> {"none", "open", "closed", "lost", "kept"}]
  /\ alias \in [Runs -> Aliases \cup {Nobody}]

RestTypes ==
  /\ job \in [Runs -> Jobs \cup {Nobody}] /\ ctx \in [Runs -> {"live", "over"}]
  /\ strayed \subseteq Runs /\ faults \in 0..MaxFaults

LEMMA TypeParts == TypeOK <=> RunTypes /\ HerdrTypes /\ RestTypes
BY DEF TypeOK, RunTypes, HerdrTypes, RestTypes, Speaking

\* A step that sends a run to where it speaks to nobody.
LEMMA GoToSilent ==
  ASSUME RunTypes, NEW r \in Runs, NEW place \in Places \ (Speaking \cup {"start", "close"}),
         GoTo(r, place), local' = local, status' = status
  PROVE  RunTypes' /\ OwnShape(r)
BY DEF RunTypes, OwnShape, GoTo, Speaking, Places, Calls

LEMMA ReturnMoves ==
  ASSUME RunTypes, NEW r \in Runs, NEW s \in Outcomes, Return(r, s)
  PROVE  RunTypes' /\ OwnShape(r)
BY DEF RunTypes, OwnShape, Return, GoTo, Speaking, Places, Calls, Outcomes

LEMMA ConcludeMoves ==
  ASSUME RunTypes, NEW r \in Runs, NEW s \in Outcomes, Conclude(r, s)
  PROVE  RunTypes' /\ OwnShape(r)
BY DEF RunTypes, OwnShape, Conclude, Fresh, GoTo, Speaking, Places, Calls, Outcomes

LEMMA OutcomeIsOne == ASSUME NEW s PROVE Outcome(s) \in Outcomes
BY DEF Outcome, Outcomes

\* A step from one place where the run speaks to the next keeps the alias.
LEMMA KeepMoves ==
  ASSUME RunTypes, NEW r \in Runs, pc[r] \in Speaking, NEW place \in Speaking,
         GoTo(r, place), status' = status,
         \/ local' = local
         \/ \E w \in BOOLEAN : Keep(r, "words", w)
         \/ \E s \in {"done", "idle", "stuck", "blocked", "unknown"} : Keep(r, "settled", s)
  PROVE  RunTypes' /\ OwnShape(r)
BY DEF RunTypes, OwnShape, Keep, GoTo, Speaking, Places, Calls

LEMMA ClassifyMoves ==
  ASSUME RunTypes, NEW r \in Runs, pc[r] = "capture", NEW words \in BOOLEAN, Classify(r, words)
  PROVE  RunTypes' /\ OwnShape(r)
<1>1. CASE local[r].settled \in {"idle", "stuck"}
  BY <1>1, KeepMoves DEF Classify, Speaking
<1>2. CASE local[r].settled \notin {"idle", "stuck"}
  BY <1>2, ConcludeMoves, OutcomeIsOne DEF Classify
<1> QED BY <1>1, <1>2

\* The job's alias, taken without a list of the agents, or a name chosen with one.
LEMMA NamedMoves ==
  ASSUME RunTypes, NEW r \in Runs, NEW n \in NamesOf(r), NamesOf(r) \subseteq Aliases,
         GoTo(r, "start"), status' = status,
         \/ Keep(r, "name", n)
         \/ local' = [local EXCEPT ![r] = [Fresh EXCEPT !.listed = TRUE, !.name = n]]
  PROVE  RunTypes' /\ OwnShape(r)
<1>1. n \in Aliases /\ n # Nobody
  BY ConstantsAssumption
<1>2. CASE Keep(r, "name", n)
  BY <1>1, <1>2 DEF RunTypes, OwnShape, Keep, GoTo, Speaking, Places, Calls
<1>3. CASE local' = [local EXCEPT ![r] = [Fresh EXCEPT !.listed = TRUE, !.name = n]]
  BY <1>1, <1>3 DEF RunTypes, OwnShape, Fresh, GoTo, Speaking, Places, Calls
<1> QED BY <1>2, <1>3

\* What the code does with an error leads to one of these, wherever the run is.
LEMMA FailedMoves ==
  ASSUME RunTypes, JobsInv, NEW r \in Runs, InFlight(r), Failed(r)
  PROVE  RunTypes' /\ OwnShape(r)
<1>1. CASE Return(r, "failure")
  BY <1>1, ReturnMoves DEF Outcomes
<1>2. CASE pc[r] = "agents" /\ Keep(r, "name", AgentName[job[r]]) /\ GoTo(r, "start")
             /\ UNCHANGED status
  <2>1. AgentName[job[r]] \in NamesOf(r)
    BY DEF NamesOf
  <2> QED BY <1>2, <2>1, NameKnown, NamedMoves
<1>3. CASE Conclude(r, "failure")
  BY <1>3, ConcludeMoves DEF Outcomes
<1>4. CASE pc[r] = "capture" /\ Classify(r, FALSE)
  BY <1>4, ClassifyMoves
<1>5. CASE Conclude(r, Outcome(local[r].settled))
  BY <1>5, ConcludeMoves, OutcomeIsOne
<1>6. CASE pc[r] = "close" /\ GoTo(r, "done") /\ UNCHANGED <<local, status>>
  <2>1. status[r] # "none"
    BY <1>6 DEF RunTypes
  <2> QED BY <1>6, <2>1 DEF RunTypes, OwnShape, GoTo, Speaking, Places, Calls
<1> QED BY <1>1, <1>2, <1>3, <1>4, <1>5, <1>6 DEF Failed

LEMMA StartedMoves ==
  ASSUME TypeOK, NEW r \in Runs, pc[r] = "start", AgentStarted(r)
  PROVE  HerdrTypes' /\ AliasShape(r)
BY DEF TypeOK, HerdrTypes, AliasShape, AgentStarted

LEMMA PaneMoves ==
  ASSUME TypeOK, NEW r \in Runs, NEW how \in {"closed", "lost"}, PaneClosed(r, how)
  PROVE  HerdrTypes' /\ AliasShape(r)
BY DEF TypeOK, HerdrTypes, AliasShape, PaneClosed

LEMMA StillHerdr ==
  ASSUME TypeOK, NEW r \in Runs, UNCHANGED herdr
  PROVE  HerdrTypes' /\ AliasShape(r)
BY DEF TypeOK, HerdrTypes, AliasShape, herdr

\* A killed command did one of these things, or nothing.
LEMMA ActedMoves ==
  ASSUME TypeOK, NEW r \in Runs, Acted(r)
  PROVE  HerdrTypes' /\ AliasShape(r)
<1>1. CASE pc[r] = "workspace" /\ server = "up"
  BY <1>1 DEF Acted, WorkspaceCreated, TypeOK, HerdrTypes, AliasShape
<1>2. CASE pc[r] = "tab" /\ server = "up"
  BY <1>2 DEF Acted, TabCreated, TypeOK, HerdrTypes, AliasShape
<1>3. CASE pc[r] = "start" /\ AtShell(r) /\ Target(r) = Nobody
  BY <1>3, StartedMoves DEF Acted
<1>4. CASE pc[r] = "close" /\ pane[r] = "open"
  BY <1>4, PaneMoves DEF Acted
<1>5. CASE /\ ~(pc[r] = "workspace" /\ server = "up") /\ ~(pc[r] = "tab" /\ server = "up")
           /\ ~(pc[r] = "start" /\ AtShell(r) /\ Target(r) = Nobody)
           /\ ~(pc[r] = "close" /\ pane[r] = "open")
  BY <1>5, StillHerdr DEF Acted
<1> QED BY <1>1, <1>2, <1>3, <1>4, <1>5

-----------------------------------------------------------------------------
(***************************************************************************)
(* The actions.                                                            *)
(***************************************************************************)
\* Every step of a run in flight has the shape, and keeps the types.
LEMMA StepShape ==
  ASSUME TypeOK, JobsInv, NEW r \in Runs, Step(r), ~\E j \in Jobs : Begin(r, j)
  PROVE  TypeOK' /\ Shape(r)
<1> DEFINE Goal == /\ RunTypes' /\ OwnShape(r)
                   /\ HerdrTypes' /\ AliasShape(r)
                   /\ RestTypes' /\ InFlight(r) /\ job' = job
                   /\ strayed' = strayed \/ (pc[r] \in Speaking /\ Address(r))
<1>t. RunTypes' /\ HerdrTypes' /\ RestTypes' => TypeOK'
  BY DEF TypeOK, RunTypes, HerdrTypes, RestTypes, Speaking
<1>0. SUFFICES Goal
  BY <1>t DEF Shape
<1>r. RestTypes /\ RunTypes /\ HerdrTypes
  BY TypeParts
<1>a. Address(r) => strayed' \subseteq Runs
  BY <1>r DEF Address, RestTypes
<1>1. CASE Preflight(r)
  <2>1. InFlight(r) /\ UNCHANGED <<job, ctx, herdr, strayed, faults>>
    BY <1>1 DEF Preflight, Live, InFlight, Places, Calls
  <2>2. RunTypes' /\ OwnShape(r)
    BY <1>1, <1>r, GoToSilent, ReturnMoves DEF Preflight, Places, Calls, Speaking, Outcomes
  <2> QED BY <2>1, <2>2, <1>r, StillHerdr DEF RestTypes
<1>2. CASE EnsureServer(r)
  <2>1. InFlight(r) /\ UNCHANGED <<job, ctx, strayed, faults>>
    BY <1>2 DEF EnsureServer, Live, InFlight, Places, Calls
  <2>2. RunTypes' /\ OwnShape(r)
    BY <1>2, <1>r, GoToSilent DEF EnsureServer, Places, Calls, Speaking
  <2>3. HerdrTypes' /\ AliasShape(r)
    BY <1>2, <1>r DEF EnsureServer, HerdrTypes, AliasShape
  <2> QED BY <2>1, <2>2, <2>3, <1>r DEF RestTypes
<1>3. CASE Poll(r)
  <2>1. InFlight(r) /\ UNCHANGED <<job, ctx, herdr, strayed, faults>>
    BY <1>3 DEF Poll, Live, InFlight, Places, Calls
  <2>2. RunTypes' /\ OwnShape(r)
    BY <1>3, <1>r, GoToSilent, ReturnMoves DEF Poll, Places, Calls, Speaking, Outcomes
  <2> QED BY <2>1, <2>2, <1>r, StillHerdr DEF RestTypes
<1>4. CASE ListWorkspaces(r)
  <2>1. InFlight(r) /\ UNCHANGED <<job, ctx, herdr, strayed, faults>>
    BY <1>4 DEF ListWorkspaces, Live, InFlight, Places, Calls
  <2>2. RunTypes' /\ OwnShape(r)
    BY <1>4, <1>r, GoToSilent DEF ListWorkspaces, Places, Calls, Speaking
  <2> QED BY <2>1, <2>2, <1>r, StillHerdr DEF RestTypes
<1>5. CASE CreateWorkspace(r)
  <2>1. InFlight(r) /\ UNCHANGED <<job, ctx, strayed, faults>>
    BY <1>5 DEF CreateWorkspace, Live, InFlight, Places, Calls
  <2>2. RunTypes' /\ OwnShape(r)
    BY <1>5, <1>r, GoToSilent DEF CreateWorkspace, Places, Calls, Speaking
  <2>3. HerdrTypes' /\ AliasShape(r)
    BY <1>5, <1>r DEF CreateWorkspace, WorkspaceCreated, HerdrTypes, AliasShape
  <2> QED BY <2>1, <2>2, <2>3, <1>r DEF RestTypes
<1>6. CASE CreateRunTab(r)
  <2>1. InFlight(r) /\ UNCHANGED <<job, ctx, strayed, faults>>
    BY <1>6 DEF CreateRunTab, Live, InFlight, Places, Calls
  <2>2. RunTypes' /\ OwnShape(r)
    BY <1>6, <1>r, GoToSilent DEF CreateRunTab, Places, Calls, Speaking
  <2>3. HerdrTypes' /\ AliasShape(r)
    BY <1>6, <1>r DEF CreateRunTab, TabCreated, HerdrTypes, AliasShape
  <2> QED BY <2>1, <2>2, <2>3, <1>r DEF RestTypes
<1>7. CASE ListAgents(r)
  <2>1. InFlight(r) /\ UNCHANGED <<job, ctx, status, herdr, strayed, faults>>
    BY <1>7 DEF ListAgents, Live, InFlight, Places, Calls
  <2>2. ChooseName(r) \in NamesOf(r)
    BY DEF ChooseName, NamesOf
  <2>3. RunTypes' /\ OwnShape(r)
    BY <1>7, <1>r, <2>1, <2>2, NameKnown, NamedMoves DEF ListAgents
  <2> QED BY <2>1, <2>3, <1>r, StillHerdr DEF RestTypes
<1>8. CASE StartAgent(r)
  <2>1. InFlight(r) /\ UNCHANGED <<job, ctx, local, status, strayed, faults>>
    BY <1>8 DEF StartAgent, Live, InFlight, Places, Calls
  <2>2. RunTypes' /\ OwnShape(r)
    BY <1>8, <1>r DEF StartAgent, Live, GoTo, RunTypes, OwnShape, Places, Calls, Speaking
  <2>3. HerdrTypes' /\ AliasShape(r)
    BY <1>8, StartedMoves DEF StartAgent, Live
  <2> QED BY <2>1, <2>2, <2>3, <1>r DEF RestTypes
<1>9. CASE StartupDialog(r)
  <2>1. InFlight(r) /\ UNCHANGED <<job, ctx, strayed, faults>>
    BY <1>9 DEF StartupDialog, Live, InFlight, Places, Calls
  <2>2. RunTypes' /\ OwnShape(r)
    BY <1>9, <1>r, ConcludeMoves DEF StartupDialog, Outcomes
  <2>3. HerdrTypes' /\ AliasShape(r)
    BY <1>9, StartedMoves, StillHerdr DEF StartupDialog, Live
  <2> QED BY <2>1, <2>2, <2>3, <1>r DEF RestTypes
<1>10. CASE Prompt(r)
  <2>1. InFlight(r) /\ pc[r] \in Speaking /\ UNCHANGED <<job, ctx, herdr, faults>>
    BY <1>10 DEF Prompt, Live, InFlight, Places, Calls, Speaking
  <2>2. RunTypes' /\ OwnShape(r)
    BY <1>10, <1>r, <2>1, KeepMoves, ConcludeMoves DEF Prompt, Outcomes, Speaking
  <2>3. strayed' = strayed \/ Address(r)
    BY <1>10 DEF Prompt
  <2> QED BY <2>1, <2>2, <2>3, <1>a, <1>r, StillHerdr DEF RestTypes
<1>11. CASE Settle(r)
  <2>1. InFlight(r) /\ pc[r] \in Speaking /\ UNCHANGED <<job, ctx, status, herdr, strayed, faults>>
    BY <1>11 DEF Settle, Live, InFlight, Places, Calls, Speaking
  <2>2. RunTypes' /\ OwnShape(r)
    BY <1>11, <1>r, <2>1, KeepMoves DEF Settle, Speaking
  <2> QED BY <2>1, <2>2, <1>r, StillHerdr DEF RestTypes
<1>12. CASE WaitTimeout(r)
  <2>1. InFlight(r) /\ UNCHANGED <<job, ctx, herdr, strayed, faults>>
    BY <1>12 DEF WaitTimeout, Live, InFlight, Places, Calls
  <2>2. RunTypes' /\ OwnShape(r)
    BY <1>12, <1>r, ConcludeMoves DEF WaitTimeout, Outcomes
  <2> QED BY <2>1, <2>2, <1>r, StillHerdr DEF RestTypes
<1>13. CASE Capture(r)
  <2>1. InFlight(r) /\ pc[r] = "capture" /\ Address(r) /\ UNCHANGED <<job, ctx, herdr, faults>>
    BY <1>13 DEF Capture, Live, InFlight, Places, Calls
  <2>2. RunTypes' /\ OwnShape(r)
    BY <1>13, <1>r, <2>1, ClassifyMoves DEF Capture
  <2> QED BY <2>1, <2>2, <1>a, <1>r, StillHerdr DEF RestTypes, Speaking
<1>14. CASE Explain(r)
  <2>1. InFlight(r) /\ pc[r] = "explain" /\ Address(r) /\ UNCHANGED <<job, ctx, herdr, faults>>
    BY <1>14 DEF Explain, Live, InFlight, Places, Calls
  <2>2. PICK s \in Outcomes : Conclude(r, s)
    BY <1>14, OutcomeIsOne DEF Explain, Outcomes
  <2> QED BY <2>1, <2>2, <1>a, <1>r, ConcludeMoves, StillHerdr DEF RestTypes, Speaking
<1>15. CASE ClosePane(r)
  <2>1. InFlight(r) /\ pc[r] = "close" /\ UNCHANGED <<job, ctx, local, status, strayed, faults>>
    BY <1>15 DEF ClosePane, Live, InFlight, Places, Calls
  <2>2. RunTypes' /\ OwnShape(r)
    BY <1>15, <1>r, <2>1 DEF ClosePane, GoTo, RunTypes, OwnShape, Places, Calls, Speaking
  <2>3. HerdrTypes' /\ AliasShape(r)
    BY <1>15, PaneMoves, StillHerdr DEF ClosePane
  <2> QED BY <2>1, <2>2, <2>3, <1>r DEF RestTypes
<1>16. CASE HerdrFails(r)
  <2>1. /\ InFlight(r) /\ UNCHANGED <<job, ctx, server, hosts, alias, strayed>>
        /\ faults' \in 0..MaxFaults
    BY <1>16, <1>r, ConstantsAssumption DEF HerdrFails, InFlight, Places, RestTypes
  <2>2. RunTypes' /\ OwnShape(r)
    BY <1>16, <1>r, <2>1, FailedMoves DEF HerdrFails
  <2>3. HerdrTypes' /\ AliasShape(r)
    BY <1>16, <1>r, <2>1 DEF HerdrFails, HerdrTypes, AliasShape
  <2> QED BY <2>1, <2>2, <2>3, <1>r DEF RestTypes
<1>17. CASE NotStarted(r)
  <2>1. InFlight(r) /\ UNCHANGED <<job, ctx, herdr, strayed, faults>>
    BY <1>17 DEF NotStarted, InFlight, Places
  <2>2. RunTypes' /\ OwnShape(r)
    BY <1>17, <1>r, <2>1, FailedMoves DEF NotStarted
  <2> QED BY <2>1, <2>2, <1>r, StillHerdr DEF RestTypes
<1>18. CASE EndContext(r)
  <2>1. /\ InFlight(r) /\ UNCHANGED <<job, strayed, faults>>
        /\ ctx' \in [Runs -> {"live", "over"}]
    BY <1>18, <1>r DEF EndContext, InFlight, Killed, RestTypes
  <2>2. RunTypes' /\ OwnShape(r)
    BY <1>18, <1>r, <2>1, FailedMoves DEF EndContext
  <2>3. HerdrTypes' /\ AliasShape(r)
    BY <1>18, StillHerdr, ActedMoves DEF EndContext
  <2> QED BY <2>1, <2>2, <2>3, <1>r DEF RestTypes
<1> QED BY <1>1, <1>2, <1>3, <1>4, <1>5, <1>6, <1>7, <1>8, <1>9, <1>10, <1>11, <1>12,
           <1>13, <1>14, <1>15, <1>16, <1>17, <1>18 DEF Step

\* The job that begins has no other run in flight, and its run speaks to nobody yet.
LEMMA BeginStep ==
  ASSUME AgentInv, NEW r \in Runs, NEW j \in Jobs, Begin(r, j)
  PROVE  AgentInv'
<1> USE DEF AgentInv
<1>1. TypeOK'
  BY DEF TypeOK, Begin, GoTo, Places, Calls, herdr
<1>2. /\ \A q \in Runs \ {r} : pc'[q] = pc[q] /\ job'[q] = job[q]
      /\ pc'[r] = "version" /\ job'[r] = j /\ UNCHANGED <<local, alias, strayed>>
  BY DEF TypeOK, Begin, GoTo, herdr
<1>3. \A q \in Runs \ {r} : InFlight(q)' => InFlight(q) /\ job[q] # j
  BY <1>2 DEF Begin, InFlight
<1>4. JobsInv'
  BY <1>2, <1>3 DEF JobsInv
<1>5. NamesInv'
  BY <1>2 DEF NamesInv, NamesOf, Speaking
<1>6. OwnAgent'
  BY <1>2 DEF OwnAgent
<1> QED BY <1>1, <1>4, <1>5, <1>6

\* An agent that ends, in whatever way, takes its alias with it, and a run that dies speaks to
\* nobody.
LEMMA WorldStep ==
  ASSUME AgentInv,
         \/ \E p \in Runs : AgentExits(p) \/ HumanCloses(p)
         \/ ServerUp \/ ServerStops \/ DaemonDies
  PROVE  AgentInv'
<1> USE DEF AgentInv
<1>1. /\ TypeOK'
      /\ job' = job /\ strayed' = strayed
      /\ \A q \in Runs : alias'[q] \in {alias[q], Nobody}
      /\ \A q \in Runs : pc'[q] = "dead" \/ (pc'[q] = pc[q] /\ local'[q] = local[q])
  <2>1. CASE \E p \in Runs : AgentExits(p)
    BY <2>1 DEF AgentExits, TypeOK
  <2>2. CASE \E p \in Runs : HumanCloses(p)
    BY <2>2, ConstantsAssumption DEF HumanCloses, PaneClosed, TypeOK
  <2>3. CASE ServerUp
    BY <2>3 DEF ServerUp, TypeOK
  <2>4. CASE ServerStops
    BY <2>4, ConstantsAssumption DEF ServerStops, TypeOK
  <2>5. CASE DaemonDies
    BY <2>5, ConstantsAssumption
       DEF DaemonDies, TypeOK, InFlight, Fresh, herdr, Outcomes, Places, Calls
  <2> QED BY <2>1, <2>2, <2>3, <2>4, <2>5
<1>2. JobsInv'
  BY <1>1 DEF JobsInv, InFlight, Places, Calls
<1>3. ASSUME NEW q \in Runs, pc'[q] \in Speaking \cup {"start"}
      PROVE  local'[q].name = local[q].name /\ local[q].name \in NamesOf(q) /\ pc[q] = pc'[q]
  BY <1>1, <1>3 DEF NamesInv, Speaking
<1>4. ASSUME NEW q \in Runs, pc'[q] \in Speaking, NEW p \in Runs \ {q}
      PROVE  alias'[p] # local'[q].name
  <2>1. local[q].name # Nobody
    BY <1>3, <1>4 DEF TypeOK, Speaking
  <2>2. alias[p] # local[q].name
    BY <1>3, <1>4 DEF NamesInv
  <2> QED BY <1>1, <1>3, <1>4, <2>1, <2>2
<1>5. NamesInv'
  BY <1>1, <1>3, <1>4 DEF NamesInv, NamesOf
<1>6. OwnAgent'
  BY <1>1 DEF OwnAgent
<1> QED BY <1>1, <1>2, <1>5, <1>6

LEMMA AgentInvariant == Spec => []AgentInv
<1>1. Init => AgentInv
  BY ConstantsAssumption
     DEF Init, AgentInv, TypeOK, JobsInv, NamesInv, OwnAgent, Fresh, InFlight, Places, Calls,
         Speaking
<1>2. AgentInv /\ [Next]_vars => AgentInv'
  <2> SUFFICES ASSUME AgentInv, [Next]_vars PROVE AgentInv'
    OBVIOUS
  <2>1. ASSUME NEW r \in Runs, Step(r), ~\E j \in Jobs : Begin(r, j) PROVE AgentInv'
    BY <2>1, StepShape, ShapeKeepsNames DEF AgentInv
  <2>2. ASSUME NEW r \in Runs, NEW j \in Jobs, Begin(r, j) PROVE AgentInv'
    BY <2>2, BeginStep
  <2>3. CASE \/ \E p \in Runs : AgentExits(p) \/ HumanCloses(p)
             \/ ServerUp \/ ServerStops \/ DaemonDies
    BY <2>3, WorldStep
  <2>4. CASE UNCHANGED vars
    BY <2>4 DEF vars, herdr, AgentInv, TypeOK, JobsInv, NamesInv, NamesOf, OwnAgent, InFlight
  <2> QED BY <2>1, <2>2, <2>3, <2>4 DEF Next
<1> QED BY <1>1, <1>2, PTL DEF Spec

\* Every variable holds a value of its kind, in every reachable state.
THEOREM AgentTypeCorrect == Spec => []TypeOK
<1>1. AgentInv => TypeOK
  BY DEF AgentInv
<1> QED BY <1>1, AgentInvariant, PTL

\* However runs, agents, humans and crashes come between one another, what a run types and what
\* it reads as its answer is in the agent that it started itself: executeAgent starts one by an
\* alias that no live agent has, and the run lock keeps the runs that could take it away apart.
THEOREM SpeaksToItsOwn == Spec => []OwnAgent
<1>1. AgentInv => OwnAgent
  BY DEF AgentInv
<1> QED BY <1>1, AgentInvariant, PTL

-----------------------------------------------------------------------------
(***************************************************************************)
(* The name that a run is about to use is free.                            *)
(*                                                                         *)
(* A run's own name is in no pane but its own, and nothing is in its pane  *)
(* before it starts an agent there.  So the name that ListAgents chooses   *)
(* is free, and it stays so: another run in flight starts an agent by a    *)
(* name that is not one of this run's.                                     *)
(***************************************************************************)
\* The places of a run that has not tried to start its agent.
Early == {"idle", "version", "status", "poll", "list", "workspace", "tab", "agents"}

FreeInv ==
  /\ \A r \in Runs : pc[r] \in Early => ~local[r].listed
  /\ \A r \in Runs : pc[r] \in Early \cup {"start"} => alias[r] = Nobody
  /\ \A p \in Runs : alias[p] \in Runs => alias[p] = p
  /\ \A r \in Runs : pc[r] = "start" /\ local[r].listed
                       => \A p \in Runs : alias[p] # local[r].name

\* How a step of a run leads to where it has no agent, or starts one.
EarlyShape(r) ==
  /\ pc'[r] \in Early => pc[r] \in Early /\ local'[r] = local[r]
  /\ pc'[r] = "start" =>
       /\ pc[r] = "agents"
       /\ local'[r].listed => local[r].listed \/ local'[r].name = ChooseName(r)

LEMMA ConcludeIsLate ==
  ASSUME TypeOK, NEW r \in Runs, NEW s, Conclude(r, s)
  PROVE  pc'[r] \in {"done", "close"}
BY DEF TypeOK, Conclude, GoTo

LEMMA FailedEarly ==
  ASSUME TypeOK, NEW r \in Runs, InFlight(r), Failed(r)
  PROVE  EarlyShape(r)
<1>1. CASE Return(r, "failure")
  BY <1>1 DEF TypeOK, EarlyShape, Return, GoTo, Early
<1>2. CASE pc[r] = "agents" /\ Keep(r, "name", AgentName[job[r]]) /\ GoTo(r, "start")
  BY <1>2 DEF TypeOK, EarlyShape, Keep, GoTo, Early
<1>3. CASE \E s : Conclude(r, s)
  BY <1>3, ConcludeIsLate DEF EarlyShape, Early
<1>4. CASE \E words : pc[r] = "capture" /\ Classify(r, words)
  <2>1. CASE local[r].settled \in {"idle", "stuck"}
    BY <1>4, <2>1 DEF Classify, TypeOK, EarlyShape, GoTo, Early
  <2>2. CASE local[r].settled \notin {"idle", "stuck"}
    BY <1>4, <1>3, <2>2 DEF Classify
  <2> QED BY <2>1, <2>2
<1>5. CASE pc[r] = "close" /\ GoTo(r, "done")
  BY <1>5 DEF TypeOK, EarlyShape, GoTo, Early
<1> QED BY <1>1, <1>2, <1>3, <1>4, <1>5 DEF Failed

LEMMA StepEarly ==
  ASSUME TypeOK, NEW r \in Runs, Step(r), ~\E j \in Jobs : Begin(r, j)
  PROVE  EarlyShape(r)
<1>1. CASE Preflight(r) \/ Poll(r)
  BY <1>1 DEF Preflight, Poll, Live, Return, GoTo, TypeOK, EarlyShape, Early
<1>2. CASE EnsureServer(r) \/ ListWorkspaces(r)
  BY <1>2 DEF EnsureServer, ListWorkspaces, Live, GoTo, TypeOK, EarlyShape, Early
<1>3. CASE CreateWorkspace(r) \/ CreateRunTab(r)
  BY <1>3 DEF CreateWorkspace, CreateRunTab, Live, GoTo, TypeOK, EarlyShape, Early
<1>4. CASE ListAgents(r)
  BY <1>4 DEF ListAgents, Live, GoTo, Fresh, TypeOK, EarlyShape, Early
<1>5. CASE StartAgent(r) \/ ClosePane(r)
  BY <1>5 DEF StartAgent, ClosePane, GoTo, TypeOK, EarlyShape, Early
<1>6. CASE StartupDialog(r) \/ WaitTimeout(r)
  BY <1>6, ConcludeIsLate DEF StartupDialog, WaitTimeout, EarlyShape, Early
<1>7. CASE Prompt(r)
  <2>1. CASE GoTo(r, "wait")
    BY <2>1 DEF GoTo, TypeOK, EarlyShape, Early
  <2>2. CASE Conclude(r, "blocked")
    BY <2>2, ConcludeIsLate DEF EarlyShape, Early
  <2> QED BY <1>7, <2>1, <2>2 DEF Prompt
<1>8. CASE Settle(r)
  BY <1>8 DEF Settle, GoTo, TypeOK, EarlyShape, Early
<1>9. CASE Capture(r)
  <2>1. PICK words \in BOOLEAN : Classify(r, words)
    BY <1>9 DEF Capture
  <2>2. CASE GoTo(r, "explain")
    BY <2>2 DEF GoTo, TypeOK, EarlyShape, Early
  <2>3. CASE Conclude(r, Outcome(local[r].settled))
    BY <2>3, ConcludeIsLate DEF EarlyShape, Early
  <2> QED BY <2>1, <2>2, <2>3 DEF Classify
<1>10. CASE Explain(r)
  <2>1. \E s : Conclude(r, s)
    BY <1>10 DEF Explain
  <2> QED BY <2>1, ConcludeIsLate DEF EarlyShape, Early
<1>11. CASE HerdrFails(r) \/ NotStarted(r) \/ EndContext(r)
  BY <1>11, FailedEarly DEF HerdrFails, NotStarted, EndContext, Killed, InFlight, Places
<1> QED BY <1>1, <1>2, <1>3, <1>4, <1>5, <1>6, <1>7, <1>8, <1>9, <1>10, <1>11 DEF Step

\* Two runs in flight have no name in common.
LEMMA NamesApart ==
  ASSUME JobsInv, NEW r \in Runs, NEW q \in Runs \ {r}, InFlight(r), InFlight(q)
  PROVE  NamesOf(r) \cap NamesOf(q) = {}
<1>1. job[r] # job[q] /\ job[r] \in Jobs /\ job[q] \in Jobs
  BY DEF JobsInv
<1>2. AgentName[job[r]] # AgentName[job[q]]
  BY <1>1, DistinctNames
<1>3. AgentName[job[r]] \notin Runs /\ AgentName[job[q]] \notin Runs
  BY <1>1, ConstantsAssumption DEF Names
<1> QED BY <1>2, <1>3 DEF NamesOf

\* The name chosen with a list of the agents in hand is in no pane.
LEMMA ChosenIsFree ==
  ASSUME TypeOK, JobsInv, FreeInv, NEW r \in Runs, pc[r] = "agents"
  PROVE  \A p \in Runs : alias[p] # ChooseName(r)
<1>1. AgentName[job[r]] \in Aliases
  BY NameKnown DEF NamesOf, InFlight, Places, Calls
<1>2. CASE Holder(AgentName[job[r]]) = Nobody
  BY <1>1, <1>2, HolderOf DEF ChooseName
<1>3. CASE Holder(AgentName[job[r]]) # Nobody
  <2>1. ChooseName(r) = r /\ alias[r] = Nobody /\ Nobody # r
    BY <1>3, ConstantsAssumption DEF ChooseName, FreeInv, Early, Aliases
  <2> QED BY <2>1 DEF FreeInv
<1> QED BY <1>2, <1>3

LEMMA ShapeKeepsFree ==
  ASSUME AgentInv, FreeInv, NEW r \in Runs, Shape(r), EarlyShape(r), TypeOK'
  PROVE  FreeInv'
<1>1. \A q \in Runs \ {r} : pc'[q] = pc[q] /\ local'[q] = local[q] /\ alias'[q] = alias[q]
  BY DEF Shape, OwnShape, AliasShape
<1>2. ASSUME NEW q \in Runs, pc'[q] \in Early PROVE ~local'[q].listed
  BY <1>1, <1>2 DEF FreeInv, EarlyShape
<1>3. ASSUME NEW q \in Runs, pc'[q] \in Early \cup {"start"} PROVE alias'[q] = Nobody
  <2>1. CASE q = r
    <3>1. pc[r] \in Early
      BY <1>3, <2>1 DEF EarlyShape, Early
    <3>2. alias[r] = Nobody /\ pc[r] # "start"
      BY <3>1 DEF FreeInv, Early
    <3> QED BY <2>1, <3>2 DEF Shape, AliasShape
  <2>2. CASE q # r
    BY <1>1, <1>3, <2>2 DEF FreeInv
  <2> QED BY <2>1, <2>2
<1>4. ASSUME pc[r] = "start", alias'[r] = local[r].name
      PROVE  local[r].name \in NamesOf(r) /\ NamesOf(r) \cap Runs \subseteq {r}
  <2>1. AgentName[job[r]] \notin Runs
    BY ConstantsAssumption DEF Shape, AgentInv, JobsInv, Names
  <2> QED BY <1>4, <2>1 DEF AgentInv, NamesInv, NamesOf
<1>5. ASSUME NEW p \in Runs, alias'[p] \in Runs PROVE alias'[p] = p
  <2>1. Nobody \notin Runs
    BY ConstantsAssumption DEF Aliases
  <2>2. CASE alias'[p] = alias[p]
    BY <1>5, <2>2 DEF FreeInv
  <2>3. CASE p = r /\ pc[r] = "start" /\ alias'[r] = local[r].name
    BY <1>4, <1>5, <2>3
  <2> QED BY <1>1, <1>5, <2>1, <2>2, <2>3 DEF Shape, AliasShape
<1>6. ASSUME NEW q \in Runs, pc'[q] = "start", local'[q].listed, NEW p \in Runs
      PROVE  alias'[p] # local'[q].name
  <2>0. local'[q].name # Nobody
    BY <1>6 DEF TypeOK
  <2>1. CASE q = r
    <3>1. pc[r] = "agents" /\ local'[r].name = ChooseName(r)
      BY <1>6, <2>1 DEF EarlyShape, FreeInv, Early
    <3>2. alias[p] # ChooseName(r)
      BY <3>1, ChosenIsFree DEF AgentInv
    <3>3. alias'[p] \in {alias[p], Nobody}
      BY <1>1, <3>1 DEF Shape, AliasShape
    <3> QED BY <2>0, <2>1, <3>1, <3>2, <3>3
  <2>2. CASE q # r
    <3>1. pc[q] = "start" /\ local'[q] = local[q] /\ alias[p] # local[q].name
      BY <1>1, <1>6, <2>2 DEF FreeInv
    <3>2. CASE alias'[p] \in {alias[p], Nobody}
      BY <2>0, <3>1, <3>2
    <3>3. CASE p = r /\ pc[r] = "start" /\ alias'[r] = local[r].name
      <4>1. NamesOf(r) \cap NamesOf(q) = {}
        BY <2>2, <3>1, NamesApart DEF Shape, AgentInv, InFlight, Places, Calls
      <4>2. local[q].name \in NamesOf(q)
        BY <3>1 DEF AgentInv, NamesInv
      <4> QED BY <1>4, <3>1, <3>3, <4>1, <4>2
    <3> QED BY <1>1, <3>2, <3>3 DEF Shape, AliasShape
  <2> QED BY <2>1, <2>2
<1> QED BY <1>2, <1>3, <1>5, <1>6 DEF FreeInv

LEMMA FreeStep ==
  ASSUME AgentInv, AgentInv', FreeInv, [Next]_vars
  PROVE  FreeInv'
<1>0. TypeOK /\ TypeOK'
  BY DEF AgentInv
<1>1. ASSUME NEW r \in Runs, Step(r), ~\E j \in Jobs : Begin(r, j) PROVE FreeInv'
  <2>1. Shape(r)
    BY <1>1, StepShape DEF AgentInv
  <2>2. EarlyShape(r)
    BY <1>0, <1>1, StepEarly
  <2> QED BY <1>0, <2>1, <2>2, ShapeKeepsFree
<1>2. ASSUME NEW r \in Runs, NEW j \in Jobs, Begin(r, j) PROVE FreeInv'
  <2>1. /\ \A q \in Runs \ {r} : pc'[q] = pc[q]
        /\ pc[r] = "idle" /\ pc'[r] = "version" /\ UNCHANGED <<local, alias>>
    BY <1>0, <1>2 DEF TypeOK, Begin, GoTo, herdr
  <2> QED BY <2>1 DEF FreeInv, Early
<1>3. CASE \/ \E p \in Runs : AgentExits(p) \/ HumanCloses(p)
           \/ ServerUp \/ ServerStops \/ DaemonDies \/ UNCHANGED vars
  <2>1. /\ \A q \in Runs : alias'[q] \in {alias[q], Nobody}
        /\ \A q \in Runs : pc'[q] = "dead" \/ (pc'[q] = pc[q] /\ local'[q] = local[q])
    <3>1. CASE \E p \in Runs : AgentExits(p)
      BY <1>0, <3>1 DEF AgentExits, TypeOK
    <3>2. CASE \E p \in Runs : HumanCloses(p)
      BY <1>0, <3>2 DEF HumanCloses, PaneClosed, TypeOK
    <3>3. CASE ServerUp \/ ServerStops
      BY <1>0, <3>3 DEF ServerUp, ServerStops, TypeOK
    <3>4. CASE DaemonDies
      BY <1>0, <3>4 DEF DaemonDies, TypeOK, herdr
    <3>5. CASE UNCHANGED vars
      BY <3>5 DEF vars, herdr
    <3> QED BY <1>3, <3>1, <3>2, <3>3, <3>4, <3>5
  <2>2. Nobody \notin Runs
    BY ConstantsAssumption DEF Aliases
  <2>3. ASSUME NEW q \in Runs, pc'[q] = "start", local'[q].listed, NEW p \in Runs
        PROVE  alias'[p] # local'[q].name
    <3>1. pc[q] = "start" /\ local'[q] = local[q] /\ local[q].name # Nobody
      BY <1>0, <2>1, <2>3 DEF TypeOK
    <3> QED BY <2>1, <2>3, <3>1 DEF FreeInv
  <2> QED BY <2>1, <2>2, <2>3 DEF FreeInv, Early
<1> QED BY <1>1, <1>2, <1>3 DEF Next

\* An agent that an earlier run left in its pane, holding the job's name, does not keep the next
\* run of the job from starting its own: the name that executeAgent has chosen with a list of
\* the agents in hand stays free until it is used, whatever runs, agents, humans and crashes do.
THEOREM LeftoversAreNoObstacle == Spec => []LeftoversDoNotRefuse
<1>1. Init => FreeInv
  BY ConstantsAssumption DEF Init, FreeInv, Fresh, Early, Aliases
<1>2. AgentInv /\ AgentInv' /\ FreeInv /\ [Next]_vars => FreeInv'
  BY FreeStep
<1>3. AgentInv /\ FreeInv => LeftoversDoNotRefuse
  BY ConstantsAssumption DEF FreeInv, LeftoversDoNotRefuse, Target, Holder
<1> QED BY <1>1, <1>2, <1>3, AgentInvariant, PTL DEF Spec

-----------------------------------------------------------------------------
(***************************************************************************)
(* A pane that outlives its run is evidence.                               *)
(*                                                                         *)
(* While its context lives a run opens its pane once, and closes it only   *)
(* where a run that is not blocked goes; a call that fails there leaves    *)
(* the pane "kept".  What others do to the pane leaves it "lost".          *)
(***************************************************************************)
Evidence(r) ==
  /\ pc[r] \in Early \ {"agents"} => pane[r] = "none"
  /\ pc[r] \in Speaking \cup {"agents", "start", "close"} => pane[r] \in {"open", "lost"}
  /\ pc[r] = "close" => status[r] # "blocked"
  /\ pc[r] = "done" =>
       /\ pane[r] = "open" => status[r] = "blocked"
       /\ pane[r] = "closed" => status[r] # "blocked"

EvidenceInv == \A r \in Runs : ctx[r] = "live" => Evidence(r)

\* What a step of a run leaves of the others.
Apart(r) ==
  \A q \in Runs \ {r} :
    pc'[q] = pc[q] /\ ctx'[q] = ctx[q] /\ status'[q] = status[q] /\ pane'[q] = pane[q]

LEMMA ReturnKeepsEvidence ==
  ASSUME TypeOK, NEW r \in Runs, Evidence(r), pc[r] \in Early \ {"agents"},
         NEW s, Return(r, s), pane' = pane
  PROVE  Evidence(r)'
BY DEF TypeOK, Return, GoTo, Evidence, Early, Speaking

LEMMA ConcludeKeepsEvidence ==
  ASSUME TypeOK, NEW r \in Runs, Evidence(r), pc[r] \in Speaking \cup {"start"},
         NEW s, Conclude(r, s), pane' = pane
  PROVE  Evidence(r)'
BY DEF TypeOK, Conclude, GoTo, Evidence, Early, Speaking

\* From a place with a pane to the next, or from one without to the next.
LEMMA GoOnKeepsEvidence ==
  ASSUME TypeOK, NEW r \in Runs, Evidence(r), NEW place, GoTo(r, place), pane' = pane,
         \/ pc[r] \in Early \ {"agents"} /\ place \in Early \ {"agents"}
         \/ pc[r] \in Speaking \cup {"start", "agents"} /\ place \in Speaking \cup {"start"}
  PROVE  Evidence(r)'
BY DEF TypeOK, GoTo, Evidence, Early, Speaking

LEMMA ClassifyKeepsEvidence ==
  ASSUME TypeOK, NEW r \in Runs, Evidence(r), pc[r] = "capture", NEW words,
         Classify(r, words), pane' = pane
  PROVE  Evidence(r)'
<1>1. CASE GoTo(r, "explain")
  BY <1>1, GoOnKeepsEvidence DEF Speaking
<1>2. CASE Conclude(r, Outcome(local[r].settled))
  BY <1>2, ConcludeKeepsEvidence DEF Speaking
<1> QED BY <1>1, <1>2 DEF Classify

\* A call that fails leads to the end of the run by way of its pane, if it has one.
LEMMA FailedKeepsEvidence ==
  ASSUME TypeOK, NEW r \in Runs, Evidence(r), pc[r] \in Calls \ {"close"}, Failed(r), pane' = pane
  PROVE  Evidence(r)'
<1>1. CASE pc[r] \in {"version", "status", "poll", "list", "workspace", "tab"} /\ Return(r, "failure")
  BY <1>1, ReturnKeepsEvidence DEF Early
<1>2. CASE pc[r] = "agents" /\ GoTo(r, "start")
  BY <1>2, GoOnKeepsEvidence
<1>3. CASE pc[r] \in {"start", "prompt", "wait"} /\ Conclude(r, "failure")
  BY <1>3, ConcludeKeepsEvidence DEF Speaking
<1>4. CASE pc[r] = "capture" /\ Classify(r, FALSE)
  BY <1>4, ClassifyKeepsEvidence
<1>5. CASE pc[r] = "explain" /\ Conclude(r, Outcome(local[r].settled))
  BY <1>5, ConcludeKeepsEvidence DEF Speaking
<1> QED BY <1>1, <1>2, <1>3, <1>4, <1>5 DEF Failed

LEMMA FailedApart ==
  ASSUME TypeOK, NEW r \in Runs, Failed(r)
  PROVE  \A q \in Runs \ {r} : pc'[q] = pc[q] /\ status'[q] = status[q]
BY DEF TypeOK, Failed, Return, Conclude, Classify, Keep, GoTo

\* A step of a run whose context lives on keeps its pane as evidence.
LEMMA StepKeepsEvidence ==
  ASSUME TypeOK, NEW r \in Runs, Step(r), ctx[r] = "live" => Evidence(r), ctx'[r] = "live"
  PROVE  Evidence(r)'
<1>1. CASE \E j \in Jobs : Begin(r, j)
  BY <1>1 DEF Begin, GoTo, herdr, TypeOK, Evidence, Early, Speaking
<1>2. CASE Preflight(r) \/ Poll(r)
  <2>1. Evidence(r) /\ pane' = pane /\ pc[r] \in {"version", "poll"}
    BY <1>2 DEF Preflight, Poll, Live, herdr
  <2>2. GoTo(r, "status") \/ GoTo(r, "list") \/ \E s : Return(r, s)
    BY <1>2 DEF Preflight, Poll
  <2> QED BY <2>1, <2>2, GoOnKeepsEvidence, ReturnKeepsEvidence DEF Early
<1>3. CASE EnsureServer(r) \/ ListWorkspaces(r) \/ CreateWorkspace(r)
  <2>1. Evidence(r) /\ pane' = pane /\ pc[r] \in {"status", "list", "workspace"}
    BY <1>3 DEF EnsureServer, ListWorkspaces, CreateWorkspace, WorkspaceCreated, Live, herdr
  <2>2. \E place \in {"list", "poll", "workspace", "tab"} : GoTo(r, place)
    BY <1>3 DEF EnsureServer, ListWorkspaces, CreateWorkspace
  <2> QED BY <2>1, <2>2, GoOnKeepsEvidence DEF Early
<1>4. CASE CreateRunTab(r)
  BY <1>4 DEF CreateRunTab, TabCreated, Live, GoTo, TypeOK, Evidence, Early, Speaking
<1>5. CASE ListAgents(r) \/ StartAgent(r)
  <2>1. Evidence(r) /\ pane' = pane /\ pc[r] \in {"agents", "start"}
    BY <1>5 DEF ListAgents, StartAgent, AgentStarted, Live, herdr
  <2>2. GoTo(r, "start") \/ GoTo(r, "prompt")
    BY <1>5 DEF ListAgents, StartAgent
  <2> QED BY <2>1, <2>2, GoOnKeepsEvidence DEF Speaking
<1>6. CASE StartupDialog(r) \/ WaitTimeout(r)
  <2>1. Evidence(r) /\ pane' = pane /\ pc[r] \in {"start", "wait"}
    BY <1>6 DEF StartupDialog, WaitTimeout, AgentStarted, Live, herdr
  <2>2. \E s : Conclude(r, s)
    BY <1>6 DEF StartupDialog, WaitTimeout
  <2> QED BY <2>1, <2>2, ConcludeKeepsEvidence DEF Speaking
<1>7. CASE Prompt(r) \/ Settle(r) \/ Explain(r)
  <2>1. Evidence(r) /\ pane' = pane /\ pc[r] \in {"prompt", "wait", "explain"}
    BY <1>7 DEF Prompt, Settle, Explain, Live, herdr
  <2>2. GoTo(r, "wait") \/ GoTo(r, "capture") \/ \E s : Conclude(r, s)
    BY <1>7 DEF Prompt, Settle, Explain
  <2> QED BY <2>1, <2>2, GoOnKeepsEvidence, ConcludeKeepsEvidence DEF Speaking
<1>8. CASE Capture(r)
  <2>1. Evidence(r) /\ pane' = pane /\ pc[r] = "capture" /\ \E words : Classify(r, words)
    BY <1>8 DEF Capture, Live, herdr
  <2> QED BY <2>1, ClassifyKeepsEvidence
<1>9. CASE ClosePane(r)
  BY <1>9 DEF ClosePane, PaneClosed, Live, GoTo, herdr, TypeOK, Evidence, Early, Speaking
<1>10. CASE HerdrFails(r)
  <2>1. Evidence(r) /\ pc[r] \in Calls /\ Failed(r)
    BY <1>10 DEF HerdrFails
  <2>2. CASE pc[r] # "close"
    <3>1. pane' = pane
      BY <1>10, <2>2 DEF HerdrFails
    <3> QED BY <2>1, <2>2, <3>1, FailedKeepsEvidence
  <2>3. CASE pc[r] = "close"
    <3>1. GoTo(r, "done") /\ status' = status
      BY <2>1, <2>3 DEF Failed
    <3>2. pane'[r] \in {"kept", "lost"}
      BY <1>10, <2>1, <2>3 DEF HerdrFails, Evidence, TypeOK, Speaking
    <3> QED BY <3>1, <3>2 DEF GoTo, TypeOK, Evidence, Early, Speaking
  <2> QED BY <2>2, <2>3
<1>11. ~NotStarted(r) /\ ~EndContext(r)
  BY DEF NotStarted, EndContext, TypeOK
<1> QED BY <1>1, <1>2, <1>3, <1>4, <1>5, <1>6, <1>7, <1>8, <1>9, <1>10, <1>11 DEF Step

\* A killed command acted on its own run's pane, if on any.
LEMMA ActedApart ==
  ASSUME TypeOK, NEW r \in Runs, Acted(r)
  PROVE  \A q \in Runs \ {r} : pane'[q] = pane[q]
<1>1. CASE pc[r] = "workspace" /\ server = "up"
  BY <1>1 DEF Acted, WorkspaceCreated
<1>2. CASE pc[r] = "tab" /\ server = "up"
  BY <1>2 DEF Acted, TabCreated, TypeOK
<1>3. CASE pc[r] = "start" /\ AtShell(r) /\ Target(r) = Nobody
  BY <1>3 DEF Acted, AgentStarted
<1>4. CASE pc[r] = "close" /\ pane[r] = "open"
  BY <1>4 DEF Acted, PaneClosed, TypeOK
<1>5. CASE /\ ~(pc[r] = "workspace" /\ server = "up") /\ ~(pc[r] = "tab" /\ server = "up")
           /\ ~(pc[r] = "start" /\ AtShell(r) /\ Target(r) = Nobody)
           /\ ~(pc[r] = "close" /\ pane[r] = "open")
  BY <1>5 DEF Acted, herdr
<1> QED BY <1>1, <1>2, <1>3, <1>4, <1>5

LEMMA StepApart ==
  ASSUME TypeOK, NEW r \in Runs, Step(r)
  PROVE  Apart(r) /\ (ctx'[r] = "live" => ctx[r] = "live")
<1> USE DEF Apart
<1>1. CASE \E j \in Jobs : Begin(r, j)
  BY <1>1 DEF Begin, GoTo, herdr, TypeOK
<1>2. CASE Preflight(r) \/ Poll(r)
  BY <1>2 DEF Preflight, Poll, Return, GoTo, herdr, TypeOK
<1>3. CASE EnsureServer(r) \/ ListWorkspaces(r) \/ CreateWorkspace(r)
  BY <1>3 DEF EnsureServer, ListWorkspaces, CreateWorkspace, WorkspaceCreated, GoTo, herdr, TypeOK
<1>4. CASE CreateRunTab(r)
  BY <1>4 DEF CreateRunTab, TabCreated, GoTo, TypeOK
<1>5. CASE ListAgents(r) \/ StartAgent(r)
  BY <1>5 DEF ListAgents, StartAgent, AgentStarted, GoTo, herdr, TypeOK
<1>6. CASE StartupDialog(r) \/ WaitTimeout(r)
  BY <1>6 DEF StartupDialog, WaitTimeout, AgentStarted, Conclude, GoTo, herdr, TypeOK
<1>7. CASE Prompt(r) \/ Settle(r) \/ Explain(r)
  <2>1. pane' = pane /\ ctx' = ctx
    BY <1>7 DEF Prompt, Settle, Explain, herdr
  <2>2. CASE \E s : Conclude(r, s)
    BY <2>1, <2>2 DEF Conclude, GoTo, TypeOK
  <2>3. CASE \E place : GoTo(r, place) /\ status' = status
    BY <2>1, <2>3 DEF GoTo, TypeOK
  <2>4. CASE Prompt(r)
    BY <2>2, <2>3, <2>4 DEF Prompt
  <2>5. CASE Settle(r)
    BY <2>3, <2>5 DEF Settle
  <2>6. CASE Explain(r)
    BY <2>2, <2>6 DEF Explain
  <2> QED BY <1>7, <2>4, <2>5, <2>6
<1>8. CASE Capture(r)
  BY <1>8 DEF Capture, Classify, Conclude, GoTo, herdr, TypeOK
<1>9. CASE ClosePane(r)
  BY <1>9 DEF ClosePane, PaneClosed, GoTo, herdr, TypeOK
<1>10. CASE HerdrFails(r)
  BY <1>10, FailedApart DEF HerdrFails, TypeOK
<1>11. CASE NotStarted(r)
  BY <1>11, FailedApart DEF NotStarted, herdr
<1>12. CASE EndContext(r)
  <2>1. \A q \in Runs \ {r} : pane'[q] = pane[q]
    BY <1>12, ActedApart DEF EndContext, herdr
  <2>2. \A q \in Runs \ {r} : ctx'[q] = ctx[q]
    BY <1>12 DEF EndContext, TypeOK
  <2>3. ctx'[r] = "over"
    BY <1>12 DEF EndContext, TypeOK
  <2> QED BY <1>12, <2>1, <2>2, <2>3, FailedApart DEF EndContext
<1> QED BY <1>1, <1>2, <1>3, <1>4, <1>5, <1>6, <1>7, <1>8, <1>9, <1>10, <1>11, <1>12 DEF Step

LEMMA EvidenceStep ==
  ASSUME TypeOK, EvidenceInv, [Next]_vars
  PROVE  EvidenceInv'
<1>1. ASSUME NEW r \in Runs, Step(r) PROVE EvidenceInv'
  <2>1. Apart(r) /\ (ctx'[r] = "live" => ctx[r] = "live")
    BY <1>1, StepApart
  <2>2. ctx'[r] = "live" => Evidence(r)'
    BY <1>1, StepKeepsEvidence DEF EvidenceInv
  <2>3. ASSUME NEW q \in Runs \ {r}, ctx'[q] = "live" PROVE Evidence(q)'
    BY <2>1, <2>3 DEF Apart, EvidenceInv, Evidence
  <2> QED BY <2>2, <2>3 DEF EvidenceInv
<1>2. CASE \/ \E p \in Runs : AgentExits(p) \/ HumanCloses(p)
           \/ ServerUp \/ ServerStops \/ DaemonDies \/ UNCHANGED vars
  <2>1. /\ ctx' = ctx
        /\ \A q \in Runs : pane'[q] = pane[q] \/ (pane[q] \in {"open", "kept"} /\ pane'[q] = "lost")
        /\ \A q \in Runs : pc'[q] = "dead" \/ (pc'[q] = pc[q] /\ status'[q] = status[q])
    <3>1. CASE \E p \in Runs : AgentExits(p)
      BY <3>1 DEF AgentExits, TypeOK
    <3>2. CASE \E p \in Runs : HumanCloses(p)
      BY <3>2 DEF HumanCloses, PaneClosed, TypeOK
    <3>3. CASE ServerUp \/ ServerStops
      BY <3>3 DEF ServerUp, ServerStops, TypeOK
    <3>4. CASE DaemonDies
      BY <3>4 DEF DaemonDies, TypeOK, herdr
    <3>5. CASE UNCHANGED vars
      BY <3>5 DEF vars, herdr
    <3> QED BY <1>2, <3>1, <3>2, <3>3, <3>4, <3>5
  <2>2. ASSUME NEW q \in Runs, ctx'[q] = "live" PROVE Evidence(q)'
    <3>1. Evidence(q)
      BY <2>1, <2>2 DEF EvidenceInv
    <3>2. CASE pc'[q] = "dead"
      BY <3>2 DEF Evidence, Early, Speaking
    <3>3. CASE pc'[q] = pc[q] /\ status'[q] = status[q]
      BY <2>1, <3>1, <3>3 DEF Evidence, Early, Speaking
    <3> QED BY <2>1, <3>2, <3>3
  <2> QED BY <2>2 DEF EvidenceInv
<1> QED BY <1>1, <1>2 DEF Next

\* Whatever fails, dies or is closed by hand, a run whose context lived to its end leaves its
\* pane open only as a blocked run's evidence, or because herdr refused to close it, and never
\* closes that of a blocked run (runAgent, step 10).
THEOREM PanesAreEvidence == Spec => []PaneIsEvidence
<1>1. Init => EvidenceInv
  BY DEF Init, EvidenceInv, Evidence, Early, Speaking
<1>2. AgentInv /\ EvidenceInv /\ [Next]_vars => EvidenceInv'
  BY EvidenceStep DEF AgentInv
<1>3. EvidenceInv => PaneIsEvidence
  BY DEF EvidenceInv, Evidence, PaneIsEvidence
<1> QED BY <1>1, <1>2, <1>3, AgentInvariant, PTL DEF Spec
=============================================================================
