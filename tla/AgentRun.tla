------------------------------ MODULE AgentRun ------------------------------
(***************************************************************************)
(* Runs of agent jobs over herdr: executeAgent and runAgent                *)
(* (internal/runner/agent.go) and the herdr client under them              *)
(* (internal/herdr/session.go, client.go).                                 *)
(*                                                                         *)
(* A run is a sequence of herdr commands, each a child process that dies   *)
(* with the run's context.  The runs share one herdr session: its server,  *)
(* its workspaces, and the aliases by which an agent is addressed.  herdr  *)
(* is external: it acts on a command in one step, and a command that was   *)
(* killed was acted on or not.                                             *)
(***************************************************************************)
EXTENDS Naturals, FiniteSets

CONSTANTS
  Runs,       \* bound: the runs that may begin
  Jobs,
  AgentName,  \* job -> alias: "cron-" and the slug of its id
  Untimed,    \* the jobs with timeout: -1
  Nobody,     \* no agent
  MaxFaults   \* bound: calls that fail, panes closed by hand, servers that stop, daemons that die

\* AgentNameForRun is a name of the run's own; the run stands for it.
Names == {AgentName[j] : j \in Jobs}
Aliases == Names \cup Runs

\* Ids that differ only in what the slug drops (a.b, a-b) share an alias in the code.
ASSUME DistinctNames ==
  /\ AgentName \in [Jobs -> Names]
  /\ \A i, j \in Jobs : AgentName[i] = AgentName[j] => i = j
ASSUME ConstantsAssumption ==
  /\ Untimed \subseteq Jobs /\ MaxFaults \in Nat
  /\ Nobody \notin Aliases /\ Names \cap Runs = {} /\ Nobody \notin Jobs

\* Where a run is: the herdr command it is executing, or "poll".
Calls == {"version", "status", "list", "workspace", "tab", "agents", "start", "prompt",
          "wait", "capture", "explain", "close"}
Places == Calls \cup {"poll"}
Outcomes == {"success", "failure", "timeout", "blocked"}

VARIABLES
  pc,       \* where each run is: a Place, "idle", "done" or "dead"
  job,      \* the job of each run
  ctx,      \* its context: "live", or "over" by the deadline or a cancel
  local,    \* what it remembers between calls, see Fresh
  status,   \* the status of its terminal record, "none" before that
  server,   \* herdr's server: "down", "starting" or "up"
  hosts,    \* the runs that created a workspace with herdr-cron's label
  pane,     \* the pane of each run: "none", "open", "closed" by it, "lost" if someone else closed
            \* it, "kept" if it is open because herdr refused to close it
  alias,    \* the alias of the agent alive in it
  strayed,  \* history variable: the runs that reached another run's agent
  faults

herdr == <<server, hosts, pane, alias>>
vars == <<pc, job, ctx, local, status, herdr, strayed, faults>>

\* Whether the agents could be listed, the alias, what the prompt returned ("stuck" is a dialog
\* that herdr calls idle for want of a rule), whether the transcript has words of the agent.
Fresh == [listed |-> FALSE, name |-> Nobody, settled |-> "none", words |-> FALSE]

InFlight(r) == pc[r] \in Places
Live(r, place) == pc[r] = place /\ ctx[r] = "live"
Holder(n) == IF \E p \in Runs : alias[p] = n THEN CHOOSE p \in Runs : alias[p] = n ELSE Nobody
Target(r) == Holder(local[r].name)

GoTo(r, place) == pc' = [pc EXCEPT ![r] = place]
Keep(r, field, v) == local' = [local EXCEPT ![r][field] = v]
\* A prompt, a key or a read reaches whoever has the alias.
Address(r) == strayed' = IF Target(r) \in {r, Nobody} THEN strayed ELSE strayed \cup {r}

\* executeAgent returns before there is a pane, and RunOnce records the outcome.
Return(r, s) ==
  /\ GoTo(r, "done")
  /\ status' = [status EXCEPT ![r] = s]
  /\ UNCHANGED local

\* Mutant of Conclude: a blocked pane is closed like the others.
ConcludeAlike(r, s) ==
  /\ GoTo(r, "close")
  /\ status' = [status EXCEPT ![r] = s]
  /\ local' = [local EXCEPT ![r] = Fresh]

\* runAgent returns: the pane is left open for inspection, or closed.
Conclude(r, s) ==
  /\ GoTo(r, IF s = "blocked" THEN "done" ELSE "close")
  /\ status' = [status EXCEPT ![r] = s]
  /\ local' = [local EXCEPT ![r] = Fresh]

\* Step 9, but for the cross-check of idle; no_op is a success here.
Outcome(agentStatus) ==
  CASE agentStatus = "blocked" -> "blocked"
    [] agentStatus = "unknown" -> "timeout"
    [] OTHER -> "success"

-----------------------------------------------------------------------------
(***************************************************************************)
(* A run, while its context lives and herdr does what it is asked.         *)
(***************************************************************************)
\* RunOnce holds the job's run lock around the run.
Begin(r, j) ==
  /\ pc[r] = "idle"
  /\ \A q \in Runs : InFlight(q) => job[q] # j
  /\ job' = [job EXCEPT ![r] = j]
  /\ GoTo(r, "version")
  /\ UNCHANGED <<ctx, local, status, herdr, strayed, faults>>

\* The version, then the agent's own record of trust, in which "cannot tell" goes on.
Preflight(r) ==
  /\ Live(r, "version")
  /\ \/ GoTo(r, "status") /\ UNCHANGED <<local, status>>
     \/ Return(r, "blocked")
  /\ UNCHANGED <<job, ctx, herdr, strayed, faults>>

\* A server is started, detached, if none runs.
EnsureServer(r) ==
  /\ Live(r, "status")
  /\ GoTo(r, IF server = "up" THEN "list" ELSE "poll")
  /\ server' = IF server = "down" THEN "starting" ELSE server
  /\ UNCHANGED <<job, ctx, local, status, hosts, pane, alias, strayed, faults>>

\* Every 250 ms, for 15 s; a status that fails is asked for again.
Poll(r) ==
  /\ Live(r, "poll")
  /\ \/ server = "up" /\ GoTo(r, "list") /\ UNCHANGED <<local, status>>
     \/ Return(r, "failure")
  /\ UNCHANGED <<job, ctx, herdr, strayed, faults>>

ListWorkspaces(r) ==
  /\ Live(r, "list") /\ server = "up"
  /\ GoTo(r, IF hosts = {} THEN "workspace" ELSE "tab")
  /\ UNCHANGED <<job, ctx, local, status, herdr, strayed, faults>>

WorkspaceCreated(r) ==
  /\ hosts' = hosts \cup {r}
  /\ UNCHANGED <<server, pane, alias>>

CreateWorkspace(r) ==
  /\ Live(r, "workspace") /\ server = "up"
  /\ WorkspaceCreated(r)
  /\ GoTo(r, "tab")
  /\ UNCHANGED <<job, ctx, local, status, strayed, faults>>

TabCreated(r) ==
  /\ pane' = [pane EXCEPT ![r] = "open"]
  /\ UNCHANGED <<server, hosts, alias>>

\* The reply names the pane, which only this run's memory holds until its record is written.
CreateRunTab(r) ==
  /\ Live(r, "tab") /\ server = "up" /\ hosts # {}
  /\ TabCreated(r)
  /\ GoTo(r, "agents")
  /\ UNCHANGED <<job, ctx, local, status, strayed, faults>>

\* Mutant of ChooseName: nobody looks who has the name.
JobsName(r) == AgentName[job[r]]

ChooseName(r) ==
  LET n == AgentName[job[r]] IN IF Holder(n) = Nobody THEN n ELSE r

ListAgents(r) ==
  /\ Live(r, "agents") /\ server = "up"
  /\ local' = [local EXCEPT ![r] = [Fresh EXCEPT !.listed = TRUE, !.name = ChooseName(r)]]
  /\ GoTo(r, "start")
  /\ UNCHANGED <<job, ctx, status, herdr, strayed, faults>>

\* herdr wants a shell at its prompt in the pane.
AtShell(r) == server = "up" /\ pane[r] = "open" /\ alias[r] = Nobody

AgentStarted(r) ==
  /\ alias' = [alias EXCEPT ![r] = local[r].name]
  /\ UNCHANGED <<server, hosts, pane>>

\* Mutant of StartAgent: a live agent of that name is as good as a new one.
StartIfAbsent(r) ==
  /\ Live(r, "start") /\ AtShell(r)
  /\ IF Target(r) = Nobody THEN AgentStarted(r) ELSE UNCHANGED herdr
  /\ GoTo(r, "prompt")
  /\ UNCHANGED <<job, ctx, local, status, strayed, faults>>

StartAgent(r) ==
  /\ Live(r, "start") /\ AtShell(r) /\ Target(r) = Nobody
  /\ AgentStarted(r)
  /\ GoTo(r, "prompt")
  /\ UNCHANGED <<job, ctx, local, status, strayed, faults>>

\* The workspace, the pane or the agent is gone, the alias is taken: herdr says so.
Refuses(r) ==
  CASE pc[r] = "tab" -> hosts = {}
    [] pc[r] = "start" -> ~AtShell(r) \/ Target(r) # Nobody
    [] pc[r] \in {"prompt", "wait", "capture", "explain"} -> Target(r) = Nobody
    [] OTHER -> FALSE

\* agent_not_ready: the screen is read and esc is sent, which the agent may take as its end.
StartupDialog(r) ==
  /\ Live(r, "start") /\ AtShell(r) /\ Target(r) = Nobody
  /\ AgentStarted(r) \/ UNCHANGED herdr
  /\ Conclude(r, "blocked")
  /\ UNCHANGED <<job, ctx, strayed, faults>>

\* Submitted and waited for in one request; agent_blocked comes before any input.
Prompt(r) ==
  /\ Live(r, "prompt") /\ Target(r) # Nobody
  /\ \/ Address(r) /\ GoTo(r, "wait") /\ UNCHANGED <<local, status>>
     \/ Conclude(r, "blocked") /\ UNCHANGED strayed
  /\ UNCHANGED <<job, ctx, herdr, faults>>

Settle(r) ==
  /\ Live(r, "wait") /\ Target(r) # Nobody
  /\ \E s \in {"done", "idle", "stuck", "blocked", "unknown"} : Keep(r, "settled", s)
  /\ GoTo(r, "capture")
  /\ UNCHANGED <<job, ctx, status, herdr, strayed, faults>>

\* herdr's own --timeout is as long as the job's, which began earlier.
WaitTimeout(r) ==
  /\ Live(r, "wait") /\ job[r] \in Untimed
  /\ Conclude(r, "timeout")
  /\ UNCHANGED <<job, ctx, herdr, strayed, faults>>

\* Idle is looked into; the rest is settled.
Classify(r, words) ==
  IF local[r].settled \in {"idle", "stuck"}
  THEN GoTo(r, "explain") /\ Keep(r, "words", words) /\ UNCHANGED status
  ELSE Conclude(r, Outcome(local[r].settled))

Capture(r) ==
  /\ Live(r, "capture") /\ Target(r) # Nobody
  /\ Address(r)
  /\ \E words \in BOOLEAN : Classify(r, words)
  /\ UNCHANGED <<job, ctx, herdr, faults>>

\* herdr has no rule for a dialog that it calls idle, and may have none for a finished screen.
Explain(r) ==
  /\ Live(r, "explain") /\ Target(r) # Nobody
  /\ Address(r)
  /\ \E fallback \in IF local[r].settled = "stuck" THEN {TRUE} ELSE BOOLEAN :
       Conclude(r, IF fallback /\ ~local[r].words THEN "failure"
                   ELSE Outcome(local[r].settled))
  /\ UNCHANGED <<job, ctx, herdr, faults>>

PaneClosed(r, how) ==
  /\ pane' = [pane EXCEPT ![r] = how]
  /\ alias' = [alias EXCEPT ![r] = Nobody]
  /\ UNCHANGED <<server, hosts>>

\* A pane that is gone already is as good.
ClosePane(r) ==
  /\ Live(r, "close") /\ server = "up"
  /\ IF pane[r] = "open" THEN PaneClosed(r, "closed") ELSE UNCHANGED herdr
  /\ GoTo(r, "done")
  /\ UNCHANGED <<job, ctx, local, status, strayed, faults>>

-----------------------------------------------------------------------------
(***************************************************************************)
(* A call that fails: herdr refuses it, its process is killed with the     *)
(* context, or is not even started because the context is over.            *)
(***************************************************************************)
\* What the code does with an error, per call.
Failed(r) ==
  \/ /\ pc[r] \in {"version", "status", "poll", "list", "workspace", "tab"}
     /\ Return(r, "failure")
  \/ /\ pc[r] = "agents"  \* ignored: the job's alias, then
     /\ Keep(r, "name", AgentName[job[r]])
     /\ GoTo(r, "start")
     /\ UNCHANGED status
  \/ /\ pc[r] \in {"start", "prompt", "wait"}
     /\ Conclude(r, "failure")
  \/ /\ pc[r] = "capture"  \* no transcript
     /\ Classify(r, FALSE)
  \/ /\ pc[r] = "explain"  \* it refines, it never gates
     /\ Conclude(r, Outcome(local[r].settled))
  \/ /\ pc[r] = "close"
     /\ GoTo(r, "done")
     /\ UNCHANGED <<local, status>>

\* A fault, unless herdr has a reason.
HerdrFails(r) ==
  /\ ctx[r] = "live" /\ pc[r] \in Calls
  /\ IF Refuses(r) \/ server # "up" THEN UNCHANGED faults
     ELSE faults < MaxFaults /\ faults' = faults + 1
  /\ Failed(r)
  /\ pane' = IF pc[r] = "close" /\ pane[r] = "open" THEN [pane EXCEPT ![r] = "kept"] ELSE pane
  /\ UNCHANGED <<job, ctx, server, hosts, alias, strayed>>

\* What a killed command may have done before it was.
Acted(r) ==
  CASE pc[r] = "workspace" /\ server = "up" -> WorkspaceCreated(r)
    [] pc[r] = "tab" /\ server = "up" -> TabCreated(r)
    [] pc[r] = "start" /\ AtShell(r) /\ Target(r) = Nobody -> AgentStarted(r)
    [] pc[r] = "close" /\ pane[r] = "open" -> PaneClosed(r, "closed")
    [] OTHER -> UNCHANGED herdr

\* Mutant of Killed: the wait for the agent is left to herdr's own timeout.
KilledButWait == Places \ {"wait"}

\* The commands that die with the context; the poll looks at it.
Killed == Places

\* The deadline, or a cancel (withTimeout, execute's cancel function).
EndContext(r) ==
  /\ ctx[r] = "live" /\ pc[r] \in Killed
  /\ ctx' = [ctx EXCEPT ![r] = "over"]
  /\ Failed(r)
  /\ UNCHANGED herdr \/ Acted(r)
  /\ UNCHANGED <<job, strayed, faults>>

\* exec does not start a command whose context is over.
NotStarted(r) ==
  /\ ctx[r] = "over" /\ pc[r] \in Calls
  /\ Failed(r)
  /\ UNCHANGED <<job, ctx, herdr, strayed, faults>>

-----------------------------------------------------------------------------
(***************************************************************************)
(* herdr, its agents, and humans in its session.                           *)
(***************************************************************************)
ServerUp ==
  /\ server = "starting" /\ server' = "up"
  /\ UNCHANGED <<pc, job, ctx, local, status, hosts, pane, alias, strayed, faults>>

AgentExits(p) ==
  /\ alias[p] # Nobody
  /\ alias' = [alias EXCEPT ![p] = Nobody]
  /\ UNCHANGED <<pc, job, ctx, local, status, server, hosts, pane, strayed, faults>>

HumanCloses(p) ==
  /\ pane[p] \in {"open", "kept"} /\ faults < MaxFaults
  /\ faults' = faults + 1
  /\ PaneClosed(p, "lost")
  /\ UNCHANGED <<pc, job, ctx, local, status, strayed>>

\* A server that ends, or does not come up, takes its session with it.
ServerStops ==
  /\ server # "down" /\ faults < MaxFaults
  /\ faults' = faults + 1
  /\ server' = "down" /\ hosts' = {}
  /\ pane' = [p \in Runs |-> IF pane[p] \in {"open", "kept"} THEN "lost" ELSE pane[p]]
  /\ alias' = [p \in Runs |-> Nobody]
  /\ UNCHANGED <<pc, job, ctx, local, status, strayed>>

\* The daemon's process dies; its runs' records are closed by the next one (RunOnce).
DaemonDies ==
  /\ faults < MaxFaults /\ \E r \in Runs : InFlight(r)
  /\ faults' = faults + 1
  /\ pc' = [r \in Runs |-> IF InFlight(r) THEN "dead" ELSE pc[r]]
  /\ status' = [r \in Runs |-> IF InFlight(r) THEN "failure" ELSE status[r]]
  /\ local' = [r \in Runs |-> IF InFlight(r) THEN Fresh ELSE local[r]]
  /\ UNCHANGED <<job, ctx, herdr, strayed>>

-----------------------------------------------------------------------------
Init ==
  /\ pc = [r \in Runs |-> "idle"] /\ job = [r \in Runs |-> Nobody]
  /\ ctx = [r \in Runs |-> "live"]
  /\ local = [r \in Runs |-> Fresh] /\ status = [r \in Runs |-> "none"]
  /\ server \in {"down", "up"} /\ hosts = {}
  /\ pane = [r \in Runs |-> "none"] /\ alias = [r \in Runs |-> Nobody]
  /\ strayed = {} /\ faults = 0

Step(r) ==
  \/ \E j \in Jobs : Begin(r, j)
  \/ Preflight(r) \/ EnsureServer(r) \/ Poll(r)
  \/ ListWorkspaces(r) \/ CreateWorkspace(r) \/ CreateRunTab(r) \/ ListAgents(r)
  \/ StartAgent(r) \/ StartupDialog(r) \/ Prompt(r) \/ Settle(r) \/ WaitTimeout(r)
  \/ Capture(r) \/ Explain(r) \/ ClosePane(r)
  \/ HerdrFails(r) \/ NotStarted(r) \/ EndContext(r)

Next ==
  \/ \E r \in Runs : Step(r) \/ AgentExits(r) \/ HumanCloses(r)
  \/ ServerUp \/ ServerStops \/ DaemonDies

Spec == Init /\ [][Next]_vars

Timed(r) == job[r] \in Jobs \ Untimed

\* herdr need never answer.  A deadline passes, and then no call is started.
FairSpec ==
  /\ Spec
  /\ \A r \in Runs : WF_vars(NotStarted(r))
  /\ \A r \in Runs : WF_vars(Timed(r) /\ EndContext(r))

-----------------------------------------------------------------------------
(***************************************************************************)
(* Properties.                                                             *)
(***************************************************************************)
\* Every variable has its type, a run whose outcome is settled has a status, and one that may
\* wait for an agent has a name for it.
TypeOK ==
  /\ pc \in [Runs -> Places \cup {"idle", "done", "dead"}]
  /\ job \in [Runs -> Jobs \cup {Nobody}] /\ ctx \in [Runs -> {"live", "over"}]
  /\ local \in [Runs ->
       [listed : BOOLEAN, name : Aliases \cup {Nobody}, words : BOOLEAN,
        settled : {"none", "done", "idle", "stuck", "blocked", "unknown"}]]
  /\ \A r \in Runs : pc[r] \in {"start", "prompt", "wait", "capture", "explain"}
                       => local[r].name # Nobody
  /\ status \in [Runs -> Outcomes \cup {"none"}]
  /\ \A r \in Runs : pc[r] \in {"close", "done", "dead"} => status[r] # "none"
  /\ server \in {"down", "starting", "up"} /\ hosts \subseteq Runs
  /\ pane \in [Runs -> {"none", "open", "closed", "lost", "kept"}]
  /\ alias \in [Runs -> Aliases \cup {Nobody}]
  /\ strayed \subseteq Runs /\ faults \in 0..MaxFaults

\* What a run types, and what it reads as its answer, is in the agent it started itself, though
\* it addresses the agent by an alias that an earlier run's agent, left in its pane, may have
\* and that this run's agent loses when it exits (executeAgent, step 5; runAgent).
OwnAgent == strayed = {}

\* An agent that an earlier run of the job left behind, blocked or in a pane that was not
\* closed, does not keep the job's next run from starting its own: with a list of the agents in
\* hand, the name a run is about to use is free (AgentNameForRun).
LeftoversDoNotRefuse ==
  \A r \in Runs : pc[r] = "start" /\ local[r].listed => Target(r) = Nobody

\* A pane outlives its run exactly as evidence: if the context lived to the end, a pane left
\* open is a blocked run's, or herdr refused to close it, and the run of a pane that is closed
\* was not blocked, unless someone else closed it (step 10).
PaneIsEvidence ==
  \A r \in Runs : pc[r] = "done" /\ ctx[r] = "live" =>
    /\ pane[r] = "open" => status[r] = "blocked"
    /\ pane[r] = "closed" => status[r] # "blocked"

\* A run whose job has a timeout comes to an end, whatever herdr and its agent do: the deadline
\* kills the command under way, and none of the calls that are left waits (Raw, EnsureServer).
EveryRunEnds == \A r \in Runs : (InFlight(r) /\ Timed(r)) ~> ~InFlight(r)

-----------------------------------------------------------------------------
(***************************************************************************)
(* What comments and documents say and the code does not do (README).      *)
(***************************************************************************)
\* docs/spec/07-herdr-integration.md:327, a run whose "job `timeout` [is] reached with any of
\* the above in flight" is a timeout; a cancelled one, :190, is cancelled.  The killed command
\* reads as an answer that cannot be parsed, a failure, and executeAgent knows no other status.
EndRecorded ==
  \A r \in Runs : pc[r] = "done" /\ ctx[r] = "over" => status[r] \in {"timeout", "cancelled"}

\* docs/spec/07-herdr-integration.md:190, "on `success`, `no_op`, `failure`, `timeout` and
\* `cancelled` the pane is closed".  ClosePane is given the context that has ended.
PaneClosedUnlessBlocked ==
  \A r \in Runs : pc[r] = "done" /\ pane[r] = "open" => status[r] = "blocked"

\* docs/spec/07-herdr-integration.md:158, the host workspace is "one per session, reused
\* forever".  Two runs may both find none.
OneHostWorkspace == Cardinality(hosts) <= 1

\* internal/runner/agent.go:170, "a stalled dialog can look finished", which the cross-check is
\* there for.  When the context ends, or a call fails, before it answers, the run is a success.
StalledIsNoSuccess ==
  [][\A r \in Runs : local[r].settled = "stuck" /\ ~local[r].words
                       => status'[r] # "success"]_vars
=============================================================================
