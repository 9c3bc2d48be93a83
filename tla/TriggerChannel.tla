--------------------------- MODULE TriggerChannel ----------------------------
(***************************************************************************)
(* The trigger files: how job run, job cancel and reload reach the daemon  *)
(* (internal/daemon/trigger_client.go; triggerLoop, drainTriggers and      *)
(* handleTrigger in internal/daemon/daemon.go).                            *)
(*                                                                         *)
(* A request has a client of its own and three files of its name: .json    *)
(* (the request), .claimed (the same file, renamed) and .result.  What the *)
(* daemon does for a request is one step here; it may take any time.       *)
(* The specification is named ChannelSpec, and so on, so that one module   *)
(* can extend this one and Executions (CommandProofs).                     *)
(***************************************************************************)
EXTENDS Naturals, FiniteSets

CONSTANTS
  Requests,    \* trigger ids, all different
  Waiting,     \* the requests whose client waits for the result
  MaxCrashes,  \* bound: crashes of the daemon
  MaxAborts    \* bound: clients that are interrupted

ASSUME WaitingAssumption == Waiting \subseteq Requests

VARIABLES
  file,      \* the request's file: "none", "json", "claimed", "removed"
  result,    \* the .result file: "none", "partial", "whole"
  old,       \* the file has been waiting for five minutes
  daemon,    \* "up" or "down"
  entries,   \* the names drainTriggers read from the directory and has not come to
  handler,   \* the goroutine of each request: "none", "act", "answer", "clean"
  acted,     \* history variable: how often each request was acted on
  stale,     \* history variable: requests claimed when they were old
  client,    \* where each client is in AwaitTrigger
  crashes, aborts   \* counters for the bounds

channelVars ==
  <<file, result, old, daemon, entries, handler, acted, stale, client, crashes, aborts>>
files == <<file, result>>
service == <<daemon, entries, handler, acted, stale, crashes>>

-----------------------------------------------------------------------------
(***************************************************************************)
(* The client.  Every look at the directory is a step.                     *)
(***************************************************************************)
Go(r, where) == client' = [client EXCEPT ![r].at = where]
Return(r, answer) == client' = [client EXCEPT ![r].at = "returned", ![r].answer = answer]

\* Staged in tmp/, then renamed: the file appears whole.
WriteTrigger(r) ==
  /\ client[r].at = "idle"
  /\ file' = [file EXCEPT ![r] = "json"]
  /\ Go(r, "result")
  /\ UNCHANGED <<result, old, service, aborts>>

ReadResult(r) ==
  /\ client[r].at = "result"
  /\ IF result[r] = "whole"
     THEN result' = [result EXCEPT ![r] = "none"] /\ Return(r, "result")
     ELSE Go(r, IF client[r].seen THEN "decide" ELSE "claimed") /\ UNCHANGED result
  /\ UNCHANGED <<file, old, service, aborts>>

StatClaimed(r) ==
  /\ client[r].at = "claimed"
  /\ IF file[r] = "claimed"
     THEN client' = [client EXCEPT ![r].at = "decide", ![r].seen = TRUE]
     ELSE Go(r, "path")
  /\ UNCHANGED <<files, old, service, aborts>>

\* Mutant of StatPath: no .claimed file is taken for "claimed and already finished".
AlwaysFinished(r) ==
  /\ client[r].at = "path"
  /\ client' = [client EXCEPT ![r].at = "decide", ![r].seen = TRUE]
  /\ UNCHANGED <<files, old, service, aborts>>

\* Neither file: claimed and already finished.
StatPath(r) ==
  /\ client[r].at = "path"
  /\ client' = [client EXCEPT ![r].at = "decide", ![r].seen = file[r] # "json"]
  /\ UNCHANGED <<files, old, service, aborts>>

Decide(r) ==
  /\ client[r].at = "decide"
  /\ \/ client[r].seen /\ r \notin Waiting /\ Return(r, "accepted")
     \/ client[r].seen /\ r \in Waiting /\ Go(r, "result")
     \/ ~client[r].seen /\ Go(r, IF client[r].late THEN "remove" ELSE "result")
  /\ UNCHANGED <<files, old, service, aborts>>

\* Mutant of RemoveTrigger: the client gives up and leaves its request behind.
LeaveTrigger(r) ==
  /\ client[r].at = "remove"
  /\ Return(r, "unreachable")
  /\ UNCHANGED <<files, old, service, aborts>>

\* Whether there was a file to remove is not looked at.
RemoveTrigger(r) ==
  /\ client[r].at = "remove"
  /\ file' = [file EXCEPT ![r] = IF @ = "json" THEN "removed" ELSE @]
  /\ Return(r, "unreachable")
  /\ UNCHANGED <<result, old, service, aborts>>

\* TriggerGrace is over.
Deadline(r) ==
  /\ client[r].at \notin {"idle", "returned", "aborted"} /\ ~client[r].late
  /\ client' = [client EXCEPT ![r].late = TRUE]
  /\ UNCHANGED <<files, old, service, aborts>>

Abort(r) ==
  /\ client[r].at \notin {"idle", "returned", "aborted"} /\ aborts < MaxAborts
  /\ Go(r, "aborted")
  /\ aborts' = aborts + 1
  /\ UNCHANGED <<files, old, service>>

-----------------------------------------------------------------------------
(***************************************************************************)
(* The daemon.                                                             *)
(***************************************************************************)
ReadDir ==
  /\ daemon = "up" /\ entries = {}
  /\ entries' = {r \in Requests : file[r] = "json"}
  /\ entries' # {}
  /\ UNCHANGED <<files, old, daemon, handler, acted, stale, client, crashes, aborts>>

\* Mutant of Claim: the request is read where it is.
ReadInPlace(r) ==
  /\ r \in entries /\ entries' = entries \ {r}
  /\ handler[r] = "none" /\ handler' = [handler EXCEPT ![r] = "act"]
  /\ UNCHANGED <<file, result, old, daemon, acted, stale, client, crashes, aborts>>

\* The rename is the claim; a client that gave up has removed the file.
Claim(r) ==
  /\ r \in entries /\ entries' = entries \ {r}
  /\ IF file[r] = "json"
     THEN /\ file' = [file EXCEPT ![r] = "claimed"]
          /\ handler' = [handler EXCEPT ![r] = "act"]
          /\ stale' = IF old[r] THEN stale \cup {r} ELSE stale
     ELSE UNCHANGED <<file, handler, stale>>
  /\ UNCHANGED <<result, old, daemon, acted, client, crashes, aborts>>

\* Mutant of Act: a request that fails is not answered.
ActSilently(r) ==
  /\ handler[r] = "act"
  /\ acted' = [acted EXCEPT ![r] = @ + 1]
  /\ \E next \in {"answer", "clean"} : handler' = [handler EXCEPT ![r] = next]
  /\ UNCHANGED <<files, old, daemon, entries, stale, client, crashes, aborts>>

Act(r) ==
  /\ handler[r] = "act"
  /\ acted' = [acted EXCEPT ![r] = @ + 1]
  /\ handler' = [handler EXCEPT ![r] = "answer"]
  /\ UNCHANGED <<files, old, daemon, entries, stale, client, crashes, aborts>>

\* The file is created, then filled.
WriteResult(r) ==
  /\ handler[r] = "answer"
  /\ IF result[r] = "partial"
     THEN result' = [result EXCEPT ![r] = "whole"] /\ handler' = [handler EXCEPT ![r] = "clean"]
     ELSE result' = [result EXCEPT ![r] = "partial"] /\ UNCHANGED handler
  /\ UNCHANGED <<file, old, daemon, entries, acted, stale, client, crashes, aborts>>

RemoveClaimed(r) ==
  /\ handler[r] = "clean"
  /\ handler' = [handler EXCEPT ![r] = "none"]
  /\ file' = [file EXCEPT ![r] = "removed"]
  /\ UNCHANGED <<result, old, daemon, entries, acted, stale, client, crashes, aborts>>

\* Run does not wait for its handlers, so a shutdown does the same.
Crash ==
  /\ daemon = "up" /\ crashes < MaxCrashes
  /\ daemon' = "down" /\ entries' = {} /\ handler' = [r \in Requests |-> "none"]
  /\ crashes' = crashes + 1
  /\ UNCHANGED <<files, old, acted, stale, client, aborts>>

StartDaemon ==
  /\ daemon = "down" /\ daemon' = "up"
  /\ UNCHANGED <<files, old, entries, handler, acted, stale, client, crashes, aborts>>

\* Five minutes are longer than TriggerGrace and than a running daemon takes to claim.
GrowOld(r) ==
  /\ file[r] = "json" /\ ~old[r] /\ daemon = "down"
  /\ client[r].at \in {"returned", "aborted"}
  /\ old' = [old EXCEPT ![r] = TRUE]
  /\ UNCHANGED <<files, service, client, aborts>>

-----------------------------------------------------------------------------
ChannelInit ==
  /\ file = [r \in Requests |-> "none"] /\ result = [r \in Requests |-> "none"]
  /\ old = [r \in Requests |-> FALSE]
  /\ daemon = "down" /\ entries = {}
  /\ handler = [r \in Requests |-> "none"] /\ acted = [r \in Requests |-> 0] /\ stale = {}
  /\ client = [r \in Requests |-> [at |-> "idle", seen |-> FALSE, late |-> FALSE,
                                   answer |-> "none"]]
  /\ crashes = 0 /\ aborts = 0

Await(r) == ReadResult(r) \/ StatClaimed(r) \/ StatPath(r) \/ Decide(r) \/ RemoveTrigger(r)

Handle(r) == Act(r) \/ WriteResult(r) \/ RemoveClaimed(r)

ChannelNext ==
  \/ \E r \in Requests : \/ WriteTrigger(r) \/ Await(r) \/ Deadline(r) \/ Abort(r)
                         \/ Claim(r) \/ Handle(r) \/ GrowOld(r)
  \/ ReadDir \/ Crash \/ StartDaemon

ChannelSpec == ChannelInit /\ [][ChannelNext]_channelVars

\* Clients and goroutines run and the grace period ends.  No daemon has to be started.
Fairness ==
  /\ WF_channelVars(ReadDir)
  /\ \A r \in Requests : /\ WF_channelVars(Await(r)) /\ WF_channelVars(Deadline(r))
                         /\ WF_channelVars(Claim(r)) /\ WF_channelVars(Handle(r))

FairSpec == ChannelSpec /\ Fairness

-----------------------------------------------------------------------------
(***************************************************************************)
(* Properties.                                                             *)
(***************************************************************************)
ClientState ==
  [at: {"idle", "result", "claimed", "path", "decide", "remove", "returned", "aborted"},
   seen: BOOLEAN, late: BOOLEAN,
   answer: {"none", "result", "accepted", "unreachable"}]

\* Every variable holds a value of its kind; no client answers with half a result.
ChannelTypeOK ==
  /\ file \in [Requests -> {"none", "json", "claimed", "removed"}]
  /\ result \in [Requests -> {"none", "partial", "whole"}]
  /\ old \in [Requests -> BOOLEAN]
  /\ daemon \in {"up", "down"} /\ entries \subseteq Requests
  /\ handler \in [Requests -> {"none", "act", "answer", "clean"}]
  /\ acted \in [Requests -> Nat] /\ stale \subseteq Requests
  /\ client \in [Requests -> ClientState]
  /\ crashes \in Nat /\ aborts \in Nat

\* The rename makes double-processing impossible: whatever crashes, no request is acted on twice.
ActedOnce == \A r \in Requests : acted[r] <= 1

\* A client that is told its request was accepted, or given a result, was served: the daemon
\* claimed that request, and for a result it acted on it.
Served ==
  \A r \in Requests :
    /\ client[r].answer = "accepted" => file[r] \in {"claimed", "removed"}
    /\ client[r].answer = "result" => acted[r] = 1

\* A request acted on after five minutes is one whose client was interrupted: a client that
\* answered has taken its request back, whatever daemon starts later.
StaleAbandoned == \A r \in stale : client[r].at = "aborted"

\* No client hangs, with a daemon, without one, and whatever daemon crashes, but the one whose
\* request was in the hands of a daemon that died: every other call returns (or is interrupted).
Orphaned(r) == file[r] = "claimed" /\ handler[r] = "none" /\ result[r] # "whole"
EveryCallReturns ==
  \A r \in Requests :
    client[r].at = "result" ~> client[r].at \in {"returned", "aborted"} \/ Orphaned(r)

(***************************************************************************)
(* What the documents say and the code does not do (README).               *)
(***************************************************************************)
\* A client that is told no daemon claimed its request has not started anything.
UnreachableNotRun == \A r \in Requests : client[r].answer = "unreachable" => acted[r] = 0

\* A request nobody claimed for five minutes is collected, not acted on.
StaleIgnored == stale = {}

\* No client hangs, not even one whose request was claimed by a daemon that crashed.
NoClientHangs ==
  \A r \in Requests : client[r].at = "result" ~> client[r].at \in {"returned", "aborted"}
=============================================================================
