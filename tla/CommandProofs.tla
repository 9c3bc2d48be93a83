----------------------------- MODULE CommandProofs -----------------------------
(***************************************************************************)
(* How a command reaches the daemon and what it does there: the trigger    *)
(* files by which job run, job cancel and reload are handed over, and the  *)
(* executions they start and cancel.  The two specifications share no      *)
(* variable; a theorem is about the one whose Spec it names (ChannelSpec   *)
(* of TriggerChannel, Spec of Executions).                                 *)
(***************************************************************************)
EXTENDS TriggerChannel, Executions, TLAPS

-----------------------------------------------------------------------------
(***************************************************************************)
(* The trigger files.  No request is acted on twice, no answer is made up, *)
(* and no request of a client that answered is left to act on later: for   *)
(* every set of requests and whichever of their clients wait.              *)
(***************************************************************************)
\* A request is in one hand at a time.  Until it is claimed nobody has acted on it; what has been
\* written of its result was written after it was acted on; and its client, once it has answered,
\* has not left it to be claimed.
Sound(r) ==
  /\ client[r].at = "idle" <=> file[r] = "none"
  /\ file[r] \in {"none", "json"} => handler[r] = "none" /\ acted[r] = 0
  /\ handler[r] = "act" => acted[r] = 0
  /\ handler[r] \in {"answer", "clean"} \/ result[r] # "none" => acted[r] = 1
  /\ acted[r] <= 1
  /\ client[r].seen \/ client[r].at = "returned" => file[r] \in {"claimed", "removed"}
  /\ client[r].answer = "accepted" => file[r] \in {"claimed", "removed"}
  /\ client[r].answer = "result" => acted[r] = 1
  /\ old[r] => client[r].at \in {"returned", "aborted"}
  /\ r \in stale => client[r].at = "aborted"

ChannelInv == ChannelTypeOK /\ \A r \in Requests : Sound(r)

\* A client that goes on or returns stays in ClientState.
LEMMA ClientMoves ==
  ASSUME ChannelTypeOK, NEW r \in Requests, NEW c \in ClientState
  PROVE  [client EXCEPT ![r] = c] \in [Requests -> ClientState]
  BY DEF ChannelTypeOK

LEMMA ClientGoes ==
  ASSUME ChannelTypeOK, NEW r \in Requests,
         NEW where \in {"idle", "result", "claimed", "path", "decide", "remove", "aborted"},
         Go(r, where)
  PROVE  client' \in [Requests -> ClientState]
<1>1. client[r] \in ClientState
  BY DEF ChannelTypeOK
<1>2. [client[r] EXCEPT !.at = where] \in ClientState
  BY <1>1, Zenon DEF ClientState
<1>3. client' = [client EXCEPT ![r] = [client[r] EXCEPT !.at = where]]
  BY DEF Go
<1> QED BY <1>2, <1>3, ClientMoves

LEMMA ClientReturns ==
  ASSUME ChannelTypeOK, NEW r \in Requests, NEW what \in {"result", "accepted", "unreachable"},
         Return(r, what)
  PROVE  client' \in [Requests -> ClientState]
<1>1. client[r] \in ClientState
  BY DEF ChannelTypeOK
<1>2. [client[r] EXCEPT !.at = "returned", !.answer = what] \in ClientState
  BY <1>1, Zenon DEF ClientState
<1>3. client' = [client EXCEPT ![r] = [client[r] EXCEPT !.at = "returned", !.answer = what]]
  BY DEF Return
<1> QED BY <1>2, <1>3, ClientMoves

LEMMA ClientLooks ==
  ASSUME ChannelTypeOK, NEW r \in Requests, NEW seen \in BOOLEAN,
         client' = [client EXCEPT ![r].at = "decide", ![r].seen = seen]
  PROVE  client' \in [Requests -> ClientState]
<1>1. client[r] \in ClientState
  BY DEF ChannelTypeOK
<1>2. [client[r] EXCEPT !.at = "decide", !.seen = seen] \in ClientState
  BY <1>1, Zenon DEF ClientState
<1>3. client' = [client EXCEPT ![r] = [client[r] EXCEPT !.at = "decide", !.seen = seen]]
  OBVIOUS
<1> QED BY <1>2, <1>3, ClientMoves

LEMMA ChannelTypeStep == ChannelTypeOK /\ [ChannelNext]_channelVars => ChannelTypeOK'
<1> SUFFICES ASSUME ChannelTypeOK, [ChannelNext]_channelVars PROVE ChannelTypeOK'
  OBVIOUS
<1> USE DEF files, service
<1>1. ASSUME NEW r \in Requests, Await(r) PROVE ChannelTypeOK'
  <2>1. CASE ReadResult(r)
    <3>1. client' \in [Requests -> ClientState]
      BY <2>1, ClientGoes, ClientReturns DEF ReadResult
    <3> QED BY <2>1, <3>1 DEF ReadResult, ChannelTypeOK
  <2>2. CASE StatClaimed(r)
    <3>1. CASE file[r] = "claimed"
      BY <2>2, <3>1, ClientLooks DEF StatClaimed, ChannelTypeOK
    <3>2. CASE file[r] # "claimed"
      BY <2>2, <3>2, ClientGoes DEF StatClaimed, ChannelTypeOK
    <3> QED BY <3>1, <3>2
  <2>3. CASE StatPath(r)
    <3>1. (file[r] # "json") \in BOOLEAN
      OBVIOUS
    <3>2. client' \in [Requests -> ClientState]
      BY <2>3, <3>1, ClientLooks DEF StatPath
    <3> QED BY <2>3, <3>2 DEF StatPath, ChannelTypeOK
  <2>4. CASE Decide(r)
    <3>1. client' \in [Requests -> ClientState]
      BY <2>4, ClientGoes, ClientReturns DEF Decide
    <3> QED BY <2>4, <3>1 DEF Decide, ChannelTypeOK
  <2>5. CASE RemoveTrigger(r)
    <3>1. client' \in [Requests -> ClientState]
      BY <2>5, ClientReturns DEF RemoveTrigger
    <3> QED BY <2>5, <3>1 DEF RemoveTrigger, ChannelTypeOK
  <2> QED BY <1>1, <2>1, <2>2, <2>3, <2>4, <2>5 DEF Await
<1>2. ASSUME NEW r \in Requests, WriteTrigger(r) \/ Deadline(r) \/ Abort(r) PROVE ChannelTypeOK'
  <2>1. CASE WriteTrigger(r)
    BY <2>1, ClientGoes DEF WriteTrigger, ChannelTypeOK
  <2>2. CASE Deadline(r)
    BY <2>2 DEF Deadline, ChannelTypeOK, ClientState
  <2>3. CASE Abort(r)
    BY <2>3, ClientGoes DEF Abort, ChannelTypeOK
  <2> QED BY <1>2, <2>1, <2>2, <2>3
<1>3. ASSUME NEW r \in Requests, Claim(r) \/ Handle(r) \/ GrowOld(r) PROVE ChannelTypeOK'
  <2>1. CASE Claim(r)
    BY <2>1 DEF Claim, ChannelTypeOK
  <2>2. CASE Act(r)
    BY <2>2 DEF Act, ChannelTypeOK
  <2>3. CASE WriteResult(r)
    BY <2>3 DEF WriteResult, ChannelTypeOK
  <2>4. CASE RemoveClaimed(r)
    BY <2>4 DEF RemoveClaimed, ChannelTypeOK
  <2>5. CASE GrowOld(r)
    BY <2>5 DEF GrowOld, ChannelTypeOK
  <2> QED BY <1>3, <2>1, <2>2, <2>3, <2>4, <2>5 DEF Handle
<1>4. CASE ReadDir \/ Crash \/ StartDaemon
  BY <1>4 DEF ReadDir, Crash, StartDaemon, ChannelTypeOK
<1>5. CASE UNCHANGED channelVars
  BY <1>5 DEF channelVars, ChannelTypeOK
<1> QED BY <1>1, <1>2, <1>3, <1>4, <1>5 DEF ChannelNext

LEMMA ChannelSoundStep == ChannelInv /\ [ChannelNext]_channelVars => \A r \in Requests : Sound(r)'
<1> SUFFICES ASSUME ChannelInv, [ChannelNext]_channelVars, NEW q \in Requests PROVE Sound(q)'
  OBVIOUS
<1> USE DEF ChannelInv, ChannelTypeOK, ClientState, Sound, files, service
<1>1. ASSUME NEW r \in Requests, WriteTrigger(r) PROVE Sound(q)'
  BY <1>1 DEF WriteTrigger, Go
<1>2. ASSUME NEW r \in Requests, Await(r) PROVE Sound(q)'
  <2>1. CASE ReadResult(r)
    <3>1. CASE result[r] = "whole"
      BY <2>1, <3>1 DEF ReadResult, Return
    <3>2. CASE result[r] # "whole"
      <4>1. PICK where \in {"claimed", "decide"} : Go(r, where) /\ UNCHANGED result
        BY <2>1, <3>2 DEF ReadResult
      <4> QED BY <2>1, <4>1 DEF ReadResult, Go
    <3> QED BY <3>1, <3>2
  <2>2. CASE StatClaimed(r)
    BY <2>2 DEF StatClaimed, Go
  <2>3. CASE StatPath(r)
    BY <2>3 DEF StatPath
  <2>4. CASE Decide(r)
    BY <2>4 DEF Decide, Go, Return
  <2>5. CASE RemoveTrigger(r)
    BY <2>5 DEF RemoveTrigger, Return
  <2> QED BY <1>2, <2>1, <2>2, <2>3, <2>4, <2>5 DEF Await
<1>3. ASSUME NEW r \in Requests, Deadline(r) PROVE Sound(q)'
  BY <1>3 DEF Deadline
<1>4. ASSUME NEW r \in Requests, Abort(r) PROVE Sound(q)'
  BY <1>4 DEF Abort, Go
<1>5. ASSUME NEW r \in Requests, Claim(r) PROVE Sound(q)'
  BY <1>5 DEF Claim
<1>6. ASSUME NEW r \in Requests, Handle(r) PROVE Sound(q)'
  <2>1. CASE Act(r)
    BY <2>1 DEF Act
  <2>2. CASE WriteResult(r)
    BY <2>2 DEF WriteResult
  <2>3. CASE RemoveClaimed(r)
    BY <2>3 DEF RemoveClaimed
  <2> QED BY <1>6, <2>1, <2>2, <2>3 DEF Handle
<1>7. ASSUME NEW r \in Requests, GrowOld(r) PROVE Sound(q)'
  BY <1>7 DEF GrowOld
<1>8. CASE ReadDir \/ Crash \/ StartDaemon
  BY <1>8 DEF ReadDir, Crash, StartDaemon
<1>9. CASE UNCHANGED channelVars
  BY <1>9 DEF channelVars
<1> QED BY <1>1, <1>2, <1>3, <1>4, <1>5, <1>6, <1>7, <1>8, <1>9 DEF ChannelNext

LEMMA ChannelInvariant == ChannelSpec => []ChannelInv
<1>1. ChannelInit => ChannelInv
  BY DEF ChannelInit, ChannelInv, ChannelTypeOK, ClientState, Sound
<1>2. ChannelInv /\ [ChannelNext]_channelVars => ChannelInv'
  BY ChannelTypeStep, ChannelSoundStep DEF ChannelInv
<1> QED BY <1>1, <1>2, PTL DEF ChannelSpec

\* Every variable holds a value of its kind: in particular no client answers with half a result.
THEOREM ChannelTypeCorrect == ChannelSpec => []ChannelTypeOK
<1>1. ChannelInv => ChannelTypeOK
  BY DEF ChannelInv
<1> QED BY <1>1, ChannelInvariant, PTL

\* Whatever daemons crash and start, and however late clients give up, no request is acted on
\* twice: the rename to .claimed is the only way from a request to its handler.
THEOREM NoneActedTwice == ChannelSpec => []ActedOnce
<1>1. ChannelInv => ActedOnce
  BY DEF ChannelInv, Sound, ActedOnce
<1> QED BY <1>1, ChannelInvariant, PTL

\* A client that reports that its request was accepted, or its result, tells the truth.
THEOREM AnswersAreServed == ChannelSpec => []Served
<1>1. ChannelInv => Served
  BY DEF ChannelInv, Sound, Served
<1> QED BY <1>1, ChannelInvariant, PTL

\* What a daemon acts on after five minutes is the request of a client that was interrupted: one
\* that answered has taken its request back.
THEOREM AnsweredIsNotLeft == ChannelSpec => []StaleAbandoned
<1>1. ChannelInv => StaleAbandoned
  BY DEF ChannelInv, ChannelTypeOK, Sound, StaleAbandoned
<1> QED BY <1>1, ChannelInvariant, PTL

-----------------------------------------------------------------------------
(***************************************************************************)
(* The executions.  What job cancel finds in the slot, and what the        *)
(* records of cancelled executions say, for any number of executions.      *)
(***************************************************************************)
\* A cancel function in the slot is that of the newest execution, which has not left.
SlotInv == slot # Nobody => InFlight(slot) /\ slot = latest

\* A context that was cancelled, and a record, name a cause that has come about.
ReasonInv ==
  /\ \A e \in Executions :
       /\ at[e] = "idle" => before[e] = {}
       /\ cause[e] = "shutdown" => phase # "serving" \/ at[e] = "done"
       /\ status[e] = "shutdown" => phase # "serving"
       /\ "superseded" \in {cause[e], status[e]} =>
            policy = "cancel_previous" /\ \E f \in Executions : e \in before[f]

\* Of two executions in flight one registered while the other was; the one that overlapped no
\* other is in the slot.
AloneInv ==
  /\ \A e, f \in Executions :
       InFlight(e) /\ InFlight(f) /\ e # f => e \in before[f] \/ f \in before[e]
  /\ \A e \in Executions : InFlight(e) /\ phase = "serving" /\ ~Overlapped(e) => slot = e

\* What has ended has its record, except for the goroutines that ended with the process.
RecordInv ==
  \A e \in Executions :
    /\ at[e] \in {"ended", "leaving"} => status[e] # "none"
    /\ at[e] = "done" /\ status[e] = "none" => starter[e] = "goroutine"

ExecutionsInv == TypeOK /\ SlotInv /\ ReasonInv /\ AloneInv /\ RecordInv

LEMMA TypeStep == TypeOK /\ [Next]_vars => TypeOK'
<1> SUFFICES ASSUME TypeOK, [Next]_vars PROVE TypeOK'
  OBVIOUS
<1> USE DEF TypeOK, Policies, Starters, Causes
<1>1. ASSUME NEW e \in Executions, Step(e) PROVE TypeOK'
  <2>1. ASSUME NEW s \in Starters, Register(e, s) PROVE TypeOK'
    BY <2>1 DEF Register, Cancelled
  <2>2. CASE TryLockRun(e)
    BY <2>2 DEF TryLockRun
  <2>3. CASE Finish(e)
    BY <2>3 DEF Finish
  <2>4. CASE Unlock(e)
    BY <2>4 DEF Unlock
  <2>5. CASE Leave(e)
    BY <2>5 DEF Leave, Cancelled
  <2> QED BY <1>1, <2>1, <2>2, <2>3, <2>4, <2>5 DEF Step
<1>2. CASE CancelCommand
  BY <1>2 DEF CancelCommand, Cancelled
<1>3. CASE Shutdown
  BY <1>3 DEF Shutdown
<1>4. CASE Exit
  BY <1>4 DEF Exit
<1>5. CASE UNCHANGED vars
  BY <1>5 DEF vars
<1> QED BY <1>1, <1>2, <1>3, <1>4, <1>5 DEF Next

LEMMA SlotStep == TypeOK /\ SlotInv /\ [Next]_vars => SlotInv'
<1> SUFFICES ASSUME TypeOK, SlotInv, [Next]_vars PROVE SlotInv'
  OBVIOUS
<1> USE NobodyAssumption DEF TypeOK, SlotInv, InFlight
<1>1. ASSUME NEW e \in Executions, Step(e) PROVE SlotInv'
  <2>1. ASSUME NEW s \in Starters, Register(e, s) PROVE SlotInv'
    BY <2>1 DEF Register
  <2>2. CASE TryLockRun(e)
    BY <2>2 DEF TryLockRun
  <2>3. CASE Finish(e)
    BY <2>3 DEF Finish, Running
  <2>4. CASE Unlock(e)
    BY <2>4 DEF Unlock
  <2>5. CASE Leave(e)
    BY <2>5 DEF Leave
  <2> QED BY <1>1, <2>1, <2>2, <2>3, <2>4, <2>5 DEF Step
<1>2. CASE CancelCommand
  BY <1>2 DEF CancelCommand
<1>3. CASE Shutdown
  BY <1>3 DEF Shutdown
<1>4. CASE Exit
  BY <1>4 DEF Exit
<1>5. CASE UNCHANGED vars
  BY <1>5 DEF vars
<1> QED BY <1>1, <1>2, <1>3, <1>4, <1>5 DEF Next

\* The reason of an execution that no other one has superseded, and of one that is over.
LEMMA ReasonStep == ExecutionsInv /\ [Next]_vars => ReasonInv'
<1> SUFFICES ASSUME ExecutionsInv, [Next]_vars PROVE ReasonInv'
  OBVIOUS
<1> USE NobodyAssumption DEF ExecutionsInv, TypeOK, SlotInv, ReasonInv, InFlight, Causes
<1>1. ASSUME NEW e \in Executions, Step(e) PROVE ReasonInv'
  <2>1. ASSUME NEW s \in Starters, Register(e, s) PROVE ReasonInv'
    <3>1. /\ at[e] = "idle" /\ UNCHANGED <<policy, status, phase>>
          /\ at' = [at EXCEPT ![e] = "registered"]
          /\ before' = [before EXCEPT ![e] = {p \in Executions : InFlight(p)}]
      BY <2>1 DEF Register
    <3>2. \A p \in Executions : cause'[p] = cause[p] \/
            (p = slot /\ cause'[p] = "superseded" /\ policy = "cancel_previous")
      BY <2>1 DEF Register, Cancelled
    <3>3. slot # Nobody => slot \in before'[e]
      BY <3>1
    <3>4. \A f \in Executions : before[f] \subseteq before'[f]
      BY <3>1
    <3> QED BY <3>1, <3>2, <3>3, <3>4
  <2>2. CASE TryLockRun(e)
    BY <2>2 DEF TryLockRun
  <2>3. CASE Finish(e)
    BY <2>3 DEF Finish, Running
  <2>4. CASE Unlock(e)
    BY <2>4 DEF Unlock
  <2>5. CASE Leave(e)
    BY <2>5 DEF Leave, Cancelled
  <2> QED BY <1>1, <2>1, <2>2, <2>3, <2>4, <2>5 DEF Step
<1>2. CASE CancelCommand
  BY <1>2 DEF CancelCommand, Cancelled
<1>3. CASE Shutdown
  BY <1>3 DEF Shutdown
<1>4. CASE Exit
  BY <1>4 DEF Exit
<1>5. CASE UNCHANGED vars
  BY <1>5 DEF vars
<1> QED BY <1>1, <1>2, <1>3, <1>4, <1>5 DEF Next

\* An execution that leaves and one that is in flight beside it have overlapped.
LEMMA AloneStep == ExecutionsInv /\ [Next]_vars => AloneInv'
<1> SUFFICES ASSUME ExecutionsInv, [Next]_vars PROVE AloneInv'
  OBVIOUS
<1> USE NobodyAssumption
      DEF ExecutionsInv, TypeOK, SlotInv, ReasonInv, AloneInv, InFlight, Overlapped
<1>1. ASSUME NEW e \in Executions, Step(e) PROVE AloneInv'
  <2>1. ASSUME NEW s \in Starters, Register(e, s) PROVE AloneInv'
    BY <2>1 DEF Register
  <2>2. CASE TryLockRun(e)
    BY <2>2 DEF TryLockRun
  <2>3. CASE Finish(e)
    BY <2>3 DEF Finish, Running
  <2>4. CASE Unlock(e)
    BY <2>4 DEF Unlock
  <2>5. CASE Leave(e)
    BY <2>5 DEF Leave
  <2> QED BY <1>1, <2>1, <2>2, <2>3, <2>4, <2>5 DEF Step
<1>2. CASE CancelCommand
  BY <1>2 DEF CancelCommand
<1>3. CASE Shutdown
  BY <1>3 DEF Shutdown
<1>4. CASE Exit
  BY <1>4 DEF Exit
<1>5. CASE UNCHANGED vars
  BY <1>5 DEF vars
<1> QED BY <1>1, <1>2, <1>3, <1>4, <1>5 DEF Next

\* Exit ends only goroutines that nothing waits for.
LEMMA RecordStep == ExecutionsInv /\ [Next]_vars => RecordInv'
<1> SUFFICES ASSUME ExecutionsInv, [Next]_vars PROVE RecordInv'
  OBVIOUS
<1> USE NobodyAssumption DEF ExecutionsInv, TypeOK, RecordInv, InFlight, Causes
<1>1. ASSUME NEW e \in Executions, Step(e) PROVE RecordInv'
  <2>1. ASSUME NEW s \in Starters, Register(e, s) PROVE RecordInv'
    BY <2>1 DEF Register
  <2>2. CASE TryLockRun(e)
    BY <2>2 DEF TryLockRun
  <2>3. CASE Finish(e)
    BY <2>3 DEF Finish, Running
  <2>4. CASE Unlock(e)
    BY <2>4 DEF Unlock
  <2>5. CASE Leave(e)
    BY <2>5 DEF Leave
  <2> QED BY <1>1, <2>1, <2>2, <2>3, <2>4, <2>5 DEF Step
<1>2. CASE CancelCommand
  BY <1>2 DEF CancelCommand
<1>3. CASE Shutdown
  BY <1>3 DEF Shutdown
<1>4. CASE Exit
  BY <1>4 DEF Exit
<1>5. CASE UNCHANGED vars
  BY <1>5 DEF vars
<1> QED BY <1>1, <1>2, <1>3, <1>4, <1>5 DEF Next

LEMMA ExecutionsInvariant == Spec => []ExecutionsInv
<1>1. Init => ExecutionsInv
  BY DEF Init, ExecutionsInv, TypeOK, SlotInv, ReasonInv, AloneInv, RecordInv, InFlight,
         Policies, Starters, Causes
<1>2. ExecutionsInv /\ [Next]_vars => ExecutionsInv'
  BY TypeStep, SlotStep, ReasonStep, AloneStep, RecordStep DEF ExecutionsInv
<1> QED BY <1>1, <1>2, PTL DEF Spec

\* Every variable holds a value of its kind, in every reachable state.
THEOREM ExecutionsTypeCorrect == Spec => []TypeOK
<1>1. ExecutionsInv => TypeOK
  BY DEF ExecutionsInv
<1> QED BY <1>1, ExecutionsInvariant, PTL

\* What job cancel would cancel is the newest execution, and it is not over, however many
\* executions begin, are refused, or leave.
THEOREM SlotHoldsLatest == Spec => []SlotIsLatest
<1>1. ExecutionsInv => SlotIsLatest
  BY DEF ExecutionsInv, SlotInv, SlotIsLatest
<1> QED BY <1>1, ExecutionsInvariant, PTL

\* A record says "shutdown" only if the daemon stops, and "superseded" only if the policy asks for
\* it and another execution began after the one it is about.
THEOREM ReasonsAreTrue == Spec => []ReasonTrue
<1>1. ExecutionsInv => ReasonTrue
  BY DEF ExecutionsInv, ReasonInv, ReasonTrue
<1> QED BY <1>1, ExecutionsInvariant, PTL

\* An execution that no other overlapped is found by job cancel as long as it runs.
THEOREM AloneAreReached == Spec => []AloneIsReached
<1>1. ExecutionsInv => AloneIsReached
  BY DEF ExecutionsInv, AloneInv, AloneIsReached, InFlight, Running
<1> QED BY <1>1, ExecutionsInvariant, PTL

\* A shutdown leaves no run of gocron's or of the clock loop's without its terminal record.
THEOREM LoopsAreRecorded == Spec => []LoopRunsRecorded
<1>1. ExecutionsInv => LoopRunsRecorded
  BY DEF ExecutionsInv, RecordInv, LoopRunsRecorded
<1> QED BY <1>1, ExecutionsInvariant, PTL
=============================================================================
