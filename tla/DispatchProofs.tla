--------------------------- MODULE DispatchProofs ---------------------------
(***************************************************************************)
(* Proofs about Dispatch, for any requests, goroutines, limits and bounds.  *)
(* The inductive invariant adds to the properties what the polling loop     *)
(* knows at each of its points, since it acts on checks it made earlier.    *)
(***************************************************************************)
EXTENDS Dispatch, FiniteSetTheorems, TLAPS

(* Past the nil check, the loop holds a task.                               *)
OfferInHand == poll = "claim" => offer \in Requests

IInv == TypeOK /\ OfferInHand /\ OneTaskPerRequest

(* A running goroutine has a request.                                       *)
LEMMA LiveHasRequest ==
    TypeOK /\ OneTaskPerRequest => \A g \in Slots : pc[g] # "idle" => req[g] \in active
BY DEF TypeOK, OneTaskPerRequest, Live

(* The types and the offer.                                                 *)
LEMMA TypeStep == IInv /\ [Next]_vars => TypeOK' /\ OfferInHand'
<1> SUFFICES ASSUME TypeOK, OfferInHand, OneTaskPerRequest, [Next]_vars
             PROVE  TypeOK' /\ OfferInHand'
  BY DEF IInv
<1> USE DispatchAssumption DEF DispatchAssumption, OfferInHand, AtLoop, AtTask, Goto
<1>1. CASE Boot
  BY <1>1 DEF TypeOK, Boot, loadOversizeSkip, taskVars, abortVars, coolVars, Cooldown
<1>2. CASE Crash \/ StopAfterCurrent
  <2>1. paused' \in BOOLEAN
    BY <1>2, Zenon DEF Crash, StopAfterCurrent, ProcessGone
  <2>2. MarkPending \subseteq Requests
    BY LiveHasRequest DEF TypeOK, MarkPending
  <2> QED
    BY <1>2, <2>1, <2>2 DEF TypeOK, Crash, StopAfterCurrent, ProcessGone, Cooldown, Phases, ErrKinds
<1>3. CASE LoopConfig \/ LoopSkip \/ LoopProceed \/ PollNothing \/ ClaimRefused
  BY <1>3 DEF TypeOK, LoopConfig, LoopSkip, LoopProceed, PollNothing, ClaimRefused, taskVars,
              abortVars, overVars, coolVars
<1>4. ASSUME NEW r \in Requests, PollTask(r)
      PROVE  TypeOK' /\ OfferInHand'
  BY <1>4 DEF TypeOK, PollTask, taskVars, abortVars, overVars, coolVars
<1>5. ASSUME NEW g \in Slots, Claim(g)
      PROVE  TypeOK' /\ OfferInHand'
  BY <1>5 DEF TypeOK, Claim, overVars, coolVars, Phases
<1>6. ASSUME NEW g \in Slots, SkipOversize(g) \/ Begin(g) \/ Fail(g) \/ Succeed(g) \/ Report(g)
      PROVE  TypeOK' /\ OfferInHand'
  <2>2. CASE SkipOversize(g) \/ Fail(g) \/ Succeed(g)
    BY <2>2 DEF TypeOK, SkipOversize, Fail, Succeed, loopVars, abortVars, overVars, coolVars,
                    Phases, ErrKinds
  <2>3. CASE Begin(g)
    <3>1. overMem' \in [Requests -> Cooldown]
      BY <2>3 DEF TypeOK, Begin, Cooldown
    <3>2. overDisk' \in [Requests -> Cooldown] /\ unsaved' \in SUBSET Requests
      BY <2>3, <3>1 DEF TypeOK, Begin, saveOversizeSkip, Cooldown
    <3> QED
      BY <2>3, <3>1, <3>2 DEF TypeOK, Begin, loopVars, abortVars, Phases
  <2>4. CASE Report(g)
    BY <2>4, LiveHasRequest DEF TypeOK, Report, loopVars, abortVars, Phases
  <2> QED
    BY <1>6, <2>2, <2>3, <2>4
<1>7. ASSUME NEW g \in Slots, MarkOversize(g) \/ RecordAbort(g) \/ Release(g)
      PROVE  TypeOK' /\ OfferInHand'
  <2>1. CASE MarkOversize(g)
    <3>1. overMem' \in [Requests -> Cooldown]
      BY <2>1 DEF TypeOK, MarkOversize, Cooldown
    <3>2. overDisk' \in [Requests -> Cooldown] /\ unsaved' \in SUBSET Requests
      BY <2>1, <3>1, LiveHasRequest DEF TypeOK, MarkOversize, saveOversizeSkip, Cooldown
    <3> QED
      BY <2>1, <3>1, <3>2 DEF TypeOK, MarkOversize, loopVars, abortVars, Phases
  <2>2. CASE RecordAbort(g)
    BY <2>2 DEF TypeOK, RecordAbort, loopVars, overVars, coolVars, Phases
  <2>3. CASE Release(g)
    BY <2>3 DEF TypeOK, Release, loopVars, abortVars, overVars, coolVars, Phases, ErrKinds
  <2> QED
    BY <1>7, <2>1, <2>2, <2>3
<1>8. CASE PauseEnds
  <2>1. paused' \in BOOLEAN
    BY <1>8, Zenon DEF PauseEnds
  <2> QED
    BY <1>8, <2>1 DEF TypeOK, PauseEnds, loopVars, taskVars, overVars, coolVars
<1>9. ASSUME NEW r \in Requests, CooldownEnds(r)
      PROVE  TypeOK' /\ OfferInHand'
  BY <1>9 DEF TypeOK, CooldownEnds, Lapse, loopVars, taskVars, abortVars, Cooldown
<1>10. CASE UNCHANGED vars
  BY <1>10 DEF TypeOK, vars, loopVars, taskVars, abortVars, overVars, coolVars
<1> QED
  BY <1>1, <1>2, <1>3, <1>4, <1>5, <1>6, <1>7, <1>8, <1>9, <1>10 DEF Next, Loop, Task

-----------------------------------------------------------------------------
(* activeTasks and the goroutines agree after every step.                   *)
LEMMA OneTaskStep == IInv /\ [Next]_vars => OneTaskPerRequest'
<1> SUFFICES ASSUME TypeOK, OfferInHand, OneTaskPerRequest, [Next]_vars
             PROVE  OneTaskPerRequest'
  BY DEF IInv
<1> USE DEF OneTaskPerRequest, Live, AtLoop, AtTask, Goto
<1>1. CASE Boot \/ PauseEnds \/ (\E r \in Requests : CooldownEnds(r)) \/ UNCHANGED vars
  BY <1>1 DEF Boot, PauseEnds, CooldownEnds, vars, taskVars
<1>2. CASE Crash \/ StopAfterCurrent
  BY <1>2 DEF Crash, StopAfterCurrent, ProcessGone
<1>3. CASE \/ LoopConfig \/ LoopSkip \/ LoopProceed \/ (\E r \in Requests : PollTask(r))
           \/ PollNothing \/ ClaimRefused
  BY <1>3 DEF LoopConfig, LoopSkip, LoopProceed, PollTask, PollNothing, ClaimRefused, taskVars
<1>4. ASSUME NEW g \in Slots, Claim(g)
      PROVE  OneTaskPerRequest'
  <2>1. Live' = Live \union {g} /\ req' = [req EXCEPT ![g] = offer] /\ g \notin Live
    BY <1>4 DEF TypeOK, Claim
  <2>2. {req'[h] : h \in Live'} = {req[h] : h \in Live} \union {offer}
    BY <2>1 DEF TypeOK
  <2>3. \A h \in Live : req[h] # offer
    BY <1>4 DEF Claim, claimTask
  <2> QED
    BY <1>4, <2>1, <2>2, <2>3 DEF TypeOK, Claim
<1>5. ASSUME NEW g \in Slots,
             \/ SkipOversize(g) \/ Begin(g) \/ Fail(g) \/ Succeed(g) \/ Report(g)
             \/ MarkOversize(g) \/ RecordAbort(g)
      PROVE  OneTaskPerRequest'
  <2>1. Live' = Live /\ req' = req /\ active' = active
    BY <1>5 DEF TypeOK, SkipOversize, Begin, Fail, Succeed, Report, MarkOversize, RecordAbort
  <2> QED
    BY <2>1
<1>6. ASSUME NEW g \in Slots, Release(g)
      PROVE  OneTaskPerRequest'
  <2>1. Live' = Live \ {g} /\ g \in Live /\ req' = [req EXCEPT ![g] = NoReq]
    BY <1>6 DEF TypeOK, Release
  <2>2. \A h \in Live' : req'[h] = req[h] /\ req[h] # req[g]
    BY <2>1 DEF TypeOK
  <2>3. active' = {req[h] : h \in Live} \ {req[g]}
    BY <1>6 DEF Release
  <2> QED
    BY <2>1, <2>2, <2>3 DEF TypeOK
<1> QED
  BY <1>1, <1>2, <1>3, <1>4, <1>5, <1>6 DEF Next, Loop, Task

(* The invariant holds when the agent is first started.                     *)
LEMMA InvInit == Init => IInv
<1> SUFFICES ASSUME Init PROVE IInv
  OBVIOUS
<1>1. paused \in BOOLEAN
  BY Zenon DEF Init
<1>2. TypeOK
  BY <1>1, DispatchAssumption DEF DispatchAssumption, Init, TypeOK, Phases, ErrKinds, Cooldown
<1>3. OfferInHand /\ OneTaskPerRequest
  BY DEF Init, OfferInHand, OneTaskPerRequest, Live
<1> QED
  BY <1>2, <1>3 DEF IInv

(* Types, the offer and activeTasks hold in every reachable state.          *)
LEMMA InvInductive == Spec => []IInv
<1>1. IInv /\ [Next]_vars => IInv'
  BY TypeStep, OneTaskStep DEF IInv
<1> QED
  BY <1>1, InvInit, PTL DEF Spec

(* The variables of Dispatch always have their types.                       *)
THEOREM TypeCorrect == Spec => []TypeOK
<1>1. IInv => TypeOK
  BY DEF IInv
<1> QED
  BY <1>1, InvInductive, PTL

(* However the site repeats or withdraws tasks, a request has at most one   *)
(* goroutine, and activeTasks is exact.                                     *)
THEOREM ClaimsExclusive == Spec => []OneTaskPerRequest
<1>1. IInv => OneTaskPerRequest
  BY DEF IInv
<1> QED
  BY <1>1, InvInductive, PTL

-----------------------------------------------------------------------------
(* The loop acts on checks made before the poll; they stay true meanwhile:  *)
(* there is room for one more task, as long as only the loop adds tasks and *)
(* the limit is read before the check.                                      *)
RoomForOne ==
    /\ IsFiniteSet(active)
    /\ agent # "up" => poll = "config"
    /\ poll \in {"poll", "claim"} => Cardinality(active) < maxDL

(* Room for one more task lasts from the check to the claim.                *)
LEMMA RoomStep == IInv /\ RoomForOne /\ [Next]_vars => RoomForOne' /\ [StartsWithinLimit]_vars
<1> SUFFICES ASSUME TypeOK, OneTaskPerRequest, RoomForOne, [Next]_vars
             PROVE  RoomForOne' /\ StartsWithinLimit
  BY DEF IInv
<1> USE DEF RoomForOne, StartsWithinLimit, AtLoop, AtTask, Goto
<1>1. CASE Boot \/ PauseEnds \/ (\E r \in Requests : CooldownEnds(r)) \/ UNCHANGED vars
  BY <1>1 DEF Boot, PauseEnds, CooldownEnds, vars, loopVars, taskVars
<1>2. CASE Crash \/ StopAfterCurrent
  BY <1>2, FS_EmptySet DEF Crash, StopAfterCurrent, ProcessGone
<1>3. CASE \/ LoopConfig \/ LoopSkip \/ LoopProceed \/ (\E r \in Requests : PollTask(r))
           \/ PollNothing \/ ClaimRefused
  BY <1>3 DEF LoopConfig, LoopSkip, LoopProceed, HasCapacity, PollTask, PollNothing, ClaimRefused,
              taskVars
<1>4. ASSUME NEW g \in Slots, Claim(g)
      PROVE  RoomForOne' /\ StartsWithinLimit
  <2>1. active' = active \union {offer} /\ offer \notin active /\ maxDL' = maxDL
        /\ poll = "claim" /\ poll' = "config" /\ agent' = agent /\ agent = "up"
    BY <1>4 DEF Claim, claimTask
  <2>2. IsFiniteSet(active') /\ Cardinality(active') = Cardinality(active) + 1
    BY <2>1, FS_AddElement
  <2>3. Cardinality(active) \in Nat /\ maxDL \in Nat
    BY FS_CardinalityType, DispatchAssumption DEF DispatchAssumption, TypeOK
  <2> QED
    BY <2>1, <2>2, <2>3
<1>5. ASSUME NEW g \in Slots,
             \/ SkipOversize(g) \/ Begin(g) \/ Fail(g) \/ Succeed(g) \/ Report(g)
             \/ MarkOversize(g) \/ RecordAbort(g)
      PROVE  RoomForOne' /\ StartsWithinLimit
  BY <1>5 DEF SkipOversize, Begin, Fail, Succeed, Report, MarkOversize, RecordAbort, loopVars
<1>6. ASSUME NEW g \in Slots, Release(g)
      PROVE  RoomForOne' /\ StartsWithinLimit
  <2>1. active' = active \ {req[g]} /\ req[g] \in active /\ UNCHANGED <<agent, loopVars>>
    BY <1>6, LiveHasRequest DEF Release
  <2>2. IsFiniteSet(active') /\ Cardinality(active') = Cardinality(active) - 1
    BY <2>1, FS_RemoveElement
  <2>3. Cardinality(active) \in Nat /\ maxDL \in Nat
    BY FS_CardinalityType, DispatchAssumption DEF DispatchAssumption, TypeOK
  <2> QED
    BY <2>1, <2>2, <2>3 DEF loopVars
<1> QED
  BY <1>1, <1>2, <1>3, <1>4, <1>5, <1>6 DEF Next, Loop, Task

(* A dispatch never exceeds the concurrency limit in force.                 *)
THEOREM LimitRespected == Spec => CapacityRespected
<1>1. Init => RoomForOne
  BY FS_EmptySet DEF Init, RoomForOne
<1> QED
  BY <1>1, InvInductive, RoomStep, PTL DEF Spec, CapacityRespected

(* stop_after_current ends the process only when no goroutine is running.   *)
THEOREM StopIsGraceful == Spec => GracefulStop
<1>1. IInv /\ [Next]_vars => [StopsIdle]_vars
  <2> SUFFICES ASSUME OneTaskPerRequest, [Next]_vars, agent = "up", agent' = "stopped"
               PROVE  Live = {}
    BY DEF IInv, StopsIdle
  <2>1. StopAfterCurrent
    BY DEF Next, Loop, Task, Boot, Crash, LoopConfig, LoopSkip, LoopProceed, PollTask, PollNothing,
           Claim, ClaimRefused, SkipOversize, Begin, Fail, Succeed, Report, MarkOversize,
           RecordAbort, Release, PauseEnds, CooldownEnds, vars
  <2> QED
    BY <2>1 DEF StopAfterCurrent, Drained, OneTaskPerRequest
<1> QED
  BY <1>1, InvInductive, PTL DEF Spec, GracefulStop

-----------------------------------------------------------------------------
(* A pause that begins while a poll is in flight has seen no dispatch yet.  *)
FirstInPause ==
    paused => inPause <= 1 /\ (poll \in {"poll", "claim"} => inPause = 0)

(* Only the claim of the poll in flight uses up the pause's one task.       *)
LEMMA PauseStep == TypeOK /\ FirstInPause /\ [Next]_vars => FirstInPause'
<1> SUFFICES ASSUME TypeOK, FirstInPause, [Next]_vars PROVE FirstInPause'
  OBVIOUS
<1> USE DEF FirstInPause, AtLoop, AtTask, Goto
<1>1. CASE Boot \/ PauseEnds \/ (\E r \in Requests : CooldownEnds(r)) \/ UNCHANGED vars
  BY <1>1 DEF Boot, PauseEnds, CooldownEnds, vars, loopVars, abortVars
<1>2. CASE Crash \/ StopAfterCurrent
  BY <1>2 DEF Crash, StopAfterCurrent, ProcessGone
<1>3. CASE \/ LoopConfig \/ LoopSkip \/ LoopProceed \/ (\E r \in Requests : PollTask(r))
           \/ PollNothing \/ ClaimRefused
  BY <1>3 DEF LoopConfig, LoopSkip, LoopProceed, SelfPaused, PollTask, PollNothing, ClaimRefused,
              abortVars
<1>4. ASSUME NEW g \in Slots, Claim(g)
      PROVE  FirstInPause'
  BY <1>4 DEF TypeOK, Claim
<1>5. ASSUME NEW g \in Slots,
             \/ SkipOversize(g) \/ Begin(g) \/ Fail(g) \/ Succeed(g) \/ Report(g)
             \/ MarkOversize(g) \/ Release(g)
      PROVE  FirstInPause'
  BY <1>5 DEF TypeOK, SkipOversize, Begin, Fail, Succeed, Report, MarkOversize, Release, loopVars,
              abortVars
<1>6. ASSUME NEW g \in Slots, RecordAbort(g)
      PROVE  FirstInPause'
  <2>1. CASE paused
    <3>1. inPause' = inPause /\ poll' = poll
      BY <1>6, <2>1 DEF RecordAbort, loopVars
    <3> QED
      BY <2>1, <3>1
  <2>2. CASE ~paused
    <3>1. inPause' = 0
      BY <1>6, <2>2 DEF RecordAbort
    <3> QED
      BY <3>1
  <2> QED
    BY <2>1, <2>2
<1> QED
  BY <1>1, <1>2, <1>3, <1>4, <1>5, <1>6 DEF Next, Loop, Task

(* Once the self-pause begins, at most one more task starts.                *)
THEOREM PauseHolds == Spec => []PauseStopsDispatch
<1>1. ASSUME Init PROVE FirstInPause
  <2>1. inPause = 0
    BY <1>1 DEF Init
  <2> QED
    BY <2>1 DEF FirstInPause
<1>2. FirstInPause => PauseStopsDispatch
  BY DEF FirstInPause, PauseStopsDispatch
<1> QED
  BY <1>1, <1>2, TypeCorrect, PauseStep, PTL DEF Spec

-----------------------------------------------------------------------------
(* A request reported too large and not forgotten is about to be marked, or *)
(* marked in memory and, unless a save failed since, in the file. Without a *)
(* process, the file has it.                                                *)
CoolingRecorded ==
    \A r \in cooling \ forgotten :
        IF agent = "up"
        THEN \/ r \in MarkPending
             \/ overMem[r] = "live" /\ (r \in unsaved \/ overDisk[r] = "live")
        ELSE overDisk[r] = "live"

(* A mark, once made, stays in memory, and a save that succeeds puts all of *)
(* memory into the file; a process that ends leaves what the file has.      *)
LEMMA CoolingStep == IInv /\ CoolingRecorded /\ [Next]_vars => CoolingRecorded'
<1> SUFFICES ASSUME TypeOK, OneTaskPerRequest, CoolingRecorded, [Next]_vars
             PROVE  CoolingRecorded'
  BY DEF IInv
<1> USE DEF CoolingRecorded, AtLoop, AtTask, Goto
<1>1. CASE Boot
  BY <1>1 DEF TypeOK, Boot, loadOversizeSkip, taskVars, coolVars
<1>2. CASE Crash \/ StopAfterCurrent
  <2>1. /\ agent = "up" /\ agent' # "up" /\ UNCHANGED <<cooling, overDisk>>
        /\ forgotten' = forgotten \union unsaved \union MarkPending
    BY <1>2 DEF Crash, StopAfterCurrent, ProcessGone
  <2> QED
    BY <2>1
<1>3. CASE \/ LoopConfig \/ LoopSkip \/ LoopProceed \/ (\E r \in Requests : PollTask(r))
           \/ PollNothing \/ ClaimRefused \/ PauseEnds \/ UNCHANGED vars
  <2>1. UNCHANGED <<agent, taskVars, overVars>>
    BY <1>3 DEF LoopConfig, LoopSkip, LoopProceed, PollTask, PollNothing, ClaimRefused, PauseEnds,
                vars
  <2>2. MarkPending' = MarkPending
    BY <2>1 DEF MarkPending, taskVars
  <2> QED
    BY <2>1, <2>2 DEF overVars, coolVars
<1>4. ASSUME NEW r \in Requests, CooldownEnds(r)
      PROVE  CoolingRecorded'
  <2>1. MarkPending' = MarkPending /\ agent' = agent
    BY <1>4 DEF CooldownEnds, MarkPending, taskVars
  <2>2. cooling' = cooling \ {r} /\ forgotten' = forgotten \ {r} /\ unsaved' = unsaved \ {r}
    BY <1>4 DEF CooldownEnds
  <2>3. \A q \in Requests \ {r} : overMem'[q] = overMem[q] /\ overDisk'[q] = overDisk[q]
    BY <1>4 DEF TypeOK, CooldownEnds
  <2> QED
    BY <2>1, <2>2, <2>3 DEF TypeOK
<1>5. ASSUME NEW g \in Slots,
             \/ Claim(g) \/ SkipOversize(g) \/ Begin(g) \/ Fail(g) \/ Succeed(g) \/ Report(g)
             \/ RecordAbort(g) \/ Release(g)
      PROVE  MarkPending \subseteq MarkPending'
  <2> SUFFICES ASSUME NEW h \in Slots, pc[h] = "mark", err[h] = "disk"
               PROVE  req[h] \in MarkPending'
    BY DEF MarkPending
  <2>1. h # g
    BY <1>5 DEF Claim, SkipOversize, Begin, Fail, Succeed, Report, RecordAbort, Release
  <2>2. req'[h] = req[h] /\ pc'[h] = pc[h] /\ err'[h] = err[h]
    BY <1>5, <2>1 DEF TypeOK, Claim, SkipOversize, Begin, Fail, Succeed, Report, RecordAbort,
                      Release
  <2> QED
    BY <2>2 DEF MarkPending
<1>6. ASSUME NEW g \in Slots,
             Claim(g) \/ SkipOversize(g) \/ Fail(g) \/ Succeed(g) \/ RecordAbort(g) \/ Release(g)
      PROVE  CoolingRecorded'
  <2>1. UNCHANGED <<overVars, agent>>
    BY <1>6 DEF Claim, SkipOversize, Fail, Succeed, RecordAbort, Release
  <2> QED
    BY <1>5, <1>6, <2>1 DEF overVars, coolVars
<1>7. ASSUME NEW g \in Slots, Begin(g)
      PROVE  CoolingRecorded'
  <2>1. MarkPending \subseteq MarkPending' /\ UNCHANGED <<agent, cooling, forgotten>>
    BY <1>5, <1>7 DEF Begin
  <2>2. \A r \in Requests : overMem[r] = "live" => overMem'[r] = "live"
    BY <1>7 DEF TypeOK, Begin
  <2>3. CASE UNCHANGED <<overDisk, unsaved>>
    BY <2>1, <2>2, <2>3 DEF TypeOK
  <2>4. CASE saveOversizeSkip(overMem', {})
    BY <1>7, <2>1, <2>2, <2>4 DEF TypeOK, saveOversizeSkip, Begin
  <2> QED
    BY <1>7, <2>3, <2>4 DEF Begin
<1>8. ASSUME NEW g \in Slots, Report(g)
      PROVE  CoolingRecorded'
  <2>1. MarkPending \subseteq MarkPending' /\ UNCHANGED <<agent, overMem, overDisk, unsaved>>
    BY <1>5, <1>8 DEF Report
  <2>2. CASE err[g] = "disk"
    <3>1. req'[g] = req[g] /\ pc'[g] = "mark" /\ err'[g] = "disk"
      BY <1>8, <2>2 DEF TypeOK, Report
    <3>2. req[g] \in MarkPending' /\ agent' = "up"
      BY <1>8, <3>1 DEF MarkPending, Report
    <3> QED
      BY <1>8, <2>1, <2>2, <3>2 DEF Report
  <2>3. CASE err[g] # "disk"
    BY <1>8, <2>1, <2>3 DEF Report
  <2> QED
    BY <2>2, <2>3
<1>9. ASSUME NEW g \in Slots, MarkOversize(g)
      PROVE  CoolingRecorded'
  <2>1. /\ agent = "up" /\ UNCHANGED <<agent, cooling, forgotten>>
        /\ overMem' = [overMem EXCEPT ![req[g]] = "live"]
        /\ saveOversizeSkip(overMem', {req[g]})
    BY <1>9 DEF MarkOversize
  <2>2. MarkPending \subseteq MarkPending' \union {req[g]}
    <3> SUFFICES ASSUME NEW h \in Slots, pc[h] = "mark", err[h] = "disk", h # g
                 PROVE  req[h] \in MarkPending'
      BY DEF MarkPending
    <3>1. req'[h] = req[h] /\ pc'[h] = pc[h] /\ err'[h] = err[h]
      BY <1>9 DEF TypeOK, MarkOversize
    <3> QED
      BY <3>1 DEF MarkPending
  <2>3. \A r \in Requests : r = req[g] \/ overMem[r] = "live" => overMem'[r] = "live"
    BY <2>1 DEF TypeOK
  <2>4. overMem' \in [Requests -> Cooldown]
    BY <2>1 DEF TypeOK, Cooldown
  <2>5. ASSUME NEW r \in cooling \ forgotten, r \notin MarkPending'
        PROVE  overMem'[r] = "live" /\ (r \in unsaved' \/ overDisk'[r] = "live")
    <3>1. r \in Requests /\ overMem'[r] = "live"
      BY <2>1, <2>2, <2>3, <2>5 DEF TypeOK
    <3>2. r = req[g] \/ r \in unsaved \/ overDisk[r] = "live"
      BY <2>1, <2>2, <2>5
    <3> QED
      BY <2>1, <3>1, <3>2 DEF saveOversizeSkip
  <2> QED
    BY <2>1, <2>5
<1> QED
  BY <1>1, <1>2, <1>3, <1>4, <1>6, <1>7, <1>8, <1>9 DEF Next, Loop, Task

(* With the site free to hand it back at any moment, a request in its       *)
(* cooldown is not worked on, across restarts too if its mark was made and  *)
(* is in a save that succeeded with no truncating one since: cooling keeps  *)
(* it when the process ends, and only these two causes make it forgotten.   *)
THEOREM CooldownHolds == Spec => NoWorkInCooldown
<1>1. Init => CoolingRecorded
  BY DEF Init, CoolingRecorded
<1>2. IInv /\ CoolingRecorded /\ [Next]_vars => [WorksOnCold]_vars
  <2> SUFFICES ASSUME TypeOK, OneTaskPerRequest, CoolingRecorded, [Next]_vars,
                      NEW g \in Slots, pc[g] = "start", pc'[g] = "work",
                      req[g] \in cooling \ forgotten
               PROVE  FALSE
    BY DEF IInv, WorksOnCold
  <2>1. Begin(g)
    BY DEF Next, Loop, Task, AtTask, Goto, TypeOK, Boot, Crash, ProcessGone, LoopConfig, LoopSkip,
           LoopProceed, PollTask, PollNothing, StopAfterCurrent, Claim, ClaimRefused, SkipOversize,
           Begin, Fail, Succeed, Report, MarkOversize, RecordAbort, Release, PauseEnds,
           CooldownEnds, vars, taskVars
  <2>2. agent = "up" /\ overMem[req[g]] # "live"
    BY <2>1 DEF Begin, AtTask
  <2>3. PICK h \in Slots : req[h] = req[g] /\ pc[h] = "mark"
    BY <2>2 DEF CoolingRecorded, MarkPending
  <2> QED
    BY <2>3 DEF OneTaskPerRequest, Live
<1> QED
  BY <1>1, <1>2, InvInductive, CoolingStep, PTL DEF Spec, NoWorkInCooldown
=============================================================================
