------------------------- MODULE TaskPipelineProofs -------------------------
(***************************************************************************)
(* Proofs about TaskPipeline, for any set of requests and any bounds:       *)
(* uploads are serialised, and finished work is kept.                       *)
(***************************************************************************)
EXTENDS TaskPipeline, TLAPS

(* Every action keeps the variables within their types.                     *)
LEMMA TypeStep == TypeOK /\ [Next]_vars => TypeOK'
<1> SUFFICES ASSUME TypeOK, [Next]_vars PROVE TypeOK'
  OBVIOUS
<1> USE PipelineAssumption DEF PipelineAssumption
<1>1. CASE Boot
  BY <1>1 DEF TypeOK, Boot, taskVars, slotVars, Held
<1>2. CASE Crash
  <2>1. cancelled' \in [Requests -> BOOLEAN] /\ up' \in BOOLEAN
    BY <1>2, Zenon DEF Crash
  <2>2. attempts' \in [Requests -> 0..(MaxAttempts - 1)]
    BY <1>2 DEF Crash
  <2> QED
    BY <1>2, <2>1, <2>2 DEF TypeOK, Crash, dlVars, Held, Phases
<1>3. ASSUME NEW r \in Requests,
             Dispatched(r) \/ Begin(r) \/ DownloadOk(r) \/ DownloadFails(r) \/ Process(r)
      PROVE  TypeOK'
  BY <1>3 DEF TypeOK, Dispatched, Begin, DownloadOk, DownloadFails, Process, At, Goto, slotVars,
              bfVars, dlVars, envVars, Held, Phases
<1>4. ASSUME NEW r \in Requests,
             AcquireSlot(r) \/ Upload(r) \/ CompleteMaint(r) \/ MaintWake(r)
                \/ ReportFailure(r) \/ Unwind(r)
      PROVE  TypeOK'
  BY <1>4 DEF TypeOK, AcquireSlot, Upload, CompleteMaint, MaintWake, ReportFailure, Unwind,
              AfterMaint, SlotFree, UnlockSlot, At, Goto, slotVars, bfVars, dlVars, envVars, Held, Phases
<1>5. ASSUME NEW r \in Requests, CompleteOk(r) \/ CompleteErr(r)
      PROVE  TypeOK'
  <2>1. CASE CompleteOk(r)
    BY <2>1 DEF TypeOK, CompleteOk, Fulfil, At, Goto, slotVars, bfVars, dlVars, envVars, Held,
                Phases
  <2>2. CASE CompleteErr(r)
    <3>1. done' \subseteq Requests
      BY <2>2 DEF TypeOK, CompleteErr, Fulfil
    <3>2. attempts' \in [Requests -> 0..(MaxAttempts - 1)]
      BY <2>2 DEF TypeOK, CompleteErr, LastAttempt
    <3>3. pc' \in [Requests -> Phases]
      BY <2>2 DEF TypeOK, CompleteErr, Goto, Phases
    <3> QED
      BY <2>2, <3>1, <3>2, <3>3 DEF TypeOK, CompleteErr, slotVars, bfVars, dlVars, envVars
  <2> QED
    BY <1>5, <2>1, <2>2
<1>6. ASSUME NEW r \in Requests,
             SaveBackup(r) \/ Cleanup(r) \/ CleanupDone(r) \/ Release(r) \/ UserCancel(r)
      PROVE  TypeOK'
  <2>1. cancelled' \in [Requests -> BOOLEAN]
    BY <1>6, Zenon DEF TypeOK, SaveBackup, Cleanup, CleanupDone, Release, UserCancel
  <2> QED
    BY <1>6, <2>1 DEF TypeOK, SaveBackup, Cleanup, CleanupDone, Release, UserCancel, At, Goto,
                      slotVars, bfVars, dlVars, envVars, Held, Phases
<1>7. ASSUME NEW r \in Requests, BackfillSubmit(r)
      PROVE  TypeOK'
  BY <1>7 DEF TypeOK, BackfillSubmit, RemoveIfAccepted, taskVars, slotVars, dlVars, envVars
<1>8. CASE OfflineWait \/ OfflineAcquire \/ OfflineRelease
  BY <1>8 DEF TypeOK, OfflineWait, OfflineAcquire, OfflineRelease, taskVars, bfVars, dlVars,
              envVars
<1>9. CASE BackfillRemove \/ MaintBegins \/ MaintEnds
  <2>1. maint' \in BOOLEAN
    BY <1>9, Zenon DEF TypeOK, BackfillRemove, MaintBegins, MaintEnds, envVars
  <2> QED
    BY <1>9, <2>1 DEF TypeOK, BackfillRemove, MaintBegins, MaintEnds, taskVars, slotVars, bfVars,
                      dlVars, envVars
<1>10. CASE UNCHANGED vars
  BY <1>10 DEF TypeOK, vars, taskVars, slotVars, bfVars, dlVars, envVars
<1> QED
  BY <1>1, <1>2, <1>3, <1>4, <1>5, <1>6, <1>7, <1>8, <1>9, <1>10 DEF Next, Task

(* The variables of TaskPipeline always have their types.                   *)
THEOREM TypeCorrect == Spec => []TypeOK
<1>1. ASSUME Init PROVE TypeOK
  <2>1. cancelled \in [Requests -> BOOLEAN] /\ up \in BOOLEAN /\ maint \in BOOLEAN
    BY <1>1, Zenon DEF Init
  <2> QED
    BY <1>1, <2>1, PipelineAssumption DEF PipelineAssumption, Init, TypeOK, Held, Phases
<1> QED
  BY <1>1, TypeStep, PTL DEF Spec

-----------------------------------------------------------------------------
(* UploadsSerialised needs nothing but the types to be inductive: a task    *)
(* enters "upload" only by taking a free slot, keeps it in every phase that *)
(* follows, and gives it back in "unwind" on every way out.                 *)
LEMMA SlotStep == TypeOK /\ UploadsSerialised /\ [Next]_vars => UploadsSerialised'
<1> SUFFICES ASSUME TypeOK, UploadsSerialised, [Next]_vars PROVE UploadsSerialised'
  OBVIOUS
<1> USE PipelineAssumption DEF PipelineAssumption, Uploading, MayHold
<1>1. CASE Boot \/ UNCHANGED vars
  BY <1>1 DEF UploadsSerialised, Boot, vars, taskVars, slotVars
<1>2. CASE Crash
  BY <1>2 DEF UploadsSerialised, Crash, NoReq, Offline
<1>3. ASSUME NEW r \in Requests,
             Dispatched(r) \/ Begin(r) \/ DownloadOk(r) \/ DownloadFails(r) \/ Process(r)
      PROVE  UploadsSerialised'
  BY <1>3 DEF TypeOK, UploadsSerialised, Dispatched, Begin, DownloadOk, DownloadFails, Process, At,
              Goto, slotVars
<1>4. ASSUME NEW r \in Requests, AcquireSlot(r)
      PROVE  UploadsSerialised'
  BY <1>4 DEF TypeOK, UploadsSerialised, AcquireSlot, SlotFree, At, Goto, NoReq, Offline
<1>5. ASSUME NEW r \in Requests,
             \/ Upload(r) \/ CompleteOk(r) \/ CompleteErr(r) \/ CompleteMaint(r) \/ MaintWake(r)
             \/ SaveBackup(r) \/ ReportFailure(r)
      PROVE  UploadsSerialised'
  BY <1>5 DEF TypeOK, UploadsSerialised, Upload, CompleteOk, CompleteErr, CompleteMaint, MaintWake,
              SaveBackup, ReportFailure, AfterMaint, At, Goto, slotVars
<1>6. ASSUME NEW r \in Requests, Unwind(r)
      PROVE  UploadsSerialised'
  BY <1>6 DEF TypeOK, UploadsSerialised, Unwind, UnlockSlot, At, Goto, NoReq, Offline
<1>7. ASSUME NEW r \in Requests,
             \/ Cleanup(r) \/ CleanupDone(r) \/ Release(r) \/ UserCancel(r) \/ BackfillSubmit(r)
      PROVE  UploadsSerialised'
  BY <1>7 DEF TypeOK, UploadsSerialised, Cleanup, CleanupDone, Release, UserCancel, BackfillSubmit,
              At, Goto, slotVars, taskVars
<1>8. CASE OfflineWait \/ OfflineAcquire \/ OfflineRelease
  BY <1>8 DEF TypeOK, UploadsSerialised, OfflineWait, OfflineAcquire, OfflineRelease, SlotFree,
              taskVars, NoReq, Offline
<1>9. CASE BackfillRemove \/ MaintBegins \/ MaintEnds
  BY <1>9 DEF UploadsSerialised, BackfillRemove, MaintBegins, MaintEnds, taskVars, slotVars
<1> QED
  BY <1>1, <1>2, <1>3, <1>4, <1>5, <1>6, <1>7, <1>8, <1>9 DEF Next, Task

(* At most one upload runs in the agent, online or offline, and UploadSlot  *)
(* is never left locked by a task that has unwound its deferred calls.      *)
THEOREM SlotCorrect == Spec => []UploadsSerialised
<1>1. ASSUME Init PROVE UploadsSerialised
  <2>1. slot = NoReq /\ offline = "idle" /\ pc = [r \in Requests |-> "idle"]
    BY <1>1 DEF Init
  <2> QED
    BY <2>1, PipelineAssumption DEF PipelineAssumption, UploadsSerialised, Uploading, MayHold,
                                    NoReq, Offline
<1> QED
  BY <1>1, TypeCorrect, SlotStep, PTL DEF Spec

-----------------------------------------------------------------------------
(* What FinishedWorkKept rests on: a backup about to be deleted by          *)
(* runBackfill is one the site has accepted.                                *)
AckedIsDone == bfAcked # NoReq => bfAcked \in done

(* What runBackfill is about to remove, the site has stored.                *)
LEMMA AckedStep == AckedIsDone /\ [Next]_vars => AckedIsDone'
<1> SUFFICES ASSUME AckedIsDone, [Next]_vars PROVE AckedIsDone'
  OBVIOUS
<1> USE DEF AckedIsDone
<1>1. CASE Boot \/ Crash \/ BackfillRemove \/ MaintBegins \/ MaintEnds \/ UNCHANGED vars
  BY <1>1 DEF Boot, Crash, BackfillRemove, MaintBegins, MaintEnds, vars, bfVars
<1>2. CASE OfflineWait \/ OfflineAcquire \/ OfflineRelease
  BY <1>2 DEF OfflineWait, OfflineAcquire, OfflineRelease, bfVars
<1>3. ASSUME NEW r \in Requests, BackfillSubmit(r)
      PROVE  AckedIsDone'
  BY <1>3 DEF BackfillSubmit, RemoveIfAccepted
<1>4. ASSUME NEW r \in Requests, CompleteOk(r) \/ CompleteErr(r)
      PROVE  AckedIsDone'
  BY <1>4 DEF CompleteOk, CompleteErr, Fulfil, bfVars
<1>5. ASSUME NEW r \in Requests,
             \/ Dispatched(r) \/ Begin(r) \/ DownloadOk(r) \/ DownloadFails(r) \/ Process(r)
             \/ AcquireSlot(r) \/ Upload(r) \/ CompleteMaint(r) \/ MaintWake(r) \/ SaveBackup(r)
             \/ ReportFailure(r) \/ Unwind(r) \/ Cleanup(r) \/ CleanupDone(r) \/ Release(r)
             \/ UserCancel(r)
      PROVE  AckedIsDone'
  BY <1>5 DEF Dispatched, Begin, DownloadOk, DownloadFails, Process, AcquireSlot, Upload,
              CompleteMaint, MaintWake, SaveBackup, ReportFailure, Unwind, Cleanup, CleanupDone,
              Release, UserCancel, bfVars
<1> QED
  BY <1>1, <1>2, <1>3, <1>4, <1>5 DEF Next, Task

(* No step of a running agent loses the NZB of a finished upload.           *)
LEMMA KeepStep ==
    TypeOK /\ AckedIsDone /\ [Next]_vars => [KeepsWork]_vars
<1> SUFFICES ASSUME TypeOK, AckedIsDone, [Next]_vars, up',
                    NEW q \in Requests, WorkKept(q)
             PROVE  WorkKept(q)'
  BY DEF KeepsWork
<1> USE DEF WorkKept
<1>1. CASE Boot \/ MaintBegins \/ MaintEnds \/ UNCHANGED vars
  BY <1>1 DEF Boot, MaintBegins, MaintEnds, vars, taskVars
<1>2. CASE Crash
  BY <1>2 DEF Crash
<1>3. CASE OfflineWait \/ OfflineAcquire \/ OfflineRelease
  BY <1>3 DEF OfflineWait, OfflineAcquire, OfflineRelease, taskVars
<1>4. CASE BackfillRemove
  BY <1>4 DEF BackfillRemove, AckedIsDone, taskVars
<1>5. ASSUME NEW r \in Requests, BackfillSubmit(r)
      PROVE  WorkKept(q)'
  BY <1>5 DEF BackfillSubmit, taskVars
<1>6. ASSUME NEW r \in Requests, CompleteOk(r) \/ CompleteErr(r)
      PROVE  WorkKept(q)'
  BY <1>6 DEF TypeOK, CompleteOk, CompleteErr, Fulfil, At, Goto
<1>7. ASSUME NEW r \in Requests, CompleteMaint(r) \/ MaintWake(r) \/ SaveBackup(r)
      PROVE  WorkKept(q)'
  BY <1>7 DEF TypeOK, CompleteMaint, MaintWake, SaveBackup, AfterMaint, At, Goto
<1>8. ASSUME NEW r \in Requests,
             \/ Dispatched(r) \/ Begin(r) \/ DownloadOk(r) \/ DownloadFails(r) \/ Process(r)
             \/ AcquireSlot(r) \/ Upload(r) \/ ReportFailure(r) \/ Unwind(r) \/ Cleanup(r)
             \/ CleanupDone(r) \/ Release(r) \/ UserCancel(r)
      PROVE  WorkKept(q)'
  BY <1>8 DEF TypeOK, Dispatched, Begin, DownloadOk, DownloadFails, Process, AcquireSlot, Upload,
              ReportFailure, Unwind, Cleanup, CleanupDone, Release, UserCancel, At, Goto
<1> QED
  BY <1>1, <1>2, <1>3, <1>4, <1>5, <1>6, <1>7, <1>8 DEF Next, Task

(* Finished work is kept in every behaviour: cancellation, maintenance,     *)
(* lost answers and backfill never lose the NZB of an upload that ended.    *)
THEOREM WorkNeverLost == Spec => FinishedWorkKept
<1>1. Init => AckedIsDone
  BY DEF Init, AckedIsDone
<1> QED
  BY <1>1, TypeCorrect, AckedStep, KeepStep, PTL DEF Spec, FinishedWorkKept
=============================================================================
