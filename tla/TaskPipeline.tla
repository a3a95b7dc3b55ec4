---------------------------- MODULE TaskPipeline ----------------------------
(***************************************************************************)
(* What happens to an accepted task (main.go, processTask): download or     *)
(* resume, processing, the shared upload slot, the completion report with   *)
(* its retries and maintenance waits, the backup NZB, the deferred clean-up *)
(* and, around it, cancellation, runBackfill, crashes and restarts.         *)
(*                                                                          *)
(* Dispatch establishes that a request has at most one goroutine, so a task *)
(* is named by its request. The site is external: it offers open requests,  *)
(* may be in maintenance, and answers may get lost. The offline processor   *)
(* appears as the other user of UploadSlot.                                 *)
(***************************************************************************)
EXTENDS Integers, FiniteSets

CONSTANTS Requests,      \* request IDs the site may hand out
          MaxAttempts,   \* completion attempts (3 in the code)
          InitBackups,   \* requests whose backup NZB an earlier run left
          MaxCrashes,    \* bound: crashes explored
          MaxWindows     \* bound: maintenance windows explored

NoReq == "none"
Offline == "offline processor"

ASSUME PipelineAssumption ==
    /\ NoReq \notin Requests
    /\ Offline \notin Requests
    /\ MaxAttempts \in Nat \ {0}
    /\ InitBackups \subseteq Requests
    /\ MaxCrashes \in Nat
    /\ MaxWindows \in Nat

VARIABLES up,         \* the process is running
          pc,         \* phase of each request's task
          cancelled,  \* its ctx.Err() # nil
          attempts,   \* its normalAttempt
          dir,        \* what downloadedPath held when the task took it over
          slot,       \* holder of UploadSlot
          offline,    \* offline processor: "idle", "wait" or "upload"
          bfTodo,     \* backups runBackfill globbed and has not submitted
          bfAcked,    \* the backup the site has just accepted
          pathRec,    \* requests with a DownloadedPath in GlobalState.Jobs
          content,    \* what dl-request-N/<torrent name> holds
          backup,     \* backup-request-N.nzb files
          done,       \* requests the site holds an NZB for
          maint,      \* the site is in maintenance
          windows, crashes,
          lost        \* history: NZBs whose backup could not be written

taskVars == <<pc, cancelled, attempts, dir>>
slotVars == <<slot, offline>>
bfVars == <<bfTodo, bfAcked>>
dlVars == <<pathRec, content>>
envVars == <<up, maint, windows, crashes>>
vars == <<taskVars, slotVars, bfVars, dlVars, backup, done, lost, envVars>>

Phases == {"idle", "start", "download", "process", "waitslot", "upload", "report", "maint",
           "backup", "failed", "unwind", "cleanup", "removing", "release"}
Held == {"none", "partial", "whole"}

TypeOK ==
    /\ up \in BOOLEAN
    /\ pc \in [Requests -> Phases]
    /\ cancelled \in [Requests -> BOOLEAN]
    /\ attempts \in [Requests -> 0..(MaxAttempts - 1)]
    /\ dir \in [Requests -> Held]
    /\ slot \in Requests \union {NoReq, Offline}
    /\ offline \in {"idle", "wait", "upload"}
    /\ bfTodo \subseteq Requests
    /\ bfAcked \in Requests \union {NoReq}
    /\ pathRec \subseteq Requests
    /\ content \in [Requests -> Held]
    /\ backup \subseteq Requests
    /\ done \subseteq Requests
    /\ maint \in BOOLEAN
    /\ windows \in 0..MaxWindows
    /\ crashes \in 0..MaxCrashes
    /\ lost \subseteq Requests

Init ==
    /\ up = FALSE
    /\ pc = [r \in Requests |-> "idle"]
    /\ cancelled = [r \in Requests |-> FALSE]
    /\ attempts = [r \in Requests |-> 0]
    /\ dir = [r \in Requests |-> "none"]
    /\ slot = NoReq /\ offline = "idle"
    /\ bfTodo = {} /\ bfAcked = NoReq
    /\ pathRec = {} /\ content = [r \in Requests |-> "none"]
    /\ backup = InitBackups
    /\ done = {}
    /\ maint = FALSE /\ windows = 0 /\ crashes = 0 /\ lost = {}

-----------------------------------------------------------------------------
(* Start and crash.                                                         *)

(* LoadState, which may find an older state.json or one it cannot read (see *)
(* StateStore), SweepOrphanDownloads (a dl- directory survives iff some     *)
(* DownloadedPath names it), then go runBackfill, which globs once.         *)
Boot ==
    /\ ~up
    /\ up' = TRUE
    /\ pathRec' \in SUBSET pathRec
    /\ content' = [r \in Requests |-> IF r \in pathRec' THEN content[r] ELSE "none"]
    /\ bfTodo' = backup
    /\ UNCHANGED <<taskVars, slotVars, bfAcked, backup, done, lost, maint, windows, crashes>>

(* A kill, a power cut or the watchdog's os.Exit(1), between any two steps. *)
Crash ==
    /\ up /\ crashes < MaxCrashes
    /\ up' = FALSE /\ crashes' = crashes + 1
    /\ pc' = [r \in Requests |-> "idle"]
    /\ cancelled' = [r \in Requests |-> FALSE]
    /\ attempts' = [r \in Requests |-> 0]
    /\ dir' = [r \in Requests |-> "none"]
    /\ slot' = NoReq /\ offline' = "idle"
    /\ bfTodo' = {} /\ bfAcked' = NoReq
    /\ UNCHANGED <<dlVars, backup, done, lost, maint, windows>>

-----------------------------------------------------------------------------
(* processTask.                                                             *)

At(r, from) == up /\ pc[r] = from
Goto(r, to) == pc' = [pc EXCEPT ![r] = to]

(* Poll returned the open request r, and claimTask accepted it.             *)
Dispatched(r) ==
    /\ At(r, "idle")
    /\ r \notin done /\ ~maint
    /\ Goto(r, "start")
    /\ UNCHANGED <<cancelled, attempts, dir, slotVars, bfVars, dlVars, backup, done, lost,
                   envVars>>

(* The resume check: a recorded DownloadedPath that is still a directory    *)
(* replaces the download.                                                   *)
Begin(r) ==
    /\ At(r, "start")
    /\ IF r \in pathRec /\ content[r] # "none"
       THEN Goto(r, "process") /\ dir' = [dir EXCEPT ![r] = content[r]]
       ELSE Goto(r, "download") /\ dir' = dir
    /\ UNCHANGED <<cancelled, attempts, slotVars, bfVars, dlVars, backup, done, lost, envVars>>

(* The download finishes, and UpdateJobMeta records its path.               *)
DownloadOk(r) ==
    /\ At(r, "download")
    /\ content' = [content EXCEPT ![r] = "whole"]
    /\ pathRec' = pathRec \union {r}
    /\ dir' = [dir EXCEPT ![r] = "whole"]
    /\ Goto(r, "process")
    /\ UNCHANGED <<cancelled, attempts, slotVars, bfVars, backup, done, lost, envVars>>

(* The download ends with an error. What it wrote stays: the RemoveAll is   *)
(* deferred only further down. The path is the same one (dl-request-N) that *)
(* an earlier run of the request may have recorded.                         *)
DownloadFails(r) ==
    /\ At(r, "download")
    /\ \E left \in {content[r], "partial"} : content' = [content EXCEPT ![r] = left]
    /\ Goto(r, "failed")
    /\ UNCHANGED <<cancelled, attempts, dir, slotVars, bfVars, pathRec, backup, done, lost,
                   envVars>>

(* Blocklist, probe, screenshots, staging, PAR2 and encryption of whatever  *)
(* the directory holds; staging and encryption errors are fatal.            *)
Process(r) ==
    /\ At(r, "process")
    /\ Goto(r, "waitslot") \/ Goto(r, "failed")
    /\ UNCHANGED <<cancelled, attempts, dir, slotVars, bfVars, dlVars, backup, done, lost,
                   envVars>>

(* UploadSlot.Lock(); the wait does not look at ctx.                        *)
SlotIgnored == TRUE
SlotFree == slot = NoReq

AcquireSlot(r) ==
    /\ At(r, "waitslot")
    /\ SlotFree
    /\ slot' = r
    /\ Goto(r, "upload")
    /\ UNCHANGED <<cancelled, attempts, dir, offline, bfVars, dlVars, backup, done, lost,
                   envVars>>

(* UploadDirectory returns segments, never after a cancellation, and the    *)
(* NZB is built: finished work from here on. Or one of the two fails.       *)
Upload(r) ==
    /\ At(r, "upload")
    /\ (Goto(r, "report") /\ ~cancelled[r]) \/ Goto(r, "failed")
    /\ UNCHANGED <<cancelled, attempts, dir, slotVars, bfVars, dlVars, backup, done, lost,
                   envVars>>

(* The site stores the NZB and fulfils the request.                         *)
Fulfil(r) ==
    /\ ~maint
    /\ done' = done \union {r}

(* Complete returns nil.                                                    *)
CompleteOk(r) ==
    /\ At(r, "report")
    /\ Fulfil(r)
    /\ Goto(r, "unwind")
    /\ UNCHANGED <<cancelled, attempts, dir, slotVars, bfVars, dlVars, backup, lost, envVars>>

(* normalAttempt >= 3                                                       *)
NeverLast(r) == FALSE
LastAttempt(r) == attempts[r] + 1 >= MaxAttempts

CompleteErrStartsOver(r) ==
    /\ At(r, "report")
    /\ Fulfil(r) \/ UNCHANGED done
    /\ attempts' = [attempts EXCEPT ![r] = (@ + 1) % MaxAttempts]
    /\ UNCHANGED <<pc, cancelled, dir, slotVars, bfVars, dlVars, backup, lost, envVars>>

(* A normal error, perhaps after the site did its part: the next attempt,   *)
(* or give up after the last one.                                           *)
CompleteErr(r) ==
    /\ At(r, "report")
    /\ Fulfil(r) \/ UNCHANGED done
    /\ IF LastAttempt(r)
       THEN Goto(r, "backup") /\ attempts' = [attempts EXCEPT ![r] = 0]
       ELSE pc' = pc /\ attempts' = [attempts EXCEPT ![r] = @ + 1]
    /\ UNCHANGED <<cancelled, dir, slotVars, bfVars, dlVars, backup, lost, envVars>>

(* MaintenanceError: a cancelled task breaks out, any other one waits.      *)
MaintLeaves(r) == IF cancelled[r] THEN "unwind" ELSE "maint"
AfterMaint(r) == IF cancelled[r] THEN "backup" ELSE "maint"

CompleteMaint(r) ==
    /\ At(r, "report")
    /\ maint
    /\ Goto(r, AfterMaint(r))
    /\ UNCHANGED <<cancelled, attempts, dir, slotVars, bfVars, dlVars, backup, done, lost,
                   envVars>>

(* The wait is over, or ctx is done: either way Complete is called again.   *)
MaintWake(r) ==
    /\ At(r, "maint")
    /\ Goto(r, "report")
    /\ UNCHANGED <<cancelled, attempts, dir, slotVars, bfVars, dlVars, backup, done, lost,
                   envVars>>

(* WriteFile(backup-request-N.nzb), whose error is ignored.                 *)
SaveBackup(r) ==
    /\ At(r, "backup")
    /\ \/ backup' = backup \union {r} /\ lost' = lost
       \/ lost' = lost \union {r} /\ backup' = backup
    /\ Goto(r, "unwind")
    /\ UNCHANGED <<cancelled, attempts, dir, slotVars, bfVars, dlVars, done, envVars>>

(* Complete with status failed or aborted; its error is ignored.            *)
ReportFailure(r) ==
    /\ At(r, "failed")
    /\ Goto(r, "unwind")
    /\ UNCHANGED <<cancelled, attempts, dir, slotVars, bfVars, dlVars, backup, done, lost,
                   envVars>>

(* The deferred calls, last one first: UploadSlot.Unlock where it was taken *)
KeepSlot(r) == slot
UnlockSlot(r) == IF slot = r THEN NoReq ELSE slot

Unwind(r) ==
    /\ At(r, "unwind")
    /\ slot' = UnlockSlot(r)
    /\ Goto(r, "cleanup")
    /\ UNCHANGED <<cancelled, attempts, dir, offline, bfVars, dlVars, backup, done, lost,
                   envVars>>

(* ... then RemoveAll(downloadedPath), which is not atomic and was deferred *)
(* only by a task that got past its download ...                            *)
Cleanup(r) ==
    /\ At(r, "cleanup")
    /\ IF dir[r] = "none"
       THEN Goto(r, "release") /\ content' = content
       ELSE Goto(r, "removing") /\ content' = [content EXCEPT ![r] = "partial"]
    /\ UNCHANGED <<cancelled, attempts, dir, slotVars, bfVars, pathRec, backup, done, lost,
                   envVars>>

CleanupDone(r) ==
    /\ At(r, "removing")
    /\ content' = [content EXCEPT ![r] = "none"]
    /\ Goto(r, "release")
    /\ UNCHANGED <<cancelled, attempts, dir, slotVars, bfVars, pathRec, backup, done, lost,
                   envVars>>

(* ... and at last JobCancels.Delete and releaseTask.                       *)
Release(r) ==
    /\ At(r, "release")
    /\ Goto(r, "idle")
    /\ cancelled' = [cancelled EXCEPT ![r] = FALSE]
    /\ attempts' = [attempts EXCEPT ![r] = 0]
    /\ dir' = [dir EXCEPT ![r] = "none"]
    /\ UNCHANGED <<slotVars, bfVars, dlVars, backup, done, lost, envVars>>

Task(r) ==
    \/ Begin(r) \/ DownloadOk(r) \/ DownloadFails(r) \/ Process(r)
    \/ AcquireSlot(r) \/ Upload(r)
    \/ CompleteOk(r) \/ CompleteErr(r) \/ CompleteMaint(r) \/ MaintWake(r)
    \/ SaveBackup(r) \/ ReportFailure(r)
    \/ Unwind(r) \/ Cleanup(r) \/ CleanupDone(r) \/ Release(r)

-----------------------------------------------------------------------------
(* The other goroutines, and the site.                                      *)

(* The status reporter got CancelRequestID and calls the function that      *)
(* JobCancels holds for it.                                                 *)
UserCancel(r) ==
    /\ up /\ pc[r] \notin {"idle", "start", "release"}
    /\ ~cancelled[r]
    /\ cancelled' = [cancelled EXCEPT ![r] = TRUE]
    /\ UNCHANGED <<pc, attempts, dir, slotVars, bfVars, dlVars, backup, done, lost, envVars>>

(* processOfflineJob reaches UploadSlot.Lock, gets it, and returns.         *)
OfflineWait ==
    /\ up /\ offline = "idle"
    /\ offline' = "wait"
    /\ UNCHANGED <<taskVars, slot, bfVars, dlVars, backup, done, lost, envVars>>

OfflineAcquire ==
    /\ up /\ offline = "wait"
    /\ SlotFree
    /\ slot' = Offline /\ offline' = "upload"
    /\ UNCHANGED <<taskVars, bfVars, dlVars, backup, done, lost, envVars>>

OfflineRelease ==
    /\ up /\ offline = "upload"
    /\ slot' = NoReq /\ offline' = "idle"
    /\ UNCHANGED <<taskVars, bfVars, dlVars, backup, done, lost, envVars>>

(* runBackfill submits one backup. Only a 200 leads to os.Remove; an error, *)
(* even one that hides a success, keeps the file for the next start.        *)
RemoveAnyway(answered, r) == r
RemoveIfAccepted(answered, r) == IF answered THEN r ELSE NoReq

BackfillSubmit(r) ==
    /\ up /\ bfAcked = NoReq
    /\ r \in bfTodo
    /\ bfTodo' = bfTodo \ {r}
    /\ \E stored, answered \in BOOLEAN :
          /\ stored => ~maint
          /\ answered => stored
          /\ done' = IF stored THEN done \union {r} ELSE done
          /\ bfAcked' = RemoveIfAccepted(answered, r)
    /\ UNCHANGED <<taskVars, slotVars, dlVars, backup, lost, envVars>>

BackfillRemove ==
    /\ up /\ bfAcked # NoReq
    /\ backup' = backup \ {bfAcked}
    /\ bfAcked' = NoReq
    /\ UNCHANGED <<taskVars, slotVars, bfTodo, dlVars, done, lost, envVars>>

MaintBegins ==
    /\ ~maint /\ windows < MaxWindows
    /\ maint' = TRUE /\ windows' = windows + 1
    /\ UNCHANGED <<taskVars, slotVars, bfVars, dlVars, backup, done, lost, up, crashes>>

MaintEnds ==
    /\ maint
    /\ maint' = FALSE
    /\ UNCHANGED <<taskVars, slotVars, bfVars, dlVars, backup, done, lost, up, windows, crashes>>

Next ==
    \/ Boot \/ Crash
    \/ \E r \in Requests : Dispatched(r) \/ Task(r) \/ UserCancel(r) \/ BackfillSubmit(r)
    \/ OfflineWait \/ OfflineAcquire \/ OfflineRelease
    \/ BackfillRemove
    \/ MaintBegins \/ MaintEnds

Spec == Init /\ [][Next]_vars

(* Every goroutine that can run does, and the external tools and the NNTP   *)
(* server answer. A running download is the exception: nothing but a        *)
(* cancellation has to end it. sync.Mutex hands itself over to a starving   *)
(* waiter, hence strong fairness for UploadSlot.                            *)
TaskFairness ==
    \A r \in Requests :
        /\ WF_vars(Task(r) /\ (pc[r] # "download" \/ cancelled[r]))
        /\ SF_vars(AcquireSlot(r))

OfflineFairness == SF_vars(OfflineAcquire) /\ WF_vars(OfflineRelease)

(* The site comes back from its maintenance.                                *)
FairSpec == Spec /\ TaskFairness /\ OfflineFairness /\ WF_vars(MaintEnds)

-----------------------------------------------------------------------------
(* Properties.                                                              *)

(* At most one upload runs in the whole agent: whoever uploads, online or   *)
(* offline, holds UploadSlot until it has reported, and a task past its     *)
(* deferred Unlock no longer holds it, on every path out of processTask.    *)
Uploading(r) == pc[r] \in {"upload", "report", "maint", "backup"}
MayHold(r) == Uploading(r) \/ pc[r] \in {"failed", "unwind"}

UploadsSerialised ==
    /\ \A r \in Requests : Uploading(r) => slot = r
    /\ \A r \in Requests : slot = r => MayHold(r)
    /\ offline = "upload" <=> slot = Offline

(* Where the NZB of a finished upload can be, and a step that keeps it.     *)
WorkKept(r) ==
    \/ r \in done \union backup \union lost
    \/ pc[r] \in {"report", "maint", "backup"}

KeepsWork == up' => \A r \in Requests : WorkKept(r) => WorkKept(r)'

(* Once an upload has finished, its NZB is with the site, in a backup file  *)
(* or in the hands of its running task; only a crash or a failed write of   *)
(* the backup file can lose it. Cancellation, maintenance, lost answers and *)
(* backfill never do.                                                       *)
FinishedWorkKept == [][KeepsWork]_vars

(* Nobody waits for ever: a task that got as far as waiting for UploadSlot  *)
(* ends, a cancelled task ends whatever phase the cancellation found, and   *)
(* an offline job that waits for UploadSlot gets it.                        *)
NobodyStuck ==
    /\ \A r \in Requests : pc[r] = "waitslot" \/ cancelled[r] ~> pc[r] = "idle"
    /\ offline = "wait" ~> offline # "wait"

(* What the site is told is completed was made from a complete download.    *)
CompletedIsWhole == \A r \in Requests : pc[r] = "report" => dir[r] = "whole"
=============================================================================
