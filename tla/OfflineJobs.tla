----------------------------- MODULE OfflineJobs -----------------------------
(***************************************************************************)
(* The offline pipeline around the table offline_jobs: the watcher queues   *)
(* what it finds (services/offline_watcher.go), the single processor claims *)
(* and runs jobs (services/offline_processor.go), the operator retries and  *)
(* deletes them and edits groups and the watch folder in the local UI, and  *)
(* the agent crashes and restarts (storage/jobs.go, main.go).               *)
(*                                                                          *)
(* Each SQL statement is one step. IDs are AUTOINCREMENT, so never reused   *)
(* and in the order of created_at. There is one watch folder; being         *)
(* disabled and having no group are the same to the watcher.                *)
(***************************************************************************)
EXTENDS Integers

CONSTANTS Paths,        \* entries of the watch folder
          Groups,       \* groups of the agent
          TitleOf,      \* titleFromEntry: the title an entry gives its job
          MaxJobs,      \* bound: rows ever inserted
          MaxRetries,   \* bound: retries by the operator
          MaxDbErrors,  \* bound: statements that fail
          MaxCrashes    \* bound: crashes

NoGroup == "no group"
NoPath == "no path"
NoNzb == <<>>
NoJob == 0
Null == 0
Ids == 1..MaxJobs

ASSUME OfflineAssumption ==
    /\ NoGroup \notin Groups /\ NoPath \notin Paths
    /\ DOMAIN TitleOf = Paths
    /\ {MaxJobs, MaxRetries, MaxDbErrors, MaxCrashes} \subseteq Nat

VARIABLES up,       \* the process is running
          status,   \* a row's status; "none" before its INSERT and after its DELETE
          path,     \* its source_path
          group,    \* its group_id
          nzb,      \* its nzb_path
          started,  \* its started_at, or Null
          nextId,   \* the next AUTOINCREMENT value
          groups,   \* the rows of the table groups
          watch,    \* the group of the watch folder
          scan,     \* the group in the watcher's list of active watches
          proc,     \* processor: "idle", "select", "lookup", "work" or "mark"
          claimed,  \* the row its UPDATE claimed
          job,      \* the row it works on: id, path and group as selected
          result,   \* what processOfflineJob returned: an nzb_path, or NoNzb
          output,   \* whose NZB lies at <group>/<title>
          page,     \* rows with a Retry button on an open /jobs page
          orphans,  \* history: rows a failed statement left in processing
          retries, dbErrors, crashes

rowVars == <<status, path, group, nzb, started, nextId>>
procVars == <<proc, claimed, job, result>>
boundVars == <<retries, dbErrors, crashes>>
vars == <<up, rowVars, groups, watch, scan, procVars, output, page, orphans, boundVars>>

Release == Groups \X {TitleOf[p] : p \in Paths}
Idle == [id |-> NoJob, path |-> NoPath, group |-> NoGroup]

TypeOK ==
    /\ up \in BOOLEAN
    /\ status \in [Ids -> {"none", "queued", "processing", "completed", "failed"}]
    /\ path \in [Ids -> Paths \union {NoPath}]
    /\ \A i, j \in Ids : path[i] = path[j] /\ path[i] # NoPath => i = j
    /\ group \in [Ids -> groups \union {NoGroup}]
    /\ nzb \in [Ids -> Release \union {NoNzb}]
    /\ started \in [Ids -> Nat]
    /\ nextId \in 1..(MaxJobs + 1)
    /\ groups \subseteq Groups
    /\ watch \in groups \union {NoGroup}
    /\ scan \in Groups \union {NoGroup}
    /\ proc \in {"idle", "select", "lookup", "work", "mark"}
    /\ claimed \in Ids \union {NoJob}
    /\ job \in [id : Ids \union {NoJob}, path : Paths \union {NoPath},
                group : Groups \union {NoGroup}]
    /\ result \in Release \union {NoNzb}
    /\ output \in [Release -> Ids \union {NoJob}]
    /\ page \subseteq Ids
    /\ orphans \subseteq Ids
    /\ retries \in 0..MaxRetries /\ dbErrors \in 0..MaxDbErrors /\ crashes \in 0..MaxCrashes

Init ==
    /\ up = FALSE
    /\ status = [i \in Ids |-> "none"]
    /\ path = [i \in Ids |-> NoPath]
    /\ group = [i \in Ids |-> NoGroup]
    /\ nzb = [i \in Ids |-> NoNzb]
    /\ started = [i \in Ids |-> Null]
    /\ nextId = 1
    /\ groups = Groups
    /\ watch \in Groups
    /\ scan = NoGroup
    /\ proc = "idle" /\ claimed = NoJob /\ job = Idle /\ result = NoNzb
    /\ output = [r \in Release |-> NoJob]
    /\ page = {} /\ orphans = {}
    /\ retries = 0 /\ dbErrors = 0 /\ crashes = 0

With(s) == {i \in Ids : status[i] = s}
SetStatus(i, s) == status' = [status EXCEPT ![i] = s]
ClearStarted(S) == started' = [i \in Ids |-> IF i \in S THEN Null ELSE started[i]]

(* A statement fails (SQLITE_BUSY after the timeout, disk full).            *)
DbError == dbErrors < MaxDbErrors /\ dbErrors' = dbErrors + 1
DbOk == dbErrors' = dbErrors

-----------------------------------------------------------------------------
(* Start and crash.                                                         *)

RequeueNothing == {}

(* RequeueStuckJobs: the rows it puts back into the queue.                  *)
RequeueStuckJobs == With("processing")

Boot ==
    /\ ~up /\ up' = TRUE
    /\ \/ /\ DbOk
          /\ status' = [i \in Ids |-> IF i \in RequeueStuckJobs THEN "queued" ELSE status[i]]
          /\ ClearStarted(RequeueStuckJobs)
          /\ orphans' = {}
       \/ /\ DbError
          /\ orphans' = With("processing")
          /\ UNCHANGED <<status, started>>
    /\ UNCHANGED <<path, group, nzb, nextId, groups, watch, scan, procVars, output, page,
                   retries, crashes>>

Crash ==
    /\ up /\ up' = FALSE
    /\ crashes < MaxCrashes /\ crashes' = crashes + 1
    /\ proc' = "idle" /\ claimed' = NoJob /\ job' = Idle /\ result' = NoNzb
    /\ scan' = NoGroup
    /\ UNCHANGED <<rowVars, groups, watch, output, page, orphans, retries, dbErrors>>

-----------------------------------------------------------------------------
(* The watcher.                                                             *)

(* ListActiveWatches: the snapshot a tick works from.                       *)
ScanBegin ==
    /\ up /\ scan = NoGroup
    /\ watch # NoGroup
    /\ scan' = watch
    /\ UNCHANGED <<up, rowVars, groups, watch, procVars, output, page, orphans, boundVars>>

(* One quiet entry without a job: CreateOfflineJob. If the group is gone by *)
(* now the foreign key refuses the row, and so may an error.                *)
ScanEntry(p) ==
    /\ up /\ scan \in groups
    /\ \A i \in Ids : path[i] # p
    /\ nextId \in Ids
    /\ nextId' = nextId + 1
    /\ SetStatus(nextId, "queued")
    /\ path' = [path EXCEPT ![nextId] = p]
    /\ group' = [group EXCEPT ![nextId] = scan]
    /\ UNCHANGED <<up, nzb, started, groups, watch, scan, procVars, output, page, orphans, boundVars>>

ScanEnd ==
    /\ up /\ scan # NoGroup
    /\ scan' = NoGroup
    /\ UNCHANGED <<up, rowVars, groups, watch, procVars, output, page, orphans, boundVars>>

-----------------------------------------------------------------------------
(* The processor.                                                           *)

ProcAt(where) == up /\ proc = where

(* time.Now() at a claim is later than every started_at in the table.      *)
Latest == CHOOSE n \in {started[j] : j \in Ids} : \A j \in Ids : started[j] <= n

(* ClaimNextJob, the UPDATE: the oldest queued row starts now.              *)
ClaimUpdate(i) ==
    /\ ProcAt("idle")
    /\ i \in With("queued") /\ \A j \in With("queued") : i <= j
    /\ SetStatus(i, "processing")
    /\ started' = [started EXCEPT ![i] = 1 + Latest]
    /\ claimed' = i /\ proc' = "select"
    /\ UNCHANGED <<up, path, group, nzb, nextId, groups, watch, scan, job, result, output, page,
                   orphans, boundVars>>

FirstStarted(i) == \A j \in With("processing") : started[i] <= started[j]

(* ORDER BY started_at DESC LIMIT 1                                         *)
LastStarted(i) == \A j \in With("processing") : started[j] <= started[i]

(* The SELECT that follows: the processing row started last, which need not *)
(* be the claimed one if the operator got in between.                       *)
ClaimSelect(i) ==
    /\ ProcAt("select")
    /\ i \in With("processing") /\ LastStarted(i)
    /\ job' = [id |-> i, path |-> path[i], group |-> group[i]]
    /\ proc' = "lookup"
    /\ UNCHANGED <<up, rowVars, groups, watch, scan, claimed, result, output, page, orphans,
                   boundVars>>

(* It finds no row, or fails: the claim is forgotten, the row's status not. *)
ClaimSelectFails ==
    /\ ProcAt("select")
    /\ DbError \/ (DbOk /\ With("processing") = {})
    /\ orphans' = orphans \union (With("processing") \intersect {claimed})
    /\ proc' = "idle" /\ claimed' = NoJob
    /\ UNCHANGED <<up, rowVars, groups, watch, scan, job, result, output, page, retries, crashes>>

(* GetGroup: no group, or one deleted since, ends the job.                  *)
LookupGroup ==
    /\ ProcAt("lookup")
    /\ proc' = IF job.group \in groups THEN "work" ELSE "mark"
    /\ UNCHANGED <<up, rowVars, groups, watch, scan, claimed, job, result, output, page, orphans,
                   boundVars>>

(* Source, staging, PAR2, encryption, upload and NZB, and the NZB written   *)
(* to <group>/<title>; or one of them fails.                                *)
WorkOk ==
    LET release == <<job.group, TitleOf[job.path]>> IN
    /\ ProcAt("work")
    /\ output' = [output EXCEPT ![release] = job.id]
    /\ result' = release
    /\ proc' = "mark"
    /\ UNCHANGED <<up, rowVars, groups, watch, scan, claimed, job, page, orphans, boundVars>>

WorkFails ==
    /\ ProcAt("work")
    /\ proc' = "mark"
    /\ UNCHANGED <<up, rowVars, groups, watch, scan, claimed, job, result, output, page, orphans,
                   boundVars>>

AlwaysCompleted == "completed"
FinalStatus == IF result = NoNzb THEN "failed" ELSE "completed"

(* MarkJobFailed or MarkJobCompleted, by id and whatever the row's status.  *)
(* An UPDATE of a deleted row does nothing, and an error is only logged.    *)
Mark ==
    LET i == job.id IN
    /\ ProcAt("mark")
    /\ \/ /\ DbOk
          /\ IF status[i] = "none" THEN UNCHANGED <<status, nzb>>
             ELSE /\ SetStatus(i, FinalStatus)
                  /\ nzb' = IF result = NoNzb THEN nzb ELSE [nzb EXCEPT ![i] = result]
          /\ orphans' = orphans \ {i}
       \/ /\ DbError
          /\ orphans' = orphans \union ({i} \intersect With("processing"))
          /\ UNCHANGED <<status, nzb>>
    /\ proc' = "idle" /\ claimed' = NoJob /\ job' = Idle /\ result' = NoNzb
    /\ UNCHANGED <<up, path, group, started, nextId, groups, watch, scan, output, page, retries,
                   crashes>>

Processor ==
    \/ \E i \in Ids : ClaimUpdate(i) \/ ClaimSelect(i)
    \/ ClaimSelectFails \/ LookupGroup \/ WorkOk \/ WorkFails \/ Mark

-----------------------------------------------------------------------------
(* The operator, in the local UI.                                           *)

(* GET /jobs: completed and failed jobs get a Retry button, as of now.      *)
OpenPage ==
    /\ up
    /\ page' = With("completed") \union With("failed")
    /\ UNCHANGED <<up, rowVars, groups, watch, scan, procVars, output, orphans, boundVars>>

(* POST /jobs/retry from a page that may be stale: ResetQueuedJob.          *)
RetryJob(i) ==
    /\ up /\ retries < MaxRetries
    /\ i \in page /\ status[i] # "none"
    /\ retries' = retries + 1
    /\ SetStatus(i, "queued")
    /\ nzb' = [nzb EXCEPT ![i] = NoNzb]
    /\ ClearStarted({i})
    /\ orphans' = orphans \ {i}
    /\ UNCHANGED <<up, path, group, nextId, groups, watch, scan, procVars, output, page,
                   dbErrors, crashes>>

(* POST /jobs/delete: any row, whatever its status.                         *)
DeleteJob(i) ==
    /\ up /\ status[i] # "none"
    /\ SetStatus(i, "none")
    /\ path' = [path EXCEPT ![i] = NoPath]
    /\ group' = [group EXCEPT ![i] = NoGroup]
    /\ nzb' = [nzb EXCEPT ![i] = NoNzb]
    /\ ClearStarted({i})
    /\ orphans' = orphans \ {i}
    /\ UNCHANGED <<up, nextId, groups, watch, scan, procVars, output, page, boundVars>>

(* ON DELETE SET NULL *)
KeepReference(ref, g) == ref
SetNull(ref, g) == IF ref = g THEN NoGroup ELSE ref

DeleteGroup(g) ==
    /\ up /\ g \in groups
    /\ groups' = groups \ {g}
    /\ group' = [i \in Ids |-> SetNull(group[i], g)]
    /\ watch' = SetNull(watch, g)
    /\ UNCHANGED <<up, status, path, nzb, started, nextId, scan, procVars, output, page, orphans,
                   boundVars>>

(* CreateWatch, UpdateWatch and DeleteWatch.                                *)
EditWatch(g) ==
    /\ up /\ g \in groups \union {NoGroup}
    /\ watch' = g
    /\ UNCHANGED <<up, rowVars, groups, scan, procVars, output, page, orphans, boundVars>>

Operator ==
    \/ OpenPage
    \/ \E i \in Ids : RetryJob(i) \/ DeleteJob(i)
    \/ \E g \in Groups \union {NoGroup} : DeleteGroup(g) \/ EditWatch(g)

Next ==
    \/ Boot \/ Crash
    \/ ScanBegin \/ (\E p \in Paths : ScanEntry(p)) \/ ScanEnd
    \/ Processor
    \/ Operator

Spec == Init /\ [][Next]_vars

(* The process is restarted after a crash, and the processor goroutine runs *)
(* whenever it can; tools and servers answer.                               *)
FairSpec == Spec /\ WF_vars(Boot) /\ WF_vars(Processor)

-----------------------------------------------------------------------------
(* Properties.                                                              *)

(* A job in 'processing' is in the processor's hands, so none is stranded,  *)
(* through crashes, retries and deletions at any moment; the exceptions are *)
(* rows left behind by a failed statement, until the next start.            *)
ProcessingIsOwned ==
    /\ TypeOK
    /\ up => \A i \in With("processing") :
                i \in orphans \/ (proc # "idle" /\ i \in {claimed, job.id})

(* The SELECT of ClaimNextJob returns the row its UPDATE has just claimed,  *)
(* if that row is still in processing, also when orphaned rows are too.     *)
SelectReturnsClaim ==
    [][proc = "select" /\ proc' = "lookup" /\ status[claimed] = "processing"
         => job'.id = claimed]_vars

(* A completed job's nzb_path leads to the NZB of that job, provided that no *)
(* two entries of a group share a title.                                    *)
CompletedHasNzb ==
    \A i \in With("completed") : nzb[i] # NoNzb /\ output[nzb[i]] = i

(* Every queued job is completed, failed or deleted some day, or a failed   *)
(* statement left it in 'processing', where only the next start finds it.   *)
JobSettles ==
    \A i \in Ids : status[i] = "queued" ~> status[i] \in {"completed", "failed", "none"}
                                              \/ i \in orphans
=============================================================================
