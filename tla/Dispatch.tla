------------------------------ MODULE Dispatch ------------------------------
(***************************************************************************)
(* Which tasks the agent takes on (main.go): the polling loop with its      *)
(* capacity check, self-pause and stop commands, activeTasks, the oversize  *)
(* cooldown and its file, and the start, crash and exit of the process.     *)
(*                                                                          *)
(* processTask is reduced to what these see of it: the cooldown check, some *)
(* work, how it failed, and the order of report, bookkeeping and release;   *)
(* TaskPipeline has the rest. The site is external: Poll may return any     *)
(* open request, including one that is still running here.                  *)
(***************************************************************************)
EXTENDS Integers, FiniteSets

CONSTANTS Requests,        \* request IDs the site may hand out
          Slots,           \* task goroutines
          MaxDLValues,     \* max_concurrent: the local value and the site's overrides
          AbortThreshold,  \* abortPauseThreshold (5 in the code)
          MaxCrashes       \* bound: crashes explored

NoReq == "no request"

ASSUME DispatchAssumption ==
    /\ IsFiniteSet(Slots)
    /\ NoReq \notin Requests
    /\ MaxDLValues \subseteq Nat \ {0}
    /\ AbortThreshold \in Nat \ {0}
    /\ MaxCrashes \in Nat

VARIABLES agent,     \* "down", "up" or "stopped"
          poll,      \* the loop: "config", "check", "poll" or "claim"
          maxDL,     \* concurrency limit in force
          offer,     \* the task Poll returned
          active,    \* activeTasks
          pc,        \* a goroutine: "idle", "start", "work", "report", "mark" or "release"
          req,       \* its request
          err,       \* why its work failed, as fail() classifies it
          aborts,    \* consecutiveAborts
          paused,    \* abortPauseUntil lies in the future
          overMem,   \* oversizeSkip
          overDisk,  \* oversize-skip.json
          crashes,
          cooling,   \* history: requests reported too large whose cooldown is not over
          unsaved,   \* history: marks of this process that a failed save kept from the file
          forgotten, \* history: requests of cooling whose mark was lost with a process
          inPause    \* history: tasks started since the pause began

loopVars == <<poll, maxDL, offer>>
taskVars == <<active, pc, req, err>>
abortVars == <<aborts, paused, inPause>>
coolVars == <<cooling, unsaved, forgotten>>
overVars == <<overMem, overDisk, coolVars>>
vars == <<agent, loopVars, taskVars, abortVars, overVars, crashes>>

Phases == {"idle", "start", "work", "report", "mark", "release"}
ErrKinds == {"none", "disk", "local", "other"}
Cooldown == {"none", "live", "expired"}

TypeOK ==
    /\ agent \in {"down", "up", "stopped"}
    /\ poll \in {"config", "check", "poll", "claim"}
    /\ maxDL \in MaxDLValues
    /\ offer \in Requests \union {NoReq}
    /\ active \subseteq Requests
    /\ pc \in [Slots -> Phases]
    /\ req \in [Slots -> Requests \union {NoReq}]
    /\ err \in [Slots -> ErrKinds]
    /\ aborts \in 0..AbortThreshold
    /\ paused \in BOOLEAN
    /\ overMem \in [Requests -> Cooldown]
    /\ overDisk \in [Requests -> Cooldown]
    /\ crashes \in 0..MaxCrashes
    /\ {cooling, unsaved, forgotten} \subseteq SUBSET Requests
    /\ inPause \in 0..2

Init ==
    /\ agent = "down"
    /\ poll = "config" /\ maxDL \in MaxDLValues /\ offer = NoReq
    /\ active = {}
    /\ pc = [g \in Slots |-> "idle"]
    /\ req = [g \in Slots |-> NoReq]
    /\ err = [g \in Slots |-> "none"]
    /\ aborts = 0 /\ paused = FALSE /\ inPause = 0
    /\ overMem = [r \in Requests |-> "none"]
    /\ overDisk = [r \in Requests |-> "none"]
    /\ cooling = {} /\ unsaved = {} /\ forgotten = {}
    /\ crashes = 0

-----------------------------------------------------------------------------
(* Start, crash and graceful exit.                                          *)

(* loadOversizeSkip: the persisted cooldowns that have not expired.         *)
NothingLoaded(r) == "none"
loadOversizeSkip(r) == IF overDisk[r] = "live" THEN "live" ELSE "none"

Boot ==
    /\ agent # "up"
    /\ agent' = "up"
    /\ overMem' = [r \in Requests |-> loadOversizeSkip(r)]
    /\ maxDL' \in MaxDLValues
    /\ UNCHANGED <<poll, offer, taskVars, abortVars, overDisk, coolVars, crashes>>

(* Requests reported too large by a fail() that has yet to mark them.       *)
MarkPending == {req[g] : g \in {h \in Slots : pc[h] = "mark" /\ err[h] = "disk"}}

(* The process ends: its memory is gone. The site was told of the requests  *)
(* in cooling all the same; those whose mark was pending, or in no save     *)
(* that succeeded, are forgotten.                                           *)
ProcessGone ==
    /\ poll' = "config" /\ offer' = NoReq
    /\ active' = {}
    /\ pc' = [g \in Slots |-> "idle"]
    /\ req' = [g \in Slots |-> NoReq]
    /\ err' = [g \in Slots |-> "none"]
    /\ aborts' = 0 /\ paused' = FALSE /\ inPause' = 0
    /\ overMem' = [r \in Requests |-> "none"]
    /\ forgotten' = forgotten \union unsaved \union MarkPending
    /\ unsaved' = {}
    /\ UNCHANGED <<maxDL, overDisk, cooling>>

(* A kill, a power cut or the watchdog's os.Exit(1), between any two steps. *)
Crash ==
    /\ agent = "up"
    /\ crashes < MaxCrashes
    /\ crashes' = crashes + 1
    /\ agent' = "down"
    /\ ProcessGone

-----------------------------------------------------------------------------
(* The polling loop.                                                        *)

AtLoop(where) == agent = "up" /\ poll = where

(* GetConfig fails or carries 0 (maxDL stays) or carries an override.       *)
LoopConfig ==
    /\ AtLoop("config")
    /\ maxDL' \in MaxDLValues
    /\ poll' = "check"
    /\ UNCHANGED <<agent, offer, taskVars, abortVars, overVars, crashes>>

(* activeTaskCount() < maxDL *)
CapacityOffByOne == Cardinality(active) <= maxDL
HasCapacity == Cardinality(active) < maxDL

(* abortPauseRemaining() > 0 *)
NeverPaused == FALSE
SelfPaused == paused

(* No capacity, CPU or disk pressure (external, so unguarded) or the pause: *)
(* sleep and start over.                                                    *)
LoopSkip ==
    /\ AtLoop("check")
    /\ poll' = "config"
    /\ UNCHANGED <<agent, maxDL, offer, taskVars, abortVars, overVars, crashes>>

(* All checks passed. They are read in one step: other goroutines only      *)
(* lower the count, and the pause is the last one read.                     *)
LoopProceed ==
    /\ AtLoop("check")
    /\ HasCapacity /\ ~SelfPaused
    /\ poll' = "poll"
    /\ UNCHANGED <<agent, maxDL, offer, taskVars, abortVars, overVars, crashes>>

PollNil(r) ==
    /\ AtLoop("poll")
    /\ offer' = NoReq
    /\ poll' = "claim"
    /\ UNCHANGED <<agent, maxDL, taskVars, abortVars, overVars, crashes>>

(* Poll returns a task.                                                     *)
PollTask(r) ==
    /\ AtLoop("poll")
    /\ offer' = r
    /\ poll' = "claim"
    /\ UNCHANGED <<agent, maxDL, taskVars, abortVars, overVars, crashes>>

(* activeTaskCount() == 0 *)
AlwaysDrained == TRUE
Drained == active = {}

(* An upgrade, maintenance or other error, no task, the stop command, or    *)
(* stop_after_current with tasks in flight: sleep and start over.           *)
PollNothing ==
    /\ AtLoop("poll")
    /\ poll' = "config"
    /\ UNCHANGED <<agent, maxDL, offer, taskVars, abortVars, overVars, crashes>>

(* stop_after_current with nothing in flight: main returns.                 *)
StopAfterCurrent ==
    /\ AtLoop("poll")
    /\ Drained
    /\ agent' = "stopped"
    /\ ProcessGone
    /\ UNCHANGED crashes

(* claimTask: refuses a request that is already in activeTasks.             *)
ClaimAnything(r) == TRUE
claimTask(r) == r \notin active

(* The claim succeeds and the goroutine starts.                             *)
Claim(g) ==
    /\ AtLoop("claim")
    /\ claimTask(offer)
    /\ pc[g] = "idle"
    /\ active' = active \union {offer}
    /\ pc' = [pc EXCEPT ![g] = "start"]
    /\ req' = [req EXCEPT ![g] = offer]
    /\ inPause' = IF paused /\ inPause < 2 THEN inPause + 1 ELSE inPause
    /\ offer' = NoReq /\ poll' = "config"
    /\ UNCHANGED <<agent, maxDL, err, aborts, paused, overVars, crashes>>

(* The site returned a task that is still running here.                     *)
ClaimRefused ==
    /\ AtLoop("claim")
    /\ ~claimTask(offer)
    /\ offer' = NoReq /\ poll' = "config"
    /\ UNCHANGED <<agent, maxDL, taskVars, abortVars, overVars, crashes>>

Loop ==
    \/ LoopConfig \/ LoopSkip \/ LoopProceed
    \/ \E r \in Requests : PollTask(r)
    \/ PollNothing \/ StopAfterCurrent
    \/ \E g \in Slots : Claim(g)
    \/ ClaimRefused

-----------------------------------------------------------------------------
(* A task, as admission control sees it.                                    *)

\* Mutant: only what has just been marked is written.
SaveNewMarks(skip, marks) ==
    /\ overDisk' = [r \in Requests |-> IF r \in marks THEN "live" ELSE "none"]
    /\ unsaved' = {}

(* saveOversizeSkipLocked: os.WriteFile of the whole map, with the marks    *)
(* just made. A failing write leaves the old file or a truncated one, which *)
(* loads as nothing; the error is logged.                                   *)
saveOversizeSkip(skip, marks) ==
    \/ overDisk' = skip /\ unsaved' = {}
    \/ overDisk' = overDisk /\ unsaved' = unsaved \union marks
    \/ /\ overDisk' = [r \in Requests |-> "none"]
       /\ unsaved' = {r \in Requests : skip[r] = "live"}

AtTask(g, from) == agent = "up" /\ pc[g] = from
Goto(g, to) == pc' = [pc EXCEPT ![g] = to]

(* shouldSkipOversize: report aborted and return before any defer but       *)
(* releaseTask.                                                             *)
SkipOversize(g) ==
    /\ AtTask(g, "start")
    /\ overMem[req[g]] = "live"
    /\ Goto(g, "release")
    /\ UNCHANGED <<agent, loopVars, active, req, err, abortVars, overVars, crashes>>

(* No cooldown in force; an expired entry is deleted and the file saved.    *)
Begin(g) ==
    LET r == req[g] IN
    /\ AtTask(g, "start")
    /\ overMem[r] # "live"
    /\ IF overMem[r] = "expired"
       THEN /\ overMem' = [overMem EXCEPT ![r] = "none"]
            /\ saveOversizeSkip(overMem', {})
       ELSE UNCHANGED <<overMem, overDisk, unsaved>>
    /\ Goto(g, "work")
    /\ UNCHANGED <<agent, loopVars, active, req, err, abortVars, cooling, forgotten, crashes>>

(* The pipeline fails somewhere, and fail() tells a full disk from an       *)
(* agent-local error from everything else, a completion report that got     *)
(* nowhere included.                                                        *)
Fail(g) ==
    /\ AtTask(g, "work")
    /\ \E kind \in {"disk", "local", "other"} : err' = [err EXCEPT ![g] = kind]
    /\ Goto(g, "report")
    /\ UNCHANGED <<agent, loopVars, active, req, abortVars, overVars, crashes>>

(* The pipeline completes: recordSuccess resets the counter and leaves a    *)
(* pause in force.                                                          *)
Succeed(g) ==
    /\ AtTask(g, "work")
    /\ aborts' = 0
    /\ Goto(g, "release")
    /\ UNCHANGED <<agent, loopVars, active, req, err, paused, inPause, overVars, crashes>>

(* site.Complete: the request is open again from here on, before the        *)
(* bookkeeping.                                                             *)
Report(g) ==
    LET reported == IF err[g] = "disk" THEN {req[g]} ELSE {} IN
    /\ AtTask(g, "report")
    /\ cooling' = cooling \union reported
    /\ forgotten' = forgotten \ reported
    /\ Goto(g, IF err[g] = "other" THEN "release" ELSE "mark")
    /\ UNCHANGED <<agent, loopVars, active, req, err, abortVars, overMem, overDisk, unsaved,
                   crashes>>

(* markOversize: the map always, the file if the write succeeds.            *)
MarkOversize(g) ==
    /\ AtTask(g, "mark")
    /\ err[g] = "disk"
    /\ overMem' = [overMem EXCEPT ![req[g]] = "live"]
    /\ saveOversizeSkip(overMem', {req[g]})
    /\ Goto(g, "release")
    /\ UNCHANGED <<agent, loopVars, active, req, err, abortVars, cooling, forgotten, crashes>>

(* recordAbort: count (capped at the threshold it is compared with), and    *)
(* from the threshold on, pause.                                            *)
RecordAbort(g) ==
    /\ AtTask(g, "mark")
    /\ err[g] = "local"
    /\ aborts' = IF aborts < AbortThreshold THEN aborts + 1 ELSE aborts
    /\ paused' = (paused \/ aborts' >= AbortThreshold)
    /\ inPause' = IF paused THEN inPause ELSE 0
    /\ Goto(g, "release")
    /\ UNCHANGED <<agent, loopVars, active, req, err, overVars, crashes>>

(* releaseTask, deferred first and so run last.                             *)
Release(g) ==
    /\ AtTask(g, "release")
    /\ active' = active \ {req[g]}
    /\ Goto(g, "idle")
    /\ req' = [req EXCEPT ![g] = NoReq]
    /\ err' = [err EXCEPT ![g] = "none"]
    /\ UNCHANGED <<agent, loopVars, abortVars, overVars, crashes>>

Task(g) ==
    \/ SkipOversize(g) \/ Begin(g) \/ Fail(g) \/ Succeed(g) \/ Report(g)
    \/ MarkOversize(g) \/ RecordAbort(g) \/ Release(g)

-----------------------------------------------------------------------------
(* Time passes: abortPauseUntil, or a cooldown's expiry, is reached.        *)

PauseEnds ==
    /\ paused
    /\ paused' = FALSE
    /\ UNCHANGED <<agent, loopVars, taskVars, aborts, inPause, overVars, crashes>>

Lapse(c) == IF c = "live" THEN "expired" ELSE c

(* The 30 minutes are over. For a forgotten request only history changes.   *)
CooldownEnds(r) ==
    /\ overMem[r] = "live" \/ overDisk[r] = "live" \/ r \in forgotten
    /\ overMem' = [overMem EXCEPT ![r] = Lapse(@)]
    /\ overDisk' = [overDisk EXCEPT ![r] = Lapse(@)]
    /\ cooling' = cooling \ {r} /\ unsaved' = unsaved \ {r} /\ forgotten' = forgotten \ {r}
    /\ UNCHANGED <<agent, loopVars, taskVars, abortVars, crashes>>

Next ==
    \/ Boot \/ Crash
    \/ Loop
    \/ \E g \in Slots : Task(g)
    \/ PauseEnds
    \/ \E r \in Requests : CooldownEnds(r)

Spec == Init /\ [][Next]_vars

-----------------------------------------------------------------------------
(* Properties.                                                              *)

Live == {g \in Slots : pc[g] # "idle"}

(* A request never has two goroutines at once (they would share the job     *)
(* name, the cancel function and the download directory), and activeTasks   *)
(* is exactly the set of requests being worked on, whatever path each task  *)
(* takes out of processTask.                                                *)
OneTaskPerRequest ==
    /\ \A g, h \in Live : req[g] = req[h] => g = h
    /\ active = {req[g] : g \in Live}

StartsWithinLimit ==
    active' # active /\ active \subseteq active' => Cardinality(active') <= maxDL'
StopsIdle == agent = "up" /\ agent' = "stopped" => Live = {}
WorksOnCold ==
    \A g \in Slots : pc[g] = "start" /\ pc'[g] = "work" => req[g] \notin cooling \ forgotten

(* A dispatch never takes the agent above the concurrency limit in force,   *)
(* also when the site lowered the limit while tasks were running.           *)
CapacityRespected == [][StartsWithinLimit]_vars

(* stop_after_current never ends the process under a running task.          *)
GracefulStop == [][StopsIdle]_vars

(* A request reported too large for the disk is not worked on again before  *)
(* its cooldown is over, although the site may hand it back between the     *)
(* report and the bookkeeping, or after a restart. The exceptions, both of  *)
(* which need the process to end: it ended between site.Complete and        *)
(* markOversize, or the mark was in no save that succeeded, or a later save *)
(* truncated the file, and no save succeeded since. A save that succeeds    *)
(* secures every mark in the map, those of failed saves before it included. *)
NoWorkInCooldown == [][WorksOnCold]_vars

(* Once the self-pause begins, at most the one poll that was already in     *)
(* flight starts another task.                                              *)
PauseStopsDispatch == paused => inPause <= 1
=============================================================================
