------------------------------ MODULE Watchdog ------------------------------
(***************************************************************************)
(* The watchdog of the agent, the clock it reads (lastOKNano), the VPN      *)
(* restart it orders, and the race that matters most against its exit: a    *)
(* task that holds a finished NZB and is trying to report it.               *)
(*                                                                          *)
(* Time advances in units of the watchdog's ticker (30 s).  Durations are   *)
(* upper bounds: a call that may take up to d ends at any moment before d   *)
(* units have passed.  A site that is reachable answers a request begun     *)
(* while it was reachable within the unit; a request begun during an outage *)
(* may hang until the HTTP client's timeout even if the outage ends.        *)
(***************************************************************************)
EXTENDS Integers

CONSTANTS
    VPNRestartAfter,    \* watchdogVPNRestartAfter, in units
    HardExitAfter,      \* watchdogHardExitAfter
    VPNCooldown,        \* watchdogVPNCooldown
    RestartMax,         \* bound on RestartVPN: its context and its two sleeps
    HttpTimeout,        \* timeout of the site client
    Backoff,            \* bound on the sleep between two attempts to report
    Waits,              \* maintenance waits the site may cause
    VPNPath             \* 1: the sidecar runs OpenVPN, 2: WireGuard

ASSUME WatchdogAssumption ==
    /\ {VPNRestartAfter, VPNCooldown, RestartMax, HttpTimeout, Backoff} \subseteq Nat \ {0}
    /\ VPNRestartAfter > 1 /\ HardExitAfter \in Nat /\ HardExitAfter > VPNRestartAfter
    /\ Waits \subseteq Nat \ {0}
    /\ VPNPath \in {1, 2}

VARIABLES
    up,        \* the process runs
    net,       \* the network path to the site works, given a tunnel
    tunnel,    \* the sidecar's VPN tunnel is up
    age,       \* units since lastOKNano
    due,       \* a tick waits in the watchdog's ticker channel
    wpc,       \* the watchdog: at its ticker, or at a PUT of RestartVPN
    path,      \* which entry of RestartVPN's paths it is at
    busy,      \* units spent in RestartVPN
    cool,      \* units since lastVPNRestart, up to VPNCooldown
    hb,        \* the status reporter: 0 answered in this unit, n waiting since n - 1
    back,      \* history: units the site has been reachable, up to HttpTimeout + 1
    tpc,       \* the task: where it is with its finished NZB
    attempt,   \* attempts at site.Complete, the present one included
    left,      \* units left of the bound on the present call or sleep
    pause,     \* the maintenance wait to come
    atRisk     \* history: see Assess

proc == <<due, wpc, path, busy, cool>>
task == <<tpc, attempt, left, pause>>
vars == <<up, net, tunnel, age, proc, hb, back, task, atRisk>>

MaxAttempts == 3

Reach == net /\ tunnel
InHand == tpc # "none"

TypeOK ==
    /\ up \in BOOLEAN /\ net \in BOOLEAN /\ tunnel \in BOOLEAN
    /\ age \in Nat
    /\ due \in BOOLEAN
    /\ wpc \in {"ticker", "stop", "run"} /\ path \in {1, 2}
    /\ busy \in 0..RestartMax
    /\ cool \in 0..VPNCooldown
    /\ hb \in 0..HttpTimeout + 1
    /\ back \in 0..HttpTimeout + 1
    /\ tpc \in {"none", "progress", "send", "backoff", "notify", "wait", "save"}
    /\ attempt \in 1..MaxAttempts
    /\ left \in Nat /\ pause \in Nat
    /\ atRisk \in BOOLEAN

-----------------------------------------------------------------------------
(* How long it takes, at worst, until the NZB in hand is reported or saved.  *)

FromAttempt(k) == (MaxAttempts - k) * (HttpTimeout + Backoff) + HttpTimeout

Worst ==
    CASE tpc \in {"none", "save"} -> 0
      [] tpc = "progress"         -> left + FromAttempt(1)
      [] tpc = "send"             -> left + FromAttempt(attempt) - HttpTimeout
      [] tpc = "notify"           -> left + pause + FromAttempt(attempt)
      [] tpc \in {"backoff", "wait"} -> left + FromAttempt(attempt)

(* Taken when the NZB is first in hand and at every contact with the site:   *)
(* if the site went silent now, would the watchdog's exit come first?        *)
Assess == atRisk' = (tpc' # "none" /\ age' + Worst' >= HardExitAfter)

-----------------------------------------------------------------------------
(* The status reporter posts every 5 s, one request at a time.  Any response *)
(* moves lastOKNano, whatever its status.                                    *)

\* Mutant: only some answers count, as if errors from the site did not.
RoundTripOnlySuccess == up /\ Reach /\ age' \in {0, age}

RoundTrip == up /\ Reach /\ age' = 0

ReporterAnswered ==
    /\ RoundTrip
    /\ hb' = 0
    /\ UNCHANGED <<up, net, tunnel, proc, back, task>>
    /\ Assess

ReporterFails ==
    /\ up
    /\ (~Reach /\ hb > 1) \/ hb = HttpTimeout + 1
    /\ hb' = 1
    /\ UNCHANGED <<up, net, tunnel, age, proc, back, task, atRisk>>

-----------------------------------------------------------------------------
(* startWatchdog, once per tick.                                             *)

Silent == age >= VPNRestartAfter

AtTick == up /\ due /\ wpc = "ticker"

\* Mutant: the cooldown is looked at before the exit threshold.
IdleInCooldown ==
    /\ AtTick
    /\ ~Silent \/ cool < VPNCooldown
    /\ due' = FALSE
    /\ UNCHANGED <<up, net, tunnel, age, wpc, path, busy, cool, hb, back, task, atRisk>>

WatchdogIdle ==
    /\ AtTick
    /\ ~Silent \/ (age < HardExitAfter /\ cool < VPNCooldown)
    /\ due' = FALSE
    /\ UNCHANGED <<up, net, tunnel, age, wpc, path, busy, cool, hb, back, task, atRisk>>

WatchdogExit ==
    /\ AtTick
    /\ age >= HardExitAfter
    /\ up' = FALSE
    /\ due' = FALSE /\ busy' = 0 /\ cool' = VPNCooldown
    /\ age' = 0 /\ hb' = 0
    /\ tpc' = "none" /\ attempt' = 1 /\ left' = 0 /\ pause' = 0
    /\ atRisk' = FALSE
    /\ UNCHANGED <<net, tunnel, wpc, path, back>>

RestartBegin ==
    /\ AtTick
    /\ Silent /\ age < HardExitAfter /\ cool >= VPNCooldown
    /\ due' = FALSE
    /\ wpc' = "stop" /\ path' = 1 /\ busy' = 0
    /\ UNCHANGED <<up, net, tunnel, age, cool, hb, back, task, atRisk>>

(* RestartVPN: PUT stopped, then PUT running, on the first path that takes   *)
(* both.  Only the path of the configured VPN type exists.                   *)

RestartDone ==
    /\ wpc' = "ticker" /\ path' = 1 /\ busy' = 0
    /\ cool' = 0

\* Mutant: the sidecar is trusted to come back by itself.
StopAndReturn ==
    /\ up /\ wpc = "stop" /\ path = VPNPath
    /\ tunnel' = FALSE /\ back' = 0
    /\ RestartDone
    /\ UNCHANGED <<up, net, age, due, hb, task, atRisk>>

PutStopped ==
    /\ up /\ wpc = "stop" /\ path = VPNPath
    /\ tunnel' = FALSE /\ back' = 0
    /\ wpc' = "run"
    /\ UNCHANGED <<up, net, age, due, path, busy, cool, hb, task, atRisk>>

PutRunning ==
    /\ up /\ wpc = "run"
    /\ tunnel' = TRUE
    /\ RestartDone
    /\ UNCHANGED <<up, net, age, due, hb, back, task, atRisk>>

(* A PUT that fails may have been carried out all the same: the answer, not  *)
(* the command, timed out.                                                   *)
PutFails ==
    /\ up /\ wpc # "ticker"
    /\ \/ UNCHANGED <<tunnel, back>>
       \/ /\ path = VPNPath
          /\ tunnel' = (wpc = "run")
          /\ back' = IF tunnel' THEN back ELSE 0
    /\ IF path = 1 THEN /\ wpc' = "stop" /\ path' = 2
                        /\ UNCHANGED <<busy, cool>>
                   ELSE RestartDone
    /\ UNCHANGED <<up, net, age, due, hb, task, atRisk>>

Put == PutStopped \/ PutRunning \/ PutFails

-----------------------------------------------------------------------------
(* The end of processTask: report, retry, wait out maintenance, save.        *)

GoOn(p, d) == tpc' = p /\ left' = d

UploadDone ==
    /\ up /\ tpc = "none"
    /\ GoOn("progress", HttpTimeout) /\ attempt' = 1 /\ pause' = 0
    /\ UNCHANGED <<up, net, tunnel, age, proc, hb, back>>
    /\ Assess

(* A call of reportProgress, whose result is ignored.  After the one that    *)
(* announces a wait, a cancelled task leaves the loop.                       *)
AfterProgress ==
    \/ tpc = "progress" /\ GoOn("send", HttpTimeout)
    \/ tpc = "notify" /\ GoOn("wait", pause)
    \/ tpc = "notify" /\ GoOn("save", 0)

ProgressAnswered ==
    /\ RoundTrip
    /\ AfterProgress
    /\ UNCHANGED <<up, net, tunnel, proc, hb, back, attempt, pause>>
    /\ Assess

NoAnswer == up /\ (~Reach \/ left = 0)

ProgressFails ==
    /\ NoAnswer
    /\ AfterProgress
    /\ UNCHANGED <<up, net, tunnel, age, proc, hb, back, attempt, pause, atRisk>>

Completed ==
    /\ tpc = "send"
    /\ RoundTrip
    /\ GoOn("none", 0) /\ attempt' = 1 /\ pause' = 0
    /\ UNCHANGED <<up, net, tunnel, proc, hb, back>>
    /\ Assess

\* Mutant: the attempts are not counted.
NeverLast == FALSE

LastAttempt == attempt >= MaxAttempts

Retry == IF LastAttempt
         THEN GoOn("save", 0) /\ UNCHANGED attempt
         ELSE GoOn("backoff", Backoff) /\ attempt' = attempt + 1

CompleteRefused ==
    /\ tpc = "send"
    /\ RoundTrip
    /\ Retry
    /\ UNCHANGED <<up, net, tunnel, proc, hb, back, pause>>
    /\ Assess

CompleteTimesOut ==
    /\ tpc = "send"
    /\ NoAnswer
    /\ Retry
    /\ UNCHANGED <<up, net, tunnel, age, proc, hb, back, pause, atRisk>>

CompleteMaint ==
    /\ tpc = "send"
    /\ RoundTrip
    /\ \E w \in Waits : pause' = w
    /\ GoOn("notify", HttpTimeout)
    /\ UNCHANGED <<up, net, tunnel, proc, hb, back, attempt>>
    /\ Assess

\* Mutant: the attempts start over after a sleep.
WakeStartsOver ==
    /\ up
    /\ tpc \in {"backoff", "wait"}
    /\ GoOn("send", HttpTimeout) /\ pause' = 0 /\ attempt' = 1
    /\ UNCHANGED <<up, net, tunnel, age, proc, hb, back, atRisk>>

(* The end of a sleep.  A wait ends early when the task is cancelled.        *)
Wake ==
    /\ up
    /\ tpc \in {"backoff", "wait"}
    /\ GoOn("send", HttpTimeout) /\ pause' = 0
    /\ UNCHANGED <<up, net, tunnel, age, proc, hb, back, attempt, atRisk>>

SaveBackup ==
    /\ up /\ tpc = "save"
    /\ GoOn("none", 0) /\ attempt' = 1 /\ pause' = 0 /\ atRisk' = FALSE
    /\ UNCHANGED <<up, net, tunnel, age, proc, hb, back>>

Report == \/ ProgressAnswered \/ ProgressFails \/ Completed \/ CompleteRefused
          \/ CompleteTimesOut \/ CompleteMaint \/ Wake \/ SaveBackup

-----------------------------------------------------------------------------
(* The rest of the world: time, the network, and the supervisor.             *)

(* Time passes only when nothing is overdue: the watchdog looks at every     *)
(* tick it is not too busy for, and calls and sleeps keep to their bounds.   *)
TimeMayPass ==
    /\ wpc = "ticker" => ~due
    /\ wpc # "ticker" => busy < RestartMax
    /\ hb <= HttpTimeout /\ ~(Reach /\ hb = 1)
    /\ InHand => left > 0

Capped(n, cap) == IF n < cap THEN n + 1 ELSE cap

Tick ==
    /\ up /\ TimeMayPass
    /\ age' = age + 1
    /\ due' = TRUE
    /\ busy' = IF wpc = "ticker" THEN 0 ELSE busy + 1
    /\ cool' = Capped(cool, VPNCooldown)
    /\ hb' = hb + 1
    /\ back' = IF Reach THEN Capped(back, HttpTimeout + 1) ELSE 0
    /\ left' = IF InHand THEN left - 1 ELSE 0
    /\ UNCHANGED <<up, net, tunnel, wpc, path, tpc, attempt, pause, atRisk>>

NetworkChanges ==
    /\ net' = ~net
    /\ back' = 0
    /\ UNCHANGED <<up, tunnel, age, proc, hb, task, atRisk>>

(* client.New seeds lastOKNano, so a new process starts with a fresh clock.   *)
Boot ==
    /\ ~up
    /\ up' = TRUE
    /\ UNCHANGED <<net, tunnel, age, proc, hb, back, task, atRisk>>

Init ==
    /\ up = TRUE /\ net = TRUE /\ tunnel = TRUE
    /\ age = 0 /\ due = FALSE
    /\ wpc = "ticker" /\ path = 1 /\ busy = 0 /\ cool = VPNCooldown
    /\ hb = 0 /\ back = 0
    /\ tpc = "none" /\ attempt = 1 /\ left = 0 /\ pause = 0
    /\ atRisk = FALSE

Look == WatchdogIdle \/ WatchdogExit \/ RestartBegin
Reporter == ReporterAnswered \/ ReporterFails

Next == \/ Reporter \/ Look \/ Put \/ UploadDone \/ Report
        \/ Tick \/ NetworkChanges \/ Boot

Spec == Init /\ [][Next]_vars

(* The supervisor restarts the process, time diverges, goroutines run, calls *)
(* end, and the sidecar's control server is not down for ever.               *)
FairSpec ==
    /\ Spec
    /\ WF_vars(Boot) /\ SF_vars(Tick) /\ WF_vars(Look) /\ WF_vars(Put)
    /\ WF_vars(Reporter) /\ WF_vars(Report)
    /\ SF_vars(PutStopped) /\ SF_vars(PutRunning)

-----------------------------------------------------------------------------
(* Properties                                                                *)

(* The process never stays cut off much longer than the exit threshold, even *)
(* though the watchdog does its VPN restarts in its own loop: one that hung  *)
(* there would never reach os.Exit (vpn_control.go:30-31).                   *)
BlackoutBounded ==
    /\ TypeOK
    /\ up => age < HardExitAfter + RestartMax

(* The watchdog orders a VPN restart or ends the process only if the site    *)
(* has not been reachable for longer than one request can hang: a recovery   *)
(* that the reporter, stuck in an old request, has not noticed is the only   *)
(* way to act on a stale clock.                                              *)
NoNeedlessRestart ==
    [][(wpc = "ticker" /\ wpc' # "ticker") \/ (up /\ ~up') => back <= HttpTimeout]_vars

(* A finished NZB is reported or saved before the watchdog's exit, unless    *)
(* the site went silent so long before the upload ended, or announced so     *)
(* long a wait, that attempts and sleeps cannot fit in the time left.        *)
SavedBeforeExit == [][up /\ ~up' /\ InHand => atRisk]_vars

(* A tunnel that RestartVPN stopped comes back and stays back when the call  *)
(* ends, although the second PUT may fail, the watchdog may exit in between  *)
(* and the next process must find out by itself.                             *)
TunnelRestored == ~tunnel ~> (tunnel /\ wpc = "ticker")
=============================================================================
