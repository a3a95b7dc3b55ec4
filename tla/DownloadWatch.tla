---------------------------- MODULE DownloadWatch ----------------------------
(***************************************************************************)
(* One torrent download: the wait for metadata, the one-second loop of      *)
(* downloadAndWaitSeed with its three rejection rules, and the seed phase.  *)
(*                                                                          *)
(* Each rule keeps the moment its trouble began and clears it only after    *)
(* three good ticks in a row.  The loop calls the progress callback, which  *)
(* posts to the site, before it looks at its ticker again, so that any      *)
(* number of units up to MaxGap lies between two samples.  Progress is a     *)
(* level 0..Total; it may fall back when a piece fails its hash.            *)
(*                                                                          *)
(* DownloadProofs extends this module and DiskReserve, so the names here    *)
(* are others than there.                                                   *)
(***************************************************************************)
EXTENDS Integers

CONSTANTS
    Total,           \* level of a complete download
    Late,            \* level from which percent >= 95
    SlowThreshold,   \* gain per sample below which the download is slow
    Timeout,         \* of each rule, in units
    FullGate,        \* the 60 s of RequireFull
    MetaTimeout,     \* the 2 minutes for metadata
    SeedTime,        \* MaxHours
    MaxGap,          \* longest time between two samples
    Options          \* settings a task may run under

Rules == {"slow", "stall", "low_peers"}
Off == -1
recoveryTicksRequired == 3

ASSUME WatchAssumption ==
    /\ {Total, Late, SlowThreshold, Timeout, FullGate, MetaTimeout, SeedTime, MaxGap}
         \subseteq Nat \ {0}
    /\ Late < Total
    /\ Options \subseteq [source : {"magnet", "file"}, rules : SUBSET Rules, boosted : BOOLEAN,
                          full : BOOLEAN, seed : SUBSET {"ratio", "hours"}]

VARIABLES
    opts,        \* settings of this task
    phase,       \* "meta", "loop", "seed" or "end"
    reason,      \* why it ended
    cancelled,   \* ctx
    completed,   \* t.BytesCompleted
    last,        \* lastCompleted
    done,        \* the channel closed after WaitAll
    since,       \* rule -> units since its trouble began, or Off
    recovery,    \* rule -> good ticks in a row while its timer runs
    shown,       \* rules in the last warnings list
    clock,       \* units in the present phase
    run,         \* history: rule -> good samples in a row
    spell,       \* history: rule -> units since it last had three good ones
    frozen       \* history: rules whose timer ran on where it is not looked at

watch == <<completed, last, since, recovery, shown, run, spell, frozen>>
watchVars == <<opts, phase, reason, cancelled, done, clock, watch>>

WatchTypeOK ==
    /\ opts \in Options
    /\ phase \in {"meta", "loop", "seed", "end"}
    /\ reason \in Rules \cup {"", "ok", "cancelled", "metadata", "no_full_seed"}
    /\ cancelled \in BOOLEAN /\ done \in BOOLEAN
    /\ completed \in 0..Total /\ last \in 0..Total
    /\ since \in [Rules -> Off..Timeout + 1]
    /\ recovery \in [Rules -> 0..recoveryTicksRequired - 1]
    /\ shown \subseteq Rules /\ frozen \subseteq Rules
    /\ clock \in Nat
    /\ run \in [Rules -> 0..recoveryTicksRequired]
    /\ spell \in [Rules -> 0..Timeout + 1]

-----------------------------------------------------------------------------
(* A download from a .torrent file, private or from the site's cache, is     *)
(* given no DownloadOpts: only the stall rule of seedOpts is left.           *)
Enabled == IF opts.source = "file" THEN opts.rules \cap {"stall"} ELSE opts.rules

Past(n, bound) == IF n > bound THEN bound + 1 ELSE n

(* What one sample says: gain is what came in since the last one.            *)
Bad(r, gain, fewPeers) ==
    CASE r = "slow"      -> IF opts.boosted THEN gain = 0 ELSE gain < SlowThreshold
      [] r = "stall"     -> gain = 0
      [] r = "low_peers" -> fewPeers

\* Mutant: the stall rule stops near the end as well.
StallGated(r) == r \in Enabled /\ completed < Late

\* Mutant: no gate for slow speed and few peers near the end.
AlwaysLooked(r) == r \in Enabled

Looked(r) == r \in Enabled /\ (r = "stall" \/ completed < Late)

(* The timer of a rule after a sample gap units after the previous one.      *)
Aged(r, gap) == IF since[r] = Off THEN Off ELSE Past(since[r] + gap, Timeout)

\* Mutant: one good tick too many.
RecoveredLate(r) == recovery[r] + 1 > recoveryTicksRequired

Recovered(r) == recovery[r] + 1 >= recoveryTicksRequired

\* Mutant: recovery does not clear the timer.
SinceNeverCleared(r, gap, bad) ==
    IF Looked(r) /\ bad /\ since[r] = Off THEN 0 ELSE Aged(r, gap)

SinceAfter(r, gap, bad) ==
    CASE ~Looked(r)                                  -> Aged(r, gap)
      [] Looked(r) /\ bad /\ since[r] = Off          -> 0
      [] Looked(r) /\ ~bad /\ Recovered(r)           -> Off
      [] OTHER                                       -> Aged(r, gap)

RecoveryAfter(r, bad) ==
    CASE ~Looked(r)                                           -> recovery[r]
      [] Looked(r) /\ (bad \/ since[r] = Off \/ Recovered(r)) -> 0
      [] OTHER                                                -> recovery[r] + 1

Expired(r, gap, bad) == /\ Looked(r) /\ bad
                        /\ since[r] # Off
                        /\ Aged(r, gap) > Timeout

(* A warning counts down for every rule that was looked at and whose timer   *)
(* runs, the ones that are recovering included.                              *)

\* Mutant: a warning disappears with the first good tick.
ShownWhileBad(r, gap, bad) == Looked(r) /\ bad

Shown(r, gap, bad) == Looked(r) /\ SinceAfter(r, gap, bad) # Off

-----------------------------------------------------------------------------
(* History of the samples, whatever the code makes of them.                  *)

RunAfter(r, bad) == CASE bad                              -> 0
                      [] ~bad /\ run[r] < recoveryTicksRequired -> run[r] + 1
                      [] OTHER                            -> run[r]

SpellAfter(r, gap, bad) ==
    IF RunAfter(r, bad) = recoveryTicksRequired THEN 0 ELSE Past(spell[r] + gap, Timeout)

-----------------------------------------------------------------------------
(* Steps of the goroutine.                                                   *)

Idle == [r \in Rules |-> 0]

WatchInit ==
    /\ opts \in Options
    /\ phase = "meta" /\ reason = "" /\ cancelled = FALSE
    /\ completed = 0 /\ last = 0 /\ done = FALSE
    /\ since = [r \in Rules |-> Off] /\ recovery = Idle /\ shown = {}
    /\ clock = 0
    /\ run = Idle /\ spell = Idle /\ frozen = {}

End(why) == phase' = "end" /\ reason' = why

(* Metadata: at once from a file, within MetaTimeout from a magnet.          *)
GotInfo ==
    /\ phase = "meta"
    /\ phase' = "loop" /\ clock' = 0
    /\ UNCHANGED <<opts, reason, cancelled, done, watch>>

MetaWait ==
    /\ phase = "meta" /\ opts.source = "magnet"
    /\ \/ clock < MetaTimeout /\ clock' = clock + 1 /\ UNCHANGED <<phase, reason>>
       \/ clock = MetaTimeout /\ End("metadata") /\ UNCHANGED clock
    /\ UNCHANGED <<opts, cancelled, done, watch>>

Waiting == phase = "loop" \/ (phase = "meta" /\ opts.source = "magnet")

\* Mutant: the seed phase does not watch its context.
CtxDoneNotSeeding ==
    /\ cancelled /\ Waiting
    /\ End("cancelled")
    /\ UNCHANGED <<opts, cancelled, done, clock, watch>>

(* A finished download stays one when its seed phase is cancelled.           *)
CtxDone ==
    /\ cancelled
    /\ \/ Waiting /\ End("cancelled")
       \/ phase = "seed" /\ End("ok")
    /\ UNCHANGED <<opts, cancelled, done, clock, watch>>

(* The done branch of the select.                                            *)
Seeds == opts.seed # {}

DoneClosed ==
    /\ phase = "loop" /\ done
    /\ IF Seeds THEN phase' = "seed" /\ clock' = 0 /\ UNCHANGED reason
                ELSE End("ok") /\ UNCHANGED clock
    /\ UNCHANGED <<opts, cancelled, done, watch>>

(* The ticker branch: the rules in the order of the code, the first one that *)
(* has expired ends the download.                                            *)
Verdict(expired, noFull) ==
    CASE "slow" \in expired                            -> "slow"
      [] "slow" \notin expired /\ noFull               -> "no_full_seed"
      [] "slow" \notin expired /\ ~noFull /\ "stall" \in expired -> "stall"
      [] expired = {"low_peers"} /\ ~noFull            -> "low_peers"
      [] OTHER                                         -> ""

Sample(gap, fewPeers) ==
    LET bad      == [r \in Rules |-> Bad(r, completed - last, fewPeers)]
        expired  == {r \in Rules : Expired(r, gap, bad[r])}
        noFull   == opts.full /\ completed = 0 /\ clock + gap > FullGate
    IN  /\ phase = "loop"
        /\ reason' = Verdict(expired, noFull)
        /\ phase' = IF reason' = "" THEN "loop" ELSE "end"
        /\ last' = completed
        /\ clock' = Past(clock + gap, FullGate)
        /\ since' = [r \in Rules |-> SinceAfter(r, gap, bad[r])]
        /\ recovery' = [r \in Rules |-> RecoveryAfter(r, bad[r])]
        /\ shown' = {r \in Rules : Shown(r, gap, bad[r])}
        /\ run' = [r \in Rules |-> IF r \in Enabled THEN RunAfter(r, bad[r]) ELSE 0]
        /\ spell' = [r \in Rules |-> IF r \in Enabled THEN SpellAfter(r, gap, bad[r]) ELSE 0]
        /\ frozen' = frozen \cup {r \in Enabled : ~Looked(r) /\ since[r] # Off}
        /\ UNCHANGED <<opts, cancelled, completed, done>>

Tick == \E gap \in 1..MaxGap, fewPeers \in BOOLEAN : Sample(gap, fewPeers)

(* runSeedPhase: until the ratio or the deadline, whichever is set and comes *)
(* first.                                                                    *)

\* Mutant: the deadline is not looked at.
NeverOver == FALSE

SeedOver == "hours" \in opts.seed /\ clock > SeedTime

SeedTick ==
    /\ phase = "seed"
    /\ \/ ~SeedOver /\ clock' = Past(clock + 1, SeedTime) /\ UNCHANGED <<phase, reason>>
       \/ SeedOver /\ End("ok") /\ UNCHANGED clock
    /\ UNCHANGED <<opts, cancelled, done, watch>>

RatioReached ==
    /\ phase = "seed" /\ "ratio" \in opts.seed
    /\ End("ok")
    /\ UNCHANGED <<opts, cancelled, done, clock, watch>>

-----------------------------------------------------------------------------
(* The swarm, the library and the user.                                      *)

Progress ==
    /\ phase = "loop" /\ completed < Total
    /\ completed' \in {completed - 1, completed + 1} \cap Nat
    /\ UNCHANGED <<opts, phase, reason, cancelled, done, clock, last, since, recovery, shown,
                   run, spell, frozen>>

WaitAll ==
    /\ phase = "loop" /\ completed = Total /\ ~done
    /\ done' = TRUE
    /\ UNCHANGED <<opts, phase, reason, cancelled, clock, watch>>

Cancel ==
    /\ phase # "end" /\ ~cancelled
    /\ cancelled' = TRUE
    /\ UNCHANGED <<opts, phase, reason, done, clock, watch>>

WatchNext == \/ GotInfo \/ MetaWait \/ CtxDone \/ DoneClosed \/ Tick \/ SeedTick
             \/ RatioReached \/ Progress \/ WaitAll \/ Cancel

WatchSpec == WatchInit /\ [][WatchNext]_watchVars

(* Tickers fire, a ready branch of a select is not passed over for ever, and *)
(* the metadata of a file is there.  Nothing is assumed of the swarm.        *)
FairWatchSpec ==
    /\ WatchSpec
    /\ WF_watchVars(MetaWait) /\ WF_watchVars(CtxDone) /\ WF_watchVars(DoneClosed)
    /\ WF_watchVars(Tick) /\ WF_watchVars(SeedTick) /\ WF_watchVars(WaitAll)
    /\ WF_watchVars(GotInfo /\ opts.source = "file")

-----------------------------------------------------------------------------
(* Properties                                                                *)

(* A rule rejects a download only if, for longer than its timeout, there     *)
(* were no three good samples in a row, and never a complete one.  The       *)
(* exceptions: slow speed and few peers are not looked at from 95 % on, and  *)
(* a timer that was running then still counts when the download falls back   *)
(* below; and the stall rule, which has no percent gate, may reject a        *)
(* complete download: with the callback blocked, done and ticker are both    *)
(* ready and the select may pick the tick.                                   *)
RejectionJustified ==
    /\ WatchTypeOK
    /\ reason \in Rules => /\ spell[reason] > Timeout \/ reason \in frozen
                           /\ completed = Total => reason = "stall"

(* No rejection comes unannounced: the countdown of the rule was in the      *)
(* warnings of the sample before, through every flicker of speed and peers.  *)
RejectionAnnounced ==
    [][reason' \in Rules /\ reason = "" => reason' \in shown \cup frozen]_watchVars

(* With a stall timeout, a download that makes no more progress ends, at     *)
(* 99 % as at 1 %, whatever the other rules do (README.md:137).              *)
DeadTorrentDropped ==
    "stall" \in opts.rules =>
        ([]<><<completed' # completed>>_watchVars \/ <>(phase \in {"seed", "end"}))

(* A download that is cancelled, in any phase, and a seed phase with a time  *)
(* limit come to their end.                                                  *)
EndsWhenTold == (cancelled \/ (phase = "seed" /\ "hours" \in opts.seed)) ~> phase = "end"
=============================================================================
