---------------------------- MODULE LayeredConfig ----------------------------
(***************************************************************************)
(* The agent's layered configuration (config/layered.go, config.Refresh),   *)
(* the passkeys of services/secrets.go, and everybody who changes them: the *)
(* polling loop, which applies the site's overrides and directives, and the *)
(* local UI's /config, /web-override and /secrets handlers.                 *)
(*                                                                          *)
(* A value "" stands for a key that is not set: Effective and the readers   *)
(* of its result treat the two alike (an environment variable that is set   *)
(* to nothing, which LocalSnapshot tells apart, is left out). Layered.mu is *)
(* held for the whole of WriteYml, so its other methods wait while mu #     *)
(* Nobody. The site is external: it keeps the overrides and the queue of    *)
(* directives, and any call to it may fail, before or after the site did    *)
(* its part. A UI handler serves one request at a time.                     *)
(***************************************************************************)
EXTENDS Integers

CONSTANTS ConfigYmlKeys,  \* keys managed through config.yml
          EnvOnlyKeys,    \* keys WriteYml refuses
          Values,         \* settings, "" included
          Numbers,        \* those that parse as the number a field wants
          Plain,          \* those WriteYml writes without escapes
          Reread,         \* what loadYml makes of a value WriteYml wrote
          LocalInputs,    \* values typed into the local UI's settings form
          OverrideInputs, \* values the site's overrides are set to
          Hosts,          \* tracker hosts
          HostReread,     \* the host reload makes of a line Set wrote
          Directives,     \* IDs of directives
          Unreadable,     \* those of an unknown kind or with a bad payload
          Payload,        \* directive -> the key and value of its write_config
          Setups          \* environments to run in, see Setup

Unset == ""
Nobody == "nobody"
Agents == {"poll", "ui"}
Keys == ConfigYmlKeys \union EnvOnlyKeys

(* What does not change: the process environment, whether probeWritable      *)
(* finds config.yml writable, whether the site leaves an empty map of        *)
(* overrides out of its answer, and the directives its user may queue. And   *)
(* the bounds: changes of the overrides, requests to /config and /secrets,   *)
(* and restarts explored.                                                    *)
Setup == [env : [ConfigYmlKeys -> Values], writable : BOOLEAN, omits : BOOLEAN,
          directives : SUBSET Directives,
          maxChanges : Nat, maxEdits : Nat, maxRestarts : Nat]

ASSUME ConfigAssumption ==
    /\ Setups \subseteq Setup
    /\ LocalInputs \subseteq Values /\ OverrideInputs \subseteq Values
    /\ ConfigYmlKeys \intersect EnvOnlyKeys = {}
    /\ Unset \in Plain /\ Plain \subseteq Values /\ \A v \in Plain : Reread[v] = v
    /\ Numbers \subseteq Values \ {Unset}
    /\ Reread \in [Values -> Values]
    /\ HostReread \in [Hosts -> Hosts]
    /\ Unreadable \subseteq Directives
    /\ Payload \in [Directives -> [key : Keys, value : Values]]
    /\ Nobody \notin Directives /\ "ui" \notin Directives

VARIABLES setup,
          yml, web,            \* the tiers that change, in memory
          cfg,                 \* the fields of Config that Refresh sets
          file,                \* config.yml
          mu,                  \* who is inside WriteYml
          pc,                  \* next step of the polling loop and of /config
          fresh,               \* newConfigFromLayered's result, not assigned yet
          resp,                \* WebOverrides in the loop's last GetConfig answer
          todo, cur, result,   \* directives fetched, the one in hand, its outcome
          uiWeb, uiResp,       \* /web-override: its step, and its GetConfig answer
          secrets, secretsFile, \* hosts with a passkey, in memory and in secrets.yml
          overrides,           \* the site's overrides
          queued, acked,       \* directives the site queued, and their outcome there
          reported,            \* the settings report the site holds
          writer,              \* history: who last put a key into the yml tier
          unsaved,             \* history: the last WriteYml failed
          changes, edits, restarts

tierVars == <<yml, web, cfg>>
diskVars == <<file, mu>>
pollVars == <<resp, todo, cur, result>>
uiVars == <<uiWeb, uiResp>>
secretVars == <<secrets, secretsFile>>
siteVars == <<overrides, queued, acked, reported>>
histVars == <<writer, unsaved>>
boundVars == <<changes, edits, restarts>>
vars == <<setup, tierVars, diskVars, pc, fresh, pollVars, uiVars, secretVars, siteVars, histVars, boundVars>>

Tier(K) == [K -> Values]
Empty(K) == [k \in K |-> Unset]
Nil == <<>>  \* the nil map of a JSON answer without the field

PollSteps == {"get", "apply", "fresh", "assign", "post", "fetch", "next", "write", "rename", "ack"}
UiSteps == {"idle", "rename", "fresh", "assign"}

TypeOK ==
    /\ setup \in Setups
    /\ web \in Tier(ConfigYmlKeys) /\ yml \in Tier(Keys) /\ cfg \in Tier(ConfigYmlKeys)
    /\ file \in Tier(Keys) /\ mu \in Agents \union {Nobody}
    /\ pc \in [Agents -> PollSteps \union UiSteps]
    /\ \A a \in Agents : pc[a] = "rename" <=> mu = a
    /\ fresh \in [Agents -> Tier(ConfigYmlKeys)]
    /\ resp \in Tier(ConfigYmlKeys) \union {Nil} /\ uiResp \in Tier(ConfigYmlKeys) \union {Nil}
    /\ todo \subseteq Directives /\ cur \in Directives \union {Nobody}
    /\ result \in {"ok", "error"} /\ uiWeb \in {"idle", "get", "apply"}
    /\ secrets \subseteq Hosts /\ secretsFile \subseteq Hosts
    /\ overrides \in Tier(ConfigYmlKeys)
    /\ queued \subseteq Directives /\ acked \in [Directives -> {"none", "ok", "error"}]
    /\ writer \in [Keys -> Directives \union {Nobody, "ui"}] /\ unsaved \in BOOLEAN

-----------------------------------------------------------------------------
(* The tiers.                                                               *)

(* web > env > yml; an empty value falls through.                           *)
Effective(k) ==
    IF web[k] # Unset THEN web[k] ELSE IF setup.env[k] # Unset THEN setup.env[k] ELSE yml[k]

(* layeredInt, layeredFloat: what does not parse gives the default.         *)
Field(k) == IF Effective(k) \in Numbers THEN Effective(k) ELSE Unset

newConfigFromLayered == [k \in ConfigYmlKeys |-> Field(k)]

(* env over yml, as the site shows it beside the overrides.                 *)
LocalSnapshot ==
    [k \in Keys |-> IF k \in ConfigYmlKeys /\ setup.env[k] # Unset THEN setup.env[k] ELSE yml[k]]

Report == [local |-> LocalSnapshot, on_disk_writable |-> setup.writable,
           has_private_trackers |-> secrets # {}]

ApplyWeb(m) == web' = IF m = Nil THEN Empty(ConfigYmlKeys) ELSE m

(* NewConfig and LoadSecrets on what the disk holds.                        *)
loadYml(f) == [k \in Keys |-> Reread[f[k]]]
reload(f) == {HostReread[h] : h \in f}

Init ==
    /\ setup \in Setups
    /\ file = Empty(Keys) /\ yml = Empty(Keys) /\ web = Empty(ConfigYmlKeys)
    /\ cfg = newConfigFromLayered
    /\ mu = Nobody
    /\ pc = [a \in Agents |-> IF a = "poll" THEN "get" ELSE "idle"]
    /\ fresh = [a \in Agents |-> Empty(ConfigYmlKeys)]
    /\ resp = Nil /\ todo = {} /\ cur = Nobody /\ result = "ok"
    /\ uiWeb = "idle" /\ uiResp = Nil
    /\ secrets = {} /\ secretsFile = {}
    /\ overrides = Empty(ConfigYmlKeys)
    /\ queued = {} /\ acked = [d \in Directives |-> "none"]
    /\ reported = Report
    /\ writer = [k \in Keys |-> Nobody] /\ unsaved = FALSE
    /\ changes = 0 /\ edits = 0 /\ restarts = 0

Goto(a, step) == pc' = [pc EXCEPT ![a] = step]

-----------------------------------------------------------------------------
(* WriteYml and Refresh, run by the polling loop for a directive and by     *)
(* handleConfig.                                                            *)

(* Back in the caller after an error: the loop acks it, the UI answers 500. *)
Failed(a) ==
    IF a = "poll" THEN Goto(a, "ack") /\ result' = "error"
                  ELSE Goto(a, "idle") /\ UNCHANGED result

(* The merge into the tier, which comes before any I/O.                     *)
Merged(k, v) == IF k \in EnvOnlyKeys THEN yml ELSE [yml EXCEPT ![k] = v]

(* Lock, merge, write config.yml.tmp; or that write fails.                  *)
WriteTmp(a, k, v) ==
    /\ mu = Nobody /\ setup.writable
    /\ yml' = Merged(k, v)
    /\ writer' = IF k \in EnvOnlyKeys THEN writer
                 ELSE [writer EXCEPT ![k] = IF a = "poll" THEN cur ELSE "ui"]
    /\ \/ mu' = a /\ Goto(a, "rename") /\ UNCHANGED <<result, unsaved>>
       \/ unsaved' = TRUE /\ Failed(a) /\ UNCHANGED mu
    /\ UNCHANGED <<setup, web, cfg, file, fresh, resp, todo, cur, uiVars, secretVars, siteVars,
                   changes, restarts>>

(* "config.yml is not writable"                                             *)
NotWritable(a) ==
    /\ mu = Nobody /\ ~setup.writable
    /\ Failed(a)
    /\ UNCHANGED <<setup, tierVars, diskVars, fresh, resp, todo, cur, uiVars, secretVars, siteVars,
                   histVars, changes, restarts>>

(* os.Rename puts the new file in place; or it fails.                       *)
OnlyUpdates(a) ==
    IF a = "ui" THEN yml ELSE [yml EXCEPT ![CHOOSE k \in Keys : k # Payload[cur].key] = Unset]
NewFile(a) == yml

SwallowError(a) == Goto(a, "fresh") /\ UNCHANGED result
AfterRenameError(a) == Failed(a)

(* The deferred Unlock.                                                     *)
StaysLocked(a) == a
Unlocked(a) == Nobody

Rename(a) ==
    /\ pc[a] = "rename"
    /\ mu' = Unlocked(a)
    /\ \/ file' = NewFile(a) /\ unsaved' = FALSE /\ Goto(a, "fresh") /\ UNCHANGED result
       \/ unsaved' = TRUE /\ AfterRenameError(a) /\ UNCHANGED file
    /\ UNCHANGED <<setup, tierVars, fresh, resp, todo, cur, uiVars, secretVars, siteVars, writer,
                   boundVars>>

(* cfg.Refresh(), which no lock protects: read the tiers ...                *)
RefreshRead(a) ==
    /\ pc[a] = "fresh" /\ mu = Nobody
    /\ fresh' = [fresh EXCEPT ![a] = newConfigFromLayered]
    /\ Goto(a, "assign")
    /\ UNCHANGED <<setup, tierVars, diskVars, pollVars, uiVars, secretVars, siteVars, histVars,
                   boundVars>>

(* ... and assign the fields. The loop goes on after the ApplyWeb, or, with *)
(* a directive in hand, to its ack.                                         *)
RefreshAssign(a) ==
    /\ pc[a] = "assign"
    /\ cfg' = fresh[a]
    /\ fresh' = [fresh EXCEPT ![a] = Empty(ConfigYmlKeys)]
    /\ Goto(a, IF a = "ui" THEN "idle" ELSE IF cur = Nobody THEN "post" ELSE "ack")
    /\ UNCHANGED <<setup, yml, web, diskVars, pollVars, uiVars, secretVars, siteVars, histVars,
                   boundVars>>

-----------------------------------------------------------------------------
(* The polling loop's configuration block.                                  *)

(* What GetConfig returns: the site may leave an empty map out.             *)
Answer == IF setup.omits /\ overrides = Empty(ConfigYmlKeys) THEN Nil ELSE overrides

PollGot ==
    /\ pc["poll"] = "get"
    /\ resp' = Answer
    /\ Goto("poll", "apply")
    /\ UNCHANGED <<setup, tierVars, diskVars, fresh, todo, cur, result, uiVars, secretVars,
                   siteVars, histVars, boundVars>>

PollGetFails ==
    /\ pc["poll"] = "get"
    /\ Goto("poll", "post")
    /\ UNCHANGED <<setup, tierVars, diskVars, fresh, pollVars, uiVars, secretVars, siteVars,
                   histVars, boundVars>>

(* A nil map is not applied; any other one is, and Refresh follows.         *)
AppliesChange == resp # Nil /\ resp # web
Applies == resp # Nil

PollApply ==
    /\ pc["poll"] = "apply" /\ mu = Nobody
    /\ IF Applies THEN ApplyWeb(resp) /\ Goto("poll", "fresh")
                  ELSE Goto("poll", "post") /\ UNCHANGED web
    /\ resp' = Nil
    /\ UNCHANGED <<setup, yml, cfg, diskVars, fresh, todo, cur, result, uiVars, secretVars,
                   siteVars, histVars, boundVars>>

(* PostLocalConfig, delivered or not; the loop does not mind.               *)
Posted == Report

PollPost ==
    /\ pc["poll"] = "post" /\ mu = Nobody
    /\ reported' = Posted
    /\ Goto("poll", "fetch")
    /\ UNCHANGED <<setup, tierVars, diskVars, fresh, pollVars, uiVars, secretVars, overrides,
                   queued, acked, histVars, boundVars>>

PollPostFails ==
    /\ pc["poll"] = "post" /\ mu = Nobody
    /\ Goto("poll", "fetch")
    /\ UNCHANGED <<setup, tierVars, diskVars, fresh, pollVars, uiVars, secretVars, siteVars,
                   histVars, boundVars>>

(* FetchDirectives returns what is queued and not acknowledged.             *)
PollFetch ==
    /\ pc["poll"] = "fetch"
    /\ todo' = {d \in queued : acked[d] = "none"}
    /\ Goto("poll", "next")
    /\ UNCHANGED <<setup, tierVars, diskVars, fresh, resp, cur, result, uiVars, secretVars,
                   siteVars, histVars, boundVars>>

PollFetchFails ==
    /\ pc["poll"] = "fetch"
    /\ Goto("poll", "get")
    /\ UNCHANGED <<setup, tierVars, diskVars, fresh, pollVars, uiVars, secretVars, siteVars,
                   histVars, boundVars>>

(* applyDirective for the next directive, or the end of this poll.          *)
PollNext ==
    /\ pc["poll"] = "next"
    /\ \/ \E d \in todo :
             /\ todo' = todo \ {d} /\ cur' = d
             /\ result' = IF d \in Unreadable THEN "error" ELSE "ok"
             /\ Goto("poll", IF d \in Unreadable THEN "ack" ELSE "write")
       \/ todo = {} /\ Goto("poll", "get") /\ UNCHANGED <<todo, cur, result>>
    /\ UNCHANGED <<setup, tierVars, diskVars, fresh, resp, uiVars, secretVars, siteVars, histVars,
                   boundVars>>

PollWrite ==
    /\ pc["poll"] = "write"
    /\ WriteTmp("poll", Payload[cur].key, Payload[cur].value) \/ NotWritable("poll")
    /\ UNCHANGED edits

(* AckDirective: the site takes it, or the call is lost and the directive   *)
(* comes again with a later poll.                                           *)
OnlySuccess == IF result = "error" THEN "none" ELSE "ok"
Outcome == result

PollAck ==
    /\ pc["poll"] = "ack"
    /\ acked' = [acked EXCEPT ![cur] = Outcome]
    /\ cur' = Nobody /\ result' = "ok"
    /\ Goto("poll", "next")
    /\ UNCHANGED <<setup, tierVars, diskVars, fresh, resp, todo, uiVars, secretVars, overrides,
                   queued, reported, histVars, boundVars>>

PollAckLost ==
    /\ pc["poll"] = "ack"
    /\ cur' = Nobody /\ result' = "ok"
    /\ Goto("poll", "next")
    /\ UNCHANGED <<setup, tierVars, diskVars, fresh, resp, todo, uiVars, secretVars, siteVars,
                   histVars, boundVars>>

-----------------------------------------------------------------------------
(* The local UI.                                                            *)

HandleConfig ==
    /\ pc["ui"] = "idle" /\ edits < setup.maxEdits
    /\ edits' = edits + 1
    /\ \/ \E k \in ConfigYmlKeys, v \in LocalInputs : WriteTmp("ui", k, v)
       \/ NotWritable("ui")

(* Put one override on the site (Unset clears it): done and answered, done  *)
(* with the answer lost, or failed. Only an answer leads to the GetConfig.  *)
HandleWebOverride ==
    /\ uiWeb = "idle" /\ changes < setup.maxChanges
    /\ changes' = changes + 1
    /\ \/ \E k \in ConfigYmlKeys, v \in OverrideInputs :
             /\ overrides' = [overrides EXCEPT ![k] = v]
             /\ uiWeb' \in {"get", "idle"}
       \/ UNCHANGED <<overrides, uiWeb>>
    /\ UNCHANGED <<setup, tierVars, diskVars, pc, fresh, pollVars, uiResp, secretVars, queued,
                   acked, reported, histVars, edits, restarts>>

UiGetConfig ==
    /\ uiWeb = "get"
    /\ \/ uiWeb' = "apply" /\ uiResp' = Answer
       \/ uiWeb' = "idle" /\ UNCHANGED uiResp
    /\ UNCHANGED <<setup, tierVars, diskVars, pc, fresh, pollVars, secretVars, siteVars, histVars,
                   boundVars>>

(* ApplyWeb, also of a nil map, and no Refresh.                             *)
UiApply ==
    /\ uiWeb = "apply" /\ mu = Nobody
    /\ ApplyWeb(uiResp)
    /\ uiWeb' = "idle" /\ uiResp' = Nil
    /\ UNCHANGED <<setup, yml, cfg, diskVars, pc, fresh, pollVars, secretVars, siteVars, histVars,
                   boundVars>>

(* SecretsStore.Set: change the map, then write all of it and rename, under *)
(* one lock; an error leaves the map ahead of the file.                     *)
HandleSecrets ==
    /\ edits < setup.maxEdits
    /\ edits' = edits + 1
    /\ \E h \in Hosts : secrets' \in {secrets \union {h}, secrets \ {h}}
    /\ secretsFile' \in {secrets', secretsFile}
    /\ UNCHANGED <<setup, tierVars, diskVars, pc, fresh, pollVars, uiVars, siteVars, histVars,
                   changes, restarts>>

-----------------------------------------------------------------------------
(* The site, and restarts.                                                  *)

SiteChange ==
    /\ changes < setup.maxChanges
    /\ changes' = changes + 1
    /\ \E k \in ConfigYmlKeys, v \in OverrideInputs : overrides' = [overrides EXCEPT ![k] = v]
    /\ UNCHANGED <<setup, tierVars, diskVars, pc, fresh, pollVars, uiVars, secretVars, queued,
                   acked, reported, histVars, edits, restarts>>

SiteQueue(d) ==
    /\ d \in setup.directives \ queued
    /\ queued' = queued \union {d}
    /\ UNCHANGED <<setup, tierVars, diskVars, pc, fresh, pollVars, uiVars, secretVars, overrides,
                   acked, reported, histVars, boundVars>>

(* The process dies anywhere, inside WriteYml included, and starts again.   *)
Restart ==
    /\ restarts < setup.maxRestarts
    /\ restarts' = restarts + 1 /\ UNCHANGED setup
    /\ yml' = loadYml(file) /\ web' = Empty(ConfigYmlKeys)
    /\ cfg' = newConfigFromLayered'
    /\ mu' = Nobody
    /\ pc' = [a \in Agents |-> IF a = "poll" THEN "get" ELSE "idle"]
    /\ fresh' = [a \in Agents |-> Empty(ConfigYmlKeys)]
    /\ resp' = Nil /\ todo' = {} /\ cur' = Nobody /\ result' = "ok"
    /\ uiWeb' = "idle" /\ uiResp' = Nil
    /\ secrets' = reload(secretsFile)
    /\ unsaved' = FALSE
    /\ UNCHANGED <<file, secretsFile, siteVars, writer, changes, edits>>

Next ==
    \/ \E a \in Agents : Rename(a) \/ RefreshRead(a) \/ RefreshAssign(a)
    \/ PollGot \/ PollGetFails \/ PollApply \/ PollPost \/ PollPostFails
    \/ PollFetch \/ PollFetchFails \/ PollNext \/ PollWrite \/ PollAck \/ PollAckLost
    \/ HandleConfig \/ HandleWebOverride \/ UiGetConfig \/ UiApply \/ HandleSecrets
    \/ Restart \/ SiteChange \/ \E d \in Directives : SiteQueue(d)

Spec == Init /\ [][Next]_vars

(* The loop and the handlers that have started run on, and no call to the   *)
(* site fails for ever.                                                     *)
Fairness ==
    /\ \A a \in Agents : WF_vars(Rename(a)) /\ WF_vars(RefreshRead(a)) /\ WF_vars(RefreshAssign(a))
    /\ SF_vars(PollGot) /\ SF_vars(PollPost) /\ SF_vars(PollFetch) /\ SF_vars(PollAck)
    /\ WF_vars(PollApply) /\ WF_vars(PollNext) /\ WF_vars(PollWrite)
    /\ WF_vars(UiGetConfig) /\ WF_vars(UiApply)

FairSpec == Spec /\ Fairness

-----------------------------------------------------------------------------
(* Properties.                                                              *)

(* A directive the site shows as applied is in config.yml, through failed   *)
(* writes, lost acks and restarts, until somebody sets its key again. A     *)
(* value loadYml does not read back is the exception.                       *)
AckedIsDurable ==
    \A d \in Directives :
        LET p == Payload[d] IN
        /\ acked[d] = "ok"
        /\ p.key \in ConfigYmlKeys /\ p.value \in Plain
        /\ writer[p.key] = d
        => file[p.key] = p.value

(* After a write that succeeded, and until one fails, config.yml holds what *)
(* the agent runs with: no key of the tier is left out of the file, and a   *)
(* restart, which reads the file, changes nothing but values loadYml does   *)
(* not read back.                                                           *)
FileMatchesTier ==
    /\ TypeOK
    /\ mu = Nobody /\ ~unsaved => \A k \in Keys : yml[k] \in Plain => loadYml(file)[k] = yml[k]

(* The site's overrides, unless it leaves out an empty map.                 *)
Visible == ~setup.omits \/ overrides # Empty(ConfigYmlKeys)

(* Once nothing changes any more, agent and site agree. The agent's web     *)
(* tier is the site's, although /web-override and the loop apply answers in *)
(* any order; Config has the values the tiers give, although Refresh is     *)
(* called from two goroutines and not by /web-override; and the site's      *)
(* picture of the agent (values, writability, passkeys) is the agent's.     *)
SiteAndAgentConverge ==
    <>[](/\ Visible => web = overrides /\ cfg = newConfigFromLayered
         /\ mu = Nobody => reported = Report)

(* Every directive gets an outcome on the site, the unreadable ones too.    *)
DirectiveSettled == \A d \in Directives : d \in queued ~> acked[d] # "none"
=============================================================================
