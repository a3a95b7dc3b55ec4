------------------------ MODULE LayeredConfigProofs ------------------------
(***************************************************************************)
(* What the configuration on disk is worth, for any keys, values and        *)
(* directives, and however often calls fail and the agent restarts.         *)
(***************************************************************************)
EXTENDS LayeredConfig, TLAPS

USE ConfigAssumption DEF ConfigAssumption

(* TypeOK without its only Boolean, and where the polling loop has a        *)
(* directive in hand.                                                       *)
Shape ==
    /\ setup \in Setups
    /\ web \in Tier(ConfigYmlKeys) /\ yml \in Tier(Keys) /\ cfg \in Tier(ConfigYmlKeys)
    /\ file \in Tier(Keys) /\ mu \in Agents \union {Nobody}
    /\ pc \in [Agents -> PollSteps \union UiSteps]
    /\ \A a \in Agents : pc[a] = "rename" <=> mu = a
    /\ fresh \in [Agents -> Tier(ConfigYmlKeys)]
    /\ resp \in Tier(ConfigYmlKeys) \union {Nil} /\ uiResp \in Tier(ConfigYmlKeys) \union {Nil}
    /\ todo \subseteq Directives /\ cur \in Directives \union {Nobody}
    /\ result \in {"ok", "error"} /\ uiWeb \in {"idle", "get", "apply"}
    /\ secrets \subseteq Hosts /\ secretsFile \subseteq Hosts
    /\ overrides \in Tier(ConfigYmlKeys)
    /\ queued \subseteq Directives /\ acked \in [Directives -> {"none", "ok", "error"}]
    /\ writer \in [Keys -> Directives \union {Nobody, "ui"}]
    /\ pc["poll"] \in PollSteps /\ pc["ui"] \in UiSteps
    /\ pc["poll"] \in {"write", "rename", "ack"} => cur \in Directives

LEMMA RefreshType == Shape => newConfigFromLayered \in Tier(ConfigYmlKeys)
BY DEF Shape, newConfigFromLayered, Field, Effective, Tier, Unset

LEMMA ShapeStep == Shape /\ [Next]_vars => Shape'
<1> SUFFICES ASSUME Shape, [Next]_vars PROVE Shape'
  OBVIOUS
<1> USE DEF Shape, Agents, Nobody, PollSteps, UiSteps, Goto,
            tierVars, diskVars, pollVars, uiVars, secretVars, siteVars, histVars, boundVars
<1>1. ASSUME NEW a \in Agents, Rename(a) PROVE Shape'
  BY <1>1 DEF Rename, Failed, NewFile, AfterRenameError, Unlocked
<1>2. ASSUME NEW a \in Agents, RefreshRead(a) PROVE Shape'
  BY <1>2, RefreshType DEF RefreshRead
<1>3. ASSUME NEW a \in Agents, RefreshAssign(a) PROVE Shape'
  <2>1. Empty(ConfigYmlKeys) \in Tier(ConfigYmlKeys)
    BY DEF Empty, Tier, Unset
  <2>2. fresh' \in [Agents -> Tier(ConfigYmlKeys)] /\ cfg' \in Tier(ConfigYmlKeys)
    BY <1>3, <2>1 DEF RefreshAssign
  <2>3. UNCHANGED <<setup, yml, web, diskVars, pollVars, uiVars, secretVars, siteVars, histVars>>
    BY <1>3 DEF RefreshAssign
  <2>4. /\ pc[a] = "assign"
        /\ pc' = [pc EXCEPT ![a] =
                     IF a = "ui" THEN "idle" ELSE IF cur = Nobody THEN "post" ELSE "ack"]
    BY <1>3 DEF RefreshAssign
  <2>5. /\ pc' \in [Agents -> PollSteps \union UiSteps]
        /\ \A b \in Agents : pc'[b] = "rename" <=> mu = b
        /\ pc'["poll"] \in PollSteps /\ pc'["ui"] \in UiSteps
        /\ pc'["poll"] \in {"write", "rename", "ack"} => cur \in Directives
    BY <2>4
  <2> QED
    BY <2>2, <2>3, <2>5
<1>4. CASE PollGot
  BY <1>4 DEF PollGot, Answer
<1>5. CASE PollGetFails \/ PollPost \/ PollPostFails \/ PollFetch \/ PollFetchFails
  BY <1>5 DEF PollGetFails, PollPost, PollPostFails, PollFetch, PollFetchFails
<1>6. CASE PollApply
  <2>1. web' \in Tier(ConfigYmlKeys)
    BY <1>6 DEF PollApply, Applies, ApplyWeb
  <2> QED
    BY <1>6, <2>1 DEF PollApply
<1>7. CASE PollNext
  BY <1>7 DEF PollNext
<1>8. ASSUME NEW a \in Agents, NEW k \in Keys, NEW v \in Values, WriteTmp(a, k, v),
             pc[a] = IF a = "poll" THEN "write" ELSE "idle"
      PROVE  Shape'
  BY <1>8 DEF WriteTmp, Merged, Failed, Tier
<1>9. ASSUME NEW a \in Agents, NotWritable(a), pc[a] = IF a = "poll" THEN "write" ELSE "idle"
      PROVE  Shape'
  BY <1>9 DEF NotWritable, Failed
<1>10. CASE PollWrite
  BY <1>8, <1>9, <1>10 DEF PollWrite
<1>11. CASE HandleConfig
  BY <1>8, <1>9, <1>11 DEF HandleConfig, Keys
<1>12. CASE PollAck \/ PollAckLost
  BY <1>12 DEF PollAck, PollAckLost, Outcome
<1>13. CASE HandleWebOverride \/ SiteChange
  BY <1>13 DEF HandleWebOverride, SiteChange, Tier
<1>14. CASE UiGetConfig
  BY <1>14 DEF UiGetConfig, Answer
<1>15. CASE UiApply
  BY <1>15 DEF UiApply, ApplyWeb, Empty, Tier, Unset
<1>16. CASE HandleSecrets
  BY <1>16 DEF HandleSecrets
<1>17. CASE Restart
  <2>1. Empty(ConfigYmlKeys) \in Tier(ConfigYmlKeys)
    BY DEF Empty, Tier, Unset
  <2>2. setup' \in Setups /\ web' \in Tier(ConfigYmlKeys) /\ yml' \in Tier(Keys)
    BY <1>17, <2>1 DEF Restart, loadYml, Tier
  <2>3. cfg' \in Tier(ConfigYmlKeys)
    BY <1>17, <2>2 DEF Restart, newConfigFromLayered, Field, Effective, Tier, Unset
  <2>4. secrets' \subseteq Hosts /\ secretsFile' \subseteq Hosts
    BY <1>17 DEF Restart, reload
  <2> QED
    BY <1>17, <2>1, <2>2, <2>3, <2>4 DEF Restart
<1>18. ASSUME NEW d \in Directives, SiteQueue(d) PROVE Shape'
  BY <1>18 DEF SiteQueue
<1>19. CASE UNCHANGED vars
  BY <1>19 DEF vars
<1> QED
  BY <1>1, <1>2, <1>3, <1>4, <1>5, <1>6, <1>7, <1>10, <1>11, <1>12, <1>13, <1>14, <1>15, <1>16,
     <1>17, <1>18, <1>19 DEF Next

(* The steps that change the file, the tier or the lock.                    *)
Writing ==
    \/ \E a \in Agents : Rename(a)
    \/ Restart
    \/ PollWrite /\ WriteTmp("poll", Payload[cur].key, Payload[cur].value)
    \/ pc["ui"] = "idle" /\ \E k \in ConfigYmlKeys, v \in LocalInputs : WriteTmp("ui", k, v)

LEMMA WritingSteps == [Next]_vars => Writing \/ UNCHANGED <<yml, file, mu, unsaved, writer>>
BY DEF Writing, Next, vars, Rename, RefreshRead, RefreshAssign, PollGot, PollGetFails, PollApply, PollPost,
     PollPostFails, PollFetch, PollFetchFails, PollNext, PollWrite, NotWritable, PollAck, PollAckLost,
     HandleConfig, HandleWebOverride, UiGetConfig, UiApply, HandleSecrets, SiteChange, SiteQueue,
     tierVars, diskVars, pollVars, siteVars, histVars

(* Shape is an invariant.                                                   *)
LEMMA Typed == Spec => [](Shape /\ unsaved \in BOOLEAN)
<1>1. Init => Shape /\ unsaved \in BOOLEAN
  <2> SUFFICES ASSUME Init PROVE Shape /\ unsaved \in BOOLEAN
    OBVIOUS
  <2>1. Empty(ConfigYmlKeys) \in Tier(ConfigYmlKeys) /\ Empty(Keys) \in Tier(Keys)
    BY DEF Empty, Tier, Unset
  <2>2. setup \in Setups /\ web \in Tier(ConfigYmlKeys) /\ yml \in Tier(Keys)
    BY <2>1 DEF Init
  <2>3. cfg \in Tier(ConfigYmlKeys)
    BY <2>2 DEF Init, newConfigFromLayered, Field, Effective, Tier, Unset
  <2> QED
    BY <2>1, <2>2, <2>3 DEF Init, Shape, Agents, Nobody, PollSteps, UiSteps
<1>2. unsaved \in BOOLEAN /\ [Next]_vars => (unsaved \in BOOLEAN)'
  <2>1. [Next]_vars => unsaved' = TRUE \/ unsaved' = FALSE \/ unsaved' = unsaved
    BY WritingSteps DEF Writing, Rename, Restart, WriteTmp
  <2> QED
    BY <2>1, Zenon
<1> QED
  BY <1>1, <1>2, ShapeStep, PTL DEF Spec

-----------------------------------------------------------------------------
(* The file and the tier. Outside WriteYml, and unless its last call        *)
(* failed, what a restart would read is what the agent has.                 *)

InSync == mu = Nobody /\ ~unsaved => \A k \in Keys : yml[k] \in Plain => loadYml(file)[k] = yml[k]

LEMMA InSyncStep == Shape /\ InSync /\ [Next]_vars => InSync'
<1> SUFFICES ASSUME Shape, InSync, [Next]_vars PROVE InSync'
  OBVIOUS
<1> USE DEF InSync
<1>1. ASSUME NEW a \in Agents, Rename(a) PROVE InSync'
  BY <1>1 DEF Rename, NewFile, loadYml, Shape, Tier, tierVars
<1>2. CASE Restart
  BY <1>2 DEF Restart
<1>3. ASSUME NEW a \in Agents, NEW k, NEW v, WriteTmp(a, k, v) PROVE InSync'
  BY <1>3 DEF WriteTmp, Agents, Nobody
<1>4. CASE UNCHANGED <<yml, file, mu, unsaved, writer>>
  BY <1>4 DEF loadYml
<1> QED
  BY <1>1, <1>2, <1>3, <1>4, WritingSteps DEF Writing, Agents

(* Whatever goroutine writes, and whatever write fails in between, after a  *)
(* WriteYml that succeeded the file is the tier.                            *)
THEOREM FileIsTier == Spec => []FileMatchesTier
<1>1. Init => InSync
  BY DEF Init, InSync, loadYml, Empty
<1>2. Shape /\ unsaved \in BOOLEAN /\ InSync => FileMatchesTier
  BY DEF Shape, InSync, FileMatchesTier, TypeOK
<1> QED
  BY <1>1, <1>2, Typed, InSyncStep, PTL DEF Spec

-----------------------------------------------------------------------------
(* Directives. The site hears "ok" only of a directive whose value was in   *)
(* the file when the loop came back from WriteYml; whoever writes after     *)
(* that writes the whole tier, so the value must be in the tier as well;    *)
(* and a restart reads it back. A directive is never carried out again once *)
(* it has an outcome, since that could make it the writer of its key before *)
(* its value is in the file.                                                *)

(* A value that this directive, if it is still the writer, has put there.   *)
Holds(d, f) == f[Payload[d].key] = Payload[d].value
Matters(d) == Payload[d].key \in ConfigYmlKeys /\ Payload[d].value \in Plain

Written(d) ==
    \/ acked[d] = "ok"
    \/ cur = d /\ pc["poll"] \in {"fresh", "assign", "ack"} /\ result = "ok"

Durable ==
    \A d \in Directives :
        Written(d) /\ Matters(d) /\ writer[Payload[d].key] = d => Holds(d, yml) /\ Holds(d, file)

(* Inside the loop's WriteYml the value is in the tier.                     *)
InTier == pc["poll"] = "rename" /\ Payload[cur].key \in ConfigYmlKeys => Holds(cur, yml)

Once ==
    /\ pc["poll"] \in {"get", "apply", "post", "fetch", "next"} => cur = Nobody
    /\ cur \notin todo
    /\ \A d \in todo : acked[d] = "none"
    /\ cur \in Directives => acked[cur] = "none"

LEMMA OnceStep == Shape /\ Once /\ [Next]_vars => Once'
<1> SUFFICES ASSUME Shape, Once, [Next]_vars PROVE Once'
  OBVIOUS
<1> USE DEF Once, Shape, Goto, Agents, pollVars, siteVars
<1>1. ASSUME NEW a \in Agents, Rename(a) \/ RefreshRead(a) \/ RefreshAssign(a) PROVE Once'
  BY <1>1 DEF Rename, RefreshRead, RefreshAssign, AfterRenameError, Failed
<1>2. CASE PollGot \/ PollGetFails \/ PollApply \/ PollPost \/ PollPostFails \/ PollFetchFails
  BY <1>2 DEF PollGot, PollGetFails, PollApply, PollPost, PollPostFails, PollFetchFails
<1>3. CASE PollFetch
  BY <1>3 DEF PollFetch
<1>4. CASE PollNext
  BY <1>4 DEF PollNext
<1>5. CASE PollWrite
  BY <1>5 DEF PollWrite, WriteTmp, NotWritable, Failed
<1>6. CASE PollAck \/ PollAckLost
  BY <1>6 DEF PollAck, PollAckLost
<1>7. CASE HandleConfig
  BY <1>7 DEF HandleConfig, WriteTmp, NotWritable, Failed
<1>8. CASE Restart
  BY <1>8 DEF Restart, Nobody
<1>9. CASE UNCHANGED <<pc, cur, todo, acked>>
  BY <1>9
<1> QED
  BY <1>1, <1>2, <1>3, <1>4, <1>5, <1>6, <1>7, <1>8, <1>9 DEF Next, vars, HandleWebOverride,
     UiGetConfig, UiApply, HandleSecrets, SiteChange, SiteQueue

LEMMA InTierStep == Shape /\ InTier /\ [Next]_vars => InTier'
<1> SUFFICES ASSUME Shape, InTier, [Next]_vars PROVE InTier'
  OBVIOUS
<1> USE DEF InTier, Holds, Shape, Goto, Agents, pollVars, tierVars
<1>1. ASSUME NEW a \in Agents, Rename(a) \/ RefreshRead(a) \/ RefreshAssign(a) PROVE InTier'
  BY <1>1 DEF Rename, RefreshRead, RefreshAssign, AfterRenameError, Failed
<1>2. CASE PollGot \/ PollGetFails \/ PollApply \/ PollPost \/ PollPostFails \/ PollFetchFails
           \/ PollFetch \/ PollNext \/ PollAck \/ PollAckLost
  BY <1>2 DEF PollGot, PollGetFails, PollApply, PollPost, PollPostFails, PollFetchFails, PollFetch,
              PollNext, PollAck, PollAckLost
<1>3. CASE PollWrite
  BY <1>3 DEF PollWrite, WriteTmp, Merged, NotWritable, Failed, Tier
<1>4. CASE HandleConfig
  BY <1>4 DEF HandleConfig, WriteTmp, NotWritable, Failed, Nobody
<1>5. CASE Restart
  BY <1>5 DEF Restart
<1>6. CASE UNCHANGED <<pc, cur, yml>>
  BY <1>6
<1> QED
  BY <1>1, <1>2, <1>3, <1>4, <1>5, <1>6 DEF Next, vars, HandleWebOverride, UiGetConfig, UiApply,
     HandleSecrets, SiteChange, SiteQueue

LEMMA DurableStep == Shape /\ Once /\ InTier /\ Durable /\ [Next]_vars => Durable'
<1> SUFFICES ASSUME Shape, Once, InTier, Durable, [Next]_vars,
                    NEW d \in Directives, Written(d)', Matters(d), writer'[Payload[d].key] = d
             PROVE  Holds(d, yml') /\ Holds(d, file')
  BY DEF Durable, Matters, Holds
<1> USE DEF Shape, Matters, Holds, Goto, Agents
<1>1. ASSUME NEW a \in Agents, Rename(a) PROVE Holds(d, yml') /\ Holds(d, file')
  <2>1. yml' = yml /\ writer' = writer /\ cur' = cur /\ acked' = acked
    BY <1>1 DEF Rename, tierVars, siteVars
  <2>2. CASE Written(d)
    BY <1>1, <2>1, <2>2 DEF Rename, NewFile, Durable
  <2>3. CASE ~Written(d)
    <3>1. a = "poll" /\ cur = d /\ file' = yml
      BY <1>1, <2>1, <2>3 DEF Rename, NewFile, AfterRenameError, Failed, Written
    <3> QED
      BY <1>1, <2>1, <3>1 DEF Rename, InTier
  <2> QED
    BY <2>2, <2>3
<1>2. CASE Restart
  <2>1. acked[d] = "ok" /\ writer[Payload[d].key] = d /\ file' = file
    BY <1>2 DEF Restart, Written, siteVars
  <2>2. Holds(d, file)
    BY <2>1 DEF Durable, Written
  <2> QED
    BY <1>2, <2>1, <2>2 DEF Restart, loadYml, Keys
<1>3. CASE PollWrite
  <2>1. acked[d] = "ok" /\ cur # d
    BY <1>3, Once DEF PollWrite, WriteTmp, NotWritable, Failed, Written, Once, siteVars
  <2>2. writer[Payload[d].key] = d
    BY <1>3, <2>1 DEF PollWrite, WriteTmp, NotWritable, histVars
  <2>3. Holds(d, yml) /\ Holds(d, file)
    BY <2>1, <2>2 DEF Durable, Written
  <2> QED
    BY <1>3, <2>1, <2>2, <2>3 DEF PollWrite, WriteTmp, Merged, NotWritable, tierVars, diskVars, Tier
<1>4. CASE HandleConfig
  <2>1. Written(d)
    BY <1>4 DEF HandleConfig, WriteTmp, NotWritable, Failed, Written, siteVars
  <2>2. writer[Payload[d].key] = d
    BY <1>4 DEF HandleConfig, WriteTmp, NotWritable, histVars
  <2>3. Holds(d, yml) /\ Holds(d, file)
    BY <2>1, <2>2 DEF Durable
  <2> QED
    BY <1>4, <2>2, <2>3 DEF HandleConfig, WriteTmp, Merged, NotWritable, tierVars, diskVars, Tier
<1>5. ASSUME UNCHANGED <<yml, file, writer>>, Written(d) PROVE Holds(d, yml') /\ Holds(d, file')
  BY <1>5 DEF Durable
<1> USE DEF tierVars, diskVars, pollVars, siteVars, histVars, Written
<1>6. ASSUME NEW a \in Agents, RefreshRead(a) \/ RefreshAssign(a) PROVE Written(d)
  BY <1>6 DEF RefreshRead, RefreshAssign
<1>7. CASE PollApply
  BY <1>5, <1>7 DEF PollApply, Once, Nobody
<1>8. CASE PollNext
  BY <1>5, <1>8 DEF PollNext
<1>9. CASE PollAck
  BY <1>5, <1>9 DEF PollAck, Outcome
<1>10. CASE PollGot \/ PollGetFails \/ PollPost \/ PollPostFails \/ PollFetch \/ PollFetchFails
            \/ PollAckLost
  BY <1>5, <1>10 DEF PollGot, PollGetFails, PollPost, PollPostFails, PollFetch, PollFetchFails,
                     PollAckLost
<1>11. CASE HandleWebOverride \/ UiGetConfig \/ UiApply \/ HandleSecrets \/ SiteChange
            \/ (\E e \in Directives : SiteQueue(e)) \/ UNCHANGED vars
  BY <1>5, <1>11 DEF HandleWebOverride, UiGetConfig, UiApply, HandleSecrets, SiteChange, SiteQueue, vars
<1>12. ASSUME NEW a \in Agents, RefreshRead(a) \/ RefreshAssign(a) PROVE UNCHANGED <<yml, file, writer>>
  BY <1>12 DEF RefreshRead, RefreshAssign
<1> QED
  BY <1>1, <1>2, <1>3, <1>4, <1>5, <1>6, <1>7, <1>8, <1>9, <1>10, <1>11, <1>12 DEF Next

(* A directive the site shows as applied survives everything but a new      *)
(* value for its key.                                                       *)
THEOREM AckIsDurable == Spec => []AckedIsDurable
<1>1. Init => Once /\ InTier /\ Durable
  BY DEF Init, Once, InTier, Durable, Written, Nobody, Agents
<1>2. Durable => AckedIsDurable
  BY DEF Durable, Written, Matters, Holds, AckedIsDurable
<1> QED
  BY <1>1, <1>2, Typed, OnceStep, InTierStep, DurableStep, PTL DEF Spec
=============================================================================
