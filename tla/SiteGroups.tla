----------------------------- MODULE SiteGroups -----------------------------
(***************************************************************************)
(* The table groups and its two writers: StartSiteGroupsSync, which pulls   *)
(* the site's catalogue (services/site_groups_sync.go, storage/groups.go),  *)
(* and the operator in the local UI (services/localui.go).                  *)
(*                                                                          *)
(* Each SQL statement is one step. What a group says is abstracted to who   *)
(* wrote it: the catalogue version it was pulled from, or the operator.     *)
(* The site is external: it numbers the edits of its catalogue with one     *)
(* counter and answers since_version=N with the groups edited after N.      *)
(***************************************************************************)
EXTENDS Integers, FiniteSets

CONSTANTS Names,        \* group names
          MaxEdits,     \* bound: edits of the catalogue
          MaxOps,       \* bound: writes by the operator
          MaxDbErrors,  \* bound: statements that fail
          MaxRestarts   \* bound: restarts of the agent

ASSUME GroupsAssumption == {MaxEdits, MaxOps, MaxDbErrors, MaxRestarts} \subseteq Nat

NoName == "no name"
Operator == 0       \* what a group says if the operator wrote it
Absent == 0         \* the catalogue has no such group; no row was found

VARIABLES catalog,      \* the site: version of each group, or Absent
          siteMax,      \* the site: the version counter
          rows,         \* the table: id -> row
          nextId,       \* the next AUTOINCREMENT value
          sync,         \* runOnce: "idle", "apply", "write" or "delete"
          lastVersion, doFullSync,
          respGroups,   \* resp.Groups: name -> version
          respMax,      \* resp.MaxVersion
          todo,         \* names of the response still to be upserted
          cur,          \* the name being upserted ...
          found,        \* ... and existingID, or Absent
          stale,        \* ids ReconcileSiteGroups has still to delete
          ops, dbErrors, restarts,
          mine,         \* history: rows that were local when the round began
          heard,        \* history: names the site has sent since the start
          missed,       \* history: names whose last upsert failed
          gone,         \* history: names whose row the operator removed, or saved and lost
          leftover      \* history: the reconciliation was cut short

siteVars == <<catalog, siteMax>>
tableVars == <<rows, nextId>>
roundVars == <<sync, lastVersion, doFullSync, respGroups, respMax, todo, cur, found, stale>>
boundVars == <<ops, dbErrors, restarts>>
histVars == <<mine, heard, missed, gone, leftover>>
vars == <<siteVars, tableVars, roundVars, boundVars, histVars>>

Row == [name : Names, source : {"local", "site"}, says : 0..MaxEdits, version : Nat]

(* Types, and the UNIQUE constraint on groups.name.                         *)
TypeOK ==
    /\ catalog \in [Names -> 0..MaxEdits] /\ siteMax \in 0..MaxEdits
    /\ nextId \in Nat /\ DOMAIN rows \subseteq 1..(nextId - 1)
    /\ \A i \in DOMAIN rows : rows[i] \in Row
    /\ \A i, j \in DOMAIN rows : rows[i].name = rows[j].name => i = j
    /\ sync \in {"idle", "apply", "write", "delete"}
    /\ lastVersion \in 0..MaxEdits /\ doFullSync \in BOOLEAN
    /\ DOMAIN respGroups \subseteq Names /\ respMax \in 0..MaxEdits
    /\ todo \subseteq DOMAIN respGroups
    /\ cur \in Names \union {NoName} /\ found \in 0..(nextId - 1)
    /\ stale \subseteq 1..(nextId - 1) /\ mine \subseteq 1..(nextId - 1)
    /\ heard \subseteq Names /\ missed \subseteq Names /\ gone \subseteq Names
    /\ leftover \in BOOLEAN
    /\ ops \in 0..MaxOps /\ dbErrors \in 0..MaxDbErrors /\ restarts \in 0..MaxRestarts

Init ==
    /\ sync = "idle" /\ lastVersion = 0 /\ doFullSync = TRUE
    /\ respGroups = [n \in {} |-> 0] /\ respMax = 0 /\ todo = {}
    /\ cur = NoName /\ found = Absent /\ stale = {}
    /\ mine = {} /\ heard = {} /\ missed = {} /\ leftover = FALSE
    /\ catalog = [n \in Names |-> Absent] /\ siteMax = 0
    /\ rows = [i \in {} |-> 0] /\ nextId = 1
    /\ ops = 0 /\ dbErrors = 0 /\ restarts = 0
    /\ gone = {}

Named(n) == {i \in DOMAIN rows : rows[i].name = n}
FromSource(s) == {i \in DOMAIN rows : rows[i].source = s}
Without(i) == [j \in DOMAIN rows \ {i} |-> rows[j]]
Inserted(row) == [j \in DOMAIN rows \union {nextId} |-> IF j = nextId THEN row ELSE rows[j]]

(* name TEXT NOT NULL UNIQUE                                                *)
AnyName(n) == TRUE
NameFree(n) == Named(n) = {}

(* The trigger groups_bump_version: an UPDATE that leaves version as it was *)
(* adds one.                                                                *)
Bumped(old, new) == IF new = old THEN old + 1 ELSE new

DbError == dbErrors < MaxDbErrors /\ dbErrors' = dbErrors + 1
DbOk == dbErrors' = dbErrors

-----------------------------------------------------------------------------
(* The site's administrator.                                                *)

SiteEdit(n) ==
    /\ siteMax < MaxEdits
    /\ siteMax' = siteMax + 1
    /\ catalog' = [catalog EXCEPT ![n] = siteMax + 1]
    /\ UNCHANGED <<tableVars, roundVars, boundVars, histVars>>

SiteDelete(n) ==
    /\ catalog[n] # Absent
    /\ catalog' = [catalog EXCEPT ![n] = Absent]
    /\ UNCHANGED <<siteMax, tableVars, roundVars, boundVars, histVars>>

-----------------------------------------------------------------------------
(* runOnce. A failed fetch returns at once and changes nothing: the next    *)
(* tick is another Fetch.                                                   *)

Since == IF doFullSync THEN 0 ELSE lastVersion

Receive(groups, max) ==
    /\ sync = "idle"
    /\ sync' = "apply"
    /\ respGroups' = groups /\ respMax' = max /\ todo' = DOMAIN groups
    /\ mine' = FromSource("local")
    /\ heard' = heard \union DOMAIN groups
    /\ UNCHANGED <<siteVars, tableVars, lastVersion, doFullSync, cur, found, stale, boundVars,
                   missed, gone, leftover>>

Fetch == Receive([n \in {m \in Names : catalog[m] > Since} |-> catalog[n]], siteMax)

(* 404: the site does not know the endpoint; an empty response.             *)
FetchNotFound == Receive([n \in {} |-> 0], 0)

(* UpsertSiteGroup reads the row of that name: a local one is left alone.   *)
NoSkip(i) == FALSE
SkipLocal(i) == rows[i].source = "local"

UpsertSelect(n) ==
    /\ sync = "apply" /\ n \in todo
    /\ todo' = todo \ {n}
    /\ \/ /\ DbOk
          /\ IF \E i \in Named(n) : SkipLocal(i)
             THEN missed' = missed \ {n} /\ UNCHANGED <<sync, cur, found>>
             ELSE /\ sync' = "write" /\ cur' = n /\ UNCHANGED missed
                  /\ IF NameFree(n) THEN found' = Absent ELSE found' \in Named(n)
       \/ DbError /\ missed' = missed \union {n} /\ UNCHANGED <<sync, cur, found>>
    /\ UNCHANGED <<siteVars, tableVars, lastVersion, doFullSync, respGroups, respMax, stale, ops,
                   restarts, mine, heard, gone, leftover>>

(* Then it inserts, or updates by id, a row the operator may have created,  *)
(* changed or deleted meanwhile. An error is logged, and the loop goes on.  *)
UpsertWrite ==
    LET v == respGroups[cur]
    IN
    /\ sync = "write"
    /\ sync' = "apply" /\ cur' = NoName /\ found' = Absent
    /\ \/ /\ DbOk
          /\ found = Absent /\ NameFree(cur)
          /\ rows' = Inserted([name |-> cur, source |-> "site", says |-> v, version |-> v])
          /\ nextId' = nextId + 1
          /\ missed' = missed \ {cur} /\ gone' = gone \ {cur}
       \/ /\ DbOk
          /\ found \in DOMAIN rows
          /\ rows' = [rows EXCEPT ![found].says = v, ![found].version = Bumped(@, v)]
          /\ missed' = missed \ {cur} /\ UNCHANGED <<nextId, gone>>
       \/ /\ DbOk
          /\ found # Absent /\ found \notin DOMAIN rows
          /\ missed' = missed \ {cur} /\ UNCHANGED <<rows, nextId, gone>>
       \/ /\ (DbOk /\ found = Absent /\ ~NameFree(cur)) \/ DbError
          /\ missed' = missed \union {cur} /\ UNCHANGED <<rows, nextId, gone>>
    /\ UNCHANGED <<siteVars, lastVersion, doFullSync, respGroups, respMax, todo, stale, ops,
                   restarts, mine, heard, leftover>>

(* if resp.MaxVersion > lastVersion { lastVersion = resp.MaxVersion }       *)
OnePast == respMax + 1
HighWater == IF respMax > lastVersion THEN respMax ELSE lastVersion

EndRound ==
    /\ sync' = "idle" /\ doFullSync' = FALSE
    /\ lastVersion' = HighWater
    /\ respGroups' = [n \in {} |-> 0] /\ respMax' = 0 /\ stale' = {} /\ mine' = {}

EndIncremental ==
    /\ sync = "apply" /\ todo = {} /\ ~doFullSync
    /\ EndRound
    /\ UNCHANGED <<siteVars, tableVars, todo, cur, found, boundVars, heard, missed, gone, leftover>>

(* ReconcileSiteGroups reads the site rows the response does not name ...   *)
NothingStale == {}
StaleRows == {i \in FromSource("site") : rows[i].name \notin DOMAIN respGroups}

ReconcileSelect ==
    /\ sync = "apply" /\ todo = {} /\ doFullSync
    /\ DbOk
    /\ sync' = "delete" /\ stale' = StaleRows
    /\ UNCHANGED <<siteVars, tableVars, lastVersion, doFullSync, respGroups, respMax, todo, cur,
                   found, ops, restarts, histVars>>

(* ... and deletes them by id, also one the operator has saved meanwhile.   *)
ReconcileDelete(i) ==
    /\ sync = "delete" /\ i \in stale
    /\ DbOk
    /\ rows' = Without(i)
    /\ stale' = stale \ {i}
    /\ gone' = IF i \in FromSource("local") THEN gone \union {rows[i].name} ELSE gone
    /\ UNCHANGED <<siteVars, nextId, sync, lastVersion, doFullSync, respGroups, respMax, todo, cur,
                   found, ops, restarts, mine, heard, missed, leftover>>

ReconcileEnd ==
    /\ sync = "delete" /\ stale = {}
    /\ EndRound
    /\ UNCHANGED <<siteVars, tableVars, todo, cur, found, boundVars, heard, missed, gone, leftover>>

(* The SELECT or a DELETE fails: logged, and it was the full sync anyway.   *)
ReconcileFails ==
    /\ \/ sync = "apply" /\ todo = {} /\ doFullSync
       \/ sync = "delete" /\ stale # {}
    /\ DbError
    /\ EndRound
    /\ leftover' = TRUE
    /\ UNCHANGED <<siteVars, tableVars, todo, cur, found, ops, restarts, heard, missed, gone>>

Sync ==
    \/ Fetch
    \/ \E n \in Names : UpsertSelect(n)
    \/ UpsertWrite
    \/ EndIncremental
    \/ ReconcileSelect
    \/ \E i \in 1..(nextId - 1) : ReconcileDelete(i)
    \/ ReconcileEnd
    \/ ReconcileFails

-----------------------------------------------------------------------------
(* The operator in the local UI, and restarts.                              *)

Operate == ops < MaxOps /\ ops' = ops + 1

CreateGroup(n) ==
    /\ Operate
    /\ NameFree(n)
    /\ rows' = Inserted([name |-> n, source |-> "local", says |-> Operator, version |-> 1])
    /\ nextId' = nextId + 1
    /\ gone' = gone \ {n}
    /\ UNCHANGED <<siteVars, roundVars, dbErrors, restarts, mine, heard, missed, leftover>>

(* Saving the form of any group, pulled or not, makes it local; it may be   *)
(* renamed.                                                                 *)
UpdateGroup(i, n) ==
    /\ Operate
    /\ i \in DOMAIN rows
    /\ NameFree(n) \/ rows[i].name = n
    /\ rows' = [rows EXCEPT ![i] = [name |-> n, source |-> "local", says |-> Operator,
                                    version |-> Bumped(@.version, @.version)]]
    /\ gone' = (gone \union {rows[i].name}) \ {n}
    /\ UNCHANGED <<siteVars, nextId, roundVars, dbErrors, restarts, mine, heard, missed, leftover>>

DeleteGroup(i) ==
    /\ Operate
    /\ i \in DOMAIN rows
    /\ rows' = Without(i)
    /\ gone' = gone \union {rows[i].name}
    /\ UNCHANGED <<siteVars, nextId, roundVars, dbErrors, restarts, mine, heard, missed, leftover>>

(* The loop's variables start over, with a full sync; the table stays.      *)
Restart ==
    /\ restarts < MaxRestarts /\ restarts' = restarts + 1
    /\ sync' = "idle" /\ lastVersion' = 0 /\ doFullSync' = TRUE
    /\ respGroups' = [n \in {} |-> 0] /\ respMax' = 0 /\ todo' = {}
    /\ cur' = NoName /\ found' = Absent /\ stale' = {}
    /\ mine' = {} /\ heard' = {} /\ missed' = {} /\ leftover' = FALSE
    /\ UNCHANGED <<siteVars, tableVars, ops, dbErrors, gone>>

Next ==
    \/ \E n \in Names : SiteEdit(n) \/ SiteDelete(n) \/ CreateGroup(n)
    \/ Sync
    \/ FetchNotFound
    \/ \E i \in 1..(nextId - 1) : DeleteGroup(i) \/ \E n \in Names : UpdateGroup(i, n)
    \/ Restart

Spec == Init /\ [][Next]_vars

(* The ticker keeps ticking, and the site keeps answering; a 404 is not     *)
(* its answer for ever.                                                     *)
FairSpec == Spec /\ WF_vars(Sync) /\ SF_vars(Fetch)

-----------------------------------------------------------------------------
(* Properties.                                                              *)

RowsKept(S) == \A i \in S : i \in DOMAIN rows' /\ rows'[i] = rows[i]
ByOperator == ops' # ops
RespectsOverrides == ByOperator \/ RowsKept(mine \intersect DOMAIN rows)

(* A group that was the operator's when a sync round began comes out of the *)
(* round as it was: neither overwritten by an upsert nor deleted by the     *)
(* reconciliation, whatever else the operator does meanwhile.               *)
OverrideKept == [][RespectsOverrides]_vars

(* Between rounds the table reflects every edit up to lastVersion, which    *)
(* later rounds will not ask for again: edits made while a round was being  *)
(* applied are not skipped. Exceptions: failed upserts, and rows that the   *)
(* operator removed, or saved while the reconciliation was deleting them.   *)
UpToDate ==
    /\ TypeOK
    /\ sync = "idle" =>
           \A n \in Names \ (missed \union gone) :
               catalog[n] \in 1..lastVersion =>
                   \E i \in Named(n) : rows[i].source = "local" \/ rows[i].says = catalog[n]

(* After the full sync no site row is left that the site did not send since *)
(* the start, unless the reconciliation was cut short.                      *)
NoStaleRows ==
    sync = "idle" /\ ~doFullSync /\ ~leftover =>
        \A i \in FromSource("site") : rows[i].name \in heard

(* An edit on the site shows up in the table, unless the operator has a     *)
(* group of that name or removed it, the site changes it again, or its      *)
(* upsert failed: the agent asks for such an edit only after a restart.     *)
Shown(n, v) ==
    \/ \E i \in Named(n) : rows[i].source = "local" \/ rows[i].says = v
    \/ n \in gone \union missed
EditShowsUp ==
    \A n \in Names, v \in 1..MaxEdits : catalog[n] = v ~> (Shown(n, v) \/ catalog[n] # v)
=============================================================================
