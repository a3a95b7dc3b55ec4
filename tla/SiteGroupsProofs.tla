-------------------------- MODULE SiteGroupsProofs --------------------------
(***************************************************************************)
(* For any catalogue and any interleaving of the sync with the operator:    *)
(*  - the sync never touches an override that was there when its round      *)
(*    began, since what a round is about to write or delete is never one of *)
(*    the rows it found to be local (Aim);                                  *)
(*  - no edit of the site is skipped, since every name not yet written is   *)
(*    still to come, in the answer at hand or in the next one (Mirror);     *)
(*  - a full round leaves no row of a group the site no longer lists        *)
(*    (Heard).                                                              *)
(***************************************************************************)
EXTENDS SiteGroups, TLAPS

(* The table is a function on ids that were handed out.                     *)
Table ==
    /\ nextId \in Nat /\ nextId > 0
    /\ rows = [i \in DOMAIN rows |-> rows[i]]
    /\ DOMAIN rows \subseteq 1..(nextId - 1)

(* The overrides of this round stay local, and the round aims at none.      *)
Aim ==
    /\ mine \subseteq 1..(nextId - 1)
    /\ \A i \in mine : i \in DOMAIN rows => rows[i].source = "local"
    /\ found \notin mine
    /\ \A i \in stale : i \notin mine
    /\ sync # "write" => found = Absent
    /\ sync # "delete" => stale = {}

Inv == ops \in Nat /\ Table /\ Aim

(* Every statement leaves a table whose ids were handed out.                *)
LEMMA TableStep == Inv /\ [Next]_vars => Table' /\ ops' \in Nat
<1> SUFFICES ASSUME Inv, [Next]_vars PROVE Table' /\ ops' \in Nat
  OBVIOUS
<1> USE DEF Inv, Table, Operate
<1>1. ASSUME NEW n \in Names, SiteEdit(n) \/ SiteDelete(n) PROVE Table' /\ ops' \in Nat
  BY <1>1 DEF SiteEdit, SiteDelete, tableVars, boundVars
<1>2. CASE Fetch \/ FetchNotFound
  BY <1>2 DEF Fetch, FetchNotFound, Receive, tableVars, boundVars
<1>3. ASSUME NEW n \in Names, UpsertSelect(n) PROVE Table' /\ ops' \in Nat
  BY <1>3 DEF UpsertSelect, tableVars
<1>4. CASE UpsertWrite
  <2>1. ops' = ops
    BY <1>4 DEF UpsertWrite
  <2>2. \/ \E row : rows' = Inserted(row) /\ nextId' = nextId + 1
        \/ \E f : rows' = [rows EXCEPT ![found] = f] /\ nextId' = nextId
        \/ rows' = rows /\ nextId' = nextId
    BY <1>4 DEF UpsertWrite
  <2> QED
    BY <2>1, <2>2 DEF Inserted
<1>5. CASE EndIncremental \/ ReconcileSelect \/ ReconcileEnd \/ ReconcileFails
  BY <1>5 DEF EndIncremental, ReconcileSelect, ReconcileEnd, ReconcileFails, tableVars, boundVars
<1>6. ASSUME NEW i \in 1..(nextId - 1), ReconcileDelete(i) PROVE Table' /\ ops' \in Nat
  BY <1>6 DEF ReconcileDelete, Without
<1>7. ASSUME NEW n \in Names, CreateGroup(n) PROVE Table' /\ ops' \in Nat
  BY <1>7 DEF CreateGroup, Inserted
<1>8. ASSUME NEW i \in 1..(nextId - 1), NEW n \in Names, UpdateGroup(i, n)
      PROVE  Table' /\ ops' \in Nat
  <2>1. PICK f : rows' = [rows EXCEPT ![i] = f]
    BY <1>8 DEF UpdateGroup
  <2>2. nextId' = nextId /\ ops' = ops + 1
    BY <1>8 DEF UpdateGroup
  <2>3. DOMAIN rows' = DOMAIN rows
    BY <2>1
  <2>4. rows' = [j \in DOMAIN rows' |-> rows'[j]]
    BY <2>1
  <2> QED
    BY <2>2, <2>3, <2>4
<1>9. ASSUME NEW i \in 1..(nextId - 1), DeleteGroup(i) PROVE Table' /\ ops' \in Nat
  BY <1>9 DEF DeleteGroup, Without
<1>10. CASE Restart
  BY <1>10 DEF Restart, tableVars
<1>11. CASE UNCHANGED vars
  BY <1>11 DEF vars, tableVars, boundVars
<1> QED
  BY <1>1, <1>2, <1>3, <1>4, <1>5, <1>6, <1>7, <1>8, <1>9, <1>10, <1>11 DEF Next, Sync

(* No statement makes the round aim at one of the operator's rows.          *)
LEMMA AimStep == Inv /\ [Next]_vars => Aim'
<1> SUFFICES ASSUME Inv, [Next]_vars PROVE Aim'
  OBVIOUS
<1> USE DEF Inv, Table, Aim, Absent
<1>1. ASSUME NEW n \in Names, SiteEdit(n) \/ SiteDelete(n) PROVE Aim'
  BY <1>1 DEF SiteEdit, SiteDelete, tableVars, roundVars, histVars
<1>2. CASE Fetch \/ FetchNotFound
  BY <1>2 DEF Fetch, FetchNotFound, Receive, FromSource, tableVars
<1>3. ASSUME NEW n \in Names, UpsertSelect(n) PROVE Aim'
  BY <1>3 DEF UpsertSelect, Named, SkipLocal, NameFree, tableVars
<1>4. CASE UpsertWrite
  <2>1. sync' = "apply" /\ found' = Absent /\ stale' = {} /\ mine' = mine
    BY <1>4 DEF UpsertWrite
  <2>2. \/ \E row : rows' = Inserted(row) /\ nextId' = nextId + 1
        \/ \E f : rows' = [rows EXCEPT ![found] = f] /\ nextId' = nextId
        \/ rows' = rows /\ nextId' = nextId
    BY <1>4 DEF UpsertWrite
  <2> QED
    BY <2>1, <2>2 DEF Inserted
<1>5. CASE EndIncremental \/ ReconcileSelect \/ ReconcileEnd \/ ReconcileFails
  BY <1>5 DEF EndIncremental, ReconcileSelect, ReconcileEnd, ReconcileFails, EndRound, StaleRows,
              FromSource, tableVars, histVars
<1>6. ASSUME NEW i \in 1..(nextId - 1), ReconcileDelete(i) PROVE Aim'
  BY <1>6 DEF ReconcileDelete, Without
<1>7. ASSUME NEW n \in Names, CreateGroup(n) PROVE Aim'
  BY <1>7 DEF CreateGroup, Inserted, roundVars
<1>8. ASSUME NEW i \in 1..(nextId - 1), NEW n \in Names, UpdateGroup(i, n) PROVE Aim'
  BY <1>8 DEF UpdateGroup, roundVars
<1>9. ASSUME NEW i \in 1..(nextId - 1), DeleteGroup(i) PROVE Aim'
  BY <1>9 DEF DeleteGroup, Without, roundVars
<1>10. CASE Restart
  BY <1>10 DEF Restart, tableVars
<1>11. CASE UNCHANGED vars
  BY <1>11 DEF vars, tableVars, roundVars, histVars
<1> QED
  BY <1>1, <1>2, <1>3, <1>4, <1>5, <1>6, <1>7, <1>8, <1>9, <1>10, <1>11 DEF Next, Sync

(* The round never aims at an override, in any reachable state.             *)
LEMMA InvInductive == Spec => []Inv
<1>1. Init => Inv
  BY DEF Init, Inv, Table, Aim, Absent
<1>2. Inv /\ [Next]_vars => Inv'
  BY TableStep, AimStep DEF Inv
<1> QED
  BY <1>1, <1>2, PTL DEF Spec

(* What a step that is not the operator's leaves alone.                     *)
LEMMA OverridesStep == Inv /\ [Next]_vars => [RespectsOverrides]_vars
<1> SUFFICES ASSUME Inv, [Next]_vars PROVE RespectsOverrides
  OBVIOUS
<1> USE DEF Inv, Table, Aim, RespectsOverrides, RowsKept
<1>1. CASE rows' = rows
  BY <1>1
<1>2. CASE UpsertWrite
  <2>1. \/ \E row : rows' = Inserted(row)
        \/ \E f : rows' = [rows EXCEPT ![found] = f]
        \/ rows' = rows
    BY <1>2 DEF UpsertWrite
  <2> QED
    BY <2>1 DEF Inserted
<1>3. ASSUME NEW i \in 1..(nextId - 1), ReconcileDelete(i) PROVE RespectsOverrides
  BY <1>3 DEF ReconcileDelete, Without
<1>4. CASE Operate
  BY <1>4 DEF Operate, ByOperator
<1> QED
  BY <1>1, <1>2, <1>3, <1>4 DEF Next, Sync, SiteEdit, SiteDelete, Fetch, FetchNotFound, Receive,
     UpsertSelect, EndIncremental, ReconcileSelect, ReconcileEnd, ReconcileFails, CreateGroup,
     UpdateGroup, DeleteGroup, Restart, tableVars, vars

(* A sync round leaves the overrides it found as they were: UpsertSiteGroup *)
(* and ReconcileSiteGroups only ever aim at rows that were the site's.      *)
THEOREM OverridesSafe == Spec => OverrideKept
BY InvInductive, OverridesStep, PTL DEF Spec, OverrideKept

-----------------------------------------------------------------------------
(* Types. The rows apart from the loop's variables, and the two Booleans    *)
(* apart from both.                                                         *)

RowsTyped ==
    /\ \A i \in DOMAIN rows : rows[i] \in Row
    /\ \A i, j \in DOMAIN rows : rows[i].name = rows[j].name => i = j

LoopTyped ==
    /\ catalog \in [Names -> 0..MaxEdits] /\ siteMax \in 0..MaxEdits
    /\ sync \in {"idle", "apply", "write", "delete"}
    /\ lastVersion \in 0..MaxEdits /\ respMax \in 0..MaxEdits
    /\ DOMAIN respGroups \subseteq Names
    /\ \A n \in DOMAIN respGroups : respGroups[n] \in 0..MaxEdits
    /\ todo \subseteq DOMAIN respGroups
    /\ sync \in {"idle", "delete"} => todo = {}
    /\ sync = "write" => cur \in DOMAIN respGroups
    /\ cur \in Names \union {NoName} /\ found \in 0..(nextId - 1)
    /\ stale \subseteq 1..(nextId - 1) /\ mine \subseteq 1..(nextId - 1)
    /\ heard \subseteq Names /\ missed \subseteq Names /\ gone \subseteq Names
    /\ ops \in 0..MaxOps /\ dbErrors \in 0..MaxDbErrors /\ restarts \in 0..MaxRestarts

LEMMA RowsTypedStep == Inv /\ LoopTyped /\ RowsTyped /\ [Next]_vars => RowsTyped'
<1> SUFFICES ASSUME Inv, LoopTyped, RowsTyped, [Next]_vars PROVE RowsTyped'
  OBVIOUS
<1> USE DEF Inv, Table, RowsTyped
<1>1. ASSUME NEW row \in Row, Named(row.name) = {}, rows' = Inserted(row) PROVE RowsTyped'
  BY <1>1 DEF Inserted, Named
<1>2. ASSUME NEW i, rows' = Without(i) PROVE RowsTyped'
  BY <1>2 DEF Without
<1>3. CASE UpsertWrite
  BY <1>1, <1>3 DEF UpsertWrite, LoopTyped, NameFree, Row, Bumped
<1>4. ASSUME NEW n \in Names, CreateGroup(n) PROVE RowsTyped'
  <2>1. [name |-> n, source |-> "local", says |-> Operator, version |-> 1] \in Row
    BY GroupsAssumption DEF GroupsAssumption, Row, Operator
  <2> QED
    BY <1>1, <1>4, <2>1 DEF CreateGroup, NameFree
<1>5. ASSUME NEW i \in 1..(nextId - 1), NEW n \in Names, UpdateGroup(i, n) PROVE RowsTyped'
  BY <1>5, GroupsAssumption DEF GroupsAssumption, UpdateGroup, Row, Operator, Bumped, Named, NameFree
<1>6. CASE rows' = rows
  BY <1>6
<1> QED
  BY <1>2, <1>3, <1>4, <1>5, <1>6 DEF Next, Sync, SiteEdit, SiteDelete, Fetch, FetchNotFound, Receive,
     UpsertSelect, EndIncremental, ReconcileSelect, ReconcileDelete, ReconcileEnd, ReconcileFails,
     DeleteGroup, Restart, tableVars, vars

LEMMA LoopTypedStep == Inv /\ LoopTyped /\ RowsTyped /\ [Next]_vars => LoopTyped'
<1> SUFFICES ASSUME Inv, LoopTyped, RowsTyped, [Next]_vars PROVE LoopTyped'
  OBVIOUS
<1> USE GroupsAssumption DEF GroupsAssumption, Inv, Table, LoopTyped, Absent, Operate, DbOk, DbError,
        siteVars, tableVars, roundVars, boundVars, histVars
<1>1. ASSUME NEW n \in Names, SiteEdit(n) \/ SiteDelete(n) PROVE LoopTyped'
  BY <1>1 DEF SiteEdit, SiteDelete
<1>2. CASE Fetch \/ FetchNotFound
  <2>1. /\ DOMAIN respGroups' \subseteq Names /\ respMax' \in 0..MaxEdits
        /\ \A n \in DOMAIN respGroups' : respGroups'[n] \in 0..MaxEdits
    BY <1>2 DEF Fetch, FetchNotFound, Receive
  <2>2. todo' = DOMAIN respGroups' /\ heard' = heard \union DOMAIN respGroups' /\ sync' = "apply"
    BY <1>2 DEF Fetch, FetchNotFound, Receive
  <2>3. mine' \subseteq 1..(nextId - 1)
    BY <1>2 DEF Fetch, FetchNotFound, Receive, FromSource
  <2> QED
    BY <1>2, <2>1, <2>2, <2>3 DEF Fetch, FetchNotFound, Receive
<1>3. ASSUME NEW n \in Names, UpsertSelect(n) PROVE LoopTyped'
  <2>1. sync' \in {"apply", "write"} /\ (sync' = "write" => cur' \in DOMAIN respGroups)
    BY <1>3 DEF UpsertSelect
  <2>2. found' \in 0..(nextId - 1) /\ cur' \in Names \union {NoName} /\ missed' \subseteq Names
    BY <1>3 DEF UpsertSelect, Named, NameFree
  <2> QED
    BY <1>3, <2>1, <2>2 DEF UpsertSelect
<1>4. CASE UpsertWrite
  BY <1>4 DEF UpsertWrite
<1>5. CASE EndIncremental \/ ReconcileEnd \/ ReconcileFails
  <2>1. todo = {} /\ todo' = {}
    BY <1>5 DEF EndIncremental, ReconcileEnd, ReconcileFails
  <2>2. lastVersion' \in 0..MaxEdits /\ respMax' \in 0..MaxEdits /\ DOMAIN respGroups' = {}
    BY <1>5 DEF EndIncremental, ReconcileEnd, ReconcileFails, EndRound, HighWater
  <2>3. /\ UNCHANGED <<siteVars, tableVars, cur, found, ops, restarts, heard, missed, gone>>
        /\ sync' = "idle" /\ stale' = {} /\ mine' = {}
    BY <1>5 DEF EndIncremental, ReconcileEnd, ReconcileFails, EndRound
  <2>4. dbErrors' \in 0..MaxDbErrors
    BY <1>5 DEF EndIncremental, ReconcileEnd, ReconcileFails
  <2> QED
    BY <2>1, <2>2, <2>3, <2>4
<1>6. CASE ReconcileSelect
  BY <1>6 DEF ReconcileSelect, StaleRows, FromSource
<1>7. ASSUME NEW i \in 1..(nextId - 1), ReconcileDelete(i) PROVE LoopTyped'
  BY <1>7 DEF ReconcileDelete, FromSource, RowsTyped, Row
<1>8. ASSUME NEW n \in Names, CreateGroup(n) PROVE LoopTyped'
  BY <1>8 DEF CreateGroup
<1>9. ASSUME NEW i \in 1..(nextId - 1), NEW n \in Names, UpdateGroup(i, n) PROVE LoopTyped'
  BY <1>9 DEF UpdateGroup, RowsTyped, Row
<1>10. ASSUME NEW i \in 1..(nextId - 1), DeleteGroup(i) PROVE LoopTyped'
  BY <1>10 DEF DeleteGroup, RowsTyped, Row
<1>11. CASE Restart
  BY <1>11, SMTT(30) DEF Restart
<1>12. CASE UNCHANGED vars
  BY <1>12 DEF vars
<1> QED
  BY <1>1, <1>2, <1>3, <1>4, <1>5, <1>6, <1>7, <1>8, <1>9, <1>10, <1>11, <1>12 DEF Next, Sync
(* Both Booleans stay Boolean.                                              *)
LEMMA FlagsStep ==
    doFullSync \in BOOLEAN /\ leftover \in BOOLEAN /\ [Next]_vars
        => (doFullSync \in BOOLEAN)' /\ (leftover \in BOOLEAN)'
<1>1. [Next]_vars => doFullSync' = doFullSync \/ doFullSync' = TRUE \/ doFullSync' = FALSE
  BY DEF Next, Sync, SiteEdit, SiteDelete, Fetch, FetchNotFound, Receive, UpsertSelect, UpsertWrite,
     EndIncremental, EndRound, ReconcileSelect, ReconcileDelete, ReconcileEnd, ReconcileFails,
     CreateGroup, UpdateGroup, DeleteGroup, Restart, roundVars, vars
<1>2. [Next]_vars => leftover' = leftover \/ leftover' = TRUE \/ leftover' = FALSE
  BY DEF Next, Sync, SiteEdit, SiteDelete, Fetch, FetchNotFound, Receive, UpsertSelect, UpsertWrite,
     EndIncremental, ReconcileSelect, ReconcileDelete, ReconcileEnd, ReconcileFails,
     CreateGroup, UpdateGroup, DeleteGroup, Restart, histVars, vars
<1> QED
  BY <1>1, <1>2, Zenon

Typed == RowsTyped /\ LoopTyped /\ doFullSync \in BOOLEAN /\ leftover \in BOOLEAN

LEMMA TypedInductive == Spec => [](Inv /\ Typed)
<1>1. Init => RowsTyped /\ LoopTyped
  BY GroupsAssumption DEF GroupsAssumption, Init, RowsTyped, LoopTyped, Absent
<1>2. Init => doFullSync \in BOOLEAN /\ leftover \in BOOLEAN
  BY DEF Init
<1>3. Init => Typed
  BY <1>1, <1>2 DEF Typed
<1>4. Inv /\ Typed /\ [Next]_vars => Typed'
  BY RowsTypedStep, LoopTypedStep, FlagsStep, Zenon DEF Typed
<1> QED
  BY <1>3, <1>4, InvInductive, PTL DEF Spec

-----------------------------------------------------------------------------
(* The table keeps up with the catalogue. While a round is applied, every   *)
(* edit that the next round will not ask for again is still to be upserted, *)
(* or being upserted, or in the table; an edit made meanwhile has a higher  *)
(* version than the one the round ends with.                                *)

(* n is in the table, as the operator's or as the site had it at v.         *)
Mirrored(n, v) == \E i \in Named(n) : rows[i].source = "local" \/ rows[i].says = v

Settled(n) == catalog[n] \in 1..HighWater

KeepsUp ==
    /\ lastVersion <= siteMax /\ respMax <= siteMax
    /\ \A n \in Names : catalog[n] <= siteMax
    /\ doFullSync => lastVersion = 0
    /\ sync = "idle" => respMax = 0
    /\ \A n \in Names \ (missed \union gone) :
          Settled(n) => n \in todo \/ (sync = "write" /\ cur = n) \/ Mirrored(n, catalog[n])

(* The answer in hand is what the catalogue still says, up to HighWater.    *)
AnswerHolds ==
    /\ \A n \in DOMAIN respGroups : Settled(n) => respGroups[n] = catalog[n]
    /\ sync # "idle" /\ doFullSync => \A n \in Names : Settled(n) => n \in DOMAIN respGroups

(* What the operator may have done to the row that is about to be updated   *)
(* and to those about to be deleted.                                        *)
Targets ==
    /\ sync = "write" /\ found # Absent =>
          \/ found \in Named(cur) \/ cur \in gone
          \/ \E i \in Named(cur) : rows[i].source = "local"
    /\ sync = "write" /\ found \in DOMAIN rows =>
          rows[found].source = "local" \/ rows[found].name = cur
    /\ sync = "delete" => doFullSync
    /\ \A i \in stale \intersect DOMAIN rows :
          rows[i].source = "local" \/ rows[i].name \notin DOMAIN respGroups

Mirror == KeepsUp /\ AnswerHolds /\ Targets


LEMMA TargetsStep == Inv /\ Typed /\ Targets /\ [Next]_vars => Targets'
<1> SUFFICES ASSUME Inv, Typed, Targets, [Next]_vars PROVE Targets'
  OBVIOUS
<1> USE DEF Inv, Table, Typed, RowsTyped, LoopTyped, Targets, Named, Absent,
        tableVars, roundVars, histVars
<1>1. ASSUME NEW n \in Names, SiteEdit(n) \/ SiteDelete(n) PROVE Targets'
  BY <1>1 DEF SiteEdit, SiteDelete
<1>2. CASE Fetch \/ FetchNotFound
  BY <1>2 DEF Fetch, FetchNotFound, Receive, Aim
<1>3. ASSUME NEW n \in Names, UpsertSelect(n) PROVE Targets'
  BY <1>3 DEF UpsertSelect, NameFree, Aim
<1>4. CASE UpsertWrite
  BY <1>4 DEF UpsertWrite, Aim
<1>5. CASE EndIncremental \/ ReconcileEnd \/ ReconcileFails \/ Restart
  BY <1>5 DEF EndIncremental, ReconcileEnd, ReconcileFails, EndRound, Restart
<1>6. CASE ReconcileSelect
  BY <1>6 DEF ReconcileSelect, StaleRows, FromSource
<1>7. ASSUME NEW i \in 1..(nextId - 1), ReconcileDelete(i) PROVE Targets'
  BY <1>7 DEF ReconcileDelete, Without
<1>8. ASSUME NEW n \in Names, CreateGroup(n) PROVE Targets'
  BY <1>8 DEF CreateGroup, Inserted
<1>9. ASSUME NEW i \in 1..(nextId - 1), NEW n \in Names, UpdateGroup(i, n) PROVE Targets'
  BY <1>9 DEF UpdateGroup
<1>10. ASSUME NEW i \in 1..(nextId - 1), DeleteGroup(i) PROVE Targets'
  BY <1>10 DEF DeleteGroup, Without
<1>11. CASE UNCHANGED vars
  BY <1>11 DEF vars
<1> QED
  BY <1>1, <1>2, <1>3, <1>4, <1>5, <1>6, <1>7, <1>8, <1>9, <1>10, <1>11 DEF Next, Sync

LEMMA AnswerStep == Typed /\ KeepsUp /\ AnswerHolds /\ [Next]_vars => AnswerHolds'
<1> SUFFICES ASSUME Typed, KeepsUp, AnswerHolds, [Next]_vars PROVE AnswerHolds'
  OBVIOUS
<1> USE DEF Typed, LoopTyped, KeepsUp, AnswerHolds, Settled, HighWater, siteVars, roundVars
<1>1. ASSUME NEW n \in Names, SiteEdit(n) PROVE AnswerHolds'
  BY <1>1 DEF SiteEdit
<1>2. ASSUME NEW n \in Names, SiteDelete(n) PROVE AnswerHolds'
  BY <1>2 DEF SiteDelete, Absent
<1>3. CASE Fetch
  BY <1>3 DEF Fetch, Receive, Since
<1>4. CASE FetchNotFound
  BY <1>4 DEF FetchNotFound, Receive
<1>5. CASE EndIncremental \/ ReconcileEnd \/ ReconcileFails
  BY <1>5 DEF EndIncremental, ReconcileEnd, ReconcileFails, EndRound
<1>6. CASE Restart
  BY <1>6 DEF Restart
<1>7. CASE /\ UNCHANGED <<catalog, lastVersion, respMax, respGroups, doFullSync>>
           /\ sync = "idle" => sync' = "idle"
  BY <1>7
<1> QED
  BY <1>1, <1>2, <1>3, <1>4, <1>5, <1>6, <1>7 DEF Next, Sync, UpsertSelect, UpsertWrite,
     ReconcileSelect, ReconcileDelete, CreateGroup, UpdateGroup, DeleteGroup, vars

(* The versions of the site only grow, so that an edit made during a round  *)
(* is never within what the round ends with.                                *)
LEMMA VersionsStep ==
    Typed /\ KeepsUp /\ [Next]_vars =>
        /\ lastVersion' <= siteMax' /\ respMax' <= siteMax'
        /\ \A n \in Names : catalog'[n] <= siteMax'
        /\ doFullSync' => lastVersion' = 0
        /\ sync' = "idle" => respMax' = 0
<1> SUFFICES ASSUME Typed, KeepsUp, [Next]_vars
             PROVE  /\ lastVersion' <= siteMax' /\ respMax' <= siteMax'
                    /\ \A n \in Names : catalog'[n] <= siteMax'
                    /\ doFullSync' => lastVersion' = 0
                    /\ sync' = "idle" => respMax' = 0
  OBVIOUS
<1> USE DEF Typed, LoopTyped, KeepsUp, HighWater, siteVars, roundVars
<1>1. ASSUME NEW n \in Names, SiteEdit(n) \/ SiteDelete(n) 
      PROVE  siteMax <= siteMax' /\ \A m \in Names : catalog'[m] <= siteMax'
  BY <1>1 DEF SiteEdit, SiteDelete, Absent
<1>2. CASE Fetch \/ FetchNotFound
  BY <1>2 DEF Fetch, FetchNotFound, Receive
<1>3. CASE EndIncremental \/ ReconcileEnd \/ ReconcileFails
  BY <1>3 DEF EndIncremental, ReconcileEnd, ReconcileFails, EndRound
<1>4. CASE Restart
  BY <1>4 DEF Restart
<1>5. CASE /\ UNCHANGED <<catalog, siteMax, lastVersion, respMax, doFullSync>>
           /\ sync = "idle" <=> sync' = "idle"
  BY <1>5
<1>6. CASE \E n \in Names : SiteEdit(n) \/ SiteDelete(n)
  BY <1>1, <1>6 DEF SiteEdit, SiteDelete
<1> QED
  BY <1>2, <1>3, <1>4, <1>5, <1>6 DEF Next, Sync, UpsertSelect, UpsertWrite,
     ReconcileSelect, ReconcileDelete, CreateGroup, UpdateGroup, DeleteGroup, vars

LEMMA KeepsUpStep == Inv /\ Typed /\ Mirror /\ [Next]_vars => KeepsUp'
<1> SUFFICES ASSUME Inv, Typed, Mirror, [Next]_vars PROVE KeepsUp'
  OBVIOUS
<1> DEFINE Covered(n) == n \in todo \/ (sync = "write" /\ cur = n) \/ Mirrored(n, catalog[n])
<1> SUFFICES ASSUME NEW n \in Names, n \notin missed' \union gone', Settled(n)' PROVE Covered(n)'
  BY VersionsStep DEF Mirror, KeepsUp
<1> USE DEF Inv, Table, Typed, LoopTyped, Mirror, KeepsUp, Settled, Mirrored, Named,
        siteVars, tableVars, roundVars, histVars
(* Steps that touch neither the rows nor the round.                         *)
<1>1. ASSUME UNCHANGED <<rows, todo, sync, cur, missed, gone>>, catalog'[n] = catalog[n], Settled(n)
      PROVE  Covered(n)'
  BY <1>1
<1>2. ASSUME NEW m \in Names, SiteEdit(m) \/ SiteDelete(m) PROVE Covered(n)'
  BY <1>1, <1>2 DEF SiteEdit, SiteDelete, HighWater, Absent
<1>3. CASE Fetch
  BY <1>3 DEF Fetch, Receive, Since, HighWater
<1>4. CASE FetchNotFound
  BY <1>4 DEF FetchNotFound, Receive, HighWater
<1>5. ASSUME NEW m \in Names, UpsertSelect(m) PROVE Covered(n)'
  <2>1. Settled(n) /\ catalog'[n] = catalog[n] /\ rows' = rows
    BY <1>5 DEF UpsertSelect, HighWater
  <2>2. CASE n = m
    BY <1>5, <2>1, <2>2 DEF UpsertSelect, SkipLocal
  <2>3. CASE n # m
    BY <1>5, <2>1, <2>3 DEF UpsertSelect
  <2> QED
    BY <2>2, <2>3
<1>6. CASE UpsertWrite
  <2>1. Settled(n) /\ catalog'[n] = catalog[n] /\ todo' = todo
    BY <1>6 DEF UpsertWrite, HighWater
  <2>2. CASE n = cur
    <3>1. respGroups[n] = catalog[n]
      BY <1>6, <2>1, <2>2 DEF UpsertWrite, AnswerHolds
    <3>2. CASE found = Absent
      BY <1>6, <2>2, <3>1, <3>2 DEF UpsertWrite, Inserted, Absent
    <3>3. CASE found # Absent
      <4>1. cur \notin gone
        BY <1>6, <2>2, <3>3 DEF UpsertWrite
      <4>2. PICK i \in Named(cur) : i = found \/ rows[i].source = "local"
        BY <1>6, <3>3, <4>1 DEF UpsertWrite, Targets
      <4>3. \/ rows' = rows /\ found \notin DOMAIN rows
            \/ rows' = [rows EXCEPT ![found].says = respGroups[cur],
                                    ![found].version = Bumped(@, respGroups[cur])]
        BY <1>6, <2>2, <3>3 DEF UpsertWrite
      <4>4. i \in DOMAIN rows' /\ rows'[i].name = cur
        BY <4>2, <4>3, <1>6 DEF RowsTyped, Row
      <4>5. rows'[i].source = "local" \/ rows'[i].says = respGroups[cur]
        BY <4>2, <4>3, <1>6 DEF RowsTyped, Row
      <4> QED
        BY <2>1, <2>2, <3>1, <4>4, <4>5
    <3> QED
      BY <3>2, <3>3
  <2>3. CASE n # cur
    <3>1. CASE n \in todo
      BY <2>1, <3>1
    <3>2. CASE n \notin todo
      <4>1. PICK i \in Named(n) : rows[i].source = "local" \/ rows[i].says = catalog[n]
        BY <1>6, <2>1, <2>3, <3>2 DEF UpsertWrite
      <4>2. i \in DOMAIN rows' /\ rows'[i].name = n /\ rows'[i].source = rows[i].source
        BY <1>6, <4>1 DEF UpsertWrite, Inserted, RowsTyped, Row
      <4>3. i = found => rows[i].source = "local"
        BY <1>6, <2>3, <4>1 DEF Targets, UpsertWrite
      <4>4. i # found => rows'[i].says = rows[i].says
        BY <1>6, <4>1 DEF UpsertWrite, Inserted
      <4> QED
        BY <2>1, <4>1, <4>2, <4>3, <4>4
    <3> QED
      BY <3>1, <3>2
  <2> QED
    BY <2>2, <2>3
<1>7. CASE EndIncremental \/ ReconcileEnd \/ ReconcileFails
  <2>1. Settled(n) /\ n \notin missed \union gone
    BY <1>7 DEF EndIncremental, ReconcileEnd, ReconcileFails, EndRound, HighWater
  <2> QED
    BY <1>7, <2>1 DEF EndIncremental, ReconcileEnd, ReconcileFails, EndRound
<1>8. CASE ReconcileSelect
  BY <1>8 DEF ReconcileSelect, HighWater
<1>9. ASSUME NEW i \in 1..(nextId - 1), ReconcileDelete(i) PROVE Covered(n)'
  <2>1. Settled(n) /\ catalog'[n] = catalog[n] /\ n \notin missed \union gone
    BY <1>9 DEF ReconcileDelete, HighWater
  <2>2. PICK k \in Named(n) : rows[k].source = "local" \/ rows[k].says = catalog[n]
    BY <1>9, <2>1 DEF ReconcileDelete
  <2>3. n \in DOMAIN respGroups
    BY <1>9, <2>1 DEF ReconcileDelete, AnswerHolds, Targets
  <2>4. k # i
    BY <1>9, <2>2, <2>3 DEF ReconcileDelete, Targets, FromSource
  <2> QED
    BY <1>9, <2>1, <2>2, <2>4 DEF ReconcileDelete, Without
<1>10. ASSUME NEW m \in Names, CreateGroup(m) PROVE Covered(n)'
  <2>1. Settled(n) /\ catalog'[n] = catalog[n]
    BY <1>10 DEF CreateGroup, HighWater
  <2> QED
    BY <1>10, <2>1 DEF CreateGroup, Inserted
<1>11. ASSUME NEW i \in 1..(nextId - 1), NEW m \in Names, UpdateGroup(i, m) PROVE Covered(n)'
  <2>1. Settled(n) /\ catalog'[n] = catalog[n]
    BY <1>11 DEF UpdateGroup, HighWater
  <2> QED
    BY <1>11, <2>1 DEF UpdateGroup
<1>12. ASSUME NEW i \in 1..(nextId - 1), DeleteGroup(i) PROVE Covered(n)'
  <2>1. Settled(n) /\ catalog'[n] = catalog[n]
    BY <1>12 DEF DeleteGroup, HighWater
  <2> QED
    <3>1. CASE \E k \in Named(n) : rows[k].source = "local" \/ rows[k].says = catalog[n]
      <4>1. PICK k \in Named(n) : rows[k].source = "local" \/ rows[k].says = catalog[n]
        BY <3>1
      <4>2. k # i
        BY <1>12, <4>1 DEF DeleteGroup
      <4> QED
        BY <1>12, <2>1, <4>1, <4>2 DEF DeleteGroup, Without
    <3>2. CASE n \in todo \/ (sync = "write" /\ cur = n)
      BY <1>12, <3>2 DEF DeleteGroup
    <3> QED
      BY <1>12, <2>1, <3>1, <3>2 DEF DeleteGroup
<1>13. CASE Restart
  BY <1>13 DEF Restart, HighWater
<1>14. CASE UNCHANGED vars
  BY <1>1, <1>14 DEF vars, HighWater
<1> QED
  BY <1>2, <1>3, <1>4, <1>5, <1>6, <1>7, <1>8, <1>9, <1>10, <1>11, <1>12, <1>13, <1>14 DEF Next, Sync

(* Between rounds nothing the agent will not ask for again is missing from  *)
(* the table, whatever the site's administrator and the operator do while a *)
(* round is applied.                                                        *)
THEOREM TableKeepsUp == Spec => []UpToDate
<1>1. Init => Mirror
  BY DEF Init, Mirror, KeepsUp, AnswerHolds, Targets, Settled, HighWater, Absent
<1>2. Inv /\ Typed /\ Mirror /\ [Next]_vars => Mirror'
  BY KeepsUpStep, AnswerStep, TargetsStep DEF Mirror
<1>3. Inv /\ Typed /\ Mirror => UpToDate
  <2> SUFFICES ASSUME Inv, Typed, Mirror PROVE UpToDate
    OBVIOUS
  <2>1. TypeOK
    BY DEF Inv, Table, Typed, RowsTyped, LoopTyped, TypeOK
  <2>2. ASSUME sync = "idle", NEW n \in Names \ (missed \union gone), catalog[n] \in 1..lastVersion
        PROVE  Mirrored(n, catalog[n])
    BY <2>2 DEF Typed, LoopTyped, Mirror, KeepsUp, Settled, HighWater
  <2> QED
    BY <2>1, <2>2 DEF UpToDate, Mirrored
<1> QED
  BY <1>1, <1>2, <1>3, TypedInductive, PTL DEF Spec

-----------------------------------------------------------------------------
(* Rows the site no longer has. Once the full sync is over every row of the *)
(* site is one it has named since the start; while the reconciliation is at *)
(* work, the others are those it has still to delete.                       *)

Heard ==
    /\ DOMAIN respGroups \subseteq heard
    /\ ~doFullSync /\ ~leftover => \A i \in FromSource("site") : rows[i].name \in heard
    /\ sync = "delete" => \A i \in FromSource("site") : rows[i].name \in heard \/ i \in stale

LEMMA HeardStep == Inv /\ Typed /\ Heard /\ [Next]_vars => Heard'
<1> SUFFICES ASSUME Inv, Typed, Heard, [Next]_vars PROVE Heard'
  OBVIOUS
<1> USE DEF Inv, Table, Typed, RowsTyped, LoopTyped, Heard, FromSource,
        tableVars, roundVars, histVars
<1>1. ASSUME NEW n \in Names, SiteEdit(n) \/ SiteDelete(n) PROVE Heard'
  BY <1>1 DEF SiteEdit, SiteDelete
<1>2. CASE Fetch \/ FetchNotFound
  BY <1>2 DEF Fetch, FetchNotFound, Receive
<1>3. ASSUME NEW n \in Names, UpsertSelect(n) PROVE Heard'
  BY <1>3 DEF UpsertSelect
<1>4. CASE UpsertWrite
  <2>1. /\ sync' = "apply" /\ cur \in heard
        /\ UNCHANGED <<heard, respGroups, doFullSync, leftover>>
    BY <1>4 DEF UpsertWrite
  <2>2. \A i \in DOMAIN rows' :
           \/ i \in DOMAIN rows /\ rows'[i].name = rows[i].name /\ rows'[i].source = rows[i].source
           \/ rows'[i].name = cur
    BY <1>4 DEF UpsertWrite, Inserted, Row
  <2> QED
    BY <2>1, <2>2
<1>5. CASE EndIncremental
  BY <1>5 DEF EndIncremental, EndRound
<1>6. CASE ReconcileSelect
  BY <1>6 DEF ReconcileSelect, StaleRows
<1>7. ASSUME NEW i \in 1..(nextId - 1), ReconcileDelete(i) PROVE Heard'
  BY <1>7 DEF ReconcileDelete, Without
<1>8. CASE ReconcileEnd
  BY <1>8 DEF ReconcileEnd, EndRound
<1>9. CASE ReconcileFails
  BY <1>9 DEF ReconcileFails, EndRound
<1>10. ASSUME NEW n \in Names, CreateGroup(n) PROVE Heard'
  BY <1>10 DEF CreateGroup, Inserted
<1>11. ASSUME NEW i \in 1..(nextId - 1), NEW n \in Names, UpdateGroup(i, n) PROVE Heard'
  BY <1>11 DEF UpdateGroup
<1>12. ASSUME NEW i \in 1..(nextId - 1), DeleteGroup(i) PROVE Heard'
  BY <1>12 DEF DeleteGroup, Without
<1>13. CASE Restart
  BY <1>13 DEF Restart
<1>14. CASE UNCHANGED vars
  BY <1>14 DEF vars
<1> QED
  BY <1>1, <1>2, <1>3, <1>4, <1>5, <1>6, <1>7, <1>8, <1>9, <1>10, <1>11, <1>12, <1>13, <1>14
     DEF Next, Sync

(* Groups the site has deleted do not outlive the full sync.                *)
THEOREM StaleRowsGone == Spec => []NoStaleRows
<1>1. Init => Heard
  BY DEF Init, Heard
<1>2. Heard => NoStaleRows
  BY DEF Heard, NoStaleRows
<1> QED
  BY <1>1, <1>2, HeardStep, TypedInductive, PTL DEF Spec
=============================================================================
