------------------------- MODULE OfflineJobsProofs -------------------------
(***************************************************************************)
(* Proofs about OfflineJobs, for any entries, groups and bounds: a row in   *)
(* 'processing' is in the processor's hands, ClaimNextJob returns the row   *)
(* it claimed, and a completed job's NZB is its own.                        *)
(***************************************************************************)
EXTENDS OfflineJobs, WellFoundedInduction, TLAPS

Statuses == {"none", "queued", "processing", "completed", "failed"}
Working == proc \in {"lookup", "work", "mark"}

(* Types of the table, of what refers to groups, and of the bounds.         *)
TableTyped ==
    /\ status \in [Ids -> Statuses]
    /\ path \in [Ids -> Paths \union {NoPath}]
    /\ started \in [Ids -> Nat]
    /\ nextId \in 1..(MaxJobs + 1)
    /\ page \subseteq Ids /\ orphans \subseteq Ids

GroupsTyped ==
    /\ groups \subseteq Groups
    /\ group \in [Ids -> groups \union {NoGroup}]
    /\ watch \in groups \union {NoGroup}
    /\ scan \in Groups \union {NoGroup}

BoundsTyped ==
    retries \in 0..MaxRetries /\ dbErrors \in 0..MaxDbErrors /\ crashes \in 0..MaxCrashes

(* IDs are handed out in order, and a live row has a path of its own.       *)
Rows ==
    \A i \in Ids :
        /\ status[i] # "none" => i < nextId /\ path[i] \in Paths
        /\ status[i] = "none" => path[i] = NoPath
        /\ \A j \in Ids : path[i] = path[j] /\ path[i] # NoPath => i = j

(* What the processor holds in each of its states.                          *)
Hands ==
    /\ proc \in {"idle", "select", "lookup", "work", "mark"}
    /\ ~up => proc = "idle"
    /\ claimed \in Ids \union {NoJob}
    /\ proc # "idle" => claimed \in Ids
    /\ job \in [id : Ids \union {NoJob}, path : Paths \union {NoPath},
                group : Groups \union {NoGroup}]
    /\ ~Working => job.id = NoJob
    /\ Working => job.id \in Ids /\ job.path \in Paths /\ job.id < nextId
    /\ proc = "work" => job.group \in Groups
    /\ proc # "mark" => result = NoNzb

(* Start times are distinct, and the claimed row's is the latest until the  *)
(* SELECT has looked.                                                       *)
Stamps ==
    /\ \E n \in Nat : \A i \in Ids : started[i] <= n
    /\ \A i, j \in Ids : started[i] = started[j] /\ started[i] # Null => i = j
    /\ \A i \in Ids : status[i] = "processing" => started[i] # Null
    /\ proc = "select" /\ status[claimed] = "processing"
         => \A i \in Ids : started[i] <= started[claimed]

(* A claimed row that is still in processing is the one worked on.          *)
Grip == Working /\ status[claimed] = "processing" => job.id = claimed

Owned ==
    up => \A i \in Ids : status[i] = "processing" =>
              i \in orphans \/ (proc # "idle" /\ i \in {claimed, job.id})

Claims == TableTyped /\ GroupsTyped /\ BoundsTyped /\ Rows /\ Hands /\ Stamps /\ Grip /\ Owned

(* The NZB of a completed job lies under its own title, and no completed    *)
(* row shares the entry the processor works on.                             *)
NzbTyped ==
    /\ nzb \in [Ids -> Release \union {NoNzb}]
    /\ result \in Release \union {NoNzb}
    /\ output \in [Release -> Ids \union {NoJob}]

Named ==
    \A i \in Ids : status[i] = "completed" =>
        nzb[i] \in Release /\ nzb[i] # NoNzb /\ nzb[i][2] = TitleOf[path[i]] /\ output[nzb[i]] = i

InHand ==
    /\ Working => /\ \A i \in Ids : status[i] = "completed" /\ i # job.id => path[i] # job.path
                  /\ status[job.id] # "none" => path[job.id] = job.path
    /\ result # NoNzb => result \in Release /\ result[2] = TitleOf[job.path]
                         /\ output[result] = job.id

Nzbs == NzbTyped /\ Named /\ InHand
-----------------------------------------------------------------------------
(* There is a latest started_at.                                            *)
LEMMA LatestIsLatest ==
    ASSUME TableTyped, Stamps, NEW i \in Ids
    PROVE  Latest \in Nat /\ \A j \in Ids : started[j] <= Latest
<1> DEFINE B == {n \in Nat : \A j \in Ids : started[j] <= n}
<1>1. B # {} /\ B \subseteq Nat
  BY DEF Stamps
<1>2. PICK n \in B : \A m \in B : ~(<<m, n>> \in OpToRel(<, Nat))
  <2> HIDE DEF B
  <2>1. QED BY <1>1, NatLessThanWellFounded, WFMin
<1>3. \A m \in B : ~(m < n)
  BY <1>1, <1>2 DEF OpToRel
<1>4. \E j \in Ids : started[j] = n
  <2>1. SUFFICES ASSUME \A j \in Ids : started[j] # n PROVE FALSE
    OBVIOUS
  <2>2. ASSUME NEW j \in Ids PROVE started[j] \in Nat /\ started[j] < n
    <3>1. started[j] \in Nat /\ n \in Nat /\ started[j] <= n /\ started[j] # n
      BY <2>1 DEF TableTyped
    <3>2. QED BY <3>1
  <2>3. n \in Nat /\ n > 0
    BY <2>2
  <2>4. n - 1 \in B
    BY <2>2, <2>3
  <2>5. QED BY <1>3, <2>3, <2>4
<1>5. \E k \in {started[j] : j \in Ids} : \A j \in Ids : started[j] <= k
  BY <1>2, <1>4
<1>6. Latest \in {started[j] : j \in Ids} /\ \A j \in Ids : started[j] <= Latest
  BY <1>5 DEF Latest
<1>7. QED BY <1>6 DEF TableTyped

LEMMA IdsAreNumbers == \A i \in Ids : i \in Nat /\ i > 0 /\ i # NoJob
BY OfflineAssumption DEF OfflineAssumption, Ids, NoJob

-----------------------------------------------------------------------------
(* Types.                                                                   *)

LEMMA TableTypedStep == TableTyped /\ Stamps /\ Hands /\ [Next]_vars => TableTyped'
<1>1. SUFFICES ASSUME TableTyped, Stamps, Hands, [Next]_vars PROVE TableTyped'
  OBVIOUS
<1> USE <1>1 DEF TableTyped, Statuses, SetStatus, ClearStarted, With, ProcAt, Null,
                 rowVars, procVars, boundVars
<1>2. CASE UNCHANGED vars
  BY <1>2 DEF vars
<1>3. CASE Boot
  BY <1>3 DEF Boot, RequeueStuckJobs
<1>4. CASE Crash \/ ScanBegin \/ ScanEnd
  BY <1>4 DEF Crash, ScanBegin, ScanEnd
<1>5. ASSUME NEW p \in Paths, ScanEntry(p) PROVE TableTyped'
  <2>1. nextId \in Ids /\ nextId + 1 \in 1..(MaxJobs + 1)
    BY <1>5, OfflineAssumption DEF ScanEntry, Ids, OfflineAssumption
  <2>2. QED BY <1>5, <2>1 DEF ScanEntry
<1>6. ASSUME NEW i \in Ids, ClaimUpdate(i) PROVE TableTyped'
  <2>1. Latest \in Nat
    BY LatestIsLatest
  <2>2. 1 + Latest \in Nat
    BY <2>1
  <2>3. QED BY <1>6, <2>2 DEF ClaimUpdate
<1>7. ASSUME NEW i \in Ids, ClaimSelect(i) PROVE TableTyped'
  BY <1>7 DEF ClaimSelect
<1>8. CASE ClaimSelectFails \/ LookupGroup \/ WorkOk \/ WorkFails
  BY <1>8 DEF ClaimSelectFails, LookupGroup, WorkOk, WorkFails
<1>9. CASE Mark
  <2>1. job.id \in Ids
    BY <1>9 DEF Mark, Hands, Working
  <2>2. FinalStatus \in Statuses
    BY DEF FinalStatus
  <2>3. QED BY <1>9, <2>1, <2>2 DEF Mark
<1>10. CASE OpenPage
  BY <1>10 DEF OpenPage
<1>11. ASSUME NEW i \in Ids, RetryJob(i) \/ DeleteJob(i) PROVE TableTyped'
  BY <1>11 DEF RetryJob, DeleteJob
<1>12. ASSUME NEW g \in Groups \union {NoGroup}, DeleteGroup(g) \/ EditWatch(g)
       PROVE  TableTyped'
  BY <1>12 DEF DeleteGroup, EditWatch
<1>13. QED
  BY <1>2, <1>3, <1>4, <1>5, <1>6, <1>7, <1>8, <1>9, <1>10, <1>11, <1>12
  DEF Next, Processor, Operator

LEMMA GroupsTypedStep == TableTyped /\ GroupsTyped /\ [Next]_vars => GroupsTyped'
<1>1. SUFFICES ASSUME TableTyped, GroupsTyped, [Next]_vars PROVE GroupsTyped'
  OBVIOUS
<1> USE <1>1 DEF GroupsTyped, ProcAt, rowVars, procVars, boundVars
<1>2. CASE UNCHANGED vars
  BY <1>2 DEF vars
<1>3. CASE Boot \/ Crash \/ ScanBegin \/ ScanEnd
  BY <1>3 DEF Boot, Crash, ScanBegin, ScanEnd
<1>4. ASSUME NEW p \in Paths, ScanEntry(p) PROVE GroupsTyped'
  BY <1>4 DEF ScanEntry
<1>5. CASE Processor
  BY <1>5 DEF Processor, ClaimUpdate, ClaimSelect, ClaimSelectFails, LookupGroup, WorkOk,
              WorkFails, Mark
<1>6. CASE OpenPage
  BY <1>6 DEF OpenPage
<1>7. ASSUME NEW i \in Ids, RetryJob(i) \/ DeleteJob(i) PROVE GroupsTyped'
  BY <1>7 DEF RetryJob, DeleteJob
<1>8. ASSUME NEW g \in Groups \union {NoGroup}, DeleteGroup(g) PROVE GroupsTyped'
  BY <1>8 DEF DeleteGroup, SetNull
<1>9. ASSUME NEW g \in Groups \union {NoGroup}, EditWatch(g) PROVE GroupsTyped'
  BY <1>9 DEF EditWatch
<1>10. QED BY <1>2, <1>3, <1>4, <1>5, <1>6, <1>7, <1>8, <1>9 DEF Next, Operator

LEMMA BoundsTypedStep == BoundsTyped /\ [Next]_vars => BoundsTyped'
<1>1. SUFFICES ASSUME BoundsTyped, [Next]_vars PROVE BoundsTyped'
  OBVIOUS
<1>2. {MaxRetries, MaxDbErrors, MaxCrashes} \subseteq Nat
  BY OfflineAssumption DEF OfflineAssumption
<1> USE <1>1, <1>2 DEF BoundsTyped, DbError, DbOk, rowVars, procVars, boundVars
<1>3. CASE UNCHANGED vars
  BY <1>3 DEF vars
<1>4. CASE Boot \/ Crash \/ ScanBegin \/ ScanEnd \/ \E p \in Paths : ScanEntry(p)
  BY <1>4 DEF Boot, Crash, ScanBegin, ScanEnd, ScanEntry
<1>5. CASE Processor
  BY <1>5 DEF Processor, ClaimUpdate, ClaimSelect, ClaimSelectFails, LookupGroup, WorkOk,
              WorkFails, Mark
<1>6. ASSUME NEW i \in Ids, RetryJob(i) PROVE BoundsTyped'
  BY <1>6 DEF RetryJob
<1>7. CASE \/ OpenPage \/ \E i \in Ids : DeleteJob(i)
           \/ \E g \in Groups \union {NoGroup} : DeleteGroup(g) \/ EditWatch(g)
  BY <1>7 DEF OpenPage, DeleteJob, DeleteGroup, EditWatch
<1>8. QED BY <1>3, <1>4, <1>5, <1>6, <1>7 DEF Next, Operator

-----------------------------------------------------------------------------
(* Rows, and what the processor holds.                                      *)

LEMMA RowsStep == TableTyped /\ Hands /\ Rows /\ [Next]_vars => Rows'
<1>1. SUFFICES ASSUME TableTyped, Hands, Rows, [Next]_vars PROVE Rows'
  OBVIOUS
<1>2. NoPath \notin Paths /\ nextId \in Nat /\ \A i \in Ids : i \in Nat
  BY <1>1, OfflineAssumption, IdsAreNumbers DEF OfflineAssumption, TableTyped
<1> USE <1>1, <1>2 DEF TableTyped, Rows, SetStatus, With, ProcAt, rowVars, procVars, boundVars
<1>3. CASE UNCHANGED vars
  BY <1>3 DEF vars
<1>4. CASE Boot
  BY <1>4 DEF Boot, RequeueStuckJobs
<1>5. CASE Crash \/ ScanBegin \/ ScanEnd
  BY <1>5 DEF Crash, ScanBegin, ScanEnd
<1>6. ASSUME NEW p \in Paths, ScanEntry(p) PROVE Rows'
  <2>1. /\ nextId \in Ids /\ nextId' = nextId + 1
        /\ status' = [status EXCEPT ![nextId] = "queued"]
        /\ path' = [path EXCEPT ![nextId] = p]
        /\ \A i \in Ids : path[i] # p
    BY <1>6 DEF ScanEntry
  <2>2. SUFFICES ASSUME NEW i \in Ids
        PROVE /\ status'[i] # "none" => i < nextId' /\ path'[i] \in Paths
              /\ status'[i] = "none" => path'[i] = NoPath
              /\ \A j \in Ids : path'[i] = path'[j] /\ path'[i] # NoPath => i = j
    OBVIOUS
  <2>3. CASE i = nextId
    BY <2>1, <2>3
  <2>4. CASE i # nextId
    BY <2>1, <2>4
  <2>5. QED BY <2>3, <2>4
<1>7. ASSUME NEW i \in Ids, ClaimUpdate(i) PROVE Rows'
  BY <1>7 DEF ClaimUpdate
<1>8. CASE (\E i \in Ids : ClaimSelect(i)) \/ ClaimSelectFails \/ LookupGroup \/ WorkOk
           \/ WorkFails
  BY <1>8 DEF ClaimSelect, ClaimSelectFails, LookupGroup, WorkOk, WorkFails
<1>9. CASE Mark
  <2>1. job.id \in Ids /\ FinalStatus # "none" /\ UNCHANGED <<path, nextId>>
    BY <1>9 DEF Mark, Hands, Working, FinalStatus
  <2>2. \/ UNCHANGED status
        \/ status[job.id] # "none" /\ status' = [status EXCEPT ![job.id] = FinalStatus]
    BY <1>9 DEF Mark
  <2>3. QED BY <2>1, <2>2
<1>10. ASSUME NEW i \in Ids, RetryJob(i) PROVE Rows'
  BY <1>10 DEF RetryJob
<1>11. ASSUME NEW i \in Ids, DeleteJob(i) PROVE Rows'
  BY <1>11 DEF DeleteJob
<1>12. CASE OpenPage \/ \E g \in Groups \union {NoGroup} : DeleteGroup(g) \/ EditWatch(g)
  BY <1>12 DEF OpenPage, DeleteGroup, EditWatch
<1>13. QED
  BY <1>3, <1>4, <1>5, <1>6, <1>7, <1>8, <1>9, <1>10, <1>11, <1>12
  DEF Next, Processor, Operator

LEMMA HandsStep ==
    TableTyped /\ GroupsTyped /\ Rows /\ Hands /\ [Next]_vars => Hands'
<1>1. SUFFICES ASSUME TableTyped, GroupsTyped, Rows, Hands, [Next]_vars PROVE Hands'
  OBVIOUS
<1>2. nextId \in Nat /\ \A i \in Ids : i \in Nat /\ i # NoJob
  BY <1>1, IdsAreNumbers DEF TableTyped
<1> USE <1>1, <1>2 DEF Hands, Working, ProcAt, rowVars, procVars, boundVars
<1>3. CASE UNCHANGED vars
  BY <1>3 DEF vars
<1>4. CASE Boot
  BY <1>4 DEF Boot
<1>5. CASE Crash
  BY <1>5 DEF Crash, Idle, NoJob
<1>6. CASE ScanBegin \/ ScanEnd \/ OpenPage
  BY <1>6 DEF ScanBegin, ScanEnd, OpenPage
<1>7. ASSUME NEW p \in Paths, ScanEntry(p) PROVE Hands'
  <2>1. UNCHANGED <<up, procVars>> /\ nextId' = nextId + 1
    BY <1>7 DEF ScanEntry
  <2>2. \A i \in Ids : i < nextId => i < nextId'
    BY <2>1
  <2>3. QED BY <2>1, <2>2
<1>8. ASSUME NEW i \in Ids, ClaimUpdate(i) PROVE Hands'
  BY <1>8 DEF ClaimUpdate
<1>9. ASSUME NEW i \in Ids, ClaimSelect(i) PROVE Hands'
  <2>1. path[i] \in Paths /\ i < nextId /\ group[i] \in Groups \union {NoGroup}
    BY <1>9 DEF ClaimSelect, With, Rows, GroupsTyped
  <2>2. QED BY <1>9, <2>1 DEF ClaimSelect
<1>10. CASE ClaimSelectFails
  BY <1>10 DEF ClaimSelectFails
<1>11. CASE LookupGroup
  BY <1>11 DEF LookupGroup, GroupsTyped
<1>12. CASE WorkOk \/ WorkFails
  BY <1>12 DEF WorkOk, WorkFails
<1>13. CASE Mark
  BY <1>13 DEF Mark, Idle, NoJob
<1>14. ASSUME NEW i \in Ids, RetryJob(i) \/ DeleteJob(i) PROVE Hands'
  BY <1>14 DEF RetryJob, DeleteJob
<1>15. ASSUME NEW g \in Groups \union {NoGroup}, DeleteGroup(g) \/ EditWatch(g) PROVE Hands'
  BY <1>15 DEF DeleteGroup, EditWatch
<1>16. QED
  BY <1>3, <1>4, <1>5, <1>6, <1>7, <1>8, <1>9, <1>10, <1>11, <1>12, <1>13, <1>14, <1>15
  DEF Next, Processor, Operator

-----------------------------------------------------------------------------
(* Claims. Nothing but ClaimNextJob's UPDATE puts a row into 'processing',  *)
(* or gives it a start time.                                                *)
LEMMA OnlyClaims ==
    ASSUME TableTyped, Hands, [Next]_vars, \A i \in Ids : ~ClaimUpdate(i)
    PROVE  /\ \A i \in Ids : /\ started'[i] = started[i] \/ started'[i] = Null
                             /\ status'[i] = "processing" =>
                                  status[i] = "processing" /\ started'[i] = started[i]
           /\ proc' = "select" => proc = "select" /\ claimed' = claimed
<1> USE DEF TableTyped, SetStatus, ClearStarted, With, ProcAt, rowVars, procVars, boundVars
<1> DEFINE G == /\ \A i \in Ids : /\ started'[i] = started[i] \/ started'[i] = Null
                                  /\ status'[i] = "processing" =>
                                       status[i] = "processing" /\ started'[i] = started[i]
                /\ proc' = "select" => proc = "select" /\ claimed' = claimed
<1>1. CASE UNCHANGED vars
  BY <1>1 DEF vars
<1>2. CASE Boot
  <2>1. UNCHANGED procVars /\
        \/ /\ status' = [i \in Ids |-> IF i \in RequeueStuckJobs THEN "queued" ELSE status[i]]
           /\ started' = [i \in Ids |-> IF i \in RequeueStuckJobs THEN Null ELSE started[i]]
        \/ UNCHANGED <<status, started>>
    BY <1>2 DEF Boot
  <2>2. QED BY <2>1 DEF RequeueStuckJobs
<1>3. CASE Crash \/ ScanBegin \/ ScanEnd \/ OpenPage
  BY <1>3 DEF Crash, ScanBegin, ScanEnd, OpenPage
<1>4. ASSUME NEW p \in Paths, ScanEntry(p) PROVE G
  BY <1>4 DEF ScanEntry
<1>5. CASE (\E i \in Ids : ClaimSelect(i)) \/ ClaimSelectFails \/ LookupGroup \/ WorkOk
           \/ WorkFails
  BY <1>5 DEF ClaimSelect, ClaimSelectFails, LookupGroup, WorkOk, WorkFails
<1>6. CASE Mark
  <2>1. FinalStatus # "processing" /\ UNCHANGED started /\ proc' = "idle"
    BY <1>6 DEF Mark, FinalStatus
  <2>2. UNCHANGED status \/ status' = [status EXCEPT ![job.id] = FinalStatus]
    BY <1>6 DEF Mark
  <2>3. QED BY <2>1, <2>2
<1>7. ASSUME NEW i \in Ids, RetryJob(i) \/ DeleteJob(i) PROVE G
  BY <1>7 DEF RetryJob, DeleteJob
<1>8. ASSUME NEW g \in Groups \union {NoGroup}, DeleteGroup(g) \/ EditWatch(g) PROVE G
  BY <1>8 DEF DeleteGroup, EditWatch
<1> HIDE DEF G
<1>9. G
  BY <1>1, <1>2, <1>3, <1>4, <1>5, <1>6, <1>7, <1>8 DEF Next, Processor, Operator, G
<1>10. QED BY <1>9 DEF G

LEMMA StampsStep == TableTyped /\ Hands /\ Stamps /\ [Next]_vars => Stamps'
<1>1. SUFFICES ASSUME TableTyped, Hands, Stamps, [Next]_vars PROVE Stamps'
  OBVIOUS
<1>2. ASSUME NEW i \in Ids, ClaimUpdate(i) PROVE Stamps'
  <2>1. Latest \in Nat /\ \A j \in Ids : started[j] <= Latest
    BY <1>1, LatestIsLatest
  <2> DEFINE n == 1 + Latest
  <2>2. /\ started' = [started EXCEPT ![i] = n]
        /\ status' = [status EXCEPT ![i] = "processing"]
        /\ claimed' = i
    BY <1>2 DEF ClaimUpdate, SetStatus
  <2>3. n \in Nat /\ n # Null /\ \A j \in Ids : started[j] \in Nat /\ started[j] < n
    BY <1>1, <2>1 DEF TableTyped, Null
  <2> HIDE DEF n
  <2>4. \A j \in Ids : started'[j] = IF j = i THEN n ELSE started[j]
    BY <1>1, <2>2 DEF TableTyped
  <2>5. \A j \in Ids : started'[j] <= n
    BY <2>3, <2>4
  <2>6. \E m \in Nat : \A j \in Ids : started'[j] <= m
    BY <2>3, <2>5
  <2>7. \A j, k \in Ids : started'[j] = started'[k] /\ started'[j] # Null => j = k
    BY <1>1, <2>3, <2>4 DEF Stamps
  <2>8. \A j \in Ids : status'[j] = "processing" => started'[j] # Null
    BY <1>1, <2>2, <2>3, <2>4 DEF Stamps, TableTyped
  <2>9. \A j \in Ids : started'[j] <= started'[claimed']
    BY <2>2, <2>4, <2>5
  <2>10. QED BY <2>6, <2>7, <2>8, <2>9 DEF Stamps
<1>3. CASE \A i \in Ids : ~ClaimUpdate(i)
  <2>1. /\ \A i \in Ids : /\ started'[i] = started[i] \/ started'[i] = Null
                          /\ status'[i] = "processing" =>
                               status[i] = "processing" /\ started'[i] = started[i]
        /\ proc' = "select" => proc = "select" /\ claimed' = claimed
    BY <1>1, <1>3, OnlyClaims
  <2>2. PICK n \in Nat : \A i \in Ids : started[i] <= n
    BY <1>1 DEF Stamps
  <2>3. \A i \in Ids : started[i] \in Nat /\ started'[i] <= started[i]
    BY <1>1, <2>1 DEF TableTyped, Null
  <2>4. \A i \in Ids : started'[i] <= n
    BY <2>1, <2>2, <2>3 DEF Null
  <2>5. \A j, k \in Ids : started'[j] = started'[k] /\ started'[j] # Null => j = k
    BY <1>1, <2>1 DEF Stamps
  <2>6. \A j \in Ids : status'[j] = "processing" => started'[j] # Null
    BY <1>1, <2>1 DEF Stamps
  <2>7. ASSUME proc' = "select", status'[claimed'] = "processing", NEW i \in Ids
        PROVE  started'[i] <= started'[claimed']
    <3>1. proc = "select" /\ claimed' = claimed /\ claimed \in Ids
      BY <1>1, <2>1, <2>7 DEF Hands
    <3>2. status[claimed] = "processing" /\ started'[claimed] = started[claimed]
      BY <2>1, <2>7, <3>1
    <3>3. started[i] <= started[claimed]
      BY <1>1, <3>1, <3>2 DEF Stamps
    <3>4. QED BY <2>1, <2>3, <3>1, <3>2, <3>3 DEF Null
  <2>8. QED BY <2>4, <2>5, <2>6, <2>7 DEF Stamps
<1>4. QED BY <1>2, <1>3

(* The SELECT after the claim finds the claimed row, if it is still there   *)
(* to be found.                                                             *)
LEMMA SelectFindsClaim ==
    ASSUME TableTyped, Hands, Stamps, NEW i \in Ids, ClaimSelect(i),
           status[claimed] = "processing"
    PROVE  i = claimed
<1>1. claimed \in Ids /\ proc = "select" /\ status[i] = "processing" /\ LastStarted(i)
  BY DEF Hands, ClaimSelect, ProcAt, With
<1>2. started[claimed] <= started[i] /\ started[i] <= started[claimed]
  BY <1>1 DEF Stamps, LastStarted, With
<1>3. started[i] \in Nat /\ started[claimed] \in Nat /\ started[i] # Null
  BY <1>1 DEF TableTyped, Stamps
<1>4. started[i] = started[claimed]
  BY <1>2, <1>3
<1>5. QED BY <1>1, <1>3, <1>4 DEF Stamps

LEMMA GripStep == TableTyped /\ Hands /\ Stamps /\ Grip /\ [Next]_vars => Grip'
<1>1. SUFFICES ASSUME TableTyped, Hands, Stamps, Grip, [Next]_vars PROVE Grip'
  OBVIOUS
<1>2. ASSUME NEW i \in Ids, ClaimUpdate(i) PROVE Grip'
  BY <1>2 DEF ClaimUpdate, Grip, Working
<1>3. ASSUME NEW i \in Ids, ClaimSelect(i) PROVE Grip'
  <2>1. claimed' = claimed /\ job'.id = i /\ UNCHANGED status
    BY <1>3 DEF ClaimSelect, rowVars
  <2>2. QED BY <1>1, <1>3, <2>1, SelectFindsClaim DEF Grip
<1>4. CASE (\A i \in Ids : ~ClaimUpdate(i)) /\ ~\E i \in Ids : ClaimSelect(i)
  <2>1. Working' => Working /\ claimed' = claimed /\ job' = job
    BY <1>1, <1>4 DEF Next, Processor, Operator, vars, rowVars, procVars, boundVars, Boot, Crash,
       ScanBegin, ScanEntry, ScanEnd, ClaimSelectFails, LookupGroup, WorkOk, WorkFails, Mark,
       OpenPage, RetryJob, DeleteJob, DeleteGroup, EditWatch, Working, ProcAt
  <2>2. Working => claimed \in Ids
    BY <1>1 DEF Hands, Working
  <2>3. \A i \in Ids : status'[i] = "processing" => status[i] = "processing"
    BY <1>1, <1>4, OnlyClaims
  <2>4. QED BY <1>1, <2>1, <2>2, <2>3 DEF Grip
<1>5. QED BY <1>2, <1>3, <1>4

LEMMA OwnedStep ==
    TableTyped /\ Hands /\ Grip /\ Owned /\ [Next]_vars => Owned'
<1>1. SUFFICES ASSUME TableTyped, Hands, Grip, Owned, [Next]_vars, up',
                      NEW i \in Ids, status'[i] = "processing"
               PROVE  i \in orphans' \/ (proc' # "idle" /\ i \in {claimed', job'.id})
  BY DEF Owned
<1> DEFINE G == i \in orphans' \/ (proc' # "idle" /\ i \in {claimed', job'.id})
<1>2. i # NoJob
  BY IdsAreNumbers
<1>3. ASSUME NEW k \in Ids, ClaimUpdate(k) PROVE G
  <2>1. /\ up /\ proc = "idle" /\ proc' = "select" /\ claimed' = k /\ UNCHANGED orphans
        /\ status' = [status EXCEPT ![k] = "processing"]
    BY <1>3 DEF ClaimUpdate, ProcAt, SetStatus
  <2>2. i = k \/ status[i] = "processing"
    BY <1>1, <2>1 DEF TableTyped
  <2>3. QED BY <1>1, <2>1, <2>2 DEF Owned
<1>4. ASSUME \A k \in Ids : ~ClaimUpdate(k) PROVE status[i] = "processing"
  BY <1>1, <1>4, OnlyClaims
<1>5. ASSUME status[i] = "processing", up
      PROVE  i \in orphans \/ (proc # "idle" /\ i \in {claimed, job.id})
  BY <1>1, <1>5 DEF Owned
<1>6. ASSUME status[i] = "processing", up, UNCHANGED <<claimed, job>>, proc' # "idle",
             i \in orphans => i \in orphans'
      PROVE  G
  BY <1>5, <1>6
<1>7. ASSUME status[i] = "processing", up, UNCHANGED procVars,
             i \in orphans => i \in orphans'
      PROVE  G
  BY <1>5, <1>7 DEF procVars
<1>8. CASE \A k \in Ids : ~ClaimUpdate(k)
  <2> USE <1>4, <1>8
  <2>1. CASE UNCHANGED vars
    BY <1>1, <1>7, <2>1 DEF vars
  <2>2. CASE Boot
    <3>1. \/ status' = [k \in Ids |-> IF k \in With("processing") THEN "queued" ELSE status[k]]
          \/ orphans' = With("processing")
      BY <2>2 DEF Boot, RequeueStuckJobs
    <3>2. QED BY <1>1, <3>1 DEF With
  <2>3. CASE Crash
    BY <1>1, <2>3 DEF Crash
  <2>4. CASE ScanBegin \/ ScanEnd \/ OpenPage \/ \E p \in Paths : ScanEntry(p)
    BY <1>7, <2>4 DEF ScanBegin, ScanEnd, OpenPage, ScanEntry
  <2>5. CASE (\E k \in Ids : ClaimSelect(k)) \/ LookupGroup \/ WorkOk \/ WorkFails
    <3>1. CASE LookupGroup \/ WorkOk \/ WorkFails
      BY <1>6, <3>1 DEF LookupGroup, WorkOk, WorkFails, ProcAt
    <3>2. ASSUME NEW k \in Ids, ClaimSelect(k) PROVE G
      <4>1. up /\ proc = "select" /\ proc' = "lookup" /\ UNCHANGED <<claimed, orphans>>
        BY <3>2 DEF ClaimSelect, ProcAt
      <4>2. job.id = NoJob
        BY <1>1, <4>1 DEF Hands, Working
      <4>3. QED BY <1>2, <1>5, <4>1, <4>2
    <3>3. QED BY <2>5, <3>1, <3>2
  <2>6. CASE ClaimSelectFails
    <3>1. /\ up /\ proc = "select"
          /\ orphans' = orphans \union (With("processing") \intersect {claimed})
      BY <2>6 DEF ClaimSelectFails, ProcAt
    <3>2. job.id = NoJob
      BY <1>1, <3>1 DEF Hands, Working
    <3>3. QED BY <1>2, <1>5, <3>1, <3>2 DEF With
  <2>7. CASE Mark
    <3>1. up /\ proc = "mark" /\ job.id \in Ids
      BY <1>1, <2>7 DEF Mark, ProcAt, Hands, Working
    <3>2. i \in orphans \/ i = job.id
      BY <1>1, <1>5, <3>1 DEF Grip, Working
    <3>3. \/ /\ status[job.id] = "none" \/ status' = [status EXCEPT ![job.id] = FinalStatus]
             /\ orphans' = orphans \ {job.id}
          \/ orphans' = orphans \union ({job.id} \intersect With("processing"))
      BY <2>7 DEF Mark, SetStatus
    <3>4. FinalStatus # "processing"
      BY DEF FinalStatus
    <3>5. CASE i = job.id
      BY <1>1, <3>1, <3>3, <3>4, <3>5 DEF With, TableTyped
    <3>6. CASE i # job.id
      BY <3>2, <3>3, <3>6
    <3>7. QED BY <3>5, <3>6
  <2>8. ASSUME NEW k \in Ids, RetryJob(k) \/ DeleteJob(k) PROVE G
    <3>1. up /\ UNCHANGED procVars /\ orphans' = orphans \ {k} /\ status'[k] # "processing"
      BY <1>1, <2>8 DEF RetryJob, DeleteJob, SetStatus, TableTyped
    <3>2. i # k
      BY <1>1, <3>1
    <3>3. QED BY <1>7, <3>1, <3>2
  <2>9. ASSUME NEW g \in Groups \union {NoGroup}, DeleteGroup(g) \/ EditWatch(g) PROVE G
    BY <1>7, <2>9 DEF DeleteGroup, EditWatch
  <2>10. QED
    BY <1>1, <2>1, <2>2, <2>3, <2>4, <2>5, <2>6, <2>7, <2>8, <2>9
    DEF Next, Processor, Operator
<1>9. QED BY <1>3, <1>8

LEMMA ClaimsInit == Init => Claims
<1>1. SUFFICES ASSUME Init PROVE Claims
  OBVIOUS
<1> USE <1>1, OfflineAssumption DEF Init, OfflineAssumption, Ids, NoJob, Null
<1>2. TableTyped
  BY DEF TableTyped, Statuses
<1>3. GroupsTyped
  BY DEF GroupsTyped
<1>4. BoundsTyped
  BY DEF BoundsTyped
<1>5. Rows
  BY DEF Rows
<1>6. Hands
  BY DEF Hands, Working, Idle
<1>7. Stamps
  <2>1. 0 \in Nat /\ \A i \in Ids : started[i] = 0
    OBVIOUS
  <2>2. \E n \in Nat : \A i \in Ids : started[i] <= n
    BY <2>1
  <2>3. QED BY <2>1, <2>2 DEF Stamps
<1>8. Grip /\ Owned
  BY DEF Grip, Owned, Working
<1>9. QED BY <1>2, <1>3, <1>4, <1>5, <1>6, <1>7, <1>8 DEF Claims

LEMMA ClaimsStep == Claims /\ [Next]_vars => Claims'
BY TableTypedStep, GroupsTypedStep, BoundsTypedStep, RowsStep, HandsStep, StampsStep, GripStep,
   OwnedStep DEF Claims

(* ClaimNextJob's SELECT returns the row its UPDATE claimed, whatever the   *)
(* operator and earlier failures left in 'processing'.                      *)
THEOREM ClaimIsReturned == Spec => SelectReturnsClaim
<1>1. Claims /\ [Next]_vars
        => [proc = "select" /\ proc' = "lookup" /\ status[claimed] = "processing"
              => job'.id = claimed]_vars
  <2>1. SUFFICES ASSUME Claims, [Next]_vars, proc = "select", proc' = "lookup",
                        status[claimed] = "processing"
                 PROVE  job'.id = claimed
    OBVIOUS
  <2>2. PICK i \in Ids : ClaimSelect(i)
    BY <2>1 DEF Next, Processor, Operator, vars, rowVars, procVars, boundVars, Boot, Crash,
       ScanBegin, ScanEntry, ScanEnd, ClaimUpdate, ClaimSelectFails, LookupGroup, WorkOk,
       WorkFails, Mark, OpenPage, RetryJob, DeleteJob, DeleteGroup, EditWatch, ProcAt
  <2>3. i = claimed
    BY <2>1, <2>2, SelectFindsClaim DEF Claims
  <2>4. QED BY <2>2, <2>3 DEF ClaimSelect
<1>2. QED BY <1>1, ClaimsInit, ClaimsStep, PTL DEF Spec, SelectReturnsClaim

-----------------------------------------------------------------------------
LEMMA ReleaseOfJob ==
    ASSUME Hands, WorkOk
    PROVE  <<job.group, TitleOf[job.path]>> \in Release
<1>1. job.group \in Groups /\ job.path \in Paths
  BY DEF Hands, Working, WorkOk, ProcAt
<1>2. QED BY <1>1 DEF Release

LEMMA NzbTypedStep == Hands /\ NzbTyped /\ [Next]_vars => NzbTyped'
<1>1. SUFFICES ASSUME Hands, NzbTyped, [Next]_vars PROVE NzbTyped'
  OBVIOUS
<1> USE <1>1 DEF NzbTyped, rowVars, procVars, boundVars
<1>2. CASE UNCHANGED vars
  BY <1>2 DEF vars
<1>3. CASE Boot \/ Crash \/ ScanBegin \/ ScanEnd \/ \E p \in Paths : ScanEntry(p)
  BY <1>3 DEF Boot, Crash, ScanBegin, ScanEnd, ScanEntry
<1>4. CASE \/ \E i \in Ids : ClaimUpdate(i) \/ ClaimSelect(i)
           \/ ClaimSelectFails \/ LookupGroup \/ WorkFails
  BY <1>4 DEF ClaimUpdate, ClaimSelect, ClaimSelectFails, LookupGroup, WorkFails
<1>5. CASE WorkOk
  <2> DEFINE r == <<job.group, TitleOf[job.path]>>
  <2>1. r \in Release /\ job.id \in Ids
    BY <1>5, ReleaseOfJob DEF Hands, Working, WorkOk, ProcAt
  <2>2. output' = [output EXCEPT ![r] = job.id] /\ result' = r /\ UNCHANGED nzb
    BY <1>5 DEF WorkOk
  <2> HIDE DEF r
  <2>3. QED BY <2>1, <2>2
<1>6. CASE Mark
  <2>1. job.id \in Ids /\ result' = NoNzb /\ UNCHANGED output
    BY <1>6 DEF Mark, Hands, Working, ProcAt
  <2>2. UNCHANGED nzb \/ nzb' = [nzb EXCEPT ![job.id] = result]
    BY <1>6 DEF Mark
  <2>3. QED BY <2>1, <2>2
<1>7. CASE Operator
  BY <1>7 DEF Operator, OpenPage, RetryJob, DeleteJob, DeleteGroup, EditWatch
<1>8. QED BY <1>2, <1>3, <1>4, <1>5, <1>6, <1>7 DEF Next, Processor

LEMMA UpStep == up \in BOOLEAN /\ [Next]_vars => (up \in BOOLEAN)'
<1>1. SUFFICES ASSUME up \in BOOLEAN, [Next]_vars PROVE (up \in BOOLEAN)'
  OBVIOUS
<1>2. up' = up \/ up' = TRUE \/ up' = FALSE
  BY <1>1 DEF Next, Processor, Operator, vars, rowVars, procVars, boundVars, Boot, Crash,
     ScanBegin, ScanEntry, ScanEnd, ClaimUpdate, ClaimSelect, ClaimSelectFails, LookupGroup,
     WorkOk, WorkFails, Mark, OpenPage, RetryJob, DeleteJob, DeleteGroup, EditWatch
<1>3. QED BY <1>1, <1>2, Zenon

(* No job is stranded in 'processing': it is in the processor's hands, or a *)
(* failed statement left it there since the last start. Crashes, retries    *)
(* from a stale page and deletions may come at any point of a job.          *)
THEOREM NoJobStranded == Spec => []ProcessingIsOwned
<1>1. Init => NzbTyped /\ up \in BOOLEAN
  BY DEF Init, NzbTyped
<1>2. Claims /\ NzbTyped /\ up \in BOOLEAN => ProcessingIsOwned
  <2>1. SUFFICES ASSUME Claims, NzbTyped, up \in BOOLEAN PROVE ProcessingIsOwned
    OBVIOUS
  <2>2. /\ TableTyped /\ GroupsTyped /\ BoundsTyped /\ Rows /\ Hands /\ Owned
    BY <2>1 DEF Claims
  <2>3. \A i, j \in Ids : path[i] = path[j] /\ path[i] # NoPath => i = j
    BY <2>2 DEF Rows
  <2>4. TypeOK
    BY <2>1, <2>2, <2>3
    DEF TypeOK, TableTyped, GroupsTyped, BoundsTyped, Hands, NzbTyped, Statuses
  <2>5. up => \A i \in With("processing") :
                  i \in orphans \/ (proc # "idle" /\ i \in {claimed, job.id})
    BY <2>2 DEF Owned, With
  <2>6. QED BY <2>4, <2>5 DEF ProcessingIsOwned
<1>3. Claims /\ NzbTyped /\ [Next]_vars => NzbTyped'
  BY NzbTypedStep DEF Claims
<1>4. QED BY <1>1, <1>2, <1>3, ClaimsInit, ClaimsStep, UpStep, PTL DEF Spec

-----------------------------------------------------------------------------
(* NZBs.                                                                    *)

LEMMA InHandStep ==
    TableTyped /\ Rows /\ Hands /\ NzbTyped /\ InHand /\ [Next]_vars => InHand'
<1>1. SUFFICES ASSUME TableTyped, Rows, Hands, NzbTyped, InHand, [Next]_vars PROVE InHand'
  OBVIOUS
<1>2. NoPath \notin Paths /\ nextId \in Nat /\ \A i \in Ids : i \in Nat
  BY <1>1, OfflineAssumption, IdsAreNumbers DEF OfflineAssumption, TableTyped
<1> USE <1>1, <1>2 DEF TableTyped, Statuses, SetStatus, With, ProcAt, rowVars, procVars, boundVars
<1>3. ASSUME UNCHANGED <<proc, job, result, output>>,
             \A i \in Ids : /\ status'[i] = "completed" => status[i] = "completed" /\ path'[i] = path[i]
                            /\ i = job.id /\ status'[i] # "none" => status[i] # "none" /\ path'[i] = path[i]
      PROVE  InHand'
  BY <1>3 DEF InHand, Hands, Working
<1>4. CASE UNCHANGED vars
  BY <1>3, <1>4 DEF vars
<1>5. CASE Boot
  <2>1. UNCHANGED <<proc, job, result, output, path>>
    BY <1>5 DEF Boot
  <2>2. \/ status' = [i \in Ids |-> IF i \in With("processing") THEN "queued" ELSE status[i]]
        \/ UNCHANGED status
    BY <1>5 DEF Boot, RequeueStuckJobs
  <2>3. QED BY <1>3, <2>1, <2>2
<1>6. CASE Crash
  BY <1>6 DEF Crash, InHand, Working
<1>7. CASE ScanBegin \/ ScanEnd \/ OpenPage
  BY <1>3, <1>7 DEF ScanBegin, ScanEnd, OpenPage
<1>8. ASSUME NEW p \in Paths, ScanEntry(p) PROVE InHand'
  <2>1. /\ UNCHANGED <<proc, job, result, output>> /\ nextId \in Ids
        /\ status' = [status EXCEPT ![nextId] = "queued"]
        /\ path' = [path EXCEPT ![nextId] = p]
    BY <1>8 DEF ScanEntry
  <2>2. nextId # job.id
    BY <2>1, IdsAreNumbers DEF Hands
  <2>3. QED BY <1>3, <2>1, <2>2
<1>9. ASSUME NEW i \in Ids, ClaimUpdate(i) PROVE InHand'
  BY <1>9 DEF ClaimUpdate, InHand, Hands, Working
<1>10. ASSUME NEW i \in Ids, ClaimSelect(i) PROVE InHand'
  <2>1. /\ job'.id = i /\ job'.path = path[i] /\ status[i] = "processing"
        /\ UNCHANGED <<status, path, result, output>> /\ result = NoNzb
    BY <1>10 DEF ClaimSelect, Hands
  <2>2. path[i] \in Paths /\ \A k \in Ids : path[i] = path[k] => i = k
    BY <2>1 DEF Rows
  <2>3. QED BY <2>1, <2>2 DEF InHand
<1>11. CASE ClaimSelectFails
  BY <1>11 DEF ClaimSelectFails, InHand, Working, Hands
<1>12. CASE LookupGroup \/ WorkFails
  BY <1>12 DEF LookupGroup, WorkFails, InHand, Working
<1>13. CASE WorkOk
  <2> DEFINE r == <<job.group, TitleOf[job.path]>>
  <2>1. r \in Release /\ r[2] = TitleOf[job.path]
    BY <1>13, ReleaseOfJob
  <2>2. /\ output' = [output EXCEPT ![r] = job.id] /\ result' = r
        /\ UNCHANGED <<status, path, job>> /\ Working
    BY <1>13 DEF WorkOk, Working
  <2> HIDE DEF r
  <2>3. output'[result'] = job.id
    BY <2>1, <2>2 DEF NzbTyped
  <2>4. QED BY <2>1, <2>2, <2>3 DEF InHand
<1>14. CASE Mark
  BY <1>14 DEF Mark, InHand, Working
<1>15. ASSUME NEW i \in Ids, RetryJob(i) \/ DeleteJob(i) PROVE InHand'
  BY <1>3, <1>15 DEF RetryJob, DeleteJob
<1>16. ASSUME NEW g \in Groups \union {NoGroup}, DeleteGroup(g) \/ EditWatch(g) PROVE InHand'
  BY <1>3, <1>16 DEF DeleteGroup, EditWatch
<1>17. QED
  BY <1>4, <1>5, <1>6, <1>7, <1>8, <1>9, <1>10, <1>11, <1>12, <1>13, <1>14, <1>15, <1>16
  DEF Next, Processor, Operator

LEMMA NamedStep ==
    ASSUME \A p, q \in Paths : TitleOf[p] = TitleOf[q] => p = q
    PROVE  TableTyped /\ Rows /\ Hands /\ NzbTyped /\ InHand /\ Named /\ [Next]_vars => Named'
<1>1. SUFFICES ASSUME TableTyped, Rows, Hands, NzbTyped, InHand, Named, [Next]_vars,
                      NEW i \in Ids, status'[i] = "completed"
               PROVE  /\ nzb'[i] \in Release /\ nzb'[i] # NoNzb
                      /\ nzb'[i][2] = TitleOf[path'[i]] /\ output'[nzb'[i]] = i
  BY DEF Named
<1> DEFINE G == /\ nzb'[i] \in Release /\ nzb'[i] # NoNzb
                /\ nzb'[i][2] = TitleOf[path'[i]] /\ output'[nzb'[i]] = i
<1> USE <1>1 DEF TableTyped, Statuses, SetStatus, With, ProcAt, rowVars, procVars, boundVars
<1>2. ASSUME status[i] = "completed", nzb'[i] = nzb[i], path'[i] = path[i], UNCHANGED output
      PROVE  G
  BY <1>2 DEF Named
<1>3. CASE UNCHANGED vars
  BY <1>2, <1>3 DEF vars
<1>4. CASE Boot
  <2>1. UNCHANGED <<output, path, nzb>>
    BY <1>4 DEF Boot
  <2>2. \/ status' = [k \in Ids |-> IF k \in With("processing") THEN "queued" ELSE status[k]]
        \/ UNCHANGED status
    BY <1>4 DEF Boot, RequeueStuckJobs
  <2>3. QED BY <1>2, <2>1, <2>2
<1>5. CASE Crash \/ ScanBegin \/ ScanEnd \/ OpenPage
  BY <1>2, <1>5 DEF Crash, ScanBegin, ScanEnd, OpenPage
<1>6. ASSUME NEW p \in Paths, ScanEntry(p) PROVE G
  <2>1. i # nextId
    BY <1>6 DEF ScanEntry
  <2>2. QED BY <1>2, <1>6, <2>1 DEF ScanEntry
<1>7. ASSUME NEW k \in Ids, ClaimUpdate(k) PROVE G
  BY <1>2, <1>7 DEF ClaimUpdate
<1>8. CASE (\E k \in Ids : ClaimSelect(k)) \/ ClaimSelectFails \/ LookupGroup \/ WorkFails
  BY <1>2, <1>8 DEF ClaimSelect, ClaimSelectFails, LookupGroup, WorkFails
<1>9. CASE WorkOk
  <2> DEFINE r == <<job.group, TitleOf[job.path]>>
  <2>1. r \in Release /\ r[2] = TitleOf[job.path]
    BY <1>9, ReleaseOfJob
  <2>2. /\ output' = [output EXCEPT ![r] = job.id]
        /\ UNCHANGED <<status, path, nzb>> /\ Working /\ job.path \in Paths
    BY <1>9 DEF WorkOk, Working, Hands
  <2> HIDE DEF r
  <2>3. /\ nzb[i] \in Release /\ nzb[i] # NoNzb /\ nzb[i][2] = TitleOf[path[i]]
        /\ output[nzb[i]] = i /\ path[i] \in Paths
    BY <2>2 DEF Named, Rows
  <2>4. CASE i = job.id
    BY <2>1, <2>2, <2>3, <2>4 DEF NzbTyped
  <2>5. CASE i # job.id
    <3>1. path[i] # job.path
      BY <2>2, <2>5 DEF InHand
    <3>2. nzb[i] # r
      BY <1>1, <2>1, <2>2, <2>3, <3>1
    <3>3. QED BY <2>1, <2>2, <2>3, <3>2 DEF NzbTyped
  <2>6. QED BY <2>4, <2>5
<1>10. CASE Mark
  <2>1. proc = "mark" /\ job.id \in Ids /\ UNCHANGED <<output, path>> /\ Working
    BY <1>10 DEF Mark, Hands, Working
  <2>2. \/ UNCHANGED <<status, nzb>>
        \/ /\ status[job.id] # "none" /\ status' = [status EXCEPT ![job.id] = FinalStatus]
           /\ nzb' = IF result = NoNzb THEN nzb ELSE [nzb EXCEPT ![job.id] = result]
    BY <1>10 DEF Mark
  <2>3. CASE UNCHANGED <<status, nzb>>
    BY <1>2, <2>1, <2>3
  <2>4. CASE /\ status[job.id] # "none" /\ status' = [status EXCEPT ![job.id] = FinalStatus]
             /\ nzb' = IF result = NoNzb THEN nzb ELSE [nzb EXCEPT ![job.id] = result]
    <3>1. CASE i # job.id
      BY <1>2, <2>1, <2>4, <3>1 DEF NzbTyped
    <3>2. CASE i = job.id
      <4>1. FinalStatus = "completed"
        BY <2>1, <2>4, <3>2
      <4>2. result # NoNzb
        BY <4>1 DEF FinalStatus
      <4>3. nzb'[i] = result
        BY <2>1, <2>4, <3>2, <4>2 DEF NzbTyped
      <4>4. QED BY <2>1, <2>4, <3>2, <4>2, <4>3 DEF InHand
    <3>3. QED BY <3>1, <3>2
  <2>5. QED BY <2>2, <2>3, <2>4
<1>11. ASSUME NEW k \in Ids, RetryJob(k) \/ DeleteJob(k) PROVE G
  <2>1. i # k
    BY <1>11 DEF RetryJob, DeleteJob
  <2>2. QED BY <1>2, <1>11, <2>1 DEF RetryJob, DeleteJob, NzbTyped
<1>12. ASSUME NEW g \in Groups \union {NoGroup}, DeleteGroup(g) \/ EditWatch(g) PROVE G
  BY <1>2, <1>12 DEF DeleteGroup, EditWatch
<1>13. QED
  BY <1>3, <1>4, <1>5, <1>6, <1>7, <1>8, <1>9, <1>10, <1>11, <1>12
  DEF Next, Processor, Operator

(* If no two entries of the watch folder share a title, a completed job's   *)
(* nzb_path leads to an NZB that this job wrote and no other has replaced.  *)
THEOREM NzbIsItsOwn ==
    ASSUME \A p, q \in Paths : TitleOf[p] = TitleOf[q] => p = q
    PROVE  Spec => []CompletedHasNzb
<1>1. Init => Nzbs
  <2>1. SUFFICES ASSUME Init PROVE Nzbs
    OBVIOUS
  <2>2. proc = "idle" /\ result = NoNzb /\ \A i \in Ids : status[i] = "none"
    BY <2>1 DEF Init
  <2>3. NzbTyped
    BY <2>1 DEF Init, NzbTyped
  <2>4. QED BY <2>2, <2>3 DEF Nzbs, Named, InHand, Working
<1>2. Claims /\ Nzbs /\ [Next]_vars => Nzbs'
  BY NzbTypedStep, InHandStep, NamedStep DEF Claims, Nzbs
<1>3. Nzbs => CompletedHasNzb
  BY DEF Nzbs, Named, CompletedHasNzb, With
<1>4. QED BY <1>1, <1>2, <1>3, ClaimsInit, ClaimsStep, PTL DEF Spec
=============================================================================
