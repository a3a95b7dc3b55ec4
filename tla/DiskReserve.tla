----------------------------- MODULE DiskReserve -----------------------------
(***************************************************************************)
(* services/disk_reserve.go and its callers: the disk budget shared by the  *)
(* running tasks. A task looks at the effective free space, reserves a      *)
(* multiple of its torrent's size, fills the disk, and gives the space and  *)
(* the reservation back.                                                    *)
(*                                                                          *)
(* ReserveDisk and ReleaseDisk update an atomic counter and a map under a   *)
(* mutex of its own, one after the other, so each is two steps here. Sizes  *)
(* are in units of the model, not bytes.                                    *)
(***************************************************************************)
EXTENDS Integers, FiniteSets, Functions

CONSTANTS Tasks,      \* jobs that may run at the same time
          FileTasks,  \* the ones that may start from a private or cached .torrent
          StatErrors, \* the ones for which statfs may fail
          Sizes,      \* torrent sizes
          Capacity,   \* free space of an idle agent
          Limits,     \* values InitDiskLimit is called with (0: no limit)
          MinFree     \* minFreeSpaceGB of the polling loop

ASSUME DiskAssumption ==
    /\ IsFiniteSet(Tasks)
    /\ FileTasks \subseteq Tasks /\ StatErrors \subseteq Tasks
    /\ Sizes \subseteq Nat \ {0}
    /\ Capacity \in Nat
    /\ Limits \subseteq Nat
    /\ MinFree \in Nat

(* int64(float64(torrentBytes) * DiskMultiplier) *)
Need(size) == (size * 21) \div 10

VARIABLES pc,            \* phase of each job, see Phases
          size,          \* size of its torrent
          diskReserved,  \* the atomic counter
          reservations,  \* the map: 0 where the job has no entry
          reserve,       \* ReleaseDisk's local: the entry it deleted
          written,       \* bytes the task has on disk
          diskMax,       \* diskMaxBytes (0: no cap)
          raced          \* history: two checks overlapped, or a task never checked

budgetVars == <<diskReserved, reservations, reserve>>
vars == <<pc, size, budgetVars, written, diskMax, raced>>

Phases == {"idle", "fetch", "checked", "mapping", "download", "stage", "staged",
           "deleting", "subtracting"}

TypeOK ==
    /\ pc \in [Tasks -> Phases]
    /\ size \in [Tasks -> Sizes]
    /\ diskReserved \in Nat
    /\ reservations \in [Tasks -> Nat]
    /\ reserve \in [Tasks -> Nat]
    /\ written \in [Tasks -> Nat]
    /\ diskMax \in Nat
    /\ raced \in BOOLEAN

Init ==
    /\ pc = [t \in Tasks |-> "idle"]
    /\ size \in [Tasks -> Sizes]
    /\ diskReserved = 0
    /\ reservations = [t \in Tasks |-> 0]
    /\ reserve = [t \in Tasks |-> 0]
    /\ written = [t \in Tasks |-> 0]
    /\ diskMax = 0
    /\ raced = FALSE

-----------------------------------------------------------------------------
Least(a, b) == IF a < b THEN a ELSE b

Used == SumFunction(written)

(* statfs: what the file system has left; writes beyond it fail, see Grow.  *)
FreeDiskSpace == IF Used < Capacity THEN Capacity - Used ELSE 0

(* The lesser of free space and what the cap leaves, minus reservations.    *)
IgnoreReservations ==
    IF diskMax = 0 THEN FreeDiskSpace
    ELSE Least(FreeDiskSpace, IF Used >= diskMax THEN 0 ELSE diskMax - Used)

FreeDiskAfterReservations ==
    LET free == IF diskMax = 0 THEN FreeDiskSpace
                ELSE Least(FreeDiskSpace, IF Used >= diskMax THEN 0 ELSE diskMax - Used)
    IN  IF free <= diskReserved THEN 0 ELSE free - diskReserved

Step(t, from, to) == pc[t] = from /\ pc' = [pc EXCEPT ![t] = to]

(* The polling loop's gate, open if statfs fails; then a task is accepted.  *)
Accept(t) ==
    /\ Step(t, "idle", "fetch")
    /\ FreeDiskAfterReservations >= MinFree \/ t \in StatErrors
    /\ UNCHANGED <<size, budgetVars, written, diskMax, raced>>

(* A magnet's metadata arrived and its requirement fits.                    *)
CheckOk(t) ==
    /\ Step(t, "fetch", "checked")
    /\ FreeDiskAfterReservations >= Need(size[t])
    /\ raced' = (raced \/ \E u \in Tasks : pc[u] = "checked")
    /\ UNCHANGED <<size, budgetVars, written, diskMax>>

(* statfs fails: a warning, and on to the reservation.                      *)
CheckUnknown(t) ==
    /\ t \in StatErrors
    /\ Step(t, "fetch", "checked")
    /\ raced' = TRUE
    /\ UNCHANGED <<size, budgetVars, written, diskMax>>

(* It does not fit (DiskShortfallError), or there is no metadata: nothing   *)
(* was reserved, and the deferred ReleaseDisk finds no entry.               *)
CheckFails(t) ==
    /\ Step(t, "fetch", "deleting")
    /\ UNCHANGED <<size, budgetVars, written, diskMax, raced>>

(* A private or cached .torrent: downloadTorrentFile neither checks nor     *)
(* reserves.                                                                *)
FromTorrentFile(t) ==
    /\ t \in FileTasks
    /\ Step(t, "fetch", "download")
    /\ raced' = TRUE
    /\ UNCHANGED <<size, budgetVars, written, diskMax>>

(* ReserveDisk: the counter first ...                                       *)
ReserveAdd(t) ==
    /\ Step(t, "checked", "mapping")
    /\ diskReserved' = diskReserved + Need(size[t])
    /\ UNCHANGED <<size, reservations, reserve, written, diskMax, raced>>

(* ... then the map.                                                        *)
ReserveMapsSize(t) ==
    /\ Step(t, "mapping", "download")
    /\ reservations' = [reservations EXCEPT ![t] = size[t]]
    /\ UNCHANGED <<size, diskReserved, reserve, written, diskMax, raced>>

ReserveMap(t) ==
    /\ Step(t, "mapping", "download")
    /\ reservations' = [reservations EXCEPT ![t] = Need(size[t])]
    /\ UNCHANGED <<size, diskReserved, reserve, written, diskMax, raced>>

(* The torrent is written completely, into a directory that a failed run of *)
(* the same job may have filled in part; or the download fails and leaves   *)
(* what it wrote. Staging copies it and adds recovery data.                 *)
Download(t) ==
    /\ Step(t, "download", "stage")
    /\ written' = [written EXCEPT ![t] = size[t]]
    /\ UNCHANGED <<size, budgetVars, diskMax, raced>>

DownloadFails(t) ==
    /\ Step(t, "download", "deleting")
    /\ \E left \in written[t]..size[t] : written' = [written EXCEPT ![t] = left]
    /\ UNCHANGED <<size, budgetVars, diskMax, raced>>

Stage(t) ==
    /\ Step(t, "stage", "staged")
    /\ written' = [written EXCEPT ![t] = Need(size[t])]
    /\ UNCHANGED <<size, budgetVars, diskMax, raced>>

(* The task ends after its download: its directories are removed first.     *)
Finish(t) ==
    /\ pc[t] \in {"stage", "staged"}
    /\ pc' = [pc EXCEPT ![t] = "deleting"]
    /\ written' = [written EXCEPT ![t] = 0]
    /\ UNCHANGED <<size, budgetVars, diskMax, raced>>

(* ReleaseDisk: the map entry, if there is one ...                          *)
ReleaseDelete(t) ==
    /\ Step(t, "deleting", IF reservations[t] = 0 THEN "idle" ELSE "subtracting")
    /\ reserve' = [reserve EXCEPT ![t] = reservations[t]]
    /\ reservations' = [reservations EXCEPT ![t] = 0]
    /\ UNCHANGED <<size, diskReserved, written, diskMax, raced>>

(* ... then the counter.                                                    *)
ReleaseTwice(t) ==
    /\ Step(t, "subtracting", "idle")
    /\ diskReserved' = diskReserved - 2 * reserve[t]
    /\ reserve' = [reserve EXCEPT ![t] = 0]
    /\ UNCHANGED <<size, reservations, written, diskMax, raced>>

ReleaseSubtract(t) ==
    /\ Step(t, "subtracting", "idle")
    /\ diskReserved' = diskReserved - reserve[t]
    /\ reserve' = [reserve EXCEPT ![t] = 0]
    /\ UNCHANGED <<size, reservations, written, diskMax, raced>>

(* The site's configuration: a limit of 0 leaves the old one in force.      *)
InitDiskLimit(max) ==
    /\ diskMax' = IF max > 0 THEN max ELSE diskMax
    /\ UNCHANGED <<pc, size, budgetVars, written, raced>>

Next ==
    \/ \E t \in Tasks :
          \/ Accept(t) \/ CheckOk(t) \/ CheckUnknown(t) \/ CheckFails(t) \/ FromTorrentFile(t)
          \/ ReserveAdd(t) \/ ReserveMap(t) \/ Download(t) \/ DownloadFails(t)
          \/ Stage(t) \/ Finish(t) \/ ReleaseDelete(t) \/ ReleaseSubtract(t)
    \/ \E max \in Limits : InitDiskLimit(max)

Spec == Init /\ [][Next]_vars

-----------------------------------------------------------------------------
(* Properties.                                                              *)

(* What the counter holds for a job, and what its check has promised it.    *)
Owed == [t \in Tasks |->
    reservations[t] + reserve[t] + (IF pc[t] = "mapping" THEN Need(size[t]) ELSE 0)]
Passed == [t \in Tasks |-> IF pc[t] = "checked" THEN Need(size[t]) ELSE 0]

(* The counter is the sum of the map's entries, but for calls caught        *)
(* between their two halves: whatever the interleaving, nothing leaks from  *)
(* the budget or is given back twice, and an idle agent has reserved 0.     *)
ReservationsBalance ==
    /\ TypeOK
    /\ diskReserved = SumFunction(Owed)

(* Space promised to jobs: what is reserved and what was checked and is     *)
(* about to be reserved.                                                    *)
Promised == diskReserved + SumFunction(Passed)

(* As long as no two jobs check at the same time and every job checks, the  *)
(* pre-flight check never promises more than there is.                      *)
NoOvercommitUnlessRaced == ~raced => Promised <= Capacity
=============================================================================
