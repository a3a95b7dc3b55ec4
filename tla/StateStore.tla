----------------------------- MODULE StateStore -----------------------------
(***************************************************************************)
(* The job map GlobalState.Jobs and its file state.json: task goroutines    *)
(* change the map under its lock and then save it, each save being a        *)
(* marshal under the read lock and, outside any lock, an os.WriteFile: open *)
(* with O_TRUNC, then write from offset 0.  At start the file is loaded,    *)
(* and download directories no job refers to are swept away.                *)
(*                                                                          *)
(* The text of the file is a sequence of tokens, enough to tell a whole     *)
(* JSON object from one with a tail or without its end.  A job's phase and  *)
(* details are reduced to the room they take.                               *)
(*                                                                          *)
(* Of the disk the module has the outer directories dl-<job>, which nothing *)
(* but the sweep removes. DownloadedPath is a directory inside one; what it *)
(* holds, and its removal at the end of processTask, is in TaskPipeline.    *)
(*                                                                          *)
(* RestartProofs extends this module and Watchdog, so the names here are    *)
(* others than there.                                                       *)
(***************************************************************************)
EXTENDS Integers, Sequences, SequencesExt

CONSTANTS
    Names,        \* job names, in the order json.Marshal sorts them
    MaxCrashes

Jobs == Range(Names)     \* each job is driven by one task goroutine

ASSUME StoreAssumption ==
    /\ Names \in Seq(Jobs) /\ Len(Names) > 0 /\ IsInjective(Names)
    /\ Jobs \cap {"begin", "end", "details", "path"} = {}
    /\ MaxCrashes \in Nat

VARIABLES
    phase,     \* of the process: "down", "loaded" (before the sweep), "up"
    mem,       \* GlobalState.Jobs
    pc,        \* each goroutine: "idle", "marshal", "open" or "write"
    snap,      \* the data a goroutine is about to write
    file,      \* state.json
    shells,    \* jobs with an outer directory dl-<job>, the parent of DownloadedPath
    stale,     \* history: the last save failed or another overlapped it
    recorded,  \* history: jobs whose DownloadedPath was ever recorded
    kept,      \* history: paths the running process has loaded or recorded
    crashes

storeVars == <<phase, mem, pc, snap, file, shells, stale, recorded, kept, crashes>>

Absent == [known |-> FALSE, path |-> FALSE, long |-> FALSE]
Entries == {Absent} \cup [known : {TRUE}, path : BOOLEAN, long : BOOLEAN]
States == [Jobs -> Entries]
NoJobs == [j \in Jobs |-> Absent]
Paths(m) == {j \in Jobs : m[j].path}

-----------------------------------------------------------------------------
(* The text of a job map between its braces, and what LoadState makes of a   *)
(* text.                                                                     *)

If(cond, s) == IF cond THEN s ELSE <<>>

Entry(m, j) == If(m[j].known, <<j>> \o If(m[j].long, <<"details">>) \o If(m[j].path, <<"path">>))

MarshalIndent(m) ==
    <<"begin">> \o FlattenSeq([i \in DOMAIN Names |-> Entry(m, Names[i])]) \o <<"end">>

Valid(text) == \E m \in States : MarshalIndent(m) = text

Unmarshal(text) == IF Valid(text) THEN CHOOSE m \in States : MarshalIndent(m) = text ELSE NoJobs

(* A write from offset 0 leaves what lies behind its end.                    *)
Overwrite(new, old) == new \o SubSeq(old, Len(new) + 1, Len(old))

-----------------------------------------------------------------------------

StoreTypeOK ==
    /\ phase \in {"down", "loaded", "up"}
    /\ mem \in States
    /\ pc \in [Jobs -> {"idle", "marshal", "open", "write"}]
    /\ \A j \in Jobs : snap[j] = <<>> \/ Valid(snap[j])
    /\ file \in Seq(Jobs \cup {"begin", "end", "details", "path"})
    /\ shells \subseteq Jobs /\ recorded \subseteq Jobs /\ kept \subseteq Jobs
    /\ stale \in BOOLEAN
    /\ crashes \in 0..MaxCrashes

StoreInit ==
    /\ phase = "down" /\ mem = NoJobs
    /\ pc = [j \in Jobs |-> "idle"] /\ snap = [j \in Jobs |-> <<>>]
    /\ file = <<>> /\ shells = {}
    /\ stale = TRUE /\ recorded = {} /\ kept = {}
    /\ crashes = 0

-----------------------------------------------------------------------------
(* Start.                                                                    *)

LoadState ==
    /\ phase = "down"
    /\ phase' = "loaded"
    /\ mem' = Unmarshal(file)
    /\ kept' = Paths(mem')
    /\ stale' = ~Valid(file)
    /\ UNCHANGED <<pc, snap, file, shells, recorded, crashes>>

Referenced == {j \in shells : mem[j].path}

SweepOrphanDownloads ==
    /\ phase = "loaded"
    /\ phase' = "up"
    /\ shells' = Referenced
    /\ UNCHANGED <<mem, pc, snap, file, stale, recorded, kept, crashes>>

-----------------------------------------------------------------------------
(* A task goroutine.                                                         *)

Busy == {j \in Jobs : pc[j] # "idle"}

At(j, from) == phase = "up" /\ pc[j] = from
Goto(j, to) == pc' = [pc EXCEPT ![j] = to]

(* The torrent client creates dl-<job> at the start of a download.           *)
StartDownload(j) ==
    /\ At(j, "idle")
    /\ shells' = shells \cup {j}
    /\ UNCHANGED <<phase, mem, pc, snap, file, stale, recorded, kept, crashes>>

(* The part of UpdateState under the lock: phase and details change, what    *)
(* UpdateJobMeta recorded stays.                                             *)

\* Mutant: the entry is replaced, not updated.
FreshEntry(j, long) == [known |-> TRUE, path |-> FALSE, long |-> long]

UpdatedEntry(j, long) == [known |-> TRUE, path |-> mem[j].path, long |-> long]

UpdateState(j) ==
    /\ At(j, "idle")
    /\ \E long \in BOOLEAN : mem' = [mem EXCEPT ![j] = UpdatedEntry(j, long)]
    /\ Goto(j, "marshal")
    /\ stale' = (Busy # {})
    /\ UNCHANGED <<phase, snap, file, shells, recorded, kept, crashes>>

\* Mutant: the job is not looked up first.
AnyJob(j) == TRUE

JobExists(j) == mem[j].known

UpdateJobMeta(j) ==
    /\ At(j, "idle") /\ j \in shells
    /\ JobExists(j)
    /\ mem' = [mem EXCEPT ![j].path = TRUE]
    /\ recorded' = recorded \cup {j} /\ kept' = kept \cup {j}
    /\ Goto(j, "marshal")
    /\ stale' = (Busy # {})
    /\ UNCHANGED <<phase, snap, file, shells, crashes>>

(* SaveState.                                                                *)

Marshal(j) ==
    /\ At(j, "marshal")
    /\ snap' = [snap EXCEPT ![j] = MarshalIndent(mem)]
    /\ Goto(j, "open")
    /\ UNCHANGED <<phase, mem, file, shells, stale, recorded, kept, crashes>>

\* Mutant: the file is opened without O_TRUNC.
NotTruncated == file

Truncated == <<>>

Open(j) ==
    /\ At(j, "open")
    /\ file' = Truncated
    /\ Goto(j, "write")
    /\ UNCHANGED <<phase, mem, snap, shells, stale, recorded, kept, crashes>>

Write(j) ==
    /\ At(j, "write")
    /\ file' = Overwrite(snap[j], file)
    /\ snap' = [snap EXCEPT ![j] = <<>>]
    /\ Goto(j, "idle")
    /\ UNCHANGED <<phase, mem, shells, stale, recorded, kept, crashes>>

\* Mutant: written in pieces, and given up between two of them.
WritesInPieces(j) ==
    /\ At(j, "write")
    /\ \E n \in 0..Len(snap[j]) - 1 : file' = Overwrite(SubSeq(snap[j], 1, n), file)
    /\ snap' = [snap EXCEPT ![j] = <<>>]
    /\ Goto(j, "idle")
    /\ stale' = TRUE
    /\ UNCHANGED <<phase, mem, shells, recorded, kept, crashes>>

(* The disk is full: what lies beyond the end of the file cannot be written. *)
(* The error is ignored.                                                     *)
WriteFails(j) ==
    /\ At(j, "write")
    /\ \E n \in Len(file)..Len(snap[j]) - 1 : file' = SubSeq(snap[j], 1, n)
    /\ snap' = [snap EXCEPT ![j] = <<>>]
    /\ Goto(j, "idle")
    /\ stale' = TRUE
    /\ UNCHANGED <<phase, mem, shells, recorded, kept, crashes>>

Crash ==
    /\ phase = "up" /\ crashes < MaxCrashes
    /\ phase' = "down" /\ crashes' = crashes + 1
    /\ mem' = NoJobs /\ kept' = {}
    /\ pc' = [j \in Jobs |-> "idle"] /\ snap' = [j \in Jobs |-> <<>>]
    /\ UNCHANGED <<file, shells, stale, recorded>>

StoreNext == \/ LoadState \/ SweepOrphanDownloads \/ Crash
             \/ \E j \in Jobs : \/ StartDownload(j) \/ UpdateState(j) \/ UpdateJobMeta(j)
                                \/ Marshal(j) \/ Open(j) \/ Write(j) \/ WriteFails(j)

StoreSpec == StoreInit /\ [][StoreNext]_storeVars

-----------------------------------------------------------------------------
(* Properties                                                                *)

(* Whatever the saves of several goroutines do to each other, state.json is  *)
(* rejected as a whole or names only paths that were recorded and whose      *)
(* outer directory dl-<job> is there: the resume check at main.go:998 never  *)
(* sees a job put together from two saves. (Whether the path itself is still *)
(* there is what that check then asks of the disk.) And when no save is      *)
(* under way and the last one ran alone and to its end, a restart finds      *)
(* exactly what memory holds.                                                *)
FileTrustworthy ==
    /\ Valid(file) => Paths(Unmarshal(file)) \subseteq recorded \cap shells
    /\ phase = "up" /\ Busy = {} /\ ~stale => Valid(file) /\ Unmarshal(file) = mem

(* A path once loaded or recorded is not forgotten while the process runs,   *)
(* and the sweep left the outer directory dl-<job> it lies in: neither the   *)
(* sweep nor another goroutine's update touches a download that can be       *)
(* resumed. This is about one process: a path that a crash finds in no whole *)
(* state.json is not loaded, and the next sweep removes its directory.       *)
ResumableKept ==
    /\ StoreTypeOK
    /\ kept \subseteq Paths(mem) \cap shells
=============================================================================
