---------------------------- MODULE UploadPromise ----------------------------
(***************************************************************************)
(* What services.UploadToUsenet promises its caller, with no goroutines and *)
(* no channels: articles reach the server one by one, and the call ends     *)
(* either with a segment list naming every chunk, all of them stored, or    *)
(* with an error and no list at all.                                        *)
(***************************************************************************)
CONSTANT Chunks      \* the chunks the file holds

VARIABLES stored,    \* chunks whose article the server holds
          nzb,       \* chunks named by the returned segment list
          outcome    \* "running", "ok" or "failed"

vars == <<stored, nzb, outcome>>

TypeOK ==
    /\ stored \subseteq Chunks
    /\ nzb \subseteq Chunks
    /\ outcome \in {"running", "ok", "failed"}

Init ==
    /\ stored = {}
    /\ nzb = {}
    /\ outcome = "running"

Store(c) ==
    /\ outcome = "running"
    /\ stored' = stored \union {c}
    /\ UNCHANGED <<nzb, outcome>>

ReturnOk ==
    /\ outcome = "running"
    /\ stored = Chunks
    /\ nzb' = Chunks
    /\ outcome' = "ok"
    /\ UNCHANGED stored

ReturnFailed ==
    /\ outcome = "running"
    /\ outcome' = "failed"
    /\ UNCHANGED <<stored, nzb>>

Next ==
    \/ \E c \in Chunks : Store(c)
    \/ ReturnOk
    \/ ReturnFailed

Spec == Init /\ [][Next]_vars
=============================================================================
