----------------------------- MODULE NntpUpload -----------------------------
(***************************************************************************)
(* services.UploadToUsenet (services/usenet.go): one file cut into chunks,  *)
(* posted by a pool of NNTP workers.                                        *)
(*                                                                          *)
(* Goroutines: the dispatcher (reads the file, feeds jobs), one nntpWorker  *)
(* per connection, the closer (wg.Wait, close(results)) and the caller      *)
(* itself, which collects segments and computes the return value.           *)
(*                                                                          *)
(* Chunks are numbered in file order and only the dispatcher sends on jobs, *)
(* so the FIFO channel jobs always holds the interval taken+1 .. sent and   *)
(* is represented by these two counters.                                    *)
(***************************************************************************)
EXTENDS Integers, Sequences, FiniteSets

CONSTANTS Workers,      \* nntpWorker goroutines: NNTP_CONNECTIONS of them
          TotalChunks,  \* ceil(stat.Size() / ChunkSize)
          FileChunks,   \* chunks the file still holds when it is read
          MaxRetries    \* attempts per chunk (3 in the code)

ASSUME UploadAssumption ==
    /\ IsFiniteSet(Workers)
    /\ TotalChunks \in Nat
    /\ FileChunks \in 0..TotalChunks
    /\ MaxRetries \in Nat \ {0}

Chunk == 1..TotalChunks
NoChunk == 0

(* make(chan ..., workerCount*2): the buffer of both jobs and results.      *)
ChanCap == 2 * Cardinality(Workers)

VARIABLES disp,      \* dispatcher: "read" (loop head), "send" (blocked in jobs <-), "done" (jobs closed)
          sent,      \* chunks sent on jobs so far
          taken,     \* chunks received from jobs so far
          wpc,       \* worker: "recv", "try", "send", "done", "failed"
          hand,      \* the chunk a worker holds
          attempt,   \* a worker's current attempt
          conn,      \* whether a worker holds an open connection
          results,   \* the results channel
          resClosed, \* results is closed
          errs,      \* number of errors buffered in errs (capacity 1)
          segments,  \* how often each chunk was appended to segments
          ids,       \* Message-IDs generated for each chunk so far
          posted,    \* articles the server stored, as <<chunk, Message-ID>>
          cancelled, \* ctx.Err() != nil
          ret        \* "running", then what UploadToUsenet returned

dispVars == <<disp, sent>>
workVars == <<taken, wpc, hand, attempt, conn, ids, posted>>
chanVars == <<results, resClosed, errs>>
callVars == <<segments, ret>>
vars == <<dispVars, workVars, chanVars, callVars, cancelled>>

TypeOK ==
    /\ disp \in {"read", "send", "done"}
    /\ sent \in 0..TotalChunks
    /\ taken \in 0..TotalChunks
    /\ wpc \in [Workers -> {"recv", "try", "send", "done", "failed"}]
    /\ hand \in [Workers -> Chunk \union {NoChunk}]
    /\ attempt \in [Workers -> 1..(MaxRetries + 1)]
    /\ conn \in [Workers -> BOOLEAN]
    /\ results \in Seq(Chunk)
    /\ resClosed \in BOOLEAN
    /\ errs \in 0..1
    /\ segments \in [Chunk -> Nat]
    /\ ids \in [Chunk -> Nat]
    /\ posted \subseteq Chunk \X Nat
    /\ cancelled \in BOOLEAN
    /\ ret \in {"running", "ok", "error", "cancelled"}

Init ==
    /\ disp = "read"
    /\ sent = 0
    /\ taken = 0
    /\ wpc = [w \in Workers |-> "recv"]
    /\ hand = [w \in Workers |-> NoChunk]
    /\ attempt = [w \in Workers |-> 1]
    /\ conn = [w \in Workers |-> FALSE]
    /\ results = <<>>
    /\ resClosed = FALSE
    /\ errs = 0
    /\ segments = [c \in Chunk |-> 0]
    /\ ids = [c \in Chunk |-> 0]
    /\ posted = {}
    /\ cancelled = FALSE
    /\ ret = "running"

-----------------------------------------------------------------------------
(* The dispatcher.                                                          *)

(* The loop head: i <= totalChunks, then ctx.Err().                         *)
KeepReading == sent < TotalChunks /\ ~cancelled

(* Loop exit: every chunk dispatched, or ctx cancelled; defer close(jobs).  *)
DispatchEnd ==
    /\ disp = "read"
    /\ ~KeepReading
    /\ disp' = "done"
    /\ UNCHANGED <<sent, workVars, chanVars, callVars, cancelled>>

(* file.Read fills a buffer; after the caller returned the file is closed.  *)
DispatchRead ==
    /\ disp = "read"
    /\ KeepReading
    /\ sent < FileChunks /\ ret = "running"
    /\ disp' = "send"
    /\ UNCHANGED <<sent, workVars, chanVars, callVars, cancelled>>

(* n == 0: the file is shorter than Stat said; the loop breaks, no error.   *)
DispatchEOF ==
    /\ disp = "read"
    /\ KeepReading
    /\ sent >= FileChunks /\ ret = "running"
    /\ disp' = "done"
    /\ UNCHANGED <<sent, workVars, chanVars, callVars, cancelled>>

(* A read error: a non-blocking send on errs, then close(jobs).             *)
DispatchReadError ==
    /\ disp = "read"
    /\ KeepReading
    /\ disp' = "done"
    /\ errs' = 1
    /\ UNCHANGED <<sent, workVars, results, resClosed, callVars, cancelled>>

(* jobs <- UploadJob{...}: not a select, so it ignores ctx while blocked.   *)
DispatchSend ==
    /\ disp = "send"
    /\ sent - taken < ChanCap
    /\ sent' = sent + 1
    /\ disp' = "read"
    /\ UNCHANGED <<workVars, chanVars, callVars, cancelled>>

Dispatcher ==
    DispatchEnd \/ DispatchRead \/ DispatchEOF \/ DispatchReadError \/ DispatchSend

-----------------------------------------------------------------------------
(* nntpWorker.                                                              *)

(* range jobs yields a chunk; its Message-ID is generated once, before the  *)
(* attempts.                                                                *)
Receive(w) ==
    /\ wpc[w] = "recv"
    /\ taken < sent /\ ~cancelled
    /\ taken' = taken + 1
    /\ hand' = [hand EXCEPT ![w] = taken + 1]
    /\ ids' = [ids EXCEPT ![taken + 1] = @ + 1]
    /\ attempt' = [attempt EXCEPT ![w] = 1]
    /\ wpc' = [wpc EXCEPT ![w] = "try"]
    /\ UNCHANGED <<dispVars, conn, posted, chanVars, callVars, cancelled>>

LeaveWithoutReceiving(w) ==
    /\ wpc[w] = "recv"
    /\ taken < sent /\ cancelled
    /\ wpc' = [wpc EXCEPT ![w] = "done"]
    /\ UNCHANGED <<dispVars, taken, hand, attempt, conn, ids, posted, chanVars, callVars, cancelled>>

(* The chunk arrives after cancellation: plain return, the chunk is lost    *)
(* and an open connection is neither QUIT nor closed.                       *)
ReceiveCancelled(w) ==
    /\ wpc[w] = "recv"
    /\ taken < sent /\ cancelled
    /\ taken' = taken + 1
    /\ wpc' = [wpc EXCEPT ![w] = "done"]
    /\ UNCHANGED <<dispVars, hand, attempt, conn, ids, posted, chanVars, callVars, cancelled>>

WorkerEndKeepsConn(w) ==
    /\ wpc[w] = "recv"
    /\ taken = sent /\ disp = "done"
    /\ wpc' = [wpc EXCEPT ![w] = "done"]
    /\ UNCHANGED <<dispVars, taken, hand, attempt, conn, ids, posted, chanVars, callVars, cancelled>>

(* jobs closed and drained: QUIT, Close, wg.Done.                           *)
WorkerEnd(w) ==
    /\ wpc[w] = "recv"
    /\ taken = sent /\ disp = "done"
    /\ wpc' = [wpc EXCEPT ![w] = "done"]
    /\ conn' = [conn EXCEPT ![w] = FALSE]
    /\ UNCHANGED <<dispVars, taken, hand, attempt, ids, posted, chanVars, callVars, cancelled>>

(* connectNNTP: dial, greeting and AUTHINFO succeed.                        *)
Connect(w) ==
    /\ wpc[w] = "try" /\ attempt[w] <= MaxRetries
    /\ ~conn[w]
    /\ conn' = [conn EXCEPT ![w] = TRUE]
    /\ UNCHANGED <<dispVars, taken, wpc, hand, attempt, ids, posted, chanVars, callVars, cancelled>>

ConnectFailsUnbounded(w) ==
    /\ wpc[w] = "try" /\ attempt[w] <= MaxRetries + 1
    /\ ~conn[w]
    /\ attempt' = [attempt EXCEPT ![w] = @ + 1]
    /\ UNCHANGED <<dispVars, taken, wpc, hand, conn, ids, posted, chanVars, callVars, cancelled>>

(* connectNNTP fails: backoff(attempt), next attempt.                       *)
ConnectFails(w) ==
    /\ wpc[w] = "try" /\ attempt[w] <= MaxRetries
    /\ ~conn[w]
    /\ attempt' = [attempt EXCEPT ![w] = @ + 1]
    /\ UNCHANGED <<dispVars, taken, wpc, hand, conn, ids, posted, chanVars, callVars, cancelled>>

(* The article a worker is posting: its chunk and the chunk's Message-ID.   *)
Article(w) == <<hand[w], ids[hand[w]]>>

(* uploadChunk succeeds: the server answered 240, so it holds the article.  *)
Post(w) ==
    /\ wpc[w] = "try" /\ attempt[w] <= MaxRetries
    /\ conn[w]
    /\ posted' = posted \union {Article(w)}
    /\ wpc' = [wpc EXCEPT ![w] = "send"]
    /\ UNCHANGED <<dispVars, taken, hand, attempt, conn, ids, chanVars, callVars, cancelled>>

PostFailsNewId(w) ==
    /\ wpc[w] = "try" /\ attempt[w] <= MaxRetries
    /\ conn[w]
    /\ posted' \in {posted, posted \union {Article(w)}}
    /\ ids' = [ids EXCEPT ![hand[w]] = @ + 1]
    /\ conn' = [conn EXCEPT ![w] = FALSE]
    /\ attempt' = [attempt EXCEPT ![w] = @ + 1]
    /\ UNCHANGED <<dispVars, taken, wpc, hand, chanVars, callVars, cancelled>>

(* uploadChunk fails before or after the server stored the article (the 240 *)
(* may be what got lost): close the connection, backoff, next attempt.      *)
PostFails(w) ==
    /\ wpc[w] = "try" /\ attempt[w] <= MaxRetries
    /\ conn[w]
    /\ posted' \in {posted, posted \union {Article(w)}}
    /\ conn' = [conn EXCEPT ![w] = FALSE]
    /\ attempt' = [attempt EXCEPT ![w] = @ + 1]
    /\ UNCHANGED <<dispVars, taken, wpc, hand, ids, chanVars, callVars, cancelled>>

GiveUpBlocking(w) ==
    /\ wpc[w] = "try" /\ attempt[w] > MaxRetries
    /\ errs = 0
    /\ errs' = 1
    /\ wpc' = [wpc EXCEPT ![w] = "failed"]
    /\ hand' = [hand EXCEPT ![w] = NoChunk]
    /\ UNCHANGED <<dispVars, taken, attempt, conn, ids, posted, results, resClosed, callVars, cancelled>>

(* All attempts used: a non-blocking send on errs, and the worker exits.    *)
GiveUp(w) ==
    /\ wpc[w] = "try" /\ attempt[w] > MaxRetries
    /\ errs' = 1
    /\ wpc' = [wpc EXCEPT ![w] = "failed"]
    /\ hand' = [hand EXCEPT ![w] = NoChunk]
    /\ UNCHANGED <<dispVars, taken, attempt, conn, ids, posted, results, resClosed, callVars, cancelled>>

(* results <- NZBSegment{...}                                               *)
SendResult(w) ==
    /\ wpc[w] = "send"
    /\ Len(results) < ChanCap
    /\ results' = Append(results, hand[w])
    /\ hand' = [hand EXCEPT ![w] = NoChunk]
    /\ wpc' = [wpc EXCEPT ![w] = "recv"]
    /\ UNCHANGED <<dispVars, taken, attempt, conn, ids, posted, resClosed, errs, callVars, cancelled>>

Worker(w) ==
    \/ Receive(w) \/ ReceiveCancelled(w) \/ WorkerEnd(w)
    \/ Connect(w) \/ ConnectFails(w) \/ Post(w) \/ PostFails(w)
    \/ GiveUp(w) \/ SendResult(w)

-----------------------------------------------------------------------------
(* The closer and the caller.                                               *)

Exited(w) == wpc[w] \in {"done", "failed"}

(* wg.Wait(); close(results)                                                *)
CloseResults ==
    /\ ~resClosed
    /\ \A w \in Workers : Exited(w)
    /\ resClosed' = TRUE
    /\ UNCHANGED <<dispVars, workVars, results, errs, callVars, cancelled>>

(* for seg := range results: append, or drain without appending once ctx is *)
(* cancelled.                                                               *)
Collect ==
    /\ ret = "running"
    /\ results # <<>>
    /\ results' = Tail(results)
    /\ segments' = IF cancelled THEN segments
                   ELSE [segments EXCEPT ![Head(results)] = @ + 1]
    /\ UNCHANGED <<dispVars, workVars, resClosed, errs, ret, cancelled>>

ReturnIgnoresErrs ==
    /\ ret = "running"
    /\ results = <<>> /\ resClosed
    /\ ret' = IF cancelled THEN "cancelled" ELSE "ok"
    /\ UNCHANGED <<dispVars, workVars, chanVars, segments, cancelled>>

ReturnIgnoresCtx ==
    /\ ret = "running"
    /\ results = <<>> /\ resClosed
    /\ ret' = IF errs > 0 THEN "error" ELSE "ok"
    /\ errs' = 0
    /\ UNCHANGED <<dispVars, workVars, results, resClosed, segments, cancelled>>

(* results closed and drained: ctx.Err() first, then the errs channel, and  *)
(* only then the segments.                                                  *)
Return ==
    /\ ret = "running"
    /\ results = <<>> /\ resClosed
    /\ ret' = IF cancelled THEN "cancelled" ELSE IF errs > 0 THEN "error" ELSE "ok"
    /\ errs' = IF ret' = "error" THEN 0 ELSE errs
    /\ UNCHANGED <<dispVars, workVars, results, resClosed, segments, cancelled>>

(* The site or the user cancels the task: ctx.Err() is non-nil from now on. *)
Cancel ==
    /\ ~cancelled
    /\ cancelled' = TRUE
    /\ UNCHANGED <<dispVars, workVars, chanVars, callVars>>

-----------------------------------------------------------------------------
Next ==
    \/ Dispatcher
    \/ \E w \in Workers : Worker(w)
    \/ CloseResults
    \/ Collect
    \/ Return
    \/ Cancel

Spec == Init /\ [][Next]_vars

(* The Go scheduler runs every goroutine that can run, and the NNTP server  *)
(* eventually answers or drops the connection. Nothing obliges the user to  *)
(* cancel.                                                                  *)
Fairness ==
    /\ WF_vars(Dispatcher)
    /\ \A w \in Workers : WF_vars(Worker(w))
    /\ WF_vars(CloseResults)
    /\ WF_vars(Collect)
    /\ WF_vars(Return)

FairSpec == Spec /\ Fairness

-----------------------------------------------------------------------------
(* Properties.                                                              *)

(* A nil error means the segment list names every chunk of the file, each   *)
(* exactly once: no chunk is lost to a worker that gave up, to a read error *)
(* or to the draining of a cancelled upload.                                *)
SuccessIsComplete ==
    ret = "ok" => \A c \in Chunk : segments[c] = IF c <= FileChunks THEN 1 ELSE 0

(* Every segment in the list names an article the server really stored,     *)
(* under the Message-ID it was stored with, and a chunk is never stored     *)
(* under two Message-IDs however often its upload was retried.              *)
SegmentsNamePostedArticles ==
    /\ \A c \in Chunk : segments[c] > 0 => <<c, ids[c]>> \in posted
    /\ \A p, q \in posted : p[1] = q[1] => p = q

(* When the caller gets segments or an upload error back, no connection of  *)
(* the pool is still open: the next holder of UploadSlot gets the whole     *)
(* connection budget.                                                       *)
ConnectionsReleased ==
    ret \in {"ok", "error"} => \A w \in Workers : ~conn[w]

(* UploadToUsenet always returns: no order of failing workers, full         *)
(* channels and cancellation leaves the caller in range results for ever.   *)
(* And the dispatcher goroutine, blocked in an unconditional jobs <- send,  *)
(* ends unless every worker has given up on a chunk.                        *)
NothingHangs ==
    <>(/\ ret # "running"
       /\ disp = "done" \/ \A w \in Workers : wpc[w] = "failed")

-----------------------------------------------------------------------------
(* Refinement: the goroutines implement UploadPromise.                      *)
Promise == INSTANCE UploadPromise WITH
    Chunks  <- 1..FileChunks,
    stored  <- {p[1] : p \in posted},
    nzb     <- IF ret = "ok" THEN {c \in Chunk : segments[c] > 0} ELSE {},
    outcome <- CASE ret = "running" -> "running"
                 [] ret = "ok" -> "ok"
                 [] OTHER -> "failed"

(* The detailed upload implements the abstract promise step by step.        *)
PromiseKept == Promise!Spec
=============================================================================
