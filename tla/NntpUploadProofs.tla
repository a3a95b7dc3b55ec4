-------------------------- MODULE NntpUploadProofs --------------------------
(***************************************************************************)
(* Proofs about NntpUpload, for any number of workers, chunks and attempts. *)
(* The inductive invariant follows each chunk through the goroutines: it is *)
(* in one place at a time, and in a run that was neither cancelled nor saw  *)
(* an error it never drops out.                                             *)
(***************************************************************************)
EXTENDS NntpUpload, SequenceTheorems, TLAPS

(* Chunks move along the channel jobs in file order.                        *)
Dispatched ==
    /\ taken <= sent
    /\ sent <= FileChunks
    /\ disp = "send" => sent < FileChunks

(* A worker holds a chunk it received exactly while it works on it.         *)
Hands ==
    \A w \in Workers :
        /\ hand[w] <= taken
        /\ hand[w] # NoChunk <=> wpc[w] \in {"try", "send"}

InResults(c) == \E i \in 1..Len(results) : results[i] = c
InHand(c) == \E w \in Workers : hand[w] = c

(* A chunk is in at most one place: one hand, one slot of results, or the   *)
(* segment list, and none before it was received.                           *)
Once ==
    /\ \A v, w \in Workers : hand[v] = hand[w] /\ hand[w] # NoChunk => v = w
    /\ \A i, j \in 1..Len(results) : results[i] = results[j] => i = j
    /\ \A i \in 1..Len(results) : results[i] <= taken
    /\ \A c \in Chunk :
          /\ InHand(c) => ~InResults(c) /\ segments[c] = 0
          /\ InResults(c) => segments[c] = 0
          /\ segments[c] \in {0, 1}
          /\ segments[c] = 1 => c <= taken

(* Neither cancelled nor failed so far, and still running.                  *)
Clean == ~cancelled /\ errs = 0 /\ ret = "running"

(* A clean run has every received chunk somewhere.                          *)
Covered ==
    Clean => \A c \in Chunk : c <= taken => InHand(c) \/ InResults(c) \/ segments[c] = 1

(* Why goroutines end, in a clean run.                                      *)
Endings ==
    /\ disp = "done" /\ Clean => sent = FileChunks
    /\ \A w \in Workers : wpc[w] = "done" => cancelled \/ (disp = "done" /\ taken = sent)
    /\ \A w \in Workers : wpc[w] = "failed" => ~Clean
    /\ resClosed => \A w \in Workers : Exited(w)
    /\ ret # "running" => resClosed

Inv == TypeOK /\ Dispatched /\ Hands /\ Once /\ Covered /\ Endings

-----------------------------------------------------------------------------
(* What the assumption says about the numbers.                              *)
LEMMA Constants ==
    /\ TotalChunks \in Nat /\ FileChunks \in Nat /\ FileChunks <= TotalChunks
    /\ MaxRetries \in Nat /\ MaxRetries > 0
BY UploadAssumption DEF UploadAssumption

(* The types, with the two facts they rest on.                              *)
LEMMA TypeStep ==
    TypeOK /\ Dispatched /\ Hands /\ [Next]_vars => TypeOK' /\ Dispatched' /\ Hands'
<1> SUFFICES ASSUME TypeOK, Dispatched, Hands, [Next]_vars
             PROVE  TypeOK' /\ Dispatched' /\ Hands'
  OBVIOUS
<1> USE Constants DEF Dispatched, Hands, NoChunk, Chunk, dispVars, workVars, chanVars, callVars
<1>1. CASE Dispatcher
  <2>a. TypeOK'
    <3>1. UNCHANGED <<workVars, results, resClosed, callVars, cancelled>>
      BY <1>1 DEF Dispatcher, DispatchEnd, DispatchRead, DispatchEOF, DispatchReadError,
                  DispatchSend
    <3>2. CASE DispatchEnd
      BY <3>1, <3>2 DEF TypeOK, DispatchEnd
    <3>3. CASE DispatchRead
      BY <3>1, <3>3 DEF TypeOK, DispatchRead, KeepReading
    <3>4. CASE DispatchEOF
      BY <3>1, <3>4 DEF TypeOK, DispatchEOF, KeepReading
    <3>5. CASE DispatchReadError
      BY <3>1, <3>5 DEF TypeOK, DispatchReadError, KeepReading
    <3>6. CASE DispatchSend
      BY <3>1, <3>6 DEF TypeOK, DispatchSend
    <3> QED
      BY <1>1, <3>2, <3>3, <3>4, <3>5, <3>6 DEF Dispatcher
  <2>b. Dispatched'
    BY <1>1, SMTT(30) DEF TypeOK, Dispatcher, DispatchEnd, DispatchRead, DispatchEOF, DispatchReadError,
                DispatchSend, KeepReading
  <2>c. Hands'
    BY <1>1 DEF TypeOK, Dispatcher, DispatchEnd, DispatchRead, DispatchEOF, DispatchReadError,
                DispatchSend, KeepReading
  <2> QED
    BY <2>a, <2>b, <2>c
<1>2. ASSUME NEW w \in Workers, Receive(w)
      PROVE  TypeOK' /\ Dispatched' /\ Hands'
  <2>a. TypeOK'
    BY <1>2, SMTT(30) DEF TypeOK, Receive
  <2>b. Dispatched'
    BY <1>2 DEF TypeOK, Receive
  <2>c. Hands'
    BY <1>2 DEF TypeOK, Receive
  <2> QED
    BY <2>a, <2>b, <2>c
<1>3. ASSUME NEW w \in Workers, ReceiveCancelled(w)
      PROVE  TypeOK' /\ Dispatched' /\ Hands'
  <2>a. TypeOK'
    BY <1>3 DEF TypeOK, ReceiveCancelled
  <2>b. Dispatched'
    BY <1>3 DEF TypeOK, ReceiveCancelled
  <2>c. Hands'
    BY <1>3, SMTT(30) DEF TypeOK, ReceiveCancelled
  <2> QED
    BY <2>a, <2>b, <2>c
<1>4. ASSUME NEW w \in Workers, WorkerEnd(w) \/ Connect(w)
      PROVE  TypeOK' /\ Dispatched' /\ Hands'
  <2>1. conn' \in [Workers -> BOOLEAN]
    BY <1>4, Zenon DEF TypeOK, WorkerEnd, Connect
  <2> QED
    BY <1>4, <2>1 DEF TypeOK, WorkerEnd, Connect
<1>5. ASSUME NEW w \in Workers, ConnectFails(w)
      PROVE  TypeOK' /\ Dispatched' /\ Hands'
  <2>1. attempt' \in [Workers -> 1..(MaxRetries + 1)]
    BY <1>5, SMTT(30) DEF TypeOK, ConnectFails
  <2> QED
    BY <1>5, <2>1 DEF TypeOK, ConnectFails
<1>6. ASSUME NEW w \in Workers, Post(w) \/ PostFails(w)
      PROVE  TypeOK' /\ Dispatched' /\ Hands'
  <2>1. Article(w) \in Chunk \X Nat
    BY <1>6 DEF TypeOK, Post, PostFails, Article
  <2>2. conn' \in [Workers -> BOOLEAN]
    BY <1>6, Zenon DEF TypeOK, Post, PostFails
  <2>3. posted' \subseteq Chunk \X Nat
    BY <1>6, <2>1, Zenon DEF TypeOK, Post, PostFails
  <2>4. CASE Post(w)
    BY <2>2, <2>3, <2>4 DEF TypeOK, Post
  <2>5. CASE PostFails(w)
    <3>0. attempt' = [attempt EXCEPT ![w] = @ + 1] /\ attempt[w] <= MaxRetries
      BY <2>5 DEF PostFails
    <3>1. attempt' \in [Workers -> 1..(MaxRetries + 1)]
      BY <3>0 DEF TypeOK
    <3> QED
      BY <2>2, <2>3, <2>5, <3>1 DEF TypeOK, PostFails
  <2> QED
    BY <1>6, <2>4, <2>5
<1>11. ASSUME NEW w \in Workers, GiveUp(w)
      PROVE  TypeOK' /\ Dispatched' /\ Hands'
  <2>1. /\ hand' \in [Workers -> Chunk \union {NoChunk}]
        /\ wpc' \in [Workers -> {"recv", "try", "send", "done", "failed"}]
    BY <1>11 DEF TypeOK, GiveUp
  <2>2. /\ errs' = 1
        /\ UNCHANGED <<disp, sent, taken, attempt, conn, ids, posted, results, resClosed, segments,
                       ret, cancelled>>
    BY <1>11 DEF GiveUp
  <2>3. TypeOK'
    BY <2>1, <2>2 DEF TypeOK
  <2>4. Dispatched'
    BY <2>2
  <2>5. Hands'
    BY <1>11, <2>1 DEF TypeOK, GiveUp
  <2> QED
    BY <2>3, <2>4, <2>5
<1>7. ASSUME NEW w \in Workers, SendResult(w)
      PROVE  TypeOK' /\ Dispatched' /\ Hands'
  <2>1. results' \in Seq(Chunk)
    BY <1>7 DEF TypeOK, SendResult
  <2>a. TypeOK'
    BY <1>7, <2>1 DEF TypeOK, SendResult
  <2>b. Dispatched'
    BY <1>7, <2>1 DEF TypeOK, SendResult
  <2>c. Hands'
    BY <1>7, <2>1 DEF TypeOK, SendResult
  <2> QED
    BY <2>a, <2>b, <2>c
<1>8. CASE Collect
  <2>1. results' \in Seq(Chunk) /\ segments' \in [Chunk -> Nat]
    BY <1>8, SMTT(30) DEF TypeOK, Collect
  <2>a. TypeOK'
    BY <1>8, <2>1 DEF TypeOK, Collect
  <2>b. Dispatched'
    BY <1>8, <2>1 DEF TypeOK, Collect
  <2>c. Hands'
    BY <1>8, <2>1 DEF TypeOK, Collect
  <2> QED
    BY <2>a, <2>b, <2>c
<1>9. CASE CloseResults \/ Cancel \/ UNCHANGED vars
  BY <1>9 DEF TypeOK, CloseResults, Cancel, vars
<1>10. CASE Return
  <2>1. ret' \in {"running", "ok", "error", "cancelled"} /\ errs' \in 0..1
    BY <1>10 DEF TypeOK, Return
  <2> QED
    BY <1>10, <2>1 DEF TypeOK, Return
<1> QED
  BY <1>1, <1>2, <1>3, <1>4, <1>5, <1>6, <1>7, <1>8, <1>9, <1>10, <1>11 DEF Next, Worker

(* The types hold when UploadToUsenet has started its goroutines.           *)
LEMMA TypeInit == Init => TypeOK /\ Dispatched /\ Hands
<1> SUFFICES ASSUME Init PROVE TypeOK /\ Dispatched /\ Hands
  OBVIOUS
<1>1. conn \in [Workers -> BOOLEAN] /\ resClosed \in BOOLEAN /\ cancelled \in BOOLEAN
  BY Zenon DEF Init
<1> QED
  BY <1>1, Constants DEF Init, TypeOK, Dispatched, Hands, NoChunk, Chunk

(* The variables of NntpUpload always have their types.                     *)
THEOREM TypeCorrect == Spec => []TypeOK
BY TypeInit, TypeStep, PTL DEF Spec

-----------------------------------------------------------------------------
(* A clean run was clean before.                                            *)
LEMMA CleanBefore == TypeOK /\ [Next]_vars /\ Clean' => Clean
<1> SUFFICES ASSUME TypeOK, [Next]_vars, ~Clean PROVE ~Clean'
  OBVIOUS
<1> USE DEF Clean, dispVars, workVars, chanVars, callVars
<1>1. CASE Dispatcher
  BY <1>1 DEF Dispatcher, DispatchEnd, DispatchRead, DispatchEOF, DispatchReadError, DispatchSend
<1>2. CASE \E w \in Workers : Worker(w)
  BY <1>2 DEF Worker, Receive, ReceiveCancelled, WorkerEnd, Connect, ConnectFails, Post, PostFails,
              GiveUp, SendResult
<1>3. CASE CloseResults \/ Collect \/ Return \/ Cancel \/ UNCHANGED vars
  BY <1>3 DEF CloseResults, Collect, Return, Cancel, vars
<1> QED
  BY <1>1, <1>2, <1>3 DEF Next

(* The steps that leave all chunks where they are.                          *)
Still == UNCHANGED <<taken, hand, results, segments>>

(* Connecting, posting, failing and returning move no chunk.                *)
LEMMA StillSteps ==
    [Next]_vars => \/ Still
                   \/ \E w \in Workers : \/ Receive(w) \/ ReceiveCancelled(w)
                                          \/ GiveUp(w) \/ SendResult(w)
                   \/ Collect
<1> SUFFICES ASSUME [Next]_vars,
                    ~\E w \in Workers : \/ Receive(w) \/ ReceiveCancelled(w)
                                        \/ GiveUp(w) \/ SendResult(w),
                    ~Collect
             PROVE  Still
  OBVIOUS
<1> USE DEF Still, dispVars, workVars, chanVars, callVars
<1>1. CASE Dispatcher
  BY <1>1 DEF Dispatcher, DispatchEnd, DispatchRead, DispatchEOF, DispatchReadError, DispatchSend
<1>2. CASE \E w \in Workers : Worker(w)
  BY <1>2 DEF Worker, WorkerEnd, Connect, ConnectFails, Post, PostFails
<1>3. CASE CloseResults \/ Return \/ Cancel \/ UNCHANGED vars
  BY <1>3 DEF CloseResults, Return, Cancel, vars
<1> QED
  BY <1>1, <1>2, <1>3 DEF Next

(* What sending on and receiving from results do to its contents.           *)
LEMMA SendContents ==
    ASSUME TypeOK, NEW w \in Workers, SendResult(w), hand[w] \in Chunk
    PROVE  /\ Len(results') = Len(results) + 1
           /\ \A i \in 1..Len(results) : results'[i] = results[i]
           /\ results'[Len(results) + 1] = hand[w]
           /\ \A c \in Chunk : InResults(c)' <=> InResults(c) \/ c = hand[w]
<1>1. results \in Seq(Chunk) /\ results' = Append(results, hand[w]) /\ Len(results) \in Nat
  BY DEF TypeOK, SendResult
<1>2. /\ Len(results') = Len(results) + 1
      /\ \A i \in 1..Len(results) : results'[i] = results[i]
      /\ results'[Len(results) + 1] = hand[w]
  BY <1>1
<1> QED
  BY <1>1, <1>2 DEF InResults

(* The caller takes the head of results, and nothing else changes there.    *)
LEMMA CollectContents ==
    ASSUME TypeOK, Collect
    PROVE  /\ Head(results) \in Chunk
           /\ Head(results) = results[1]
           /\ Len(results) \in Nat /\ Len(results) >= 1
           /\ Len(results') = Len(results) - 1
           /\ \A i \in 1..Len(results') : results'[i] = results[i + 1]
           /\ \A c \in Chunk : InResults(c) <=> InResults(c)' \/ c = Head(results)
<1>1. results \in Seq(Chunk) /\ results # <<>> /\ results' = Tail(results)
  BY DEF TypeOK, Collect
<1>2. /\ Head(results) = results[1]
      /\ Len(results) \in Nat /\ Len(results) >= 1
      /\ Len(results') = Len(results) - 1
      /\ \A i \in 1..Len(results') : results'[i] = results[i + 1]
  BY <1>1
<1>3. Head(results) \in Chunk
  BY <1>1
<1>4. ASSUME NEW c \in Chunk, InResults(c)
      PROVE  InResults(c)' \/ c = Head(results)
  <2>1. PICK i \in 1..Len(results) : results[i] = c
    BY <1>4 DEF InResults
  <2>2. CASE i = 1
    BY <2>1, <2>2, <1>2
  <2>3. CASE i # 1
    <3>1. i - 1 \in 1..Len(results') /\ results'[i - 1] = c
      BY <2>1, <2>3, <1>2
    <3> QED
      BY <3>1 DEF InResults
  <2> QED
    BY <2>2, <2>3
<1>5. ASSUME NEW c \in Chunk, InResults(c)' \/ c = Head(results)
      PROVE  InResults(c)
  <2>1. CASE InResults(c)'
    <3>1. PICK i \in 1..Len(results') : results'[i] = c
      BY <2>1 DEF InResults
    <3>2. i + 1 \in 1..Len(results) /\ results[i + 1] = c
      BY <3>1, <1>2
    <3> QED
      BY <3>2 DEF InResults
  <2>2. CASE c = Head(results)
    BY <2>2, <1>2 DEF InResults
  <2> QED
    BY <1>5, <2>1, <2>2
<1> QED
  BY <1>2, <1>3, <1>4, <1>5

-----------------------------------------------------------------------------
(* A weaker bound, in the form the step lemmas use.                         *)
LEMMA ResultsReceived == TypeOK /\ Once => \A i \in 1..Len(results) : results[i] <= taken + 1
<1> SUFFICES ASSUME TypeOK, Once, NEW i \in 1..Len(results) PROVE results[i] <= taken + 1
  OBVIOUS
<1>1. results[i] \in Nat /\ taken \in Nat
  BY Constants, SMTT(30) DEF TypeOK, Chunk
<1>2. results[i] <= taken
  BY DEF Once
<1> QED
  BY <1>1, <1>2

(* No step puts a chunk in two places.                                      *)
LEMMA OnceStep == Inv /\ [Next]_vars => Once'
<1> SUFFICES ASSUME TypeOK, Dispatched, Hands, Once, [Next]_vars PROVE Once'
  BY DEF Inv
<1> USE Constants DEF NoChunk, Chunk, dispVars, workVars, chanVars, callVars
<1>1. CASE Still
  BY <1>1 DEF Once, Still, InHand, InResults
<1>2. ASSUME NEW w \in Workers, Receive(w)
      PROVE  Once'
  <2>1. /\ taken' = taken + 1 /\ hand' = [hand EXCEPT ![w] = taken + 1]
        /\ results' = results /\ segments' = segments /\ taken + 1 \in Chunk
    BY <1>2 DEF Receive, TypeOK
  <2>2. \A v \in Workers : hand[v] <= taken /\ hand[v] \in Nat
    BY DEF Hands, TypeOK
  <2>3. \A c \in Chunk : InHand(c)' => InHand(c) \/ c = taken + 1
    BY <2>1 DEF InHand, TypeOK
  <2>4. ~InResults(taken + 1) /\ segments[taken + 1] = 0
    <3>1. taken \in Nat /\ ~(taken + 1 <= taken)
      BY DEF TypeOK
    <3>2. ~InResults(taken + 1)
      BY <3>1 DEF Once, InResults
    <3>3. segments[taken + 1] \in {0, 1} /\ segments[taken + 1] # 1
      BY <2>1, <3>1 DEF Once
    <3> QED
      BY <3>2, <3>3
  <2>5. \A u, v \in Workers : hand'[u] = hand'[v] /\ hand'[v] # NoChunk => u = v
    <3>1. \A v \in Workers : hand'[v] = IF v = w THEN taken + 1 ELSE hand[v]
      BY <2>1 DEF TypeOK
    <3>2. \A u, v \in Workers : hand[u] = hand[v] /\ hand[v] # NoChunk => u = v
      BY DEF Once
    <3>3. taken \in Nat
      BY DEF TypeOK
    <3> QED
      BY <2>2, <3>1, <3>2, <3>3
  <2>6. \A c \in Chunk : InResults(c)' <=> InResults(c)
    BY <2>1 DEF InResults
  <2>7. \A i \in 1..Len(results') : results'[i] <= taken'
    BY <2>1, ResultsReceived
  <2>8. \A c \in Chunk :
          /\ InHand(c)' => ~InResults(c)' /\ segments'[c] = 0
          /\ InResults(c)' => segments'[c] = 0
          /\ segments'[c] \in {0, 1}
          /\ segments'[c] = 1 => c <= taken'
    BY <2>1, <2>3, <2>4, <2>6 DEF Once, TypeOK
  <2> QED
    BY <2>1, <2>5, <2>7, <2>8 DEF Once
<1>3. ASSUME NEW w \in Workers, ReceiveCancelled(w)
      PROVE  Once'
  <2>1. taken' = taken + 1 /\ hand' = hand /\ results' = results /\ segments' = segments
    BY <1>3 DEF ReceiveCancelled
  <2>2. \A c \in Chunk : (InHand(c)' <=> InHand(c)) /\ (InResults(c)' <=> InResults(c))
    BY <2>1 DEF InHand, InResults
  <2>3. \A i \in 1..Len(results') : results'[i] <= taken'
    BY <2>1, ResultsReceived
  <2>4. \A c \in Chunk : segments'[c] = 1 => c <= taken'
    BY <2>1 DEF Once, TypeOK
  <2> QED
    BY <2>1, <2>2, <2>3, <2>4 DEF Once
<1>4. ASSUME NEW w \in Workers, GiveUp(w)
      PROVE  Once'
  <2>1. /\ taken' = taken /\ hand' = [hand EXCEPT ![w] = NoChunk]
        /\ results' = results /\ segments' = segments
    BY <1>4 DEF GiveUp
  <2>2. \A c \in Chunk : InHand(c)' => InHand(c)
    BY <2>1 DEF InHand, TypeOK
  <2>3. \A u, v \in Workers : hand'[u] = hand'[v] /\ hand'[v] # NoChunk => u = v
    BY <2>1 DEF Once, TypeOK
  <2> QED
    BY <2>1, <2>2, <2>3 DEF Once, InResults
<1>5. ASSUME NEW w \in Workers, SendResult(w)
      PROVE  Once'
  <2>1. /\ taken' = taken /\ hand' = [hand EXCEPT ![w] = NoChunk] /\ segments' = segments
        /\ hand[w] \in Chunk
    BY <1>5 DEF SendResult, Hands, TypeOK
  <2>2. /\ Len(results') = Len(results) + 1
        /\ \A i \in 1..Len(results) : results'[i] = results[i]
        /\ results'[Len(results) + 1] = hand[w]
        /\ \A c \in Chunk : InResults(c)' <=> InResults(c) \/ c = hand[w]
    BY <1>5, <2>1, SendContents
  <2>3. ~InResults(hand[w]) /\ segments[hand[w]] = 0
    BY <2>1 DEF Once, InHand
  <2>4. \A c \in Chunk : InHand(c)' => InHand(c) /\ c # hand[w]
    BY <2>1 DEF Once, InHand, TypeOK
  <2>5. \A u, v \in Workers : hand'[u] = hand'[v] /\ hand'[v] # NoChunk => u = v
    BY <2>1 DEF Once, TypeOK
  <2>6. Len(results) \in Nat
    BY DEF TypeOK
  <2>7. \A i, j \in 1..Len(results') : results'[i] = results'[j] => i = j
    BY <2>2, <2>3, <2>6 DEF Once, InResults
  <2>8. \A i \in 1..Len(results') : results'[i] <= taken'
    BY <2>1, <2>2, <2>6 DEF Once, Hands
  <2>9. \A c \in Chunk :
          /\ InHand(c)' => ~InResults(c)' /\ segments'[c] = 0
          /\ InResults(c)' => segments'[c] = 0
          /\ segments'[c] \in {0, 1}
          /\ segments'[c] = 1 => c <= taken'
    BY <2>1, <2>2, <2>3, <2>4 DEF Once
  <2> QED
    BY <2>5, <2>7, <2>8, <2>9 DEF Once
<1>6. CASE Collect
  <2>1. taken' = taken /\ hand' = hand
    BY <1>6 DEF Collect
  <2>2. PICK h \in Chunk :
          /\ h = Head(results) /\ h = results[1]
          /\ Len(results) \in Nat /\ Len(results) >= 1
          /\ Len(results') = Len(results) - 1
          /\ \A i \in 1..Len(results') : results'[i] = results[i + 1]
          /\ \A c \in Chunk : InResults(c) <=> InResults(c)' \/ c = h
    BY <1>6, CollectContents
  <2>3. \A i, j \in 1..Len(results') : results'[i] = results'[j] => i = j
    BY <2>2 DEF Once
  <2>4. \A i \in 1..Len(results') : results'[i] <= taken'
    BY <2>1, <2>2 DEF Once
  <2>5. ~InResults(h)'
    <3>1. ASSUME NEW i \in 1..Len(results'), results'[i] = h PROVE FALSE
      BY <2>2, <3>1 DEF Once
    <3> QED
      BY <3>1 DEF InResults
  <2>6. \A c \in Chunk : InHand(c)' <=> InHand(c)
    BY <2>1 DEF InHand
  <2>7. segments[h] = 0 /\ ~InHand(h) /\ h <= taken
    BY <2>2 DEF Once
  <2>8. segments' = segments \/ segments' = [segments EXCEPT ![h] = @ + 1]
    BY <1>6, <2>2 DEF Collect
  <2>9. \A c \in Chunk : segments'[c] = segments[c] \/ (c = h /\ segments'[c] = 1)
    BY <2>7, <2>8 DEF TypeOK
  <2>10. \A c \in Chunk :
          /\ InHand(c)' => ~InResults(c)' /\ segments'[c] = 0
          /\ InResults(c)' => segments'[c] = 0
          /\ segments'[c] \in {0, 1}
          /\ segments'[c] = 1 => c <= taken'
    BY <2>1, <2>2, <2>5, <2>6, <2>7, <2>9 DEF Once
  <2> QED
    BY <2>1, <2>3, <2>4, <2>10 DEF Once
<1> QED
  BY <1>1, <1>2, <1>3, <1>4, <1>5, <1>6, StillSteps

-----------------------------------------------------------------------------
(* In a clean run no step drops a chunk.                                    *)
LEMMA CoveredStep == Inv /\ [Next]_vars => Covered'
<1> SUFFICES ASSUME TypeOK, Hands, Once, Covered, [Next]_vars, Clean',
                    NEW c \in Chunk, c <= taken'
             PROVE  InHand(c)' \/ InResults(c)' \/ segments'[c] = 1
  BY DEF Inv, Covered
<1>1. Clean
  BY CleanBefore
<1>2. c <= taken => InHand(c) \/ InResults(c) \/ segments[c] = 1
  BY <1>1 DEF Covered
<1> USE Constants DEF NoChunk, Chunk
<1>3. CASE Still
  BY <1>2, <1>3 DEF Still, InHand, InResults
<1>4. ASSUME NEW w \in Workers, Receive(w)
      PROVE  InHand(c)' \/ InResults(c)' \/ segments'[c] = 1
  <2>1. /\ taken' = taken + 1 /\ hand' = [hand EXCEPT ![w] = taken + 1]
        /\ results' = results /\ segments' = segments /\ hand[w] = NoChunk
    BY <1>4 DEF Receive, Hands, callVars, chanVars
  <2>2. CASE c = taken + 1
    BY <2>1, <2>2 DEF InHand, TypeOK
  <2>3. CASE c <= taken
    BY <1>2, <2>1, <2>3 DEF InHand, InResults, TypeOK
  <2> QED
    BY <2>1, <2>2, <2>3 DEF TypeOK
<1>5. ASSUME NEW w \in Workers, ReceiveCancelled(w) \/ GiveUp(w)
      PROVE  FALSE
  BY <1>1, <1>5 DEF ReceiveCancelled, GiveUp, Clean
<1>6. ASSUME NEW w \in Workers, SendResult(w)
      PROVE  InHand(c)' \/ InResults(c)' \/ segments'[c] = 1
  <2>1. /\ taken' = taken /\ hand' = [hand EXCEPT ![w] = NoChunk] /\ segments' = segments
        /\ hand[w] \in Chunk
    BY <1>6 DEF SendResult, Hands, TypeOK, callVars
  <2>2. InResults(c)' <=> InResults(c) \/ c = hand[w]
    BY <1>6, <2>1, SendContents
  <2>3. InHand(c) => InHand(c)' \/ c = hand[w]
    BY <2>1 DEF InHand, TypeOK
  <2> QED
    BY <1>2, <2>1, <2>2, <2>3
<1>7. CASE Collect
  <2>1. taken' = taken /\ hand' = hand
    BY <1>7 DEF Collect, workVars
  <2>2. PICK h \in Chunk : h = Head(results) /\ (InResults(c) <=> InResults(c)' \/ c = h)
                           /\ InResults(h)
    BY <1>7, CollectContents
  <2>3. segments' = [segments EXCEPT ![h] = @ + 1]
    BY <1>1, <1>7, <2>2 DEF Collect, Clean
  <2>4. segments'[c] = IF c = h THEN 1 ELSE segments[c]
    BY <2>2, <2>3 DEF Once, TypeOK
  <2> QED
    BY <1>2, <2>1, <2>2, <2>4 DEF InHand
<1> QED
  BY <1>3, <1>4, <1>5, <1>6, <1>7, StillSteps

(* Goroutines end for the reasons that Endings gives.                       *)
LEMMA EndingsStep == Inv /\ [Next]_vars => Endings'
<1> SUFFICES ASSUME TypeOK, Dispatched, Endings, [Next]_vars PROVE Endings'
  BY DEF Inv
<1> USE Constants DEF Endings, Exited, Clean, dispVars, workVars, chanVars, callVars
<1>1. CASE DispatchEnd \/ DispatchRead \/ DispatchEOF
  BY <1>1 DEF TypeOK, Dispatched, DispatchEnd, DispatchRead, DispatchEOF, KeepReading
<1>2. CASE DispatchReadError \/ DispatchSend
  BY <1>2 DEF TypeOK, DispatchReadError, DispatchSend
<1>3. ASSUME NEW w \in Workers, Receive(w) \/ ReceiveCancelled(w)
      PROVE  Endings'
  <2>1. CASE Receive(w)
    <3>1. \A v \in Workers : wpc[v] # "done"
      BY <2>1 DEF TypeOK, Receive
    <3> QED
      BY <2>1, <3>1 DEF TypeOK, Receive
  <2>2. CASE ReceiveCancelled(w)
    BY <2>2 DEF TypeOK, ReceiveCancelled
  <2> QED
    BY <1>3, <2>1, <2>2
<1>4. ASSUME NEW w \in Workers, WorkerEnd(w)
      PROVE  Endings'
  BY <1>4 DEF TypeOK, WorkerEnd
<1>5. ASSUME NEW w \in Workers, Connect(w) \/ ConnectFails(w) \/ Post(w) \/ PostFails(w)
      PROVE  Endings'
  BY <1>5 DEF TypeOK, Connect, ConnectFails, Post, PostFails
<1>6. ASSUME NEW w \in Workers, GiveUp(w) \/ SendResult(w)
      PROVE  Endings'
  BY <1>6 DEF TypeOK, GiveUp, SendResult
<1>7. CASE CloseResults \/ Collect \/ Cancel \/ UNCHANGED vars
  BY <1>7 DEF CloseResults, Collect, Cancel, vars
<1>8. CASE Return
  BY <1>8 DEF TypeOK, Return
<1> QED
  BY <1>1, <1>2, <1>3, <1>4, <1>5, <1>6, <1>7, <1>8 DEF Next, Worker, Dispatcher

(* The invariant holds in every reachable state of the upload.              *)
LEMMA InvInductive == Spec => []Inv
<1>1. Init => Inv
  <2> SUFFICES ASSUME Init PROVE Inv
    OBVIOUS
  <2>1. TypeOK /\ Dispatched /\ Hands
    BY TypeInit
  <2>2. /\ results = <<>> /\ Len(results) = 0 /\ taken = 0 /\ ret = "running" /\ disp = "read"
        /\ segments = [c \in Chunk |-> 0] /\ hand = [w \in Workers |-> NoChunk]
        /\ wpc = [w \in Workers |-> "recv"]
    BY DEF Init
  <2>3. ~resClosed
    BY Zenon DEF Init
  <2>4. Once
    BY <2>2, Constants DEF Once, InHand, InResults, NoChunk, Chunk
  <2>5. Covered
    BY <2>2, Constants DEF Covered, Chunk
  <2>6. Endings
    BY <2>2, <2>3 DEF Endings
  <2> QED
    BY <2>1, <2>4, <2>5, <2>6 DEF Inv
<1>2. Inv /\ [Next]_vars => Inv'
  BY TypeStep, OnceStep, CoveredStep, EndingsStep DEF Inv
<1> QED
  BY <1>1, <1>2, PTL DEF Spec

(* The moment UploadToUsenet returns a nil error: nobody gave up, every     *)
(* worker saw jobs closed and drained, so every chunk is in the list.       *)
LEMMA ReturnComplete ==
    ASSUME Workers # {}, Inv, Return, ret' = "ok"
    PROVE  \A c \in Chunk : segments[c] = IF c <= FileChunks THEN 1 ELSE 0
<1> USE Constants DEF NoChunk, Chunk
<1>1. Clean /\ results = <<>> /\ resClosed
  BY DEF Return, Clean, Inv, TypeOK
<1>2. \A w \in Workers : wpc[w] = "done" /\ ~cancelled
  BY <1>1 DEF Inv, Endings, Exited, Clean
<1>3. disp = "done" /\ taken = sent /\ sent = FileChunks
  BY <1>1, <1>2 DEF Inv, Endings
<1>4. \A c \in Chunk : ~InHand(c) /\ ~InResults(c)
  BY <1>1, <1>2 DEF Inv, Hands, InHand, InResults
<1> QED
  BY <1>1, <1>3, <1>4 DEF Inv, Covered, Once, TypeOK

(* With at least one worker, a nil error means that the segment list names  *)
(* every chunk of the file exactly once.                                    *)
THEOREM UploadComplete == ASSUME Workers # {} PROVE Spec => []SuccessIsComplete
<1>1. Init => SuccessIsComplete
  BY DEF Init, SuccessIsComplete
<1>2. Inv /\ SuccessIsComplete /\ [Next]_vars => SuccessIsComplete'
  <2> SUFFICES ASSUME Inv, SuccessIsComplete, [Next]_vars, ret' = "ok", NEW c \in Chunk
               PROVE  segments'[c] = IF c <= FileChunks THEN 1 ELSE 0
    BY DEF SuccessIsComplete
  <2>1. CASE Return
    BY <2>1, ReturnComplete DEF Return
  <2>2. CASE ~Return
    <3>1. ret = "ok" /\ segments' = segments
      BY <2>2 DEF Next, Dispatcher, DispatchEnd, DispatchRead, DispatchEOF, DispatchReadError,
                  DispatchSend, Worker, Receive, ReceiveCancelled, WorkerEnd, Connect, ConnectFails,
                  Post, PostFails, GiveUp, SendResult, CloseResults, Collect, Cancel, vars, callVars
    <3> QED
      BY <3>1 DEF SuccessIsComplete
  <2> QED
    BY <2>1, <2>2
<1> QED
  BY <1>1, <1>2, InvInductive, PTL DEF Spec

-----------------------------------------------------------------------------
(* Every article stored so far carries the Message-ID its chunk has now,    *)
(* and whatever is on its way to the segment list is stored.                *)
Posted ==
    /\ \A p \in posted : p[1] <= taken /\ p[2] = ids[p[1]]
    /\ \A w \in Workers : wpc[w] = "send" => <<hand[w], ids[hand[w]]>> \in posted
    /\ \A c \in Chunk : InResults(c) \/ segments[c] = 1 => <<c, ids[c]>> \in posted

(* No retry changes a chunk's Message-ID, and only a 240 leads to results.  *)
LEMMA PostedStep == Inv /\ Posted /\ [Next]_vars => Posted'
<1> SUFFICES ASSUME TypeOK, Dispatched, Hands, Once, Posted, [Next]_vars PROVE Posted'
  BY DEF Inv
<1> USE Constants DEF NoChunk, Chunk, dispVars, workVars, chanVars, callVars
<1>1. ASSUME NEW w \in Workers, Receive(w)
      PROVE  Posted'
  <2>1. /\ taken' = taken + 1 /\ hand' = [hand EXCEPT ![w] = taken + 1]
        /\ ids' = [ids EXCEPT ![taken + 1] = @ + 1] /\ wpc' = [wpc EXCEPT ![w] = "try"]
        /\ UNCHANGED <<results, segments, posted>> /\ taken \in Nat
    BY <1>1 DEF Receive, TypeOK
  <2>2. \A c \in Chunk : c <= taken => ids'[c] = ids[c]
    BY <2>1 DEF TypeOK
  <2>3. \A p \in posted' : p[1] <= taken' /\ p[2] = ids'[p[1]]
    <3> SUFFICES ASSUME NEW p \in posted PROVE p[1] <= taken + 1 /\ p[2] = ids'[p[1]]
      BY <2>1
    <3>1. p[1] \in Chunk /\ p[1] <= taken /\ p[2] = ids[p[1]]
      BY DEF Posted, TypeOK
    <3> QED
      BY <2>1, <2>2, <3>1
  <2>4. ASSUME NEW v \in Workers, wpc'[v] = "send"
        PROVE  <<hand'[v], ids'[hand'[v]]>> \in posted'
    <3>1. v # w /\ wpc[v] = "send" /\ hand'[v] = hand[v]
      BY <2>1, <2>4 DEF TypeOK
    <3>2. hand[v] \in Chunk /\ hand[v] <= taken
      BY <3>1 DEF Hands, TypeOK
    <3> QED
      BY <2>1, <2>2, <3>1, <3>2 DEF Posted
  <2>5. ASSUME NEW c \in Chunk, InResults(c)' \/ segments'[c] = 1
        PROVE  <<c, ids'[c]>> \in posted'
    <3>1. InResults(c) \/ segments[c] = 1
      BY <2>1, <2>5 DEF InResults
    <3>2. c <= taken
      BY <3>1 DEF Once, InResults
    <3> QED
      BY <2>1, <2>2, <3>1, <3>2 DEF Posted
  <2> QED
    BY <2>3, <2>4, <2>5 DEF Posted
<1>2. ASSUME NEW w \in Workers, ReceiveCancelled(w)
      PROVE  Posted'
  <2>1. /\ taken' = taken + 1 /\ UNCHANGED <<hand, ids, posted, results, segments>>
        /\ wpc' = [wpc EXCEPT ![w] = "done"]
    BY <1>2 DEF ReceiveCancelled
  <2>2. \A p \in posted : p[1] <= taken + 1
    <3> SUFFICES ASSUME NEW p \in posted PROVE p[1] <= taken + 1
      OBVIOUS
    <3>1. p[1] \in Nat /\ p[1] <= taken /\ taken \in Nat
      BY DEF Posted, TypeOK
    <3> QED
      BY <3>1
  <2> QED
    BY <2>1, <2>2 DEF Posted, TypeOK, InResults
<1>3. ASSUME NEW w \in Workers, Post(w) \/ PostFails(w)
      PROVE  Posted'
  <2>1. hand[w] \in Chunk /\ hand[w] <= taken
    BY <1>3 DEF Post, PostFails, Hands, TypeOK
  <2>2. /\ posted' = posted \/ posted' = posted \union {Article(w)}
        /\ UNCHANGED <<taken, hand, ids, results, segments>>
    BY <1>3, Zenon DEF Post, PostFails, callVars, chanVars
  <2>3. \A p \in posted' : p[1] <= taken' /\ p[2] = ids'[p[1]]
    BY <2>1, <2>2 DEF Posted, Article
  <2>4. \A v \in Workers : wpc'[v] = "send" => <<hand'[v], ids'[hand'[v]]>> \in posted'
    <3>1. CASE Post(w)
      BY <2>2, <3>1 DEF Posted, Post, Article, TypeOK
    <3>2. CASE PostFails(w)
      BY <2>2, <3>2 DEF Posted, PostFails, TypeOK
    <3> QED
      BY <1>3, <3>1, <3>2
  <2> QED
    BY <2>2, <2>3, <2>4 DEF Posted, InResults
<1>4. ASSUME NEW w \in Workers, SendResult(w)
      PROVE  Posted'
  <2>1. /\ hand' = [hand EXCEPT ![w] = NoChunk] /\ wpc' = [wpc EXCEPT ![w] = "recv"]
        /\ UNCHANGED <<taken, ids, posted, segments>> /\ hand[w] \in Chunk /\ wpc[w] = "send"
    BY <1>4 DEF SendResult, Hands, TypeOK
  <2>2. \A c \in Chunk : InResults(c)' <=> InResults(c) \/ c = hand[w]
    BY <1>4, <2>1, SendContents
  <2>3. \A v \in Workers : wpc'[v] = "send" => wpc[v] = "send" /\ hand'[v] = hand[v]
    BY <2>1 DEF TypeOK
  <2> QED
    BY <2>1, <2>2, <2>3 DEF Posted
<1>5. CASE Collect
  <2>1. UNCHANGED <<taken, hand, ids, posted, wpc>>
    BY <1>5 DEF Collect
  <2>2. PICK h \in Chunk : h = Head(results) /\ InResults(h)
                           /\ \A c \in Chunk : InResults(c) <=> InResults(c)' \/ c = h
    BY <1>5, CollectContents
  <2>3. \A c \in Chunk : segments'[c] = 1 => segments[c] = 1 \/ c = h
    BY <1>5, <2>2 DEF Collect, TypeOK
  <2> QED
    BY <2>1, <2>2, <2>3 DEF Posted
<1>6. ASSUME NEW w \in Workers, WorkerEnd(w) \/ Connect(w) \/ ConnectFails(w) \/ GiveUp(w)
      PROVE  Posted'
  <2>1. UNCHANGED <<taken, ids, posted, results, segments>>
    BY <1>6 DEF WorkerEnd, Connect, ConnectFails, GiveUp
  <2>2. \A v \in Workers : wpc'[v] = "send" => wpc[v] = "send" /\ hand'[v] = hand[v]
    BY <1>6 DEF WorkerEnd, Connect, ConnectFails, GiveUp, TypeOK
  <2> QED
    BY <2>1, <2>2 DEF Posted, InResults
<1>7. CASE Dispatcher \/ CloseResults \/ Return \/ Cancel \/ UNCHANGED vars
  <2>1. UNCHANGED <<workVars, results, segments>>
    BY <1>7 DEF Dispatcher, DispatchEnd, DispatchRead, DispatchEOF, DispatchReadError, DispatchSend,
                CloseResults, Return, Cancel, vars
  <2> QED
    BY <2>1 DEF Posted, InResults
<1> QED
  BY <1>1, <1>2, <1>3, <1>4, <1>5, <1>6, <1>7 DEF Next, Worker

(* Articles and Message-IDs agree in every reachable state.                 *)
LEMMA PostedInvariant == Spec => []Posted
<1>1. Init => Posted
  <2> SUFFICES ASSUME Init PROVE Posted
    OBVIOUS
  <2>1. /\ posted = {} /\ Len(results) = 0 /\ segments = [c \in Chunk |-> 0]
        /\ wpc = [w \in Workers |-> "recv"]
    BY DEF Init
  <2> QED
    BY <2>1 DEF Posted, InResults
<1> QED
  BY <1>1, InvInductive, PostedStep, PTL DEF Spec

(* Every segment names a stored article under its Message-ID, and retries   *)
(* never store a chunk under two Message-IDs.                               *)
THEOREM SegmentsTruthful == Spec => []SegmentsNamePostedArticles
<1>1. Inv /\ Posted => SegmentsNamePostedArticles
  <2> SUFFICES ASSUME TypeOK, Once, Posted PROVE SegmentsNamePostedArticles
    BY DEF Inv
  <2>1. \A c \in Chunk : segments[c] > 0 => <<c, ids[c]>> \in posted
    BY DEF Once, Posted
  <2>2. ASSUME NEW p \in posted, NEW q \in posted, p[1] = q[1] PROVE p = q
    <3>1. p = <<p[1], p[2]>> /\ q = <<q[1], q[2]>>
      BY DEF TypeOK
    <3>2. p[2] = q[2]
      BY <2>2 DEF Posted
    <3> QED
      BY <2>2, <3>1, <3>2
  <2> QED
    BY <2>1, <2>2 DEF SegmentsNamePostedArticles
<1> QED
  BY <1>1, InvInductive, PostedInvariant, PTL

-----------------------------------------------------------------------------
(* After a return, nothing but a blocked dispatcher is left to move: the    *)
(* workers have exited. Connections survive only a cancelled upload.        *)
Released ==
    /\ \A w \in Workers : wpc[w] = "try" /\ attempt[w] > MaxRetries => ~conn[w]
    /\ \A w \in Workers : Exited(w) => cancelled \/ ~conn[w]
    /\ ret \in {"ok", "error"} => \A w \in Workers : ~conn[w]

(* No step of a finished call opens a connection, and workers close theirs. *)
LEMMA ReleasedStep == Inv /\ Released /\ [Next]_vars => Released'
<1> SUFFICES ASSUME TypeOK, Endings, Released, [Next]_vars PROVE Released'
  BY DEF Inv
<1> USE Constants DEF Exited, dispVars, workVars, chanVars, callVars
<1>1. CASE Dispatcher \/ CloseResults \/ Collect \/ Cancel \/ UNCHANGED vars
  <2>1. UNCHANGED <<workVars, ret>> /\ (cancelled => cancelled')
    BY <1>1 DEF Dispatcher, DispatchEnd, DispatchRead, DispatchEOF, DispatchReadError, DispatchSend,
                CloseResults, Collect, Cancel, vars
  <2> QED
    BY <2>1 DEF Released
<1>2. CASE Return
  BY <1>2 DEF Released, Endings, Return
<1>3. ASSUME NEW w \in Workers, Worker(w)
      PROVE  Released'
  <2>1. ret = "running" /\ ret' = ret /\ cancelled' = cancelled
    BY <1>3 DEF Endings, Worker, Receive, ReceiveCancelled, WorkerEnd, Connect, ConnectFails, Post,
                PostFails, GiveUp, SendResult
  <2>2. \A v \in Workers : v # w => /\ wpc'[v] = wpc[v] /\ attempt'[v] = attempt[v]
                                    /\ conn'[v] = conn[v]
    BY <1>3 DEF TypeOK, Worker, Receive, ReceiveCancelled, WorkerEnd, Connect, ConnectFails, Post,
                PostFails, GiveUp, SendResult
  <2>3. wpc'[w] = "try" /\ attempt'[w] > MaxRetries => ~conn'[w]
    <3>1. CASE Receive(w)
      BY <3>1 DEF TypeOK, Receive
    <3>2. CASE Connect(w)
      BY <3>2 DEF TypeOK, Connect
    <3>3. CASE ConnectFails(w)
      BY <3>3 DEF TypeOK, ConnectFails
    <3>4. CASE PostFails(w)
      BY <3>4 DEF TypeOK, PostFails
    <3>5. CASE ReceiveCancelled(w) \/ WorkerEnd(w) \/ Post(w) \/ GiveUp(w) \/ SendResult(w)
      BY <3>5 DEF TypeOK, ReceiveCancelled, WorkerEnd, Post, GiveUp, SendResult
    <3> QED
      BY <1>3, <3>1, <3>2, <3>3, <3>4, <3>5 DEF Worker
  <2>4. wpc'[w] \in {"done", "failed"} => cancelled' \/ ~conn'[w]
    <3>1. CASE ReceiveCancelled(w)
      BY <3>1 DEF ReceiveCancelled
    <3>2. CASE WorkerEnd(w)
      BY <3>2 DEF TypeOK, WorkerEnd
    <3>3. CASE GiveUp(w)
      BY <3>3 DEF TypeOK, GiveUp, Released
    <3>4. CASE \/ Receive(w) \/ Connect(w) \/ ConnectFails(w) \/ Post(w) \/ PostFails(w)
               \/ SendResult(w)
      BY <3>4 DEF TypeOK, Receive, Connect, ConnectFails, Post, PostFails, SendResult
    <3> QED
      BY <1>3, <3>1, <3>2, <3>3, <3>4 DEF Worker
  <2> QED
    BY <2>1, <2>2, <2>3, <2>4 DEF Released
<1> QED
  BY <1>1, <1>2, <1>3 DEF Next

(* Segments or an upload error come back only with all connections closed.  *)
THEOREM BudgetKept == Spec => []ConnectionsReleased
<1>1. Init => Released
  <2> SUFFICES ASSUME Init PROVE Released
    OBVIOUS
  <2>1. \A w \in Workers : ~conn[w]
    BY Zenon DEF Init
  <2> QED
    BY <2>1 DEF Released
<1>2. Released => ConnectionsReleased
  BY DEF Released, ConnectionsReleased
<1> QED
  BY <1>1, <1>2, InvInductive, ReleasedStep, PTL DEF Spec

-----------------------------------------------------------------------------
(* The refinement: each step is a step of UploadPromise or a stutter.       *)
LEMMA PromiseStep ==
    ASSUME Workers # {}
    PROVE  Inv /\ Inv' /\ Posted /\ Posted' /\ [Next]_vars => [Promise!Next]_(Promise!vars)
<1> SUFFICES ASSUME Inv, Inv', Posted, Posted', [Next]_vars
             PROVE  [Promise!Next]_(Promise!vars)
  OBVIOUS
<1> USE Constants DEF Chunk, dispVars, workVars, chanVars, callVars
<1>1. CASE Return
  <2>1. CASE ret' = "ok"
    <3>1. \A c \in Chunk : segments[c] = IF c <= FileChunks THEN 1 ELSE 0
      BY <1>1, <2>1, ReturnComplete
    <3>2. {c \in Chunk : segments'[c] > 0} = 1..FileChunks
      BY <1>1, <3>1 DEF Return
    <3>3. {p[1] : p \in posted} = 1..FileChunks
      <4>1. \A p \in posted : p[1] \in 1..FileChunks
        BY DEF Posted, Inv, TypeOK, Dispatched
      <4>2. \A c \in 1..FileChunks : <<c, ids[c]>> \in posted
        BY <3>1 DEF Posted
      <4>3. \A c \in 1..FileChunks : \E p \in posted : p[1] = c
        <5> TAKE c \in 1..FileChunks
        <5>1. <<c, ids[c]>>[1] = c /\ <<c, ids[c]>> \in posted
          BY <4>2
        <5> QED
          BY <5>1, Zenon
      <4> QED
        BY <4>1, <4>3, Zenon
    <3>4. ret = "running" /\ posted' = posted
      BY <1>1 DEF Return
    <3>5. Promise!ReturnOk
      BY <2>1, <3>2, <3>3, <3>4 DEF Promise!ReturnOk
    <3> QED
      BY <3>5 DEF Promise!Next
  <2>2. CASE ret' # "ok"
    <3>1. ret = "running" /\ ret' \in {"error", "cancelled"} /\ posted' = posted
      BY <1>1, <2>2 DEF Return
    <3>2. Promise!ReturnFailed
      BY <3>1 DEF Promise!ReturnFailed
    <3> QED
      BY <3>2 DEF Promise!Next
  <2> QED
    BY <2>1, <2>2
<1>2. ASSUME NEW w \in Workers, Post(w) \/ PostFails(w)
      PROVE  [Promise!Next]_(Promise!vars)
  <2>1. /\ posted' = posted \/ posted' = posted \union {Article(w)}
        /\ ret' = ret /\ segments' = segments /\ wpc[w] = "try"
    BY <1>2, Zenon DEF Post, PostFails, callVars
  <2>2. ret = "running" /\ hand[w] \in 1..FileChunks
    <3>1. ret = "running"
      BY <2>1 DEF Inv, Endings, Exited
    <3>2. hand[w] \in 1..FileChunks
      BY <2>1 DEF Inv, TypeOK, Hands, Dispatched, NoChunk
    <3> QED
      BY <3>1, <3>2
  <2>3. CASE posted' = posted
    BY <2>1, <2>3 DEF Promise!vars
  <2>4. CASE posted' = posted \union {Article(w)}
    <3>1. {p[1] : p \in posted'} = {p[1] : p \in posted} \union {hand[w]}
      <4>1. Article(w)[1] = hand[w]
        BY DEF Article
      <4>2. ASSUME NEW c
            PROVE  (\E p \in posted' : p[1] = c) <=> (\E p \in posted : p[1] = c) \/ c = hand[w]
        BY <2>4, <4>1, Zenon
      <4> QED
        BY <4>2, Zenon
    <3>2. PICK c \in 1..FileChunks : c = hand[w]
      BY <2>2
    <3>3. Promise!Store(c)
      BY <2>1, <2>2, <3>1, <3>2 DEF Promise!Store
    <3> QED
      BY <3>3 DEF Promise!Next
  <2> QED
    BY <2>1, <2>3, <2>4
<1>3. CASE Collect
  <2>1. posted' = posted /\ ret' = ret /\ ret = "running"
    BY <1>3 DEF Collect
  <2> QED
    BY <2>1 DEF Promise!vars
<1>4. CASE /\ ~Return /\ ~Collect
           /\ \A w \in Workers : ~Post(w) /\ ~PostFails(w)
  <2>1. UNCHANGED <<posted, ret, segments>>
    BY <1>4 DEF Next, Dispatcher, DispatchEnd, DispatchRead, DispatchEOF, DispatchReadError,
                DispatchSend, Worker, Receive, ReceiveCancelled, WorkerEnd, Connect, ConnectFails,
                GiveUp, SendResult, CloseResults, Cancel, vars
  <2> QED
    BY <2>1 DEF Promise!vars
<1> QED
  BY <1>1, <1>2, <1>3, <1>4

(* With at least one worker the goroutines implement UploadPromise.         *)
THEOREM UploadKeepsPromise == ASSUME Workers # {} PROVE Spec => PromiseKept
<1>1. Init => Promise!Init
  BY DEF Init, Promise!Init
<1>2. Inv /\ Inv' /\ Posted /\ Posted' /\ [Next]_vars => [Promise!Next]_(Promise!vars)
  BY PromiseStep
<1> QED
  BY <1>1, <1>2, InvInductive, PostedInvariant, PTL DEF Spec, PromiseKept, Promise!Spec
=============================================================================
