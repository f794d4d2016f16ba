---------------------------- MODULE WorkerPoolProofs ----------------------------
(***************************************************************************)
(* The invariant of WorkerPool is inductive for every number of workers,   *)
(* queue capacity, declared count and number of blobs; that the pool takes *)
(* the server down only on a surplus, that the announcement is exact,      *)
(* that the pool implements UploadPromise, and that nobody waits in vain   *)
(* unless a chunk is missing, follow from it.                              *)
(***************************************************************************)
EXTENDS WorkerPool, FiniteSetTheorems, TLAPS

(* There are finitely many blobs, so what is handled or received can be    *)
(* counted, and there are no more handled blobs than received ones.        *)
LEMMA HandledFinite ==
  /\ IsFiniteSet(Blobs)
  /\ IsFiniteSet(Handled)
  /\ IsFiniteSet(Received)
  /\ Cardinality(Handled) \in Nat
  /\ Cardinality(Received) \in Nat
<1>1. IsFiniteSet(Blobs)
  BY PoolAssumption, FS_Interval DEF Blobs
<1>2. Handled \subseteq Blobs /\ Received \subseteq Blobs
  BY DEF Handled, Received
<1>3. IsFiniteSet(Handled) /\ IsFiniteSet(Received)
  BY <1>1, <1>2, FS_Subset
<1> QED
  BY <1>1, <1>3, FS_CardinalityType

(* Worker 0 exists, and the blobs' numbers are never the idle mark. *)
LEMMA Ranges ==
  /\ 0 \in Workers
  /\ Workers \subseteq Nat
  /\ Idle \notin Blobs
BY PoolAssumption DEF Workers, Blobs, Idle

(* Initially nothing has happened. *)
LEMMA InitIInv == Init => IInv
<1> SUFFICES ASSUME Init PROVE IInv
  OBVIOUS
<1>1. TypeOK
  <2>1. /\ queue \in [Workers -> Seq(Blobs)]
        /\ \A w \in Workers : Len(queue[w]) <= QueueCap
    BY PoolAssumption DEF Init
  <2>2. stage \in [Blobs -> Stages] /\ target \in [Blobs -> Workers]
    BY Ranges DEF Init, Stages
  <2>3. job \in [Workers -> Blobs \union {Idle}]
    BY DEF Init
  <2> QED
    BY <2>1, <2>2, <2>3, Ranges DEF Init, TypeOK, Completers, Panics, PoolPanics
<1>2. QueueHolds /\ JobHolds
  BY DEF Init, QueueHolds, JobHolds
<1>3. NothingBeforeStart /\ Accounting /\ ClosingAfterWait /\ PanicCause
  BY DEF Init, NothingBeforeStart, Accounting, ClosingAfterWait, PanicCause
<1> QED
  BY <1>1, <1>2, <1>3 DEF IInv

(* A client hangs up, or a send meets one that has: nothing of the pool    *)
(* moves.                                                                  *)
LEMMA HangUpStep ==
  ASSUME IInv,
         \/ ClientHangsUp \/ AnswerToClosed
         \/ \E w \in Workers : SendToClosed(w)
         \/ BroadcastComplete /\ panic' = "client_closed"
  PROVE  /\ IInv'
         /\ UNCHANGED <<phase, registered, next, queue, closed, job, exited, wg, stage,
                        target, completer>>
<1>1. /\ UNCHANGED <<phase, registered, next, queue, closed, job, exited, wg, stage,
                     target, completer>>
      /\ Running
      /\ hungUp' \in BOOLEAN
      /\ panic' = panic \/ (panic' = "client_closed" /\ hungUp')
  BY DEF ClientHangsUp, AnswerToClosed, SendToClosed, BroadcastComplete, Running,
         IInv, TypeOK
<1>2. Handled' = Handled
  BY <1>1 DEF Handled
<1>3. TypeOK'
  BY <1>1 DEF IInv, TypeOK, Panics, PoolPanics
<1>4. QueueHolds' /\ JobHolds' /\ NothingBeforeStart'
  BY <1>1 DEF IInv, QueueHolds, JobHolds, NothingBeforeStart
<1>5. Accounting' /\ ClosingAfterWait' /\ PanicCause'
  BY <1>1, <1>2 DEF IInv, Accounting, ClosingAfterWait, PanicCause, Running
<1> QED
  BY <1>1, <1>3, <1>4, <1>5 DEF IInv

(* Steps of UploadStart and of the completing goroutine touch neither the  *)
(* blobs nor the queues.                                                   *)
LEMMA ControlStep ==
  ASSUME IInv, panic' = panic,
         AddWorkerPool \/ Start \/ UploadComplete \/ CompleterStep
  PROVE  IInv'
<1>1. UNCHANGED <<next, queue, job, exited, stage, target, hungUp, panic>> /\ Running
  BY DEF AddWorkerPool, Start, UploadComplete, CompleterStep, WaitForAllChunks,
         CloseQueues, DeleteWorkerPool, BroadcastComplete
<1>2. Handled' = Handled
  BY <1>1 DEF Handled
<1>3. TypeOK'
  <2>1. /\ phase' \in {"none", "added", "running"}
        /\ registered' \in BOOLEAN
        /\ closed' \in BOOLEAN
        /\ wg' \in Int
        /\ completer' \in Completers
    <3>1. CASE AddWorkerPool
      BY <3>1, PoolAssumption DEF AddWorkerPool, IInv, TypeOK
    <3>2. CASE Start
      BY <3>2 DEF Start, IInv, TypeOK
    <3>3. CASE UploadComplete
      BY <3>3 DEF UploadComplete, IInv, TypeOK, Completers
    <3>4. CASE CompleterStep
      BY <3>4 DEF CompleterStep, WaitForAllChunks, CloseQueues, DeleteWorkerPool,
         BroadcastComplete, IInv, TypeOK, Completers
    <3> QED
      BY <3>1, <3>2, <3>3, <3>4
  <2> QED
    BY <1>1, <2>1 DEF IInv, TypeOK
<1>4. QueueHolds' /\ JobHolds'
  BY <1>1 DEF IInv, QueueHolds, JobHolds
<1>5. NothingBeforeStart'
  BY <1>1 DEF IInv, NothingBeforeStart, AddWorkerPool, Start, UploadComplete,
     CompleterStep, WaitForAllChunks, CloseQueues, DeleteWorkerPool, BroadcastComplete
<1>6. Accounting'
  <2>1. CASE AddWorkerPool
    <3>1. Handled = {}
      BY <2>1 DEF AddWorkerPool, IInv, NothingBeforeStart, Handled
    <3>2. Cardinality(Handled) = 0
      BY <3>1, FS_EmptySet
    <3> QED
      BY <1>2, <2>1, <3>2, PoolAssumption DEF Accounting, AddWorkerPool
  <2>2. CASE Start
    BY <1>2, <2>2 DEF IInv, Accounting, Start
  <2>3. CASE UploadComplete \/ CompleterStep
    BY <1>2, <2>3 DEF IInv, Accounting, UploadComplete, CompleterStep,
       WaitForAllChunks, CloseQueues, DeleteWorkerPool, BroadcastComplete
  <2> QED
    BY <2>1, <2>2, <2>3
<1>7. ClosingAfterWait'
  BY <1>1 DEF IInv, ClosingAfterWait, WaitOver, NothingBeforeStart, AddWorkerPool, Start,
     UploadComplete, CompleterStep, WaitForAllChunks, CloseQueues,
     DeleteWorkerPool, BroadcastComplete, TypeOK
<1>8. PanicCause'
  BY <1>1, PoolAssumption DEF IInv, PanicCause, Running, TypeOK, AddWorkerPool, Start, UploadComplete,
     CompleterStep, WaitForAllChunks, CloseQueues, DeleteWorkerPool, BroadcastComplete
<1> QED
  BY <1>3, <1>4, <1>5, <1>6, <1>7, <1>8 DEF IInv

(* A reader looks the pool up and picks a worker. *)
LEMMA LookupStep ==
  ASSUME IInv, NEW b \in Blobs, GetWorkerPool(b) \/ PickWorker(b)
  PROVE  IInv'
<1>1. /\ UNCHANGED <<phase, registered, queue, closed, job, exited, wg, completer,
                     hungUp, panic>>
      /\ Running
      /\ stage[b] \in {"unread", "found"}
      /\ \/ GetWorkerPool(b) /\ stage' = [stage EXCEPT ![b] = IF registered THEN "found" ELSE "missed"]
         \/ PickWorker(b) /\ stage' = [stage EXCEPT ![b] = "picked"]
  BY DEF GetWorkerPool, PickWorker
<1>2. Handled' = Handled
  BY <1>1 DEF IInv, TypeOK, Handled
<1>3. TypeOK'
  <2>1. next' \in Workers
    BY PoolAssumption DEF IInv, TypeOK, GetWorkerPool, PickWorker, Workers
  <2>2. target' \in [Blobs -> Workers]
    BY DEF IInv, TypeOK, GetWorkerPool, PickWorker
  <2>3. stage' \in [Blobs -> Stages]
    BY <1>1 DEF IInv, TypeOK, Stages
  <2> QED
    BY <1>1, <2>1, <2>2, <2>3 DEF IInv, TypeOK
<1>4. \A c \in Blobs : stage[c] \in {"queued", "busy"} =>
        stage'[c] = stage[c] /\ target'[c] = target[c]
  BY <1>1 DEF IInv, TypeOK, GetWorkerPool, PickWorker
<1>5. QueueHolds'
  <2>1. \A w \in Workers : \A i \in 1 .. Len(queue[w]) : queue[w][i] \in Blobs
    BY DEF IInv, TypeOK
  <2> QED
    BY <1>1, <1>4, <2>1 DEF IInv, QueueHolds
<1>6. JobHolds'
  BY <1>1, <1>4 DEF IInv, TypeOK, JobHolds
<1>7. NothingBeforeStart'
  <2> SUFFICES ASSUME phase = "none" PROVE NothingBeforeStart'
    BY <1>1 DEF NothingBeforeStart
  <2>1. /\ ~registered
        /\ wg = 0
        /\ \A c \in Blobs : stage[c] \in {"unread", "missed"}
        /\ completer \in {"none", "refused"}
    BY DEF IInv, NothingBeforeStart
  <2>2. GetWorkerPool(b)
    BY <2>1 DEF PickWorker
  <2>3. stage' = [stage EXCEPT ![b] = "missed"]
    BY <2>1, <2>2 DEF GetWorkerPool
  <2> QED
    BY <1>1, <2>1, <2>3 DEF IInv, TypeOK, NothingBeforeStart
<1>8. Accounting'
  BY <1>1, <1>2 DEF IInv, Accounting
<1>9. ClosingAfterWait' /\ PanicCause'
  BY <1>1 DEF IInv, ClosingAfterWait, PanicCause, Running
<1> QED
  BY <1>3, <1>5, <1>6, <1>7, <1>8, <1>9 DEF IInv

(* A reader offers the blob to the queue of the worker it picked: queued,  *)
(* dropped, or a send on a closed queue.                                   *)
LEMMA OfferStep ==
  ASSUME IInv, NEW b \in Blobs, Offer(b)
  PROVE  IInv'
<1>1. /\ UNCHANGED <<phase, registered, next, closed, job, exited, wg, target,
                     completer, hungUp>>
      /\ Running
      /\ stage[b] = "picked"
      /\ target[b] \in Workers
  BY DEF Offer, OfferOpen, Enqueue, Drop, OfferClosed, IInv, TypeOK
<1>2. CASE OfferClosed
  <2>1. UNCHANGED <<queue, stage>> /\ Handled' = Handled
    BY <1>2 DEF OfferClosed, Handled
  <2>2. TypeOK'
    BY <1>1, <1>2, <2>1 DEF IInv, TypeOK, OfferClosed, Panics, PoolPanics
  <2>3. QueueHolds' /\ JobHolds'
    BY <1>1, <2>1 DEF IInv, QueueHolds, JobHolds
  <2>4. NothingBeforeStart' /\ Accounting' /\ ClosingAfterWait'
    BY <1>1, <2>1 DEF IInv, NothingBeforeStart, Accounting, ClosingAfterWait
  <2>5. PanicCause'
    BY <1>1, <1>2, <2>1 DEF PanicCause, OfferClosed
  <2> QED
    BY <2>2, <2>3, <2>4, <2>5 DEF IInv
<1>3. CASE OfferOpen(b)
  <2>1. /\ panic' = panic
        /\ stage' \in [Blobs -> Stages]
        /\ stage'[b] \in {"queued", "dropped"}
        /\ \A c \in Blobs \ {b} : stage'[c] = stage[c]
    BY <1>3 DEF OfferOpen, Enqueue, Drop, IInv, TypeOK, Stages
  <2>2. Handled' = Handled
    BY <1>1, <2>1 DEF Handled
  <2>3. \/ queue' = queue
        \/ /\ queue' = [queue EXCEPT ![target[b]] = Append(queue[target[b]], b)]
           /\ Len(queue[target[b]]) < QueueCap
           /\ stage'[b] = "queued"
    BY <1>3 DEF OfferOpen, Enqueue, Drop, IInv, TypeOK
  <2>4. TypeOK'
    <3>1. /\ Append(queue[target[b]], b) \in Seq(Blobs)
          /\ Len(Append(queue[target[b]], b)) = Len(queue[target[b]]) + 1
          /\ Len(queue[target[b]]) \in Nat
      BY <1>1 DEF IInv, TypeOK
    <3>2. queue' \in [Workers -> Seq(Blobs)]
      BY <1>1, <2>3, <3>1 DEF IInv, TypeOK
    <3>3. ASSUME NEW w \in Workers PROVE Len(queue'[w]) <= QueueCap
      <4>1. queue'[w] = queue[w] \/ (/\ queue'[w] = Append(queue[target[b]], b)
                                     /\ Len(queue[target[b]]) < QueueCap)
        BY <1>1, <2>3 DEF IInv, TypeOK
      <4>2. Len(queue[w]) <= QueueCap
        BY DEF IInv, TypeOK
      <4> QED
        BY <3>1, <4>1, <4>2, PoolAssumption
    <3> QED
      BY <1>1, <2>1, <3>2, <3>3 DEF IInv, TypeOK
  <2>5. QueueHolds'
    <3> SUFFICES ASSUME NEW w \in Workers, NEW i \in 1 .. Len(queue'[w])
                 PROVE  /\ stage'[queue'[w][i]] = "queued"
                        /\ target[queue'[w][i]] = w
                        /\ \A j \in 1 .. Len(queue'[w]) :
                             queue'[w][i] = queue'[w][j] => i = j
      BY <1>1 DEF QueueHolds
    <3>1. \A k \in 1 .. Len(queue[w]) : queue[w][k] \in Blobs \ {b}
      BY <1>1 DEF IInv, TypeOK, QueueHolds
    <3>2. CASE queue'[w] = queue[w]
      BY <2>1, <3>1, <3>2 DEF IInv, QueueHolds
    <3>3. CASE w = target[b] /\ queue'[w] = Append(queue[w], b) /\ stage'[b] = "queued"
      <4> queue[w] \in Seq(Blobs)
        BY DEF IInv, TypeOK
      <4>1. /\ Len(queue'[w]) = Len(queue[w]) + 1
            /\ queue'[w][Len(queue[w]) + 1] = b
            /\ \A k \in 1 .. Len(queue[w]) : queue'[w][k] = queue[w][k]
        BY <3>3
      <4>2. Len(queue[w]) \in Nat
        BY DEF IInv, TypeOK
      <4>3. CASE i = Len(queue[w]) + 1
        BY <3>1, <3>3, <4>1, <4>2, <4>3
      <4>4. CASE i \in 1 .. Len(queue[w])
        BY <2>1, <3>1, <3>3, <4>1, <4>2, <4>4 DEF IInv, QueueHolds
      <4> QED
        BY <4>1, <4>2, <4>3, <4>4
    <3> QED
      BY <1>1, <2>3, <3>2, <3>3 DEF IInv, TypeOK
  <2>6. JobHolds'
    BY <1>1, <2>1 DEF IInv, TypeOK, JobHolds
  <2>7. NothingBeforeStart'
    BY <1>1, <2>1 DEF IInv, NothingBeforeStart
  <2>8. Accounting' /\ ClosingAfterWait' /\ PanicCause'
    BY <1>1, <2>1, <2>2 DEF IInv, Accounting, ClosingAfterWait, PanicCause, Running
  <2> QED
    BY <2>4, <2>5, <2>6, <2>7, <2>8 DEF IInv
<1> QED
  BY <1>2, <1>3 DEF Offer

(* A worker takes the blob at the head of its queue. *)
LEMMA TakeStep ==
  ASSUME IInv, NEW w \in Workers, Take(w)
  PROVE  IInv'
<1> DEFINE b == Head(queue[w])
<1>1. /\ UNCHANGED <<phase, registered, next, closed, exited, wg, target,
                     completer, hungUp, panic>>
      /\ Running
      /\ phase = "running"
      /\ job[w] = Idle
      /\ queue[w] # <<>>
      /\ job' = [job EXCEPT ![w] = b]
      /\ queue' = [queue EXCEPT ![w] = Tail(queue[w])]
      /\ stage' = [stage EXCEPT ![b] = "busy"]
  BY DEF Take, MayTake
<1>2. queue[w] \in Seq(Blobs) /\ Len(queue[w]) \in Nat /\ Len(queue[w]) <= QueueCap
  BY DEF IInv, TypeOK
<1>3. /\ b \in Blobs
      /\ b = queue[w][1]
      /\ 1 \in 1 .. Len(queue[w])
      /\ Tail(queue[w]) \in Seq(Blobs)
      /\ Len(Tail(queue[w])) = Len(queue[w]) - 1
      /\ \A i \in 1 .. Len(Tail(queue[w])) :
           i + 1 \in 1 .. Len(queue[w]) /\ Tail(queue[w])[i] = queue[w][i + 1]
  BY <1>1, <1>2
<1>4. stage[b] = "queued" /\ target[b] = w
  BY <1>3 DEF IInv, QueueHolds
<1>5. \A c \in Blobs : stage'[c] = IF c = b THEN "busy" ELSE stage[c]
  BY <1>1, <1>3 DEF IInv, TypeOK
<1>6. Handled' = Handled
  BY <1>4, <1>5 DEF Handled
<1>7. TypeOK'
  <2>1. stage' \in [Blobs -> Stages] /\ job' \in [Workers -> Blobs \union {Idle}]
    BY <1>1, <1>3 DEF IInv, TypeOK, Stages
  <2>2. queue' \in [Workers -> Seq(Blobs)]
    BY <1>1, <1>3 DEF IInv, TypeOK
  <2>3. ASSUME NEW v \in Workers PROVE Len(queue'[v]) <= QueueCap
    <3>1. CASE v = w
      BY <1>1, <1>2, <1>3, <3>1, PoolAssumption DEF IInv, TypeOK
    <3>2. CASE v # w
      BY <1>1, <3>2 DEF IInv, TypeOK
    <3> QED
      BY <3>1, <3>2
  <2> QED
    BY <1>1, <2>1, <2>2, <2>3 DEF IInv, TypeOK
<1>8. QueueHolds'
  <2> SUFFICES ASSUME NEW v \in Workers, NEW i \in 1 .. Len(queue'[v])
               PROVE  /\ stage'[queue'[v][i]] = "queued"
                      /\ target[queue'[v][i]] = v
                      /\ \A j \in 1 .. Len(queue'[v]) :
                           queue'[v][i] = queue'[v][j] => i = j
    BY <1>1 DEF QueueHolds
  <2>1. CASE v # w
    <3>1. queue'[v] = queue[v]
      BY <1>1, <2>1 DEF IInv, TypeOK
    <3>2. /\ stage[queue[v][i]] = "queued"
          /\ target[queue[v][i]] = v
          /\ \A j \in 1 .. Len(queue[v]) : queue[v][i] = queue[v][j] => i = j
      BY <3>1 DEF IInv, QueueHolds
    <3>3. queue[v][i] \in Blobs
      BY <3>1 DEF IInv, TypeOK
    <3> QED
      BY <1>4, <1>5, <2>1, <3>1, <3>2, <3>3
  <2>2. CASE v = w
    <3>1. queue'[v] = Tail(queue[w])
      BY <1>1, <2>2 DEF IInv, TypeOK
    <3>2. \A k \in 1 .. Len(queue[w]) :
            /\ stage[queue[w][k]] = "queued"
            /\ target[queue[w][k]] = w
            /\ queue[w][k] \in Blobs
            /\ \A j \in 1 .. Len(queue[w]) : queue[w][k] = queue[w][j] => k = j
      BY <1>2 DEF IInv, TypeOK, QueueHolds
    <3>3. /\ i + 1 \in 1 .. Len(queue[w])
          /\ queue'[v][i] = queue[w][i + 1]
          /\ i + 1 # 1
          /\ \A j \in 1 .. Len(queue'[v]) :
               /\ j + 1 \in 1 .. Len(queue[w])
               /\ queue'[v][j] = queue[w][j + 1]
               /\ i + 1 = j + 1 => i = j
      BY <1>2, <1>3, <3>1
    <3>4. queue[w][i + 1] # b
      BY <1>3, <3>2, <3>3
    <3>5. /\ stage'[queue'[v][i]] = "queued"
          /\ target[queue'[v][i]] = v
      BY <1>5, <2>2, <3>2, <3>3, <3>4
    <3>6. ASSUME NEW j \in 1 .. Len(queue'[v]), queue'[v][i] = queue'[v][j]
          PROVE  i = j
      BY <3>2, <3>3, <3>6
    <3> QED
      BY <3>5, <3>6
  <2> QED
    BY <2>1, <2>2
<1>9. JobHolds'
  <2> SUFFICES ASSUME NEW v \in Workers, job'[v] # Idle
               PROVE  stage'[job'[v]] = "busy" /\ target[job'[v]] = v
    BY <1>1 DEF JobHolds
  <2>1. CASE v = w
    BY <1>1, <1>3, <1>4, <1>5, <2>1 DEF IInv, TypeOK
  <2>2. CASE v # w
    <3>1. job'[v] = job[v]
      BY <1>1, <2>2 DEF IInv, TypeOK
    <3>2. job[v] \in Blobs /\ stage[job[v]] = "busy" /\ target[job[v]] = v
      BY <3>1 DEF IInv, TypeOK, JobHolds
    <3> QED
      BY <1>5, <3>1, <3>2
  <2> QED
    BY <2>1, <2>2
<1>10. NothingBeforeStart' /\ Accounting' /\ ClosingAfterWait' /\ PanicCause'
  BY <1>1, <1>6 DEF IInv, NothingBeforeStart, Accounting, ClosingAfterWait,
     PanicCause, Running
<1> QED
  BY <1>7, <1>8, <1>9, <1>10 DEF IInv

(* A worker is finished with its blob: one more handled, one Done more. *)
LEMMA FinishStep ==
  ASSUME IInv, NEW w \in Workers, NEW outcome \in {"sent", "lost"}, Finish(w, outcome)
  PROVE  /\ IInv'
         /\ job[w] \in Blobs \ Handled
         /\ Handled' = Handled \union {job[w]}
<1> DEFINE b == job[w]
<1>0. wg \in Int /\ panic = "none" /\ wg >= 0
  BY DEF IInv, TypeOK, PanicCause, Finish, Running
<1>1. /\ UNCHANGED <<phase, registered, next, queue, closed, exited, target, completer,
                     hungUp>>
      /\ Running
      /\ b # Idle
      /\ stage' = [stage EXCEPT ![b] = outcome]
      /\ job' = [job EXCEPT ![w] = Idle]
      /\ wg' = wg - 1
      /\ panic' = IF wg' < 0 THEN "negative_counter" ELSE panic
  BY DEF Finish, Done
<1>2. b \in Blobs /\ stage[b] = "busy" /\ target[b] = w
  BY <1>1 DEF IInv, TypeOK, JobHolds
<1>3. \A c \in Blobs : stage'[c] = IF c = b THEN outcome ELSE stage[c]
  BY <1>1, <1>2 DEF IInv, TypeOK
<1>4. b \in Blobs \ Handled /\ Handled' = Handled \union {b}
  BY <1>2, <1>3 DEF Handled
<1>5. Cardinality(Handled') = Cardinality(Handled) + 1
  BY <1>4, HandledFinite, FS_AddElement
<1>6. phase # "none"
  BY <1>2 DEF IInv, NothingBeforeStart
<1>7. TypeOK'
  <2>1. stage' \in [Blobs -> Stages] /\ job' \in [Workers -> Blobs \union {Idle}]
    BY <1>1, <1>2 DEF IInv, TypeOK, Stages
  <2>2. wg' \in Int
    BY <1>1, <1>0
  <2>3. panic' \in Panics
    BY <1>1 DEF IInv, TypeOK, Panics, PoolPanics
  <2> QED
    BY <1>1, <2>1, <2>2, <2>3 DEF IInv, TypeOK
<1>8. QueueHolds'
  <2> SUFFICES ASSUME NEW v \in Workers, NEW i \in 1 .. Len(queue[v])
               PROVE  /\ stage'[queue[v][i]] = "queued"
                      /\ target[queue[v][i]] = v
                      /\ \A j \in 1 .. Len(queue[v]) : queue[v][i] = queue[v][j] => i = j
    BY <1>1 DEF QueueHolds
  <2>1. queue[v][i] \in Blobs
    BY DEF IInv, TypeOK
  <2>2. /\ stage[queue[v][i]] = "queued"
        /\ target[queue[v][i]] = v
        /\ \A j \in 1 .. Len(queue[v]) : queue[v][i] = queue[v][j] => i = j
    BY DEF IInv, QueueHolds
  <2> QED
    BY <1>2, <1>3, <2>1, <2>2
<1>9. JobHolds'
  <2> SUFFICES ASSUME NEW v \in Workers, job'[v] # Idle
               PROVE  stage'[job'[v]] = "busy" /\ target[job'[v]] = v
    BY <1>1 DEF JobHolds
  <2>1. v # w /\ job'[v] = job[v]
    BY <1>1 DEF IInv, TypeOK
  <2>2. job[v] \in Blobs /\ stage[job[v]] = "busy" /\ target[job[v]] = v
    BY <2>1 DEF IInv, TypeOK, JobHolds
  <2> QED
    BY <1>2, <1>3, <2>1, <2>2
<1>10. NothingBeforeStart'
  BY <1>1, <1>6 DEF NothingBeforeStart
<1>11. Accounting'
  <2>1. wg = TotalChunks - Cardinality(Handled)
    BY <1>6 DEF IInv, Accounting
  <2> QED
    BY <1>1, <1>5, <2>1, HandledFinite, PoolAssumption DEF Accounting
<1>12. ClosingAfterWait'
  <2>1. completer \in {"closing", "deleting", "broadcasting", "announced"} => wg <= 0
    BY DEF IInv, ClosingAfterWait
  <2> QED
    BY <1>0, <1>1, <2>1 DEF IInv, ClosingAfterWait
<1>13. PanicCause'
  BY <1>0, <1>1 DEF PanicCause
<1> QED
  BY <1>4, <1>7, <1>8, <1>9, <1>10, <1>11, <1>12, <1>13 DEF IInv

(* A worker's range loop ends. *)
LEMMA ExitStep ==
  ASSUME IInv, NEW w \in Workers, Exit(w)
  PROVE  IInv'
<1>1. /\ UNCHANGED <<phase, registered, next, queue, closed, job, wg, stage, target,
                     completer, hungUp, panic>>
      /\ exited' = exited \union {w}
  BY DEF Exit
<1>2. Handled' = Handled
  BY <1>1 DEF Handled
<1>3. TypeOK'
  BY <1>1 DEF IInv, TypeOK
<1>4. QueueHolds' /\ JobHolds' /\ NothingBeforeStart'
  BY <1>1 DEF IInv, QueueHolds, JobHolds, NothingBeforeStart
<1>5. Accounting' /\ ClosingAfterWait' /\ PanicCause'
  BY <1>1, <1>2 DEF IInv, Accounting, ClosingAfterWait, PanicCause
<1> QED
  BY <1>3, <1>4, <1>5 DEF IInv

(* Every step, or a stutter, preserves the invariant. *)
LEMMA NextIInv == IInv /\ [Next]_vars => IInv'
<1> SUFFICES ASSUME IInv, [Next]_vars PROVE IInv'
  OBVIOUS
<1>1. CASE AddWorkerPool \/ Start \/ UploadComplete \/ CompleterStep
  <2>1. panic' = panic \/ (BroadcastComplete /\ panic' = "client_closed")
    BY <1>1 DEF AddWorkerPool, Start, UploadComplete, CompleterStep, WaitForAllChunks,
       CloseQueues, DeleteWorkerPool, BroadcastComplete
  <2> QED
    BY <1>1, <2>1, ControlStep, HangUpStep
<1>2. ASSUME NEW b \in Blobs, GetWorkerPool(b) \/ DispatchStep(b) PROVE IInv'
  BY <1>2, LookupStep, OfferStep DEF DispatchStep
<1>3. ASSUME NEW w \in Workers, WorkerStep(w) PROVE IInv'
  BY <1>3, TakeStep, FinishStep, ExitStep, HangUpStep DEF WorkerStep
<1>4. CASE ClientHangsUp \/ AnswerToClosed
  BY <1>4, HangUpStep
<1>5. CASE UNCHANGED vars
  <2>1. Handled' = Handled
    BY <1>5 DEF vars, Handled
  <2>2. TypeOK' /\ QueueHolds' /\ JobHolds' /\ NothingBeforeStart'
    BY <1>5 DEF vars, IInv, TypeOK, QueueHolds, JobHolds, NothingBeforeStart
  <2>3. Accounting' /\ ClosingAfterWait' /\ PanicCause'
    BY <1>5, <2>1 DEF vars, IInv, Accounting, ClosingAfterWait, PanicCause
  <2> QED
    BY <2>2, <2>3 DEF IInv
<1> QED
  BY <1>1, <1>2, <1>3, <1>4, <1>5 DEF Next

--------------------------------------------------------------------------------
(* The invariant holds in every reachable state: queues, jobs and stages   *)
(* agree on where each blob is, the WaitGroup counts the chunks no worker  *)
(* is finished with, and the queues are closed only after the wait.        *)
THEOREM Inductive == Spec => []IInv
<1>1. Init => IInv
  BY InitIInv
<1>2. IInv /\ [Next]_vars => IInv'
  BY NextIInv
<1> QED
  BY <1>1, <1>2, PTL DEF Spec

(* Every variable stays in its domain; no queue exceeds its capacity. *)
THEOREM TypeCorrect == Spec => []TypeOK
<1>1. IInv => TypeOK
  BY DEF IInv
<1> QED
  BY <1>1, Inductive, PTL

(* Dispatch, StartWorker and UploadComplete send on a closed worker queue, *)
(* or call Done once too often, only if more blobs arrived than            *)
(* upload-start declared, also when clients hang up meanwhile.             *)
THEOREM NoCrashWithinCount == Spec => []CrashOnlyOnSurplus
<1>1. ASSUME IInv, panic \in PoolPanics PROVE Cardinality(Received) > TotalChunks
  <2>1. Handled \subseteq Received
    BY DEF Handled, Received
  <2>2. phase # "none" => wg = TotalChunks - Cardinality(Handled)
    BY <1>1 DEF IInv, Accounting
  <2>3. CASE panic = "negative_counter"
    <3>1. wg < 0 /\ phase # "none"
      BY <1>1, <2>3 DEF IInv, PanicCause, NothingBeforeStart
    <3>2. Cardinality(Handled) <= Cardinality(Received)
      BY <2>1, HandledFinite, FS_Subset
    <3> QED
      BY <2>2, <3>1, <3>2, HandledFinite, PoolAssumption
  <2>4. CASE panic = "send_on_closed"
    <3>1. closed /\ wg <= 0 /\ wg \in Int
      BY <1>1, <2>4 DEF IInv, TypeOK, PanicCause, ClosingAfterWait
    <3>2. PICK b \in Blobs : stage[b] = "picked"
      BY <1>1, <2>4 DEF IInv, PanicCause
    <3>3. phase # "none"
      BY <1>1, <3>2 DEF IInv, NothingBeforeStart
    <3>4. b \notin Handled /\ Handled \union {b} \subseteq Received
      BY <2>1, <3>2 DEF Handled, Received
    <3>5. /\ IsFiniteSet(Handled \union {b})
          /\ Cardinality(Handled \union {b}) = Cardinality(Handled) + 1
      BY <3>4, HandledFinite, FS_AddElement
    <3>6. Cardinality(Handled \union {b}) <= Cardinality(Received)
      BY <3>4, HandledFinite, FS_Subset
    <3> QED
      BY <2>2, <3>1, <3>3, <3>5, <3>6, HandledFinite, PoolAssumption
  <2> QED
    BY <1>1, <2>3, <2>4 DEF PoolPanics
<1>2. IInv => CrashOnlyOnSurplus
  BY <1>1 DEF CrashOnlyOnSurplus
<1> QED
  BY <1>2, Inductive, PTL

(* What the invariant says of the end of the wait. *)
LEMMA AfterWait ==
  ASSUME IInv, Running, completer \in {"closing", "deleting", "broadcasting", "announced"}
  PROVE  Cardinality(Handled) = TotalChunks
<1>1. wg = 0
  BY DEF IInv, TypeOK, ClosingAfterWait, PanicCause, Running
<1>2. phase # "none"
  BY DEF IInv, NothingBeforeStart
<1> QED
  BY <1>1, <1>2, HandledFinite, PoolAssumption DEF IInv, Accounting

(* When upload-complete has been broadcast and the server is up, exactly   *)
(* the declared number of blobs was handled.                               *)
THEOREM ExactAnnouncement == Spec => []AnnouncedExactly
<1>1. IInv => AnnouncedExactly
  BY AfterWait DEF AnnouncedExactly
<1> QED
  BY <1>1, Inductive, PTL

(* The pool implements what UploadPromise promises: a worker that is       *)
(* finished with a blob handles it, the broadcast announces, and every     *)
(* other step of readers, workers and the completing goroutine stutters.   *)
THEOREM PoolKeepsPromise == Spec => PromiseSpec
<1>1. Init => Promise!Init
  BY DEF Init, Promise!Init, Handled
<1>2. IInv /\ [Next]_vars => [Promise!Next]_(Promise!vars)
  <2> SUFFICES ASSUME IInv, [Next]_vars PROVE [Promise!Next]_(Promise!vars)
    OBVIOUS
  <2>1. ASSUME NEW w \in Workers, NEW outcome \in {"sent", "lost"}, Finish(w, outcome)
        PROVE  Promise!Next
    <3>1. job[w] \in Blobs \ Handled /\ Handled' = Handled \union {job[w]}
      BY <2>1, FinishStep
    <3>2. completer' = completer
      BY <2>1 DEF Finish
    <3> QED
      BY <3>1, <3>2 DEF Promise!Next, Promise!Handle
  <2>2. CASE BroadcastComplete /\ completer' = "announced"
    <3>1. Cardinality(Handled) >= TotalChunks
      BY <2>2, AfterWait, PoolAssumption DEF BroadcastComplete
    <3>2. Handled' = Handled
      BY <2>2 DEF BroadcastComplete, Handled
    <3>3. Promise!Cardinality(Handled) = Cardinality(Handled)
      BY Zenon DEF Promise!Cardinality, Cardinality
    <3> QED
      BY <2>2, <3>1, <3>2, <3>3 DEF BroadcastComplete, Promise!Next, Promise!Announce
  <2>3. ASSUME Handled' = Handled, completer' = completer \/
               (completer # "announced" /\ completer' # "announced")
        PROVE  UNCHANGED Promise!vars
    BY <2>3 DEF Promise!vars
  <2>4. CASE AddWorkerPool \/ Start \/ UploadComplete \/ WaitForAllChunks
             \/ CloseQueues \/ DeleteWorkerPool
    BY <2>3, <2>4 DEF AddWorkerPool, Start, UploadComplete, WaitForAllChunks,
       CloseQueues, DeleteWorkerPool, Handled
  <2>5. ASSUME NEW b \in Blobs, GetWorkerPool(b) \/ DispatchStep(b)
        PROVE  UNCHANGED Promise!vars
    <3>1. stage[b] \in {"unread", "found", "picked"} /\ completer' = completer
      BY <2>5 DEF GetWorkerPool, DispatchStep, PickWorker, Offer
    <3>2. /\ stage'[b] \notin {"sent", "lost"}
          /\ \A c \in Blobs \ {b} : stage'[c] = stage[c]
      BY <2>5 DEF IInv, TypeOK, GetWorkerPool, DispatchStep, PickWorker, Offer,
         OfferOpen, Enqueue, Drop, OfferClosed
    <3> QED
      BY <2>3, <3>1, <3>2 DEF Handled
  <2>6. ASSUME NEW w \in Workers, Take(w) PROVE UNCHANGED Promise!vars
    <3>1. Head(queue[w]) \in Blobs /\ stage[Head(queue[w])] = "queued"
      <4>1. queue[w] \in Seq(Blobs) /\ queue[w] # <<>>
        BY <2>6 DEF IInv, TypeOK, Take, MayTake
      <4>2. 1 \in 1 .. Len(queue[w]) /\ Head(queue[w]) = queue[w][1]
        BY <4>1
      <4> QED
        BY <4>1, <4>2 DEF IInv, QueueHolds
    <3>2. \A c \in Blobs : stage'[c] =
                            IF c = Head(queue[w]) THEN "busy" ELSE stage[c]
      BY <2>6, <3>1 DEF Take, IInv, TypeOK
    <3> QED
      BY <2>3, <2>6, <3>1, <3>2 DEF Take, Handled
  <2>7. ASSUME NEW w \in Workers, Exit(w) PROVE UNCHANGED Promise!vars
    BY <2>3, <2>7 DEF Exit, Handled
  <2>8. CASE \/ ClientHangsUp \/ AnswerToClosed
             \/ \E w \in Workers : SendToClosed(w)
             \/ BroadcastComplete /\ panic' = "client_closed"
    BY <2>3, <2>8, HangUpStep DEF Handled
  <2>9. CASE UNCHANGED vars
    BY <2>3, <2>9 DEF vars, Handled
  <2> QED
    BY <2>1, <2>2, <2>4, <2>5, <2>6, <2>7, <2>8, <2>9
       DEF Next, WorkerStep, CompleterStep, BroadcastComplete
<1> QED
  BY <1>1, <1>2, Inductive, PTL DEF Spec, PromiseSpec, Promise!Spec
--------------------------------------------------------------------------------
(* Who waits, waits for somebody: the safety half of                       *)
(* CompletesUnlessChunkMissing, which is a liveness property.              *)

(* A blob that is queued is in the queue of its worker, and one that is    *)
(* busy is its worker's job.                                               *)
Placed ==
  \A b \in Blobs :
    /\ stage[b] = "queued" =>
         \E i \in 1 .. Len(queue[target[b]]) : queue[target[b]][i] = b
    /\ stage[b] = "busy" => job[target[b]] = b

(* A goroutine of the server can take a step: UploadStart, a reader that   *)
(* holds a blob, a worker, or the one that completes the task.  (Whether a *)
(* client sends one more blob or the completion is up to it.)              *)
WorkerCanGoOn(w) ==
  \/ job[w] # Idle
  \/ phase = "running" /\ queue[w] # <<>>
  \/ phase = "running" /\ closed /\ w \notin exited

CompleterCanGoOn ==
  \/ completer = "waiting" /\ wg = 0
  \/ completer \in {"closing", "deleting", "broadcasting"}

CanGoOn ==
  \/ phase = "added"
  \/ \E b \in Blobs : stage[b] \in {"found", "picked"}
  \/ \E w \in Workers : WorkerCanGoOn(w)
  \/ CompleterCanGoOn

(* When nobody can go on, no worker is left of a task that is announced,   *)
(* and who still waits to announce one waits for a chunk that never came,  *)
(* was dropped at a full queue, or missed the pool.                        *)
StuckOnlyIfMissing ==
  Running /\ ~CanGoOn =>
    /\ completer = "announced" => exited = Workers
    /\ \/ completer \in {"none", "refused", "announced"}
       \/ completer = "waiting" /\ (Gone # {} \/ Cardinality(Received) < TotalChunks)

(* Steps of UploadStart, of the completing goroutine and of clients that   *)
(* hang up leave queues and jobs alone.                                    *)
LEMMA PlacedControl ==
  ASSUME IInv, Placed,
         \/ AddWorkerPool \/ Start \/ UploadComplete \/ CompleterStep
         \/ ClientHangsUp \/ AnswerToClosed
         \/ \E w \in Workers : Exit(w) \/ SendToClosed(w)
         \/ UNCHANGED vars
  PROVE  Placed'
<1>1. UNCHANGED <<queue, job, stage, target>>
  BY DEF AddWorkerPool, Start, UploadComplete, CompleterStep, WaitForAllChunks,
         CloseQueues, DeleteWorkerPool, BroadcastComplete, ClientHangsUp, AnswerToClosed,
         Exit, SendToClosed, vars
<1> QED
  BY <1>1 DEF Placed

(* A blob that is looked up, dispatched or dropped leaves the others where *)
(* they are; one that is enqueued is the last of its queue.                *)
LEMMA PlacedReader ==
  ASSUME IInv, Placed, NEW b \in Blobs, GetWorkerPool(b) \/ DispatchStep(b)
  PROVE  Placed'
<1>1. CASE GetWorkerPool(b) \/ PickWorker(b)
  <2>1. /\ UNCHANGED <<queue, job>>
        /\ stage'[b] \in {"found", "missed", "picked"}
        /\ \A c \in Blobs \ {b} : stage'[c] = stage[c] /\ target'[c] = target[c]
    BY <1>1 DEF GetWorkerPool, PickWorker, IInv, TypeOK
  <2> QED
    BY <2>1 DEF Placed
<1>2. CASE Offer(b) /\ OfferClosed
  BY <1>2 DEF Offer, OfferClosed, Placed
<1>3. CASE Offer(b) /\ OfferOpen(b) /\ Drop(b)
  <2>1. /\ UNCHANGED <<queue, job, target>>
        /\ stage'[b] = "dropped" /\ \A c \in Blobs \ {b} : stage'[c] = stage[c]
    BY <1>3 DEF Offer, Drop, IInv, TypeOK
  <2> QED
    BY <2>1 DEF Placed
<1>4. CASE Offer(b) /\ OfferOpen(b) /\ Enqueue(b)
  <2>1. PICK t \in Workers : t = target[b]
    BY DEF IInv, TypeOK
  <2>2. /\ UNCHANGED <<job, target>>
        /\ stage'[b] = "queued" /\ \A c \in Blobs \ {b} : stage'[c] = stage[c]
        /\ queue' = [queue EXCEPT ![t] = Append(queue[t], b)]
    BY <1>4, <2>1 DEF Offer, Enqueue, IInv, TypeOK
  <2>3. /\ queue'[t] = Append(queue[t], b)
        /\ \A w \in Workers \ {t} : queue'[w] = queue[w]
    BY <2>2 DEF IInv, TypeOK
  <2>4. queue[t] \in Seq(Blobs) /\ Len(queue[t]) \in Nat
    BY DEF IInv, TypeOK
  <2>5. /\ Len(queue'[t]) = Len(queue[t]) + 1
        /\ queue'[t][Len(queue[t]) + 1] = b
        /\ \A i \in 1 .. Len(queue[t]) : queue'[t][i] = queue[t][i]
    BY <2>3, <2>4
  <2>6. /\ Len(queue[t]) + 1 \in 1 .. Len(queue'[t])
        /\ \A i \in 1 .. Len(queue[t]) : i \in 1 .. Len(queue'[t])
    BY <2>4, <2>5
  <2>7. ASSUME NEW c \in Blobs, stage'[c] = "queued"
        PROVE  \E i \in 1 .. Len(queue'[target[c]]) : queue'[target[c]][i] = c
    <3>0. target[c] \in Workers
      BY DEF IInv, TypeOK
    <3>1. CASE c = b
      BY <2>1, <2>5, <2>6, <3>1
    <3>2. CASE c # b
      <4>1. PICK i \in 1 .. Len(queue[target[c]]) : queue[target[c]][i] = c
        BY <2>2, <2>7, <3>2 DEF Placed
      <4>2. CASE target[c] = t
        BY <2>5, <2>6, <4>1, <4>2
      <4>3. CASE target[c] # t
        BY <2>3, <3>0, <4>1, <4>3
      <4> QED
        BY <4>2, <4>3
    <3> QED
      BY <3>1, <3>2
  <2>8. ASSUME NEW c \in Blobs, stage'[c] = "busy" PROVE job[target[c]] = c
    BY <2>2, <2>8 DEF Placed
  <2> QED
    BY <2>2, <2>7, <2>8 DEF Placed
<1> QED
  BY <1>1, <1>2, <1>3, <1>4 DEF DispatchStep, Offer, OfferOpen

(* The head of a queue becomes its worker's job, and the others move up. *)
LEMMA PlacedTake ==
  ASSUME IInv, Placed, NEW w \in Workers, Take(w)
  PROVE  Placed'
<1>1. PICK q \in Seq(Blobs) : q = queue[w] /\ q # <<>>
  BY DEF Take, MayTake, IInv, TypeOK
<1>2. PICK b : b = Head(q)
  OBVIOUS
<1>3. b \in Blobs /\ b = q[1] /\ 1 \in 1 .. Len(q) /\ Len(q) \in Nat
  BY <1>1, <1>2
<1>4. stage[b] = "queued" /\ target[b] = w
  BY <1>1, <1>3 DEF IInv, QueueHolds
<1>5. /\ target' = target /\ job[w] = Idle
      /\ job'[w] = b /\ \A v \in Workers \ {w} : job'[v] = job[v]
      /\ queue'[w] = Tail(q) /\ \A v \in Workers \ {w} : queue'[v] = queue[v]
      /\ stage'[b] = "busy" /\ \A c \in Blobs \ {b} : stage'[c] = stage[c]
  BY <1>1, <1>2, <1>3 DEF Take, MayTake, IInv, TypeOK
<1>6. /\ Len(Tail(q)) = Len(q) - 1
      /\ \A i \in 1 .. Len(q) - 1 : Tail(q)[i] = q[i + 1]
  BY <1>1
<1>7. ASSUME NEW c \in Blobs, stage'[c] = "queued"
      PROVE  \E i \in 1 .. Len(queue'[target[c]]) : queue'[target[c]][i] = c
  <2>1. c # b /\ stage[c] = "queued" /\ target[c] \in Workers
    BY <1>5, <1>7 DEF IInv, TypeOK
  <2>2. PICK i \in 1 .. Len(queue[target[c]]) : queue[target[c]][i] = c
    BY <2>1 DEF Placed
  <2>3. CASE target[c] = w
    <3>1. i \in 1 .. Len(q) /\ q[i] = c /\ i # 1
      BY <1>1, <1>3, <2>1, <2>2, <2>3
    <3>2. PICK j : j = i - 1
      OBVIOUS
    <3>3. j \in 1 .. Len(q) - 1 /\ j + 1 = i
      BY <1>3, <3>1, <3>2
    <3>4. Tail(q)[j] = c /\ j \in 1 .. Len(Tail(q))
      BY <1>3, <1>6, <3>1, <3>3
    <3> QED
      BY <1>5, <2>3, <3>4
  <2>4. CASE target[c] # w
    BY <1>5, <2>1, <2>2, <2>4
  <2> QED
    BY <2>3, <2>4
<1>8. ASSUME NEW c \in Blobs, stage'[c] = "busy" PROVE job'[target[c]] = c
  <2>1. CASE c = b
    BY <1>4, <1>5, <2>1
  <2>2. CASE c # b
    <3>1. job[target[c]] = c /\ target[c] \in Workers
      BY <1>5, <1>8, <2>2 DEF Placed, IInv, TypeOK
    <3>2. target[c] # w
      BY <1>5, <3>1, Ranges
    <3> QED
      BY <1>5, <3>1, <3>2
  <2> QED
    BY <2>1, <2>2
<1> QED
  BY <1>5, <1>7, <1>8 DEF Placed

(* A worker's job ends, and is no other worker's. *)
LEMMA PlacedFinish ==
  ASSUME IInv, Placed, NEW w \in Workers, NEW outcome \in {"sent", "lost"}, Finish(w, outcome)
  PROVE  Placed'
<1>1. PICK b \in Blobs : b = job[w]
  BY DEF Finish, IInv, TypeOK
<1>2. /\ UNCHANGED <<queue, target>>
      /\ \A v \in Workers \ {w} : job'[v] = job[v]
      /\ stage'[b] = outcome /\ \A c \in Blobs \ {b} : stage'[c] = stage[c]
  BY <1>1 DEF Finish, IInv, TypeOK
<1>3. ASSUME NEW c \in Blobs, stage'[c] = "queued"
      PROVE  \E i \in 1 .. Len(queue[target[c]]) : queue[target[c]][i] = c
  BY <1>2, <1>3 DEF Placed
<1>4. ASSUME NEW c \in Blobs, stage'[c] = "busy" PROVE job'[target[c]] = c
  <2>1. c # b /\ job[target[c]] = c /\ target[c] \in Workers
    BY <1>2, <1>4 DEF Placed, IInv, TypeOK
  <2> QED
    BY <1>1, <1>2, <2>1
<1> QED
  BY <1>2, <1>3, <1>4 DEF Placed

(* Every blob is where its stage says. *)
LEMMA BlobsPlaced == Spec => []Placed
<1>1. Init => Placed
  BY DEF Init, Placed
<1>2. IInv /\ Placed /\ [Next]_vars => Placed'
  BY PlacedControl, PlacedReader, PlacedTake, PlacedFinish
     DEF Next, WorkerStep
<1> QED
  BY <1>1, <1>2, Inductive, PTL DEF Spec

(* The goroutine that UploadComplete starts (core/transfer.go) waits only  *)
(* for somebody who can go on, unless a chunk is missing; and the workers  *)
(* of a task that was announced have all left.                             *)
THEOREM NoDeadlockUnlessMissing == Spec => []StuckOnlyIfMissing
<1>1. IInv /\ Placed => StuckOnlyIfMissing
  <2> SUFFICES ASSUME IInv, Placed, Running, ~CanGoOn
               PROVE  /\ completer = "announced" => exited = Workers
                      /\ \/ completer \in {"none", "refused", "announced"}
                         \/ /\ completer = "waiting"
                            /\ Gone # {} \/ Cardinality(Received) < TotalChunks
    BY DEF StuckOnlyIfMissing
  <2>1. CASE phase = "none"
    BY <2>1 DEF IInv, NothingBeforeStart
  <2>2. CASE phase = "running"
    <3>1. \A w \in Workers : job[w] = Idle /\ queue[w] = <<>>
      BY <2>2 DEF CanGoOn, WorkerCanGoOn
    <3>2. ASSUME completer = "announced" PROVE exited = Workers
      <4>1. closed
        BY <3>2 DEF IInv, ClosingAfterWait
      <4> QED
        BY <2>2, <4>1 DEF CanGoOn, WorkerCanGoOn, IInv, TypeOK
    <3>3. \A b \in Blobs : stage[b] \notin {"found", "picked", "queued", "busy"}
      <4>1. ASSUME NEW b \in Blobs, stage[b] = "queued" PROVE FALSE
        <5>1. target[b] \in Workers
          BY DEF IInv, TypeOK
        <5>2. PICK i \in 1 .. Len(queue[target[b]]) : queue[target[b]][i] = b
          BY <4>1 DEF Placed
        <5> QED
          BY <3>1, <5>1, <5>2
      <4>2. ASSUME NEW b \in Blobs, stage[b] = "busy" PROVE FALSE
        BY <3>1, <4>2, Ranges DEF Placed, IInv, TypeOK
      <4> QED
        BY <4>1, <4>2 DEF CanGoOn
    <3>4. ASSUME completer = "waiting", Gone = {} PROVE Cardinality(Received) < TotalChunks
      <4>1. Received = Handled
        BY <3>3, <3>4 DEF Received, Handled, Gone, IInv, TypeOK, Stages
      <4>2. wg # 0 /\ wg \in Int /\ wg >= 0 /\ wg = TotalChunks - Cardinality(Handled)
        BY <2>2, <3>4 DEF CanGoOn, CompleterCanGoOn, IInv, TypeOK, PanicCause, Running, Accounting
      <4> QED
        BY <4>1, <4>2, HandledFinite, PoolAssumption
    <3>5. completer \in {"none", "refused", "waiting", "announced"}
      BY DEF CanGoOn, CompleterCanGoOn, IInv, TypeOK, Completers
    <3> QED
      BY <3>2, <3>4, <3>5
  <2> QED
    BY <2>1, <2>2 DEF CanGoOn, IInv, TypeOK
<1> QED
  BY <1>1, Inductive, BlobsPlaced, PTL
================================================================================
