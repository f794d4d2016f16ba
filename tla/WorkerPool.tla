------------------------------- MODULE WorkerPool -------------------------------
(***************************************************************************)
(* The worker pool that carries one upload task (core/worker.go), with the *)
(* part of core/transfer.go that creates, completes and removes it and the *)
(* part of core/client.go that hands it blobs.                             *)
(*                                                                         *)
(* The environment is the most general one: blobs of the task may arrive   *)
(* at any time and be handled by several readers at once, the              *)
(* upload-complete request may come at any time, and so may the end of a   *)
(* client's connection, whose Outgoing queue is then closed (ClientConn).  *)
(* TransferServer composes this module with the connection that feeds it.  *)
(***************************************************************************)
EXTENDS Integers, Sequences, FiniteSets

CONSTANTS
  NumWorkers,   (* workers per pool: 4 in UploadStart                       *)
  QueueCap,     (* capacity of a worker's queue: 32 in NewWorker            *)
  TotalChunks,  (* total_chunks of the upload-start request                 *)
  NumBlobs      (* blobs the uploader really sends for the task             *)

ASSUME PoolAssumption ==
  /\ NumWorkers \in Nat \ {0}
  /\ QueueCap \in Nat \ {0}
  /\ TotalChunks \in Nat
  /\ NumBlobs \in Nat

Workers == 0 .. (NumWorkers - 1)
Blobs   == 1 .. NumBlobs
Idle    == 0

VARIABLES
  phase,       (* how far UploadStart got: "none", "added", "running"       *)
  registered,  (* the pool is in WorkerPools under the task's id            *)
  next,        (* index of the worker the next blob goes to                 *)
  queue,       (* worker -> blobs waiting in its queue                      *)
  closed,      (* the queues are closed                                     *)
  job,         (* worker -> blob it is delivering, or Idle                  *)
  exited,      (* workers whose range loop has ended                        *)
  wg,          (* counter of the WaitGroup                                  *)
  stage,       (* blob -> where it is on its way through the server         *)
  target,      (* blob -> worker Dispatch picked for it                     *)
  completer,   (* progress of the goroutine UploadComplete spawns           *)
  hungUp,      (* a client of the channel has closed its Outgoing           *)
  panic        (* "none", or what brought the server process down           *)

vars == <<phase, registered, next, queue, closed, job, exited, wg,
          stage, target, completer, hungUp, panic>>

\* "found", "picked": a reader holds the blob and the pool, then its worker too.
\* "lost": a worker could not deliver it.  "dropped": the worker's queue was full.
\* "missed": there was no pool for the task when the blob came.
Stages     == {"unread", "found", "picked", "queued", "busy",
               "sent", "lost", "dropped", "missed"}
Completers == {"none", "refused", "waiting", "closing", "deleting",
               "broadcasting", "announced"}
PoolPanics == {"negative_counter", "send_on_closed"}
Panics     == PoolPanics \union {"none", "client_closed"}

\* The blobs a worker is finished with: each has called wg.Done once.
Handled  == {b \in Blobs : stage[b] \in {"sent", "lost"}}
\* The blobs that have reached the server.
Received == {b \in Blobs : stage[b] # "unread"}
Gone     == {b \in Blobs : stage[b] \in {"dropped", "missed"}}

Running == panic = "none"

Init ==
  /\ phase = "none"
  /\ registered = FALSE
  /\ next = 0
  /\ queue = [w \in Workers |-> <<>>]
  /\ closed = FALSE
  /\ job = [w \in Workers |-> Idle]
  /\ exited = {}
  /\ wg = 0
  /\ stage = [b \in Blobs |-> "unread"]
  /\ target = [b \in Blobs |-> 0]
  /\ completer = "none"
  /\ hungUp = FALSE
  /\ panic = "none"

--------------------------------------------------------------------------------
(* UploadStart: the pool is built and published, then its workers start. *)

AddWorkerPool ==
  /\ Running
  /\ phase = "none"
  /\ phase' = "added"
  /\ registered' = TRUE
  /\ wg' = TotalChunks
  /\ UNCHANGED <<next, queue, closed, job, exited, stage, target, completer, hungUp, panic>>

Start ==
  /\ Running
  /\ phase = "added"
  /\ phase' = "running"
  /\ UNCHANGED <<registered, next, queue, closed, job, exited, wg, stage, target,
                 completer, hungUp, panic>>

--------------------------------------------------------------------------------
(* Clients come and go. *)

\* ClientClose of a client of the channel: its Outgoing is closed.
ClientHangsUp ==
  /\ Running
  /\ ~hungUp
  /\ hungUp' = TRUE
  /\ UNCHANGED <<phase, registered, next, queue, closed, job, exited, wg, stage, target,
                 completer, panic>>

\* The answer to upload-start, sent once the workers run, or to a later request
\* about the task meets a closed Outgoing.
AnswerToClosed ==
  /\ Running
  /\ phase = "running"
  /\ hungUp
  /\ panic' = "client_closed"
  /\ UNCHANGED <<phase, registered, next, queue, closed, job, exited, wg, stage, target,
                 completer, hungUp>>

--------------------------------------------------------------------------------
(* A reader handles one blob: look the pool up, pick a worker under the    *)
(* pool's lock, offer the blob to its queue outside the lock.              *)

GetWorkerPool(b) ==
  /\ Running
  /\ stage[b] = "unread"
  /\ stage' = [stage EXCEPT ![b] = IF registered THEN "found" ELSE "missed"]
  /\ UNCHANGED <<phase, registered, next, queue, closed, job, exited, wg, target,
                 completer, hungUp, panic>>

PickWorker(b) ==
  /\ Running
  /\ stage[b] = "found"
  /\ stage' = [stage EXCEPT ![b] = "picked"]
  /\ target' = [target EXCEPT ![b] = next]
  /\ next' = (next + 1) % NumWorkers
  /\ UNCHANGED <<phase, registered, queue, closed, job, exited, wg, completer, hungUp, panic>>

\* Fault: a dropped chunk is counted as done.
DropAndCount(b) ==
  /\ stage' = [stage EXCEPT ![b] = "dropped"]
  /\ wg' = wg - 1
  /\ UNCHANGED queue

Drop(b) ==
  /\ stage' = [stage EXCEPT ![b] = "dropped"]
  /\ UNCHANGED <<queue, wg>>

Enqueue(b) ==
  /\ stage' = [stage EXCEPT ![b] = "queued"]
  /\ queue' = [queue EXCEPT ![target[b]] = Append(@, b)]
  /\ UNCHANGED wg

OfferOpen(b) ==
  /\ ~closed
  /\ IF Len(queue[target[b]]) < QueueCap THEN Enqueue(b) ELSE Drop(b)
  /\ UNCHANGED panic

OfferClosed ==
  /\ closed
  /\ panic' = "send_on_closed"
  /\ UNCHANGED <<queue, stage, wg>>

Offer(b) ==
  /\ Running
  /\ stage[b] = "picked"
  /\ OfferOpen(b) \/ OfferClosed
  /\ UNCHANGED <<phase, registered, next, closed, job, exited, target, completer, hungUp>>

--------------------------------------------------------------------------------
(* A worker ranges over its queue until the queue is closed and empty. *)

\* Fault: a second goroutine ranges over the same queue.
MayTakeWhileBusy(w) == queue[w] # <<>>

MayTake(w) == job[w] = Idle /\ queue[w] # <<>>

Take(w) ==
  /\ Running
  /\ phase = "running"
  /\ MayTake(w)
  /\ job' = [job EXCEPT ![w] = Head(queue[w])]
  /\ queue' = [queue EXCEPT ![w] = Tail(@)]
  /\ stage' = [stage EXCEPT ![Head(queue[w])] = "busy"]
  /\ UNCHANGED <<phase, registered, next, closed, exited, wg, target, completer, hungUp, panic>>

\* Fault: the error paths of the loop go on without wg.Done.
DoneUnlessLost(outcome) == wg' = IF outcome = "lost" THEN wg ELSE wg - 1

\* Every path of the loop body ends in wg.Done, delivered or not.
Done(outcome) == wg' = wg - 1

\* Fault: the pool is forgotten as soon as its count is reached.
FinishForgetsPool(w, outcome) ==
  /\ Running
  /\ job[w] # Idle
  /\ stage' = [stage EXCEPT ![job[w]] = outcome]
  /\ job' = [job EXCEPT ![w] = Idle]
  /\ wg' = wg - 1
  /\ registered' = (registered /\ wg' > 0)
  /\ panic' = IF wg' < 0 THEN "negative_counter" ELSE panic
  /\ UNCHANGED <<phase, next, queue, closed, exited, target, completer, hungUp>>

Finish(w, outcome) ==
  /\ Running
  /\ job[w] # Idle
  /\ stage' = [stage EXCEPT ![job[w]] = outcome]
  /\ job' = [job EXCEPT ![w] = Idle]
  /\ Done(outcome)
  /\ panic' = IF wg' < 0 THEN "negative_counter" ELSE panic
  /\ UNCHANGED <<phase, registered, next, queue, closed, exited, target, completer, hungUp>>

\* The destination the worker found has closed its Outgoing before the send.
SendToClosed(w) ==
  /\ Running
  /\ job[w] # Idle
  /\ hungUp
  /\ panic' = "client_closed"
  /\ UNCHANGED <<phase, registered, next, queue, closed, job, exited, wg, stage, target,
                 completer, hungUp>>

Exit(w) ==
  /\ Running
  /\ phase = "running"
  /\ closed
  /\ w \notin exited
  /\ job[w] = Idle
  /\ queue[w] = <<>>
  /\ exited' = exited \union {w}
  /\ UNCHANGED <<phase, registered, next, queue, closed, job, wg, stage, target,
                 completer, hungUp, panic>>

--------------------------------------------------------------------------------
(* UploadComplete: refused without a pool, otherwise a goroutine waits for *)
(* the WaitGroup, closes the queues, forgets the pool and broadcasts.      *)
(* Closing is one step: each queue is closed once, and a sender that meets *)
(* an open queue in between could have met it just before.                 *)

UploadComplete ==
  /\ Running
  /\ completer = "none"
  /\ completer' = IF registered THEN "waiting" ELSE "refused"
  /\ UNCHANGED <<phase, registered, next, queue, closed, job, exited, wg, stage,
                 target, hungUp, panic>>

\* Fault: the goroutine does not wait.
NoWait == TRUE

WaitOver == wg = 0

WaitForAllChunks ==
  /\ Running
  /\ completer = "waiting"
  /\ WaitOver
  /\ completer' = "closing"
  /\ UNCHANGED <<phase, registered, next, queue, closed, job, exited, wg, stage,
                 target, hungUp, panic>>

\* Fault: the queues are left open.
LeaveQueuesOpen ==
  /\ Running
  /\ completer = "closing"
  /\ completer' = "deleting"
  /\ UNCHANGED <<phase, registered, next, queue, closed, job, exited, wg, stage,
                 target, hungUp, panic>>

CloseQueues ==
  /\ Running
  /\ completer = "closing"
  /\ closed' = TRUE
  /\ completer' = "deleting"
  /\ UNCHANGED <<phase, registered, next, queue, job, exited, wg, stage, target, hungUp,
                 panic>>

DeleteWorkerPool ==
  /\ Running
  /\ completer = "deleting"
  /\ registered' = FALSE
  /\ completer' = "broadcasting"
  /\ UNCHANGED <<phase, next, queue, closed, job, exited, wg, stage, target, hungUp,
                 panic>>

\* A client that hangs up is marked, and leaves the channel, only after its
\* Outgoing is closed: the broadcast may still meet it there.
BroadcastComplete ==
  /\ Running
  /\ completer = "broadcasting"
  /\ \/ completer' = "announced" /\ UNCHANGED panic
     \/ hungUp /\ panic' = "client_closed" /\ UNCHANGED completer
  /\ UNCHANGED <<phase, registered, next, queue, closed, job, exited, wg, stage,
                 target, hungUp>>

--------------------------------------------------------------------------------
DispatchStep(b) == PickWorker(b) \/ Offer(b)

WorkerStep(w) ==
  \/ Take(w)
  \/ \E outcome \in {"sent", "lost"} : Finish(w, outcome)
  \/ SendToClosed(w)
  \/ Exit(w)

CompleterStep ==
  \/ WaitForAllChunks
  \/ CloseQueues
  \/ DeleteWorkerPool
  \/ BroadcastComplete

Next ==
  \/ AddWorkerPool
  \/ Start
  \/ \E b \in Blobs : GetWorkerPool(b) \/ DispatchStep(b)
  \/ \E w \in Workers : WorkerStep(w)
  \/ UploadComplete
  \/ CompleterStep
  \/ ClientHangsUp
  \/ AnswerToClosed

\* Goroutines that can run do run; nothing obliges a client to send a message.
Fairness ==
  /\ WF_vars(Start)
  /\ \A b \in Blobs : WF_vars(DispatchStep(b))
  /\ \A w \in Workers : WF_vars(WorkerStep(w))
  /\ WF_vars(CompleterStep)

Spec     == Init /\ [][Next]_vars
FairSpec == Spec /\ Fairness

--------------------------------------------------------------------------------
(* Every variable stays in its domain; the queues never hold more than     *)
(* their capacity and the WaitGroup is at most one below zero.             *)
TypeOK ==
  /\ phase \in {"none", "added", "running"}
  /\ registered \in BOOLEAN
  /\ next \in Workers
  /\ queue \in [Workers -> Seq(Blobs)]
  /\ \A w \in Workers : Len(queue[w]) <= QueueCap
  /\ closed \in BOOLEAN
  /\ job \in [Workers -> Blobs \union {Idle}]
  /\ exited \subseteq Workers
  /\ wg \in Int
  /\ stage \in [Blobs -> Stages]
  /\ target \in [Blobs -> Workers]
  /\ completer \in Completers
  /\ hungUp \in BOOLEAN
  /\ panic \in Panics

(* A blob waits in the queue of the worker Dispatch picked for it, in one  *)
(* place only.                                                             *)
QueueHolds ==
  \A w \in Workers : \A i \in 1 .. Len(queue[w]) :
    /\ stage[queue[w][i]] = "queued"
    /\ target[queue[w][i]] = w
    /\ \A j \in 1 .. Len(queue[w]) : queue[w][i] = queue[w][j] => i = j

(* A worker that is busy delivers a blob that was dispatched to it. *)
JobHolds ==
  \A w \in Workers : job[w] # Idle =>
    /\ stage[job[w]] = "busy"
    /\ target[job[w]] = w

(* Before UploadStart publishes the pool no blob gets past the lookup. *)
NothingBeforeStart ==
  phase = "none" =>
    /\ ~registered
    /\ wg = 0
    /\ \A b \in Blobs : stage[b] \in {"unread", "missed"}
    /\ completer \in {"none", "refused"}

(* The WaitGroup counts the declared chunks no worker is finished with: a  *)
(* blob dropped by Dispatch or missed by the lookup never calls Done       *)
(* (worker.go: Done on all three paths of the loop, not in Dispatch).      *)
Accounting ==
  phase # "none" => wg = TotalChunks - Cardinality(Handled)

(* Once the wait is over every declared chunk has been handled, and the    *)
(* queues are closed only by a goroutine that is past the wait.            *)
ClosingAfterWait ==
  /\ completer \in {"closing", "deleting", "broadcasting", "announced"} => wg <= 0
  /\ closed <=> completer \in {"deleting", "broadcasting", "announced"}

(* How a panic comes about: a Done too many, a blob offered to the pool    *)
(* after its queues were closed, or a send to a client that has hung up.   *)
PanicCause ==
  /\ panic = "none" => wg >= 0
  /\ panic = "negative_counter" => wg < 0
  /\ panic = "send_on_closed" =>
       closed /\ \E b \in Blobs : stage[b] = "picked"
  /\ panic = "client_closed" => hungUp

IInv ==
  /\ TypeOK
  /\ QueueHolds
  /\ JobHolds
  /\ NothingBeforeStart
  /\ Accounting
  /\ ClosingAfterWait
  /\ PanicCause

(* The pool itself brings the server down only when more blobs arrive for  *)
(* the task than upload-start declared: with an honest count, no           *)
(* interleaving of readers, workers, the completing goroutine and clients  *)
(* that hang up offers a blob to a closed worker queue or calls Done once  *)
(* too often.  (A send to a client whose Outgoing is closed, "client_closed",*)
(* needs no surplus: worker.go:42, transfer.go:119 and 162, and the run     *)
(* conn_broadcast of ClientConn.)                                          *)
CrashOnlyOnSurplus ==
  panic \in PoolPanics => Cardinality(Received) > TotalChunks

(* The announcement is exact: when upload-complete has been broadcast and   *)
(* the server is still up, just as many blobs were handled as declared,    *)
(* however many arrived (a surplus blob found no pool, or is not handled   *)
(* yet).                                                                   *)
AnnouncedExactly ==
  completer = "announced" /\ Running => Cardinality(Handled) = TotalChunks

(* What the pool promises, see UploadPromise: upload-complete is broadcast *)
(* at most once, after TotalChunks blobs were handled, each once.          *)
Promise == INSTANCE UploadPromise WITH
  handled <- Handled, announced <- (completer = "announced")

PromiseSpec == Promise!Spec

(* An accepted upload-complete is announced in the end and leaves no       *)
(* worker goroutine behind, unless a declared chunk never came, was        *)
(* dropped at a full queue or missed the pool, or the server went down (on *)
(* a surplus blob, or on a send to a client that has hung up).             *)
CompletesUnlessChunkMissing ==
  completer = "waiting" ~>
    \/ completer = "announced" /\ exited = Workers
    \/ Gone # {} \/ Cardinality(Received) < TotalChunks
    \/ ~Running

--------------------------------------------------------------------------------
(* What the source says and the code does not do. *)

(* worker.go:32 marks a chunk done "to avoid deadlock" even when it cannot *)
(* be delivered: an accepted upload-complete, all chunks having reached    *)
(* the pool, is announced.  A chunk Dispatch drops at a full queue is not  *)
(* marked, and the goroutine waits forever.                                *)
NoCompletionDeadlock ==
  (completer = "waiting" /\ \A b \in Blobs : stage[b] \notin {"unread", "missed"})
    ~> (completer = "announced" \/ ~Running)
================================================================================
