----------------------------- MODULE TransferServer -----------------------------
(***************************************************************************)
(* One upload from end to end: the uploader's connection (core/client.go), *)
(* the transfer handler (core/transfer.go), the task's WorkerPool and the  *)
(* outgoing queue of the destination (core/channel.go), up to the task set *)
(* of the app that receives (stores/useChannelStore.ts).                   *)
(*                                                                         *)
(* Text messages go through the connection's Incoming queue to its         *)
(* processor; binary messages are handled by the reader itself.  Both      *)
(* connections stay up here, so that no client of the pool hangs up;       *)
(* ClientConn models how a connection ends.                                *)
(***************************************************************************)
EXTENDS Integers, Sequences, FiniteSets

CONSTANTS
  NumWorkers, QueueCap, TotalChunks, NumBlobs,   (* see WorkerPool          *)
  IncomingCap,  (* capacity of Client.Incoming: 256                         *)
  OutgoingCap   (* capacity of Client.Outgoing: 256                         *)

ASSUME UploadAssumption ==
  /\ NumWorkers \in Nat \ {0} /\ QueueCap \in Nat \ {0}
  /\ TotalChunks \in Nat /\ NumBlobs \in Nat
  /\ IncomingCap \in Nat \ {0} /\ OutgoingCap \in Nat \ {0}

VARIABLES
  phase, registered, next, queue, closed, job, exited, wg, stage, target,
  completer, hungUp, panic,                      (* see WorkerPool          *)
  wire,      (* messages the uploader has sent and the server not yet read  *)
  inHand,    (* blob the reader is handling, or Idle                        *)
  incoming,  (* text messages between reader and processor                  *)
  proc,      (* what the processor is doing                                 *)
  joined,    (* the destination has joined the channel                      *)
  answering, (* it is in the channel, the answer to its join is not yet sent *)
  outgoing,  (* destination's outgoing queue                                *)
  open,      (* the destination's app has the task in its set               *)
  arrived,   (* blobs that have arrived at the destination's app            *)
  told,      (* the destination's app has seen upload-complete              *)
  cut        (* the uploader stops before it has sent upload-complete       *)

Pool == INSTANCE WorkerPool

poolVars == <<phase, registered, next, queue, closed, job, exited, wg, stage,
              target, completer, hungUp, panic>>
connVars == <<wire, inHand, incoming, proc>>
dstVars  == <<joined, answering, outgoing, open, arrived, told>>
vars     == <<poolVars, connVars, dstVars>>

Blobs == Pool!Blobs
Idle  == Pool!Idle

Text(k) == [kind |-> k, blob |-> Idle]
Blob(b) == [kind |-> "blob", blob |-> b]

\* upload-start, the chunks in order, upload-complete (Uploader, UploadProtocol).
\* The file is measured again before it is read: their number may differ from
\* what was declared.
Upload(n) == <<Text("start")>> \o [b \in 1 .. n |-> Blob(b)] \o <<Text("complete")>>

Init ==
  /\ Pool!Init
  /\ \E n \in 0 .. NumBlobs, m \in 1 .. NumBlobs + 2 :
       /\ m <= Len(Upload(n))
       /\ wire = SubSeq(Upload(n), 1, m)
       /\ cut = (m < Len(Upload(n)))
  /\ inHand = Idle
  /\ incoming = <<>>
  /\ proc = "idle"
  /\ joined \in BOOLEAN
  /\ answering = FALSE
  /\ outgoing = <<>>
  /\ open = FALSE
  /\ arrived = {}
  /\ told = FALSE

--------------------------------------------------------------------------------
(* The reader of the uploader's connection. *)

\* Fault: blobs are handled in a goroutine of their own, the reader goes on.
ReadTextMeanwhile ==
  /\ Pool!Running
  /\ wire # <<>> /\ Head(wire).kind # "blob"
  /\ Len(incoming) < IncomingCap
  /\ incoming' = Append(incoming, Head(wire).kind)
  /\ wire' = Tail(wire)
  /\ UNCHANGED <<poolVars, inHand, proc, dstVars>>

\* A full Incoming queue blocks the reader, blobs behind the text included.
ReadText ==
  /\ Pool!Running
  /\ inHand = Idle
  /\ wire # <<>> /\ Head(wire).kind # "blob"
  /\ Len(incoming) < IncomingCap
  /\ incoming' = Append(incoming, Head(wire).kind)
  /\ wire' = Tail(wire)
  /\ UNCHANGED <<poolVars, inHand, proc, dstVars>>

ReadBlob ==
  /\ inHand = Idle
  /\ wire # <<>> /\ Head(wire).kind = "blob"
  /\ Pool!GetWorkerPool(Head(wire).blob)
  /\ inHand' = IF registered THEN Head(wire).blob ELSE Idle
  /\ wire' = Tail(wire)
  /\ UNCHANGED <<incoming, proc, dstVars>>

Pick ==
  /\ inHand # Idle
  /\ Pool!PickWorker(inHand)
  /\ UNCHANGED <<connVars, dstVars>>

Offer ==
  /\ inHand # Idle
  /\ Pool!Offer(inHand)
  /\ inHand' = Idle
  /\ UNCHANGED <<wire, incoming, proc, dstVars>>

Reader == ReadText \/ ReadBlob \/ Pick \/ Offer

--------------------------------------------------------------------------------
(* The destination's outgoing queue: a message that finds it full is lost. *)

\* Fault: the queue has no bound.
RoomAlways == joined

Room == joined /\ Len(outgoing) < OutgoingCap
SendToDst(m) == outgoing' = IF Room THEN Append(outgoing, m) ELSE outgoing

(* The processor takes one text message after the other. *)

\* Fault: the error ends the processor's loop.
TakeStartOrStop ==
  /\ Pool!Running
  /\ proc = "idle"
  /\ incoming # <<>> /\ Head(incoming) = "start"
  /\ incoming' = Tail(incoming)
  /\ proc' = IF joined THEN "adding" ELSE "stopped"
  /\ UNCHANGED <<poolVars, wire, inHand, dstVars>>

\* UploadStart gives up when the destination is not in the channel.
TakeStart ==
  /\ Pool!Running
  /\ proc = "idle"
  /\ incoming # <<>> /\ Head(incoming) = "start"
  /\ incoming' = Tail(incoming)
  /\ proc' = IF joined THEN "adding" ELSE "idle"
  /\ UNCHANGED <<poolVars, wire, inHand, dstVars>>

AddPool ==
  /\ proc = "adding"
  /\ Pool!AddWorkerPool
  /\ proc' = "starting"
  /\ UNCHANGED <<wire, inHand, incoming, dstVars>>

StartPool ==
  /\ proc = "starting"
  /\ Pool!Start
  /\ proc' = "responding"
  /\ UNCHANGED <<wire, inHand, incoming, dstVars>>

RespondStart ==
  /\ Pool!Running
  /\ proc = "responding"
  /\ SendToDst(Text("start"))
  /\ proc' = "idle"
  /\ UNCHANGED <<poolVars, wire, inHand, incoming, joined, answering, open, arrived, told>>

TakeComplete ==
  /\ proc = "idle"
  /\ incoming # <<>> /\ Head(incoming) = "complete"
  /\ incoming' = Tail(incoming)
  /\ Pool!UploadComplete
  /\ UNCHANGED <<wire, inHand, proc, dstVars>>

Processor == TakeStart \/ AddPool \/ StartPool \/ RespondStart \/ TakeComplete

--------------------------------------------------------------------------------
(* Workers and the completing goroutine, with what they send. *)

\* Fault: a message that found the queue full counts as sent.
DeliverUnnoticed(w) ==
  /\ Pool!Finish(w, "sent")
  /\ SendToDst(Blob(job[w]))
  /\ UNCHANGED <<connVars, joined, answering, open, arrived, told>>

Deliver(w) ==
  /\ Pool!Finish(w, IF Room THEN "sent" ELSE "lost")
  /\ SendToDst(Blob(job[w]))
  /\ UNCHANGED <<connVars, joined, answering, open, arrived, told>>

Worker(w) ==
  \/ Deliver(w)
  \/ (Pool!Take(w) \/ Pool!Exit(w)) /\ UNCHANGED <<connVars, dstVars>>

Announce ==
  /\ Pool!BroadcastComplete
  /\ SendToDst(Text("complete"))
  /\ UNCHANGED <<connVars, joined, answering, open, arrived, told>>

Completer ==
  \/ Announce
  \/ /\ Pool!WaitForAllChunks \/ Pool!CloseQueues \/ Pool!DeleteWorkerPool
     /\ UNCHANGED <<connVars, dstVars>>

--------------------------------------------------------------------------------
(* The destination joins on its own connection (JoinTransfer): it is in    *)
(* the channel, and may be sent to, before its join is answered.  Its      *)
(* writer and its app take the outgoing messages in order.                 *)

DstJoins ==
  /\ Pool!Running
  /\ ~joined
  /\ joined' = TRUE
  /\ answering' = TRUE
  /\ UNCHANGED <<poolVars, connVars, outgoing, open, arrived, told>>

AnswerJoin ==
  /\ Pool!Running
  /\ answering
  /\ answering' = FALSE
  /\ SendToDst(Text("join"))
  /\ UNCHANGED <<poolVars, connVars, joined, open, arrived, told>>

\* Whether the task is in the channel store's set after message m.
TaskSetAfter(m) ==
  CASE m.kind = "start" -> TRUE [] m.kind = "complete" -> FALSE [] OTHER -> open

AppReceives ==
  LET m == Head(outgoing) IN
  /\ outgoing # <<>>
  /\ outgoing' = Tail(outgoing)
  /\ open' = TaskSetAfter(m)
  /\ arrived' = IF m.kind = "blob" THEN arrived \union {m.blob} ELSE arrived
  /\ told' = (told \/ m.kind = "complete")
  /\ UNCHANGED <<poolVars, connVars, joined, answering>>

Next ==
  \/ Reader
  \/ Processor
  \/ \E w \in Pool!Workers : Worker(w)
  \/ Completer
  \/ DstJoins
  \/ AnswerJoin
  \/ AppReceives

\* The server's goroutines run; the destination need neither join nor read what
\* it is sent: no send of the server waits for it.
Fairness ==
  /\ WF_vars(Reader)
  /\ WF_vars(Processor)
  /\ \A w \in Pool!Workers : WF_vars(Worker(w))
  /\ WF_vars(Completer)

Spec == Init /\ [][Next /\ UNCHANGED cut]_<<vars, cut>> /\ Fairness

--------------------------------------------------------------------------------
TypeOK ==
  /\ Pool!TypeOK /\ ~hungUp
  /\ inHand \in Blobs \union {Idle}
  /\ \A i \in DOMAIN incoming : incoming[i] \in {"start", "complete"}
  /\ proc \in {"idle", "adding", "starting", "responding"}
  /\ cut \in BOOLEAN /\ joined \in BOOLEAN /\ answering \in BOOLEAN
  /\ open \in BOOLEAN /\ told \in BOOLEAN
  /\ arrived \subseteq Blobs
  /\ Len(incoming) <= IncomingCap /\ Len(outgoing) <= OutgoingCap

OnTheWay == {outgoing[i].blob : i \in {j \in DOMAIN outgoing : outgoing[j].kind = "blob"}}

(* upload-complete is taken up only when the reader is through with every  *)
(* blob of the task: reader and processor do not reorder an upload's       *)
(* chunks behind its completion, whatever the Incoming queue holds.        *)
DispatchedBeforeComplete ==
  completer # "none" =>
    /\ inHand = Idle
    /\ \A b \in Blobs : stage[b] \notin {"found", "picked"}

(* So the worker queues are never closed under a reader, even when the     *)
(* uploader sends more chunks than it declared: as long as no client hangs *)
(* up, the only way this path takes the server down is a Done too many.    *)
NeverSendOnClosedQueue == DispatchedBeforeComplete /\ panic # "send_on_closed"

(* Chunks that come before their pool are missed, and once a chunk has     *)
(* found the pool no later one of the upload misses it.                    *)
MissedIsPrefix ==
  \A b, c \in Blobs :
    stage[c] = "missed" /\ b < c => stage[b] = "missed"

(* Chunks that go through the same worker reach the destination in the     *)
(* order they were sent; only chunks of different workers overtake.        *)
PerWorkerOrder ==
  \A b, c \in Blobs :
    /\ b < c
    /\ target[b] = target[c]
    /\ stage[b] \in {"queued", "busy"}
    => stage[c] # "sent"

(* A chunk that counts as sent is in the destination's queue or in its     *)
(* app, once; nothing else is.                                             *)
SentIsOnItsWay ==
  /\ {b \in Blobs : stage[b] = "sent"} = arrived \union OnTheWay
  /\ arrived \intersect OnTheWay = {}
  /\ \A i, j \in DOMAIN outgoing : outgoing[i] = outgoing[j] => i = j

(* Every chunk is accounted for: missed before all those that were found,  *)
(* sent behind its worker's earlier ones, and then on its way.             *)
ChunksAccountedFor == MissedIsPrefix /\ PerWorkerOrder /\ SentIsOnItsWay

(* When the destination's app learns that an upload of an honest uploader  *)
(* is complete it has already received every chunk it will ever receive,   *)
(* and its task set does not get the task back.                            *)
CompleteArrivesLast ==
  told /\ Cardinality(Pool!Received) <= TotalChunks =>
    /\ OnTheWay = {}
    /\ ~open
    /\ \A b \in Blobs : stage[b] \notin {"queued", "busy"}

(* Nothing in the server gets stuck behind an upload, whether or not the   *)
(* destination reads what it is sent: everything the uploader sends is     *)
(* read and every worker queue runs empty, and the upload ends refused or  *)
(* announced, or waits because a declared chunk was dropped, was missed or *)
(* was never sent, or because the uploader stopped before upload-complete  *)
(* (or the server went down on a surplus chunk).                           *)
UploadSettles ==
  <>[](\/ ~Pool!Running
       \/ /\ wire = <<>> /\ incoming = <<>> /\ inHand = Idle
          /\ \A w \in Pool!Workers : queue[w] = <<>> /\ job[w] = Idle
          /\ \/ completer \in {"refused", "announced"}
             \/ cut /\ completer = "none"
             \/ /\ completer = "waiting"
                /\ Pool!Gone # {} \/ Cardinality(Pool!Received) < TotalChunks)
================================================================================
