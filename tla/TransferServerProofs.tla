-------------------------- MODULE TransferServerProofs --------------------------
(***************************************************************************)
(* Proofs about TransferServer, for any number of workers, queue           *)
(* capacities, declared and sent chunks.                                   *)
(***************************************************************************)
EXTENDS TransferServer, FiniteSetTheorems, SequenceTheorems, TLAPS

--------------------------------------------------------------------------------
(* Types. *)

\* What the uploader sends, and what the destination is sent.
Message  == {Text("start"), Text("complete")} \union {Blob(b) : b \in Blobs}
Outbound == {Text("join")} \union Message

Types ==
  /\ TypeOK
  /\ wire \in Seq(Message)
  /\ incoming \in Seq({"start", "complete"})
  /\ outgoing \in Seq(Outbound)

(* The numbers behind the names of WorkerPool, here and in the pool.       *)
LEMMA Numbers ==
  /\ Blobs = 1 .. NumBlobs /\ Pool!Blobs = Blobs
  /\ Idle = 0 /\ Pool!Idle = 0 /\ Idle \notin Blobs
  /\ Pool!Workers = 0 .. NumWorkers - 1 /\ 0 \in Pool!Workers
BY UploadAssumption DEF Blobs, Idle, Pool!Blobs, Pool!Idle, Pool!Workers

(* The three kinds of messages.                                            *)
LEMMA Messages ==
  ASSUME NEW m \in Message
  PROVE  /\ m.kind \in {"start", "complete", "blob"}
         /\ m.kind = "blob" => m.blob \in Blobs /\ m = Blob(m.blob)
         /\ m.kind = "start" => m = Text("start")
         /\ m.kind = "complete" => m = Text("complete")
BY DEF Message, Text, Blob

(* And the fourth, which only the destination is sent.                     *)
LEMMA Outbounds ==
  ASSUME NEW m \in Outbound
  PROVE  /\ m.kind \in {"join", "start", "complete", "blob"}
         /\ m.kind = "blob" => m.blob \in Blobs /\ m = Blob(m.blob)
         /\ m.kind = "start" => m = Text("start")
         /\ m.kind = "complete" => m = Text("complete")
         /\ m.kind = "join" => m = Text("join")
BY DEF Outbound, Message, Text, Blob

(* What the uploader sends. *)
LEMMA UploadIs ==
  ASSUME NEW n \in 0 .. NumBlobs
  PROVE  /\ Upload(n) \in Seq(Message) /\ Len(Upload(n)) = n + 2
         /\ Upload(n)[1] = Text("start") /\ Upload(n)[n + 2] = Text("complete")
         /\ \A i \in 2 .. n + 1 : Upload(n)[i] = Blob(i - 1) /\ i - 1 \in Blobs
<1> DEFINE start    == <<Text("start")>>
           chunks   == [b \in 1 .. n |-> Blob(b)]
           complete == <<Text("complete")>>
<1>1. n \in Nat /\ 1 .. n \subseteq Blobs
  BY UploadAssumption, Numbers
<1>2. start \in Seq(Message) /\ complete \in Seq(Message)
  BY DEF Message
<1>3. chunks \in Seq(Message) /\ Len(chunks) = n
  BY <1>1 DEF Message
<1>4. start \o chunks \in Seq(Message) /\ Len(start \o chunks) = n + 1
  BY <1>1, <1>2, <1>3
<1>5. /\ Upload(n) = (start \o chunks) \o complete
      /\ Upload(n) \in Seq(Message) /\ Len(Upload(n)) = n + 2
  BY <1>1, <1>2, <1>4 DEF Upload
<1>6. (start \o chunks)[1] = Text("start") /\ Upload(n)[n + 2] = Text("complete")
  BY <1>1, <1>2, <1>3, <1>4, <1>5
<1>7. ASSUME NEW i \in 2 .. n + 1
      PROVE  Upload(n)[i] = Blob(i - 1) /\ i - 1 \in Blobs
  <2>1. (start \o chunks)[i] = chunks[i - 1]
    BY <1>1, <1>2, <1>3, <1>7
  <2>2. i - 1 \in 1 .. n
    BY <1>1, <1>7
  <2> QED
    BY <1>1, <1>2, <1>3, <1>4, <1>5, <2>1, <2>2
<1>8. Upload(n)[1] = Text("start")
  BY <1>1, <1>2, <1>4, <1>5, <1>6
<1> QED
  BY <1>5, <1>6, <1>7, <1>8

(* Initially every variable is in its domain.                              *)
LEMMA TypesInit == Init => Types
<1> SUFFICES ASSUME Init PROVE Types
  OBVIOUS
<1>1. wire \in Seq(Message)
  <2>1. PICK n \in 0 .. NumBlobs, m \in 1 .. NumBlobs + 2 :
          m <= Len(Upload(n)) /\ wire = SubSeq(Upload(n), 1, m)
    BY DEF Init
  <2> QED
    BY <2>1, UploadIs
<1>2. Pool!TypeOK /\ ~hungUp
  <2>1. queue = [w \in Pool!Workers |-> <<>>] /\ job = [w \in Pool!Workers |-> Pool!Idle]
    BY DEF Init, Pool!Init
  <2>2. stage = [b \in Pool!Blobs |-> "unread"] /\ target = [b \in Pool!Blobs |-> 0]
    BY DEF Init, Pool!Init
  <2>3. /\ phase = "none" /\ next = 0 /\ exited = {} /\ wg = 0 /\ completer = "none"
        /\ panic = "none"
    BY DEF Init, Pool!Init
  <2>4. registered \in BOOLEAN /\ closed \in BOOLEAN /\ hungUp \in BOOLEAN /\ ~hungUp
    BY Zenon DEF Init, Pool!Init
  <2>5. /\ queue \in [Pool!Workers -> Seq(Pool!Blobs)]
        /\ \A w \in Pool!Workers : Len(queue[w]) <= QueueCap
    BY <2>1, UploadAssumption
  <2>6. stage \in [Pool!Blobs -> Pool!Stages] /\ target \in [Pool!Blobs -> Pool!Workers]
    BY <2>2, Numbers DEF Pool!Stages
  <2> QED
    BY <2>1, <2>3, <2>4, <2>5, <2>6, Numbers DEF Pool!TypeOK, Pool!Completers, Pool!Panics,
       Pool!PoolPanics
<1>3. cut \in BOOLEAN
  <2>1. PICK n \in 0 .. NumBlobs, m \in 1 .. NumBlobs + 2 : cut = (m < Len(Upload(n)))
    BY DEF Init
  <2>2. (m < Len(Upload(n))) \in BOOLEAN
    OBVIOUS
  <2> QED
    BY <2>1, <2>2, Zenon
<1>4. inHand = Idle /\ incoming = <<>> /\ outgoing = <<>> /\ proc = "idle" /\ arrived = {}
  BY DEF Init
<1>5. open \in BOOLEAN /\ told \in BOOLEAN /\ joined \in BOOLEAN /\ answering \in BOOLEAN
  BY Zenon DEF Init
<1>6. Len(incoming) <= IncomingCap /\ Len(outgoing) <= OutgoingCap
  BY <1>4, UploadAssumption
<1>7. TypeOK
  BY <1>2, <1>3, <1>4, <1>5, <1>6 DEF TypeOK
<1> QED
  BY <1>1, <1>4, <1>7 DEF Types

(* A step of the pool in which nobody hangs up keeps its types. *)
LEMMA PoolTypes ==
  ASSUME Pool!TypeOK, Pool!Next, ~hungUp, hungUp' = hungUp
  PROVE  Pool!TypeOK'
<1> USE Numbers
<1>1. CASE Pool!AddWorkerPool \/ Pool!Start \/ Pool!UploadComplete \/ Pool!CompleterStep
  <2>1. UNCHANGED <<next, queue, job, exited, stage, target, hungUp, panic>>
    BY <1>1
    DEF Pool!AddWorkerPool, Pool!Start, Pool!UploadComplete, Pool!CompleterStep,
        Pool!WaitForAllChunks, Pool!CloseQueues, Pool!DeleteWorkerPool, Pool!BroadcastComplete
  <2>2. phase' \in {"none", "added", "running"} /\ wg' \in Int /\ completer' \in Pool!Completers
    BY <1>1, UploadAssumption
    DEF Pool!TypeOK, Pool!AddWorkerPool, Pool!Start, Pool!UploadComplete, Pool!CompleterStep,
        Pool!WaitForAllChunks, Pool!CloseQueues, Pool!DeleteWorkerPool, Pool!BroadcastComplete,
        Pool!Completers
  <2>3. registered' \in BOOLEAN
    BY <1>1, Zenon
    DEF Pool!TypeOK, Pool!AddWorkerPool, Pool!Start, Pool!UploadComplete, Pool!CompleterStep,
        Pool!WaitForAllChunks, Pool!CloseQueues, Pool!DeleteWorkerPool, Pool!BroadcastComplete
  <2>4. closed' \in BOOLEAN
    BY <1>1, Zenon
    DEF Pool!TypeOK, Pool!AddWorkerPool, Pool!Start, Pool!UploadComplete, Pool!CompleterStep,
        Pool!WaitForAllChunks, Pool!CloseQueues, Pool!DeleteWorkerPool, Pool!BroadcastComplete
  <2> QED
    BY <2>1, <2>2, <2>3, <2>4 DEF Pool!TypeOK
<1>2. ASSUME NEW b \in Pool!Blobs, Pool!GetWorkerPool(b) \/ Pool!PickWorker(b)
      PROVE  Pool!TypeOK'
  <2>1. (next + 1) % NumWorkers \in Pool!Workers
    BY UploadAssumption DEF Pool!TypeOK
  <2>2. next \in Pool!Workers
    BY DEF Pool!TypeOK
  <2>3. CASE Pool!GetWorkerPool(b)
    <3>1. stage' \in [Pool!Blobs -> Pool!Stages]
      BY <2>3 DEF Pool!TypeOK, Pool!GetWorkerPool, Pool!Stages
    <3>2. UNCHANGED <<phase, registered, next, queue, closed, job, exited, wg, target,
                      completer, hungUp, panic>>
      BY <2>3 DEF Pool!GetWorkerPool
    <3> QED
      BY <3>1, <3>2 DEF Pool!TypeOK
  <2>4. CASE Pool!PickWorker(b)
    <3>1. stage' \in [Pool!Blobs -> Pool!Stages] /\ target' \in [Pool!Blobs -> Pool!Workers]
      BY <2>2, <2>4 DEF Pool!TypeOK, Pool!PickWorker, Pool!Stages
    <3>2. next' \in Pool!Workers
      BY <2>1, <2>4 DEF Pool!PickWorker
    <3>3. UNCHANGED <<phase, registered, queue, closed, job, exited, wg, completer,
                      hungUp, panic>>
      BY <2>4 DEF Pool!PickWorker
    <3> QED
      BY <3>1, <3>2, <3>3 DEF Pool!TypeOK
  <2> QED
    BY <1>2, <2>3, <2>4
<1>3. ASSUME NEW b \in Pool!Blobs, Pool!Offer(b)
      PROVE  Pool!TypeOK'
  <2>1. target[b] \in Pool!Workers
    BY DEF Pool!TypeOK
  <2>2. /\ queue' \in [Pool!Workers -> Seq(Pool!Blobs)]
        /\ \A w \in Pool!Workers : Len(queue'[w]) <= QueueCap
    <3>1. CASE queue' = queue
      BY <3>1 DEF Pool!TypeOK
    <3>2. CASE /\ Len(queue[target[b]]) < QueueCap
               /\ queue' = [queue EXCEPT ![target[b]] = Append(queue[target[b]], b)]
      BY <2>1, <3>2, UploadAssumption DEF Pool!TypeOK
    <3> QED
      BY <1>3, <3>1, <3>2 DEF Pool!Offer, Pool!OfferOpen, Pool!OfferClosed, Pool!Enqueue, Pool!Drop
  <2> QED
    BY <1>3, <2>2 DEF Pool!TypeOK, Pool!Offer, Pool!OfferOpen, Pool!OfferClosed, Pool!Enqueue,
       Pool!Drop, Pool!Stages, Pool!Panics, Pool!PoolPanics
<1>4. ASSUME NEW w \in Pool!Workers, Pool!Take(w)
      PROVE  Pool!TypeOK'
  <2>1. queue[w] \in Seq(Pool!Blobs) /\ queue[w] # <<>> /\ Len(queue[w]) <= QueueCap
    BY <1>4 DEF Pool!TypeOK, Pool!Take, Pool!MayTake
  <2>2. PICK q : q = queue[w]
    OBVIOUS
  <2>3. Head(q) \in Pool!Blobs /\ Tail(q) \in Seq(Pool!Blobs) /\ Len(Tail(q)) = Len(q) - 1
    <3>1. q \in Seq(Pool!Blobs) /\ q # <<>>
      BY <2>1, <2>2
    <3> QED
      BY <3>1, HeadTailProperties
  <2>4. Len(q) \in Nat
    BY <2>1, <2>2
  <2>5. Len(Tail(q)) <= QueueCap
    BY <2>1, <2>2, <2>3, <2>4, UploadAssumption
  <2> QED
    BY <1>4, <2>2, <2>3, <2>5 DEF Pool!TypeOK, Pool!Take, Pool!Stages
<1>5. ASSUME NEW w \in Pool!Workers, NEW outcome \in {"sent", "lost"}, Pool!Finish(w, outcome)
      PROVE  Pool!TypeOK'
  <2>1. /\ stage' \in [Pool!Blobs -> Pool!Stages] /\ wg' \in Int
        /\ job' \in [Pool!Workers -> Pool!Blobs \union {Pool!Idle}]
    BY <1>5 DEF Pool!TypeOK, Pool!Finish, Pool!Done, Pool!Stages
  <2>2. panic' \in Pool!Panics
    BY <1>5 DEF Pool!TypeOK, Pool!Finish, Pool!Panics, Pool!PoolPanics
  <2> QED
    BY <1>5, <2>1, <2>2 DEF Pool!TypeOK, Pool!Finish
<1>6. ASSUME NEW w \in Pool!Workers, Pool!Exit(w)
      PROVE  Pool!TypeOK'
  BY <1>6 DEF Pool!TypeOK, Pool!Exit
<1>7. /\ ~Pool!ClientHangsUp /\ ~Pool!AnswerToClosed
      /\ \A w \in Pool!Workers : ~Pool!SendToClosed(w)
  BY DEF Pool!ClientHangsUp, Pool!AnswerToClosed, Pool!SendToClosed
<1> QED
  BY <1>1, <1>2, <1>3, <1>4, <1>5, <1>6, <1>7 DEF Pool!Next, Pool!DispatchStep, Pool!WorkerStep

(* Every step of the upload path is a step of the task's pool, or one the  *)
(* pool does not see.                                                      *)
LEMMA StepOfPool ==
  ASSUME Types, Next
  PROVE  [Pool!Next]_(Pool!vars)
<1> USE Numbers
<1>1. CASE Reader
  <2>1. CASE ReadText
    BY <2>1 DEF ReadText, poolVars, Pool!vars
  <2>2. CASE ReadBlob
    <3>1. Head(wire).blob \in Blobs
      BY <2>2, Messages DEF ReadBlob, Types
    <3> QED
      BY <2>2, <3>1 DEF ReadBlob, Pool!Next
  <2>3. CASE Pick \/ Offer
    <3>1. inHand \in Blobs
      BY <2>3 DEF Pick, Offer, Types, TypeOK
    <3> QED
      BY <2>3, <3>1 DEF Pick, Offer, Pool!Next, Pool!DispatchStep
  <2> QED
    BY <1>1, <2>1, <2>2, <2>3 DEF Reader
<1>2. CASE Processor
  <2>1. CASE TakeStart \/ RespondStart
    BY <2>1 DEF TakeStart, RespondStart, poolVars, Pool!vars
  <2>2. CASE AddPool \/ StartPool \/ TakeComplete
    BY <2>2 DEF AddPool, StartPool, TakeComplete, Pool!Next
  <2> QED
    BY <1>2, <2>1, <2>2 DEF Processor
<1>3. ASSUME NEW w \in Pool!Workers, Worker(w)
      PROVE  Pool!Next
  <2>1. CASE Deliver(w)
    <3>1. (IF Room THEN "sent" ELSE "lost") \in {"sent", "lost"}
      OBVIOUS
    <3> QED
      BY <2>1, <3>1 DEF Deliver, Pool!Next, Pool!WorkerStep
  <2> QED
    BY <1>3, <2>1 DEF Worker, Pool!Next, Pool!WorkerStep
<1>4. CASE Completer
  BY <1>4 DEF Completer, Announce, Pool!Next, Pool!CompleterStep
<1>5. CASE DstJoins \/ AnswerJoin \/ AppReceives
  BY <1>5 DEF DstJoins, AnswerJoin, AppReceives, poolVars, Pool!vars
<1> QED
  BY <1>1, <1>2, <1>3, <1>4, <1>5 DEF Next

(* No client hangs up here, so the broadcast succeeds. *)
LEMMA StaysUp ==
  ASSUME ~hungUp, Next
  PROVE  /\ hungUp' = hungUp
         /\ Announce => completer' = "announced" /\ panic' = panic
<1>1. hungUp' = hungUp
  BY DEF Next, Reader, ReadText, ReadBlob, Pick, Offer, Processor, TakeStart, AddPool, StartPool,
     RespondStart, TakeComplete, Worker, Deliver, Completer, Announce, DstJoins, AnswerJoin, AppReceives,
     poolVars, Pool!AddWorkerPool, Pool!Start, Pool!GetWorkerPool, Pool!PickWorker, Pool!Offer,
     Pool!Take, Pool!Finish, Pool!Exit, Pool!UploadComplete, Pool!WaitForAllChunks, Pool!CloseQueues,
     Pool!DeleteWorkerPool, Pool!BroadcastComplete
<1>2. Announce => completer' = "announced" /\ panic' = panic
  BY DEF Announce, Pool!BroadcastComplete
<1> QED
  BY <1>1, <1>2

(* Outgoing messages. *)
LEMMA SendTyped ==
  ASSUME Types, NEW m \in Outbound, SendToDst(m)
  PROVE  outgoing' \in Seq(Outbound) /\ Len(outgoing') <= OutgoingCap
<1>1. CASE Room
  BY <1>1, UploadAssumption DEF SendToDst, Room, Types
<1>2. CASE ~Room
  BY <1>2 DEF SendToDst, Types, TypeOK
<1> QED
  BY <1>1, <1>2

(* Every step keeps the types.                                             *)
LEMMA TypesStep ==
  ASSUME Types, Next, cut' = cut
  PROVE  Types'
<1> USE Numbers
<1>1. Pool!TypeOK'
  <2>1. Pool!TypeOK /\ ~hungUp /\ hungUp' = hungUp
    BY StaysUp DEF Types, TypeOK
  <2>2. CASE Pool!Next
    BY <2>1, <2>2, PoolTypes
  <2>3. CASE Pool!vars' = Pool!vars
    BY <2>1, <2>3 DEF Pool!vars, Pool!TypeOK
  <2> QED
    BY <2>2, <2>3, StepOfPool
<1>2. cut' \in BOOLEAN
  BY Zenon DEF Types, TypeOK
<1>0. ~hungUp'
  BY StaysUp DEF Types, TypeOK
<1>3. CASE Reader
  <2>1. UNCHANGED <<proc, dstVars>>
    BY <1>3 DEF Reader, ReadText, ReadBlob, Pick, Offer, connVars
  <2>2. wire' \in Seq(Message)
    <3>1. wire' = wire \/ (wire # <<>> /\ wire' = Tail(wire))
      BY <1>3 DEF Reader, ReadText, ReadBlob, Pick, Offer, connVars
    <3>2. wire \in Seq(Message)
      BY DEF Types
    <3> QED
      BY <3>1, <3>2, HeadTailProperties
  <2>3. inHand' \in Blobs \union {Idle}
    <3>1. ASSUME ReadBlob PROVE Head(wire).blob \in Blobs
      BY <3>1, Messages DEF ReadBlob, Types
    <3> QED
      BY <1>3, <3>1 DEF Reader, ReadText, ReadBlob, Pick, Offer, connVars, Types, TypeOK
  <2>4. incoming' \in Seq({"start", "complete"}) /\ Len(incoming') <= IncomingCap
    <3>1. CASE ReadText
      <4>1. Head(wire).kind \in {"start", "complete"}
        BY <3>1, Messages DEF ReadText, Types
      <4> QED
        BY <3>1, <4>1, UploadAssumption DEF ReadText, Types
    <3>2. CASE ReadBlob \/ Pick \/ Offer
      BY <3>2 DEF ReadBlob, Pick, Offer, connVars, Types, TypeOK
    <3> QED
      BY <1>3, <3>1, <3>2 DEF Reader
  <2>5. \A i \in DOMAIN incoming' : incoming'[i] \in {"start", "complete"}
    BY <2>4
  <2> QED
    BY <1>1, <1>2, <1>0, <2>1, <2>2, <2>3, <2>4, <2>5 DEF Types, TypeOK, dstVars
<1>4. CASE Processor
  <2>1. UNCHANGED <<wire, inHand, joined, answering, open, arrived, told>>
    BY <1>4 DEF Processor, TakeStart, AddPool, StartPool, RespondStart, TakeComplete, dstVars
  <2>2. incoming' \in Seq({"start", "complete"}) /\ Len(incoming') <= IncomingCap
    <3>1. incoming' = incoming \/ (incoming # <<>> /\ incoming' = Tail(incoming))
      BY <1>4 DEF Processor, TakeStart, AddPool, StartPool, RespondStart, TakeComplete
    <3>2. incoming \in Seq({"start", "complete"}) /\ Len(incoming) <= IncomingCap
      BY DEF Types, TypeOK
    <3> QED
      BY <3>1, <3>2, UploadAssumption
  <2>3. proc' \in {"idle", "adding", "starting", "responding"}
    BY <1>4 DEF Processor, TakeStart, AddPool, StartPool, RespondStart, TakeComplete, Types, TypeOK
  <2>4. outgoing' \in Seq(Outbound) /\ Len(outgoing') <= OutgoingCap
    <3>1. CASE RespondStart
      BY <3>1, SendTyped DEF RespondStart, Outbound, Message
    <3>2. CASE outgoing' = outgoing
      BY <3>2 DEF Types, TypeOK
    <3> QED
      BY <1>4, <3>1, <3>2 DEF Processor, TakeStart, AddPool, StartPool, TakeComplete, dstVars
  <2>5. \A i \in DOMAIN incoming' : incoming'[i] \in {"start", "complete"}
    BY <2>2
  <2> QED
    BY <1>1, <1>2, <1>0, <2>1, <2>2, <2>3, <2>4, <2>5 DEF Types, TypeOK
<1>5. CASE (\E w \in Pool!Workers : Worker(w)) \/ Completer
  <2>1. UNCHANGED <<wire, inHand, incoming, proc, joined, answering, open, arrived, told>>
    BY <1>5 DEF Worker, Deliver, Completer, Announce, connVars, dstVars
  <2>2. outgoing' \in Seq(Outbound) /\ Len(outgoing') <= OutgoingCap
    <3>1. ASSUME NEW w \in Pool!Workers, Deliver(w)
          PROVE  outgoing' \in Seq(Outbound) /\ Len(outgoing') <= OutgoingCap
      <4>1. job[w] \in Blobs
        BY <3>1 DEF Deliver, Pool!Finish, Types, TypeOK, Pool!TypeOK
      <4>2. Blob(job[w]) \in Outbound
        BY <4>1 DEF Outbound, Message
      <4> QED
        BY <3>1, <4>2, SendTyped DEF Deliver
    <3>2. CASE Announce
      BY <3>2, SendTyped DEF Announce, Outbound, Message
    <3>3. CASE outgoing' = outgoing
      BY <3>3 DEF Types, TypeOK
    <3> QED
      BY <1>5, <3>1, <3>2, <3>3 DEF Worker, Completer, dstVars
  <2> QED
    BY <1>1, <1>2, <1>0, <2>1, <2>2 DEF Types, TypeOK
<1>6. CASE DstJoins
  <2>1. joined' = TRUE /\ answering' = TRUE /\ UNCHANGED <<connVars, outgoing, open, arrived, told>>
    BY <1>6 DEF DstJoins
  <2> QED
    BY <1>1, <1>2, <1>0, <2>1 DEF Types, TypeOK, connVars
<1>8. CASE AnswerJoin
  <2>1. /\ answering' = FALSE /\ UNCHANGED <<connVars, joined, open, arrived, told>>
        /\ SendToDst(Text("join"))
    BY <1>8 DEF AnswerJoin
  <2>2. outgoing' \in Seq(Outbound) /\ Len(outgoing') <= OutgoingCap
    BY <2>1, SendTyped DEF Outbound
  <2> QED
    BY <1>1, <1>2, <1>0, <2>1, <2>2 DEF Types, TypeOK, connVars
<1>7. CASE AppReceives
  <2>1. /\ outgoing # <<>> /\ outgoing' = Tail(outgoing)
        /\ UNCHANGED <<connVars, joined, answering>>
    BY <1>7 DEF AppReceives
  <2>2. outgoing' \in Seq(Outbound) /\ Len(outgoing') <= OutgoingCap /\ Head(outgoing) \in Outbound
    BY <2>1, UploadAssumption DEF Types, TypeOK
  <2>3. arrived' \subseteq Blobs
    BY <1>7, <2>2, Outbounds DEF AppReceives, Types, TypeOK
  <2>4. open' \in BOOLEAN
    <3>1. open \in BOOLEAN
      BY Zenon DEF Types, TypeOK
    <3>2. open' = TaskSetAfter(Head(outgoing))
      BY <1>7 DEF AppReceives
    <3> QED
      BY <3>1, <3>2 DEF TaskSetAfter
  <2>5. told' \in BOOLEAN
    BY <1>7, Zenon DEF AppReceives
  <2> QED
    BY <1>1, <1>2, <1>0, <2>1, <2>2, <2>3, <2>4, <2>5 DEF Types, TypeOK, connVars
<1> QED
  BY <1>3, <1>4, <1>5, <1>6, <1>7, <1>8 DEF Next

--------------------------------------------------------------------------------
(* The inductive invariant. *)

(* The wire brings the chunks that are left in their order, and nothing    *)
(* after upload-complete.                                                  *)
OnWire ==
  /\ \A i \in 1 .. Len(wire) : wire[i].kind = "complete" => i = Len(wire)
  /\ \A i, j \in 1 .. Len(wire) :
       wire[i].kind = "blob" /\ wire[j].kind = "blob" /\ i < j => wire[i].blob < wire[j].blob
  /\ \A i \in 1 .. Len(wire) : wire[i].kind = "blob" =>
       \A c \in Blobs :
         /\ c >= wire[i].blob => stage[c] = "unread"
         /\ c < wire[i].blob /\ stage[c] = "unread" => \E j \in 1 .. i - 1 : wire[j] = Blob(c)

(* The reader has one chunk in hand at a time, the last one read.          *)
InHand ==
  /\ \A b \in Blobs : stage[b] \in {"found", "picked"} => inHand = b
  /\ inHand # Idle => /\ stage[inHand] \in {"found", "picked"}
                      /\ \A c \in Blobs : c > inHand => stage[c] = "unread"

(* upload-complete is behind everything else of the upload.                *)
Ends ==
  /\ (completer # "none" \/ \E i \in 1 .. Len(incoming) : incoming[i] = "complete") =>
       wire = <<>> /\ inHand = Idle
  /\ \A i \in 1 .. Len(incoming) : incoming[i] = "complete" => i = Len(incoming)
  /\ completer # "none" => proc = "idle" /\ incoming = <<>>

(* The pool: no chunk before it is published, closed only after the wait.  *)
Life ==
  /\ closed => completer # "none"
  /\ ~registered => phase = "none" \/ completer # "none"
  /\ phase = "none" => ~registered /\ \A b \in Blobs : stage[b] \in {"unread", "missed"}
  /\ phase # "running" => \A w \in Pool!Workers : job[w] = Idle
  /\ panic # "send_on_closed"

(* A worker's queue has the chunks picked for it, in their order and       *)
(* behind the one it is busy with.                                         *)
Held ==
  /\ \A w \in Pool!Workers : \A i \in 1 .. Len(queue[w]) :
       /\ stage[queue[w][i]] = "queued" /\ target[queue[w][i]] = w
       /\ job[w] # Idle => job[w] < queue[w][i]
       /\ \A j \in 1 .. Len(queue[w]) : i < j => queue[w][i] < queue[w][j]
  /\ \A w \in Pool!Workers : job[w] # Idle => stage[job[w]] = "busy" /\ target[job[w]] = w
  /\ \A b \in Blobs :
       /\ stage[b] = "queued" => \E i \in 1 .. Len(queue[target[b]]) : queue[target[b]][i] = b
       /\ stage[b] = "busy" => job[target[b]] = b

Path == Types /\ OnWire /\ InHand /\ Ends /\ Life /\ Held

--------------------------------------------------------------------------------
(* Queues. *)

(* What the queues and jobs say of the pool's types, in numbers.           *)
LEMMA PoolValues ==
  ASSUME Types
  PROVE  /\ queue \in [Pool!Workers -> Seq(Blobs)] /\ job \in [Pool!Workers -> Blobs \union {Idle}]
         /\ stage \in [Blobs -> Pool!Stages] /\ target \in [Blobs -> Pool!Workers]
         /\ Blobs \subseteq Nat /\ inHand \in Blobs \union {Idle}
         /\ \A w \in Pool!Workers : /\ Len(queue[w]) \in Nat
                                    /\ \A i \in 1 .. Len(queue[w]) : queue[w][i] \in Blobs
<1>1. queue \in [Pool!Workers -> Seq(Blobs)]
  BY Numbers DEF Types, TypeOK, Pool!TypeOK
<1>2. \A w \in Pool!Workers : /\ Len(queue[w]) \in Nat
                              /\ \A i \in 1 .. Len(queue[w]) : queue[w][i] \in Blobs
  BY <1>1
<1> QED
  BY <1>1, <1>2, Numbers, UploadAssumption DEF Types, TypeOK, Pool!TypeOK

(* A step that changes the stage of a chunk outside the queues only.       *)
LEMMA HeldOutside ==
  ASSUME Path, NEW b \in Blobs, stage[b] \in {"unread", "found", "picked"},
         NEW x \in {"found", "missed", "picked", "dropped"}, stage' = [stage EXCEPT ![b] = x],
         UNCHANGED <<queue, job>>, \A c \in Blobs : c # b => target'[c] = target[c]
  PROVE  Held'
<1>1. Types /\ Held
  BY DEF Path
<1>2. /\ job \in [Pool!Workers -> Blobs \union {Idle}] /\ stage \in [Blobs -> Pool!Stages]
      /\ target \in [Blobs -> Pool!Workers]
      /\ \A w \in Pool!Workers : \A i \in 1 .. Len(queue[w]) : queue[w][i] \in Blobs
  BY <1>1, PoolValues
<1>3. stage'[b] = x /\ \A c \in Blobs : c # b => stage'[c] = stage[c]
  BY <1>2
<1>4. ASSUME NEW w \in Pool!Workers, NEW i \in 1 .. Len(queue[w])
      PROVE  stage'[queue[w][i]] = "queued" /\ target'[queue[w][i]] = w
  BY <1>1, <1>2, <1>3, <1>4 DEF Held
<1>5. ASSUME NEW w \in Pool!Workers, job[w] # Idle
      PROVE  stage'[job[w]] = "busy" /\ target'[job[w]] = w
  <2>1. job[w] \in Blobs /\ stage[job[w]] = "busy" /\ target[job[w]] = w
    BY <1>1, <1>2, <1>5 DEF Held
  <2> QED
    BY <1>3, <2>1
<1>6. ASSUME NEW c \in Blobs, stage'[c] = "queued"
      PROVE  \E i \in 1 .. Len(queue[target'[c]]) : queue[target'[c]][i] = c
  <2>1. c # b /\ stage[c] = "queued" /\ target'[c] = target[c]
    BY <1>3, <1>6
  <2> QED
    BY <1>1, <2>1 DEF Held
<1>7. ASSUME NEW c \in Blobs, stage'[c] = "busy"
      PROVE  job[target'[c]] = c
  <2>1. c # b /\ stage[c] = "busy" /\ target'[c] = target[c]
    BY <1>3, <1>7
  <2> QED
    BY <1>1, <2>1 DEF Held
<1>8. \A w \in Pool!Workers : \A i \in 1 .. Len(queue[w]) :
        /\ job[w] # Idle => job[w] < queue[w][i]
        /\ \A j \in 1 .. Len(queue[w]) : i < j => queue[w][i] < queue[w][j]
  BY <1>1 DEF Held
<1>9. Blobs' = Blobs /\ Idle' = Idle /\ Pool!Workers' = Pool!Workers
  BY DEF Blobs, Idle, Pool!Blobs, Pool!Idle, Pool!Workers
<1> QED
  BY <1>4, <1>5, <1>6, <1>7, <1>8, <1>9 DEF Held

(* The reader's chunk goes to the end of its worker's queue, and is the    *)
(* last one read.                                                          *)
LEMMA HeldEnqueue ==
  ASSUME Path, inHand # Idle, Pool!Enqueue(inHand), stage[inHand] = "picked",
         UNCHANGED <<job, target>>
  PROVE  Held'
<1>1. Types /\ Held /\ InHand
  BY DEF Path
<1>2. PICK b : b = inHand
  OBVIOUS
<1>3. PICK v : v = target[b]
  OBVIOUS
<1>t. /\ queue \in [Pool!Workers -> Seq(Blobs)] /\ job \in [Pool!Workers -> Blobs \union {Idle}]
      /\ stage \in [Blobs -> Pool!Stages] /\ target \in [Blobs -> Pool!Workers]
      /\ \A w \in Pool!Workers : \A i \in 1 .. Len(queue[w]) : queue[w][i] \in Blobs
  BY <1>1, PoolValues
<1>4. b \in Blobs /\ v \in Pool!Workers /\ stage[b] = "picked"
  BY <1>1, <1>2, <1>3, PoolValues
<1>5. /\ stage' = [stage EXCEPT ![b] = "queued"]
      /\ queue' = [queue EXCEPT ![v] = Append(queue[v], b)]
  BY <1>2, <1>3 DEF Pool!Enqueue
<1>6. stage'[b] = "queued" /\ \A c \in Blobs : c # b => stage'[c] = stage[c]
  BY <1>t, <1>4, <1>5
<1>7. /\ \A w \in Pool!Workers : w # v => queue'[w] = queue[w]
      /\ queue[v] \in Seq(Blobs) /\ queue'[v] = Append(queue[v], b)
  BY <1>t, <1>4, <1>5
<1>8. PICK n \in Nat : n = Len(queue[v])
  BY <1>7
<1>9. /\ Len(queue'[v]) = n + 1 /\ queue'[v][n + 1] = b
      /\ \A i \in 1 .. n : queue'[v][i] = queue[v][i]
  BY <1>4, <1>7, <1>8, AppendProperties
<1>10. ASSUME NEW c \in Blobs, stage[c] \in {"queued", "busy"}
       PROVE  c < b
  <2>1. c # b /\ ~(c > b)
    BY <1>1, <1>2, <1>4, <1>10 DEF InHand
  <2>2. c \in Nat /\ b \in Nat
    BY <1>4, Numbers, UploadAssumption
  <2> QED
    BY <2>1, <2>2
<1>11. ASSUME NEW w \in Pool!Workers, w # v, NEW i \in 1 .. Len(queue'[w])
       PROVE  /\ stage'[queue'[w][i]] = "queued" /\ target[queue'[w][i]] = w
              /\ job[w] # Idle => job[w] < queue'[w][i]
              /\ \A j \in 1 .. Len(queue'[w]) : i < j => queue'[w][i] < queue'[w][j]
  <2>1. queue'[w] = queue[w] /\ queue[w][i] \in Blobs
    BY <1>t, <1>7, <1>11
  <2>2. stage[queue[w][i]] = "queued" /\ queue[w][i] # b
    BY <1>1, <1>4, <1>11, <2>1 DEF Held
  <2>3. stage'[queue[w][i]] = "queued"
    BY <1>6, <2>1, <2>2
  <2> QED
    BY <1>1, <1>11, <2>1, <2>3 DEF Held
<1>12. ASSUME NEW i \in 1 .. n
       PROVE  /\ queue[v][i] \in Blobs
              /\ stage'[queue[v][i]] = "queued" /\ target[queue[v][i]] = v
              /\ queue[v][i] < b
              /\ job[v] # Idle => job[v] < queue[v][i]
              /\ \A j \in 1 .. n : i < j => queue[v][i] < queue[v][j]
  <2>1. /\ queue[v][i] \in Blobs /\ stage[queue[v][i]] = "queued" /\ target[queue[v][i]] = v
        /\ job[v] # Idle => job[v] < queue[v][i]
        /\ \A j \in 1 .. n : i < j => queue[v][i] < queue[v][j]
    <3>1. i \in 1 .. Len(queue[v])
      BY <1>8, <1>12
    <3>2. queue[v][i] \in Blobs
      BY <1>t, <1>4, <3>1
    <3>3. /\ stage[queue[v][i]] = "queued" /\ target[queue[v][i]] = v
          /\ job[v] # Idle => job[v] < queue[v][i]
          /\ \A j \in 1 .. Len(queue[v]) : i < j => queue[v][i] < queue[v][j]
      BY <1>1, <1>4, <3>1 DEF Held
    <3> QED
      BY <1>8, <3>2, <3>3
  <2>2. queue[v][i] < b
    BY <1>10, <2>1
  <2>3. stage'[queue[v][i]] = "queued"
    BY <1>4, <1>6, <2>1
  <2> QED
    BY <2>1, <2>2, <2>3
<1>13. ASSUME job[v] # Idle
       PROVE  job[v] < b
  <2>1. job[v] \in Blobs /\ stage[job[v]] = "busy"
    BY <1>1, <1>t, <1>4, <1>13 DEF Held
  <2> QED
    BY <1>10, <2>1
<1>14. ASSUME NEW i \in 1 .. Len(queue'[v])
       PROVE  /\ stage'[queue'[v][i]] = "queued" /\ target[queue'[v][i]] = v
              /\ job[v] # Idle => job[v] < queue'[v][i]
              /\ \A j \in 1 .. Len(queue'[v]) : i < j => queue'[v][i] < queue'[v][j]
  <2>1. CASE i \in 1 .. n
    <3>1. ASSUME NEW j \in 1 .. Len(queue'[v]), i < j
          PROVE  queue'[v][i] < queue'[v][j]
      <4>1. CASE j \in 1 .. n
        BY <1>9, <1>12, <2>1, <3>1, <4>1
      <4>2. CASE j = n + 1
        BY <1>9, <1>12, <2>1, <4>2
      <4> QED
        BY <1>8, <1>9, <3>1, <4>1, <4>2
    <3> QED
      BY <1>9, <1>12, <2>1, <3>1
  <2>2. CASE i = n + 1
    BY <1>3, <1>6, <1>9, <1>13, <2>2
  <2> QED
    BY <1>8, <1>9, <2>1, <2>2
<1>15. ASSUME NEW w \in Pool!Workers, job[w] # Idle
       PROVE  stage'[job[w]] = "busy" /\ target[job[w]] = w
  <2>1. job[w] \in Blobs /\ stage[job[w]] = "busy" /\ target[job[w]] = w
    BY <1>1, <1>t, <1>15 DEF Held
  <2> QED
    BY <1>4, <1>6, <2>1
<1>16. ASSUME NEW c \in Blobs, stage'[c] = "queued"
       PROVE  \E i \in 1 .. Len(queue'[target[c]]) : queue'[target[c]][i] = c
  <2>1. CASE c = b
    BY <1>3, <1>8, <1>9, <2>1
  <2>2. CASE c # b
    <3>1. PICK i \in 1 .. Len(queue[target[c]]) : queue[target[c]][i] = c
      BY <1>1, <1>6, <1>16, <2>2 DEF Held
    <3>2. CASE target[c] = v
      BY <1>8, <1>9, <3>1, <3>2
    <3>3. CASE target[c] # v
      BY <1>t, <1>7, <3>1, <3>3
    <3> QED
      BY <3>2, <3>3
  <2> QED
    BY <2>1, <2>2
<1>17. ASSUME NEW c \in Blobs, stage'[c] = "busy"
       PROVE  job[target[c]] = c
  <2>1. c # b /\ stage[c] = "busy"
    BY <1>6, <1>17
  <2> QED
    BY <1>1, <2>1 DEF Held
<1>18. Blobs' = Blobs /\ Idle' = Idle /\ Pool!Workers' = Pool!Workers
  BY DEF Blobs, Idle, Pool!Blobs, Pool!Idle, Pool!Workers
<1> QED
  BY <1>11, <1>14, <1>15, <1>16, <1>17, <1>18 DEF Held

(* A worker takes the first chunk of its queue, the smallest there.        *)
LEMMA HeldTake ==
  ASSUME Types, Held, NEW v \in Pool!Workers, Pool!Take(v)
  PROVE  /\ Held'
         /\ \E b \in Blobs : stage[b] = "queued" /\ stage' = [stage EXCEPT ![b] = "busy"]
<1>1. /\ queue \in [Pool!Workers -> Seq(Blobs)] /\ job \in [Pool!Workers -> Blobs \union {Idle}]
      /\ stage \in [Blobs -> Pool!Stages] /\ target \in [Blobs -> Pool!Workers]
      /\ \A w \in Pool!Workers : \A i \in 1 .. Len(queue[w]) : queue[w][i] \in Blobs
  BY PoolValues
<1>2. PICK q : q = queue[v]
  OBVIOUS
<1>3. q \in Seq(Blobs) /\ q # <<>>
  BY <1>1, <1>2 DEF Pool!Take, Pool!MayTake
<1>4. PICK n \in Nat : n = Len(q)
  BY <1>3
<1>5. PICK b : b = Head(q)
  OBVIOUS
<1>6. /\ n > 0 /\ b \in Blobs /\ b = q[1] /\ Tail(q) \in Seq(Blobs) /\ Len(Tail(q)) = n - 1
      /\ \A i \in 1 .. n - 1 : Tail(q)[i] = q[i + 1]
  BY <1>3, <1>4, <1>5, HeadTailProperties
<1>7. /\ job[v] = Idle /\ job' = [job EXCEPT ![v] = b] /\ queue' = [queue EXCEPT ![v] = Tail(q)]
      /\ stage' = [stage EXCEPT ![b] = "busy"] /\ target' = target
  BY <1>2, <1>5, Numbers DEF Pool!Take, Pool!MayTake
<1>8. stage'[b] = "busy" /\ \A c \in Blobs : c # b => stage'[c] = stage[c]
  BY <1>1, <1>6, <1>7
<1>9. ASSUME NEW i \in 1 .. n
      PROVE  /\ q[i] \in Blobs /\ stage[q[i]] = "queued" /\ target[q[i]] = v
             /\ \A j \in 1 .. n : i < j => q[i] < q[j]
  <2>1. /\ queue[v][i] \in Blobs /\ stage[queue[v][i]] = "queued" /\ target[queue[v][i]] = v
        /\ \A j \in 1 .. Len(queue[v]) : i < j => queue[v][i] < queue[v][j]
    <3>1. i \in 1 .. Len(queue[v])
      BY <1>2, <1>4, <1>9
    <3> QED
      BY <1>1, <3>1 DEF Held
  <2> QED
    BY <1>2, <1>4, <2>1
<1>10. stage[b] = "queued" /\ target[b] = v
  BY <1>4, <1>6, <1>9
<1>11. job'[v] = b /\ queue'[v] = Tail(q)
  BY <1>1, <1>7
<1>12. \A w \in Pool!Workers : w # v => queue'[w] = queue[w] /\ job'[w] = job[w]
  BY <1>1, <1>7
<1>13. ASSUME NEW i \in 1 .. n - 1
       PROVE  /\ stage'[Tail(q)[i]] = "queued" /\ target[Tail(q)[i]] = v /\ b < Tail(q)[i]
              /\ \A j \in 1 .. n - 1 : i < j => Tail(q)[i] < Tail(q)[j]
  <2>1. i + 1 \in 1 .. n /\ 1 \in 1 .. n /\ 1 < i + 1
    BY <1>4, <1>6, <1>13
  <2>2. /\ q[i + 1] \in Blobs /\ stage[q[i + 1]] = "queued" /\ target[q[i + 1]] = v
        /\ b < q[i + 1]
    BY <1>6, <1>9, <2>1
  <2>3. q[i + 1] # b
    BY <1>6, <2>2, Numbers, UploadAssumption
  <2>4. ASSUME NEW j \in 1 .. n - 1, i < j
        PROVE  q[i + 1] < q[j + 1]
    <3>1. j + 1 \in 1 .. n /\ i + 1 < j + 1
      BY <1>4, <2>4
    <3> QED
      BY <1>9, <2>1, <3>1
  <2> QED
    BY <1>6, <1>8, <2>2, <2>3, <2>4
<1>14. ASSUME NEW w \in Pool!Workers, NEW i \in 1 .. Len(queue'[w])
       PROVE  /\ stage'[queue'[w][i]] = "queued" /\ target'[queue'[w][i]] = w
              /\ job'[w] # Idle => job'[w] < queue'[w][i]
              /\ \A j \in 1 .. Len(queue'[w]) : i < j => queue'[w][i] < queue'[w][j]
  <2>1. CASE w = v
    <3>1. Len(queue'[v]) = n - 1 /\ i \in 1 .. n - 1
      BY <1>6, <1>11, <1>14, <2>1
    <3>2. /\ stage'[queue'[v][i]] = "queued" /\ target[queue'[v][i]] = v /\ b < queue'[v][i]
          /\ \A j \in 1 .. n - 1 : i < j => queue'[v][i] < queue'[v][j]
      BY <1>11, <1>13, <3>1
    <3> QED
      BY <1>7, <1>11, <2>1, <3>1, <3>2
  <2>2. CASE w # v
    <3>1. queue'[w] = queue[w] /\ job'[w] = job[w] /\ queue[w][i] \in Blobs
      BY <1>1, <1>12, <1>14, <2>2
    <3>2. /\ stage[queue[w][i]] = "queued" /\ target[queue[w][i]] = w
          /\ job[w] # Idle => job[w] < queue[w][i]
          /\ \A j \in 1 .. Len(queue[w]) : i < j => queue[w][i] < queue[w][j]
      BY <1>14, <3>1 DEF Held
    <3>3. stage'[queue[w][i]] = "queued"
      BY <1>8, <1>10, <2>2, <3>1, <3>2
    <3> QED
      BY <1>7, <3>1, <3>2, <3>3
  <2> QED
    BY <2>1, <2>2
<1>15. ASSUME NEW w \in Pool!Workers, job'[w] # Idle
       PROVE  stage'[job'[w]] = "busy" /\ target'[job'[w]] = w
  <2>1. CASE w = v
    BY <1>7, <1>8, <1>10, <1>11, <2>1
  <2>2. CASE w # v
    <3>1. job'[w] = job[w] /\ job[w] \in Blobs
      BY <1>1, <1>12, <1>15, <2>2
    <3>2. stage[job[w]] = "busy" /\ target[job[w]] = w
      BY <1>15, <3>1 DEF Held
    <3> QED
      BY <1>7, <1>8, <1>10, <3>1, <3>2
  <2> QED
    BY <2>1, <2>2
<1>16. ASSUME NEW c \in Blobs, stage'[c] = "queued"
       PROVE  \E i \in 1 .. Len(queue'[target'[c]]) : queue'[target'[c]][i] = c
  <2>1. c # b /\ stage[c] = "queued" /\ target'[c] = target[c] /\ target[c] \in Pool!Workers
    BY <1>1, <1>7, <1>8, <1>16
  <2>2. PICK i \in 1 .. Len(queue[target[c]]) : queue[target[c]][i] = c
    BY <2>1 DEF Held
  <2>3. CASE target[c] = v
    <3>1. i \in 1 .. n /\ q[i] = c /\ i # 1
      BY <1>2, <1>4, <1>6, <2>1, <2>2, <2>3
    <3>2. i - 1 \in 1 .. n - 1 /\ Tail(q)[i - 1] = c
      <4>1. i - 1 \in 1 .. n - 1 /\ (i - 1) + 1 = i
        BY <1>4, <3>1
      <4> QED
        BY <1>6, <3>1, <4>1
    <3> QED
      BY <1>6, <1>11, <2>1, <2>3, <3>2
  <2>4. CASE target[c] # v
    BY <1>12, <2>1, <2>2, <2>4
  <2> QED
    BY <2>3, <2>4
<1>17. ASSUME NEW c \in Blobs, stage'[c] = "busy"
       PROVE  job'[target'[c]] = c
  <2>1. CASE c = b
    BY <1>7, <1>10, <1>11, <2>1
  <2>2. CASE c # b
    <3>1. stage[c] = "busy" /\ target[c] \in Pool!Workers
      BY <1>1, <1>8, <1>17, <2>2
    <3>2. job[target[c]] = c
      BY <3>1 DEF Held
    <3>3. target[c] # v
      BY <1>7, <3>2, Numbers
    <3> QED
      BY <1>7, <1>12, <3>1, <3>2, <3>3
  <2> QED
    BY <2>1, <2>2
<1>18. Blobs' = Blobs /\ Idle' = Idle /\ Pool!Workers' = Pool!Workers
  BY DEF Blobs, Idle, Pool!Blobs, Pool!Idle, Pool!Workers
<1>19. Held'
  BY <1>14, <1>15, <1>16, <1>17, <1>18 DEF Held
<1> QED
  BY <1>6, <1>7, <1>10, <1>19

(* A worker is through with the chunk it was busy with.                    *)
LEMMA HeldFinish ==
  ASSUME Types, Held, NEW v \in Pool!Workers, NEW outcome \in {"sent", "lost"},
         Pool!Finish(v, outcome)
  PROVE  /\ Held' /\ job[v] \in Blobs /\ stage[job[v]] = "busy"
         /\ stage' = [stage EXCEPT ![job[v]] = outcome]
<1>1. /\ queue \in [Pool!Workers -> Seq(Blobs)] /\ job \in [Pool!Workers -> Blobs \union {Idle}]
      /\ stage \in [Blobs -> Pool!Stages] /\ target \in [Blobs -> Pool!Workers]
      /\ \A w \in Pool!Workers : \A i \in 1 .. Len(queue[w]) : queue[w][i] \in Blobs
  BY PoolValues
<1>2. PICK b : b = job[v]
  OBVIOUS
<1>3. /\ b # Idle /\ stage' = [stage EXCEPT ![b] = outcome] /\ job' = [job EXCEPT ![v] = Idle]
      /\ queue' = queue /\ target' = target
  BY <1>2, Numbers DEF Pool!Finish
<1>4. b \in Blobs /\ stage[b] = "busy" /\ target[b] = v
  BY <1>1, <1>2, <1>3 DEF Held
<1>5. stage'[b] = outcome /\ \A c \in Blobs : c # b => stage'[c] = stage[c]
  BY <1>1, <1>3, <1>4
<1>6. job'[v] = Idle /\ \A w \in Pool!Workers : w # v => job'[w] = job[w]
  BY <1>1, <1>3
<1>7. ASSUME NEW w \in Pool!Workers, NEW i \in 1 .. Len(queue[w])
      PROVE  /\ stage'[queue[w][i]] = "queued" /\ target[queue[w][i]] = w
             /\ job'[w] # Idle => job'[w] < queue[w][i]
             /\ \A j \in 1 .. Len(queue[w]) : i < j => queue[w][i] < queue[w][j]
  <2>1. /\ queue[w][i] \in Blobs /\ stage[queue[w][i]] = "queued" /\ target[queue[w][i]] = w
        /\ job[w] # Idle => job[w] < queue[w][i]
        /\ \A j \in 1 .. Len(queue[w]) : i < j => queue[w][i] < queue[w][j]
    BY <1>1, <1>7 DEF Held
  <2>2. stage'[queue[w][i]] = "queued"
    BY <1>4, <1>5, <2>1
  <2> QED
    BY <1>6, <2>1, <2>2
<1>8. ASSUME NEW w \in Pool!Workers, job'[w] # Idle
      PROVE  stage'[job'[w]] = "busy" /\ target[job'[w]] = w
  <2>1. w # v /\ job'[w] = job[w] /\ job[w] \in Blobs
    BY <1>1, <1>6, <1>8
  <2>2. stage[job[w]] = "busy" /\ target[job[w]] = w
    BY <1>8, <2>1 DEF Held
  <2> QED
    BY <1>4, <1>5, <2>1, <2>2
<1>9. ASSUME NEW c \in Blobs, stage'[c] = "queued"
      PROVE  \E i \in 1 .. Len(queue[target[c]]) : queue[target[c]][i] = c
  <2>1. c # b /\ stage[c] = "queued"
    BY <1>5, <1>9
  <2> QED
    BY <2>1 DEF Held
<1>10. ASSUME NEW c \in Blobs, stage'[c] = "busy"
       PROVE  job'[target[c]] = c
  <2>1. c # b /\ stage[c] = "busy" /\ target[c] \in Pool!Workers
    BY <1>1, <1>5, <1>10
  <2>2. job[target[c]] = c
    BY <2>1 DEF Held
  <2> QED
    BY <1>2, <1>6, <2>1, <2>2
<1>11. Blobs' = Blobs /\ Idle' = Idle /\ Pool!Workers' = Pool!Workers
  BY DEF Blobs, Idle, Pool!Blobs, Pool!Idle, Pool!Workers
<1>12. Held'
  BY <1>3, <1>7, <1>8, <1>9, <1>10, <1>11 DEF Held
<1> QED
  BY <1>2, <1>3, <1>4, <1>12

--------------------------------------------------------------------------------
(* The wire, the reader's hand, and the ends of the upload. *)

(* A step that reads nothing leaves the wire in order.                     *)
LEMMA OnWireKept ==
  ASSUME OnWire, wire' = wire,
         \A c \in Blobs : stage'[c] = "unread" <=> stage[c] = "unread"
  PROVE  OnWire'
<1>1. Blobs' = Blobs
  BY DEF Blobs, Pool!Blobs
<1> QED
  BY <1>1 DEF OnWire, Blob, Idle, Pool!Idle

(* Reading the first message, a text or the chunk b.                       *)
LEMMA OnWireRead ==
  ASSUME Types, OnWire, wire # <<>>, wire' = Tail(wire),
         \A c \in Blobs : stage'[c] = "unread" <=> stage[c] = "unread" /\ wire[1] # Blob(c)
  PROVE  OnWire'
<1>1. PICK q : q = wire
  OBVIOUS
<1>2. q \in Seq(Message) /\ q # <<>>
  BY <1>1 DEF Types
<1>3. PICK n \in Nat : n = Len(q)
  BY <1>2
<1>4. /\ n > 0 /\ wire' = Tail(q) /\ Len(Tail(q)) = n - 1
      /\ \A i \in 1 .. n - 1 : Tail(q)[i] = q[i + 1]
  BY <1>1, <1>2, <1>3, HeadTailProperties
<1>5. \A i \in 1 .. n : q[i] \in Message
  BY <1>2, <1>3
<1>6. /\ \A i \in 1 .. n : q[i].kind = "complete" => i = n
      /\ \A i, j \in 1 .. n : q[i].kind = "blob" /\ q[j].kind = "blob" /\ i < j =>
           q[i].blob < q[j].blob
      /\ \A i \in 1 .. n : q[i].kind = "blob" =>
           \A c \in Blobs :
             /\ c >= q[i].blob => stage[c] = "unread"
             /\ c < q[i].blob /\ stage[c] = "unread" => \E j \in 1 .. i - 1 : q[j] = Blob(c)
  BY <1>1, <1>3 DEF OnWire
<1>7. \A i \in 1 .. n - 1 : i + 1 \in 1 .. n /\ 1 < i + 1 /\ 1 \in 1 .. n
  BY <1>3, <1>4
<1>8. ASSUME NEW i \in 1 .. n - 1, Tail(q)[i].kind = "complete"
      PROVE  i = n - 1
  <2>1. i + 1 = n
    BY <1>4, <1>6, <1>7, <1>8
  <2> QED
    BY <1>3, <1>8, <2>1
<1>9. ASSUME NEW i \in 1 .. n - 1, NEW j \in 1 .. n - 1, i < j,
             Tail(q)[i].kind = "blob", Tail(q)[j].kind = "blob"
      PROVE  Tail(q)[i].blob < Tail(q)[j].blob
  <2>1. i + 1 < j + 1
    BY <1>9
  <2> QED
    BY <1>4, <1>6, <1>7, <1>9, <2>1
<1>10. ASSUME NEW i \in 1 .. n - 1, Tail(q)[i].kind = "blob", NEW c \in Blobs
       PROVE  /\ c >= Tail(q)[i].blob => stage'[c] = "unread"
              /\ c < Tail(q)[i].blob /\ stage'[c] = "unread" =>
                   \E j \in 1 .. i - 1 : Tail(q)[j] = Blob(c)
  <2>1. /\ Tail(q)[i] = q[i + 1] /\ q[i + 1].kind = "blob" /\ q[i + 1].blob \in Blobs
        /\ i + 1 \in 1 .. n /\ 1 \in 1 .. n
    BY <1>4, <1>5, <1>7, <1>10, Messages
  <2>2. ASSUME c >= q[i + 1].blob
        PROVE  stage'[c] = "unread"
    <3>1. stage[c] = "unread"
      BY <1>6, <2>1, <2>2
    <3>2. ASSUME q[1] = Blob(c) PROVE FALSE
      <4>1. q[1].kind = "blob" /\ q[1].blob = c
        BY <3>2 DEF Blob
      <4>2. c < q[i + 1].blob
        BY <1>6, <1>7, <2>1, <4>1
      <4> QED
        BY <2>1, <2>2, <4>2, Numbers, UploadAssumption
    <3> QED
      BY <1>1, <3>1, <3>2
  <2>3. ASSUME c < q[i + 1].blob, stage'[c] = "unread"
        PROVE  \E j \in 1 .. i - 1 : Tail(q)[j] = Blob(c)
    <3>1. stage[c] = "unread" /\ q[1] # Blob(c)
      BY <1>1, <2>3
    <3>2. PICK j \in 1 .. (i + 1) - 1 : q[j] = Blob(c)
      BY <1>6, <2>1, <2>3, <3>1
    <3>3. j # 1
      BY <3>1, <3>2
    <3>4. j - 1 \in 1 .. i - 1 /\ j - 1 \in 1 .. n - 1 /\ (j - 1) + 1 = j
      BY <1>3, <3>3
    <3>5. Tail(q)[j - 1] = q[(j - 1) + 1]
      BY <1>4, <3>4
    <3> QED
      BY <3>2, <3>4, <3>5
  <2> QED
    BY <2>1, <2>2, <2>3
<1>11. Blobs' = Blobs
  BY DEF Blobs, Pool!Blobs
<1>12. /\ \A i \in 1 .. Len(wire') : wire'[i].kind = "complete" => i = Len(wire')
       /\ \A i, j \in 1 .. Len(wire') :
            wire'[i].kind = "blob" /\ wire'[j].kind = "blob" /\ i < j =>
              wire'[i].blob < wire'[j].blob
  BY <1>4, <1>8, <1>9
<1>13. \A i \in 1 .. Len(wire') : wire'[i].kind = "blob" =>
         \A c \in Blobs :
           /\ c >= wire'[i].blob => stage'[c] = "unread"
           /\ c < wire'[i].blob /\ stage'[c] = "unread" => \E j \in 1 .. i - 1 : wire'[j] = Blob(c)
  BY <1>4, <1>10
<1> QED
  BY <1>11, <1>12, <1>13 DEF OnWire, Blob, Idle, Pool!Idle

(* Initially nothing has been read.                                        *)
LEMMA PathInit == Init => Path
<1> SUFFICES ASSUME Init PROVE Path
  OBVIOUS
<1>1. Types
  BY TypesInit
<1>2. /\ inHand = Idle /\ incoming = <<>> /\ phase = "none" /\ completer = "none" /\ panic = "none"
      /\ registered = FALSE /\ closed = FALSE
      /\ queue = [w \in Pool!Workers |-> <<>>] /\ job = [w \in Pool!Workers |-> Idle]
      /\ stage = [b \in Blobs |-> "unread"]
  BY Numbers DEF Init, Pool!Init
<1>3. PICK n \in 0 .. NumBlobs, m \in 1 .. NumBlobs + 2 :
        m <= Len(Upload(n)) /\ wire = SubSeq(Upload(n), 1, m)
  BY DEF Init
<1>4. PICK u : u = Upload(n)
  OBVIOUS
<1>5. /\ n \in Nat /\ m \in Nat /\ m <= n + 2 /\ u \in Seq(Message) /\ Len(u) = n + 2
      /\ u[1] = Text("start") /\ u[n + 2] = Text("complete")
      /\ \A i \in 2 .. n + 1 : u[i] = Blob(i - 1) /\ i - 1 \in Blobs
  BY <1>3, <1>4, UploadIs, UploadAssumption
<1>6. Len(wire) = m /\ \A i \in 1 .. m : wire[i] = u[i]
  BY <1>3, <1>4, <1>5
<1>7. ASSUME NEW i \in 1 .. m
      PROVE  /\ wire[i].kind = "complete" => i = n + 2
             /\ wire[i].kind = "blob" => i \in 2 .. n + 1 /\ wire[i] = Blob(i - 1) /\ wire[i].blob = i - 1
  <2>1. i = 1 \/ i = n + 2 \/ i \in 2 .. n + 1
    BY <1>5, <1>7
  <2>2. wire[i] = u[i]
    BY <1>6, <1>7
  <2>3. CASE i = 1 \/ i = n + 2
    <3>1. wire[i] = Text("start") \/ (i = n + 2 /\ wire[i] = Text("complete"))
      BY <1>5, <2>2, <2>3
    <3>2. Text("start").kind = "start" /\ Text("complete").kind = "complete"
      BY DEF Text
    <3> QED
      BY <3>1, <3>2
  <2>4. CASE i \in 2 .. n + 1
    <3>1. wire[i] = Blob(i - 1)
      BY <1>5, <2>2, <2>4
    <3> QED
      BY <2>4, <3>1 DEF Blob
  <2> QED
    BY <2>1, <2>3, <2>4
<1>8. OnWire
  <2>1. \A i \in 1 .. Len(wire) : wire[i].kind = "complete" => i = Len(wire)
    BY <1>5, <1>6, <1>7
  <2>2. \A i, j \in 1 .. Len(wire) :
          wire[i].kind = "blob" /\ wire[j].kind = "blob" /\ i < j => wire[i].blob < wire[j].blob
    BY <1>5, <1>6, <1>7
  <2>3. ASSUME NEW i \in 1 .. Len(wire), wire[i].kind = "blob", NEW c \in Blobs, c < wire[i].blob
        PROVE  \E j \in 1 .. i - 1 : wire[j] = Blob(c)
    <3>1. i \in 2 .. n + 1 /\ i <= m /\ wire[i].blob = i - 1 /\ c \in Nat /\ c > 0
      BY <1>5, <1>6, <1>7, <2>3, Numbers, UploadAssumption
    <3>2. c + 1 \in 2 .. n + 1 /\ c + 1 \in 1 .. i - 1 /\ c + 1 \in 1 .. m /\ (c + 1) - 1 = c
      BY <1>5, <2>3, <3>1
    <3>3. wire[c + 1] = Blob(c)
      BY <1>5, <1>6, <3>2
    <3> QED
      BY <3>2, <3>3
  <2> QED
    BY <1>2, <2>1, <2>2, <2>3 DEF OnWire
<1>9. InHand /\ Ends /\ Life
  BY <1>2, Numbers DEF InHand, Ends, Life
<1>10. Held
  BY <1>2 DEF Held
<1> QED
  BY <1>1, <1>8, <1>9, <1>10 DEF Path

(* A text goes from the wire to the processor's queue.                     *)
LEMMA PathReadText ==
  ASSUME Path, Types', ReadText
  PROVE  Path'
<1>1. Types /\ OnWire /\ InHand /\ Ends /\ Life /\ Held
  BY DEF Path
<1>2. /\ inHand = Idle /\ wire # <<>> /\ Head(wire).kind # "blob" /\ wire' = Tail(wire)
      /\ incoming' = Append(incoming, Head(wire).kind)
      /\ UNCHANGED <<poolVars, inHand, proc>>
  BY DEF ReadText
<1>3. wire \in Seq(Message) /\ Head(wire) = wire[1] /\ Len(wire) >= 1 /\ Len(wire) \in Nat
  BY <1>1, <1>2, HeadTailProperties DEF Types
<1>4. OnWire'
  <2>1. \A c \in Blobs : wire[1] # Blob(c)
    BY <1>2, <1>3 DEF Blob
  <2> QED
    BY <1>1, <1>2, <2>1, OnWireRead DEF poolVars
<1>5. InHand' /\ Life' /\ Held'
  BY <1>1, <1>2 DEF InHand, Life, Held, poolVars, Blobs, Idle, Pool!Blobs, Pool!Idle, Pool!Workers
<1>6. Ends'
  <2>1. completer = "none" /\ \A i \in 1 .. Len(incoming) : incoming[i] # "complete"
    BY <1>1, <1>2 DEF Ends
  <2>2. PICK n \in Nat : n = Len(incoming)
    BY <1>1 DEF Types
  <2>3. /\ Len(incoming') = n + 1 /\ incoming'[n + 1] = Head(wire).kind
        /\ \A i \in 1 .. n : incoming'[i] = incoming[i]
    BY <1>1, <1>2, <2>2 DEF Types
  <2>4. \A i \in 1 .. Len(incoming') : incoming'[i] = "complete" => i = n + 1 /\ Head(wire).kind = "complete"
    BY <2>1, <2>2, <2>3
  <2>5. ASSUME Head(wire).kind = "complete"
        PROVE  wire' = <<>>
    <3>1. 1 \in 1 .. Len(wire) /\ wire[1].kind = "complete"
      BY <1>3, <2>5
    <3>2. Len(wire) = 1
      BY <1>1, <3>1 DEF OnWire
    <3> QED
      BY <1>2, <1>3, <3>2
  <2> QED
    BY <1>2, <2>1, <2>3, <2>4, <2>5 DEF Ends, poolVars, Idle, Pool!Idle
<1> QED
  BY <1>4, <1>5, <1>6 DEF Path

(* The chunk read is the next one of the upload.                           *)
LEMMA PathReadBlob ==
  ASSUME Path, Types', ReadBlob
  PROVE  Path' /\ \E b \in Blobs :
           /\ wire[1] = Blob(b) /\ stage[b] = "unread" /\ completer = "none"
           /\ \A c \in Blobs : c < b => stage[c] # "unread"
           /\ \A c \in Blobs : c > b => stage[c] = "unread"
           /\ stage' = [stage EXCEPT ![b] = IF registered THEN "found" ELSE "missed"]
<1>1. Types /\ OnWire /\ InHand /\ Ends /\ Life /\ Held
  BY DEF Path
<1>2. wire # <<>> /\ Head(wire).kind = "blob" /\ wire' = Tail(wire) /\ inHand = Idle
  BY DEF ReadBlob
<1>3. wire \in Seq(Message) /\ Head(wire) = wire[1] /\ Len(wire) >= 1 /\ Len(wire) \in Nat
      /\ wire[1] \in Message
  BY <1>1, <1>2, HeadTailProperties DEF Types
<1>4. PICK b \in Blobs : Head(wire).blob = b /\ wire[1] = Blob(b)
  BY <1>2, <1>3, Messages
<1>5. PICK x : x = IF registered THEN "found" ELSE "missed"
  OBVIOUS
<1>6. /\ stage[b] = "unread" /\ stage' = [stage EXCEPT ![b] = x]
      /\ inHand' = (IF registered THEN b ELSE Idle)
      /\ UNCHANGED <<phase, registered, queue, closed, job, target, completer, panic, incoming, proc>>
  BY <1>4, <1>5 DEF ReadBlob, Pool!GetWorkerPool
<1>7. stage'[b] = x /\ \A c \in Blobs : c # b => stage'[c] = stage[c]
  BY <1>1, <1>6, PoolValues
<1>8. /\ completer = "none"
      /\ \A c \in Blobs : c < b => stage[c] # "unread"
      /\ \A c \in Blobs : c > b => stage[c] = "unread"
  <2>1. completer = "none"
    BY <1>1, <1>2 DEF Ends
  <2>2. 1 \in 1 .. Len(wire) /\ wire[1].kind = "blob" /\ wire[1].blob = b
    BY <1>2, <1>3, <1>4
  <2>3. \A c \in Blobs : /\ c >= b => stage[c] = "unread"
                         /\ c < b /\ stage[c] = "unread" => \E j \in 1 .. 1 - 1 : wire[j] = Blob(c)
    BY <1>1, <2>2 DEF OnWire
  <2>4. \A c \in Blobs : c > b => c >= b
    BY Numbers, UploadAssumption
  <2> QED
    BY <2>1, <2>3, <2>4
<1>9. OnWire'
  <2>1. x # "unread"
    BY <1>5
  <2>2. \A c \in Blobs : wire[1] = Blob(c) => c = b
    BY <1>4 DEF Blob
  <2>3. \A c \in Blobs : stage'[c] = "unread" <=> stage[c] = "unread" /\ wire[1] # Blob(c)
    BY <1>4, <1>7, <2>1, <2>2
  <2> QED
    BY <1>1, <1>2, <2>3, OnWireRead
<1>10. Held'
  <2>1. x \in {"found", "missed"}
    BY <1>5
  <2> QED
    BY <1>6, <2>1, HeldOutside
<1>11. InHand'
  <2>1. \A c \in Blobs : stage[c] \notin {"found", "picked"}
    BY <1>1, <1>2, Numbers DEF InHand
  <2>2. \A c \in Blobs : c > b => c # b
    BY Numbers, UploadAssumption
  <2> QED
    BY <1>5, <1>6, <1>7, <1>8, <2>1, <2>2, Numbers DEF InHand, Blobs, Pool!Blobs, Idle, Pool!Idle
<1>12. Ends'
  <2>1. \A i \in 1 .. Len(incoming) : incoming[i] # "complete"
    BY <1>1, <1>2 DEF Ends
  <2> QED
    BY <1>6, <1>8, <2>1 DEF Ends
<1>13. Life'
  <2>1. ASSUME phase = "none" PROVE \A c \in Blobs : stage'[c] \in {"unread", "missed"}
    BY <1>1, <1>5, <1>7, <2>1 DEF Life
  <2> QED
    BY <1>1, <1>6, <2>1 DEF Life, Blobs, Pool!Blobs, Idle, Pool!Idle, Pool!Workers
<1> QED
  BY <1>4, <1>5, <1>6, <1>8, <1>9, <1>10, <1>11, <1>12, <1>13 DEF Path

(* The reader's chunk gets its worker.                                     *)
LEMMA PathPick ==
  ASSUME Path, Types', Pick
  PROVE  Path' /\ stage[inHand] = "found" /\ stage' = [stage EXCEPT ![inHand] = "picked"]
         /\ inHand \in Blobs /\ \A c \in Blobs : c # inHand => target'[c] = target[c]
<1>1. Types /\ OnWire /\ InHand /\ Ends /\ Life /\ Held
  BY DEF Path
<1>2. PICK b : b = inHand
  OBVIOUS
<1>3. /\ b # Idle /\ stage[b] = "found" /\ stage' = [stage EXCEPT ![b] = "picked"]
      /\ target' = [target EXCEPT ![b] = next]
      /\ UNCHANGED <<phase, registered, queue, closed, job, completer, panic, connVars>>
  BY <1>2 DEF Pick, Pool!PickWorker
<1>4. b \in Blobs /\ inHand' = b
  BY <1>1, <1>2, <1>3, PoolValues DEF connVars
<1>5. stage'[b] = "picked" /\ \A c \in Blobs : c # b => stage'[c] = stage[c] /\ target'[c] = target[c]
  BY <1>1, <1>3, <1>4, PoolValues
<1>6. OnWire'
  <2>1. \A c \in Blobs : stage'[c] = "unread" <=> stage[c] = "unread"
    BY <1>3, <1>5
  <2> QED
    BY <1>1, <1>3, <2>1, OnWireKept DEF connVars
<1>7. Held'
  BY <1>3, <1>4, <1>5, HeldOutside
<1>8. InHand'
  <2>1. \A c \in Blobs : c > b => stage[c] = "unread" /\ c # b
    BY <1>1, <1>2, <1>3, <1>4, Numbers, UploadAssumption DEF InHand
  <2>2. \A c \in Blobs : stage[c] \in {"found", "picked"} => c = b
    BY <1>1, <1>2 DEF InHand
  <2> QED
    BY <1>3, <1>4, <1>5, <2>1, <2>2 DEF InHand, Blobs, Pool!Blobs, Idle, Pool!Idle
<1>9. Ends'
  BY <1>1, <1>3 DEF Ends, connVars, Idle, Pool!Idle
<1>10. Life'
  <2>1. phase # "none"
    BY <1>1, <1>3, <1>4 DEF Life
  <2> QED
    BY <1>1, <1>3, <2>1 DEF Life, Blobs, Pool!Blobs, Idle, Pool!Idle, Pool!Workers
<1> QED
  BY <1>2, <1>3, <1>4, <1>5, <1>6, <1>7, <1>8, <1>9, <1>10 DEF Path

(* The reader's chunk meets open queues.                                   *)
LEMMA PathOffer ==
  ASSUME Path, Types', Offer
  PROVE  Path' /\ target' = target /\ \E b \in Blobs, x \in {"queued", "dropped"} :
           /\ stage[b] = "picked" /\ stage' = [stage EXCEPT ![b] = x]
           /\ \A c \in Blobs : c > b => stage[c] = "unread"
<1>1. Types /\ OnWire /\ InHand /\ Ends /\ Life /\ Held
  BY DEF Path
<1>2. PICK b : b = inHand
  OBVIOUS
<1>3. /\ b # Idle /\ stage[b] = "picked" /\ (Pool!OfferOpen(b) \/ Pool!OfferClosed)
      /\ inHand' = Idle
      /\ UNCHANGED <<phase, registered, closed, job, target, completer, wire, incoming, proc>>
  BY <1>2 DEF Offer, Pool!Offer
<1>4. b \in Blobs
  BY <1>1, <1>2, <1>3, PoolValues
<1>5. Pool!OfferOpen(b)
  <2>1. completer = "none"
    BY <1>1, <1>2, <1>3 DEF Ends
  <2>2. ~closed
    BY <1>1, <2>1 DEF Life
  <2> QED
    BY <1>3, <2>2 DEF Pool!OfferClosed
<1>6. PICK x \in {"queued", "dropped"} : stage' = [stage EXCEPT ![b] = x]
  BY <1>5 DEF Pool!OfferOpen, Pool!Enqueue, Pool!Drop
<1>7. stage'[b] = x /\ \A c \in Blobs : c # b => stage'[c] = stage[c]
  BY <1>1, <1>4, <1>6, PoolValues
<1>8. OnWire'
  <2>1. \A c \in Blobs : stage'[c] = "unread" <=> stage[c] = "unread"
    BY <1>3, <1>6, <1>7
  <2> QED
    BY <1>1, <1>3, <2>1, OnWireKept
<1>9. Held'
  <2>1. CASE Pool!Enqueue(b)
    BY <1>2, <1>3, <2>1, HeldEnqueue
  <2>2. CASE Pool!Drop(b)
    BY <1>3, <1>4, <2>2, HeldOutside DEF Pool!Drop
  <2> QED
    BY <1>5, <2>1, <2>2 DEF Pool!OfferOpen
<1>10. \A c \in Blobs : c > b => stage[c] = "unread"
  BY <1>1, <1>2, <1>3 DEF InHand
<1>11. InHand'
  <2>1. \A c \in Blobs : stage[c] \in {"found", "picked"} => c = b
    BY <1>1, <1>2 DEF InHand
  <2>2. \A c \in Blobs : stage'[c] \notin {"found", "picked"}
    BY <1>7, <2>1
  <2> QED
    BY <1>3, <2>2 DEF InHand, Blobs, Pool!Blobs, Idle, Pool!Idle
<1>12. Ends'
  BY <1>1, <1>3 DEF Ends, Idle, Pool!Idle
<1>13. Life'
  <2>1. phase # "none"
    BY <1>1, <1>3, <1>4 DEF Life
  <2>2. panic' = panic
    BY <1>5 DEF Pool!OfferOpen
  <2> QED
    BY <1>1, <1>3, <2>1, <2>2 DEF Life, Blobs, Pool!Blobs, Idle, Pool!Idle, Pool!Workers
<1> QED
  BY <1>3, <1>4, <1>6, <1>8, <1>9, <1>10, <1>11, <1>12, <1>13 DEF Path

(* The processor takes upload-complete only when all is read.              *)
LEMMA PathProcessor ==
  ASSUME Path, Types', Processor
  PROVE  Path' /\ stage' = stage /\ target' = target
<1>1. Types /\ OnWire /\ InHand /\ Ends /\ Life /\ Held
  BY DEF Path
<1>2. UNCHANGED <<stage, target, queue, job, closed, panic, wire, inHand>>
  BY DEF Processor, TakeStart, AddPool, StartPool, RespondStart, TakeComplete, poolVars,
     Pool!AddWorkerPool, Pool!Start, Pool!UploadComplete
<1>3. OnWire' /\ InHand' /\ Held'
  BY <1>1, <1>2, OnWireKept DEF InHand, Held, Blobs, Idle, Pool!Blobs, Pool!Idle, Pool!Workers
<1>4. Life'
  BY <1>1, <1>2 DEF Life, Processor, TakeStart, AddPool, StartPool, RespondStart, TakeComplete,
     poolVars, Pool!AddWorkerPool, Pool!Start, Pool!UploadComplete,
     Blobs, Pool!Blobs, Idle, Pool!Idle, Pool!Workers
<1>5. Ends'
  <2>1. CASE TakeStart \/ TakeComplete
    <3>1. /\ incoming \in Seq({"start", "complete"}) /\ incoming # <<>> /\ incoming' = Tail(incoming)
          /\ proc = "idle"
      BY <1>1, <2>1 DEF TakeStart, TakeComplete, Types
    <3>2. PICK n \in Nat : n = Len(incoming)
      BY <3>1
    <3>3. /\ n > 0 /\ Len(incoming') = n - 1 /\ Head(incoming) = incoming[1]
          /\ \A i \in 1 .. n - 1 : incoming'[i] = incoming[i + 1]
      BY <3>1, <3>2, HeadTailProperties
    <3>4. completer = "none" /\ \A i \in 1 .. n : incoming[i] = "complete" => i = n
      BY <1>1, <3>1, <3>2 DEF Ends
    <3>5. \A i \in 1 .. n - 1 : i + 1 \in 1 .. n /\ (i + 1 = n => i = n - 1)
      BY <3>2
    <3>6. \A i \in 1 .. Len(incoming') : incoming'[i] = "complete" => i = Len(incoming')
      BY <3>3, <3>4, <3>5
    <3>7. ASSUME NEW i \in 1 .. Len(incoming'), incoming'[i] = "complete"
          PROVE  wire = <<>> /\ inHand = Idle
      <4>1. i + 1 \in 1 .. Len(incoming) /\ incoming[i + 1] = "complete"
        BY <3>2, <3>3, <3>5, <3>7
      <4> QED
        BY <1>1, <4>1 DEF Ends
    <3>8. CASE TakeStart
      <4>1. completer' = "none"
        BY <3>4, <3>8 DEF TakeStart, poolVars
      <4> QED
        BY <1>2, <3>6, <3>7, <4>1 DEF Ends, Idle, Pool!Idle
    <3>9. CASE TakeComplete
      <4>1. 1 \in 1 .. n /\ incoming[1] = "complete" /\ proc' = "idle"
        BY <3>1, <3>2, <3>3, <3>9 DEF TakeComplete
      <4>2. n = 1 /\ wire = <<>> /\ inHand = Idle
        BY <1>1, <3>2, <3>4, <4>1 DEF Ends
      <4>3. Tail(incoming) \in Seq({"start", "complete"}) /\ Len(incoming') = 0
        BY <3>1, <3>3, <4>2, HeadTailProperties
      <4> QED
        BY <1>2, <3>1, <4>1, <4>2, <4>3 DEF Ends, Idle, Pool!Idle
    <3> QED
      BY <2>1, <3>8, <3>9
  <2>2. CASE AddPool \/ StartPool \/ RespondStart
    <3>1. proc # "idle" /\ UNCHANGED <<completer, incoming>>
      BY <2>2 DEF AddPool, StartPool, RespondStart, poolVars, Pool!AddWorkerPool, Pool!Start
    <3> QED
      BY <1>1, <1>2, <3>1 DEF Ends, Idle, Pool!Idle
  <2> QED
    BY <2>1, <2>2 DEF Processor
<1> QED
  BY <1>2, <1>3, <1>4, <1>5 DEF Path

(* What a worker does to a chunk it holds is behind everything above.      *)
LEMMA PathHeld ==
  ASSUME Path, Types', Held', NEW b \in Blobs, stage[b] \in {"queued", "busy"},
         NEW x \in {"busy", "sent", "lost"}, stage' = [stage EXCEPT ![b] = x],
         UNCHANGED <<phase, registered, closed, completer, wire, inHand, incoming, proc>>,
         panic' # "send_on_closed", phase # "running" => job' = job
  PROVE  Path'
<1>1. Types /\ OnWire /\ InHand /\ Ends /\ Life /\ Held
  BY DEF Path
<1>2. stage'[b] = x /\ \A c \in Blobs : c # b => stage'[c] = stage[c]
  BY <1>1, PoolValues
<1>3. OnWire'
  <2>1. \A c \in Blobs : stage'[c] = "unread" <=> stage[c] = "unread"
    BY <1>2
  <2> QED
    BY <1>1, <2>1, OnWireKept
<1>4. InHand'
  <2>1. ASSUME NEW c \in Blobs, stage'[c] \in {"found", "picked"}
        PROVE  inHand = c
    BY <1>1, <1>2, <2>1 DEF InHand
  <2>2. ASSUME inHand # Idle
        PROVE  /\ stage'[inHand] \in {"found", "picked"}
               /\ \A c \in Blobs : c > inHand => stage'[c] = "unread"
    <3>1. /\ inHand \in Blobs /\ stage[inHand] \in {"found", "picked"}
          /\ \A c \in Blobs : c > inHand => stage[c] = "unread"
      BY <1>1, <2>2, PoolValues DEF InHand
    <3> QED
      BY <1>2, <3>1
  <2> QED
    BY <2>1, <2>2 DEF InHand, Blobs, Pool!Blobs, Idle, Pool!Idle
<1>5. Ends'
  BY <1>1 DEF Ends, Idle, Pool!Idle
<1>6. Life'
  <2>1. phase # "none"
    BY <1>1 DEF Life
  <2> QED
    BY <1>1, <2>1 DEF Life, Blobs, Pool!Blobs, Idle, Pool!Idle, Pool!Workers
<1> QED
  BY <1>3, <1>4, <1>5, <1>6 DEF Path

(* A worker takes a chunk.                                                 *)
LEMMA PathTake ==
  ASSUME Path, Types', NEW v \in Pool!Workers, Pool!Take(v), UNCHANGED <<connVars, dstVars>>
  PROVE  Path' /\ \E b \in Blobs : stage[b] = "queued" /\ stage' = [stage EXCEPT ![b] = "busy"]
<1>1. Types /\ Held
  BY DEF Path
<1>2. PICK b \in Blobs : stage[b] = "queued" /\ stage' = [stage EXCEPT ![b] = "busy"]
  BY <1>1, HeldTake
<1>3. Held'
  BY <1>1, HeldTake
<1>4. /\ UNCHANGED <<phase, registered, closed, completer, wire, inHand, incoming, proc>>
      /\ panic' # "send_on_closed" /\ phase = "running"
  BY DEF Pool!Take, Pool!Running, connVars
<1> QED
  BY <1>2, <1>3, <1>4, PathHeld

(* A worker is through with a chunk.                                       *)
LEMMA PathFinish ==
  ASSUME Path, Types', NEW v \in Pool!Workers, NEW outcome \in {"sent", "lost"},
         Pool!Finish(v, outcome), UNCHANGED connVars
  PROVE  Path'
<1>1. Types /\ Held /\ Life
  BY DEF Path
<1>2. /\ Held' /\ job[v] \in Blobs /\ stage[job[v]] = "busy"
      /\ stage' = [stage EXCEPT ![job[v]] = outcome]
  BY <1>1, HeldFinish
<1>3. /\ UNCHANGED <<phase, registered, closed, completer, wire, inHand, incoming, proc>>
      /\ panic' # "send_on_closed"
  BY DEF Pool!Finish, Pool!Running, connVars
<1>4. phase = "running"
  BY <1>1, <1>2, Numbers DEF Life
<1> QED
  BY <1>2, <1>3, <1>4, PathHeld

(* The completing goroutine comes after upload-complete.                   *)
LEMMA PathCompleter ==
  ASSUME Path, Types', Completer
  PROVE  Path' /\ stage' = stage /\ target' = target
<1>1. Types /\ OnWire /\ InHand /\ Ends /\ Life /\ Held
  BY DEF Path
<1>2. /\ UNCHANGED <<stage, target, queue, job, phase, panic, connVars>>
      /\ completer # "none" /\ completer' # "none"
  BY <1>1 DEF Types, TypeOK, Completer, Announce, Pool!WaitForAllChunks, Pool!CloseQueues, Pool!DeleteWorkerPool,
     Pool!BroadcastComplete
<1>3. OnWire' /\ InHand' /\ Held' /\ Ends'
  BY <1>1, <1>2, OnWireKept
  DEF InHand, Held, Ends, connVars, Blobs, Idle, Pool!Blobs, Pool!Idle, Pool!Workers
<1>4. Life'
  <2>1. phase = "none" => ~registered'
    BY <1>1 DEF Life, Completer, Announce, Pool!WaitForAllChunks, Pool!CloseQueues,
       Pool!DeleteWorkerPool, Pool!BroadcastComplete
  <2> QED
    BY <1>1, <1>2, <2>1 DEF Life, Blobs, Idle, Pool!Blobs, Pool!Idle, Pool!Workers
<1> QED
  BY <1>2, <1>3, <1>4 DEF Path

(* The destination's side and stuttering: nothing of the path changes.     *)
LEMMA PathElsewhere ==
  ASSUME Path, Types', UNCHANGED <<poolVars, connVars>>
  PROVE  Path'
<1>1. Types /\ OnWire /\ InHand /\ Ends /\ Life /\ Held
  BY DEF Path
<1>2. OnWire' /\ InHand' /\ Held' /\ Ends' /\ Life'
  BY <1>1, OnWireKept
  DEF InHand, Held, Ends, Life, connVars, poolVars, Blobs, Idle, Pool!Blobs, Pool!Idle, Pool!Workers
<1> QED
  BY <1>2 DEF Path

(* A worker ends.                                                          *)
LEMMA PathExit ==
  ASSUME Path, Types', NEW v \in Pool!Workers, Pool!Exit(v), UNCHANGED connVars
  PROVE  Path' /\ stage' = stage /\ target' = target
<1>1. Types /\ OnWire /\ InHand /\ Ends /\ Life /\ Held
  BY DEF Path
<1>2. UNCHANGED <<phase, registered, queue, closed, job, stage, target, completer, panic>>
  BY DEF Pool!Exit
<1>3. OnWire' /\ InHand' /\ Held' /\ Ends' /\ Life'
  BY <1>1, <1>2, OnWireKept
  DEF InHand, Held, Ends, Life, connVars, Blobs, Idle, Pool!Blobs, Pool!Idle, Pool!Workers
<1> QED
  BY <1>2, <1>3 DEF Path

(* Every step keeps the path in order.                                     *)
LEMMA PathStep ==
  ASSUME Path, Next, cut' = cut
  PROVE  Path'
<1>1. Types'
  BY TypesStep DEF Path
<1>2. CASE Reader
  BY <1>1, <1>2, PathReadText, PathReadBlob, PathPick, PathOffer DEF Reader
<1>3. CASE Processor
  BY <1>1, <1>3, PathProcessor
<1>4. ASSUME NEW v \in Pool!Workers, Worker(v)
      PROVE  Path'
  <2>1. CASE Deliver(v)
    BY <1>1, <2>1, PathFinish DEF Deliver
  <2>2. CASE (Pool!Take(v) \/ Pool!Exit(v)) /\ UNCHANGED <<connVars, dstVars>>
    BY <1>1, <2>2, PathTake, PathExit
  <2> QED
    BY <1>4, <2>1, <2>2 DEF Worker
<1>5. CASE Completer
  BY <1>1, <1>5, PathCompleter
<1>6. CASE DstJoins \/ AnswerJoin \/ AppReceives
  BY <1>1, <1>6, PathElsewhere DEF DstJoins, AnswerJoin, AppReceives
<1> QED
  BY <1>2, <1>3, <1>4, <1>5, <1>6 DEF Next

--------------------------------------------------------------------------------
(* The order in which chunks are missed and sent. *)

Order == MissedIsPrefix /\ PerWorkerOrder

(* When one chunk changes its stage: which changes keep the order.         *)
LEMMA OrderKept ==
  ASSUME Types, Order, NEW b \in Blobs, NEW x, stage' = [stage EXCEPT ![b] = x],
         stage[b] # "missed",
         \A c \in Blobs : c # b => target'[c] = target[c],
         x = "missed" => \A c \in Blobs : c < b => stage[c] = "missed",
         x \in {"queued", "busy"} =>
           /\ target' = target
           /\ stage[b] \in {"queued", "busy"} \/ \A c \in Blobs : c > b => stage[c] # "sent",
         x = "sent" =>
           /\ target' = target
           /\ \A c \in Blobs : c < b /\ target[c] = target[b] => stage[c] \notin {"queued", "busy"}
  PROVE  Order'
<1>1. stage'[b] = x /\ \A c \in Blobs : c # b => stage'[c] = stage[c]
  BY PoolValues
<1>2. Blobs' = Blobs /\ Blobs \subseteq Nat
  BY Numbers, UploadAssumption DEF Blobs, Pool!Blobs
<1>3. ASSUME NEW d \in Blobs, NEW c \in Blobs, stage'[c] = "missed", d < c
      PROVE  stage'[d] = "missed"
  <2>1. CASE c = b
    <3>1. d # b /\ stage[d] = "missed"
      BY <1>1, <1>2, <1>3, <2>1
    <3> QED
      BY <1>1, <3>1
  <2>2. CASE c # b
    <3>1. stage[d] = "missed"
      BY <1>1, <1>3, <2>2 DEF Order, MissedIsPrefix
    <3> QED
      BY <1>1, <3>1
  <2> QED
    BY <2>1, <2>2
<1>4. ASSUME NEW d \in Blobs, NEW c \in Blobs, d < c, target'[d] = target'[c],
             stage'[d] \in {"queued", "busy"}, stage'[c] = "sent"
      PROVE  FALSE
  <2>1. d # c
    BY <1>2, <1>4
  <2>2. CASE c = b
    BY <1>1, <1>4, <2>1, <2>2
  <2>3. CASE d = b
    <3>1. target' = target /\ stage[c] = "sent" /\ stage[b] \in {"queued", "busy"}
      BY <1>1, <1>2, <1>4, <2>1, <2>3
    <3> QED
      BY <1>4, <2>3, <3>1 DEF Order, PerWorkerOrder
  <2>4. CASE c # b /\ d # b
    BY <1>1, <1>4, <2>4 DEF Order, PerWorkerOrder
  <2> QED
    BY <2>2, <2>3, <2>4
<1> QED
  BY <1>2, <1>3, <1>4 DEF Order, MissedIsPrefix, PerWorkerOrder

(* Every step keeps the order of the chunks.                               *)
LEMMA OrderStep ==
  ASSUME Path, Order, Next, cut' = cut
  PROVE  Order'
<1>1. Types /\ Types' /\ InHand /\ Life /\ Held
  BY TypesStep DEF Path
<1>2. CASE stage' = stage /\ target' = target
  BY <1>2 DEF Order, MissedIsPrefix, PerWorkerOrder, Blobs, Pool!Blobs
<1>3. CASE ReadBlob
  <2>1. PICK b \in Blobs :
          /\ stage[b] = "unread" /\ completer = "none"
          /\ \A c \in Blobs : c < b => stage[c] # "unread"
          /\ stage' = [stage EXCEPT ![b] = IF registered THEN "found" ELSE "missed"]
    BY <1>1, <1>3, PathReadBlob
  <2>2. PICK x : x = IF registered THEN "found" ELSE "missed"
    OBVIOUS
  <2>3. target' = target
    BY <1>3 DEF ReadBlob, Pool!GetWorkerPool
  <2>4. x = "missed" => \A c \in Blobs : c < b => stage[c] = "missed"
    BY <1>1, <2>1, <2>2 DEF Life
  <2>5. x \in {"found", "missed"} /\ stage' = [stage EXCEPT ![b] = x]
    BY <2>1, <2>2
  <2> QED
    BY <1>1, <2>1, <2>3, <2>4, <2>5, OrderKept
<1>4. CASE Pick
  <2>1. PICK b \in Blobs : /\ stage[b] = "found" /\ stage' = [stage EXCEPT ![b] = "picked"]
                           /\ \A c \in Blobs : c # b => target'[c] = target[c]
    BY <1>1, <1>4, PathPick
  <2> QED
    BY <1>1, <2>1, OrderKept
<1>5. CASE Offer
  <2>1. PICK b \in Blobs, x \in {"queued", "dropped"} :
           /\ stage[b] = "picked" /\ stage' = [stage EXCEPT ![b] = x] /\ target' = target
           /\ \A c \in Blobs : c > b => stage[c] = "unread"
    BY <1>1, <1>5, PathOffer
  <2> QED
    BY <1>1, <2>1, OrderKept
<1>6. ASSUME NEW v \in Pool!Workers, Pool!Take(v), UNCHANGED <<connVars, dstVars>>
      PROVE  Order'
  <2>1. PICK b \in Blobs : stage[b] = "queued" /\ stage' = [stage EXCEPT ![b] = "busy"]
    BY <1>1, <1>6, PathTake
  <2>2. target' = target
    BY <1>6 DEF Pool!Take
  <2> QED
    BY <1>1, <2>1, <2>2, OrderKept
<1>7. ASSUME NEW v \in Pool!Workers, Deliver(v)
      PROVE  Order'
  <2>1. PICK x \in {"sent", "lost"} : Pool!Finish(v, x)
    BY <1>7 DEF Deliver
  <2>2. PICK b : b = job[v]
    OBVIOUS
  <2>3. b \in Blobs /\ stage[b] = "busy" /\ stage' = [stage EXCEPT ![b] = x]
    BY <1>1, <2>1, <2>2, HeldFinish
  <2>4. target' = target
    BY <2>1 DEF Pool!Finish
  <2>5. b # Idle /\ target[b] = v
    BY <1>1, <2>2, <2>3, Numbers DEF Held
  <2>6. ASSUME NEW c \in Blobs, c < b, target[c] = v, stage[c] \in {"queued", "busy"}
        PROVE  FALSE
    <3>1. c \in Nat /\ b \in Nat
      BY <2>3, Numbers, UploadAssumption
    <3>2. CASE stage[c] = "queued"
      <4>1. PICK i \in 1 .. Len(queue[v]) : queue[v][i] = c
        BY <1>1, <2>6, <3>2 DEF Held
      <4>2. job[v] < queue[v][i]
        BY <1>1, <2>2, <2>5 DEF Held
      <4> QED
        BY <2>2, <2>6, <3>1, <4>1, <4>2
    <3>3. CASE stage[c] = "busy"
      <4>1. job[v] = c
        BY <1>1, <2>6, <3>3 DEF Held
      <4> QED
        BY <2>2, <2>6, <3>1, <4>1
    <3> QED
      BY <2>6, <3>2, <3>3
  <2> QED
    BY <1>1, <2>3, <2>4, <2>5, <2>6, OrderKept
<1>8. CASE ReadText \/ DstJoins \/ AnswerJoin \/ AppReceives
  BY <1>2, <1>8 DEF ReadText, DstJoins, AnswerJoin, AppReceives, poolVars
<1>9. CASE Processor \/ Completer
  BY <1>1, <1>2, <1>9, PathProcessor, PathCompleter
<1>10. ASSUME NEW v \in Pool!Workers, Pool!Exit(v)
       PROVE  Order'
  BY <1>2, <1>10 DEF Pool!Exit
<1> QED
  BY <1>3, <1>4, <1>5, <1>6, <1>7, <1>8, <1>9, <1>10 DEF Next, Reader, Worker

--------------------------------------------------------------------------------
(* The destination's queue. *)

Carried(s)  == {b \in Blobs : \E i \in 1 .. Len(s) : s[i] = Blob(b)}
Distinct(s) == \A i, j \in 1 .. Len(s) : s[i] = s[j] => i = j
Sent        == {b \in Blobs : stage[b] = "sent"}

(* What is in the destination's queue got there once.                      *)
Outbox ==
  /\ Sent = arrived \union Carried(outgoing)
  /\ arrived \intersect Carried(outgoing) = {}
  /\ Distinct(outgoing)
  /\ \A i \in 1 .. Len(outgoing) :
       /\ outgoing[i] = Text("start") => phase = "running" /\ proc # "responding"
       /\ outgoing[i] = Text("complete") => completer = "announced"
       /\ outgoing[i] = Text("join") => joined /\ ~answering
  /\ proc = "responding" => phase = "running"
  /\ answering => joined

(* The chunks on the way are those the queue carries.                      *)
LEMMA OnTheWayIs ==
  ASSUME Types
  PROVE  OnTheWay = Carried(outgoing) /\ (Outbox => SentIsOnItsWay)
<1>1. outgoing \in Seq(Outbound) /\ DOMAIN outgoing = 1 .. Len(outgoing)
  BY DEF Types
<1>2. \A i \in 1 .. Len(outgoing) : outgoing[i] \in Outbound
  BY <1>1
<1>3. ASSUME NEW b \in OnTheWay PROVE b \in Carried(outgoing)
  <2>1. PICK i \in 1 .. Len(outgoing) : outgoing[i].kind = "blob" /\ b = outgoing[i].blob
    BY <1>1, <1>3 DEF OnTheWay
  <2>2. b \in Blobs /\ outgoing[i] = Blob(b)
    BY <1>2, <2>1, Outbounds
  <2> QED
    BY <2>2 DEF Carried
<1>4. ASSUME NEW b \in Carried(outgoing) PROVE b \in OnTheWay
  <2>1. PICK i \in 1 .. Len(outgoing) : outgoing[i] = Blob(b)
    BY <1>4 DEF Carried
  <2>2. outgoing[i].kind = "blob" /\ outgoing[i].blob = b
    BY <2>1 DEF Blob
  <2> QED
    BY <1>1, <2>2 DEF OnTheWay
<1>5. OnTheWay = Carried(outgoing)
  BY <1>3, <1>4
<1>6. Distinct(outgoing) => \A i, j \in DOMAIN outgoing : outgoing[i] = outgoing[j] => i = j
  BY <1>1 DEF Distinct
<1> QED
  BY <1>5, <1>6 DEF Outbox, SentIsOnItsWay, Sent

(* A new message at the end of the queue.                                  *)
LEMMA AppendOut ==
  ASSUME NEW s \in Seq(Outbound), NEW m \in Outbound, Distinct(s),
         \A i \in 1 .. Len(s) : s[i] # m
  PROVE  /\ Distinct(Append(s, m))
         /\ Carried(Append(s, m)) = Carried(s) \union {b \in Blobs : m = Blob(b)}
         /\ \A i \in 1 .. Len(Append(s, m)) : Append(s, m)[i] = m \/ \E j \in 1 .. Len(s) : Append(s, m)[i] = s[j]
<1>1. PICK n \in Nat : n = Len(s)
  OBVIOUS
<1>2. PICK t : t = Append(s, m)
  OBVIOUS
<1>3. Len(t) = n + 1 /\ t[n + 1] = m /\ \A i \in 1 .. n : t[i] = s[i]
  BY <1>1, <1>2, AppendProperties
<1>4. \A i \in 1 .. n + 1 : i = n + 1 \/ i \in 1 .. n
  BY <1>1
<1>5. Distinct(t)
  BY <1>1, <1>3, <1>4 DEF Distinct
<1>6. Carried(t) = Carried(s) \union {b \in Blobs : m = Blob(b)}
  <2>1. \A i \in 1 .. n : i \in 1 .. n + 1
    BY <1>1
  <2>2. n + 1 \in 1 .. n + 1
    BY <1>1
  <2> QED
    BY <1>1, <1>3, <1>4, <2>1, <2>2 DEF Carried
<1>7. \A i \in 1 .. Len(t) : t[i] = m \/ \E j \in 1 .. Len(s) : t[i] = s[j]
  BY <1>1, <1>3, <1>4
<1> QED
  BY <1>2, <1>5, <1>6, <1>7

(* The first message leaves the queue.                                     *)
LEMMA TailOut ==
  ASSUME NEW s \in Seq(Outbound), s # <<>>, Distinct(s)
  PROVE  /\ Distinct(Tail(s))
         /\ Carried(Tail(s)) = Carried(s) \ {b \in Blobs : Head(s) = Blob(b)}
         /\ \A i \in 1 .. Len(Tail(s)) : \E j \in 2 .. Len(s) : j = i + 1 /\ Tail(s)[i] = s[j]
<1>1. PICK n \in Nat : n = Len(s)
  OBVIOUS
<1>2. PICK t : t = Tail(s)
  OBVIOUS
<1>3. /\ n > 0 /\ Len(t) = n - 1 /\ Head(s) = s[1]
      /\ \A i \in 1 .. n - 1 : t[i] = s[i + 1]
  BY <1>1, <1>2, HeadTailProperties
<1>4. \A i \in 1 .. n - 1 : i + 1 \in 2 .. n /\ i + 1 \in 1 .. n /\ i + 1 # 1
  BY <1>1
<1>5. Distinct(t)
  <2> SUFFICES ASSUME NEW i \in 1 .. n - 1, NEW j \in 1 .. n - 1, t[i] = t[j]
               PROVE  i = j
    BY <1>3 DEF Distinct
  <2>1. s[i + 1] = s[j + 1] /\ i + 1 \in 1 .. n /\ j + 1 \in 1 .. n
    BY <1>3, <1>4
  <2>2. i + 1 = j + 1
    BY <1>1, <2>1 DEF Distinct
  <2> QED
    BY <1>1, <2>2
<1>6. ASSUME NEW b \in Carried(t) PROVE b \in Carried(s) /\ Head(s) # Blob(b)
  <2>1. PICK i \in 1 .. n - 1 : t[i] = Blob(b)
    BY <1>3, <1>6 DEF Carried
  <2>2. s[i + 1] = Blob(b) /\ i + 1 \in 1 .. n /\ i + 1 # 1 /\ 1 \in 1 .. n
    BY <1>1, <1>3, <1>4, <2>1
  <2>3. s[1] # s[i + 1]
    BY <1>1, <2>2 DEF Distinct
  <2> QED
    BY <1>1, <1>3, <1>6, <2>2, <2>3 DEF Carried
<1>7. ASSUME NEW b \in Carried(s), Head(s) # Blob(b) PROVE b \in Carried(t)
  <2>1. PICK i \in 1 .. n : s[i] = Blob(b)
    BY <1>1, <1>7 DEF Carried
  <2>2. i # 1
    BY <1>3, <1>7, <2>1
  <2>3. i - 1 \in 1 .. n - 1 /\ (i - 1) + 1 = i
    BY <1>1, <2>2
  <2>4. t[i - 1] = Blob(b)
    BY <1>3, <2>1, <2>3
  <2> QED
    BY <1>3, <1>7, <2>3, <2>4 DEF Carried
<1>8. Carried(t) \subseteq Blobs /\ Carried(s) \subseteq Blobs
  BY DEF Carried
<1>9. Carried(t) = Carried(s) \ {b \in Blobs : Head(s) = Blob(b)}
  BY <1>6, <1>7, <1>8
<1>10. \A i \in 1 .. Len(t) : \E j \in 2 .. Len(s) : j = i + 1 /\ t[i] = s[j]
  BY <1>1, <1>3, <1>4
<1> QED
  BY <1>2, <1>5, <1>9, <1>10

(* A step of the server that sends nothing, or sends m.                    *)
LEMMA OutboxSend ==
  ASSUME Types, Outbox, NEW m \in Outbound,
         \/ outgoing' = outgoing /\ Sent' = Sent
         \/ /\ outgoing' = Append(outgoing, m)
            /\ \A i \in 1 .. Len(outgoing) : outgoing[i] # m
            /\ Sent' = Sent \union {b \in Blobs : m = Blob(b)}
            /\ m = Text("start") => phase' = "running" /\ proc' # "responding"
            /\ m = Text("complete") => completer' = "announced"
            /\ m = Text("join") => joined' /\ ~answering'
            /\ \A b \in Blobs : m = Blob(b) => stage[b] # "sent",
         \/ UNCHANGED <<joined, answering>>
         \/ /\ \A i \in 1 .. Len(outgoing) : outgoing[i] # Text("join")
            /\ answering' => joined',
         arrived' = arrived,
         phase = "running" => phase' = "running",
         completer = "announced" => completer' = "announced",
         proc' = "responding" =>
           /\ phase' = "running"
           /\ \A i \in 1 .. Len(outgoing) : outgoing[i] # Text("start")
  PROVE  Outbox'
<1>1. /\ Carried(outgoing)' = Carried(outgoing') /\ Distinct(outgoing)' = Distinct(outgoing')
      /\ Text("start")' = Text("start") /\ Text("complete")' = Text("complete")
      /\ Text("join")' = Text("join")
  BY DEF Carried, Distinct, Blob, Text, Blobs, Pool!Blobs, Idle, Pool!Idle
<1>2. CASE outgoing' = outgoing /\ Sent' = Sent
  <2>1. ASSUME NEW i \in 1 .. Len(outgoing)
        PROVE  /\ outgoing[i] = Text("start") => phase' = "running" /\ proc' # "responding"
               /\ outgoing[i] = Text("complete") => completer' = "announced"
               /\ outgoing[i] = Text("join") => joined' /\ ~answering'
    BY <2>1 DEF Outbox
  <2> QED
    BY <1>1, <1>2, <2>1 DEF Outbox
<1>3. CASE outgoing' # outgoing \/ Sent' # Sent
  <2>1. outgoing \in Seq(Outbound) /\ Distinct(outgoing)
    BY DEF Types, Outbox
  <2>2. PICK t : t = outgoing'
    OBVIOUS
  <2>3. /\ Distinct(t)
        /\ Carried(t) = Carried(outgoing) \union {b \in Blobs : m = Blob(b)}
        /\ \A i \in 1 .. Len(t) : t[i] = m \/ \E j \in 1 .. Len(outgoing) : t[i] = outgoing[j]
    <3>1. t = Append(outgoing, m) /\ \A i \in 1 .. Len(outgoing) : outgoing[i] # m
      BY <1>3, <2>2
    <3> QED
      BY <2>1, <3>1, AppendOut
  <2>4. ASSUME NEW i \in 1 .. Len(t)
        PROVE  /\ t[i] = Text("start") => phase' = "running" /\ proc' # "responding"
               /\ t[i] = Text("complete") => completer' = "announced"
               /\ t[i] = Text("join") => joined' /\ ~answering'
    <3>1. CASE t[i] = m
      BY <1>3, <3>1
    <3>2. CASE \E j \in 1 .. Len(outgoing) : t[i] = outgoing[j]
      BY <3>2 DEF Outbox
    <3> QED
      BY <2>3, <3>1, <3>2
  <2>5. arrived \intersect {b \in Blobs : m = Blob(b)} = {}
    BY <1>3 DEF Outbox, Sent
  <2>6. Sent' = arrived' \union Carried(t) /\ arrived' \intersect Carried(t) = {}
    BY <1>3, <2>3, <2>5 DEF Outbox
  <2> QED
    BY <1>1, <2>2, <2>3, <2>4, <2>6 DEF Outbox
<1> QED
  BY <1>2, <1>3

(* The destination's app takes the first message.                          *)
LEMMA OutboxReceive ==
  ASSUME Types, Outbox, AppReceives
  PROVE  Outbox'
<1>1. /\ outgoing \in Seq(Outbound) /\ outgoing # <<>> /\ Distinct(outgoing)
      /\ outgoing' = Tail(outgoing)
      /\ UNCHANGED <<stage, phase, proc, completer, joined, answering>>
      /\ arrived' = IF Head(outgoing).kind = "blob" THEN arrived \union {Head(outgoing).blob} ELSE arrived
  BY DEF AppReceives, Types, Outbox, poolVars, connVars
<1>2. PICK t : t = outgoing'
  OBVIOUS
<1>3. PICK m \in Outbound : m = Head(outgoing)
  BY <1>1
<1>4. /\ Distinct(t)
      /\ Carried(t) = Carried(outgoing) \ {b \in Blobs : m = Blob(b)}
      /\ \A i \in 1 .. Len(t) : \E j \in 2 .. Len(outgoing) : t[i] = outgoing[j]
  BY <1>1, <1>2, <1>3, TailOut
<1>5. {b \in Blobs : m = Blob(b)} = IF m.kind = "blob" THEN {m.blob} ELSE {}
  BY Outbounds DEF Blob
<1>6. arrived' = arrived \union {b \in Blobs : m = Blob(b)}
  BY <1>1, <1>3, <1>5
<1>7. {b \in Blobs : m = Blob(b)} \subseteq Carried(outgoing)
  <2>1. 1 \in 1 .. Len(outgoing) /\ outgoing[1] = m
    BY <1>1, <1>3, HeadTailProperties
  <2> QED
    BY <2>1 DEF Carried
<1>8. Sent' = arrived' \union Carried(t) /\ arrived' \intersect Carried(t) = {}
  <2>1. Sent' = Sent
    BY <1>1 DEF Sent, Blobs, Pool!Blobs
  <2> QED
    BY <1>4, <1>6, <1>7, <2>1 DEF Outbox
<1>9. ASSUME NEW i \in 1 .. Len(t)
      PROVE  /\ t[i] = Text("start") => phase' = "running" /\ proc' # "responding"
             /\ t[i] = Text("complete") => completer' = "announced"
             /\ t[i] = Text("join") => joined' /\ ~answering'
  <2>1. PICK j \in 2 .. Len(outgoing) : t[i] = outgoing[j]
    BY <1>4
  <2>2. j \in 1 .. Len(outgoing)
    BY <1>1
  <2> QED
    BY <1>1, <2>1, <2>2 DEF Outbox
<1>10. /\ Carried(outgoing)' = Carried(outgoing') /\ Distinct(outgoing)' = Distinct(outgoing')
       /\ Text("start")' = Text("start") /\ Text("complete")' = Text("complete")
       /\ Text("join")' = Text("join")
  BY DEF Carried, Distinct, Blob, Text, Blobs, Pool!Blobs, Idle, Pool!Idle
<1> QED
  BY <1>1, <1>2, <1>4, <1>8, <1>9, <1>10 DEF Outbox

(* Only a delivery changes which chunks count as sent.                     *)
LEMMA SentKept ==
  ASSUME Types, NEW b \in Blobs, NEW x, stage' = [stage EXCEPT ![b] = x],
         stage[b] # "sent"
  PROVE  Sent' = IF x = "sent" THEN Sent \union {b} ELSE Sent
<1>1. stage'[b] = x /\ \A c \in Blobs : c # b => stage'[c] = stage[c]
  BY PoolValues
<1>2. Blobs' = Blobs
  BY DEF Blobs, Pool!Blobs
<1> QED
  BY <1>1, <1>2 DEF Sent

(* Every step keeps the account of what is sent.                           *)
LEMMA OutboxStep ==
  ASSUME Path, Outbox, Next, cut' = cut
  PROVE  Outbox'
<1>1. Types /\ Types' /\ Held
  BY TypesStep DEF Path
<1>2. Text("start") \in Outbound /\ Text("complete") \in Outbound /\ Text("join") \in Outbound
  BY DEF Outbound, Message
<1>3. ASSUME NEW b \in Blobs
      PROVE  /\ Blob(b) \in Outbound /\ Blob(b) # Text("start") /\ Blob(b) # Text("complete")
             /\ Blob(b) # Text("join")
  <2>1. Blob(b) \in Outbound
    BY DEF Outbound, Message
  <2>2. /\ Blob(b).kind = "blob" /\ Text("start").kind = "start"
        /\ Text("complete").kind = "complete" /\ Text("join").kind = "join"
    BY DEF Blob, Text
  <2> QED
    BY <2>1, <2>2
<1>4. stage' = stage => Sent' = Sent
  BY DEF Sent, Blobs, Pool!Blobs
<1>5. CASE Reader
  <2>1. UNCHANGED <<outgoing, arrived, joined, answering, phase, completer, proc>>
    BY <1>5 DEF Reader, ReadText, ReadBlob, Pick, Offer, poolVars, connVars, dstVars,
       Pool!GetWorkerPool, Pool!PickWorker, Pool!Offer
  <2>2. Sent' = Sent
    <3>1. CASE ReadText
      BY <1>4, <3>1 DEF ReadText, poolVars
    <3>2. CASE ReadBlob
      <4>1. PICK b \in Blobs :
              stage[b] = "unread" /\ stage' = [stage EXCEPT ![b] = IF registered THEN "found" ELSE "missed"]
        BY <1>1, <3>2, PathReadBlob
      <4>2. PICK x \in {"found", "missed"} : x = IF registered THEN "found" ELSE "missed"
        OBVIOUS
      <4>3. stage' = [stage EXCEPT ![b] = x] /\ stage[b] # "sent" /\ x # "sent"
        BY <4>1, <4>2
      <4> QED
        BY <1>1, <4>3, SentKept
    <3>3. CASE Pick
      BY <1>1, <3>3, PathPick, SentKept
    <3>4. CASE Offer
      <4>1. PICK b \in Blobs, x \in {"queued", "dropped"} :
              stage[b] = "picked" /\ stage' = [stage EXCEPT ![b] = x]
        BY <1>1, <3>4, PathOffer
      <4> QED
        BY <1>1, <4>1, SentKept
    <3> QED
      BY <1>5, <3>1, <3>2, <3>3, <3>4 DEF Reader
  <2>3. proc' = "responding" => \A i \in 1 .. Len(outgoing) : outgoing[i] # Text("start")
    BY <2>1 DEF Outbox
  <2>4. proc' = "responding" => phase' = "running"
    BY <2>1 DEF Outbox
  <2> QED
    BY <1>1, <1>2, <2>1, <2>2, <2>3, <2>4, OutboxSend
<1>6. CASE Processor
  <2>1. stage' = stage /\ Sent' = Sent /\ UNCHANGED <<arrived, joined, answering>>
    BY <1>1, <1>4, <1>6, PathProcessor
    DEF Processor, TakeStart, AddPool, StartPool, RespondStart, TakeComplete, dstVars
  <2>2. CASE RespondStart
    <3>1. /\ proc = "responding" /\ proc' = "idle" /\ UNCHANGED <<phase, completer>>
          /\ SendToDst(Text("start"))
      BY <2>2 DEF RespondStart, poolVars
    <3>2. phase = "running" /\ \A i \in 1 .. Len(outgoing) : outgoing[i] # Text("start")
      BY <3>1 DEF Outbox
    <3>3. /\ Text("start") # Text("complete") /\ Text("start") # Text("join")
          /\ {b \in Blobs : Text("start") = Blob(b)} = {}
      BY <1>3 DEF Text
    <3>4. outgoing' = outgoing \/ outgoing' = Append(outgoing, Text("start"))
      BY <3>1 DEF SendToDst
    <3> QED
      BY <1>1, <1>2, <1>3, <2>1, <3>1, <3>2, <3>3, <3>4, OutboxSend
  <2>3. CASE TakeStart \/ AddPool \/ StartPool \/ TakeComplete
    <3>1. /\ outgoing' = outgoing
          /\ phase = "running" => phase' = "running"
          /\ completer = "announced" => completer' = "announced"
      BY <2>3 DEF TakeStart, AddPool, StartPool, TakeComplete, dstVars, poolVars,
         Pool!AddWorkerPool, Pool!Start, Pool!UploadComplete
    <3>2. ASSUME proc' = "responding"
          PROVE  phase' = "running" /\ \A i \in 1 .. Len(outgoing) : outgoing[i] # Text("start")
      <4>1. StartPool
        BY <2>3, <3>2 DEF TakeStart, AddPool, StartPool, TakeComplete
      <4> QED
        BY <4>1 DEF StartPool, Pool!Start, Outbox
    <3> QED
      BY <1>1, <1>2, <2>1, <3>1, <3>2, OutboxSend
  <2> QED
    BY <1>6, <2>2, <2>3 DEF Processor
<1>7. ASSUME NEW v \in Pool!Workers, Worker(v)
      PROVE  Outbox'
  <2>1. UNCHANGED <<arrived, joined, answering, phase, completer, proc>>
    BY <1>7 DEF Worker, Deliver, connVars, dstVars, Pool!Finish, Pool!Take, Pool!Exit
  <2>2. proc' = "responding" =>
          phase' = "running" /\ \A i \in 1 .. Len(outgoing) : outgoing[i] # Text("start")
    BY <2>1 DEF Outbox
  <2>3. CASE Deliver(v)
    <3>1. PICK x \in {"sent", "lost"} : x = IF Room THEN "sent" ELSE "lost"
      OBVIOUS
    <3>2. Pool!Finish(v, x)
      BY <2>3, <3>1 DEF Deliver
    <3>3. PICK b : b = job[v]
      OBVIOUS
    <3>4. b \in Blobs /\ stage[b] = "busy" /\ stage' = [stage EXCEPT ![b] = x]
      BY <1>1, <3>2, <3>3, HeldFinish
    <3>5. Sent' = IF x = "sent" THEN Sent \union {b} ELSE Sent
      BY <1>1, <3>4, SentKept
    <3>6. outgoing' = IF Room THEN Append(outgoing, Blob(b)) ELSE outgoing
      BY <2>3, <3>3 DEF Deliver, SendToDst
    <3>7. {c \in Blobs : Blob(b) = Blob(c)} = {b}
      BY <3>4 DEF Blob
    <3>8. \A i \in 1 .. Len(outgoing) : outgoing[i] # Blob(b)
      BY <3>4 DEF Outbox, Carried, Sent
    <3>9. \A c \in Blobs : Blob(b) = Blob(c) => stage[c] # "sent"
      BY <3>4 DEF Blob
    <3>10. /\ Blob(b) \in Outbound /\ Blob(b) # Text("start") /\ Blob(b) # Text("complete")
           /\ Blob(b) # Text("join")
      BY <1>3, <3>4
    <3>11. \/ outgoing' = outgoing /\ Sent' = Sent
           \/ /\ outgoing' = Append(outgoing, Blob(b))
              /\ Sent' = Sent \union {c \in Blobs : Blob(b) = Blob(c)}
      BY <3>1, <3>5, <3>6, <3>7
    <3> QED
      BY <1>1, <2>1, <2>2, <3>8, <3>9, <3>10, <3>11, OutboxSend
  <2>4. CASE (Pool!Take(v) \/ Pool!Exit(v)) /\ UNCHANGED <<connVars, dstVars>>
    <3>1. Sent' = Sent
      <4>1. CASE Pool!Take(v)
        <5>1. PICK b \in Blobs : stage[b] = "queued" /\ stage' = [stage EXCEPT ![b] = "busy"]
          BY <1>1, <4>1, HeldTake
        <5>2. PICK x : x = "busy"
          OBVIOUS
        <5>3. stage' = [stage EXCEPT ![b] = x] /\ stage[b] # "sent" /\ x # "sent"
          BY <5>1, <5>2
        <5> QED
          BY <1>1, <5>3, SentKept
      <4>2. CASE Pool!Exit(v)
        BY <1>4, <4>2 DEF Pool!Exit
      <4> QED
        BY <2>4, <4>1, <4>2
    <3>2. outgoing' = outgoing
      BY <2>4 DEF dstVars
    <3> QED
      BY <1>1, <1>2, <2>1, <2>2, <3>1, <3>2, OutboxSend
  <2> QED
    BY <1>7, <2>3, <2>4 DEF Worker
<1>8. CASE Completer
  <2>1. UNCHANGED <<phase, proc, arrived, joined, answering, stage>> /\ Sent' = Sent
    BY <1>1, <1>4, <1>8 DEF Completer, Announce, connVars, dstVars, Pool!WaitForAllChunks,
       Pool!CloseQueues, Pool!DeleteWorkerPool, Pool!BroadcastComplete
  <2>2. proc' = "responding" =>
          phase' = "running" /\ \A i \in 1 .. Len(outgoing) : outgoing[i] # Text("start")
    BY <2>1 DEF Outbox
  <2>3. CASE Announce
    <3>1. completer = "broadcasting" /\ completer' = "announced" /\ SendToDst(Text("complete"))
      BY <1>1, <2>3, StaysUp DEF Announce, Pool!BroadcastComplete, Types, TypeOK
    <3>2. \A i \in 1 .. Len(outgoing) : outgoing[i] # Text("complete")
      BY <3>1 DEF Outbox
    <3>3. /\ Text("start") # Text("complete") /\ Text("complete") # Text("join")
          /\ {b \in Blobs : Text("complete") = Blob(b)} = {}
      BY <1>3 DEF Text
    <3>4. outgoing' = outgoing \/ outgoing' = Append(outgoing, Text("complete"))
      BY <3>1 DEF SendToDst
    <3> QED
      BY <1>1, <1>2, <1>3, <2>1, <2>2, <3>1, <3>2, <3>3, <3>4, OutboxSend
  <2>4. CASE /\ Pool!WaitForAllChunks \/ Pool!CloseQueues \/ Pool!DeleteWorkerPool
             /\ UNCHANGED <<connVars, dstVars>>
    <3>1. outgoing' = outgoing /\ completer # "announced"
      BY <2>4 DEF dstVars, Pool!WaitForAllChunks, Pool!CloseQueues, Pool!DeleteWorkerPool
    <3> QED
      BY <1>1, <1>2, <2>1, <2>2, <3>1, OutboxSend
  <2> QED
    BY <1>8, <2>3, <2>4 DEF Completer
<1>9. CASE DstJoins
  <2>1. UNCHANGED <<outgoing, arrived, stage, phase, completer, proc>> /\ Sent' = Sent
    BY <1>4, <1>9 DEF DstJoins, poolVars, connVars
  <2>2. proc' = "responding" =>
          phase' = "running" /\ \A i \in 1 .. Len(outgoing) : outgoing[i] # Text("start")
    BY <2>1 DEF Outbox
  <2>3. joined' /\ \A i \in 1 .. Len(outgoing) : outgoing[i] # Text("join")
    BY <1>9 DEF DstJoins, Outbox
  <2> QED
    BY <1>1, <1>2, <2>1, <2>2, <2>3, OutboxSend
<1>10. CASE AnswerJoin
  <2>1. /\ UNCHANGED <<arrived, joined, stage, phase, completer, proc>> /\ Sent' = Sent
        /\ answering /\ ~answering' /\ SendToDst(Text("join"))
    BY <1>4, <1>10 DEF AnswerJoin, poolVars, connVars
  <2>2. proc' = "responding" =>
          phase' = "running" /\ \A i \in 1 .. Len(outgoing) : outgoing[i] # Text("start")
    BY <2>1 DEF Outbox
  <2>3. joined /\ \A i \in 1 .. Len(outgoing) : outgoing[i] # Text("join")
    BY <2>1 DEF Outbox
  <2>4. /\ Text("join") # Text("start") /\ Text("join") # Text("complete")
        /\ {b \in Blobs : Text("join") = Blob(b)} = {}
    BY <1>3 DEF Text
  <2>5. outgoing' = outgoing \/ outgoing' = Append(outgoing, Text("join"))
    BY <2>1 DEF SendToDst
  <2> QED
    BY <1>1, <1>2, <1>3, <2>1, <2>2, <2>3, <2>4, <2>5, OutboxSend
<1>11. CASE AppReceives
  BY <1>1, <1>11, OutboxReceive
<1> QED
  BY <1>5, <1>6, <1>7, <1>8, <1>9, <1>10, <1>11 DEF Next

--------------------------------------------------------------------------------
(* The count of the WaitGroup, and what is left when it is down to zero.   *)

Past   == {"closing", "deleting", "broadcasting", "announced"}
Honest == Cardinality(Pool!Received) <= TotalChunks

\* Behind the completion there can only be the answer to a join.
OnlyJoins(s)          == \A i \in 1 .. Len(s) : s[i] = Text("join")
JoinsAfterComplete(s) ==
  \A i, j \in 1 .. Len(s) : s[i] = Text("complete") /\ i < j => s[j] = Text("join")

Finale ==
  /\ phase # "none" => wg = TotalChunks - Cardinality(Pool!Handled)
  /\ completer \notin {"none", "refused"} => phase # "none"
  /\ told => completer = "announced"
  /\ Honest =>
       /\ completer \in Past =>
            \A b \in Blobs : stage[b] \notin {"found", "picked", "queued", "busy"}
       /\ JoinsAfterComplete(outgoing)
       /\ told => OnlyJoins(outgoing) /\ ~open

(* What is handled or received can be counted.                             *)
LEMMA Countable ==
  /\ IsFiniteSet(Pool!Handled) /\ IsFiniteSet(Pool!Received)
  /\ Pool!Handled \subseteq Pool!Received
  /\ Cardinality(Pool!Handled) \in Nat /\ Cardinality(Pool!Received) \in Nat
<1>1. IsFiniteSet(Blobs)
  BY Numbers, UploadAssumption, FS_Interval
<1>2. Pool!Handled \subseteq Blobs /\ Pool!Received \subseteq Blobs
  BY Numbers DEF Pool!Handled, Pool!Received
<1>3. IsFiniteSet(Pool!Handled) /\ IsFiniteSet(Pool!Received)
  BY <1>1, <1>2, FS_Subset
<1> QED
  BY <1>3, FS_CardinalityType DEF Pool!Handled, Pool!Received

(* What one step does to a chunk, and with it to the count: nothing, or     *)
(* only the pool's start; a chunk moves on; a worker is through with it.    *)
StageSame == /\ stage' = stage
             /\ \/ wg' = wg /\ (phase = "none" <=> phase' = "none")
                \/ phase = "none" /\ wg' = TotalChunks /\ phase' = "added" /\ completer' = completer

StageMoves(b, x) == /\ stage' = [stage EXCEPT ![b] = x] /\ UNCHANGED <<wg, phase, completer>>
                    /\ stage[b] \in {"unread", "found", "picked", "queued"}
                    /\ stage[b] = "unread" => completer = "none"

StageEnds(b, x) == /\ stage' = [stage EXCEPT ![b] = x] /\ wg' = wg - 1
                   /\ UNCHANGED <<phase, completer>> /\ stage[b] = "busy"

Moved == {"found", "missed", "picked", "queued", "dropped", "busy"}

(* Every step is one of these.                                            *)
LEMMA StageStep ==
  ASSUME Path, Next, cut' = cut
  PROVE  \/ StageSame
         \/ \E b \in Blobs, x \in Moved : StageMoves(b, x)
         \/ \E b \in Blobs, x \in {"sent", "lost"} : StageEnds(b, x)
<1>1. Types /\ Types' /\ Held
  BY TypesStep DEF Path
<1>2. CASE ReadText
  BY <1>2 DEF ReadText, poolVars, StageSame
<1>3. CASE ReadBlob
  <2>1. PICK b \in Blobs :
          /\ stage[b] = "unread" /\ completer = "none"
          /\ stage' = [stage EXCEPT ![b] = IF registered THEN "found" ELSE "missed"]
    BY <1>1, <1>3, PathReadBlob
  <2>2. PICK x \in Moved : x = IF registered THEN "found" ELSE "missed"
    BY DEF Moved
  <2>3. UNCHANGED <<wg, phase, completer>>
    BY <1>3 DEF ReadBlob, Pool!GetWorkerPool
  <2>4. StageMoves(b, x)
    BY <2>1, <2>2, <2>3 DEF StageMoves
  <2> QED
    BY <2>4
<1>4. CASE Pick
  <2>1. inHand \in Blobs /\ stage[inHand] = "found" /\ stage' = [stage EXCEPT ![inHand] = "picked"]
    BY <1>1, <1>4, PathPick
  <2>2. UNCHANGED <<wg, phase, completer>>
    BY <1>4 DEF Pick, Pool!PickWorker
  <2>3. StageMoves(inHand, "picked") /\ "picked" \in Moved
    BY <2>1, <2>2 DEF StageMoves, Moved
  <2> QED
    BY <2>1, <2>3
<1>5. CASE Offer
  <2>1. PICK b \in Blobs, x \in {"queued", "dropped"} :
           stage[b] = "picked" /\ stage' = [stage EXCEPT ![b] = x]
    BY <1>1, <1>5, PathOffer
  <2>2. UNCHANGED <<wg, phase, completer>>
    BY <1>5 DEF Offer, Pool!Offer, Pool!OfferOpen, Pool!OfferClosed, Pool!Enqueue, Pool!Drop
  <2>3. StageMoves(b, x) /\ x \in Moved
    BY <2>1, <2>2 DEF StageMoves, Moved
  <2> QED
    BY <2>3
<1>6. CASE Processor
  <2>1. stage' = stage
    BY <1>1, <1>6, PathProcessor
  <2> QED
    BY <1>6, <2>1 DEF StageSame, Processor, TakeStart, AddPool, StartPool, RespondStart, TakeComplete,
       poolVars, Pool!AddWorkerPool, Pool!Start, Pool!UploadComplete
<1>7. ASSUME NEW v \in Pool!Workers, Worker(v)
      PROVE  \/ StageSame
             \/ \E b \in Blobs, x \in Moved : StageMoves(b, x)
             \/ \E b \in Blobs, x \in {"sent", "lost"} : StageEnds(b, x)
  <2>1. CASE Deliver(v)
    <3>1. PICK x \in {"sent", "lost"} : Pool!Finish(v, x)
      BY <2>1 DEF Deliver
    <3>2. job[v] \in Blobs /\ stage[job[v]] = "busy" /\ stage' = [stage EXCEPT ![job[v]] = x]
      BY <1>1, <3>1, HeldFinish
    <3>3. wg' = wg - 1 /\ UNCHANGED <<phase, completer>>
      BY <3>1 DEF Pool!Finish, Pool!Done
    <3>4. StageEnds(job[v], x)
      BY <3>2, <3>3 DEF StageEnds
    <3> QED
      BY <3>2, <3>4
  <2>2. CASE Pool!Take(v)
    <3>1. PICK b \in Blobs : stage[b] = "queued" /\ stage' = [stage EXCEPT ![b] = "busy"]
      BY <1>1, <2>2, HeldTake
    <3>2. UNCHANGED <<wg, phase, completer>>
      BY <2>2 DEF Pool!Take
    <3>3. StageMoves(b, "busy") /\ "busy" \in Moved
      BY <3>1, <3>2 DEF StageMoves, Moved
    <3> QED
      BY <3>3
  <2>3. CASE Pool!Exit(v)
    BY <2>3 DEF Pool!Exit, StageSame
  <2> QED
    BY <1>7, <2>1, <2>2, <2>3 DEF Worker
<1>8. CASE Completer
  BY <1>8 DEF Completer, Announce, Pool!WaitForAllChunks, Pool!CloseQueues, Pool!DeleteWorkerPool,
     Pool!BroadcastComplete, StageSame
<1>9. CASE DstJoins \/ AnswerJoin \/ AppReceives
  BY <1>9 DEF DstJoins, AnswerJoin, AppReceives, poolVars, StageSame
<1> QED
  BY <1>2, <1>3, <1>4, <1>5, <1>6, <1>7, <1>8, <1>9 DEF Next, Reader

(* A chunk that has been read stays read; the count follows the chunks.    *)
LEMMA CountStep ==
  ASSUME Path, Finale, Next, cut' = cut
  PROVE  /\ Honest' => Honest
         /\ phase' # "none" => wg' = TotalChunks - Cardinality(Pool!Handled')
         /\ completer' \notin {"none", "refused"} => phase' # "none"
<1>1. Types /\ Life
  BY DEF Path
<1>2. Pool!Blobs' = Blobs /\ Pool!Blobs = Blobs
  BY Numbers DEF Pool!Blobs
<1>3. \/ StageSame
      \/ \E b \in Blobs, x \in Moved : StageMoves(b, x)
      \/ \E b \in Blobs, x \in {"sent", "lost"} : StageEnds(b, x)
  BY StageStep
<1>4. ASSUME NEW b \in Blobs, NEW x, stage' = [stage EXCEPT ![b] = x]
      PROVE  stage'[b] = x /\ \A c \in Blobs : c # b => stage'[c] = stage[c]
  BY <1>1, <1>4, PoolValues
<1>5. (Cardinality(Pool!Received') \in Nat /\ IsFiniteSet(Pool!Received'))
  <2>1. Pool!Received' \subseteq Blobs
    BY <1>2 DEF Pool!Received
  <2>2. IsFiniteSet(Blobs)
    BY Numbers, UploadAssumption, FS_Interval
  <2> QED
    BY <2>1, <2>2, FS_Subset, FS_CardinalityType
<1>6. Pool!Received \subseteq Pool!Received'
  <2>1. CASE stage' = stage
    BY <1>2, <2>1 DEF Pool!Received
  <2>2. ASSUME NEW b \in Blobs, NEW x \in Moved \union {"sent", "lost"}, stage' = [stage EXCEPT ![b] = x]
        PROVE  Pool!Received \subseteq Pool!Received'
    <3>1. x # "unread"
      BY <2>2 DEF Moved
    <3>2. stage'[b] = x /\ \A c \in Blobs : c # b => stage'[c] = stage[c]
      BY <1>4, <2>2
    <3> QED
      BY <1>2, <3>1, <3>2 DEF Pool!Received
  <2> QED
    BY <1>3, <2>1, <2>2 DEF StageSame, StageMoves, StageEnds
<1>7. Honest' => Honest
  <2>1. Cardinality(Pool!Received) <= Cardinality(Pool!Received')
    BY <1>5, <1>6, FS_Subset
  <2> QED
    BY <1>5, <2>1, Countable, UploadAssumption DEF Honest
<1>8. phase' # "none" => wg' = TotalChunks - Cardinality(Pool!Handled')
  <2>1. CASE StageSame
    <3>1. Pool!Handled' = Pool!Handled
      BY <1>2, <2>1 DEF StageSame, Pool!Handled
    <3>2. CASE wg' = wg /\ (phase = "none" <=> phase' = "none")
      BY <3>1, <3>2 DEF Finale
    <3>3. CASE phase = "none" /\ wg' = TotalChunks
      <4>1. Pool!Handled = {}
        BY <1>1, <1>2, <3>3 DEF Life, Pool!Handled
      <4> QED
        BY <3>1, <3>3, <4>1, FS_EmptySet, UploadAssumption
    <3> QED
      BY <2>1, <3>2, <3>3 DEF StageSame
  <2>2. ASSUME NEW b \in Blobs, NEW x \in Moved, StageMoves(b, x)
        PROVE  phase' # "none" => wg' = TotalChunks - Cardinality(Pool!Handled')
    <3>1. stage'[b] = x /\ \A c \in Blobs : c # b => stage'[c] = stage[c]
      BY <1>4, <2>2 DEF StageMoves
    <3>2. x \notin {"sent", "lost"} /\ stage[b] \notin {"sent", "lost"}
      BY <2>2 DEF Moved, StageMoves
    <3>3. Pool!Handled' = Pool!Handled
      BY <1>2, <3>1, <3>2 DEF Pool!Handled
    <3> QED
      BY <2>2, <3>3 DEF StageMoves, Finale
  <2>3. ASSUME NEW b \in Blobs, NEW x \in {"sent", "lost"}, StageEnds(b, x)
        PROVE  phase' # "none" => wg' = TotalChunks - Cardinality(Pool!Handled')
    <3>1. stage'[b] = x /\ \A c \in Blobs : c # b => stage'[c] = stage[c]
      BY <1>4, <2>3 DEF StageEnds
    <3>2. Pool!Handled' = Pool!Handled \union {b} /\ b \notin Pool!Handled
      BY <1>2, <2>3, <3>1 DEF Pool!Handled, StageEnds
    <3>3. Cardinality(Pool!Handled') = Cardinality(Pool!Handled) + 1
      BY <3>2, Countable, FS_AddElement
    <3>4. wg' = wg - 1 /\ phase' = phase
      BY <2>3 DEF StageEnds
    <3> QED
      BY <3>3, <3>4, Countable, UploadAssumption DEF Finale
  <2> QED
    BY <1>3, <2>1, <2>2, <2>3
<1>9. completer' \notin {"none", "refused"} => phase' # "none"
  <2>1. phase # "none" => phase' # "none"
    BY <1>3 DEF StageSame, StageMoves, StageEnds
  <2>2. completer' = completer \/ completer \notin {"none", "refused"} \/ TakeComplete
    <3>1. CASE Processor
      BY <3>1 DEF Processor, TakeStart, AddPool, StartPool, RespondStart, poolVars,
         Pool!AddWorkerPool, Pool!Start
    <3>2. CASE Completer
      BY <3>2 DEF Completer, Announce, Pool!WaitForAllChunks, Pool!CloseQueues,
         Pool!DeleteWorkerPool, Pool!BroadcastComplete
    <3>3. CASE Reader \/ DstJoins \/ AnswerJoin \/ AppReceives \/ \E v \in Pool!Workers : Worker(v)
      BY <3>3 DEF Reader, ReadText, ReadBlob, Pick, Offer, DstJoins, AnswerJoin, AppReceives, Worker,
         Deliver, poolVars, Pool!GetWorkerPool, Pool!PickWorker, Pool!Offer, Pool!Finish, Pool!Take, Pool!Exit
    <3> QED
      BY <3>1, <3>2, <3>3 DEF Next
  <2>3. CASE TakeComplete
    BY <1>1, <2>3 DEF TakeComplete, Pool!UploadComplete, Life
  <2> QED
    BY <2>1, <2>2, <2>3 DEF Finale
<1> QED
  BY <1>7, <1>8, <1>9

Settled == \A b \in Blobs : stage[b] \notin {"found", "picked", "queued", "busy"}

(* The wait is over when every chunk that was read has been handled.       *)
LEMMA SettledStep ==
  ASSUME Path, Finale, Honest, Next, cut' = cut, completer' \in Past
  PROVE  Settled'
<1>1. Types /\ Types' /\ Ends
  BY TypesStep DEF Path
<1>2. Blobs' = Blobs
  BY DEF Blobs, Pool!Blobs
<1>3. CASE completer \in Past
  <2>1. Settled
    BY <1>3 DEF Finale, Settled
  <2>2. stage' = stage
    <3>1. ASSUME NEW b \in Blobs, NEW x \in Moved, StageMoves(b, x) PROVE FALSE
      BY <1>3, <2>1, <3>1 DEF StageMoves, Settled, Past
    <3>2. ASSUME NEW b \in Blobs, NEW x \in {"sent", "lost"}, StageEnds(b, x) PROVE FALSE
      BY <2>1, <3>2 DEF StageEnds, Settled
    <3> QED
      BY <3>1, <3>2, StageStep DEF StageSame
  <2> QED
    BY <1>2, <2>1, <2>2 DEF Settled
<1>4. CASE completer \notin Past
  <2>1. completer' # completer
    BY <1>4
  <2>2. Pool!WaitForAllChunks
    <3>1. CASE Processor
      BY <2>1, <3>1 DEF Processor, TakeStart, AddPool, StartPool, RespondStart, TakeComplete, poolVars,
         Pool!AddWorkerPool, Pool!Start, Pool!UploadComplete, Past
    <3>2. CASE Completer
      BY <1>4, <3>2 DEF Completer, Announce, Pool!CloseQueues, Pool!DeleteWorkerPool,
         Pool!BroadcastComplete, Past
    <3>3. CASE Reader \/ DstJoins \/ AnswerJoin \/ AppReceives \/ \E v \in Pool!Workers : Worker(v)
      BY <2>1, <3>3 DEF Reader, ReadText, ReadBlob, Pick, Offer, DstJoins, AnswerJoin, AppReceives, Worker,
         Deliver, poolVars, Pool!GetWorkerPool, Pool!PickWorker, Pool!Offer, Pool!Finish, Pool!Take, Pool!Exit
    <3> QED
      BY <3>1, <3>2, <3>3 DEF Next
  <2>3. completer = "waiting" /\ wg = 0 /\ stage' = stage
    BY <2>2 DEF Pool!WaitForAllChunks, Pool!WaitOver
  <2>4. Cardinality(Pool!Handled) = TotalChunks
    BY <2>3, Countable, UploadAssumption DEF Finale
  <2>5. Pool!Handled = Pool!Received
    <3>1. Cardinality(Pool!Handled) <= Cardinality(Pool!Received)
      BY Countable, FS_Subset
    <3>2. Cardinality(Pool!Handled) = Cardinality(Pool!Received)
      BY <2>4, <3>1, Countable, UploadAssumption DEF Honest
    <3> QED
      BY <3>2, Countable, FS_Subset
  <2>6. Settled
    BY <2>5, Numbers DEF Settled, Pool!Handled, Pool!Received
  <2> QED
    BY <1>2, <2>3, <2>6 DEF Settled
<1> QED
  BY <1>3, <1>4

(* Once the upload is announced and every chunk handled, nothing is sent   *)
(* but the answer to a join.                                               *)
LEMMA QuietAfterAnnounce ==
  ASSUME Path, Next, completer = "announced", Settled, ~AppReceives, ~AnswerJoin
  PROVE  UNCHANGED <<outgoing, told, open, completer>>
<1>1. Types /\ Ends /\ Held
  BY DEF Path
<1>2. proc = "idle" /\ inHand = Idle /\ wire = <<>> /\ incoming = <<>>
  BY <1>1 DEF Ends
<1>3. ~Reader /\ ~Processor
  BY <1>2, Numbers DEF Reader, ReadText, ReadBlob, Pick, Offer, Processor, TakeStart, AddPool, StartPool,
     RespondStart, TakeComplete
<1>4. ASSUME NEW v \in Pool!Workers, Worker(v)
      PROVE  UNCHANGED <<outgoing, told, open, completer>>
  <2>1. ~Deliver(v)
    <3>1. ASSUME Deliver(v) PROVE FALSE
      <4>1. PICK x \in {"sent", "lost"} : Pool!Finish(v, x)
        BY <3>1 DEF Deliver
      <4>2. job[v] \in Blobs /\ stage[job[v]] = "busy"
        BY <1>1, <4>1, HeldFinish
      <4> QED
        BY <4>2 DEF Settled
    <3> QED
      BY <3>1
  <2> QED
    BY <1>4, <2>1 DEF Worker, dstVars, Pool!Take, Pool!Exit
<1>5. ~Completer
  BY DEF Completer, Announce, Pool!WaitForAllChunks, Pool!CloseQueues, Pool!DeleteWorkerPool,
     Pool!BroadcastComplete
<1>6. CASE DstJoins
  BY <1>6 DEF DstJoins, poolVars
<1> QED
  BY <1>3, <1>4, <1>5, <1>6 DEF Next

(* Every step keeps the count and the place of the completion.             *)
LEMMA FinaleStep ==
  ASSUME Path, Outbox, Finale, Next, cut' = cut
  PROVE  Finale'
<1>1. Types /\ Types' /\ Ends
  BY TypesStep DEF Path
<1>2. /\ OnlyJoins(outgoing)' = OnlyJoins(outgoing')
      /\ JoinsAfterComplete(outgoing)' = JoinsAfterComplete(outgoing')
      /\ Text("join") # Text("complete")
  BY DEF OnlyJoins, JoinsAfterComplete, Text, Idle, Pool!Idle
<1>3. PICK n \in Nat : n = Len(outgoing)
  BY <1>1 DEF Types
<1>4. outgoing \in Seq(Outbound) /\ outgoing' \in Seq(Outbound)
  BY <1>1 DEF Types
<1>5. completer = "announced" => completer' = "announced"
  BY <1>1 DEF Ends, Next, Reader, ReadText, ReadBlob, Pick, Offer, Processor, TakeStart, AddPool, StartPool,
     RespondStart, TakeComplete, Completer, Announce, DstJoins, AnswerJoin, AppReceives, Worker, Deliver, poolVars,
     Pool!AddWorkerPool, Pool!Start, Pool!UploadComplete, Pool!GetWorkerPool, Pool!PickWorker, Pool!Offer,
     Pool!Finish, Pool!Take, Pool!Exit, Pool!WaitForAllChunks, Pool!CloseQueues, Pool!DeleteWorkerPool,
     Pool!BroadcastComplete
<1>6. CASE AppReceives
  <2>1. PICK m \in Outbound : m = Head(outgoing)
    BY <1>4, <1>6 DEF AppReceives
  <2>2. /\ n > 0 /\ outgoing' = Tail(outgoing) /\ completer' = completer
        /\ told' = (told \/ m.kind = "complete") /\ open' = TaskSetAfter(m)
        /\ outgoing[1] = m /\ Len(outgoing') = n - 1
        /\ \A i \in 1 .. n - 1 : outgoing'[i] = outgoing[i + 1]
    BY <1>3, <1>4, <1>6, <2>1, HeadTailProperties DEF AppReceives, poolVars
  <2>3. 1 \in 1 .. n /\ (m.kind = "complete" => outgoing[1] = Text("complete"))
    BY <1>3, <2>1, <2>2, Outbounds
  <2>4. m.kind = "complete" => completer = "announced"
    BY <1>3, <2>3 DEF Outbox
  <2>5. told' => completer' = "announced"
    BY <2>2, <2>4 DEF Finale
  <2>6. ASSUME Honest
        PROVE  /\ JoinsAfterComplete(outgoing')
               /\ told' => OnlyJoins(outgoing') /\ ~open'
    <3>1. JoinsAfterComplete(outgoing) /\ (told => OnlyJoins(outgoing) /\ ~open)
      BY <2>6 DEF Finale
    <3>2. \A i \in 1 .. n - 1 : i + 1 \in 1 .. n /\ i + 1 > 1
      BY <1>3
    <3>3. JoinsAfterComplete(outgoing')
      <4> SUFFICES ASSUME NEW i \in 1 .. n - 1, NEW j \in 1 .. n - 1,
                          outgoing'[i] = Text("complete"), i < j
                   PROVE  outgoing'[j] = Text("join")
        BY <2>2 DEF JoinsAfterComplete
      <4>1. outgoing[i + 1] = Text("complete") /\ i + 1 < j + 1
        BY <2>2
      <4> QED
        BY <1>3, <2>2, <3>1, <3>2, <4>1 DEF JoinsAfterComplete
    <3>4. CASE m.kind = "complete"
      <4>1. outgoing[1] = Text("complete")
        BY <2>3, <3>4
      <4>2. OnlyJoins(outgoing')
        BY <1>3, <2>2, <2>3, <3>1, <3>2, <4>1 DEF OnlyJoins, JoinsAfterComplete
      <4> QED
        BY <2>2, <3>3, <3>4, <4>2 DEF TaskSetAfter
    <3>5. CASE m.kind # "complete" /\ told
      <4>1. m = Text("join") /\ OnlyJoins(outgoing')
        BY <1>3, <2>2, <2>3, <3>1, <3>2, <3>5 DEF OnlyJoins
      <4> QED
        BY <2>2, <3>1, <3>3, <3>5, <4>1 DEF TaskSetAfter, Text
    <3>6. CASE m.kind # "complete" /\ ~told
      BY <2>2, <3>3, <3>6
    <3> QED
      BY <3>4, <3>5, <3>6
  <2> QED
    BY <1>2, <2>5, <2>6, CountStep, SettledStep DEF Finale, Settled
<1>7. CASE ~AppReceives
  <2>1. told' = told /\ open' = open
    BY <1>7 DEF Next, Reader, ReadText, ReadBlob, Pick, Offer, Processor, TakeStart, AddPool, StartPool,
       RespondStart, TakeComplete, Completer, Announce, DstJoins, AnswerJoin, Worker, Deliver, dstVars
  <2>2. told' => completer' = "announced"
    BY <1>5, <2>1 DEF Finale
  <2>3. ASSUME Honest
        PROVE  /\ JoinsAfterComplete(outgoing')
               /\ told' => OnlyJoins(outgoing') /\ ~open'
    <3>1. JoinsAfterComplete(outgoing) /\ (told => OnlyJoins(outgoing) /\ ~open)
      BY <2>3 DEF Finale
    <3>2. ASSUME NEW m \in Outbound, outgoing' = Append(outgoing, m)
          PROVE  /\ Len(outgoing') = n + 1 /\ outgoing'[n + 1] = m
                 /\ \A i \in 1 .. n : outgoing'[i] = outgoing[i]
                 /\ \A i \in 1 .. n + 1 : i = n + 1 \/ i \in 1 .. n
      BY <1>3, <1>4, <3>2, AppendProperties
    <3>3. CASE completer = "announced" /\ AnswerJoin
      <4>1. outgoing' = outgoing \/ outgoing' = Append(outgoing, Text("join"))
        BY <3>3 DEF AnswerJoin, SendToDst
      <4>2. CASE outgoing' = outgoing
        BY <2>1, <3>1, <4>2
      <4>3. CASE outgoing' = Append(outgoing, Text("join"))
        <5>1. Text("join") \in Outbound
          BY DEF Outbound
        <5> QED
          BY <1>3, <2>1, <3>1, <3>2, <4>3, <5>1 DEF OnlyJoins, JoinsAfterComplete
      <4> QED
        BY <4>1, <4>2, <4>3
    <3>4. CASE completer = "announced" /\ ~AnswerJoin
      <4>1. Settled
        BY <2>3, <3>4 DEF Finale, Settled, Past
      <4>2. outgoing' = outgoing
        BY <1>7, <3>4, <4>1, QuietAfterAnnounce
      <4> QED
        BY <2>1, <3>1, <4>2
    <3>5. CASE completer # "announced"
      <4>1. ~told /\ \A i \in 1 .. n : outgoing[i] # Text("complete")
        BY <1>3, <3>5 DEF Finale, Outbox
      <4>2. outgoing' = outgoing \/ \E m \in Outbound : outgoing' = Append(outgoing, m)
        <5>1. CASE RespondStart \/ Announce \/ AnswerJoin
          BY <5>1 DEF RespondStart, Announce, AnswerJoin, SendToDst, Outbound, Message
        <5>2. ASSUME NEW v \in Pool!Workers, Deliver(v)
              PROVE  outgoing' = outgoing \/ \E m \in Outbound : outgoing' = Append(outgoing, m)
          <6>1. job[v] \in Blobs
            BY <1>1, <5>2, PoolValues, Numbers DEF Deliver, Pool!Finish
          <6> QED
            BY <5>2, <6>1 DEF Deliver, SendToDst, Outbound, Message
        <5>3. CASE outgoing' = outgoing
          BY <5>3
        <5> QED
          BY <1>7, <5>1, <5>2, <5>3 DEF Next, Reader, ReadText, ReadBlob, Pick, Offer, Processor, TakeStart,
             AddPool, StartPool, TakeComplete, Completer, DstJoins, Worker, dstVars
      <4>3. CASE outgoing' = outgoing
        BY <2>1, <3>1, <4>1, <4>3
      <4>4. ASSUME NEW m \in Outbound, outgoing' = Append(outgoing, m)
            PROVE  JoinsAfterComplete(outgoing')
        BY <1>3, <3>2, <4>1, <4>4 DEF JoinsAfterComplete
      <4> QED
        BY <2>1, <4>1, <4>2, <4>3, <4>4
    <3> QED
      BY <3>3, <3>4, <3>5
  <2> QED
    BY <1>2, <2>2, <2>3, CountStep, SettledStep DEF Finale, Settled
<1> QED
  BY <1>6, <1>7

--------------------------------------------------------------------------------
(* The theorems. *)

IndInv == Path /\ Order /\ Outbox /\ Finale

(* The inductive invariant holds initially.                                *)
LEMMA IndInvInit == Init => IndInv
<1> SUFFICES ASSUME Init PROVE IndInv
  OBVIOUS
<1>1. Path
  BY PathInit
<1>2. /\ phase = "none" /\ completer = "none" /\ proc = "idle" /\ outgoing = <<>> /\ arrived = {}
      /\ told = FALSE /\ answering = FALSE /\ stage = [b \in Blobs |-> "unread"]
  BY Numbers DEF Init, Pool!Init
<1>3. Order
  BY <1>2 DEF Order, MissedIsPrefix, PerWorkerOrder
<1>4. Outbox
  BY <1>2 DEF Outbox, Sent, Carried, Distinct
<1>5. Finale
  BY <1>2 DEF Finale, Past, OnlyJoins, JoinsAfterComplete
<1> QED
  BY <1>1, <1>3, <1>4, <1>5 DEF IndInv

(* Every step keeps the inductive invariant.                               *)
LEMMA IndInvStep == IndInv /\ [Next /\ UNCHANGED cut]_<<vars, cut>> => IndInv'
<1>1. ASSUME IndInv, Next, cut' = cut
      PROVE  IndInv'
  BY <1>1, PathStep, OrderStep, OutboxStep, FinaleStep DEF IndInv
<1>2. ASSUME IndInv, UNCHANGED <<vars, cut>>
      PROVE  IndInv'
  <2>1. UNCHANGED <<poolVars, connVars, dstVars, cut>>
    BY <1>2 DEF vars
  <2>2. Types'
    <3>1. Pool!TypeOK'
      BY <1>2, <2>1 DEF poolVars, IndInv, Path, Types, TypeOK, Pool!TypeOK, Pool!Workers, Pool!Blobs,
         Pool!Idle, Pool!Stages, Pool!Completers, Pool!Panics, Pool!PoolPanics
    <3>2. /\ cut' \in BOOLEAN /\ joined' \in BOOLEAN /\ answering' \in BOOLEAN
          /\ open' \in BOOLEAN /\ told' \in BOOLEAN /\ ~hungUp'
      BY <1>2, <2>1, Zenon DEF dstVars, poolVars, IndInv, Path, Types, TypeOK
    <3>3. Blobs' = Blobs /\ Idle' = Idle /\ Message' = Message /\ Outbound' = Outbound
      BY DEF Outbound, Message, Text, Blob, Blobs, Idle, Pool!Blobs, Pool!Idle
    <3> QED
      BY <1>2, <2>1, <3>1, <3>2, <3>3 DEF connVars, dstVars, IndInv, Path, Types, TypeOK
  <2>3. Path'
    BY <1>2, <2>1, <2>2, PathElsewhere DEF IndInv
  <2>4. Order'
    BY <1>2, <2>1 DEF IndInv, Order, MissedIsPrefix, PerWorkerOrder, poolVars, Blobs, Pool!Blobs
  <2>5. Outbox'
    BY <1>2, <2>1 DEF IndInv, Outbox, Sent, Carried, Distinct, Blob, Text, poolVars, connVars, dstVars,
       Blobs, Idle, Pool!Blobs, Pool!Idle
  <2>6. Finale'
    BY <1>2, <2>1 DEF IndInv, Finale, Honest, Past, OnlyJoins, JoinsAfterComplete, Text, poolVars, dstVars, Blobs, Idle, Pool!Blobs,
       Pool!Idle, Pool!Handled, Pool!Received
  <2> QED
    BY <2>3, <2>4, <2>5, <2>6 DEF IndInv
<1> QED
  BY <1>1, <1>2

(* The inductive invariant of the upload path.                             *)
LEMMA Invariant == Spec => []IndInv
BY IndInvInit, IndInvStep, PTL DEF Spec

(* Every variable stays in its domain, the queues within their capacity.   *)
THEOREM TypeCorrect == Spec => []TypeOK
<1>1. IndInv => TypeOK
  BY DEF IndInv, Path, Types
<1> QED
  BY <1>1, Invariant, PTL

(* However many chunks come and however reader, processor, workers and     *)
(* completing goroutine interleave, an upload's connection never offers a  *)
(* chunk to a closed worker queue (Worker.Dispatch in worker.go against    *)
(* Close in transfer.go): upload-complete is taken up behind every chunk.  *)
THEOREM QueuesStayOpen == Spec => []NeverSendOnClosedQueue
<1>1. IndInv => NeverSendOnClosedQueue
  <2> SUFFICES ASSUME IndInv PROVE NeverSendOnClosedQueue
    OBVIOUS
  <2>1. InHand /\ Ends /\ Life
    BY DEF IndInv, Path
  <2>2. ASSUME completer # "none"
        PROVE  inHand = Idle /\ \A b \in Blobs : stage[b] \notin {"found", "picked"}
    <3>1. inHand = Idle
      BY <2>1, <2>2 DEF Ends
    <3> QED
      BY <2>1, <3>1, Numbers DEF InHand
  <2> QED
    BY <2>1, <2>2 DEF NeverSendOnClosedQueue, DispatchedBeforeComplete, Life
<1> QED
  BY <1>1, Invariant, PTL

(* Every chunk is accounted for: those that miss the pool are the first of *)
(* the upload, a worker's chunks leave in the order they were sent, and    *)
(* what counts as sent is in the destination's queue or app exactly once.  *)
THEOREM ChunksAreAccountedFor == Spec => []ChunksAccountedFor
<1>1. IndInv => ChunksAccountedFor
  BY OnTheWayIs DEF IndInv, Path, Order, ChunksAccountedFor
<1> QED
  BY <1>1, Invariant, PTL

(* With an honest count the destination's app hears of the completion      *)
(* after every chunk it will ever receive, and its task set stays closed.  *)
THEOREM CompletionComesLast == Spec => []CompleteArrivesLast
<1>1. IndInv => CompleteArrivesLast
  <2> SUFFICES ASSUME IndInv, told, Honest PROVE CompleteArrivesLast
    BY DEF CompleteArrivesLast, Honest
  <2>1. completer \in Past /\ OnlyJoins(outgoing) /\ ~open
    BY DEF IndInv, Finale, Past
  <2>2. \A b \in Blobs : stage[b] \notin {"queued", "busy"}
    BY <2>1 DEF IndInv, Finale
  <2>3. OnTheWay = {}
    <3>1. \A b \in Blobs : Text("join") # Blob(b)
      BY DEF Text, Blob
    <3>2. Carried(outgoing) = {}
      BY <2>1, <3>1 DEF Carried, OnlyJoins
    <3> QED
      BY <3>2, OnTheWayIs DEF IndInv, Path
  <2> QED
    BY <2>1, <2>2, <2>3 DEF CompleteArrivesLast
<1> QED
  BY <1>1, Invariant, PTL

(* The connection, processor and destination only drive the worker pool    *)
(* through its own steps: the path implements WorkerPool, whose most       *)
(* general environment thereby covers the real one.                        *)
THEOREM PathImplementsPool == Spec => Pool!Spec
<1>1. Init => Pool!Init
  BY DEF Init
<1>2. IndInv /\ [Next /\ UNCHANGED cut]_<<vars, cut>> => [Pool!Next]_(Pool!vars)
  <2>1. ASSUME IndInv, Next PROVE [Pool!Next]_(Pool!vars)
    BY <2>1, StepOfPool DEF IndInv, Path
  <2>2. UNCHANGED <<vars, cut>> => UNCHANGED Pool!vars
    BY DEF vars, poolVars, Pool!vars
  <2> QED
    BY <2>1, <2>2
<1> QED
  BY <1>1, <1>2, Invariant, PTL DEF Spec, Pool!Spec

================================================================================
