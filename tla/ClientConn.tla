------------------------------- MODULE ClientConn -------------------------------
(***************************************************************************)
(* The life of one websocket connection in the server (core/client.go):    *)
(* its reader, processor and writer goroutines, the steps of ClientClose,  *)
(* and the goroutines of others that send to it through the channel        *)
(* (core/channel.go): a completing goroutine that broadcasts, and a worker *)
(* that looked the client up and sends it a blob.                          *)
(*                                                                         *)
(* Request 1 of a connection is the app's "join"; of the others some are   *)
(* answered to the client itself, as upload-start is when source and       *)
(* destination are the same client, and some are not, as upload-complete.  *)
(* A panic ends the process, so nothing runs after it.                     *)
(*                                                                         *)
(* Every connection has the id that HandleWebsocket writes down, and its   *)
(* close looks for a channel of that id; a channel is kept under the group *)
(* of the requests.  Both cases are modelled: that the two are the same    *)
(* (idIsGroup), and that they differ and no channel has the client's id.   *)
(***************************************************************************)
EXTENDS Integers, Sequences, FiniteSets

CONSTANTS
  NumRequests,  (* text messages the peer sends at most                     *)
  IncomingCap,  (* capacity of Incoming: 256                                *)
  OutgoingCap   (* capacity of Outgoing: 256                                *)

ASSUME ClientAssumption ==
  /\ NumRequests \in Nat
  /\ IncomingCap \in Nat \ {0}
  /\ OutgoingCap \in Nat \ {0}

Closers  == {"reader", "writer"}
Senders  == {"broadcast", "worker"}
Requests == 1 .. NumRequests

VARIABLES
  socket,        (* "open", or "broken": reads fail                         *)
  read,          (* how many requests the reader has read                   *)
  reader,        (* "reading", "pushing", "closing", "exited"               *)
  incoming,      (* requests between reader and processor                   *)
  inOpen,        (* Incoming is not closed                                  *)
  proc,          (* "idle", "joining", "responding", "exited"               *)
  handled,       (* requests in the order the processor took them           *)
  outgoing,      (* number of messages in Outgoing                          *)
  outOpen,       (* Outgoing is not closed                                  *)
  writer,        (* "ranging", "writing", "closing", "exited"               *)
  once,          (* closeOnce: "free", "running", "done"                    *)
  step,          (* closer -> next step of its ClientClose                  *)
  disconnected,  (* Client.Disconnected                                     *)
  idIsGroup,     (* the group of its requests is the client's id            *)
  member,        (* the client is in the channel's Clients                  *)
  holding,       (* senders about to send to the client                     *)
  panic          (* "none", or the operation that brought the server down   *)

inVars    == <<read, reader, incoming, inOpen>>
procVars  == <<proc, handled>>
outVars   == <<outgoing, outOpen, writer>>
closeVars == <<once, step, disconnected>>
chanVars  == <<idIsGroup, member, holding>>
vars      == <<socket, inVars, procVars, outVars, closeVars, chanVars, panic>>

Running == panic = "none"

\* Broadcast keeps the channel's read lock from the check to the send.
ReadLocked == "broadcast" \in holding

Init ==
  /\ socket = "open"
  /\ read = 0
  /\ reader = "reading"
  /\ incoming = <<>>
  /\ inOpen = TRUE
  /\ proc = "idle"
  /\ handled = <<>>
  /\ outgoing = 0
  /\ outOpen = TRUE
  /\ writer = "ranging"
  /\ once = "free"
  /\ step = [g \in Closers |-> "enter"]
  /\ disconnected = FALSE
  /\ idIsGroup \in BOOLEAN
  /\ member = FALSE
  /\ holding = {}
  /\ panic = "none"

\* Fault: the queue has no bound.
SendUnbounded(who) ==
  IF outOpen THEN outgoing' = outgoing + 1 /\ UNCHANGED panic
             ELSE panic' = who /\ UNCHANGED outgoing

\* A non-blocking send to Outgoing: a select with a default still panics when
\* the channel is closed, and drops the message when it is full.
SendOutgoing(who) ==
  IF outOpen
    THEN /\ outgoing' = IF outgoing < OutgoingCap THEN outgoing + 1 ELSE outgoing
         /\ UNCHANGED panic
    ELSE /\ panic' = who
         /\ UNCHANGED outgoing

--------------------------------------------------------------------------------
(* The peer and the network. *)

SocketBreaks ==
  /\ Running
  /\ socket = "open"
  /\ socket' = "broken"
  /\ UNCHANGED <<inVars, procVars, outVars, closeVars, chanVars, panic>>

--------------------------------------------------------------------------------
(* StartReader. *)

ReadMessage ==
  /\ Running
  /\ reader = "reading"
  /\ socket = "open"
  /\ read < NumRequests
  /\ read' = read + 1
  /\ reader' = "pushing"
  /\ UNCHANGED <<socket, incoming, inOpen, procVars, outVars, closeVars, chanVars,
                 panic>>

ReadError ==
  /\ Running
  /\ reader = "reading"
  /\ socket = "broken"
  /\ reader' = "closing"
  /\ UNCHANGED <<socket, read, incoming, inOpen, procVars, outVars, closeVars,
                 chanVars, panic>>

\* The send blocks while Incoming is full; it panics when Incoming is closed.
PushIncoming ==
  /\ Running
  /\ reader = "pushing"
  /\ \/ /\ inOpen
        /\ Len(incoming) < IncomingCap
        /\ incoming' = Append(incoming, read)
        /\ reader' = "reading"
        /\ UNCHANGED panic
     \/ /\ ~inOpen
        /\ panic' = "reader"
        /\ UNCHANGED <<incoming, reader>>
  /\ UNCHANGED <<socket, read, inOpen, procVars, outVars, closeVars, chanVars>>

--------------------------------------------------------------------------------
(* StartProcessor: what was in Incoming when it was closed is still taken. *)

TakeRequest ==
  /\ Running
  /\ proc = "idle"
  /\ incoming # <<>>
  /\ handled' = Append(handled, Head(incoming))
  /\ incoming' = Tail(incoming)
  /\ \/ Head(incoming) = 1 /\ proc' = "joining"
     \/ Head(incoming) # 1 /\ member /\ proc' = "responding"
     \/ Head(incoming) # 1 /\ proc' = "idle"
  /\ UNCHANGED <<socket, read, reader, inOpen, outVars, closeVars, chanVars, panic>>

JoinTransfer ==
  /\ Running
  /\ proc = "joining"
  /\ ~ReadLocked
  /\ proc' = IF member THEN "idle" ELSE "responding"
  /\ member' = TRUE
  /\ UNCHANGED <<socket, inVars, handled, outVars, closeVars, idIsGroup, holding, panic>>

Respond ==
  /\ Running
  /\ proc = "responding"
  /\ SendOutgoing("processor")
  /\ proc' = "idle"
  /\ UNCHANGED <<socket, inVars, handled, outOpen, writer, closeVars, chanVars>>

\* Fault: the processor leaves at the close, with requests still queued.
ProcessorExitsEarly ==
  /\ Running
  /\ proc = "idle"
  /\ ~inOpen
  /\ proc' = "exited"
  /\ UNCHANGED <<socket, inVars, handled, outVars, closeVars, chanVars, panic>>

ProcessorExits ==
  /\ Running
  /\ proc = "idle"
  /\ incoming = <<>> /\ ~inOpen
  /\ proc' = "exited"
  /\ UNCHANGED <<socket, inVars, handled, outVars, closeVars, chanVars, panic>>

--------------------------------------------------------------------------------
(* StartWriter. *)

TakeOutgoing ==
  /\ Running
  /\ writer = "ranging"
  /\ \/ outgoing > 0 /\ outgoing' = outgoing - 1 /\ writer' = "writing"
     \/ outgoing = 0 /\ ~outOpen /\ writer' = "closing" /\ UNCHANGED outgoing
  /\ UNCHANGED <<socket, inVars, procVars, outOpen, closeVars, chanVars, panic>>

\* A write may fail at any time, and always does on a connection that is closed.
WriteMessage ==
  /\ Running
  /\ writer = "writing"
  /\ \/ writer' = "ranging" /\ socket = "open"
     \/ writer' = "closing"
  /\ UNCHANGED <<socket, inVars, procVars, outgoing, outOpen, closeVars, chanVars,
                 panic>>

--------------------------------------------------------------------------------
(* ClientClose, deferred by the reader and the writer: closeOnce lets one  *)
(* of them run the steps and makes the other wait for the end.             *)

Closing(g) == (IF g = "reader" THEN reader ELSE writer) = "closing"

EnterOnce(g) ==
  /\ once = "free"
  /\ once' = "running"
  /\ step' = [step EXCEPT ![g] = "outgoing"]

BeginClose(g) ==
  /\ Running
  /\ Closing(g)
  /\ step[g] = "enter"
  /\ EnterOnce(g)
  /\ UNCHANGED <<socket, inVars, procVars, outVars, disconnected, chanVars, panic>>

CloseOutgoing(g) ==
  /\ Running
  /\ step[g] = "outgoing"
  /\ outOpen' = FALSE
  /\ panic' = IF outOpen THEN panic ELSE "close"
  /\ step' = [step EXCEPT ![g] = "incoming"]
  /\ UNCHANGED <<socket, inVars, procVars, outgoing, writer, once, disconnected,
                 chanVars>>

\* Fault: Incoming is never closed.
LeaveIncomingOpen(g) ==
  /\ Running
  /\ step[g] = "incoming"
  /\ step' = [step EXCEPT ![g] = "disconnected"]
  /\ UNCHANGED <<socket, inVars, procVars, outVars, once, disconnected, chanVars, panic>>

CloseIncoming(g) ==
  /\ Running
  /\ step[g] = "incoming"
  /\ inOpen' = FALSE
  /\ panic' = IF inOpen THEN panic ELSE "close"
  /\ step' = [step EXCEPT ![g] = "disconnected"]
  /\ UNCHANGED <<socket, read, reader, incoming, procVars, outVars, once,
                 disconnected, chanVars>>

StoreDisconnected(g) ==
  /\ Running
  /\ step[g] = "disconnected"
  /\ disconnected' = TRUE
  /\ step' = [step EXCEPT ![g] = "remove"]
  /\ UNCHANGED <<socket, inVars, procVars, outVars, once, chanVars, panic>>

\* Fault: the removal looks among the channels by name.
RemoveByName(g) ==
  /\ Running
  /\ step[g] = "remove"
  /\ step' = [step EXCEPT ![g] = "conn"]
  /\ UNCHANGED <<socket, inVars, procVars, outVars, once, disconnected, chanVars, panic>>

\* The channel is looked up by the client's id: when the client joined under
\* another group there is none, and the client stays where it is.
ChannelRemoveClient(g) ==
  /\ Running
  /\ step[g] = "remove"
  /\ \/ idIsGroup /\ ~ReadLocked /\ member' = FALSE
     \/ ~idIsGroup /\ UNCHANGED member
  /\ step' = [step EXCEPT ![g] = "conn"]
  /\ UNCHANGED <<socket, inVars, procVars, outVars, once, disconnected, idIsGroup,
                 holding, panic>>

CloseConn(g) ==
  /\ Running
  /\ step[g] = "conn"
  /\ socket' = "broken"
  /\ once' = "done"
  /\ step' = [step EXCEPT ![g] = "enter"]
  /\ UNCHANGED <<inVars, procVars, outVars, disconnected, chanVars, panic>>

EndClose(g) ==
  /\ Running
  /\ Closing(g)
  /\ step[g] = "enter"
  /\ once = "done"
  /\ IF g = "reader" THEN reader' = "exited" /\ UNCHANGED writer
                     ELSE writer' = "exited" /\ UNCHANGED reader
  /\ UNCHANGED <<socket, read, incoming, inOpen, procVars, outgoing, outOpen,
                 closeVars, chanVars, panic>>

CloseStep(g) ==
  \/ BeginClose(g) \/ CloseOutgoing(g) \/ CloseIncoming(g) \/ StoreDisconnected(g)
  \/ ChannelRemoveClient(g) \/ CloseConn(g) \/ EndClose(g)

--------------------------------------------------------------------------------
(* Others that send to the client: Broadcast skips a client it finds       *)
(* disconnected; a worker sends to whatever GetClient returned.            *)

\* Fault: a sender uses a client it has kept instead of looking it up.
PrepareFromCache(s) ==
  /\ Running
  /\ s \notin holding
  /\ s = "broadcast" => ~disconnected
  /\ holding' = holding \union {s}
  /\ UNCHANGED <<socket, inVars, procVars, outVars, closeVars, idIsGroup, member, panic>>

Prepare(s) ==
  /\ Running
  /\ s \notin holding
  /\ member
  /\ s = "broadcast" => ~disconnected
  /\ holding' = holding \union {s}
  /\ UNCHANGED <<socket, inVars, procVars, outVars, closeVars, idIsGroup, member, panic>>

Send(s) ==
  /\ Running
  /\ s \in holding
  /\ SendOutgoing(s)
  /\ holding' = holding \ {s}
  /\ UNCHANGED <<socket, inVars, procVars, outOpen, writer, closeVars, idIsGroup, member>>

--------------------------------------------------------------------------------
Reader    == ReadMessage \/ ReadError \/ PushIncoming
Processor == TakeRequest \/ JoinTransfer \/ Respond \/ ProcessorExits
Writer    == TakeOutgoing \/ WriteMessage

Next ==
  \/ SocketBreaks
  \/ Reader \/ Processor \/ Writer
  \/ \E g \in Closers : CloseStep(g)
  \/ \E s \in Senders : Prepare(s) \/ Send(s)

\* The server's goroutines run; a peer need not send or break the socket.  The
\* channel's lock is fair to the two that need it exclusively: a pending Lock
\* keeps new readers out, so a stream of broadcasts cannot starve them.
Fairness ==
  /\ WF_vars(ReadError) /\ WF_vars(PushIncoming)
  /\ WF_vars(TakeRequest \/ Respond \/ ProcessorExits) /\ SF_vars(JoinTransfer)
  /\ WF_vars(Writer)
  /\ \A g \in Closers : WF_vars(CloseStep(g)) /\ SF_vars(ChannelRemoveClient(g))
  /\ \A s \in Senders : WF_vars(Send(s))

Spec == Init /\ [][Next]_vars /\ Fairness

--------------------------------------------------------------------------------
TypeOK ==
  /\ socket \in {"open", "broken"}
  /\ read \in 0 .. NumRequests
  /\ reader \in {"reading", "pushing", "closing", "exited"}
  /\ incoming \in Seq(Requests) /\ Len(incoming) <= IncomingCap
  /\ proc \in {"idle", "joining", "responding", "exited"}
  /\ handled \in Seq(Requests)
  /\ outgoing \in 0 .. OutgoingCap
  /\ writer \in {"ranging", "writing", "closing", "exited"}
  /\ once \in {"free", "running", "done"}
  /\ step \in [Closers -> {"enter", "outgoing", "incoming", "disconnected", "remove", "conn"}]
  /\ holding \subseteq Senders
  /\ {inOpen, outOpen, disconnected, idIsGroup, member} \subseteq BOOLEAN
  /\ panic \in {"none", "reader", "processor", "close"} \union Senders

(* Reader and writer both end in ClientClose, possibly at the same time:   *)
(* no channel is closed twice.                                             *)
NeverClosedTwice == panic # "close"

(* Requests are taken in the order they were sent, none twice and none     *)
(* skipped; what the reader got into Incoming before the connection ended  *)
(* is handled before the processor leaves (a push after that panics).      *)
HandledInOrder ==
  /\ handled \o incoming = [i \in 1 .. Len(handled \o incoming) |-> i]
  /\ proc = "exited" /\ reader # "pushing" => Len(handled) = read

Ended == Running /\ once = "done" /\ proc = "exited"

(* A teardown closes nothing twice.  Once it is over and the processor has *)
(* left, in a server that survived it, the client is in no channel if its  *)
(* group is its id, although a join still queued is handled after the      *)
(* removal; under any other group it stays in the channel for good, as     *)
(* soon as its join was handled.                                           *)
LeavesChannelOfItsId ==
  /\ NeverClosedTwice
  /\ Ended => (member <=> ~idIsGroup /\ handled # <<>>)

Over ==
  /\ Ended /\ reader # "pushing"
  /\ holding \subseteq (IF idIsGroup THEN {} ELSE {"worker"})

(* Once nobody holds on to them, nobody reaches the closed channels again, *)
(* with one exception: a connection left in its channel is skipped by each *)
(* Broadcast, but a worker can still find it, and the chunk it then sends  *)
(* brings the server down.                                                 *)
TeardownIsFinal == [][Over => Over' \/ (~idIsGroup /\ panic' = "worker")]_vars

(* When the connection breaks, its three goroutines end (or a send to the  *)
(* closed channels ends the server): nobody waits for ever on a full or    *)
(* empty queue, on the lock or on closeOnce.                               *)
GoroutinesEnd ==
  socket = "broken" ~>
    (reader = "exited" /\ writer = "exited" /\ proc = "exited") \/ ~Running

--------------------------------------------------------------------------------
(* What the source says and the code does not do. *)

(* client.go:78 has channel broadcasts "put bytes into outgoing chan", and *)
(* channel.go:201 skips disconnected clients.  ClientClose closes Outgoing *)
(* before it stores Disconnected, and the check is not atomic with the     *)
(* send: a broadcast panics.                                               *)
BroadcastPutsBytes == panic # "broadcast"
================================================================================
