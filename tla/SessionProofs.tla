----------------------------- MODULE SessionProofs -----------------------------
(***************************************************************************)
(* Proofs about the two ends of a session.  At the server, ClientConn: for *)
(* any number of requests and any capacity of the two queues, requests are *)
(* handled in order, and a teardown closes nothing twice, empties the      *)
(* channel of the client's id and no other, and is final there.  In the app, AppSession: for any users, lives *)
(* of tokens and cookies, and requests under way, the user that is shown   *)
(* is the one whose cookies are sent, a session ends, and the connection   *)
(* has joined for its user.  The specifications share no variable: each    *)
(* theorem is about one of them.                                           *)
(***************************************************************************)
EXTENDS AppSession, ClientConn, SequenceTheorems, FiniteSetTheorems, TLAPS

--------------------------------------------------------------------------------
(* The inductive invariant of ClientConn. *)

(* closeOnce: one goroutine at most is between its steps, and it is one    *)
(* that closes.                                                            *)
OneCloses ==
  /\ \A g \in Closers : step[g] # "enter" => once = "running" /\ Closing(g)
  /\ \A g, h \in Closers : step[g] # "enter" /\ step[h] # "enter" => g = h

(* What has been closed, by where ClientClose is. *)
ClosedSoFar ==
  /\ once = "free" => outOpen /\ inOpen
  /\ once = "done" => ~outOpen /\ ~inOpen /\ socket = "broken" /\ disconnected
  /\ \A g \in Closers :
       /\ step[g] = "outgoing" => outOpen
       /\ step[g] \in {"outgoing", "incoming"} => inOpen
       /\ step[g] \in {"incoming", "disconnected", "remove", "conn"} => ~outOpen
       /\ step[g] \in {"disconnected", "remove", "conn"} => ~inOpen
       /\ step[g] \in {"remove", "conn"} => disconnected

(* A join that comes after the removal is about to be answered, and that   *)
(* answer cannot be given: Outgoing is closed.                             *)
Removed == once = "done" \/ \E g \in Closers : step[g] = "conn"

JoinedTooLate == Running /\ Removed /\ idIsGroup /\ member => proc = "responding"

(* A client whose group is not its id is in the channel from its join on.  *)
InFromTheJoin ==
  /\ proc = "joining" => handled # <<>>
  /\ Running /\ ~idIsGroup => (member <=> handled # <<>> /\ proc # "joining")

(* Requests are numbered: those handled, then those in Incoming, then the  *)
(* one the reader holds.                                                   *)
Numbered ==
  /\ \A i \in 1 .. Len(handled)  : handled[i] = i
  /\ \A i \in 1 .. Len(incoming) : incoming[i] = Len(handled) + i
  /\ reader = "pushing" => read = Len(handled) + Len(incoming) + 1
  /\ reader # "pushing" => read = Len(handled) + Len(incoming)

ExitedAtTheEnd == proc = "exited" => incoming = <<>> /\ ~inOpen

IInv ==
  /\ TypeOK
  /\ OneCloses /\ ClosedSoFar /\ NeverClosedTwice
  /\ JoinedTooLate /\ InFromTheJoin
  /\ Numbered /\ ExitedAtTheEnd

--------------------------------------------------------------------------------
(* Types. *)

Panics == {"none", "reader", "processor", "close"} \union Senders

(* A send that does not block leaves Outgoing within its capacity. *)
LEMMA SendTypes ==
  ASSUME outgoing \in 0 .. OutgoingCap, panic \in Panics,
         NEW who \in {"processor"} \union Senders, SendOutgoing(who)
  PROVE  outgoing' \in 0 .. OutgoingCap /\ panic' \in Panics
BY ClientAssumption DEF SendOutgoing, Panics

(* The goroutines keep the types (StartReader, StartProcessor, StartWriter *)
(* and ClientClose of core/client.go, Broadcast of core/channel.go).       *)
LEMMA TypeStep ==
  ASSUME TypeOK, Numbered, [Next]_vars
  PROVE  TypeOK'
<1> USE ClientAssumption DEF TypeOK, Requests
<1>1. CASE UNCHANGED vars
  BY <1>1 DEF vars, inVars, procVars, outVars, closeVars, chanVars
<1>2. CASE SocketBreaks
  BY <1>2 DEF SocketBreaks, inVars, procVars, outVars, closeVars, chanVars
<1>3. CASE ReadMessage
  BY <1>3 DEF ReadMessage, procVars, outVars, closeVars, chanVars
<1>4. CASE ReadError
  BY <1>4 DEF ReadError, procVars, outVars, closeVars, chanVars
<1>5. CASE PushIncoming
  <2>1. CASE inOpen
    <3>1. incoming' = Append(incoming, read) /\ Len(incoming) < IncomingCap
      BY <1>5, <2>1 DEF PushIncoming
    <3>2. incoming' \in Seq(1 .. NumRequests) /\ Len(incoming') <= IncomingCap
      <4>1. read \in 1 .. NumRequests
        BY <1>5 DEF PushIncoming, Numbered
      <4>2. Append(incoming, read) \in Seq(1 .. NumRequests)
            /\ Len(Append(incoming, read)) = Len(incoming) + 1
        BY <4>1, AppendProperties
      <4> QED
        BY <3>1, <4>2
    <3>3. reader' = "reading" /\ UNCHANGED <<socket, read, inOpen, proc, handled, outgoing,
                                             outOpen, writer, once, step, disconnected,
                                             idIsGroup, member, holding, panic>>
      BY <1>5, <2>1 DEF PushIncoming, procVars, outVars, closeVars, chanVars
    <3> QED
      BY <3>2, <3>3
  <2>2. CASE ~inOpen
    BY <1>5, <2>2 DEF PushIncoming, procVars, outVars, closeVars, chanVars
  <2> QED
    BY <2>1, <2>2
<1>6. CASE TakeRequest
  BY <1>6 DEF TakeRequest, outVars, closeVars, chanVars
<1>7. CASE JoinTransfer
  BY <1>7 DEF JoinTransfer, inVars, outVars, closeVars
<1>8. CASE Respond
  BY <1>8, SendTypes DEF Respond, Panics, inVars, closeVars, chanVars
<1>9. CASE ProcessorExits
  BY <1>9 DEF ProcessorExits, inVars, outVars, closeVars, chanVars
<1>10. CASE Writer
  BY <1>10 DEF Writer, TakeOutgoing, WriteMessage, inVars, procVars, closeVars, chanVars
<1>11. ASSUME NEW g \in Closers, CloseStep(g) PROVE TypeOK'
  <2>1. CASE BeginClose(g)
    BY <2>1 DEF BeginClose, EnterOnce, inVars, procVars, outVars, chanVars
  <2>2. CASE CloseOutgoing(g)
    BY <2>2 DEF CloseOutgoing, inVars, procVars, chanVars
  <2>3. CASE CloseIncoming(g)
    BY <2>3 DEF CloseIncoming, procVars, outVars, chanVars
  <2>4. CASE StoreDisconnected(g)
    BY <2>4 DEF StoreDisconnected, inVars, procVars, outVars, chanVars
  <2>5. CASE ChannelRemoveClient(g)
    <3>1. member' \in {FALSE, member} /\ step' = [step EXCEPT ![g] = "conn"]
      BY <2>5 DEF ChannelRemoveClient
    <3>2. UNCHANGED <<socket, read, reader, incoming, inOpen, proc, handled, outgoing, outOpen,
                      writer, once, disconnected, idIsGroup, holding, panic>>
      BY <2>5 DEF ChannelRemoveClient, inVars, procVars, outVars
    <3>3. {inOpen', outOpen', disconnected', idIsGroup', member'} \subseteq BOOLEAN
      BY <3>1, <3>2
    <3>4. step' \in [Closers -> {"enter", "outgoing", "incoming", "disconnected", "remove", "conn"}]
      BY <3>1
    <3> QED
      BY <3>2, <3>3, <3>4
  <2>6. CASE CloseConn(g)
    BY <2>6 DEF CloseConn, inVars, procVars, outVars, chanVars
  <2>7. CASE EndClose(g)
    <3>1. CASE g = "reader"
      BY <2>7, <3>1 DEF EndClose, procVars, closeVars, chanVars
    <3>2. CASE g # "reader"
      BY <2>7, <3>2 DEF EndClose, procVars, closeVars, chanVars
    <3> QED
      BY <3>1, <3>2
  <2> QED
    BY <1>11, <2>1, <2>2, <2>3, <2>4, <2>5, <2>6, <2>7 DEF CloseStep
<1>12. ASSUME NEW s \in Senders, Prepare(s) PROVE TypeOK'
  BY <1>12 DEF Prepare, inVars, procVars, outVars, closeVars
<1>13. ASSUME NEW s \in Senders, Send(s) PROVE TypeOK'
  BY <1>13, SendTypes DEF Send, Panics, inVars, procVars, closeVars
<1> QED
  BY <1>1, <1>2, <1>3, <1>4, <1>5, <1>6, <1>7, <1>8, <1>9, <1>10, <1>11, <1>12, <1>13
  DEF Next, Reader, Processor

--------------------------------------------------------------------------------
(* ClientClose. *)

(* Only the goroutine that closeOnce lets in closes the queues, each once   *)
(* (ClientClose of core/client.go).                                         *)
LEMMA CloseOrderStep ==
  ASSUME TypeOK, OneCloses, ClosedSoFar, NeverClosedTwice, [Next]_vars
  PROVE  OneCloses' /\ ClosedSoFar' /\ NeverClosedTwice'
<1> DEFINE Goal == OneCloses' /\ ClosedSoFar' /\ NeverClosedTwice'
<1> USE DEF OneCloses, ClosedSoFar, NeverClosedTwice, Closing, TypeOK
<1>1. CASE UNCHANGED <<reader, writer, inOpen, outOpen, once, step, disconnected, socket, panic>>
  BY <1>1
<1>2. CASE SocketBreaks
  BY <1>2 DEF SocketBreaks, inVars, outVars, closeVars
<1>3. CASE Reader
  BY <1>3 DEF Reader, ReadMessage, ReadError, PushIncoming, outVars, closeVars
<1>4. CASE Writer
  BY <1>4 DEF Writer, TakeOutgoing, WriteMessage, inVars, closeVars
<1>5. CASE Respond
  BY <1>5 DEF Respond, SendOutgoing, inVars, closeVars
<1>6. ASSUME NEW s \in Senders, Send(s) PROVE Goal
  BY <1>6 DEF Send, SendOutgoing, Senders, inVars, closeVars
<1>7. ASSUME NEW s \in Senders, Prepare(s) PROVE Goal
  BY <1>7 DEF Prepare, inVars, outVars, closeVars
<1>8. CASE TakeRequest \/ JoinTransfer \/ ProcessorExits
  BY <1>8 DEF TakeRequest, JoinTransfer, ProcessorExits, inVars, outVars, closeVars
<1>9. ASSUME NEW g \in Closers, CloseStep(g) PROVE Goal
  <2>1. CASE BeginClose(g)
    BY <2>1 DEF BeginClose, EnterOnce, inVars, outVars
  <2>2. CASE CloseOutgoing(g)
    BY <2>2 DEF CloseOutgoing, inVars
  <2>3. CASE CloseIncoming(g)
    BY <2>3 DEF CloseIncoming, outVars
  <2>4. CASE StoreDisconnected(g)
    BY <2>4 DEF StoreDisconnected, inVars, outVars
  <2>5. CASE ChannelRemoveClient(g)
    BY <2>5 DEF ChannelRemoveClient, inVars, outVars
  <2>6. CASE CloseConn(g)
    BY <2>6 DEF CloseConn, inVars, outVars
  <2>7. CASE EndClose(g)
    BY <2>7 DEF EndClose, closeVars
  <2> QED
    BY <1>9, <2>1, <2>2, <2>3, <2>4, <2>5, <2>6, <2>7 DEF CloseStep
<1>10. CASE UNCHANGED vars
  BY <1>1, <1>10 DEF vars, inVars, outVars, closeVars
<1> QED
  BY <1>2, <1>3, <1>4, <1>5, <1>6, <1>7, <1>8, <1>9, <1>10 DEF Next, Processor

(* A client that is back in the channel after its removal was put there by  *)
(* a join that cannot be answered (JoinTransfer of core/client.go).         *)
LEMMA JoinedTooLateStep ==
  ASSUME TypeOK, OneCloses, ClosedSoFar, JoinedTooLate, [Next]_vars
  PROVE  JoinedTooLate'
<1> USE DEF JoinedTooLate, Removed, Running, TypeOK
<1>1. CASE /\ panic' = panic /\ once' = once /\ step' = step /\ proc' = proc
          /\ member' = member /\ idIsGroup' = idIsGroup
  BY <1>1
<1>2. CASE SocketBreaks \/ Reader \/ Writer \/ \E s \in Senders : Prepare(s) \/ Send(s)
  BY <1>2 DEF SocketBreaks, Reader, ReadMessage, ReadError, PushIncoming, Writer, TakeOutgoing,
              WriteMessage, Prepare, Send, SendOutgoing, procVars, closeVars, chanVars
<1>3. CASE TakeRequest \/ ProcessorExits
  BY <1>3 DEF TakeRequest, ProcessorExits, closeVars, chanVars
<1>4. CASE JoinTransfer
  BY <1>4 DEF JoinTransfer, closeVars
<1>5. CASE Respond
  <2>1. once' = once /\ step' = step /\ member' = member /\ idIsGroup' = idIsGroup
    BY <1>5 DEF Respond, closeVars, chanVars
  <2>2. CASE Removed
    <3>1. ~outOpen
      BY <2>2 DEF ClosedSoFar
    <3> QED
      BY <1>5, <3>1 DEF Respond, SendOutgoing
  <2>3. CASE ~Removed
    BY <2>1, <2>3
  <2> QED
    BY <2>2, <2>3
<1>6. ASSUME NEW g \in Closers, CloseStep(g) PROVE JoinedTooLate'
  <2>1. CASE BeginClose(g)
    BY <2>1 DEF BeginClose, EnterOnce, procVars, chanVars
  <2>2. CASE CloseOutgoing(g) \/ CloseIncoming(g) \/ StoreDisconnected(g)
    BY <2>2 DEF CloseOutgoing, CloseIncoming, StoreDisconnected, procVars, chanVars
  <2>3. CASE ChannelRemoveClient(g)
    BY <2>3 DEF ChannelRemoveClient, procVars
  <2>4. CASE CloseConn(g)
    BY <2>4 DEF CloseConn, procVars, chanVars
  <2>5. CASE EndClose(g)
    BY <2>5 DEF EndClose, procVars, closeVars, chanVars
  <2> QED
    BY <1>6, <2>1, <2>2, <2>3, <2>4, <2>5 DEF CloseStep
<1>7. CASE UNCHANGED vars
  BY <1>1, <1>7 DEF vars, procVars, closeVars, chanVars
<1> QED
  BY <1>2, <1>3, <1>4, <1>5, <1>6, <1>7 DEF Next, Processor

(* Nothing takes a client out of a channel whose id is not its own          *)
(* (ChannelRemoveClient of core/channel.go, JoinTransfer of                 *)
(* core/transfer.go).                                                       *)
LEMMA InFromTheJoinStep ==
  ASSUME TypeOK, Numbered, InFromTheJoin, [Next]_vars
  PROVE  InFromTheJoin'
<1> USE DEF InFromTheJoin, Running, TypeOK
<1>1. CASE /\ panic' = panic /\ proc' = proc /\ handled' = handled
          /\ member' = member /\ idIsGroup' = idIsGroup
  BY <1>1
<1>2. CASE SocketBreaks \/ Reader \/ Writer \/ \E s \in Senders : Prepare(s) \/ Send(s)
  BY <1>2 DEF SocketBreaks, Reader, ReadMessage, ReadError, PushIncoming, Writer, TakeOutgoing,
              WriteMessage, Prepare, Send, SendOutgoing, procVars, closeVars, chanVars
<1>3. CASE TakeRequest
  <2>1. /\ incoming # <<>> /\ handled' = Append(handled, Head(incoming)) /\ proc = "idle"
        /\ UNCHANGED <<member, idIsGroup, panic>>
        /\ \/ Head(incoming) = 1 /\ proc' = "joining"
           \/ Head(incoming) # 1 /\ proc' # "joining"
    BY <1>3 DEF TakeRequest, chanVars
  <2>2. Len(incoming) > 0 /\ Head(incoming) = Len(handled) + 1
    BY <2>1, EmptySeq, HeadTailProperties DEF Numbered
  <2>3. handled' # <<>>
    BY <2>1, <2>2, AppendProperties DEF Requests
  <2>4. CASE Head(incoming) = 1
    BY <2>1, <2>2, <2>4, EmptySeq
  <2>5. CASE Head(incoming) # 1
    <3>1. handled # <<>>
      BY <2>2, <2>5
    <3> QED
      BY <2>1, <2>3, <2>5, <3>1
  <2> QED
    BY <2>4, <2>5
<1>4. CASE JoinTransfer
  <2>1. handled # <<>>
    BY <1>4 DEF JoinTransfer
  <2> QED
    BY <1>4, <2>1 DEF JoinTransfer
<1>5. CASE Respond \/ ProcessorExits
  BY <1>5 DEF Respond, ProcessorExits, SendOutgoing, chanVars
<1>6. ASSUME NEW g \in Closers, CloseStep(g) PROVE InFromTheJoin'
  <2>1. CASE ChannelRemoveClient(g)
    BY <2>1 DEF ChannelRemoveClient, procVars
  <2> QED
    BY <1>6, <2>1 DEF CloseStep, BeginClose, CloseOutgoing, CloseIncoming, StoreDisconnected,
                      CloseConn, EndClose, procVars, chanVars
<1>7. CASE UNCHANGED vars
  BY <1>1, <1>7 DEF vars, procVars, chanVars
<1> QED
  BY <1>2, <1>3, <1>4, <1>5, <1>6, <1>7 DEF Next, Processor

--------------------------------------------------------------------------------
(* The requests. *)

(* The reader adds at the end of Incoming what the processor takes from its *)
(* front (StartReader and StartProcessor of core/client.go).                *)
LEMMA NumberedStep ==
  ASSUME TypeOK, Numbered, ExitedAtTheEnd, [Next]_vars
  PROVE  Numbered' /\ ExitedAtTheEnd'
<1> DEFINE Goal == Numbered' /\ ExitedAtTheEnd'
<1>0. /\ incoming \in Seq(Requests) /\ handled \in Seq(Requests) /\ read \in Nat
      /\ Len(incoming) \in Nat /\ Len(handled) \in Nat
  BY ClientAssumption DEF TypeOK, Requests
<1>1. ASSUME UNCHANGED <<read, handled, incoming, inOpen>>,
             reader' = "pushing" <=> reader = "pushing",
             proc' = "exited" => proc = "exited" \/ (incoming = <<>> /\ ~inOpen)
      PROVE  Goal
  BY <1>1 DEF Numbered, ExitedAtTheEnd
<1>2. CASE UNCHANGED vars
  BY <1>1, <1>2 DEF vars, inVars, procVars
<1>3. CASE SocketBreaks \/ Writer \/ \E s \in Senders : Prepare(s) \/ Send(s)
  BY <1>1, <1>3 DEF SocketBreaks, Writer, TakeOutgoing, WriteMessage, Prepare, Send,
                    inVars, procVars
<1>4. CASE ReadMessage
  BY <1>0, <1>4 DEF ReadMessage, procVars, Numbered, ExitedAtTheEnd
<1>5. CASE ReadError
  BY <1>1, <1>5 DEF ReadError, procVars
<1>6. CASE PushIncoming
  <2>1. CASE ~inOpen
    BY <1>1, <1>6, <2>1 DEF PushIncoming, procVars
  <2>2. CASE inOpen
    <3>1. /\ incoming' = Append(incoming, read) /\ reader' = "reading" /\ reader = "pushing"
          /\ UNCHANGED <<read, inOpen, proc, handled>>
      BY <1>6, <2>2 DEF PushIncoming, procVars
    <3>2. read = Len(handled) + Len(incoming) + 1
      BY <3>1 DEF Numbered
    <3>3. read \in Requests
      BY <1>0, <3>2 DEF TypeOK, Requests
    <3>4. /\ Len(incoming') = Len(incoming) + 1
          /\ \A i \in 1 .. Len(incoming) : incoming'[i] = incoming[i]
          /\ incoming'[Len(incoming) + 1] = read
      BY <1>0, <3>1, <3>3, AppendProperties
    <3>5. proc # "exited"
      BY <2>2 DEF ExitedAtTheEnd
    <3>6. ASSUME NEW i \in 1 .. Len(incoming') PROVE incoming'[i] = Len(handled) + i
      <4>1. CASE i \in 1 .. Len(incoming)
        BY <3>4, <4>1 DEF Numbered
      <4>2. CASE i = Len(incoming) + 1
        BY <1>0, <3>2, <3>4, <4>2
      <4> QED
        BY <1>0, <3>4, <4>1, <4>2
    <3> QED
      BY <1>0, <3>1, <3>2, <3>4, <3>5, <3>6 DEF Numbered, ExitedAtTheEnd
  <2> QED
    BY <2>1, <2>2
<1>7. CASE TakeRequest
  <2>1. /\ incoming # <<>> /\ incoming' = Tail(incoming)
        /\ handled' = Append(handled, Head(incoming))
        /\ UNCHANGED <<read, reader, inOpen>>
        /\ proc' # "exited"
    BY <1>7 DEF TakeRequest
  <2>2. PICK n \in Nat : n = Len(incoming)
    BY <1>0
  <2>3. PICK h \in Nat : h = Len(handled)
    BY <1>0
  <2>4. n > 0 /\ Head(incoming) \in Requests /\ Head(incoming) = incoming[1] /\ incoming[1] = h + 1
    BY <1>0, <2>1, <2>2, <2>3, HeadTailProperties, EmptySeq DEF Numbered
  <2>5. Len(incoming') = n - 1 /\ \A i \in 1 .. n - 1 : incoming'[i] = incoming[i + 1]
    BY <1>0, <2>1, <2>2, HeadTailProperties
  <2>6. /\ Len(handled') = h + 1 /\ handled'[h + 1] = h + 1
        /\ \A i \in 1 .. h : handled'[i] = handled[i]
    BY <1>0, <2>1, <2>3, <2>4, AppendProperties
  <2>7. ASSUME NEW i \in 1 .. Len(handled') PROVE handled'[i] = i
    BY <2>3, <2>6 DEF Numbered
  <2>8. ASSUME NEW i \in 1 .. Len(incoming') PROVE incoming'[i] = Len(handled') + i
    <3>1. i + 1 \in 1 .. n /\ incoming'[i] = incoming[i + 1]
      BY <2>2, <2>5
    <3> QED
      BY <2>2, <2>3, <2>6, <3>1 DEF Numbered
  <2>9. Len(handled') + Len(incoming') = Len(handled) + Len(incoming)
    BY <2>2, <2>3, <2>5, <2>6
  <2> QED
    BY <2>1, <2>7, <2>8, <2>9 DEF Numbered, ExitedAtTheEnd
<1>8. CASE JoinTransfer \/ Respond \/ ProcessorExits
  BY <1>1, <1>8 DEF JoinTransfer, Respond, ProcessorExits, inVars
<1>9. ASSUME NEW g \in Closers, CloseStep(g) PROVE Goal
  <2>1. CASE CloseIncoming(g)
    BY <2>1 DEF CloseIncoming, procVars, Numbered, ExitedAtTheEnd
  <2>2. CASE EndClose(g)
    <3>1. reader' = "pushing" <=> reader = "pushing"
      BY <2>2 DEF EndClose, Closing
    <3> QED
      BY <1>1, <2>2, <3>1 DEF EndClose, procVars
  <2> QED
    BY <1>1, <1>9, <2>1, <2>2
    DEF CloseStep, BeginClose, CloseOutgoing, StoreDisconnected, ChannelRemoveClient, CloseConn,
        inVars, procVars
<1> QED
  BY <1>2, <1>3, <1>4, <1>5, <1>6, <1>7, <1>8, <1>9 DEF Next, Reader, Processor

(* The invariant holds at the start and every step keeps it. *)
LEMMA Invariant == Spec => []IInv
<1>1. Init => IInv
  <2> SUFFICES ASSUME Init PROVE IInv
    OBVIOUS
  <2> USE ClientAssumption DEF Init
  <2>1. TypeOK
    <3>1. <<>> \in Seq(Requests) /\ Len(<<>>) = 0
      BY EmptySeq
    <3>2. /\ incoming \in Seq(Requests) /\ Len(incoming) <= IncomingCap
          /\ handled \in Seq(Requests)
      BY <3>1
    <3>3. step \in [Closers -> {"enter", "outgoing", "incoming", "disconnected", "remove", "conn"}]
      OBVIOUS
    <3>4. {inOpen, outOpen, disconnected, idIsGroup, member} \subseteq BOOLEAN
      OBVIOUS
    <3> QED
      BY <3>2, <3>3, <3>4 DEF TypeOK
  <2>2. OneCloses /\ ClosedSoFar /\ NeverClosedTwice /\ JoinedTooLate /\ InFromTheJoin
    BY DEF OneCloses, ClosedSoFar, NeverClosedTwice, JoinedTooLate, Removed, InFromTheJoin,
           Closers
  <2>3. Numbered /\ ExitedAtTheEnd
    BY DEF Numbered, ExitedAtTheEnd
  <2> QED
    BY <2>1, <2>2, <2>3 DEF IInv
<1>2. IInv /\ [Next]_vars => IInv'
  BY TypeStep, CloseOrderStep, JoinedTooLateStep, InFromTheJoinStep, NumberedStep DEF IInv
<1> QED
  BY <1>1, <1>2, PTL DEF Spec

--------------------------------------------------------------------------------
(* What follows. *)

(* Types of the connection's goroutines, queues and locks (core/client.go). *)
THEOREM TypeCorrect == Spec => []TypeOK
<1>1. IInv => TypeOK
  BY DEF IInv
<1> QED
  BY <1>1, Invariant, PTL

(* Incoming is a queue between two goroutines: the processor takes every    *)
(* request the reader has read, once and in order, and what was queued when *)
(* the connection ended it takes before it leaves (core/client.go).         *)
THEOREM RequestsInOrder == Spec => []HandledInOrder
<1>1. IInv => HandledInOrder
  <2> SUFFICES ASSUME IInv PROVE HandledInOrder
    OBVIOUS
  <2>1. incoming \in Seq(Requests) /\ handled \in Seq(Requests)
    BY DEF IInv, TypeOK
  <2>2. PICK n \in Nat : n = Len(incoming)
    BY <2>1
  <2>3. PICK h \in Nat : h = Len(handled)
    BY <2>1
  <2>4. PICK s : s = handled \o incoming
    OBVIOUS
  <2>5. /\ s \in Seq(Requests) /\ Len(s) = h + n
        /\ \A i \in 1 .. h + n : s[i] = IF i <= h THEN handled[i] ELSE incoming[i - h]
    BY <2>1, <2>2, <2>3, <2>4, ConcatProperties
  <2>6. ASSUME NEW i \in 1 .. Len(s) PROVE s[i] = i
    <3>1. CASE i <= h
      BY <2>3, <2>5, <3>1 DEF IInv, Numbered
    <3>2. CASE i > h
      <4>1. i - h \in 1 .. n /\ s[i] = incoming[i - h] /\ h + (i - h) = i
        BY <2>5, <3>2
      <4> QED
        BY <2>2, <2>3, <4>1 DEF IInv, Numbered
    <3> QED
      BY <2>5, <3>1, <3>2
  <2>7. s = [i \in 1 .. Len(s) |-> i]
    BY <2>5, <2>6
  <2>8. ASSUME proc = "exited", reader # "pushing" PROVE h = read
    <3>1. n = 0
      BY <2>2, <2>8 DEF IInv, ExitedAtTheEnd
    <3> QED
      BY <2>2, <2>3, <2>8, <3>1 DEF IInv, Numbered
  <2> QED
    BY <2>3, <2>4, <2>7, <2>8 DEF HandledInOrder
<1> QED
  BY <1>1, Invariant, PTL

(* ClientClose of core/client.go, run by reader and writer at any time and  *)
(* while the processor still joins: no queue is closed twice, and a server  *)
(* that survives has the client out of the channel if the channel has the   *)
(* client's id, and in it for good if it was made for another group.        *)
THEOREM LeftOrKept == Spec => []LeavesChannelOfItsId
<1>1. IInv => LeavesChannelOfItsId
  <2> SUFFICES ASSUME IInv, Ended PROVE member <=> ~idIsGroup /\ handled # <<>>
    BY DEF IInv, LeavesChannelOfItsId
  <2> USE DEF Ended, Running
  <2>1. CASE idIsGroup
    BY <2>1 DEF IInv, JoinedTooLate, Removed
  <2>2. CASE ~idIsGroup
    BY <2>2 DEF IInv, InFromTheJoin
  <2> QED
    BY <2>1, <2>2
<1> QED
  BY <1>1, Invariant, PTL

(* After a teardown nobody sends to the queues it has closed but a worker,  *)
(* which can only find a client that was left in the channel of another     *)
(* group (ClientClose of core/client.go, Broadcast and GetClient of         *)
(* core/channel.go).                                                        *)
THEOREM TeardownStays == Spec => TeardownIsFinal
<1>1. IInv /\ [Next]_vars => (Over => Over' \/ (~idIsGroup /\ panic' = "worker"))
  <2> DEFINE Goal == Over' \/ (~idIsGroup /\ panic' = "worker")
  <2> SUFFICES ASSUME IInv, [Next]_vars, Over PROVE Goal
    OBVIOUS
  <2> USE DEF Over, Ended, Running
  <2>1. /\ \A g \in Closers : step[g] = "enter"
        /\ ~outOpen /\ ~inOpen /\ disconnected /\ socket = "broken" /\ incoming = <<>>
        /\ idIsGroup => ~member
    BY DEF IInv, OneCloses, ClosedSoFar, ExitedAtTheEnd, JoinedTooLate, Removed
  <2>2. ASSUME UNCHANGED <<panic, once, proc, idIsGroup, holding>>, reader' # "pushing"
        PROVE  Goal
    BY <2>2
  <2>3. CASE SocketBreaks \/ Reader \/ Processor
    BY <2>1, <2>2, <2>3 DEF SocketBreaks, Reader, ReadMessage, ReadError, PushIncoming,
                            Processor, TakeRequest, JoinTransfer, Respond, ProcessorExits,
                            inVars, procVars, closeVars, chanVars
  <2>4. CASE Writer \/ UNCHANGED vars
    BY <2>2, <2>4 DEF Writer, TakeOutgoing, WriteMessage, vars, inVars, procVars, closeVars,
                      chanVars
  <2>5. ASSUME NEW g \in Closers, CloseStep(g) PROVE Goal
    <3>1. EndClose(g)
      BY <2>1, <2>5 DEF CloseStep, BeginClose, EnterOnce, CloseOutgoing, CloseIncoming,
                        StoreDisconnected, ChannelRemoveClient, CloseConn
    <3> QED
      BY <2>2, <3>1 DEF EndClose, procVars, closeVars, chanVars
  <2>6. ASSUME NEW s \in Senders, Prepare(s) PROVE Goal
    <3>1. ~idIsGroup /\ s = "worker"
      BY <2>1, <2>6 DEF Prepare, Senders, IInv, TypeOK
    <3> QED
      BY <2>6, <3>1 DEF Prepare, inVars, procVars, closeVars
  <2>7. ASSUME NEW s \in Senders, Send(s) PROVE Goal
    <3>1. s \in (IF idIsGroup THEN {} ELSE {"worker"})
      BY <2>7 DEF Send
    <3>2. ~idIsGroup /\ s = "worker"
      BY <3>1 DEF IInv, TypeOK
    <3> QED
      BY <2>1, <2>7, <3>2 DEF Send, SendOutgoing
  <2> QED
    BY <2>3, <2>4, <2>5, <2>6, <2>7 DEF Next
<1> QED
  BY <1>1, Invariant, PTL DEF Spec, TeardownIsFinal

--------------------------------------------------------------------------------
(* The inductive invariant of AppSession. *)

NoOrToken == TokenType \union {None}

RequestType ==
  [no : 1 .. MaxRequests, kind : {"check", "login", "signup", "devices"},
   who : Users \union {None}, remember : BOOLEAN, access : NoOrToken, refresh : NoOrToken,
   stage : {"sent", "answered", "received"}, answer : AnswerType, late : BOOLEAN]

(* How long a session may last from the log-in on, by an access token and   *)
(* by a refresh token.                                                      *)
AccessEnds(t)  == t = None \/ t.exp < t.since + RefreshLife + AccessLife
RefreshEnds(t) == t = None \/ t.exp <= t.since + RefreshLife

(* Only a log-in is answered with a refresh token, and with both of them. *)
AnswerFits(kind, a) ==
  /\ a \in AnswerType
  /\ AccessEnds(a.access) /\ RefreshEnds(a.refresh)
  /\ kind # "login" => a.refresh = None
  /\ kind = "login" =>
       \/ a = Refused
       \/ /\ a.ok /\ a.who \in Users /\ a.access # None /\ a.refresh # None
          /\ a.access.user = a.who /\ a.refresh.user = a.who
          /\ a.access.since = a.refresh.since
  /\ kind = "check" /\ a.ok => a.who \in Users

Sound(r) ==
  /\ r \in RequestType
  /\ AccessEnds(r.access) /\ RefreshEnds(r.refresh)
  /\ AnswerFits(r.kind, r.answer)

NoMoreThan(S, n) == IsFiniteSet(S) /\ Cardinality(S) <= n

RequestsInv == NoMoreThan(requests, MaxRequests) /\ \A r \in requests : Sound(r)

CookiesInv ==
  /\ access = None \/ (access \in CookieType /\ now < access.until /\ AccessEnds(access.token))
  /\ refresh = None \/ (refresh \in CookieType /\ now < refresh.until /\ RefreshEnds(refresh.token))

PagesInv == page \in Pages /\ visited \subseteq Pages /\ page \in visited

(* The id that the app has is the user's, or none. *)
UserInv ==
  /\ authChecked \in BOOLEAN /\ isAuthenticated \in BOOLEAN
  /\ user = None \/ (user \in UserType /\ user.id \in {None, user.who})
  /\ isAuthenticated <=> user # None

ConnInv ==
  /\ client = None \/ client \in ClientType
  /\ conn = None \/ conn \in ConnType
  /\ opening \in BOOLEAN /\ (opening => conn # None)
  /\ CurrentHasJoined

ClockInv == now \in 0 .. MaxTime /\ visits \in 0 .. NumVisits /\ crossed \in BOOLEAN

(* What is from the log-in of w at time s. *)
OfLogIn(t, w, s) == t = None \/ (t.user = w /\ t.since = s)

RequestOf(r, w, s) ==
  ~r.late =>
    /\ r.kind # "login" => /\ OfLogIn(r.access, w, s) /\ OfLogIn(r.refresh, w, s)
                           /\ OfLogIn(r.answer.access, w, s)
    /\ r.kind = "check" /\ r.answer.ok => r.answer.who = w
    /\ LoggedIn(r) /\ r.stage = "received" => r.answer.who = w

CookiesOf(w, s) ==
  /\ access # None => OfLogIn(access.token, w, s)
  /\ refresh # None => OfLogIn(refresh.token, w, s)

LogInPending == \E r \in requests : LoggedIn(r) /\ r.stage = "received"

UserOf(w) == user # None /\ ~LogInPending => user.who = w

(* Cookies, requests that are not late, and user are of one log-in. *)
AsOne(w, s) == CookiesOf(w, s) /\ UserOf(w) /\ \A r \in requests : RequestOf(r, w, s)

OneLogIn == ~crossed => \E w, s : AsOne(w, s)

SessionInv ==
  /\ ClockInv /\ CookiesInv /\ PagesInv /\ UserInv /\ ConnInv /\ RequestsInv
  /\ OneLogIn

--------------------------------------------------------------------------------
(* Tokens and answers. *)

(* The fields of a token. *)
LEMMA TokenTyped ==
  ASSUME now \in Nat, NEW u \in Users, NEW life \in Nat, NEW since \in Nat
  PROVE  /\ Token(u, life, since) \in TokenType /\ Token(u, life, since) # None
         /\ Token(u, life, since).user = u
         /\ Token(u, life, since).exp = now + life
         /\ Token(u, life, since).since = since
<1>1. Token(u, life, since) = [user |-> u, exp |-> now + life, since |-> since]
  BY DEF Token
<1>2. Token(u, life, since) \in TokenType
  BY <1>1 DEF TokenType
<1>3. None \notin TokenType
  BY SessionAssumption
<1> QED
  BY <1>1, <1>2, <1>3

(* A refusal fits every request. *)
LEMMA RefusedFits ==
  ASSUME NEW kind
  PROVE  AnswerFits(kind, Refused)
BY DEF AnswerFits, Refused, AnswerType, AccessEnds, RefreshEnds

(* What a log-in is answered with: nothing, or both tokens of one log-in. *)
LEMMA LogInFits ==
  ASSUME ClockInv, NEW r \in RequestType
  PROVE  AnswerFits("login", LogIn(r))
<1>0. /\ now \in Nat /\ AccessLife \in Nat /\ RefreshLife \in Nat
      /\ AccessLife > 0 /\ RefreshLife > 0
  BY SessionAssumption DEF ClockInv
<1>1. CASE r.who = None
  BY <1>1, RefusedFits DEF LogIn
<1>2. CASE r.who # None
  <2>1. PICK w \in Users : w = r.who
    BY <1>2 DEF RequestType
  <2>2. PICK a : a = Token(w, AccessLife, now)
    OBVIOUS
  <2>3. PICK f : f = Token(w, RefreshLife, now)
    OBVIOUS
  <2>4. /\ a \in TokenType /\ a # None
        /\ a.user = w /\ a.exp = now + AccessLife /\ a.since = now
    BY <1>0, <2>2, TokenTyped
  <2>5. /\ f \in TokenType /\ f # None
        /\ f.user = w /\ f.exp = now + RefreshLife /\ f.since = now
    BY <1>0, <2>3, TokenTyped
  <2>6. LogIn(r) = [ok |-> TRUE, who |-> w, access |-> a, refresh |-> f]
    BY <1>2, <2>1, <2>2, <2>3 DEF LogIn
  <2>7. AccessEnds(a) /\ RefreshEnds(f)
    BY <1>0, <2>4, <2>5 DEF AccessEnds, RefreshEnds
  <2> QED
    BY <2>4, <2>5, <2>6, <2>7 DEF AnswerFits, AnswerType
<1> QED
  BY <1>1, <1>2

(* A token that is renewed ends when the refresh token has ended and an    *)
(* access token after it; and it is of the same log-in.                    *)
LEMMA LetIn ==
  ASSUME ClockInv, NEW r, Sound(r)
  PROVE  /\ AuthMiddleware(r) \in AnswerType
         /\ AuthMiddleware(r).refresh = None
         /\ AccessEnds(AuthMiddleware(r).access)
         /\ AuthMiddleware(r).ok => AuthMiddleware(r).who \in Users
         /\ \A w, s : OfLogIn(r.access, w, s) /\ OfLogIn(r.refresh, w, s) =>
              /\ OfLogIn(AuthMiddleware(r).access, w, s)
              /\ AuthMiddleware(r).ok => AuthMiddleware(r).who = w
<1>0. /\ now \in Nat /\ AccessLife \in Nat /\ RefreshLife \in Nat
      /\ AccessLife > 0 /\ RefreshLife > 0
  BY SessionAssumption DEF ClockInv
<1>1. CASE VerifyJWT(r.access)
  <2>1. PICK t : t = r.access
    OBVIOUS
  <2>2. t \in TokenType /\ t # None
    BY <1>1, <2>1 DEF VerifyJWT, Sound, RequestType, NoOrToken
  <2>3. PICK w \in Users : w = t.user
    BY <2>2 DEF TokenType
  <2>4. PICK a : a = [ok |-> TRUE, who |-> w, access |-> None, refresh |-> None]
    OBVIOUS
  <2>5. AuthMiddleware(r) = a
    BY <1>1, <2>1, <2>3, <2>4 DEF AuthMiddleware
  <2>6. a \in AnswerType /\ a.refresh = None /\ a.access = None /\ a.who = w
    BY <2>4 DEF AnswerType
  <2>7. ASSUME NEW u, NEW s, OfLogIn(r.access, u, s) PROVE w = u
    BY <2>1, <2>2, <2>3, <2>7 DEF OfLogIn
  <2> QED
    BY <2>5, <2>6, <2>7 DEF AccessEnds, OfLogIn
<1>2. CASE ~VerifyJWT(r.access) /\ r.access # None /\ VerifyJWT(r.refresh)
  <2>1. PICK f : f = r.refresh
    OBVIOUS
  <2>2. f \in TokenType /\ f # None /\ now < f.exp /\ f.exp <= f.since + RefreshLife
    BY <1>2, <2>1 DEF VerifyJWT, Sound, RequestType, NoOrToken, RefreshEnds
  <2>3. PICK w \in Users : w = f.user
    BY <2>2 DEF TokenType
  <2>4. PICK since \in Nat : since = f.since
    BY <2>2 DEF TokenType
  <2>5. f.exp \in Nat
    BY <2>2 DEF TokenType
  <2>6. PICK t : t = Token(w, AccessLife, since)
    OBVIOUS
  <2>7. t \in TokenType /\ t # None /\ t.user = w /\ t.exp = now + AccessLife /\ t.since = since
    BY <1>0, <2>6, TokenTyped
  <2>8. AccessEnds(t)
    BY <1>0, <2>2, <2>4, <2>5, <2>7 DEF AccessEnds
  <2>9. PICK a : a = [ok |-> TRUE, who |-> w, access |-> t, refresh |-> None]
    OBVIOUS
  <2>10. AuthMiddleware(r) = a
    BY <1>2, <2>1, <2>3, <2>4, <2>6, <2>9 DEF AuthMiddleware, Renewed
  <2>11. a \in AnswerType /\ a.refresh = None /\ a.access = t /\ a.who = w
    BY <2>7, <2>9 DEF AnswerType
  <2>12. ASSUME NEW u, NEW s, OfLogIn(r.refresh, u, s) PROVE w = u /\ OfLogIn(t, u, s)
    BY <2>1, <2>2, <2>3, <2>4, <2>7, <2>12 DEF OfLogIn
  <2> QED
    BY <2>8, <2>10, <2>11, <2>12
<1>3. CASE ~VerifyJWT(r.access) /\ ~(r.access # None /\ VerifyJWT(r.refresh))
  <2>1. AuthMiddleware(r) = Refused
    BY <1>3 DEF AuthMiddleware
  <2> QED
    BY <2>1 DEF Refused, AnswerType, AccessEnds, OfLogIn
<1> QED
  BY <1>1, <1>2, <1>3

--------------------------------------------------------------------------------
(* Requests. *)

(* One more member, one more at most. *)
LEMMA OneMoreThan ==
  ASSUME NEW S, NEW n \in Nat, NoMoreThan(S, n), NEW x
  PROVE  NoMoreThan(S \union {x}, n + 1)
<1>1. Cardinality(S) \in Nat
  BY FS_CardinalityType DEF NoMoreThan
<1> QED
  BY <1>1, FS_AddElement DEF NoMoreThan

(* A subset has no more members. *)
LEMMA SubsetNoMore ==
  ASSUME NEW S, NEW n \in Nat, NoMoreThan(S, n), NEW T, T \subseteq S
  PROVE  NoMoreThan(T, n)
<1>1. Cardinality(S) \in Nat
  BY FS_CardinalityType DEF NoMoreThan
<1>2. IsFiniteSet(T) /\ Cardinality(T) <= Cardinality(S)
  BY FS_Subset DEF NoMoreThan
<1>3. Cardinality(T) \in Nat
  BY <1>2, FS_CardinalityType
<1> QED
  BY <1>1, <1>2, <1>3 DEF NoMoreThan

(* Without one of its members a set has fewer. *)
LEMMA FewerWithout ==
  ASSUME NEW S, NEW n \in Nat, NoMoreThan(S, n), NEW x \in S
  PROVE  n - 1 \in Nat /\ NoMoreThan(S \ {x}, n - 1)
<1>1. PICK T : T = S \ {x}
  OBVIOUS
<1>2. Cardinality(S) \in Nat
  BY FS_CardinalityType DEF NoMoreThan
<1>3. IsFiniteSet(T) /\ Cardinality(T) = Cardinality(S) - 1
  BY <1>1, FS_RemoveElement DEF NoMoreThan
<1>4. Cardinality(T) \in Nat
  BY <1>3, FS_CardinalityType
<1> QED
  BY <1>1, <1>2, <1>3, <1>4 DEF NoMoreThan

(* A log-in makes every other request late. *)
Outdated(S) == {[o EXCEPT !.late = TRUE] : o \in S}

(* Requests that are made late are no more than before. *)
LEMMA AsManyOutdated ==
  ASSUME NEW S, NEW n \in Nat, NoMoreThan(S, n)
  PROVE  NoMoreThan(Outdated(S), n)
<1>1. PICK T : T = Outdated(S)
  OBVIOUS
<1>2. PICK f : f = [o \in S |-> [o EXCEPT !.late = TRUE]]
  OBVIOUS
<1>3. f \in Surjection(S, T)
  BY <1>1, <1>2 DEF Surjection, Outdated
<1>4. Cardinality(S) \in Nat
  BY FS_CardinalityType DEF NoMoreThan
<1>5. IsFiniteSet(T) /\ Cardinality(T) <= Cardinality(S)
  BY <1>3, FS_Surjection DEF NoMoreThan
<1>6. Cardinality(T) \in Nat
  BY <1>5, FS_CardinalityType
<1> QED
  BY <1>1, <1>4, <1>5, <1>6 DEF NoMoreThan

(* While there is room, a number is left for a request. *)
LEMMA NumberLeft ==
  ASSUME NEW S, IsFiniteSet(S), Cardinality(S) < MaxRequests
  PROVE  (CHOOSE n \in 1 .. MaxRequests : \A o \in S : o.no # n) \in 1 .. MaxRequests
<1>0. MaxRequests \in Nat
  BY SessionAssumption
<1>1. PICK T : T = {o.no : o \in S}
  OBVIOUS
<1>2. PICK f : f = [o \in S |-> o.no]
  OBVIOUS
<1>3. f \in Surjection(S, T)
  BY <1>1, <1>2 DEF Surjection
<1>4. IsFiniteSet(T) /\ Cardinality(T) <= Cardinality(S)
  BY <1>3, FS_Surjection
<1>5. Cardinality(T) \in Nat /\ Cardinality(S) \in Nat
  BY <1>4, FS_CardinalityType
<1>6. Cardinality(1 .. MaxRequests) = MaxRequests
  BY <1>0, FS_Interval
<1>7. ~(1 .. MaxRequests \subseteq T)
  <2>1. SUFFICES ASSUME 1 .. MaxRequests \subseteq T PROVE FALSE
    OBVIOUS
  <2>2. Cardinality(1 .. MaxRequests) <= Cardinality(T)
    BY <1>4, <2>1, FS_Subset
  <2> QED
    BY <1>0, <1>4, <1>5, <1>6, <2>2
<1>8. \E n \in 1 .. MaxRequests : \A o \in S : o.no # n
  BY <1>1, <1>7
<1> QED
  BY <1>8

(* A new request is well-formed, and of the log-in that the cookies are of. *)
LEMMA NewRequest ==
  ASSUME CookiesInv, NEW others, IsFiniteSet(others), Cardinality(others) < MaxRequests,
         NEW kind \in {"check", "login", "signup", "devices"},
         NEW w \in Users \union {None}, NEW remember \in BOOLEAN
  PROVE  /\ Sound(Request(others, kind, w, remember))
         /\ ~LoggedIn(Request(others, kind, w, remember))
         /\ \A u, s : CookiesOf(u, s) => RequestOf(Request(others, kind, w, remember), u, s)
<1>1. PICK n \in 1 .. MaxRequests : n = CHOOSE m \in 1 .. MaxRequests : \A o \in others : o.no # m
  BY NumberLeft
<1>2. PICK a : a = Sent(access)
  OBVIOUS
<1>3. PICK f : f = Sent(refresh)
  OBVIOUS
<1>4. /\ a \in NoOrToken /\ AccessEnds(a)
      /\ \A u, s : CookiesOf(u, s) => OfLogIn(a, u, s)
  <2>1. CASE access = None
    BY <1>2, <2>1 DEF Sent, NoOrToken, AccessEnds, OfLogIn
  <2>2. CASE access # None
    BY <1>2, <2>2 DEF Sent, NoOrToken, CookiesInv, CookieType, CookiesOf
  <2> QED
    BY <2>1, <2>2
<1>5. /\ f \in NoOrToken /\ RefreshEnds(f)
      /\ \A u, s : CookiesOf(u, s) => OfLogIn(f, u, s)
  <2>1. CASE refresh = None
    BY <1>3, <2>1 DEF Sent, NoOrToken, RefreshEnds, OfLogIn
  <2>2. CASE refresh # None
    BY <1>3, <2>2 DEF Sent, NoOrToken, CookiesInv, CookieType, CookiesOf
  <2> QED
    BY <2>1, <2>2
<1>6. PICK r : r = [no |-> n, kind |-> kind, who |-> w, remember |-> remember,
                    access |-> a, refresh |-> f, stage |-> "sent", answer |-> Refused, late |-> FALSE]
  OBVIOUS
<1>7. Request(others, kind, w, remember) = r
  BY <1>1, <1>2, <1>3, <1>6 DEF Request
<1>8. Refused \in AnswerType /\ ~Refused.ok /\ Refused.access = None
  BY DEF Refused, AnswerType
<1>9. r \in RequestType
  BY <1>4, <1>5, <1>6, <1>8 DEF RequestType
<1>10. Sound(r)
  <2>1. r.access = a /\ r.refresh = f /\ r.answer = Refused
    BY <1>6
  <2> QED
    BY <1>4, <1>5, <1>9, <2>1, RefusedFits DEF Sound
<1>11. ~LoggedIn(r)
  BY <1>6, <1>8 DEF LoggedIn
<1>12. ASSUME NEW u, NEW s, CookiesOf(u, s) PROVE RequestOf(r, u, s)
  <2>1. OfLogIn(a, u, s) /\ OfLogIn(f, u, s) /\ OfLogIn(None, u, s)
    BY <1>4, <1>5, <1>12 DEF OfLogIn
  <2> QED
    BY <1>6, <1>8, <1>11, <2>1 DEF RequestOf
<1> QED
  BY <1>7, <1>10, <1>11, <1>12

(* Request e is r, but for its stage and answer, or stage and lateness. *)
AnsweredAs(e, r, stage, a) ==
  /\ Sound(e) /\ e.kind = r.kind /\ e.access = r.access /\ e.refresh = r.refresh
  /\ e.late = r.late /\ e.stage = stage /\ e.answer = a

MarkedAs(e, r, stage, late) ==
  /\ Sound(e) /\ e.kind = r.kind /\ e.access = r.access /\ e.refresh = r.refresh
  /\ e.late = late /\ e.stage = stage /\ e.answer = r.answer

(* A request that gets its answer. *)
LEMMA AnswerChanges ==
  ASSUME NEW r, Sound(r), NEW a, AnswerFits(r.kind, a), NEW stage \in {"answered", "received"}
  PROVE  AnsweredAs([r EXCEPT !.stage = stage, !.answer = a], r, stage, a)
<1>0. PICK e : e = [r EXCEPT !.stage = stage, !.answer = a]
  OBVIOUS
<1>1. r \in RequestType /\ a \in AnswerType
  BY DEF Sound, AnswerFits
<1>2. /\ e.kind = r.kind /\ e.access = r.access /\ e.refresh = r.refresh
      /\ e.late = r.late /\ e.stage = stage /\ e.answer = a
  BY <1>0, <1>1 DEF RequestType
<1>3. e \in RequestType
  BY <1>0, <1>1 DEF RequestType
<1>4. Sound(e)
  BY <1>2, <1>3 DEF Sound
<1> QED
  BY <1>0, <1>2, <1>4 DEF AnsweredAs

(* A request that is received, or made late. *)
LEMMA LateChanges ==
  ASSUME NEW r, Sound(r), NEW late \in BOOLEAN, NEW stage \in {"sent", "answered", "received"}
  PROVE  MarkedAs([r EXCEPT !.stage = stage, !.late = late], r, stage, late)
<1>0. PICK e : e = [r EXCEPT !.stage = stage, !.late = late]
  OBVIOUS
<1>1. r \in RequestType
  BY DEF Sound
<1>2. /\ e.kind = r.kind /\ e.access = r.access /\ e.refresh = r.refresh
      /\ e.late = late /\ e.stage = stage /\ e.answer = r.answer
  BY <1>0, <1>1 DEF RequestType
<1>3. e \in RequestType
  BY <1>0, <1>1 DEF RequestType
<1>4. Sound(e)
  BY <1>2, <1>3 DEF Sound
<1> QED
  BY <1>0, <1>2, <1>4 DEF MarkedAs

(* An answer that is of the log-in that the tokens sent are of. *)
AnswerKeeps(r, a) ==
  r.kind # "login" =>
    \A w, s : OfLogIn(r.access, w, s) /\ OfLogIn(r.refresh, w, s) =>
      /\ OfLogIn(a.access, w, s)
      /\ r.kind = "check" /\ a.ok => a.who = w

IsHandled(e, r) ==
  /\ Sound(e) /\ e.late = r.late /\ e.stage = "answered" /\ r.stage = "sent"
  /\ \A w, s : RequestOf(r, w, s) => RequestOf(e, w, s)

(* What the server answers to each kind of request. *)
LEMMA AnswersOf ==
  ASSUME ClockInv, NEW r, Sound(r), Handle(r)
  PROVE  \E a : /\ AnswerFits(r.kind, a) /\ AnswerKeeps(r, a)
                /\ requests' = Becomes(r, [r EXCEPT !.stage = "answered", !.answer = a])
<1>1. r \in RequestType /\ r.kind \in {"check", "login", "signup", "devices"}
  BY DEF Sound, RequestType
<1>2. Refused \in AnswerType /\ ~Refused.ok /\ Refused.access = None
  BY DEF Refused, AnswerType
<1>3. \A w, s : OfLogIn(None, w, s)
  BY DEF OfLogIn
<1>4. CASE r.kind = "login"
  <2>1. PICK a \in {LogIn(r), Refused} :
          requests' = Becomes(r, [r EXCEPT !.stage = "answered", !.answer = a])
    BY <1>4, Zenon DEF Handle
  <2>2. AnswerFits(r.kind, a)
    BY <1>1, <1>4, <2>1, LogInFits, RefusedFits
  <2>3. AnswerKeeps(r, a)
    BY <1>4 DEF AnswerKeeps
  <2> QED
    BY <2>1, <2>2, <2>3, Zenon
<1>5. CASE r.kind = "signup"
  <2>1. PICK a \in {Refused, [Refused EXCEPT !.ok = TRUE]} :
          requests' = Becomes(r, [r EXCEPT !.stage = "answered", !.answer = a])
    BY <1>5 DEF Handle
  <2>2. a = Refused \/ a = [ok |-> TRUE, who |-> None, access |-> None, refresh |-> None]
    BY <2>1 DEF Refused
  <2>3. a \in AnswerType /\ a.access = None /\ a.refresh = None
    <3>1. CASE a = Refused
      BY <3>1 DEF Refused, AnswerType
    <3>2. CASE a = [ok |-> TRUE, who |-> None, access |-> None, refresh |-> None]
      BY <3>2 DEF AnswerType
    <3> QED
      BY <2>2, <3>1, <3>2
  <2>4. AnswerFits(r.kind, a)
    BY <1>5, <2>3 DEF AnswerFits, AccessEnds, RefreshEnds
  <2>5. AnswerKeeps(r, a)
    BY <1>3, <1>5, <2>3 DEF AnswerKeeps
  <2> QED
    BY <2>1, <2>4, <2>5, Zenon
<1>6. CASE r.kind \in {"check", "devices"}
  <2>1. PICK let : let = AuthMiddleware(r)
    OBVIOUS
  <2>2. PICK a \in {let, [let EXCEPT !.ok = FALSE]} :
          requests' = Becomes(r, [r EXCEPT !.stage = "answered", !.answer = a])
    BY <1>6, <2>1 DEF Handle
  <2>3. /\ let \in AnswerType /\ let.refresh = None /\ AccessEnds(let.access)
        /\ let.ok => let.who \in Users
    BY <2>1, LetIn
  <2>4. /\ a \in AnswerType /\ a.refresh = None /\ a.access = let.access /\ a.who = let.who
        /\ a.ok => let.ok
    BY <2>2, <2>3 DEF AnswerType
  <2>5. AnswerFits(r.kind, a)
    BY <1>6, <2>3, <2>4 DEF AnswerFits, RefreshEnds
  <2>6. ASSUME NEW w, NEW s, OfLogIn(r.access, w, s), OfLogIn(r.refresh, w, s)
        PROVE  OfLogIn(a.access, w, s) /\ (a.ok => a.who = w)
    <3>1. OfLogIn(let.access, w, s) /\ (let.ok => let.who = w)
      BY <2>1, <2>6, LetIn, Zenon
    <3> QED
      BY <2>4, <3>1
  <2>7. AnswerKeeps(r, a)
    BY <2>6 DEF AnswerKeeps
  <2> QED
    BY <2>2, <2>5, <2>7, Zenon
<1> QED
  BY <1>1, <1>4, <1>5, <1>6, Zenon

(* A request that is handled is still of the log-in that it was of. *)
LEMMA Handled ==
  ASSUME ClockInv, NEW r, Sound(r), Handle(r)
  PROVE  \E e : requests' = Becomes(r, e) /\ IsHandled(e, r)
<1>1. PICK a : /\ AnswerFits(r.kind, a) /\ AnswerKeeps(r, a)
               /\ requests' = Becomes(r, [r EXCEPT !.stage = "answered", !.answer = a])
  BY AnswersOf, Zenon
<1>2. PICK e : e = [r EXCEPT !.stage = "answered", !.answer = a]
  OBVIOUS
<1>3. AnsweredAs(e, r, "answered", a)
  <2>1. "answered" \in {"answered", "received"}
    OBVIOUS
  <2>2. AnsweredAs([r EXCEPT !.stage = "answered", !.answer = a], r, "answered", a)
    BY <1>1, <2>1, AnswerChanges, Zenon
  <2> QED
    BY <1>2, <2>2
<1>4. ASSUME NEW w, NEW s, RequestOf(r, w, s) PROVE RequestOf(e, w, s)
  <2>1. CASE r.late
    BY <1>3, <2>1 DEF RequestOf, AnsweredAs
  <2>2. CASE ~r.late /\ r.kind = "login"
    BY <1>3, <2>2 DEF RequestOf, AnsweredAs, LoggedIn
  <2>3. CASE ~r.late /\ r.kind # "login"
    <3>1. OfLogIn(r.access, w, s) /\ OfLogIn(r.refresh, w, s)
      BY <1>4, <2>3 DEF RequestOf
    <3>2. OfLogIn(a.access, w, s) /\ (r.kind = "check" /\ a.ok => a.who = w)
      BY <1>1, <2>3, <3>1, Zenon DEF AnswerKeeps
    <3> QED
      BY <1>3, <2>3, <3>1, <3>2 DEF RequestOf, AnsweredAs, LoggedIn
  <2> QED
    BY <2>1, <2>2, <2>3
<1>5. r.stage = "sent"
  BY DEF Handle
<1> QED
  BY <1>1, <1>2, <1>3, <1>4, <1>5 DEF IsHandled, AnsweredAs

IsLost(e, r) ==
  /\ Sound(e) /\ ~LoggedIn(e) /\ r.stage # "received"
  /\ \A w, s : RequestOf(r, w, s) => RequestOf(e, w, s)

(* So is one whose answer is lost. *)
LEMMA Lost ==
  ASSUME NEW r, Sound(r), Lose(r)
  PROVE  \E e : requests' = Becomes(r, e) /\ IsLost(e, r)
<1>1. PICK e : e = [r EXCEPT !.stage = "received", !.answer = Refused]
  OBVIOUS
<1>2. requests' = Becomes(r, e) /\ r.stage \in {"sent", "answered"}
  BY <1>1 DEF Lose
<1>3. AnsweredAs(e, r, "received", Refused)
  <2>1. AnswerFits(r.kind, Refused)
    BY RefusedFits
  <2>2. "received" \in {"answered", "received"}
    OBVIOUS
  <2>3. AnsweredAs([r EXCEPT !.stage = "received", !.answer = Refused], r, "received", Refused)
    BY <2>1, <2>2, AnswerChanges, Zenon
  <2> QED
    BY <1>1, <2>3
<1>4. ~Refused.ok /\ Refused.access = None
  BY DEF Refused
<1>5. ~LoggedIn(e)
  BY <1>3, <1>4 DEF LoggedIn, AnsweredAs
<1>6. ASSUME NEW w, NEW s, RequestOf(r, w, s) PROVE RequestOf(e, w, s)
  <2>1. OfLogIn(Refused.access, w, s)
    BY <1>4 DEF OfLogIn
  <2> QED
    BY <1>3, <1>4, <1>5, <1>6, <2>1 DEF RequestOf, AnsweredAs
<1> QED
  BY <1>2, <1>3, <1>5, <1>6 DEF IsLost, AnsweredAs

IsReceived(e, r) == MarkedAs(e, r, "received", r.late /\ ~LoggedIn(r))

(* What becomes of the requests when an answer comes. *)
LEMMA Received ==
  ASSUME NEW r, Sound(r), Receive(r)
  PROVE  \E e : /\ IsReceived(e, r) /\ r.stage = "answered"
                /\ LoggedIn(r) => requests' = {e} \union Outdated(requests \ {r})
                /\ ~LoggedIn(r) => requests' = Becomes(r, e)
<1>1. PICK late : late = (r.late /\ ~LoggedIn(r))
  OBVIOUS
<1>2. late \in BOOLEAN /\ r.late \in BOOLEAN
  BY <1>1 DEF Sound, RequestType
<1>3. PICK e : e = [r EXCEPT !.stage = "received", !.late = late]
  OBVIOUS
<1>4. MarkedAs(e, r, "received", late)
  <2>1. "received" \in {"sent", "answered", "received"}
    OBVIOUS
  <2>2. MarkedAs([r EXCEPT !.stage = "received", !.late = late], r, "received", late)
    BY <1>2, <2>1, LateChanges, Zenon
  <2> QED
    BY <1>3, <2>2
<1>5. [r EXCEPT !.stage = "received", !.late = @ /\ ~LoggedIn(r)] = e
  BY <1>1, <1>3
<1>6. requests' = {e} \union (IF LoggedIn(r) THEN Outdated(requests \ {r}) ELSE requests \ {r})
  BY <1>5, Zenon DEF Receive, Outdated
<1>7. r.stage = "answered"
  BY DEF Receive
<1>8. CASE LoggedIn(r)
  BY <1>1, <1>4, <1>6, <1>7, <1>8 DEF IsReceived
<1>9. CASE ~LoggedIn(r)
  <2>1. {e} \union (requests \ {r}) = Becomes(r, e)
    BY DEF Becomes
  <2> QED
    BY <1>1, <1>4, <1>6, <1>7, <1>9, <2>1 DEF IsReceived
<1> QED
  BY <1>8, <1>9

(* The fields of a cookie; it is not expired when it is set. *)
LEMMA CookieTyped ==
  ASSUME now \in Nat, NEW t \in TokenType, NEW age \in Nat \ {0}
  PROVE  /\ Cookie(t, age) \in CookieType /\ Cookie(t, age) # None
         /\ Cookie(t, age).token = t /\ now < Cookie(t, age).until
<1>1. Cookie(t, age) = [token |-> t, until |-> now + age]
  BY DEF Cookie
<1>2. now + age \in Nat /\ now < now + age
  OBVIOUS
<1>3. Cookie(t, age) \in CookieType
  BY <1>1, <1>2 DEF CookieType
<1>4. None \notin CookieType
  BY SessionAssumption
<1> QED
  BY <1>1, <1>2, <1>3, <1>4

(* The cookies after an answer has come. *)
LEMMA CookiesReceived ==
  ASSUME ClockInv, CookiesInv, NEW r, Sound(r), Receive(r)
  PROVE  /\ CookiesInv'
         /\ r.answer.access # None => access' # None /\ access'.token = r.answer.access
         /\ r.answer.access = None => access' = access
         /\ r.answer.refresh # None => refresh' # None /\ refresh'.token = r.answer.refresh
         /\ r.answer.refresh = None => refresh' = refresh
<1>0. /\ now \in Nat /\ now' = now
      /\ AccessLife \in Nat \ {0} /\ RefreshAge(r) \in Nat \ {0}
  BY SessionAssumption DEF ClockInv, Receive, RequestVars, RefreshAge
<1>1. PICK a : a = r.answer.access
  OBVIOUS
<1>2. PICK f : f = r.answer.refresh
  OBVIOUS
<1>3. a \in NoOrToken /\ f \in NoOrToken /\ AccessEnds(a) /\ RefreshEnds(f)
  BY <1>1, <1>2 DEF Sound, AnswerFits, AnswerType, NoOrToken
<1>4. /\ access' = IF a = None THEN access ELSE Cookie(a, AccessLife)
      /\ refresh' = IF f = None THEN refresh ELSE Cookie(f, RefreshAge(r))
  BY <1>1, <1>2 DEF Receive
<1>5. /\ a # None => access' # None /\ access'.token = a
      /\ access' = None \/ (access' \in CookieType /\ now' < access'.until /\ AccessEnds(access'.token))
  <2>1. CASE a = None
    BY <1>0, <1>4, <2>1 DEF CookiesInv
  <2>2. CASE a # None
    <3>1. a \in TokenType
      BY <1>3, <2>2 DEF NoOrToken
    <3>2. access' = Cookie(a, AccessLife)
      BY <1>4, <2>2
    <3> QED
      BY <1>0, <1>3, <3>1, <3>2, CookieTyped
  <2> QED
    BY <2>1, <2>2
<1>6. /\ f # None => refresh' # None /\ refresh'.token = f
      /\ refresh' = None
           \/ (refresh' \in CookieType /\ now' < refresh'.until /\ RefreshEnds(refresh'.token))
  <2>1. CASE f = None
    BY <1>0, <1>4, <2>1 DEF CookiesInv
  <2>2. CASE f # None
    <3>1. f \in TokenType
      BY <1>3, <2>2 DEF NoOrToken
    <3>2. refresh' = Cookie(f, RefreshAge(r))
      BY <1>4, <2>2
    <3> QED
      BY <1>0, <1>3, <3>1, <3>2, CookieTyped
  <2> QED
    BY <2>1, <2>2
<1> QED
  BY <1>1, <1>2, <1>4, <1>5, <1>6 DEF CookiesInv

--------------------------------------------------------------------------------
(* Pages. *)

Grown(others) ==
  \/ requests' = others
  \/ /\ Cardinality(others) < MaxRequests
     /\ requests' = others \union {Request(others, "check", None, FALSE)}

(* What coming to a page does. *)
LEMMA Arrives ==
  ASSUME PagesInv, NEW from \in Pages, NEW p \in Pages, NEW others, NEW syncs \in {0, 1},
         GoTo(from, p, others, syncs)
  PROVE  /\ PagesInv' /\ Grown(others)
         /\ \E n \in 0 .. 2 : SyncClient(n) /\ (syncs > 0 => n > 0)
<1>1. PagesInv'
  BY DEF GoTo, Landing, Pages, PagesInv
<1>2. Grown(others)
  BY DEF GoTo, CheckOnArrival, Room, Grown
<1>3. PICK n : n = syncs + (IF BringsHome(from, p) THEN 1 ELSE 0)
  OBVIOUS
<1>4. n \in 0 .. 2 /\ (syncs > 0 => n > 0)
  BY <1>3
<1>5. SyncClient(n)
  BY <1>3 DEF GoTo
<1> QED
  BY <1>1, <1>2, <1>4, <1>5

(* The steps of the app that bring it to a page. *)
Arriving ==
  \/ \E p \in Pages : Browse(p)
  \/ \E r \in requests :
       FinishCheck(r) \/ (FinishLogin(r) /\ Succeeds(r)) \/ (FinishSignUp(r) /\ r.answer.ok)

(* Such steps keep the pages, and synchronise the client up to twice. *)
LEMMA ArrivingStep ==
  ASSUME PagesInv, Arriving
  PROVE  /\ PagesInv'
         /\ \E n \in 0 .. 2 : SyncClient(n)
<1>0. page \in Pages /\ "home" \in Pages /\ 0 \in {0, 1} /\ 1 \in {0, 1}
  BY DEF PagesInv, Pages
<1>1. ASSUME NEW p \in Pages, Browse(p) PROVE PagesInv' /\ \E n \in 0 .. 2 : SyncClient(n)
  <2>1. GoTo(page, p, requests, 0)
    BY <1>1 DEF Browse
  <2> QED
    BY <1>0, <2>1, Arrives, Zenon
<1>2. ASSUME NEW r, FinishCheck(r) PROVE PagesInv' /\ \E n \in 0 .. 2 : SyncClient(n)
  <2>1. GoTo(page, page, requests \ {r}, 1)
    BY <1>2 DEF FinishCheck
  <2> QED
    BY <1>0, <2>1, Arrives, Zenon
<1>3. ASSUME NEW r, FinishLogin(r), Succeeds(r) PROVE PagesInv' /\ \E n \in 0 .. 2 : SyncClient(n)
  <2>1. GoTo(page, "home", requests \ {r}, 0)
    BY <1>3 DEF FinishLogin
  <2> QED
    BY <1>0, <2>1, Arrives, Zenon
<1>4. ASSUME NEW r, FinishSignUp(r), r.answer.ok PROVE PagesInv' /\ \E n \in 0 .. 2 : SyncClient(n)
  <2>1. GoTo(page, "home", requests \ {r}, 0)
    BY <1>4 DEF FinishSignUp
  <2> QED
    BY <1>0, <2>1, Arrives, Zenon
<1> QED
  BY <1>1, <1>2, <1>3, <1>4 DEF Arriving

--------------------------------------------------------------------------------
(* The kinds of steps. *)

Kinds == {"check", "login", "signup", "devices"}

(* A request is sent from the page. *)
Sends ==
  /\ Visit /\ Cardinality(requests) < MaxRequests
  /\ \E kind \in Kinds, w \in Users \union {None}, remember \in BOOLEAN :
       requests' = requests \union {Request(requests, kind, w, remember)}
  /\ UNCHANGED <<now, cookieVars, page, visited, appVars, connVars, crossed>>

(* An answer is read and changes nothing. *)
Drops(r) ==
  /\ ~LoggedIn(r)
  /\ requests' = requests \ {r}
  /\ UNCHANGED <<RequestVars, cookieVars, crossed>>

(* A connection opens or closes. *)
ConnSteps ==
  /\ ConnOpens \/ OlderOpens \/ ConnCloses
  /\ UNCHANGED <<now, cookieVars, page, visited, appVars, client, requests, crossed, visits>>

Answering(r) == Handle(r) \/ Lose(r) \/ Receive(r)

AnyStep ==
  \/ \E p \in Pages : Load(p)
  \/ Arriving
  \/ Sends
  \/ \E r \in requests : Answering(r) \/ Drops(r)
  \/ ConnSteps
  \/ Tick
  \/ UNCHANGED sessionVars

(* What the user does is a step of one of these kinds. *)
LEMMA KindOfUserStep ==
  ASSUME UserStep
  PROVE  AnyStep
<1>1. CASE \E p \in Pages : Load(p) \/ Browse(p)
  BY <1>1 DEF AnyStep, Arriving
<1>2. ASSUME NEW w \in Users \union {None}, NEW remember \in BOOLEAN, Submit(w, remember)
      PROVE  Sends
  <2>1. "login" \in Kinds
    BY DEF Kinds
  <2>2. requests' = requests \union {Request(requests, "login", w, remember)}
    BY <1>2 DEF Submit
  <2>3. \E kind \in Kinds, u \in Users \union {None}, b \in BOOLEAN :
          requests' = requests \union {Request(requests, kind, u, b)}
    BY <1>2, <2>1, <2>2, Zenon
  <2> QED
    BY <1>2, <2>3 DEF Submit, Sends, Room
<1>3. CASE SubmitSignUp
  <2>1. "signup" \in Kinds /\ None \in Users \union {None} /\ FALSE \in BOOLEAN
    BY DEF Kinds
  <2>2. requests' = requests \union {Request(requests, "signup", None, FALSE)}
    BY <1>3 DEF SubmitSignUp
  <2>3. \E kind \in Kinds, u \in Users \union {None}, b \in BOOLEAN :
          requests' = requests \union {Request(requests, kind, u, b)}
    BY <2>1, <2>2, Zenon
  <2> QED
    BY <1>3, <2>3 DEF SubmitSignUp, Sends, Room, AnyStep
<1>4. CASE ScanDevices
  <2>1. "devices" \in Kinds /\ None \in Users \union {None} /\ FALSE \in BOOLEAN
    BY DEF Kinds
  <2>2. requests' = requests \union {Request(requests, "devices", None, FALSE)}
    BY <1>4 DEF ScanDevices
  <2>3. \E kind \in Kinds, u \in Users \union {None}, b \in BOOLEAN :
          requests' = requests \union {Request(requests, kind, u, b)}
    BY <2>1, <2>2, Zenon
  <2> QED
    BY <1>4, <2>3 DEF ScanDevices, Sends, Room, AnyStep
<1> QED
  BY <1>1, <1>2, <1>3, <1>4 DEF UserStep, AnyStep

(* To read an answer is to arrive at a page, or to drop the answer. *)
LEMMA KindOfFinish ==
  ASSUME NEW r \in requests, Finish(r)
  PROVE  Arriving \/ Drops(r)
<1>1. CASE FinishScan(r)
  BY <1>1 DEF FinishScan, Drops, LoggedIn
<1>2. CASE FinishLogin(r) /\ ~Succeeds(r)
  BY <1>2 DEF FinishLogin, Drops, LoggedIn, Succeeds, RequestVars
<1>3. CASE FinishSignUp(r) /\ ~r.answer.ok
  BY <1>3 DEF FinishSignUp, Drops, LoggedIn, RequestVars
<1> QED
  BY <1>1, <1>2, <1>3 DEF Finish, Arriving

(* Every step is of one of these kinds. *)
LEMMA KindOfStep ==
  ASSUME [SessionNext]_sessionVars
  PROVE  AnyStep
<1>1. CASE UserStep
  BY <1>1, KindOfUserStep
<1>2. ASSUME NEW r \in requests, Handle(r) \/ Lose(r) \/ Receive(r) PROVE AnyStep
  BY <1>2, Zenon DEF Answering, AnyStep
<1>3. ASSUME NEW r \in requests, Finish(r) PROVE AnyStep
  BY <1>3, KindOfFinish, Zenon DEF AnyStep
<1>4. CASE ConnOpens \/ OlderOpens \/ ConnCloses
  <2>1. UNCHANGED <<now, cookieVars, page, visited, appVars, client, requests, crossed, visits>>
    BY <1>4 DEF ConnOpens, OlderOpens, ConnCloses
  <2> QED
    BY <1>4, <2>1 DEF ConnSteps, AnyStep
<1> QED
  BY <1>1, <1>2, <1>3, <1>4, Zenon DEF AnyStep, SessionNext, RequestStep

(* What answering, and all that brings no page, leave as it is. *)
LEMMA AnsweringLeaves ==
  ASSUME NEW r, Answering(r) \/ Drops(r)
  PROVE  UNCHANGED RequestVars
<1>1. CASE Handle(r)
  BY <1>1 DEF Handle
<1>2. CASE Lose(r)
  BY <1>2 DEF Lose
<1>3. CASE Receive(r)
  BY <1>3 DEF Receive
<1>4. CASE Drops(r)
  BY <1>4 DEF Drops
<1> QED
  BY <1>1, <1>2, <1>3, <1>4 DEF Answering

--------------------------------------------------------------------------------
(* The steps of the invariant, part by part. *)

(* Every step keeps the pages. *)
LEMMA PagesStep ==
  ASSUME PagesInv, AnyStep
  PROVE  PagesInv'
<1>0. UNCHANGED <<page, visited>> => PagesInv'
  BY DEF PagesInv
<1>1. ASSUME NEW p \in Pages, Load(p) PROVE PagesInv'
  BY <1>1 DEF Load, PagesInv
<1>2. CASE Arriving
  BY <1>2, ArrivingStep
<1>3. CASE Sends
  BY <1>0, <1>3 DEF Sends
<1>4. ASSUME NEW r, Answering(r) \/ Drops(r) PROVE PagesInv'
  BY <1>0, <1>4, AnsweringLeaves DEF RequestVars
<1>5. CASE ConnSteps \/ Tick \/ UNCHANGED sessionVars
  BY <1>0, <1>5 DEF ConnSteps, Tick, sessionVars
<1> QED
  BY <1>1, <1>2, <1>3, <1>4, <1>5 DEF AnyStep

(* Every step keeps the clock and the counts. *)
LEMMA ClockStep ==
  ASSUME ClockInv, AnyStep, \A r \in requests : r.late \in BOOLEAN
  PROVE  ClockInv'
<1>0. MaxTime \in Nat /\ NumVisits \in Nat
  BY SessionAssumption
<1>v. Visit => visits' \in 0 .. NumVisits
  BY <1>0 DEF Visit, ClockInv
<1>1. ASSUME NEW p \in Pages, Load(p) PROVE ClockInv'
  BY <1>v, <1>1 DEF Load, ClockInv
<1>2. CASE Arriving
  <2>1. ASSUME NEW p \in Pages, Browse(p) PROVE ClockInv'
    BY <1>v, <2>1 DEF Browse, ClockInv
  <2>2. ASSUME NEW r \in requests, FinishCheck(r) \/ (FinishLogin(r) /\ Succeeds(r)) \/ FinishSignUp(r)
        PROVE  ClockInv'
    <3>1. r.late \in BOOLEAN /\ crossed \in BOOLEAN
      BY DEF ClockInv
    <3>2. crossed' = (crossed \/ r.late) \/ crossed' = crossed
      BY <2>2, Zenon DEF FinishCheck, FinishLogin, FinishSignUp
    <3>3. crossed' \in BOOLEAN
      BY <3>1, <3>2
    <3>4. now' = now /\ visits' = visits
      BY <2>2 DEF FinishCheck, FinishLogin, FinishSignUp
    <3> QED
      BY <3>3, <3>4 DEF ClockInv
  <2> QED
    BY <1>2, <2>1, <2>2 DEF Arriving
<1>3. CASE Sends
  BY <1>v, <1>3 DEF Sends, ClockInv
<1>4. ASSUME NEW r \in requests, Answering(r) \/ Drops(r) PROVE ClockInv'
  <2>1. crossed \in BOOLEAN
    BY DEF ClockInv
  <2>2. crossed' \in BOOLEAN
    <3>1. CASE Receive(r)
      BY <3>1 DEF Receive
    <3>2. CASE Handle(r)
      BY <2>1, <3>2 DEF Handle
    <3>3. CASE Lose(r)
      BY <2>1, <3>3 DEF Lose
    <3>4. CASE Drops(r)
      BY <2>1, <3>4 DEF Drops
    <3> QED
      BY <1>4, <3>1, <3>2, <3>3, <3>4 DEF Answering
  <2>3. now' = now /\ visits' = visits
    BY <1>4, AnsweringLeaves DEF RequestVars
  <2> QED
    BY <2>2, <2>3 DEF ClockInv
<1>5. CASE Tick
  BY <1>0, <1>5 DEF Tick, ClockInv
<1>6. CASE ConnSteps \/ UNCHANGED sessionVars
  BY <1>6 DEF ConnSteps, sessionVars, ClockInv
<1> QED
  BY <1>1, <1>2, <1>3, <1>4, <1>5, <1>6 DEF AnyStep

(* Every step keeps the cookies: one that expires is left out. *)
LEMMA CookiesStep ==
  ASSUME ClockInv, CookiesInv, RequestsInv, AnyStep
  PROVE  CookiesInv'
<1>0. UNCHANGED <<now, access, refresh>> => CookiesInv'
  BY DEF CookiesInv
<1>1. ASSUME NEW p \in Pages, Load(p) PROVE CookiesInv'
  BY <1>0, <1>1 DEF Load, cookieVars
<1>2. CASE Arriving
  <2>1. ASSUME NEW p \in Pages, Browse(p) PROVE CookiesInv'
    BY <1>0, <2>1 DEF Browse, cookieVars
  <2>2. ASSUME NEW r \in requests, FinishCheck(r) \/ FinishLogin(r) \/ FinishSignUp(r)
        PROVE  CookiesInv'
    BY <1>0, <2>2 DEF FinishCheck, FinishLogin, FinishSignUp, cookieVars
  <2> QED
    BY <1>2, <2>1, <2>2 DEF Arriving
<1>3. CASE Sends
  BY <1>0, <1>3 DEF Sends, cookieVars
<1>4. ASSUME NEW r \in requests, Answering(r) \/ Drops(r) PROVE CookiesInv'
  <2>0. Sound(r)
    BY DEF RequestsInv
  <2>1. CASE Receive(r)
    BY <2>0, <2>1, CookiesReceived
  <2>2. CASE Handle(r)
    BY <1>0, <2>2 DEF Handle, cookieVars, RequestVars
  <2>3. CASE Lose(r)
    BY <1>0, <2>3 DEF Lose, cookieVars, RequestVars
  <2>4. CASE Drops(r)
    BY <1>0, <2>4 DEF Drops, cookieVars, RequestVars
  <2> QED
    BY <1>4, <2>1, <2>2, <2>3, <2>4 DEF Answering
<1>5. CASE Tick
  <2>1. /\ now \in Nat /\ now' = now + 1
        /\ access' = Left(access) /\ refresh' = Left(refresh)
    BY <1>5 DEF Tick, ClockInv
  <2>2. /\ access' = None \/ (access' = access /\ ~(access.until <= now'))
        /\ refresh' = None \/ (refresh' = refresh /\ ~(refresh.until <= now'))
    BY <2>1 DEF Left
  <2>3. /\ access # None => access.until \in Nat
        /\ refresh # None => refresh.until \in Nat
    BY DEF CookiesInv, CookieType
  <2>4. CookiesInv!1'
    BY <2>1, <2>2, <2>3 DEF CookiesInv
  <2>5. CookiesInv!2'
    BY <2>1, <2>2, <2>3 DEF CookiesInv
  <2> QED
    BY <2>4, <2>5 DEF CookiesInv
<1>6. CASE ConnSteps \/ UNCHANGED sessionVars
  BY <1>0, <1>6 DEF ConnSteps, sessionVars, cookieVars
<1> QED
  BY <1>1, <1>2, <1>3, <1>4, <1>5, <1>6 DEF AnyStep

(* The user after a check or a log-in. *)
LEMMA UserFinished ==
  ASSUME NEW r, Sound(r), FinishCheck(r) \/ (FinishLogin(r) /\ Succeeds(r)), UserInv
  PROVE  UserInv'
<1>0. None \notin UserType
  BY SessionAssumption
<1>1. CASE FinishCheck(r)
  <2>1. r.answer.ok \in BOOLEAN /\ (r.answer.ok => r.answer.who \in Users)
    BY <1>1 DEF Sound, AnswerFits, AnswerType, FinishCheck
  <2>2. /\ isAuthenticated' = r.answer.ok /\ authChecked' = TRUE
        /\ user' = Checked(r)
    BY <1>1 DEF FinishCheck
  <2>3. CASE r.answer.ok
    <3>1. PICK w \in Users : w = r.answer.who
      BY <2>1, <2>3
    <3>2. user' = [who |-> w, id |-> w]
      BY <2>2, <2>3, <3>1 DEF Checked
    <3>3. user' \in UserType /\ user'.id = user'.who
      BY <3>2 DEF UserType
    <3>4. isAuthenticated' = TRUE
      BY <2>1, <2>2, <2>3
    <3> QED
      BY <1>0, <2>2, <3>3, <3>4 DEF UserInv
  <2>4. CASE ~r.answer.ok
    <3>1. user' = None
      BY <2>2, <2>4 DEF Checked
    <3>2. isAuthenticated' = FALSE
      BY <2>1, <2>2, <2>4
    <3> QED
      BY <2>2, <3>1, <3>2 DEF UserInv
  <2> QED
    BY <2>3, <2>4
<1>2. CASE FinishLogin(r) /\ Succeeds(r)
  <2>1. r.answer.who \in Users
    BY <1>2 DEF Sound, AnswerFits, FinishLogin, Succeeds, Refused
  <2>2. PICK w \in Users : w = r.answer.who
    BY <2>1
  <2>3. /\ user' = [who |-> w, id |-> None] /\ isAuthenticated' = TRUE
        /\ authChecked' = authChecked
    BY <1>2, <2>2 DEF FinishLogin
  <2>4. user' \in UserType /\ user'.id = None
    BY <2>3 DEF UserType
  <2> QED
    BY <1>0, <2>3, <2>4 DEF UserInv
<1> QED
  BY <1>1, <1>2

(* Every step keeps what is known of the user. *)
LEMMA UserInvStep ==
  ASSUME UserInv, RequestsInv, AnyStep
  PROVE  UserInv'
<1>0. UNCHANGED appVars => UserInv'
  BY DEF UserInv, appVars
<1>1. ASSUME NEW p \in Pages, Load(p) PROVE UserInv'
  BY <1>1 DEF Load, UserInv
<1>2. CASE Arriving
  <2>1. ASSUME NEW p \in Pages, Browse(p) PROVE UserInv'
    BY <1>0, <2>1 DEF Browse
  <2>2. ASSUME NEW r \in requests, FinishCheck(r) \/ (FinishLogin(r) /\ Succeeds(r)) PROVE UserInv'
    <3>1. Sound(r)
      BY DEF RequestsInv
    <3> QED
      BY <2>2, <3>1, UserFinished
  <2>3. ASSUME NEW r \in requests, FinishSignUp(r), r.answer.ok PROVE UserInv'
    BY <1>0, <2>3 DEF FinishSignUp
  <2> QED
    BY <1>2, <2>1, <2>2, <2>3, Zenon DEF Arriving
<1>3. CASE Sends
  BY <1>0, <1>3 DEF Sends
<1>4. ASSUME NEW r, Answering(r) \/ Drops(r) PROVE UserInv'
  BY <1>0, <1>4, AnsweringLeaves DEF RequestVars
<1>5. CASE ConnSteps \/ Tick \/ UNCHANGED sessionVars
  BY <1>0, <1>5 DEF ConnSteps, Tick, sessionVars
<1> QED
  BY <1>1, <1>2, <1>3, <1>4, <1>5 DEF AnyStep

(* The connection and its client after the app has synchronised them. *)
LEMMA Synced ==
  ASSUME ConnInv, UserInv', NEW n \in 0 .. 2, SyncClient(n),
         n = 0 => user' = user \/ user' = None \/ user'.id = None
  PROVE  ConnInv'
<1>0. None \notin ConnType /\ None \notin ClientType
  BY SessionAssumption
<1>1. CASE n = 0
  <2>1. UNCHANGED <<client, conn, opening>>
    BY <1>1 DEF SyncClient, connVars
  <2> QED
    BY <1>1, <2>1 DEF ConnInv, CurrentHasJoined
<1>2. CASE n # 0 /\ user' = None
  <2>1. client' = None /\ UNCHANGED <<conn, opening>>
    BY <1>2 DEF SyncClient
  <2> QED
    BY <1>2, <2>1 DEF ConnInv, CurrentHasJoined
<1>3. CASE n # 0 /\ user' # None
  <2>1. PICK id \in Users \union {None} : id = user'.id
    BY <1>3 DEF UserInv, UserType
  <2>2. client' = [id |-> id] /\ conn' = [state |-> "opening", joined |-> {}]
    BY <1>3, <2>1 DEF SyncClient
  <2>3. opening' \in BOOLEAN
    BY <1>3 DEF SyncClient
  <2>4. client' \in ClientType /\ client' # None
    BY <1>0, <2>2 DEF ClientType
  <2>5. conn' \in ConnType /\ conn' # None /\ conn'.state = "opening"
    BY <1>0, <2>2 DEF ConnType
  <2>6. id = None \/ id = user'.who
    BY <1>3, <2>1 DEF UserInv
  <2>7. CurrentHasJoined'
    BY <2>1, <2>2, <2>5, <2>6 DEF CurrentHasJoined
  <2> QED
    BY <2>3, <2>4, <2>5, <2>7 DEF ConnInv
<1> QED
  BY <1>1, <1>2, <1>3

(* A connection that opens, and any that is open when another one opens,   *)
(* is joined with the client.                                              *)
LEMMA Joined ==
  ASSUME ConnInv, NEW c \in ConnType
  PROVE  /\ JoinWith(c) \in ConnType /\ JoinWith(c).state = c.state
         /\ c.state = "open" /\ client # None => client.id \in JoinWith(c).joined
<1>1. CASE client # None /\ c.state = "open"
  <2>1. PICK id \in Users \union {None} : id = client.id
    BY <1>1 DEF ConnInv, ClientType
  <2>2. PICK j \in SUBSET (Users \union {None}) : j = c.joined
    BY DEF ConnType
  <2>3. JoinWith(c) = [c EXCEPT !.joined = j \union {id}]
    BY <1>1, <2>1, <2>2 DEF JoinWith
  <2>4. JoinWith(c) = [state |-> "open", joined |-> j \union {id}]
    BY <1>1, <2>3 DEF ConnType
  <2> QED
    BY <1>1, <2>1, <2>4 DEF ConnType
<1>2. CASE ~(client # None /\ c.state = "open")
  BY <1>2 DEF JoinWith
<1> QED
  BY <1>1, <1>2

(* A connection that opens or closes is still joined. *)
LEMMA ConnChanges ==
  ASSUME ConnInv, ConnSteps
  PROVE  ConnInv'
<1>0. None \notin ConnType /\ client' = client /\ user' = user
  BY SessionAssumption DEF ConnSteps, appVars
<1>1. CASE ConnOpens
  <2>1. PICK c : c = [conn EXCEPT !.state = "open"]
    OBVIOUS
  <2>2. c \in ConnType /\ c.state = "open"
    BY <1>1, <2>1 DEF ConnOpens, ConnInv, ConnType
  <2>3. conn' = JoinWith(c) /\ opening' = opening
    BY <1>1, <2>1 DEF ConnOpens
  <2>4. /\ conn' \in ConnType /\ conn'.state = "open"
        /\ client # None => client.id \in conn'.joined
    BY <2>2, <2>3, Joined
  <2> QED
    BY <1>0, <2>3, <2>4 DEF ConnInv, CurrentHasJoined
<1>2. CASE OlderOpens
  <2>1. conn \in ConnType /\ opening' \in BOOLEAN /\ conn' = JoinWith(conn)
    BY <1>2 DEF OlderOpens, ConnInv
  <2>2. /\ conn' \in ConnType /\ conn'.state = conn.state
        /\ conn.state = "open" /\ client # None => client.id \in conn'.joined
    BY <2>1, Joined
  <2> QED
    BY <1>0, <2>1, <2>2 DEF ConnInv, CurrentHasJoined
<1>3. CASE ConnCloses
  <2>1. conn \in ConnType /\ conn' = [conn EXCEPT !.state = "closed"] /\ opening' = opening
    BY <1>3 DEF ConnCloses, ConnInv
  <2>2. conn' \in ConnType /\ conn'.state = "closed"
    BY <2>1 DEF ConnType
  <2> QED
    BY <1>0, <2>1, <2>2 DEF ConnInv, CurrentHasJoined
<1> QED
  BY <1>1, <1>2, <1>3 DEF ConnSteps

(* Every step keeps what is known of the connection and its client. *)
LEMMA ConnStep ==
  ASSUME ConnInv, PagesInv, UserInv', AnyStep
  PROVE  ConnInv'
<1>0. UNCHANGED connVars /\ UNCHANGED user => ConnInv'
  BY DEF ConnInv, CurrentHasJoined, connVars
<1>1. ASSUME NEW p \in Pages, Load(p) PROVE ConnInv'
  BY <1>1 DEF Load, ConnInv, CurrentHasJoined
<1>2. CASE Arriving
  <2>0. page \in Pages /\ "home" \in Pages /\ 0 \in {0, 1} /\ 1 \in {0, 1}
    BY DEF PagesInv, Pages
  <2>1. ASSUME NEW p \in Pages, Browse(p) PROVE ConnInv'
    <3>1. GoTo(page, p, requests, 0) /\ user' = user
      BY <2>1 DEF Browse, appVars
    <3>2. PICK n \in 0 .. 2 : SyncClient(n)
      BY <2>0, <3>1, Arrives, Zenon
    <3> QED
      BY <3>1, <3>2, Synced
  <2>2. ASSUME NEW r, FinishCheck(r) PROVE ConnInv'
    <3>1. GoTo(page, page, requests \ {r}, 1)
      BY <2>2 DEF FinishCheck
    <3>2. PICK n \in 0 .. 2 : SyncClient(n) /\ (1 > 0 => n > 0)
      BY <2>0, <3>1, Arrives, Zenon
    <3>3. n # 0
      BY <3>2
    <3> QED
      BY <3>2, <3>3, Synced
  <2>3. ASSUME NEW r, FinishLogin(r), Succeeds(r) PROVE ConnInv'
    <3>1. GoTo(page, "home", requests \ {r}, 0) /\ user' = [who |-> r.answer.who, id |-> None]
      BY <2>3 DEF FinishLogin
    <3>2. PICK n \in 0 .. 2 : SyncClient(n)
      BY <2>0, <3>1, Arrives, Zenon
    <3>3. user'.id = None
      BY <3>1
    <3> QED
      BY <3>2, <3>3, Synced
  <2>4. ASSUME NEW r, FinishSignUp(r), r.answer.ok PROVE ConnInv'
    <3>1. GoTo(page, "home", requests \ {r}, 0) /\ user' = user
      BY <2>4 DEF FinishSignUp, appVars
    <3>2. PICK n \in 0 .. 2 : SyncClient(n)
      BY <2>0, <3>1, Arrives, Zenon
    <3> QED
      BY <3>1, <3>2, Synced
  <2> QED
    BY <1>2, <2>1, <2>2, <2>3, <2>4, Zenon DEF Arriving
<1>3. CASE Sends
  BY <1>0, <1>3 DEF Sends, appVars
<1>4. ASSUME NEW r, Answering(r) \/ Drops(r) PROVE ConnInv'
  BY <1>0, <1>4, AnsweringLeaves DEF RequestVars, appVars
<1>5. CASE ConnSteps
  BY <1>5, ConnChanges
<1>6. CASE Tick \/ UNCHANGED sessionVars
  BY <1>0, <1>6 DEF Tick, sessionVars, appVars
<1> QED
  BY <1>1, <1>2, <1>3, <1>4, <1>5, <1>6 DEF AnyStep

(* One more request, while there is room for it. *)
GrownBy(others, kind, w, remember) ==
  /\ Cardinality(others) < MaxRequests
  /\ requests' = others \union {Request(others, kind, w, remember)}

(* One more request keeps the requests, and is of the log-in of the cookies. *)
LEMMA Growing ==
  ASSUME CookiesInv, RequestsInv, NEW others, others \subseteq requests,
         NEW kind \in Kinds, NEW w \in Users \union {None}, NEW remember \in BOOLEAN,
         GrownBy(others, kind, w, remember)
  PROVE  /\ RequestsInv'
         /\ \A u, s : CookiesOf(u, s) /\ (\A r \in others : RequestOf(r, u, s)) =>
              \A r \in requests' : RequestOf(r, u, s)
<1>0. MaxRequests \in Nat
  BY SessionAssumption
<1>1. NoMoreThan(others, MaxRequests)
  BY <1>0, SubsetNoMore DEF RequestsInv
<1>2. IsFiniteSet(others) /\ Cardinality(others) < MaxRequests
  BY <1>1 DEF NoMoreThan, GrownBy
<1>3. PICK n : n = Request(others, kind, w, remember)
  OBVIOUS
<1>4. Sound(n) /\ \A u, s : CookiesOf(u, s) => RequestOf(n, u, s)
  BY <1>2, <1>3, NewRequest DEF Kinds
<1>5. requests' = others \union {n}
  BY <1>3 DEF GrownBy
<1>6. Cardinality(others) \in Nat
  BY <1>2, FS_CardinalityType
<1>7. MaxRequests - 1 \in Nat /\ NoMoreThan(others, MaxRequests - 1)
  BY <1>0, <1>2, <1>6 DEF NoMoreThan
<1>8. NoMoreThan(requests', (MaxRequests - 1) + 1)
  BY <1>5, <1>7, OneMoreThan
<1>9. NoMoreThan(requests', MaxRequests)
  BY <1>0, <1>8
<1>10. \A r \in requests' : Sound(r)
  BY <1>4, <1>5 DEF RequestsInv
<1> QED
  BY <1>4, <1>5, <1>9, <1>10 DEF RequestsInv

(* So do the requests after the app has come to a page. *)
LEMMA Arrived ==
  ASSUME CookiesInv, RequestsInv, NEW others, others \subseteq requests, Grown(others)
  PROVE  /\ RequestsInv'
         /\ others \subseteq requests'
         /\ \A u, s : CookiesOf(u, s) /\ (\A r \in others : RequestOf(r, u, s)) =>
              \A r \in requests' : RequestOf(r, u, s)
<1>0. MaxRequests \in Nat
  BY SessionAssumption
<1>1. CASE requests' = others
  <2>1. NoMoreThan(others, MaxRequests)
    BY <1>0, SubsetNoMore DEF RequestsInv
  <2> QED
    BY <1>1, <2>1 DEF RequestsInv
<1>2. CASE GrownBy(others, "check", None, FALSE)
  <2>1. "check" \in Kinds /\ None \in Users \union {None} /\ FALSE \in BOOLEAN
    BY DEF Kinds
  <2>2. others \subseteq requests'
    BY <1>2 DEF GrownBy
  <2> QED
    BY <1>2, <2>1, <2>2, Growing, Zenon
<1> QED
  BY <1>1, <1>2 DEF Grown, GrownBy

(* A request in the place of another one. *)
LEMMA Replaced ==
  ASSUME RequestsInv, NEW r \in requests, NEW e, Sound(e), requests' = Becomes(r, e)
  PROVE  RequestsInv'
<1>0. MaxRequests \in Nat
  BY SessionAssumption
<1>1. MaxRequests - 1 \in Nat /\ NoMoreThan(requests \ {r}, MaxRequests - 1)
  BY <1>0, FewerWithout DEF RequestsInv
<1>2. NoMoreThan((requests \ {r}) \union {e}, (MaxRequests - 1) + 1)
  BY <1>1, OneMoreThan
<1>3. NoMoreThan(requests', MaxRequests)
  BY <1>0, <1>2 DEF Becomes
<1>4. \A x \in requests' : Sound(x)
  BY DEF Becomes, RequestsInv
<1> QED
  BY <1>3, <1>4 DEF RequestsInv

(* A request that is made late is well-formed, and late. *)
LEMMA OutdatedSound ==
  ASSUME NEW S, \A r \in S : Sound(r), NEW x \in Outdated(S)
  PROVE  Sound(x) /\ x.late
<1>1. PICK o \in S : x = [o EXCEPT !.late = TRUE]
  BY DEF Outdated
<1>2. o \in RequestType
  BY DEF Sound
<1>3. x \in RequestType /\ x.late = TRUE
  BY <1>1, <1>2 DEF RequestType
<1>4. x.kind = o.kind /\ x.access = o.access /\ x.refresh = o.refresh /\ x.answer = o.answer
  BY <1>1, <1>2 DEF RequestType
<1> QED
  BY <1>3, <1>4 DEF Sound

(* The requests after a log-in was received are well-formed. *)
LEMMA LogInReplaces ==
  ASSUME RequestsInv, NEW r \in requests, NEW e, Sound(e),
         requests' = {e} \union Outdated(requests \ {r})
  PROVE  RequestsInv'
<1>0. MaxRequests \in Nat
  BY SessionAssumption
<1>1. MaxRequests - 1 \in Nat /\ NoMoreThan(requests \ {r}, MaxRequests - 1)
  BY <1>0, FewerWithout DEF RequestsInv
<1>2. NoMoreThan(Outdated(requests \ {r}), MaxRequests - 1)
  BY <1>1, AsManyOutdated
<1>3. NoMoreThan(Outdated(requests \ {r}) \union {e}, (MaxRequests - 1) + 1)
  BY <1>1, <1>2, OneMoreThan
<1>4. requests' = Outdated(requests \ {r}) \union {e}
  OBVIOUS
<1>5. NoMoreThan(requests', MaxRequests)
  BY <1>0, <1>3, <1>4
<1>6. \A x \in requests \ {r} : Sound(x)
  BY DEF RequestsInv
<1>7. \A x \in requests' : Sound(x)
  BY <1>4, <1>6, OutdatedSound
<1> QED
  BY <1>5, <1>7 DEF RequestsInv

(* No request is under way but, maybe, the check of an app that is loaded. *)
LEMMA FirstCheck ==
  ASSUME CookiesInv, NEW S, S = {} \/ S = {Request({}, "check", None, FALSE)}
  PROVE  /\ NoMoreThan(S, MaxRequests) /\ \A r \in S : Sound(r)
         /\ \A u, s : CookiesOf(u, s) => \A r \in S : RequestOf(r, u, s)
<1>0. MaxRequests \in Nat /\ MaxRequests > 0
  BY SessionAssumption
<1>1. IsFiniteSet({}) /\ Cardinality({}) = 0
  BY FS_EmptySet
<1>2. CASE S = {}
  BY <1>0, <1>1, <1>2 DEF NoMoreThan
<1>3. CASE S = {Request({}, "check", None, FALSE)}
  <2>1. Cardinality({}) < MaxRequests
    BY <1>0, <1>1
  <2>2. /\ "check" \in {"check", "login", "signup", "devices"}
        /\ None \in Users \union {None} /\ FALSE \in BOOLEAN
    OBVIOUS
  <2>3. PICK r : r = Request({}, "check", None, FALSE)
    OBVIOUS
  <2>4. /\ Sound(Request({}, "check", None, FALSE))
        /\ \A u, s : CookiesOf(u, s) => RequestOf(Request({}, "check", None, FALSE), u, s)
    BY <1>1, <2>1, <2>2, NewRequest, Zenon
  <2>5. S = {r} /\ Sound(r) /\ \A u, s : CookiesOf(u, s) => RequestOf(r, u, s)
    BY <1>3, <2>3, <2>4, Zenon
  <2>6. IsFiniteSet({r}) /\ Cardinality({r}) = 1
    BY FS_Singleton
  <2>7. NoMoreThan(S, MaxRequests)
    BY <1>0, <2>5, <2>6 DEF NoMoreThan
  <2> QED
    BY <2>5, <2>7
<1> QED
  BY <1>2, <1>3

(* Every step keeps the requests. *)
LEMMA RequestsStep ==
  ASSUME ClockInv, CookiesInv, PagesInv, RequestsInv, AnyStep
  PROVE  RequestsInv'
<1>0. /\ MaxRequests \in Nat
      /\ UNCHANGED requests => RequestsInv'
  BY SessionAssumption DEF RequestsInv
<1>1. ASSUME NEW p \in Pages, Load(p) PROVE RequestsInv'
  <2>1. requests' = {} \/ requests' = {Request({}, "check", None, FALSE)}
    BY <1>1 DEF Load
  <2> QED
    BY <2>1, FirstCheck DEF RequestsInv
<1>2. CASE Arriving
  <2>0. page \in Pages /\ "home" \in Pages /\ 0 \in {0, 1} /\ 1 \in {0, 1}
    BY DEF PagesInv, Pages
  <2>1. ASSUME NEW p \in Pages, Browse(p) PROVE RequestsInv'
    <3>1. GoTo(page, p, requests, 0)
      BY <2>1 DEF Browse
    <3>2. Grown(requests)
      BY <2>0, <3>1, Arrives, Zenon
    <3> QED
      BY <3>2, Arrived
  <2>2. ASSUME NEW r \in requests,
               FinishCheck(r) \/ (FinishLogin(r) /\ Succeeds(r)) \/ (FinishSignUp(r) /\ r.answer.ok)
        PROVE  RequestsInv'
    <3>1. GoTo(page, page, requests \ {r}, 1) \/ GoTo(page, "home", requests \ {r}, 0)
      BY <2>2 DEF FinishCheck, FinishLogin, FinishSignUp
    <3>2. Grown(requests \ {r})
      BY <2>0, <3>1, Arrives, Zenon
    <3> QED
      BY <3>2, Arrived
  <2> QED
    BY <1>2, <2>1, <2>2, Zenon DEF Arriving
<1>3. CASE Sends
  <2>1. PICK kind \in Kinds, w \in Users \union {None}, remember \in BOOLEAN :
          GrownBy(requests, kind, w, remember)
    BY <1>3, Zenon DEF Sends, GrownBy
  <2>2. requests \subseteq requests
    OBVIOUS
  <2> QED
    BY <2>1, <2>2, Growing, Zenon
<1>4. ASSUME NEW r \in requests, Answering(r) \/ Drops(r) PROVE RequestsInv'
  <2>0. Sound(r)
    BY DEF RequestsInv
  <2>1. CASE Handle(r)
    <3>1. PICK e : requests' = Becomes(r, e) /\ IsHandled(e, r)
      BY <2>0, <2>1, Handled, Zenon
    <3> QED
      BY <3>1, Replaced, Zenon DEF IsHandled
  <2>2. CASE Lose(r)
    <3>1. PICK e : requests' = Becomes(r, e) /\ IsLost(e, r)
      BY <2>0, <2>2, Lost, Zenon
    <3> QED
      BY <3>1, Replaced, Zenon DEF IsLost
  <2>3. CASE Receive(r)
    <3>1. PICK e : /\ IsReceived(e, r)
                   /\ LoggedIn(r) => requests' = {e} \union Outdated(requests \ {r})
                   /\ ~LoggedIn(r) => requests' = Becomes(r, e)
      BY <2>0, <2>3, Received, Zenon
    <3>2. Sound(e)
      BY <3>1 DEF IsReceived, MarkedAs
    <3> QED
      BY <3>1, <3>2, Replaced, LogInReplaces, Zenon
  <2>4. CASE Drops(r)
    <3>1. requests' = requests \ {r}
      BY <2>4 DEF Drops
    <3>2. NoMoreThan(requests', MaxRequests)
      BY <1>0, <3>1, SubsetNoMore DEF RequestsInv
    <3> QED
      BY <3>1, <3>2 DEF RequestsInv
  <2> QED
    BY <1>4, <2>1, <2>2, <2>3, <2>4 DEF Answering
<1>5. CASE ConnSteps \/ Tick \/ UNCHANGED sessionVars
  BY <1>0, <1>5 DEF ConnSteps, Tick, sessionVars
<1> QED
  BY <1>1, <1>2, <1>3, <1>4, <1>5 DEF AnyStep

(* One log-in. *)

(* When it is enough to name the user and the time of the log-in. *)
LEMMA AsOneKept ==
  ASSUME NEW w, NEW s, CookiesOf(w, s)', \A r \in requests' : RequestOf(r, w, s), UserOf(w)'
  PROVE  OneLogIn'
BY DEF OneLogIn, AsOne

(* Steps that leave the cookies: it is enough to look at the user and at   *)
(* the requests.                                                           *)
LEMMA OneLogInArrives ==
  ASSUME CookiesInv, PagesInv, UserInv', RequestsInv, OneLogIn, Arriving
  PROVE  OneLogIn'
<1>0. page \in Pages /\ "home" \in Pages /\ 0 \in {0, 1} /\ 1 \in {0, 1}
  BY DEF PagesInv, Pages
<1>1. ASSUME NEW p \in Pages, Browse(p) PROVE OneLogIn'
  <2>1. /\ GoTo(page, p, requests, 0) /\ user' = user /\ crossed' = crossed
        /\ access' = access /\ refresh' = refresh
    BY <1>1 DEF Browse, appVars, cookieVars
  <2>2. Grown(requests)
    BY <1>0, <2>1, Arrives, Zenon
  <2>3. CASE crossed
    BY <2>1, <2>3 DEF OneLogIn
  <2>4. CASE ~crossed
    <3>1. PICK w, s : AsOne(w, s)
      BY <2>4 DEF OneLogIn
    <3>2. /\ requests \subseteq requests'
          /\ \A r \in requests' : RequestOf(r, w, s)
      BY <2>2, <3>1, Arrived DEF AsOne
    <3>3. CookiesOf(w, s)'
      BY <2>1, <3>1 DEF AsOne, CookiesOf
    <3>4. LogInPending => LogInPending'
      BY <3>2 DEF LogInPending
    <3>5. UserOf(w)'
      BY <2>1, <3>1, <3>4 DEF AsOne, UserOf
    <3> QED
      BY <3>2, <3>3, <3>5, AsOneKept
  <2> QED
    BY <2>3, <2>4
<1>2. ASSUME NEW r \in requests,
             FinishCheck(r) \/ (FinishLogin(r) /\ Succeeds(r)) \/ (FinishSignUp(r) /\ r.answer.ok)
      PROVE  OneLogIn'
  <2>1. /\ GoTo(page, page, requests \ {r}, 1) \/ GoTo(page, "home", requests \ {r}, 0)
        /\ access' = access /\ refresh' = refresh
        /\ crossed => crossed'
    <3>1. CASE FinishCheck(r)
      BY <3>1, Zenon DEF FinishCheck, cookieVars
    <3>2. CASE FinishLogin(r) /\ Succeeds(r)
      BY <3>2, Zenon DEF FinishLogin, cookieVars
    <3>3. CASE FinishSignUp(r) /\ r.answer.ok
      BY <3>3, Zenon DEF FinishSignUp, cookieVars
    <3> QED
      BY <1>2, <3>1, <3>2, <3>3, Zenon
  <2>2. Grown(requests \ {r})
    BY <1>0, <2>1, Arrives, Zenon
  <2>3. CASE crossed'
    BY <2>3 DEF OneLogIn
  <2>4. CASE ~crossed'
    <3>1. PICK w, s : AsOne(w, s)
      BY <2>1, <2>4 DEF OneLogIn
    <3>2. /\ requests \ {r} \subseteq requests'
          /\ \A x \in requests' : RequestOf(x, w, s)
      BY <2>2, <3>1, Arrived DEF AsOne
    <3>3. CookiesOf(w, s)'
      BY <2>1, <3>1 DEF AsOne, CookiesOf
    <3>4. RequestOf(r, w, s)
      BY <3>1 DEF AsOne
    <3>5. CASE FinishCheck(r)
      <4>1. ~r.late /\ user' = Checked(r) /\ r.kind = "check"
        BY <2>4, <3>5 DEF FinishCheck
      <4>2. user' # None => user'.who = w
        BY <3>4, <4>1 DEF Checked, RequestOf
      <4> QED
        BY <3>2, <3>3, <4>2, AsOneKept DEF UserOf
    <3>6. CASE FinishLogin(r) /\ Succeeds(r)
      <4>1. ~r.late /\ LoggedIn(r) /\ r.stage = "received"
        BY <2>4, <3>6 DEF FinishLogin, LoggedIn, Succeeds
      <4>2. user' = [who |-> r.answer.who, id |-> None]
        BY <3>6 DEF FinishLogin
      <4>3. user'.who = w
        BY <3>4, <4>1, <4>2 DEF RequestOf
      <4> QED
        BY <3>2, <3>3, <4>3, AsOneKept DEF UserOf
    <3>7. CASE FinishSignUp(r) /\ r.answer.ok
      <4>1. user' = user /\ ~LoggedIn(r)
        BY <3>7 DEF FinishSignUp, appVars, LoggedIn
      <4>2. LogInPending => LogInPending'
        BY <3>2, <4>1 DEF LogInPending
      <4>3. UserOf(w)'
        BY <3>1, <4>1, <4>2 DEF AsOne, UserOf
      <4> QED
        BY <3>2, <3>3, <4>3, AsOneKept
    <3> QED
      BY <1>2, <3>5, <3>6, <3>7
  <2> QED
    BY <2>3, <2>4
<1> QED
  BY <1>1, <1>2, Zenon DEF Arriving

(* A request in the place of another one, and the user stays. *)
LEMMA OneLogInReplaced ==
  ASSUME NEW r \in requests, NEW e, requests' = Becomes(r, e),
         ~LoggedIn(r) \/ r.stage # "received", user' = user,
         NEW w, NEW s, AsOne(w, s), RequestOf(e, w, s), CookiesOf(w, s)'
  PROVE  OneLogIn'
<1>1. \A x \in requests' : RequestOf(x, w, s)
  BY DEF Becomes, AsOne
<1>2. LogInPending => LogInPending'
  BY DEF LogInPending, Becomes
<1>3. UserOf(w)'
  BY <1>2 DEF AsOne, UserOf
<1> QED
  BY <1>1, <1>3, AsOneKept

(* The cookies of a log-in: everything is of that one from now on. *)
LEMMA OneLogInBegins ==
  ASSUME ClockInv, CookiesInv, RequestsInv, NEW r \in requests, Receive(r), LoggedIn(r)
  PROVE  OneLogIn'
<1>0. Sound(r)
  BY DEF RequestsInv
<1>1. PICK e : /\ IsReceived(e, r)
               /\ LoggedIn(r) => requests' = {e} \union Outdated(requests \ {r})
  BY <1>0, Received, Zenon
<1>2. requests' = {e} \union Outdated(requests \ {r})
  BY <1>1, Zenon
<1>3. PICK w, s : w = r.answer.who /\ s = r.answer.access.since
  OBVIOUS
<1>4. r.kind = "login" /\ r.answer.ok
  BY DEF LoggedIn
<1>5. /\ r.answer.access # None /\ r.answer.refresh # None
      /\ r.answer.access.user = w /\ r.answer.refresh.user = w
      /\ r.answer.access.since = s /\ r.answer.refresh.since = s
  BY <1>0, <1>3, <1>4 DEF Sound, AnswerFits, Refused
<1>6. /\ access' # None => access'.token = r.answer.access
      /\ refresh' # None => refresh'.token = r.answer.refresh
  BY <1>0, <1>5, CookiesReceived
<1>7. CookiesOf(w, s)'
  BY <1>5, <1>6 DEF CookiesOf, OfLogIn
<1>8. e.kind = "login" /\ e.answer = r.answer /\ e.stage = "received" /\ LoggedIn(e)
  BY <1>1, <1>4 DEF IsReceived, MarkedAs, LoggedIn
<1>9. RequestOf(e, w, s)
  BY <1>3, <1>8 DEF RequestOf
<1>10. \A x \in requests \ {r} : Sound(x)
  BY DEF RequestsInv
<1>11. \A x \in Outdated(requests \ {r}) : x.late
  BY <1>10, OutdatedSound
<1>12. \A x \in requests' : RequestOf(x, w, s)
  BY <1>2, <1>9, <1>11 DEF RequestOf
<1>13. UserOf(w)'
  BY <1>2, <1>8 DEF UserOf, LogInPending
<1> QED
  BY <1>7, <1>12, <1>13, AsOneKept

(* To handle, lose or receive an answer keeps the one log-in. *)
LEMMA OneLogInAnswers ==
  ASSUME ClockInv, CookiesInv, RequestsInv, OneLogIn, NEW r \in requests, Answering(r)
  PROVE  OneLogIn'
<1>0. Sound(r) /\ user' = user
  BY AnsweringLeaves DEF RequestsInv, RequestVars, appVars
<1>1. CASE crossed'
  BY <1>1 DEF OneLogIn
<1>2. CASE ~crossed' /\ Handle(r)
  <2>1. PICK e : requests' = Becomes(r, e) /\ IsHandled(e, r)
    BY <1>0, <1>2, Handled, Zenon
  <2>2. ~crossed /\ access' = access /\ refresh' = refresh
    BY <1>2 DEF Handle, cookieVars
  <2>3. PICK w, s : AsOne(w, s)
    BY <2>2 DEF OneLogIn
  <2>4. RequestOf(e, w, s) /\ r.stage # "received"
    BY <2>1, <2>3 DEF IsHandled, AsOne
  <2>5. CookiesOf(w, s)'
    BY <2>2, <2>3 DEF AsOne, CookiesOf
  <2> QED
    BY <1>0, <2>1, <2>3, <2>4, <2>5, OneLogInReplaced, Zenon
<1>3. CASE ~crossed' /\ Lose(r)
  <2>1. PICK e : requests' = Becomes(r, e) /\ IsLost(e, r)
    BY <1>0, <1>3, Lost, Zenon
  <2>2. ~crossed /\ access' = access /\ refresh' = refresh
    BY <1>3 DEF Lose, cookieVars
  <2>3. PICK w, s : AsOne(w, s)
    BY <2>2 DEF OneLogIn
  <2>4. RequestOf(e, w, s) /\ r.stage # "received"
    BY <2>1, <2>3 DEF IsLost, AsOne
  <2>5. CookiesOf(w, s)'
    BY <2>2, <2>3 DEF AsOne, CookiesOf
  <2> QED
    BY <1>0, <2>1, <2>3, <2>4, <2>5, OneLogInReplaced, Zenon
<1>4. CASE ~crossed' /\ Receive(r) /\ ~LoggedIn(r)
  <2>1. PICK e : IsReceived(e, r) /\ requests' = Becomes(r, e)
    BY <1>0, <1>4, Received, Zenon
  <2>2. ~crossed /\ (r.late => r.answer.access = None)
    BY <1>4 DEF Receive
  <2>3. PICK w, s : AsOne(w, s)
    BY <2>2 DEF OneLogIn
  <2>4. /\ e.kind = r.kind /\ e.access = r.access /\ e.refresh = r.refresh
        /\ e.answer = r.answer /\ e.late = (r.late /\ ~LoggedIn(r))
    BY <2>1 DEF IsReceived, MarkedAs
  <2>5. RequestOf(r, w, s)
    BY <2>3 DEF AsOne
  <2>6. e.late <=> r.late
    BY <1>4, <2>4, Zenon
  <2>7. RequestOf(e, w, s)
    BY <1>4, <2>4, <2>5, <2>6 DEF RequestOf, LoggedIn
  <2>8. /\ r.answer.refresh = None
        /\ r.kind = "login" => r.answer.access = None
    BY <1>0, <1>4 DEF Sound, AnswerFits, LoggedIn, Refused
  <2>9. OfLogIn(r.answer.access, w, s)
    BY <2>2, <2>5, <2>8 DEF RequestOf, OfLogIn
  <2>10. /\ r.answer.access # None => access'.token = r.answer.access
         /\ r.answer.access = None => access' = access
         /\ refresh' = refresh
    BY <1>0, <1>4, <2>8, CookiesReceived
  <2>11. CookiesOf(w, s)'
    BY <2>3, <2>9, <2>10 DEF AsOne, CookiesOf
  <2> QED
    BY <1>0, <1>4, <2>1, <2>3, <2>7, <2>11, OneLogInReplaced, Zenon
<1>5. CASE Receive(r) /\ LoggedIn(r)
  BY <1>5, OneLogInBegins
<1> QED
  BY <1>1, <1>2, <1>3, <1>4, <1>5 DEF Answering

(* So does every step. *)
LEMMA OneLogInStep ==
  ASSUME ClockInv, CookiesInv, PagesInv, UserInv', RequestsInv, OneLogIn, AnyStep
  PROVE  OneLogIn'
<1>0. UNCHANGED <<access, refresh, user, requests, crossed>> => OneLogIn'
  BY DEF OneLogIn, AsOne, CookiesOf, UserOf, LogInPending
<1>1. CASE crossed /\ crossed' = crossed
  BY <1>1 DEF OneLogIn
<1>2. ASSUME NEW p \in Pages, Load(p) PROVE OneLogIn'
  <2>1. /\ requests' = {} \/ requests' = {Request({}, "check", None, FALSE)}
        /\ crossed' = crossed /\ user' = None /\ access' = access /\ refresh' = refresh
    BY <1>2 DEF Load, cookieVars
  <2>2. CASE ~crossed
    <3>1. PICK w, s : AsOne(w, s)
      BY <2>2 DEF OneLogIn
    <3>2. \A r \in requests' : RequestOf(r, w, s)
      BY <2>1, <3>1, FirstCheck DEF AsOne
    <3>3. CookiesOf(w, s)' /\ UserOf(w)'
      BY <2>1, <3>1 DEF AsOne, CookiesOf, UserOf
    <3> QED
      BY <3>2, <3>3, AsOneKept
  <2> QED
    BY <1>1, <2>1, <2>2
<1>3. CASE Arriving
  BY <1>3, OneLogInArrives
<1>4. CASE Sends
  <2>1. PICK kind \in Kinds, u \in Users \union {None}, remember \in BOOLEAN :
          GrownBy(requests, kind, u, remember)
    BY <1>4, Zenon DEF Sends, GrownBy
  <2>2. crossed' = crossed /\ user' = user /\ access' = access /\ refresh' = refresh
    BY <1>4 DEF Sends, cookieVars, appVars
  <2>3. CASE ~crossed
    <3>1. PICK w, s : AsOne(w, s)
      BY <2>3 DEF OneLogIn
    <3>2. requests \subseteq requests /\ CookiesOf(w, s) /\ \A r \in requests : RequestOf(r, w, s)
      BY <3>1 DEF AsOne
    <3>3. \A r \in requests' : RequestOf(r, w, s)
      BY <2>1, <3>2, Growing, Zenon
    <3>4. CookiesOf(w, s)'
      BY <2>2, <3>2 DEF CookiesOf
    <3>5. LogInPending => LogInPending'
      BY <2>1 DEF LogInPending, GrownBy
    <3>6. UserOf(w)'
      BY <2>2, <3>1, <3>5 DEF AsOne, UserOf
    <3> QED
      BY <3>3, <3>4, <3>6, AsOneKept
  <2> QED
    BY <1>1, <2>2, <2>3
<1>5. ASSUME NEW r \in requests, Answering(r) PROVE OneLogIn'
  BY <1>5, OneLogInAnswers
<1>6. ASSUME NEW r \in requests, Drops(r) PROVE OneLogIn'
  <2>1. /\ requests' = requests \ {r} /\ ~LoggedIn(r)
        /\ crossed' = crossed /\ user' = user /\ access' = access /\ refresh' = refresh
    BY <1>6 DEF Drops, cookieVars, RequestVars, appVars
  <2>2. CASE ~crossed
    <3>1. PICK w, s : AsOne(w, s)
      BY <2>2 DEF OneLogIn
    <3>2. LogInPending => LogInPending'
      BY <2>1 DEF LogInPending
    <3>3. CookiesOf(w, s)' /\ UserOf(w)'
      BY <2>1, <3>1, <3>2 DEF AsOne, CookiesOf, UserOf
    <3>4. \A x \in requests' : RequestOf(x, w, s)
      BY <2>1, <3>1 DEF AsOne
    <3> QED
      BY <3>3, <3>4, AsOneKept
  <2> QED
    BY <1>1, <2>1, <2>2
<1>7. CASE ConnSteps \/ UNCHANGED sessionVars
  BY <1>0, <1>7 DEF ConnSteps, sessionVars, cookieVars, appVars
<1>8. CASE Tick
  <2>1. /\ access' = Left(access) /\ refresh' = Left(refresh)
        /\ user' = user /\ requests' = requests /\ crossed' = crossed
    BY <1>8 DEF Tick, appVars
  <2>2. (access' = None \/ access' = access) /\ (refresh' = None \/ refresh' = refresh)
    BY <2>1 DEF Left
  <2>3. CASE ~crossed
    <3>1. PICK w, s : AsOne(w, s)
      BY <2>3 DEF OneLogIn
    <3>2. CookiesOf(w, s)' /\ UserOf(w)'
      BY <2>1, <2>2, <3>1 DEF AsOne, CookiesOf, UserOf, LogInPending
    <3>3. \A x \in requests' : RequestOf(x, w, s)
      BY <2>1, <3>1 DEF AsOne
    <3> QED
      BY <3>2, <3>3, AsOneKept
  <2> QED
    BY <1>1, <2>1, <2>3
<1> QED
  BY <1>2, <1>3, <1>4, <1>5, <1>6, <1>7, <1>8 DEF AnyStep

--------------------------------------------------------------------------------
(* The invariant, and what follows from it. *)

(* The invariant holds at first. *)
LEMMA SessionBegins ==
  ASSUME SessionInit
  PROVE  SessionInv
<1>0. MaxTime \in Nat /\ NumVisits \in Nat
  BY SessionAssumption
<1>1. ClockInv /\ CookiesInv /\ PagesInv /\ UserInv /\ ConnInv
  <2>1. ClockInv
    <3>1. now = 0 /\ visits = 0 /\ crossed = FALSE
      BY DEF SessionInit
    <3>2. crossed \in BOOLEAN
      BY <3>1, Zenon
    <3> QED
      BY <1>0, <3>1, <3>2 DEF ClockInv
  <2>2. CookiesInv /\ PagesInv
    BY DEF SessionInit, CookiesInv, PagesInv, Pages
  <2>3. UserInv
    BY DEF SessionInit, UserInv
  <2>4. ConnInv
    BY DEF SessionInit, ConnInv, CurrentHasJoined
  <2> QED
    BY <2>1, <2>2, <2>3, <2>4
<1>2. requests = {Request({}, "check", None, FALSE)} /\ user = None
  BY DEF SessionInit
<1>3. RequestsInv
  BY <1>1, <1>2, FirstCheck DEF RequestsInv
<1>4. CookiesOf(None, None) /\ UserOf(None)
  BY DEF SessionInit, CookiesOf, UserOf
<1>5. \A r \in requests : RequestOf(r, None, None)
  BY <1>1, <1>2, <1>4, FirstCheck
<1>6. OneLogIn
  BY <1>4, <1>5 DEF OneLogIn, AsOne
<1> QED
  BY <1>1, <1>3, <1>6 DEF SessionInv

(* Every step keeps the invariant. *)
LEMMA SessionInvStep ==
  ASSUME SessionInv, [SessionNext]_sessionVars
  PROVE  SessionInv'
<1>0. /\ ClockInv /\ CookiesInv /\ PagesInv /\ UserInv /\ ConnInv /\ RequestsInv /\ OneLogIn
      /\ AnyStep
  BY KindOfStep DEF SessionInv
<1>1. \A r \in requests : r.late \in BOOLEAN
  BY <1>0 DEF RequestsInv, Sound, RequestType
<1>2. ClockInv'
  BY <1>0, <1>1, ClockStep
<1>3. CookiesInv'
  BY <1>0, CookiesStep
<1>4. PagesInv'
  BY <1>0, PagesStep
<1>5. UserInv'
  BY <1>0, UserInvStep
<1>6. ConnInv'
  BY <1>0, <1>5, ConnStep
<1>7. RequestsInv'
  BY <1>0, RequestsStep
<1>8. OneLogIn'
  BY <1>0, <1>5, OneLogInStep
<1> QED
  BY <1>2, <1>3, <1>4, <1>5, <1>6, <1>7, <1>8 DEF SessionInv

(* The invariant always holds. *)
THEOREM SessionInductive == SessionSpec => []SessionInv
<1>1. SessionInit => SessionInv
  BY SessionBegins
<1>2. SessionInv /\ [SessionNext]_sessionVars => SessionInv'
  BY SessionInvStep
<1> QED
  BY <1>1, <1>2, PTL DEF SessionSpec

(* Types; a cookie that is there has not expired, the user is there exactly *)
(* while isAuthenticated, and an older connection only opens while there is *)
(* a current one (useAuthStore.ts, useClientStore.ts).                      *)
THEOREM SessionTypeCorrect == SessionSpec => []SessionTypeOK
<1>1. SessionInv => SessionTypeOK
  <2>0. SUFFICES ASSUME SessionInv PROVE SessionTypeOK
    OBVIOUS
  <2>1. Cardinality(requests) <= MaxRequests
    BY <2>0 DEF SessionInv, RequestsInv, NoMoreThan
  <2>2. \A r \in requests :
          /\ r.kind \in {"check", "login", "signup", "devices"}
          /\ r.stage \in {"sent", "answered", "received"}
          /\ r.answer \in AnswerType
    BY <2>0 DEF SessionInv, RequestsInv, Sound, RequestType
  <2>3. \A c \in {access, refresh} : c = None \/ (c \in CookieType /\ now < c.until)
    BY <2>0 DEF SessionInv, CookiesInv
  <2> QED
    BY <2>0, <2>1, <2>2, <2>3 DEF SessionInv, ClockInv, PagesInv, UserInv, ConnInv, SessionTypeOK
<1> QED
  BY <1>1, SessionInductive, PTL

(* The app shows the user whose cookies it sends: user of useAuthStore.ts,  *)
(* set by checkUser and by the log-in page after their awaits, is the one   *)
(* the tokens that are set by auth_api.go and auth_mid.go are of, unless an *)
(* answer crossed a log-in.                                                 *)
THEOREM ShowsWhoIsLoggedIn == SessionSpec => []ShownIsLoggedIn
<1>1. SessionInv => ShownIsLoggedIn
  <2>0. SUFFICES ASSUME SessionInv, user # None, ~crossed,
                        \A r \in requests : LoggedIn(r) => r.stage # "received"
                 PROVE  /\ \A c \in {access, refresh} \ {None} : c.token.user = user.who
                        /\ \A c, d \in {access, refresh} \ {None} : c.token.since = d.token.since
    BY DEF ShownIsLoggedIn
  <2>1. PICK w, s : AsOne(w, s)
    BY <2>0 DEF SessionInv, OneLogIn
  <2>2. user.who = w
    BY <2>0, <2>1 DEF AsOne, UserOf, LogInPending
  <2>3. \A c \in {access, refresh} \ {None} : c.token # None
    BY <2>0, SessionAssumption DEF SessionInv, CookiesInv, CookieType
  <2>4. \A c \in {access, refresh} \ {None} : c.token.user = w /\ c.token.since = s
    BY <2>1, <2>3 DEF AsOne, CookiesOf, OfLogIn
  <2> QED
    BY <2>2, <2>4
<1> QED
  BY <1>1, SessionInductive, PTL

(* However often AuthMiddleware (auth_mid.go) renews the access token, no    *)
(* token lives longer than both lives together after the log-in.             *)
THEOREM SessionsEnd == SessionSpec => []SessionEnds
<1>1. SessionInv => SessionEnds
  <2>0. SUFFICES ASSUME SessionInv PROVE SessionEnds
    OBVIOUS
  <2>1. RefreshLife \in Nat /\ AccessLife \in Nat /\ AccessLife > 0
    BY SessionAssumption
  <2>2. ASSUME NEW t \in TokenType, AccessEnds(t) \/ RefreshEnds(t)
        PROVE  t.exp < t.since + RefreshLife + AccessLife
    <3>1. t # None
      BY SessionAssumption
    <3>2. t.exp \in Nat /\ t.since \in Nat
      BY DEF TokenType
    <3> QED
      BY <2>1, <2>2, <3>1, <3>2 DEF AccessEnds, RefreshEnds
  <2>3. ASSUME NEW c \in {access, refresh} \ {None}
        PROVE  c.token \in TokenType /\ (AccessEnds(c.token) \/ RefreshEnds(c.token))
    BY <2>0 DEF SessionInv, CookiesInv, CookieType
  <2>4. ASSUME NEW r \in requests, NEW t \in {r.answer.access, r.answer.refresh} \ {None}
        PROVE  t \in TokenType /\ (AccessEnds(t) \/ RefreshEnds(t))
    <3>1. AnswerFits(r.kind, r.answer)
      BY <2>0 DEF SessionInv, RequestsInv, Sound
    <3> QED
      BY <3>1 DEF AnswerFits, AnswerType
  <2>5. ASSUME NEW t \in {c.token : c \in {access, refresh} \ {None}} \union
                         ((UNION {{r.answer.access, r.answer.refresh} : r \in requests}) \ {None})
        PROVE  t.exp < t.since + RefreshLife + AccessLife
    <3>1. CASE \E c \in {access, refresh} \ {None} : t = c.token
      BY <2>2, <2>3, <3>1
    <3>2. CASE \E r \in requests : t \in {r.answer.access, r.answer.refresh} \ {None}
      BY <2>2, <2>4, <3>2
    <3> QED
      BY <2>5, <3>1, <3>2
  <2> QED
    BY <2>5 DEF SessionEnds
<1> QED
  BY <1>1, SessionInductive, PTL

(* A connection that has opened has joined with the client, and the client *)
(* is the user's, whatever connections syncClient has replaced meanwhile   *)
(* (useClientStore.ts, useChannelStore.ts).                                *)
THEOREM OpenHasJoined == SessionSpec => []CurrentHasJoined
<1>1. SessionInv => CurrentHasJoined
  BY DEF SessionInv, ConnInv
<1> QED
  BY <1>1, SessionInductive, PTL
================================================================================
