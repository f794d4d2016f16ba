----------------------------- MODULE UploaderProofs -----------------------------
(***************************************************************************)
(* Proofs about Uploader, for any files, any number of calls that overlap, *)
(* of connections and of what happens meanwhile.                           *)
(***************************************************************************)
EXTENDS Uploader, SequenceTheorems, TLAPS

--------------------------------------------------------------------------------
(* The inductive invariant. *)

Message == [kind : {"start", "chunk", "complete"}, no : Nat]

Wired == sent \in [Tasks -> Seq(Message)]

(* A task's connection was open when the task began, so it is one of those *)
(* made before and does not open any more.                                 *)
Connected ==
  /\ conn \in Conns
  /\ \A c \in Conns : c > conn => socket[c] = "none"
  /\ \A t \in Tasks : via[t] # NoConn => /\ via[t] \in Conns
                                         /\ socket[via[t]] \in {"open", "closed"}

(* UInv for one call, and that no file is at hand before some are chosen.  *)
CallInv(k) ==
  /\ calls[k].step \in {"idle", "choosing"} => calls[k].at = 0
  /\ AtWork(k) => calls[k].at \in DOMAIN calls[k].files
  /\ Sending(k) => InStep(k)
  /\ ~Sending(k) /\ calls[k].step # "ended" =>
       \A n \in 1 .. MaxFiles : n >= calls[k].at => Untouched(<<k, n>>)
  /\ calls[k].step # "ended" =>
       \A n \in 1 .. MaxFiles : n > calls[k].at => Untouched(<<k, n>>)

IInv == TypeOK /\ Wired /\ Connected /\ \A k \in Calls : CallInv(k)

--------------------------------------------------------------------------------
(* Selections, tasks and messages. *)

Steps == {"idle", "choosing", "opening", "measuring", "remeasuring", "reading", "ended"}

Call == [step : Steps, files : Selections, at : 0 .. MaxFiles + 1,
         total : 0 .. MaxChunks, next : 0 .. MaxChunks]

(* A selection is a sequence of files, and not too long. *)
LEMMA SelectionIsSeq ==
  ASSUME NEW s \in Selections
  PROVE  /\ s \in Seq(Files) /\ Len(s) \in 0 .. MaxFiles
         /\ DOMAIN s = 1 .. Len(s) /\ \A i \in 1 .. Len(s) : s[i] \in Files
<1>1. PICK n \in 0 .. MaxFiles : s \in [1 .. n -> Files]
  BY DEF Selections
<1>2. n \in Nat
  BY <1>1, UploaderAssumption
<1> QED
  BY <1>1, <1>2

(* No file may be selected. *)
LEMMA EmptySelection == <<>> \in Selections
<1>1. <<>> \in [1 .. 0 -> Files]
  OBVIOUS
<1>2. 0 \in 0 .. MaxFiles
  BY UploaderAssumption
<1>3. \A i, j \in DOMAIN <<>> : <<>>[i] = <<>>[j] => i = j
  OBVIOUS
<1> QED
  BY <1>1, <1>2, <1>3 DEF Selections

(* A call has the fields of a call. *)
LEMMA CallsTyped ==
  ASSUME TypeOK
  PROVE  calls \in [Calls -> Call]
BY DEF TypeOK, Call, Steps

(* A call that goes on to its next file is a call. *)
LEMMA AtFileTyped ==
  ASSUME TypeOK, NEW c \in Call, NEW n \in 1 .. MaxFiles + 1
  PROVE  /\ AtFile(c, n) \in Call
         /\ AtFile(c, n).files = c.files /\ AtFile(c, n).at = n
         /\ AtFile(c, n).step \in {"opening", "ended"}
         /\ AtFile(c, n).step = "opening" => n \in DOMAIN c.files
<1>1. c.files \in Seq(Files) /\ DOMAIN c.files = 1 .. Len(c.files)
  BY SelectionIsSeq DEF Call
<1>2. 0 \in 0 .. MaxChunks /\ n \in 0 .. MaxFiles + 1
  BY UploaderAssumption
<1>3. [c EXCEPT !.step = "opening", !.at = n, !.total = 0, !.next = 0] \in Call
  BY <1>2 DEF Call, Steps
<1>4. [c EXCEPT !.step = "ended", !.at = n, !.total = 0, !.next = 0] \in Call
  BY <1>2 DEF Call, Steps
<1>5. CASE n <= Len(c.files) /\ client
  BY <1>1, <1>3, <1>5 DEF AtFile, Call
<1>6. CASE ~(n <= Len(c.files) /\ client)
  BY <1>4, <1>6 DEF AtFile, Call
<1> QED
  BY <1>5, <1>6

(* A call at work is at one of its files. *)
LEMMA TaskAtWork ==
  ASSUME TypeOK, NEW k \in Calls, CallInv(k), AtWork(k)
  PROVE  /\ calls[k].at \in 1 .. MaxFiles
         /\ calls[k].at \in DOMAIN calls[k].files
         /\ Task(k) \in Tasks /\ Task(k) = <<k, calls[k].at>>
         /\ File(k) \in Files /\ size[File(k)] \in 0 .. MaxChunks
<1>1. calls[k] \in Call
  BY CallsTyped
<1>2. calls[k].at \in DOMAIN calls[k].files
  BY DEF CallInv
<1>3. /\ DOMAIN calls[k].files = 1 .. Len(calls[k].files)
      /\ Len(calls[k].files) \in 0 .. MaxFiles
      /\ calls[k].files[calls[k].at] \in Files
  BY <1>1, <1>2, SelectionIsSeq DEF Call
<1> QED
  BY <1>2, <1>3, UploaderAssumption DEF Task, Tasks, File, TypeOK

(* The messages of a task, and their kinds. *)
LEMMA Messages ==
  /\ \A n \in Nat, t \in Tasks : /\ Protocol(t)!StartMsg(n) \in Message
                                 /\ Protocol(t)!StartMsg(n).kind = "start"
                                 /\ Protocol(t)!StartMsg(n).no = n
  /\ \A n \in Nat, t \in Tasks : /\ Protocol(t)!ChunkMsg(n) \in Message
                                 /\ Protocol(t)!ChunkMsg(n).kind = "chunk"
  /\ \A t \in Tasks : /\ Protocol(t)!CompleteMsg \in Message
                      /\ Protocol(t)!CompleteMsg.kind = "complete"
BY DEF Protocol!StartMsg, Protocol!ChunkMsg, Protocol!CompleteMsg, Message

--------------------------------------------------------------------------------
(* The initial states. *)

(* The invariant holds at first. *)
LEMMA Initially == Init => IInv
<1> SUFFICES ASSUME Init PROVE IInv
  OBVIOUS
<1> USE UploaderAssumption
<1>1. Idle \in Call
  BY EmptySelection DEF Idle, Call, Steps
<1>2. \A k \in Calls : calls[k] = Idle
  BY DEF Init
<1>3. TypeOK
  <2>1. calls \in [Calls -> Call]
    BY <1>1 DEF Init
  <2> QED
    BY <2>1 DEF Init, TypeOK, Call, Steps, Conns, NoConn
<1>4. Wired
  BY DEF Init, Wired
<1>5. Connected
  BY DEF Init, Connected, Conns
<1>6. ASSUME NEW k \in Calls
      PROVE  CallInv(k)
  <2>1. ~AtWork(k) /\ ~Sending(k)
    BY <1>2 DEF AtWork, Sending, Idle
  <2>2. \A n \in 1 .. MaxFiles : Untouched(<<k, n>>)
    BY DEF Init, Untouched, Tasks
  <2>3. calls[k].at = 0
    BY <1>2 DEF Idle
  <2> QED
    BY <2>1, <2>2, <2>3 DEF CallInv
<1> QED
  BY <1>3, <1>4, <1>5, <1>6 DEF IInv

--------------------------------------------------------------------------------
(* What others do leaves a call as it is. *)

(* A step that leaves a call, its tasks and its file alone, and opens no   *)
(* connection of a task.                                                   *)
LEMMA CallLeftAlone ==
  ASSUME TypeOK, NEW k \in Calls, CallInv(k),
         calls'[k] = calls[k],
         \A n \in 1 .. MaxFiles : /\ sent'[<<k, n>>] = sent[<<k, n>>]
                                  /\ via'[<<k, n>>] = via[<<k, n>>]
                                  /\ Open(via[<<k, n>>])' => Open(via[<<k, n>>])
                                  /\ <<k, n>> \in changed => <<k, n>> \in changed'
                                  /\ <<k, n>> \in changed' =>
                                       \/ <<k, n>> \in changed
                                       \/ Sending(k) /\ n = calls[k].at,
         Sending(k) => size'[File(k)] = size[File(k)] \/ Task(k) \in changed'
  PROVE  CallInv(k)'
<1>1. /\ AtWork(k)' <=> AtWork(k)
      /\ Sending(k)' <=> Sending(k)
      /\ File(k)' = File(k) /\ Task(k)' = Task(k)
  BY DEF AtWork, Sending, File, Task
<1>2. ASSUME Sending(k)
      PROVE  InStep(k)'
  <2>1. InStep(k)
    BY <1>2 DEF CallInv
  <2>2. PICK n \in 1 .. MaxFiles : Task(k) = <<k, n>>
    BY <1>2, TaskAtWork DEF Sending, AtWork
  <2>3. /\ sent'[Task(k)] = sent[Task(k)] /\ via'[Task(k)] = via[Task(k)]
        /\ Open(via[Task(k)])' => Open(via[Task(k)])
        /\ Task(k) \in changed => Task(k) \in changed'
    BY <1>1, <2>2 DEF Open
  <2>4. Protocol(Task(k))!Started' /\ ~Protocol(Task(k))!Completed'
    BY <1>1, <2>1, <2>3 DEF InStep, Protocol!Started, Protocol!Completed
  <2> QED
    BY <1>1, <1>2, <2>1, <2>3, <2>4 DEF InStep
<1>3. ASSUME NEW n \in 1 .. MaxFiles, Untouched(<<k, n>>), Sending(k) => n # calls[k].at
      PROVE  Untouched(<<k, n>>)'
  BY <1>3 DEF Untouched
<1>4. calls[k].at \in Int
  BY CallsTyped, UploaderAssumption DEF Call
<1> QED
  BY <1>1, <1>2, <1>3, <1>4 DEF CallInv

(* A step of one call, which has one task at hand.                         *)
LEMMA CallChanges ==
  ASSUME IInv, NEW k \in Calls, NEW c \in Call, NEW n \in 1 .. MaxFiles,
         calls' = [calls EXCEPT ![k] = c],
         UNCHANGED <<fileVars, connVars>>,
         sent' \in [Tasks -> Seq(Message)],
         \A t \in Tasks : t # <<k, n>> => sent'[t] = sent[t],
         \/ via' = via
         \/ \E d \in Conns : Open(d) /\ via' = [via EXCEPT ![<<k, n>>] = d],
         failed' \subseteq Tasks,
         CallInv(k)'
  PROVE  IInv'
<1> USE UploaderAssumption
<1>1. TypeOK
  BY DEF IInv
<1>2. calls' \in [Calls -> Call]
  BY <1>1, CallsTyped
<1>3. via' \in [Tasks -> 0 .. NumConns]
  <2>1. via \in [Tasks -> 0 .. NumConns]
    BY <1>1 DEF TypeOK
  <2>2. ASSUME NEW d \in Conns, via' = [via EXCEPT ![<<k, n>>] = d]
        PROVE  via' \in [Tasks -> 0 .. NumConns]
    <3>1. d \in 0 .. NumConns
      BY DEF Conns
    <3> QED
      BY <2>1, <2>2, <3>1
  <2> QED
    BY <2>1, <2>2
<1>4. TypeOK'
  BY <1>1, <1>2, <1>3 DEF TypeOK, Call, Steps, fileVars, connVars
<1>5. Wired'
  BY DEF Wired
<1>6. \A t \in Tasks : t # <<k, n>> => via'[t] = via[t]
  BY <1>1 DEF TypeOK
<1>7. Connected'
  <2>1. Connected /\ conn' = conn /\ socket' = socket
    BY DEF IInv, connVars
  <2>2. ASSUME NEW t \in Tasks, via'[t] # NoConn
        PROVE  via'[t] \in Conns /\ socket'[via'[t]] \in {"open", "closed"}
    BY <1>1, <2>1, <2>2 DEF Connected, Open, TypeOK
  <2> QED
    BY <2>1, <2>2 DEF Connected
<1>8. ASSUME NEW j \in Calls, j # k
      PROVE  CallInv(j)'
  <2>1. calls'[j] = calls[j] /\ CallInv(j)
    BY <1>1, <1>8, CallsTyped DEF IInv
  <2>2. size' = size /\ changed' = changed /\ socket' = socket
    BY DEF fileVars, connVars
  <2>3. \A m \in 1 .. MaxFiles : /\ sent'[<<j, m>>] = sent[<<j, m>>]
                                 /\ via'[<<j, m>>] = via[<<j, m>>]
    BY <1>6, <1>8 DEF Tasks
  <2>4. \A m \in 1 .. MaxFiles : Open(via[<<j, m>>])' => Open(via[<<j, m>>])
    BY <2>2, <2>3 DEF Open
  <2> QED
    BY <1>1, <2>1, <2>2, <2>3, <2>4, CallLeftAlone
<1> QED
  BY <1>4, <1>5, <1>7, <1>8 DEF IInv

(* A call that goes on to its next file.                                   *)
LEMMA NextFileKeeps ==
  ASSUME IInv, NEW k \in Calls, AtWork(k), NextFile(k),
         UNCHANGED <<via, fileVars, connVars>>,
         sent' \in [Tasks -> Seq(Message)],
         \A t \in Tasks : t # Task(k) => sent'[t] = sent[t],
         failed' \subseteq Tasks
  PROVE  IInv'
<1> USE UploaderAssumption
<1> DEFINE at == calls[k].at
           c == AtFile(calls[k], at + 1)
<1>1. TypeOK /\ CallInv(k) /\ calls[k] \in Call
  BY CallsTyped DEF IInv
<1>2. /\ at \in 1 .. MaxFiles /\ at + 1 \in 1 .. MaxFiles + 1
      /\ Task(k) = <<k, at>> /\ Task(k) \in Tasks
  BY <1>1, TaskAtWork
<1>3. /\ c \in Call /\ c.files = calls[k].files /\ c.at = at + 1
      /\ c.step \in {"opening", "ended"}
      /\ c.step = "opening" => at + 1 \in DOMAIN c.files
  BY <1>1, <1>2, AtFileTyped
<1>4. calls' = [calls EXCEPT ![k] = c] /\ calls'[k] = c
  BY CallsTyped, <1>1 DEF NextFile
<1>5. ASSUME NEW n \in 1 .. MaxFiles, n > at
      PROVE  Untouched(<<k, n>>)'
  <2>1. Untouched(<<k, n>>)
    BY <1>1, <1>5 DEF CallInv, AtWork
  <2>2. <<k, n>> # Task(k) /\ <<k, n>> \in Tasks
    BY <1>2, <1>5 DEF Tasks
  <2> QED
    BY <2>1, <2>2 DEF Untouched, fileVars
<1>6. CallInv(k)'
  <2>1. ~Sending(k)'
    BY <1>3, <1>4 DEF Sending
  <2>2. /\ calls'[k].step \notin {"idle", "choosing"}
        /\ AtWork(k)' => calls'[k].at \in DOMAIN calls'[k].files
    BY <1>3, <1>4 DEF AtWork
  <2> QED
    BY <1>2, <1>3, <1>4, <1>5, <2>1, <2>2 DEF CallInv
<1> HIDE DEF at, c
<1>7. \A t \in Tasks : t # <<k, at>> => sent'[t] = sent[t]
  BY <1>2
<1> QED
  BY <1>2, <1>3, <1>4, <1>6, <1>7, CallChanges

--------------------------------------------------------------------------------
(* The steps of a call. *)

(* What sending does to the wire: only the wire of this task changes. *)
LEMMA SendTyped ==
  ASSUME Wired, NEW t \in Tasks, NEW msgs \in Seq(Message), Send(t, msgs)
  PROVE  /\ sent' \in [Tasks -> Seq(Message)]
         /\ \A u \in Tasks : u # t => sent'[u] = sent[u]
         /\ Open(via[t]) => sent'[t] = sent[t] \o msgs
         /\ ~Open(via[t]) => sent' = sent
BY DEF Wired, Send

(* A use of the upload button keeps the invariant. *)
LEMMA BeginStep ==
  ASSUME IInv, NEW k \in Calls, Begin(k)
  PROVE  IInv'
<1> USE UploaderAssumption
<1> DEFINE c == [calls[k] EXCEPT !.step = "choosing"]
<1>1. TypeOK /\ CallInv(k) /\ calls[k] \in Call /\ calls \in [Calls -> Call]
  BY CallsTyped DEF IInv
<1>2. c \in Call /\ c.step = "choosing" /\ c.at = calls[k].at /\ c.files = calls[k].files
  BY <1>1 DEF Call, Steps
<1>3. calls' = [calls EXCEPT ![k] = c] /\ calls'[k] = c
  BY <1>1 DEF Begin
<1>4. ASSUME NEW n \in 1 .. MaxFiles
      PROVE  Untouched(<<k, n>>)'
  <2>1. Untouched(<<k, n>>)
    BY <1>1 DEF CallInv, Begin, Sending
  <2> QED
    BY <2>1 DEF Begin, Untouched, fileVars
<1>5. CallInv(k)'
  BY <1>1, <1>2, <1>3, <1>4 DEF CallInv, Begin, AtWork, Sending
<1>6. 1 \in 1 .. MaxFiles /\ failed \subseteq Tasks
  BY <1>1 DEF TypeOK
<1> QED
  BY <1>2, <1>3, <1>5, <1>6, CallChanges DEF Begin, IInv, Wired

(* So does the choice of files. *)
LEMMA ChooseStep ==
  ASSUME IInv, NEW k \in Calls, Choose(k)
  PROVE  IInv'
<1> USE UploaderAssumption
<1>1. TypeOK /\ CallInv(k) /\ calls[k] \in Call /\ calls \in [Calls -> Call]
  BY CallsTyped DEF IInv
<1>2. PICK s \in Selections :
        calls' = [calls EXCEPT ![k] = AtFile([@ EXCEPT !.files = s], 1)]
  BY DEF Choose
<1> DEFINE b == [calls[k] EXCEPT !.files = s]
           c == AtFile(b, 1)
<1>3. b \in Call
  BY <1>1 DEF Call
<1>4. /\ c \in Call /\ c.at = 1 /\ c.step \in {"opening", "ended"}
      /\ c.step = "opening" => 1 \in DOMAIN c.files
  BY <1>1, <1>3, AtFileTyped
<1>5. calls' = [calls EXCEPT ![k] = c] /\ calls'[k] = c
  BY <1>1, <1>2
<1>6. ASSUME NEW n \in 1 .. MaxFiles
      PROVE  Untouched(<<k, n>>)'
  <2>1. Untouched(<<k, n>>)
    BY <1>1 DEF CallInv, Choose, Sending
  <2> QED
    BY <2>1 DEF Choose, Untouched, fileVars
<1> HIDE DEF b, c
<1>7. CallInv(k)'
  BY <1>4, <1>5, <1>6 DEF CallInv, AtWork, Sending
<1>8. 1 \in 1 .. MaxFiles /\ failed \subseteq Tasks
  BY <1>1 DEF TypeOK
<1> QED
  BY <1>4, <1>5, <1>7, <1>8, CallChanges DEF Choose, IInv, Wired

(* So does a call that ends early. *)
LEMMA AbandonKeeps ==
  ASSUME IInv, NEW k \in Calls, Abandon(k), UNCHANGED <<failed, fileVars, connVars>>
  PROVE  IInv'
<1> USE UploaderAssumption
<1> DEFINE c == [calls[k] EXCEPT !.step = "ended"]
<1>1. TypeOK /\ calls[k] \in Call /\ calls \in [Calls -> Call]
  BY CallsTyped DEF IInv
<1>2. c \in Call /\ c.step = "ended"
  BY <1>1 DEF Call, Steps
<1>3. calls' = [calls EXCEPT ![k] = c] /\ calls'[k] = c
  BY <1>1 DEF Abandon
<1>4. CallInv(k)'
  BY <1>2, <1>3 DEF CallInv, AtWork, Sending
<1>5. 1 \in 1 .. MaxFiles /\ failed \subseteq Tasks
  BY <1>1 DEF TypeOK
<1> QED
  BY <1>2, <1>3, <1>4, <1>5, CallChanges DEF Abandon, IInv, Wired

(* So does a file that is opened. *)
LEMMA OpenFileStep ==
  ASSUME IInv, NEW k \in Calls, OpenFile(k)
  PROVE  IInv'
<1> USE UploaderAssumption
<1> DEFINE c == [calls[k] EXCEPT !.step = "measuring"]
<1>1. TypeOK /\ CallInv(k) /\ calls[k] \in Call /\ calls \in [Calls -> Call]
  BY CallsTyped DEF IInv
<1>2. CASE Abandon(k)
  BY <1>2, AbandonKeeps DEF OpenFile
<1>3. CASE calls' = [calls EXCEPT ![k].step = "measuring"] /\ UNCHANGED <<sent, via>>
  <2>1. c \in Call /\ c.step = "measuring" /\ c.at = calls[k].at /\ c.files = calls[k].files
    BY <1>1 DEF Call, Steps
  <2>2. calls' = [calls EXCEPT ![k] = c] /\ calls'[k] = c
    BY <1>1, <1>3
  <2>3. ASSUME NEW n \in 1 .. MaxFiles, n >= calls[k].at
        PROVE  Untouched(<<k, n>>)'
    <3>1. Untouched(<<k, n>>)
      BY <1>1, <2>3 DEF CallInv, OpenFile, Sending
    <3> QED
      BY <1>3, <3>1 DEF OpenFile, Untouched, fileVars
  <2>4. \A n \in 1 .. MaxFiles : n > calls[k].at => n >= calls[k].at
    BY <1>1 DEF Call
  <2>5. calls[k].at \in DOMAIN calls[k].files
    BY <1>1 DEF CallInv, OpenFile, AtWork
  <2>6. CallInv(k)'
    <3>1. ~Sending(k)' /\ calls'[k].at = calls[k].at /\ calls'[k].files = calls[k].files
      BY <2>1, <2>2 DEF Sending
    <3> QED
      BY <2>1, <2>2, <2>3, <2>4, <2>5, <3>1 DEF CallInv
  <2>7. 1 \in 1 .. MaxFiles /\ failed \subseteq Tasks
    BY <1>1 DEF TypeOK
  <2> QED
    BY <1>3, <2>1, <2>2, <2>6, <2>7, CallChanges DEF OpenFile, IInv, Wired
<1> QED
  BY <1>2, <1>3 DEF OpenFile

(* So does the first measurement, which announces the chunks. *)
LEMMA MeasureStep ==
  ASSUME IInv, NEW k \in Calls, Measure(k)
  PROVE  IInv'
<1> USE UploaderAssumption
<1> DEFINE c == [calls[k] EXCEPT !.step = "remeasuring"]
           at == calls[k].at
           msg == Protocol(Task(k))!StartMsg(size[File(k)])
<1>1. TypeOK /\ CallInv(k) /\ calls[k] \in Call /\ calls \in [Calls -> Call] /\ AtWork(k)
  BY CallsTyped DEF IInv, Measure, AtWork
<1>2. /\ at \in 1 .. MaxFiles /\ at \in DOMAIN calls[k].files
      /\ Task(k) = <<k, at>> /\ Task(k) \in Tasks
      /\ File(k) \in Files /\ size[File(k)] \in 0 .. MaxChunks
  BY <1>1, TaskAtWork
<1>3. CASE Abandon(k)
  BY <1>3, AbandonKeeps DEF Measure
<1>4. CASE NextFile(k) /\ UNCHANGED <<sent, via>>
  BY <1>1, <1>4, NextFileKeeps DEF Measure, IInv, TypeOK, Wired
<1>5. CASE /\ Open(conn)
           /\ sent' = [sent EXCEPT ![Task(k)] = <<msg>>]
           /\ via' = [via EXCEPT ![Task(k)] = conn]
           /\ calls' = [calls EXCEPT ![k].step = "remeasuring"]
  <2>1. /\ c \in Call /\ c.step = "remeasuring"
        /\ c.at = at /\ c.files = calls[k].files
    BY <1>1 DEF Call, Steps
  <2>2. calls' = [calls EXCEPT ![k] = c] /\ calls'[k] = c
    BY <1>1, <1>5
  <2>3. msg \in Message /\ msg.kind = "start" /\ msg.no = size[File(k)]
    BY <1>2, Messages
  <2>4. /\ sent' \in [Tasks -> Seq(Message)] /\ sent'[Task(k)] = <<msg>>
        /\ \A t \in Tasks : t # Task(k) => sent'[t] = sent[t] /\ via'[t] = via[t]
        /\ via'[Task(k)] = conn /\ conn \in Conns
    BY <1>1, <1>2, <1>5, <2>3 DEF IInv, Wired, Connected, TypeOK
  <2>5. Untouched(Task(k))
    BY <1>1, <1>2 DEF CallInv, Measure, Sending, Call
  <2>6. Task(k)' = Task(k) /\ File(k)' = File(k)
    BY <2>1, <2>2 DEF Task, File
  <2>7. Sending(k)' /\ AtWork(k)'
    BY <2>1, <2>2 DEF Sending, AtWork
  <2>8. size' = size /\ changed' = changed /\ Task(k) \notin changed
    BY <2>5 DEF Measure, fileVars, Untouched
  <2>9. InStep(k)'
    <3>1. Protocol(Task(k))!Started' /\ ~Protocol(Task(k))!Completed'
      <4> HIDE DEF msg
      <4>1. sent'[Task(k)'] = <<msg>>
        BY <2>4, <2>6
      <4>2. <<msg>> # <<>> /\ <<msg>>[Len(<<msg>>)].kind # "complete"
        BY <2>3
      <4> QED
        BY <4>1, <4>2 DEF Protocol!Started, Protocol!Completed
    <3>2. via'[Task(k)] # NoConn
      BY <2>4 DEF Conns, NoConn
    <3>3. sent'[Task(k)][1].no = size[File(k)] /\ Len(sent'[Task(k)]) = 1
      BY <2>3, <2>4
    <3> QED
      BY <1>2, <2>1, <2>2, <2>6, <2>8, <3>1, <3>2, <3>3 DEF InStep
  <2>10. ASSUME NEW n \in 1 .. MaxFiles, n > at
         PROVE  Untouched(<<k, n>>)'
    <3>1. Untouched(<<k, n>>)
      BY <1>1, <2>10 DEF CallInv, AtWork
    <3>2. <<k, n>> # Task(k) /\ <<k, n>> \in Tasks
      BY <1>2, <2>10 DEF Tasks
    <3> QED
      BY <2>4, <2>8, <3>1, <3>2 DEF Untouched
  <2>11. CallInv(k)'
    BY <1>2, <2>1, <2>2, <2>7, <2>9, <2>10 DEF CallInv
  <2>12. failed' \subseteq Tasks
    BY <1>1 DEF TypeOK, Measure
  <2>13. \E d \in Conns : Open(d) /\ via' = [via EXCEPT ![<<k, at>>] = d]
    BY <1>2, <1>5, <2>4
  <2> HIDE DEF c, at, msg
  <2>14. \A t \in Tasks : t # <<k, at>> => sent'[t] = sent[t]
    BY <1>2, <2>4
  <2> QED
    BY <1>2, <2>1, <2>2, <2>4, <2>11, <2>12, <2>13, <2>14, CallChanges DEF Measure
<1> QED
  BY <1>3, <1>4, <1>5 DEF Measure, CreateTransferTask

(* upload-complete, alone or behind the last chunk, and the next file.     *)
LEMMA CompleteKeeps ==
  ASSUME IInv, NEW k \in Calls, AtWork(k), NEW msgs \in Seq(Message),
         Send(Task(k), msgs), NextFile(k),
         UNCHANGED <<via, failed, fileVars, connVars>>
  PROVE  IInv'
<1>1. TypeOK /\ Wired /\ CallInv(k) /\ failed' \subseteq Tasks
  BY DEF IInv, TypeOK
<1>2. Task(k) \in Tasks
  BY <1>1, TaskAtWork
<1>3. /\ sent' \in [Tasks -> Seq(Message)]
      /\ \A t \in Tasks : t # Task(k) => sent'[t] = sent[t]
  BY <1>1, <1>2, SendTyped
<1> QED
  BY <1>1, <1>3, NextFileKeeps

(* So does the second measurement, which the loop goes by. *)
LEMMA RemeasureStep ==
  ASSUME IInv, NEW k \in Calls, Remeasure(k)
  PROVE  IInv'
<1> USE UploaderAssumption
<1> DEFINE at == calls[k].at
           total == size[File(k)]
           c == [calls[k] EXCEPT !.step = "reading", !.total = total, !.next = 1]
<1>1. TypeOK /\ CallInv(k) /\ calls[k] \in Call /\ calls \in [Calls -> Call]
      /\ AtWork(k) /\ Sending(k) /\ calls[k].step = "remeasuring"
  BY CallsTyped DEF IInv, Remeasure, AtWork, Sending
<1>2. /\ at \in 1 .. MaxFiles /\ at \in DOMAIN calls[k].files
      /\ Task(k) = <<k, at>> /\ Task(k) \in Tasks
      /\ File(k) \in Files /\ total \in 0 .. MaxChunks
  BY <1>1, TaskAtWork
<1>3. CASE total = 0
  <2>1. CompleteOf(Task(k)) \in Seq(Message)
    BY <1>2, Messages DEF CompleteOf
  <2> QED
    BY <1>1, <1>3, <2>1, CompleteKeeps DEF Remeasure
<1>4. CASE total # 0
  <2>1. /\ calls' = [calls EXCEPT ![k].step = "reading", ![k].total = total, ![k].next = 1]
        /\ sent' = sent /\ via' = via /\ failed' = failed
        /\ size' = size /\ changed' = changed /\ socket' = socket
    BY <1>4 DEF Remeasure, fileVars, connVars
  <2>2. 1 \in 1 .. total /\ 1 \in 0 .. MaxChunks
    BY <1>2, <1>4
  <2>3. /\ c \in Call /\ c.step = "reading" /\ c.total = total /\ c.next = 1
        /\ c.at = at /\ c.files = calls[k].files
    BY <1>1, <1>2, <2>2 DEF Call, Steps
  <2>4. calls' = [calls EXCEPT ![k] = c] /\ calls'[k] = c
    BY <1>1, <2>1
  <2>5. Task(k)' = Task(k) /\ File(k)' = File(k) /\ Sending(k)' /\ AtWork(k)'
    BY <2>3, <2>4 DEF Task, File, Sending, AtWork
  <2>6. InStep(k)'
    <3>1. InStep(k)
      BY <1>1 DEF CallInv
    <3>2. Protocol(Task(k))!Started' /\ ~Protocol(Task(k))!Completed'
      BY <2>1, <2>5, <3>1 DEF InStep, Protocol!Started, Protocol!Completed
    <3> QED
      BY <1>1, <2>1, <2>2, <2>3, <2>4, <2>5, <3>1, <3>2 DEF InStep
  <2>7. ASSUME NEW n \in 1 .. MaxFiles, n > at
        PROVE  Untouched(<<k, n>>)'
    BY <1>1, <2>1, <2>7 DEF CallInv, Untouched
  <2>8. CallInv(k)'
    BY <1>2, <2>3, <2>4, <2>5, <2>6, <2>7 DEF CallInv
  <2>9. /\ sent' \in [Tasks -> Seq(Message)] /\ failed' \subseteq Tasks
        /\ \A t \in Tasks : sent'[t] = sent[t]
    BY <1>1, <2>1 DEF IInv, Wired, TypeOK
  <2> HIDE DEF c, at, total
  <2> QED
    BY <1>2, <2>1, <2>3, <2>4, <2>8, <2>9, CallChanges DEF Remeasure
<1> QED
  BY <1>3, <1>4

(* One message more on the wire: the first one stays the first. *)
LEMMA OneMore ==
  ASSUME NEW s \in Seq(Message), s # <<>>, NEW d \in Seq(Message), Len(d) = 1
  PROVE  /\ s \o d # <<>> /\ (s \o d)[1] = s[1]
         /\ Len(s \o d) = Len(s) + 1 /\ (s \o d)[Len(s \o d)] = d[1]
<1>1. Len(s) \in Nat /\ Len(s) >= 1
  OBVIOUS
<1> QED
  BY <1>1, ConcatProperties

(* Reading and sending a chunk keeps the invariant. *)
LEMMA ReadStep ==
  ASSUME IInv, NEW k \in Calls, Read(k)
  PROVE  IInv'
<1> USE UploaderAssumption
<1> DEFINE at == calls[k].at
           t == Task(k)
           i == calls[k].next
           data == <<Protocol(t)!ChunkMsg(i)>>
           c == [calls[k] EXCEPT !.next = i + 1]
<1>1. TypeOK /\ CallInv(k) /\ calls[k] \in Call /\ calls \in [Calls -> Call]
      /\ AtWork(k) /\ Sending(k) /\ calls[k].step = "reading" /\ Wired
  BY CallsTyped DEF IInv, Read, AtWork, Sending
<1>2. /\ at \in 1 .. MaxFiles /\ at \in DOMAIN calls[k].files
      /\ t = <<k, at>> /\ t \in Tasks
      /\ File(k) \in Files /\ size[File(k)] \in 0 .. MaxChunks
  BY <1>1, TaskAtWork
<1>3. InStep(k) /\ i \in 1 .. calls[k].total /\ i \in Nat /\ calls[k].total \in 0 .. MaxChunks
  BY <1>1 DEF CallInv, InStep, Call
<1>4. data \in Seq(Message) /\ CompleteOf(t) \in Seq(Message)
  BY <1>2, <1>3, Messages DEF CompleteOf
<1>5. CASE /\ i < calls[k].total /\ Send(t, data)
           /\ calls' = [calls EXCEPT ![k].next = @ + 1]
  <2>1. /\ sent' \in [Tasks -> Seq(Message)]
        /\ \A u \in Tasks : u # t => sent'[u] = sent[u]
        /\ Open(via[t]) => sent'[t] = sent[t] \o data
        /\ ~Open(via[t]) => sent' = sent
    BY <1>1, <1>2, <1>4, <1>5, SendTyped
  <2>2. /\ via' = via /\ failed' = failed
        /\ size' = size /\ changed' = changed /\ socket' = socket
    BY DEF Read, fileVars, connVars
  <2>3. i + 1 \in 1 .. calls[k].total /\ i + 1 \in 0 .. MaxChunks
    BY <1>3, <1>5
  <2>4. /\ c \in Call /\ c.step = "reading" /\ c.total = calls[k].total /\ c.next = i + 1
        /\ c.at = at /\ c.files = calls[k].files
    BY <1>1, <2>3 DEF Call, Steps
  <2>5. calls' = [calls EXCEPT ![k] = c] /\ calls'[k] = c
    BY <1>1, <1>5
  <2>6. Task(k)' = Task(k) /\ File(k)' = File(k) /\ Sending(k)' /\ AtWork(k)'
    BY <2>4, <2>5 DEF Task, File, Sending, AtWork
  <2>7. InStep(k)'
    <3>1. /\ sent[t] \in Seq(Message) /\ sent[t] # <<>>
          /\ sent[t][Len(sent[t])].kind # "complete"
      BY <1>1, <1>2, <1>3 DEF InStep, Wired, Protocol!Started, Protocol!Completed
    <3>2. data[1].kind # "complete" /\ Len(data) = 1
      BY <1>2, <1>3, Messages
    <3>3. /\ sent'[t] # <<>> /\ sent'[t][1] = sent[t][1]
          /\ sent'[t][Len(sent'[t])].kind # "complete"
          /\ Open(via[t]) => Len(sent'[t]) = Len(sent[t]) + 1
      <4> HIDE DEF data, t
      <4>1. CASE Open(via[t])
        BY <1>4, <2>1, <3>1, <3>2, <4>1, OneMore
      <4>2. CASE ~Open(via[t])
        BY <2>1, <3>1, <4>2
      <4> QED
        BY <4>1, <4>2
    <3>4. Protocol(Task(k))!Started' /\ ~Protocol(Task(k))!Completed'
      BY <2>6, <3>3 DEF Protocol!Started, Protocol!Completed
    <3>5. Open(via[t])' => Open(via[t])
      BY <2>2, <2>6 DEF Open
    <3> QED
      BY <1>1, <1>3, <2>2, <2>3, <2>4, <2>5, <2>6, <3>3, <3>4, <3>5 DEF InStep
  <2>8. ASSUME NEW n \in 1 .. MaxFiles, n > at
        PROVE  Untouched(<<k, n>>)'
    <3>1. Untouched(<<k, n>>)
      BY <1>1, <2>8 DEF CallInv
    <3>2. <<k, n>> # t /\ <<k, n>> \in Tasks
      BY <1>2, <2>8 DEF Tasks
    <3> QED
      BY <2>1, <2>2, <3>1, <3>2 DEF Untouched
  <2>9. CallInv(k)'
    BY <1>2, <2>4, <2>5, <2>6, <2>7, <2>8 DEF CallInv
  <2>10. failed' \subseteq Tasks
    BY <1>1, <2>2 DEF TypeOK
  <2> HIDE DEF c, at, t, data
  <2>11. \A u \in Tasks : u # <<k, at>> => sent'[u] = sent[u]
    BY <1>2, <2>1
  <2> QED
    BY <1>2, <2>1, <2>2, <2>4, <2>5, <2>9, <2>10, <2>11, CallChanges DEF Read
<1>6. CASE Send(t, data \o CompleteOf(t)) /\ NextFile(k)
  <2>1. data \o CompleteOf(t) \in Seq(Message)
    BY <1>4
  <2> QED
    BY <1>1, <1>6, <2>1, CompleteKeeps DEF Read
<1>7. CASE Send(t, CompleteOf(t)) /\ NextFile(k)
  BY <1>1, <1>4, <1>7, CompleteKeeps DEF Read
<1> QED
  BY <1>5, <1>6, <1>7 DEF Read

(* So does a read that fails. *)
LEMMA FailStep ==
  ASSUME IInv, NEW k \in Calls, Fail(k)
  PROVE  IInv'
<1>1. TypeOK /\ CallInv(k) /\ AtWork(k)
  BY DEF IInv, Fail, AtWork
<1>2. failed' \subseteq Tasks
  BY <1>1, TaskAtWork DEF Fail, TypeOK
<1>3. sent' = sent /\ sent \in [Tasks -> Seq(Message)]
  BY DEF Fail, IInv, Wired
<1> QED
  BY <1>1, <1>2, <1>3, NextFileKeeps DEF Fail

--------------------------------------------------------------------------------
(* The steps of files, user and connections. *)

(* So does a file that changes its size. *)
LEMMA ResizeStep ==
  ASSUME IInv, NEW f \in Files, Resize(f)
  PROVE  IInv'
<1> USE UploaderAssumption
<1>1. TypeOK /\ Wired /\ Connected /\ \A k \in Calls : CallInv(k)
  BY DEF IInv
<1>2. /\ calls' = calls /\ sent' = sent /\ via' = via /\ failed' = failed
      /\ client' = client /\ conn' = conn /\ socket' = socket
      /\ events' = events + 1 /\ events < NumEvents
      /\ size' \in [Files -> 0 .. MaxChunks]
      /\ \A g \in Files : g # f => size'[g] = size[g]
  BY <1>1 DEF Resize, Happens, sendVars, TypeOK
<1>3. ASSUME NEW k \in Calls, Sending(k)
      PROVE  /\ Task(k) = <<k, calls[k].at>> /\ Task(k) \in Tasks /\ File(k) \in Files
             /\ File(k) = f => Task(k) \in changed'
  <2>1. AtWork(k)
    BY <1>3 DEF Sending, AtWork
  <2> QED
    BY <1>1, <1>3, <2>1, TaskAtWork DEF Resize, Sending
<1>4. ASSUME NEW t \in changed', t \notin changed
      PROVE  \E k \in Calls : Sending(k) /\ t = Task(k)
  BY <1>4 DEF Resize, Sending
<1>5. changed \subseteq changed' /\ changed' \subseteq Tasks
  BY <1>1, <1>3, <1>4 DEF TypeOK, Resize
<1>6. TypeOK'
  BY <1>1, <1>2, <1>5 DEF TypeOK
<1>7. ASSUME NEW k \in Calls
      PROVE  CallInv(k)'
  <2>1. ASSUME NEW n \in 1 .. MaxFiles, <<k, n>> \in changed', <<k, n>> \notin changed
        PROVE  Sending(k) /\ n = calls[k].at
    <3>1. PICK j \in Calls : Sending(j) /\ <<k, n>> = Task(j)
      BY <1>4, <2>1
    <3>2. <<k, n>> = <<j, calls[j].at>>
      BY <1>3, <3>1
    <3> QED
      BY <3>1, <3>2
  <2>2. \A n \in 1 .. MaxFiles : Open(via[<<k, n>>])' => Open(via[<<k, n>>])
    BY <1>2 DEF Open
  <2>3. Sending(k) => size'[File(k)] = size[File(k)] \/ Task(k) \in changed'
    BY <1>2, <1>3
  <2> QED
    BY <1>1, <1>2, <1>5, <2>1, <2>2, <2>3, CallLeftAlone
<1>8. Wired' /\ Connected'
  BY <1>1, <1>2 DEF Wired, Connected
<1> QED
  BY <1>6, <1>7, <1>8 DEF IInv

(* A step of the user or of a connection that opens none of a task's.      *)
LEMMA ConnectionsChange ==
  ASSUME IInv, UNCHANGED <<sendVars, fileVars>>, TypeOK', Connected',
         \A t \in Tasks : Open(via[t])' => Open(via[t])
  PROVE  IInv'
<1>1. /\ calls' = calls /\ sent' = sent /\ via' = via
      /\ size' = size /\ changed' = changed
  BY DEF sendVars, fileVars
<1>2. ASSUME NEW k \in Calls
      PROVE  CallInv(k)'
  <2>1. TypeOK /\ CallInv(k)
    BY DEF IInv
  <2>2. \A n \in 1 .. MaxFiles : Open(via[<<k, n>>])' => Open(via[<<k, n>>])
    BY DEF Tasks
  <2> QED
    BY <1>1, <2>1, <2>2, CallLeftAlone
<1> QED
  BY <1>1, <1>2 DEF IInv, Wired

(* So does everything that happens to connections. *)
LEMMA ConnectionsStep ==
  ASSUME IInv, SyncClient \/ SignedOut \/ \E c \in Conns : Opens(c) \/ Closes(c)
  PROVE  IInv'
<1> USE UploaderAssumption
<1>1. TypeOK /\ Connected
  BY DEF IInv
<1>2. UNCHANGED <<sendVars, fileVars>>
  BY DEF SyncClient, SignedOut, Opens, Closes
<1>3. /\ calls' = calls /\ sent' = sent /\ via' = via /\ failed' = failed
      /\ size' = size /\ changed' = changed
  BY <1>2 DEF sendVars, fileVars
<1>4. CASE SyncClient
  <2>1. /\ conn' = conn + 1 /\ conn + 1 \in Conns /\ client' = TRUE
        /\ events' = events + 1 /\ events < NumEvents
        /\ socket' = [socket EXCEPT ![conn + 1] = "connecting"]
    BY <1>1, <1>4 DEF SyncClient, Happens, Connected, Conns
  <2>2. TypeOK'
    <3>1. client' \in BOOLEAN
      BY <2>1, Zenon
    <3> QED
      BY <1>1, <1>3, <2>1, <3>1 DEF TypeOK, Conns
  <2>3. /\ socket[conn + 1] = "none" /\ socket'[conn + 1] = "connecting"
        /\ \A c \in Conns : c # conn + 1 => socket'[c] = socket[c]
    BY <1>1, <2>1 DEF TypeOK, Connected, Conns
  <2>4. Connected'
    BY <1>1, <1>3, <2>1, <2>3 DEF Connected, Conns
  <2>5. \A t \in Tasks : Open(via[t])' => Open(via[t])
    BY <1>1, <1>3, <2>3 DEF Open, Connected
  <2> QED
    BY <1>2, <2>2, <2>4, <2>5, ConnectionsChange
<1>5. CASE SignedOut
  <2>1. client' = FALSE /\ events' = events + 1 /\ events < NumEvents
        /\ conn' = conn /\ socket' = socket
    BY <1>5 DEF SignedOut, Happens
  <2>2. client' \in BOOLEAN
    BY <2>1, Zenon
  <2>3. TypeOK' /\ Connected'
    BY <1>1, <1>3, <2>1, <2>2 DEF TypeOK, Connected
  <2>4. \A t \in Tasks : Open(via[t])' => Open(via[t])
    BY <1>3, <2>1 DEF Open
  <2> QED
    BY <1>2, <2>3, <2>4, ConnectionsChange
<1>6. ASSUME NEW c \in Conns, Opens(c)
      PROVE  IInv'
  <2>1. /\ client' = client /\ events' = events /\ conn' = conn
        /\ socket[c] = "connecting" /\ socket' = [socket EXCEPT ![c] = "open"]
    BY <1>6 DEF Opens
  <2>2. /\ socket' \in [Conns -> {"none", "connecting", "open", "closed"}]
        /\ \A d \in Conns : d # c => socket'[d] = socket[d]
    BY <1>1, <2>1 DEF TypeOK
  <2>3. TypeOK'
    BY <1>1, <1>3, <2>1, <2>2 DEF TypeOK
  <2>4. Connected'
    BY <1>1, <1>3, <2>1, <2>2 DEF Connected, TypeOK
  <2>5. \A t \in Tasks : Open(via[t])' => Open(via[t])
    BY <1>1, <1>3, <2>1, <2>2 DEF Open, Connected
  <2> QED
    BY <1>2, <2>3, <2>4, <2>5, ConnectionsChange
<1>7. ASSUME NEW c \in Conns, Closes(c)
      PROVE  IInv'
  <2>1. /\ client' = client /\ events' = events + 1 /\ events < NumEvents /\ conn' = conn
        /\ socket[c] \in {"connecting", "open"} /\ socket' = [socket EXCEPT ![c] = "closed"]
    BY <1>7 DEF Closes, Happens
  <2>2. /\ socket' \in [Conns -> {"none", "connecting", "open", "closed"}]
        /\ \A d \in Conns : d # c => socket'[d] = socket[d]
        /\ socket'[c] = "closed"
    BY <1>1, <2>1 DEF TypeOK
  <2>3. TypeOK'
    BY <1>1, <1>3, <2>1, <2>2 DEF TypeOK
  <2>4. Connected'
    BY <1>1, <1>3, <2>1, <2>2 DEF Connected, TypeOK
  <2>5. \A t \in Tasks : Open(via[t])' => Open(via[t])
    BY <1>1, <1>3, <2>1, <2>2 DEF Open, Connected
  <2> QED
    BY <1>2, <2>3, <2>4, <2>5, ConnectionsChange
<1> QED
  BY <1>4, <1>5, <1>6, <1>7

(* Every step keeps the invariant. *)
LEMMA Inductive ==
  ASSUME IInv, [Next]_vars
  PROVE  IInv'
<1>1. ASSUME NEW k \in Calls, Begin(k) \/ Choose(k)
      PROVE  IInv'
  BY <1>1, BeginStep, ChooseStep
<1>2. ASSUME NEW k \in Calls, Step(k)
      PROVE  IInv'
  BY <1>2, OpenFileStep, MeasureStep, RemeasureStep, ReadStep, FailStep DEF Step
<1>3. ASSUME NEW f \in Files, Resize(f)
      PROVE  IInv'
  BY <1>3, ResizeStep
<1>4. CASE SyncClient \/ SignedOut \/ \E c \in Conns : Opens(c) \/ Closes(c)
  BY <1>4, ConnectionsStep
<1>5. CASE UNCHANGED vars
  <2>1. UNCHANGED <<sendVars, fileVars>> /\ UNCHANGED connVars
    BY <1>5 DEF vars
  <2>2. TypeOK' /\ Connected'
    BY <2>1 DEF IInv, TypeOK, Connected, sendVars, fileVars, connVars
  <2>3. \A t \in Tasks : Open(via[t])' => Open(via[t])
    BY <2>1 DEF Open, sendVars, connVars
  <2> QED
    BY <2>1, <2>2, <2>3, ConnectionsChange
<1> QED
  BY <1>1, <1>2, <1>3, <1>4, <1>5 DEF Next

--------------------------------------------------------------------------------
(* Every step is one of the protocol of each task, or leaves it as it is.  *)

ProtocolStep(t) == [Protocol(t)!Next]_(Protocol(t)!vars)

(* A step that leaves the wire of a task is a stutter of its protocol. *)
LEMMA NotOfTask ==
  ASSUME NEW t \in Tasks, sent'[t] = sent[t], t \in changed' <=> t \in changed
  PROVE  ProtocolStep(t)
<1>1. (t \in changed)' = (t \in changed)
  OBVIOUS
<1> QED
  BY <1>1 DEF ProtocolStep, Protocol!vars

(* What InStep says of the task a call is sending, in the protocol's words. *)
LEMMA SendingTask ==
  ASSUME IInv, NEW k \in Calls, Sending(k), NEW t \in Tasks, t = Task(k)
  PROVE  /\ sent[t] \in Seq(Message)
         /\ Protocol(t)!Started /\ ~Protocol(t)!Completed
         /\ Protocol(t)!NumSent = Len(sent[t]) - 1
         /\ Protocol(t)!Declared = sent[t][1].no
         /\ InStep(k)
<1>1. TypeOK /\ CallInv(k) /\ Wired
  BY DEF IInv
<1>2. InStep(k)
  BY <1>1 DEF CallInv
<1> QED
  BY <1>1, <1>2 DEF Wired, InStep, Protocol!NumSent, Protocol!Declared,
                    Protocol!Started, Protocol!Completed

(* What a call sends over a connection that has closed changes nothing.    *)
LEMMA SentOrNot ==
  ASSUME Wired, NEW t \in Tasks, NEW msgs \in Seq(Message), Send(t, msgs), changed' = changed,
         Open(via[t]) /\ sent'[t] = sent[t] \o msgs => ProtocolStep(t)
  PROVE  \A u \in Tasks : ProtocolStep(u)
<1>1. ASSUME NEW u \in Tasks, u # t
      PROVE  ProtocolStep(u)
  BY <1>1, SendTyped, NotOfTask
<1>2. CASE Open(via[t])
  BY <1>1, <1>2, SendTyped
<1>3. CASE ~Open(via[t])
  BY <1>1, <1>3, SendTyped, NotOfTask
<1> QED
  BY <1>2, <1>3

(* upload-complete is next once all declared chunks are sent. *)
LEMMA CompleteIsNext ==
  ASSUME IInv, NEW k \in Calls, Sending(k), NEW t \in Tasks, t = Task(k),
         t \in changed \/ Len(sent[t]) - 1 = sent[t][1].no,
         sent'[t] = sent[t] \o CompleteOf(t), changed' = changed
  PROVE  ProtocolStep(t)
<1>1. /\ sent[t] \in Seq(Message)
      /\ Protocol(t)!Started /\ ~Protocol(t)!Completed
      /\ Protocol(t)!NumSent = Len(sent[t]) - 1
      /\ Protocol(t)!Declared = sent[t][1].no
  BY SendingTask
<1>2. sent'[t] = Append(sent[t], Protocol(t)!CompleteMsg)
  BY <1>1, Messages, AppendIsConcat DEF CompleteOf
<1>3. (t \in changed)' = (t \in changed)
  OBVIOUS
<1>4. Protocol(t)!Complete
  BY <1>1, <1>2, <1>3 DEF Protocol!Complete
<1> QED
  BY <1>4 DEF ProtocolStep, Protocol!Next

(* The chunk after those sent is next. *)
LEMMA ChunkIsNext ==
  ASSUME IInv, NEW k \in Calls, Sending(k), NEW t \in Tasks, t = Task(k),
         NEW i \in Nat, Len(sent[t]) = i, t \in changed \/ i - 1 < sent[t][1].no,
         sent'[t] = sent[t] \o <<Protocol(t)!ChunkMsg(i)>>, changed' = changed
  PROVE  ProtocolStep(t)
<1>1. /\ sent[t] \in Seq(Message)
      /\ Protocol(t)!Started /\ ~Protocol(t)!Completed
      /\ Protocol(t)!NumSent = i - 1
      /\ Protocol(t)!Declared = sent[t][1].no
  BY SendingTask
<1>2. Protocol(t)!NumSent + 1 = i
  BY <1>1
<1>3. sent'[t] = Append(sent[t], Protocol(t)!ChunkMsg(i))
  BY <1>1, Messages, AppendIsConcat
<1>4. (t \in changed)' = (t \in changed)
  OBVIOUS
<1>5. Protocol(t)!Chunk
  BY <1>1, <1>2, <1>3, <1>4 DEF Protocol!Chunk
<1> QED
  BY <1>5 DEF ProtocolStep, Protocol!Next

(* Two messages in a row. *)
LEMMA TwoMessages ==
  ASSUME NEW m \in Message, NEW d \in Message
  PROVE  <<m>> \o <<d>> = <<m, d>>
<1>1. /\ <<m>> \in Seq(Message) /\ Len(<<m>>) = 1 /\ <<m>>[1] = m
      /\ <<d>> \in Seq(Message) /\ Len(<<d>>) = 1 /\ <<d>>[1] = d
  OBVIOUS
<1>2. /\ <<m, d>> \in Seq(Message) /\ Len(<<m, d>>) = 2
      /\ <<m, d>>[1] = m /\ <<m, d>>[2] = d
  OBVIOUS
<1>3. /\ <<m>> \o <<d>> \in Seq(Message) /\ Len(<<m>> \o <<d>>) = 2
      /\ (<<m>> \o <<d>>)[1] = m /\ (<<m>> \o <<d>>)[2] = d
  BY <1>1, ConcatProperties
<1>4. \A i \in 1 .. Len(<<m, d>>) : (<<m>> \o <<d>>)[i] = <<m, d>>[i]
  BY <1>2, <1>3
<1> QED
  BY <1>2, <1>3, <1>4, SeqEqual

(* The last chunk is sent together with upload-complete. *)
LEMMA LastChunkIsNext ==
  ASSUME IInv, NEW k \in Calls, Sending(k), NEW t \in Tasks, t = Task(k),
         NEW i \in Nat, Len(sent[t]) = i, t \in changed \/ i = sent[t][1].no,
         sent'[t] = sent[t] \o (<<Protocol(t)!ChunkMsg(i)>> \o CompleteOf(t)), changed' = changed
  PROVE  ProtocolStep(t)
<1>1. /\ sent[t] \in Seq(Message)
      /\ Protocol(t)!Started /\ ~Protocol(t)!Completed
      /\ Protocol(t)!NumSent = i - 1
      /\ Protocol(t)!Declared = sent[t][1].no
  BY SendingTask
<1>2. Protocol(t)!NumSent + 1 = i
  BY <1>1
<1>3. <<Protocol(t)!ChunkMsg(i)>> \o CompleteOf(t) = <<Protocol(t)!ChunkMsg(i), Protocol(t)!CompleteMsg>>
  BY Messages, TwoMessages DEF CompleteOf
<1>4. (t \in changed)' = (t \in changed)
  OBVIOUS
<1>5. Protocol(t)!LastChunk
  BY <1>1, <1>2, <1>3, <1>4 DEF Protocol!LastChunk
<1> QED
  BY <1>5 DEF ProtocolStep, Protocol!Next

(* A step of a call is a step of the protocol of every task, or none. *)
LEMMA StepOfProtocol ==
  ASSUME IInv, NEW k \in Calls, Step(k)
  PROVE  \A u \in Tasks : ProtocolStep(u)
<1> USE UploaderAssumption
<1>1. TypeOK /\ Wired /\ CallInv(k) /\ AtWork(k) /\ calls[k] \in Call
  BY CallsTyped DEF IInv, AtWork, Step, OpenFile, Measure, Remeasure, Read, Fail
<1>2. PICK t \in Tasks : t = Task(k)
  BY <1>1, TaskAtWork
<1>3. changed' = changed
  BY DEF Step, OpenFile, Measure, Remeasure, Read, Fail, fileVars
<1>4. size[File(k)] \in 0 .. MaxChunks
  BY <1>1, TaskAtWork
<1>5. CASE sent' = sent
  BY <1>3, <1>5, NotOfTask
<1>6. CASE Measure(k)
  <2> DEFINE n == size[File(k)]
  <2>1. CASE sent' = [sent EXCEPT ![Task(k)] = <<Protocol(Task(k))!StartMsg(n)>>]
    <3>1. sent' = [sent EXCEPT ![t] = <<Protocol(t)!StartMsg(n)>>]
      BY <1>2, <2>1 DEF Protocol!StartMsg
    <3>2. sent'[t] = <<Protocol(t)!StartMsg(n)>> /\ \A u \in Tasks : u # t => sent'[u] = sent[u]
      BY <1>1, <3>1 DEF Wired
    <3>3. Untouched(<<k, calls[k].at>>)
      <4>1. /\ ~Sending(k) /\ calls[k].step # "ended"
            /\ calls[k].at \in 1 .. MaxFiles
        BY <1>1, <1>6, TaskAtWork DEF Measure, Sending
      <4> QED
        BY <1>1, <4>1 DEF CallInv
    <3>4. sent[t] = <<>>
      BY <1>2, <3>3 DEF Untouched, Task
    <3>5. (t \in changed)' = (t \in changed)
      BY <1>3
    <3>6. Protocol(t)!Start
      BY <1>4, <3>2, <3>4, <3>5 DEF Protocol!Start, Protocol!Started
    <3> QED
      BY <1>3, <3>2, <3>6, NotOfTask DEF ProtocolStep, Protocol!Next
  <2> QED
    BY <1>5, <1>6, <2>1 DEF Measure, CreateTransferTask, Abandon
<1>7. CASE Remeasure(k)
  <2>1. CASE size[File(k)] = 0
    <3>1. Sending(k) /\ calls[k].step = "remeasuring"
      BY <1>7 DEF Remeasure, Sending
    <3>2. t \in changed \/ Len(sent[t]) - 1 = sent[t][1].no
      <4>1. InStep(k)
        BY <1>1, <3>1 DEF CallInv
      <4>2. Len(sent[t]) = 1 /\ (t \in changed \/ sent[t][1].no = 0)
        BY <1>2, <2>1, <3>1, <4>1 DEF InStep
      <4> QED
        BY <4>2
    <3>3. Send(t, CompleteOf(t)) /\ CompleteOf(t) \in Seq(Message)
      BY <1>2, <1>7, <2>1, Messages DEF Remeasure, CompleteOf, Protocol!CompleteMsg
    <3> QED
      BY <1>1, <1>2, <1>3, <3>1, <3>2, <3>3, SentOrNot, CompleteIsNext
  <2>2. CASE size[File(k)] # 0
    BY <1>5, <1>7, <2>2 DEF Remeasure
  <2> QED
    BY <2>1, <2>2
<1>8. CASE Read(k)
  <2> DEFINE i == calls[k].next
             data == <<Protocol(t)!ChunkMsg(i)>>
  <2>1. Sending(k) /\ calls[k].step = "reading" /\ InStep(k)
    BY <1>1, <1>8 DEF Read, Sending, CallInv
  <2>2. /\ i \in Nat /\ i \in 1 .. calls[k].total
        /\ Open(via[t]) => Len(sent[t]) = i
        /\ t \in changed \/ (calls[k].total = size[File(k)] /\ size[File(k)] = sent[t][1].no)
    BY <1>1, <1>2, <2>1 DEF InStep, Call
  <2>3. /\ data \in Seq(Message) /\ CompleteOf(t) \in Seq(Message)
        /\ data \o CompleteOf(t) \in Seq(Message)
    <3>1. data \in Seq(Message) /\ CompleteOf(t) \in Seq(Message)
      BY <2>2, Messages DEF CompleteOf
    <3> QED
      BY <3>1, ConcatProperties
  <2>4. CASE i <= size[File(k)] /\ i < calls[k].total /\ Send(t, data)
    <3>1. t \in changed \/ i - 1 < sent[t][1].no
      BY <1>4, <2>2, <2>4
    <3> QED
      BY <1>1, <1>2, <1>3, <2>1, <2>2, <2>3, <2>4, <3>1, SentOrNot, ChunkIsNext
  <2>5. CASE i <= size[File(k)] /\ i = calls[k].total /\ Send(t, data \o CompleteOf(t))
    <3>1. t \in changed \/ i = sent[t][1].no
      BY <2>2, <2>5
    <3> QED
      BY <1>1, <1>2, <1>3, <2>1, <2>2, <2>3, <2>5, <3>1, SentOrNot, LastChunkIsNext
  <2>6. CASE i > size[File(k)] /\ Send(t, CompleteOf(t))
    <3>1. t \in changed
      BY <1>4, <2>2, <2>6
    <3> QED
      BY <1>1, <1>2, <1>3, <2>1, <2>3, <2>6, <3>1, SentOrNot, CompleteIsNext
  <2> QED
    BY <1>2, <1>8, <2>4, <2>5, <2>6 DEF Read
<1>9. CASE OpenFile(k) \/ Fail(k)
  BY <1>5, <1>9 DEF OpenFile, Abandon, Fail
<1> QED
  BY <1>6, <1>7, <1>8, <1>9 DEF Step

(* So is every other step. *)
LEMMA StepsOfProtocol ==
  ASSUME IInv, [Next]_vars
  PROVE  \A u \in Tasks : ProtocolStep(u)
<1>1. ASSUME NEW k \in Calls, Step(k)
      PROVE  \A u \in Tasks : ProtocolStep(u)
  BY <1>1, StepOfProtocol
<1>2. ASSUME NEW f \in Files, Resize(f), NEW t \in Tasks
      PROVE  ProtocolStep(t)
  <2>1. sent' = sent
    BY <1>2 DEF Resize, sendVars
  <2>2. CASE t \in changed' /\ t \notin changed
    <3>1. PICK k \in Calls : Sending(k) /\ t = Task(k)
      BY <1>2, <2>2 DEF Resize, Sending
    <3>2. Protocol(t)!Started
      BY <3>1, SendingTask
    <3>3. (t \in changed)' = TRUE
      BY <2>2
    <3>4. Protocol(t)!Change
      BY <2>1, <3>2, <3>3 DEF Protocol!Change
    <3> QED
      BY <3>4 DEF ProtocolStep, Protocol!Next
  <2>3. CASE t \in changed' <=> t \in changed
    BY <2>1, <2>3, NotOfTask
  <2>4. t \in changed => t \in changed'
    BY <1>2 DEF Resize
  <2> QED
    BY <2>2, <2>3, <2>4
<1>3. CASE UNCHANGED <<sent, changed>>
  BY <1>3, NotOfTask
<1>4. ASSUME NEW k \in Calls, Begin(k) \/ Choose(k)
      PROVE  UNCHANGED <<sent, changed>>
  BY <1>4 DEF Begin, Choose, fileVars
<1>5. SyncClient \/ SignedOut \/ (\E c \in Conns : Opens(c) \/ Closes(c)) \/ UNCHANGED vars
        => UNCHANGED <<sent, changed>>
  BY DEF SyncClient, SignedOut, Opens, Closes, vars, sendVars, fileVars
<1> QED
  BY <1>1, <1>2, <1>3, <1>4, <1>5 DEF Next

--------------------------------------------------------------------------------
(* The invariant always holds. *)
LEMMA Always == Spec => []IInv
BY Initially, Inductive, PTL DEF Spec

(* Whatever overlaps, changes or fails, every call's loop is in step with  *)
(* what its task has put on the wire (sendFileBlobs).                      *)
THEOREM LoopsInStep == Spec => []UInv
<1>1. IInv => UInv
  BY DEF IInv, CallInv, UInv
<1> QED
  BY <1>1, Always, PTL

(* Every task of handleFileUpload keeps UploadProtocol: no message out of  *)
(* place, none after upload-complete, and no more chunks than declared     *)
(* unless the file has changed since it was measured.                      *)
THEOREM KeepsProtocol == Spec => ProtocolSpec
<1>1. Init => \A t \in Tasks : Protocol(t)!Init
  BY DEF Init, Protocol!Init
<1>2. IInv /\ [Next]_vars =>
        [\A t \in Tasks : [Protocol(t)!Next]_(Protocol(t)!vars)]_<<sent, changed>>
  BY StepsOfProtocol DEF ProtocolStep
<1> QED
  BY <1>1, <1>2, Always, PTL DEF Spec, ProtocolSpec
================================================================================
