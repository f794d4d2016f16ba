-------------------------------- MODULE Uploader --------------------------------
(***************************************************************************)
(* The app's side of uploads: handleFileUpload and buildFile of            *)
(* lib/files.ts, createTransferTask of stores/useChannelStore.ts and       *)
(* sendFileBlobs of stores/useBlobBufferStore.ts.                          *)
(*                                                                         *)
(* A call is one use of the upload button; calls overlap.  Between its     *)
(* awaits a call runs undisturbed, so a step is what it does when a file   *)
(* operation returns: it takes up the answer, sends what there is to send  *)
(* and asks for the next operation.  In the meantime files change,         *)
(* connections open, close and are replaced, and the user signs out.       *)
(***************************************************************************)
EXTENDS Integers, Sequences, FiniteSets

CONSTANTS
  Files,       (* the files there are to choose from                       *)
  MaxChunks,   (* size of a file, in chunks, at most                       *)
  NumCalls,    (* uses of the upload button                                *)
  MaxFiles,    (* files that are chosen in one use, at most                *)
  MaxTasks,    (* and in all uses together                                 *)
  NumConns,    (* connections the app makes                                *)
  NumEvents    (* what happens to files, user and connections meanwhile    *)

ASSUME UploaderAssumption ==
  /\ MaxChunks \in Nat /\ NumCalls \in Nat /\ MaxFiles \in Nat \ {0}
  /\ MaxTasks \in Nat
  /\ NumConns \in Nat \ {0} /\ NumEvents \in Nat

Calls == 1 .. NumCalls
Conns == 1 .. NumConns
Tasks == Calls \X (1 .. MaxFiles)   \* the task of a call's n-th file
NoConn == 0

VARIABLES
  client,     (* there is a client: a user is signed in                    *)
  conn,       (* the current connection: the last one that was made        *)
  socket,     (* readyState of every connection                            *)
  calls,      (* where every call is                                       *)
  size,       (* chunks of every file                                      *)
  events,     (* how much has happened meanwhile                           *)
  sent,       (* what each task has put on the wire                        *)
  via,        (* the connection of a task                                  *)
  changed,    (* tasks whose file has changed since it was measured        *)
  failed      (* tasks that a failing file operation has ended             *)

sendVars   == <<calls, sent, via, failed>>
fileVars   == <<size, changed>>
connVars   == <<client, conn, socket, events>>
vars       == <<sendVars, fileVars, connVars>>

Protocol(t) == INSTANCE UploadProtocol WITH sent <- sent[t], changed <- t \in changed

Idle == [step |-> "idle", files |-> <<>>, at |-> 0, total |-> 0, next |-> 0]

Open(c) == c # NoConn /\ socket[c] = "open"

Task(k) == <<k, calls[k].at>>
File(k) == calls[k].files[calls[k].at]

Init ==
  /\ client = TRUE /\ conn = 1 /\ events = 0
  /\ socket = [c \in Conns |-> IF c = 1 THEN "connecting" ELSE "none"]
  /\ calls = [k \in Calls |-> Idle]
  /\ size \in [Files -> 0 .. MaxChunks]
  /\ sent = [t \in Tasks |-> <<>>]
  /\ via = [t \in Tasks |-> NoConn]
  /\ changed = {} /\ failed = {}

--------------------------------------------------------------------------------
(* A call. *)

\* Calls are numbered in the order they begin in.
Begin(k) ==
  /\ calls[k].step = "idle"
  /\ \A j \in Calls : j < k => calls[j].step # "idle"
  /\ client /\ conn # NoConn
  /\ calls' = [calls EXCEPT ![k].step = "choosing"]
  /\ UNCHANGED <<sent, via, failed, fileVars, connVars>>

\* The dialog gives different files, or none.
Selections ==
  {s \in UNION {[1 .. n -> Files] : n \in 0 .. MaxFiles} :
     \A i, j \in DOMAIN s : s[i] = s[j] => i = j}

NumChosen == Cardinality({t \in Tasks : t[2] \in DOMAIN calls[t[1]].files})

\* The call with its n-th file at hand.  There buildFile looks for a client;
\* without one every file that is left is passed over.
AtFile(c, n) ==
  LET more == n <= Len(c.files) /\ client IN
  [c EXCEPT !.step = IF more THEN "opening" ELSE "ended",
            !.at = n, !.total = 0, !.next = 0]

Choose(k) ==
  /\ calls[k].step = "choosing"
  /\ \E s \in Selections :
       /\ NumChosen + Len(s) <= MaxTasks
       /\ calls' = [calls EXCEPT ![k] = AtFile([@ EXCEPT !.files = s], 1)]
  /\ UNCHANGED <<sent, via, failed, fileVars, connVars>>

NextFile(k) == calls' = [calls EXCEPT ![k] = AtFile(@, @.at + 1)]

\* An exception that nobody catches: the rest of the selection is left out.
Abandon(k) ==
  /\ calls' = [calls EXCEPT ![k].step = "ended"]
  /\ UNCHANGED <<sent, via>>

OpenFile(k) ==
  /\ calls[k].step = "opening"
  /\ \/ calls' = [calls EXCEPT ![k].step = "measuring"] /\ UNCHANGED <<sent, via>>
     \/ Abandon(k)
  /\ UNCHANGED <<failed, fileVars, connVars>>

\* createTransferTask and, with nothing in between, the start of sendFileBlobs.
CreateTransferTask(k) ==
  \/ ~client /\ Abandon(k)
  \/ client /\ ~Open(conn) /\ NextFile(k) /\ UNCHANGED <<sent, via>>
  \/ /\ client /\ Open(conn)
     /\ sent' = [sent EXCEPT ![Task(k)] = <<Protocol(Task(k))!StartMsg(size[File(k)])>>]
     /\ via' = [via EXCEPT ![Task(k)] = conn]
     /\ calls' = [calls EXCEPT ![k].step = "remeasuring"]

\* The first stat of a file returns, or fails.
Measure(k) ==
  /\ calls[k].step = "measuring"
  /\ CreateTransferTask(k) \/ Abandon(k)
  /\ UNCHANGED <<failed, fileVars, connVars>>

\* What is sent over a connection that has closed is discarded.
Send(t, msgs) == sent' = IF Open(via[t]) THEN [sent EXCEPT ![t] = @ \o msgs] ELSE sent

\* Fault: upload-complete is sent if the connection is the current one.
CompleteIfCurrent(t) == IF via[t] = conn THEN <<Protocol(t)!CompleteMsg>> ELSE <<>>

\* After the loop.  (That the connection is open is looked up before sending.)
CompleteOf(t) == <<Protocol(t)!CompleteMsg>>

\* The second stat returns.
Remeasure(k) ==
  /\ calls[k].step = "remeasuring"
  /\ LET total == size[File(k)] IN
     IF total = 0
     THEN Send(Task(k), CompleteOf(Task(k))) /\ NextFile(k)
     ELSE /\ calls' = [calls EXCEPT ![k].step = "reading", ![k].total = total, ![k].next = 1]
          /\ UNCHANGED sent
  /\ UNCHANGED <<via, failed, fileVars, connVars>>

\* A chunk has been read, or nothing where the file is shorter by now.
Read(k) ==
  LET t    == Task(k)
      i    == calls[k].next
      data == <<Protocol(t)!ChunkMsg(i)>>
  IN
  /\ calls[k].step = "reading"
  /\ \/ /\ i <= size[File(k)] /\ i < calls[k].total
        /\ Send(t, data)
        /\ calls' = [calls EXCEPT ![k].next = @ + 1]
     \/ /\ i <= size[File(k)] /\ i = calls[k].total
        /\ Send(t, data \o CompleteOf(t))
        /\ NextFile(k)
     \/ /\ i > size[File(k)]
        /\ Send(t, CompleteOf(t))
        /\ NextFile(k)
  /\ UNCHANGED <<via, failed, fileVars, connVars>>

\* Fault: a read that fails is taken for the end of the file.
FailAndComplete(k) ==
  /\ calls[k].step \in {"remeasuring", "reading"}
  /\ Send(Task(k), CompleteOf(Task(k)))
  /\ NextFile(k)
  /\ failed' = failed \union {Task(k)}
  /\ UNCHANGED <<via, fileVars, connVars>>

\* Fault: the file is read again from the beginning.
FailAndRetry(k) ==
  /\ calls[k].step = "reading"
  /\ calls' = [calls EXCEPT ![k].next = 1]
  /\ UNCHANGED <<sent, via, failed, fileVars, connVars>>

\* The second stat, a seek or a read fails: handleFileUpload catches it and
\* goes on with the next file.  The server is not told.
Fail(k) ==
  /\ calls[k].step \in {"remeasuring", "reading"}
  /\ NextFile(k)
  /\ failed' = failed \union {Task(k)}
  /\ UNCHANGED <<sent, via, fileVars, connVars>>

Step(k) == OpenFile(k) \/ Measure(k) \/ Remeasure(k) \/ Read(k) \/ Fail(k)

--------------------------------------------------------------------------------
(* What goes on meanwhile. *)

Happens ==
  /\ events < NumEvents
  /\ events' = events + 1

\* The files belong to other programs, too.
Resize(f) ==
  /\ Happens
  /\ \E n \in (0 .. MaxChunks) \ {size[f]} : size' = [size EXCEPT ![f] = n]
  /\ changed' = changed \union
       {Task(k) : k \in {j \in Calls : /\ calls[j].step \in {"remeasuring", "reading"}
                                       /\ File(j) = f}}
  /\ UNCHANGED <<sendVars, client, conn, socket>>

\* syncClient with a user: the old connection stays as it is.
SyncClient ==
  /\ Happens
  /\ conn < NumConns
  /\ client' = TRUE
  /\ conn' = conn + 1
  /\ socket' = [socket EXCEPT ![conn + 1] = "connecting"]
  /\ UNCHANGED <<sendVars, fileVars>>

\* syncClient without one.
SignedOut ==
  /\ Happens
  /\ client
  /\ client' = FALSE
  /\ UNCHANGED <<conn, socket, sendVars, fileVars>>

Opens(c) ==
  /\ socket[c] = "connecting"
  /\ socket' = [socket EXCEPT ![c] = "open"]
  /\ UNCHANGED <<client, conn, events, sendVars, fileVars>>

\* A connection closes, or never opens.
Closes(c) ==
  /\ Happens
  /\ socket[c] \in {"connecting", "open"}
  /\ socket' = [socket EXCEPT ![c] = "closed"]
  /\ UNCHANGED <<client, conn, sendVars, fileVars>>

Next ==
  \/ \E k \in Calls : Begin(k) \/ Choose(k) \/ Step(k)
  \/ \E f \in Files : Resize(f)
  \/ SyncClient
  \/ SignedOut
  \/ \E c \in Conns : Opens(c) \/ Closes(c)

Spec == Init /\ [][Next]_vars

\* File operations return or fail.
FairSpec == Spec /\ \A k \in Calls : WF_vars(Step(k))

--------------------------------------------------------------------------------
TypeOK ==
  /\ client \in BOOLEAN /\ conn \in 0 .. NumConns
  /\ socket \in [Conns -> {"none", "connecting", "open", "closed"}]
  /\ calls \in [Calls -> [step : {"idle", "choosing", "opening", "measuring",
                                  "remeasuring", "reading", "ended"},
                          files : Selections, at : 0 .. MaxFiles + 1,
                          total : 0 .. MaxChunks, next : 0 .. MaxChunks]]
  /\ size \in [Files -> 0 .. MaxChunks] /\ events \in 0 .. NumEvents
  /\ via \in [Tasks -> 0 .. NumConns]
  /\ changed \subseteq Tasks /\ failed \subseteq Tasks

AtWork(k)  == calls[k].step \in {"opening", "measuring", "remeasuring", "reading"}
Sending(k) == calls[k].step \in {"remeasuring", "reading"}

\* A task whose turn has not come has left no trace.
Untouched(t) == sent[t] = <<>> /\ via[t] = NoConn /\ t \notin changed

\* How far the task at hand has come, on the wire and in the loop.
InStep(k) ==
  LET t == Task(k) c == calls[k] IN
  /\ via[t] # NoConn
  /\ Protocol(t)!Started
  /\ ~Protocol(t)!Completed
  /\ sent[t][1].no \in 0 .. MaxChunks
  /\ t \notin changed => size[File(k)] = sent[t][1].no
  /\ c.step = "remeasuring" => Len(sent[t]) = 1
  /\ c.step = "reading" =>
       /\ c.next \in 1 .. c.total
       /\ Open(via[t]) => Len(sent[t]) = c.next
       /\ t \notin changed => c.total = size[File(k)]

(* Calls that overlap, files that change and connections that come and go  *)
(* leave every call's loop in step with what its task has on the wire.     *)
UInv ==
  /\ TypeOK
  /\ \A k \in Calls :
       /\ AtWork(k) => calls[k].at \in DOMAIN calls[k].files
       /\ Sending(k) => InStep(k)
       /\ ~Sending(k) /\ calls[k].step # "ended" =>
            \A n \in 1 .. MaxFiles : n >= calls[k].at => Untouched(<<k, n>>)
       /\ calls[k].step # "ended" =>
            \A n \in 1 .. MaxFiles : n > calls[k].at => Untouched(<<k, n>>)

(* Every task keeps the protocol by which TransferServer reads an upload:  *)
(* overlapping uploads, replaced and closing connections, failing reads    *)
(* and changing files may cut it short, and never put a chunk out of       *)
(* place or announce a file whose chunks were not all sent.                *)
ProtocolSpec ==
  /\ \A t \in Tasks : Protocol(t)!Init
  /\ [][\A t \in Tasks : [Protocol(t)!Next]_(Protocol(t)!vars)]_<<sent, changed>>

(* An upload that has been started is completed, unless one of its file    *)
(* operations fails or its own connection closes: a new connection, a      *)
(* sign-out and the other uploads do not stop it.                          *)
StartedIsCompleted ==
  \A t \in Tasks :
    Protocol(t)!Started ~>
      (Protocol(t)!Completed \/ t \in failed \/ (via[t] # NoConn /\ socket[via[t]] = "closed"))
================================================================================
