------------------------------- MODULE BlobBuffer -------------------------------
(***************************************************************************)
(* How the receiving app writes the chunks of its files                    *)
(* (stores/useBlobBufferStore.ts, handleBinaryResponse of                  *)
(* stores/useChannelStore.ts).  Every chunk that arrives starts an         *)
(* asynchronous handler; handlers interleave at their awaits on the file   *)
(* system, and between two such awaits a handler runs alone.               *)
(*                                                                         *)
(* The store knows a file by the name its blobs carry, which is the        *)
(* directory the uploader was looking at (lib/files.ts), so that the files *)
(* of different upload tasks may go by the same name.  A chunk handler     *)
(* that opens a file names the handle it gets, and the mutex it makes.     *)
(***************************************************************************)
EXTENDS Integers, Sequences, FiniteSets

CONSTANTS
  Tasks,     (* the upload tasks whose blobs are being received             *)
  Total,     (* task -> total_chunks its blobs carry                        *)
  Names,     (* names of files                                              *)
  Namings,   (* the ways to name the tasks' files that are looked at        *)
  NoBuffer   (* the file has no entry in the store                          *)

ASSUME BufferAssumption ==
  /\ Total \in [Tasks -> Nat \ {0}]
  /\ Namings \subseteq [Tasks -> Names]

Blobs   == UNION {{t} \X (1 .. Total[t]) : t \in Tasks}
Task(b) == b[1]

VARIABLES
  name,      (* task -> file name its blobs carry                           *)
  buffers,   (* file name -> its entry of the store, or NoBuffer            *)
  pc,        (* blob -> "away", "opening", "writing", "closing", "done",    *)
             (* "failed": the file system refused, "closed": no handle left *)
  snap,      (* blob -> the store's entries when writeBuffer began          *)
  mutex,     (* handle -> handlers that hold (first) or await its mutex     *)
  shut,      (* handles that have been closed                               *)
  written    (* blobs whose data has been written                           *)

vars == <<name, buffers, pc, snap, mutex, shut, written>>

Entries     == [handle : Blobs, received : Nat]
NoBuffers   == [f \in Names |-> NoBuffer]
File(b)     == name[Task(b)]
Entry(b)    == snap[b][File(b)]
Handle(b)   == Entry(b).handle

ASSUME NoBufferAssumption == NoBuffer \notin Entries

Init ==
  /\ name \in Namings
  /\ buffers = NoBuffers
  /\ pc = [b \in Blobs |-> "away"]
  /\ snap = [b \in Blobs |-> NoBuffers]
  /\ mutex = [h \in Blobs |-> <<>>]
  /\ shut = {}
  /\ written = {}

--------------------------------------------------------------------------------
\* writeBuffer up to the mutex: the store and the entry are read before it.
AwaitMutex(b, store) ==
  /\ snap' = [snap EXCEPT ![b] = store]
  /\ mutex' = [mutex EXCEPT ![store[File(b)].handle] = Append(@, b)]
  /\ pc' = [pc EXCEPT ![b] = "writing"]

Arrive(b) ==
  /\ pc[b] = "away"
  /\ IF buffers[File(b)] = NoBuffer
       THEN pc' = [pc EXCEPT ![b] = "opening"] /\ UNCHANGED <<snap, mutex>>
       ELSE AwaitMutex(b, buffers)
  /\ UNCHANGED <<name, buffers, shut, written>>

\* Fault: the handler's own chunk is counted when the buffer is made.
EntryCounted(b) == [handle |-> b, received |-> 1]

NewEntry(b) == [handle |-> b, received |-> 0]

\* addBuffer: open has returned; the entry replaces one made in the meantime.
AddBuffer(b) ==
  /\ pc[b] = "opening"
  /\ buffers' = [buffers EXCEPT ![File(b)] = NewEntry(b)]
  /\ AwaitMutex(b, buffers')
  /\ UNCHANGED <<name, shut, written>>

OpenFails(b) ==
  /\ pc[b] = "opening"
  /\ pc' = [pc EXCEPT ![b] = "failed"]
  /\ UNCHANGED <<name, buffers, snap, mutex, shut, written>>

--------------------------------------------------------------------------------
(* Inside the mutex. *)

Holds(b) == pc[b] = "writing" /\ Head(mutex[Handle(b)]) = b

\* Fault: an error leaves the mutex locked.
Keep(b) == UNCHANGED mutex

Release(b) == mutex' = [mutex EXCEPT ![Handle(b)] = Tail(@)]

\* Fault: the entry is only dropped by a chunk too many.
LastTooLate(b) == Entry(b).received + 1 > Total[Task(Handle(b))]

\* Fault: chunks are counted from one.
LastOffByOne(b) == Entry(b).received + 1 >= Total[Task(Handle(b))] - 1

Last(b) == Entry(b).received + 1 >= Total[Task(Handle(b))]

WriteFails(b) ==
  /\ Holds(b)
  /\ pc' = [pc EXCEPT ![b] = IF Handle(b) \in shut THEN "closed" ELSE "failed"]
  /\ Release(b)
  /\ UNCHANGED <<name, buffers, snap, shut, written>>

\* The new store is built from the one read before the mutex, entry included.
Write(b) ==
  /\ Holds(b)
  /\ Handle(b) \notin shut
  /\ ~Last(b)
  /\ written' = written \union {b}
  /\ buffers' = [snap[b] EXCEPT ![File(b)].received = @ + 1]
  /\ pc' = [pc EXCEPT ![b] = "done"]
  /\ Release(b)
  /\ UNCHANGED <<name, snap, shut>>

WriteLast(b) ==
  /\ Holds(b)
  /\ Handle(b) \notin shut
  /\ Last(b)
  /\ written' = written \union {b}
  /\ pc' = [pc EXCEPT ![b] = "closing"]
  /\ UNCHANGED <<name, buffers, snap, mutex, shut>>

Close(b) ==
  /\ pc[b] = "closing"
  /\ shut' = shut \union {Handle(b)}
  /\ buffers' = [snap[b] EXCEPT ![File(b)] = NoBuffer]
  /\ pc' = [pc EXCEPT ![b] = "done"]
  /\ Release(b)
  /\ UNCHANGED <<name, snap, written>>

CloseFails(b) ==
  /\ pc[b] = "closing"
  /\ pc' = [pc EXCEPT ![b] = "failed"]
  /\ Release(b)
  /\ UNCHANGED <<name, buffers, snap, shut, written>>

--------------------------------------------------------------------------------
Step(b) ==
  \/ AddBuffer(b) \/ OpenFails(b)
  \/ Write(b) \/ WriteLast(b) \/ WriteFails(b)
  \/ Close(b) \/ CloseFails(b)

Next == \E b \in Blobs : Arrive(b) \/ Step(b)

\* Every file operation returns or fails; no chunk has to arrive.
Spec == Init /\ [][Next]_vars /\ \A b \in Blobs : WF_vars(Step(b))

--------------------------------------------------------------------------------
(* Types; an entry never stays once its last chunk has been counted.       *)
TypeOK ==
  /\ name \in Namings
  /\ buffers \in [Names -> Entries \union {NoBuffer}]
  /\ \A f \in Names : buffers[f] # NoBuffer =>
       buffers[f].received < Total[Task(buffers[f].handle)]
  /\ pc \in [Blobs -> {"away", "opening", "writing", "closing", "done", "failed", "closed"}]
  /\ \A b \in Blobs : pc[b] = "writing" => Entry(b) \in Entries
  /\ \A h \in Blobs : mutex[h] \in Seq(Blobs)
  /\ shut \subseteq Blobs
  /\ written \subseteq Blobs

(* The store never counts a chunk that has not been written through the    *)
(* entry's own handle, although entries are replaced, restored and counted *)
(* from stale copies: the count errs on the low side only.                 *)
NeverOvercounts ==
  \A f \in Names : buffers[f] # NoBuffer =>
    buffers[f].received <=
      Cardinality({b \in written : Handle(b) = buffers[f].handle})

Alone(t) == \A u \in Tasks : name[u] = name[t] => u = t

(* So a file whose name no other upload uses is closed only when every one *)
(* of its chunks is in it, and no handler is left to write through a       *)
(* handle that was closed.                                                 *)
ClosedMeansComplete ==
  \A b \in Blobs : Alone(Task(b)) =>
    /\ pc[b] # "closed"
    /\ b \in shut => \A c \in Blobs : Task(c) = Task(b) => c \in written

(* Both: what the store says of a file errs on the low side only.          *)
CountsAreSafe == NeverOvercounts /\ ClosedMeansComplete

(* Whatever fails, and whatever happens to the entries, every chunk that   *)
(* arrived is written in the end unless the file system refused it or its  *)
(* handle was closed before: no handler is left waiting for a mutex.       *)
EveryChunkSettles ==
  \A b \in Blobs : pc[b] # "away" ~> pc[b] \in {"done", "failed", "closed"}

================================================================================
