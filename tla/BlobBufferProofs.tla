---------------------------- MODULE BlobBufferProofs ----------------------------
(***************************************************************************)
(* Proofs about BlobBuffer, for any tasks, sizes and names, and any number *)
(* of handlers that interleave.                                            *)
(***************************************************************************)
EXTENDS BlobBuffer, FiniteSetTheorems, SequenceTheorems, TLAPS

--------------------------------------------------------------------------------
(* The inductive invariant. *)

Stores == [Names -> Entries \union {NoBuffer}]

(* What holds of every copy of the store: an entry is of a file that goes  *)
(* by its name, and its last chunk has not been counted.                   *)
Sane(store) ==
  /\ store \in Stores
  /\ \A f \in Names : store[f] # NoBuffer =>
       /\ store[f].received < Total[Task(store[f].handle)]
       /\ name[Task(store[f].handle)] = f

HasEntry == {"writing", "closing", "done"}

Types ==
  /\ name \in Namings
  /\ pc \in [Blobs -> {"away", "opening", "writing", "closing", "done", "failed", "closed"}]
  /\ snap \in [Blobs -> Stores]
  /\ Sane(buffers) /\ \A b \in Blobs : Sane(snap[b])
  /\ \A b \in Blobs : pc[b] \in HasEntry => Entry(b) # NoBuffer
  /\ shut \subseteq Blobs

(* Written chunks are those of handlers that are past the write.           *)
Writes ==
  /\ written \subseteq Blobs /\ IsFiniteSet(written)
  /\ \A b \in written : pc[b] \in {"closing", "done", "failed"} /\ Entry(b) # NoBuffer
  /\ \A b \in Blobs : pc[b] = "closing" => b \in written

(* Whoever waits for a mutex is in its queue, and who closes is first.     *)
Queues ==
  /\ mutex \in [Blobs -> Seq(Blobs)]
  /\ \A b \in Blobs :
       /\ pc[b] = "writing" =>
            \E i \in 1 .. Len(mutex[Handle(b)]) : mutex[Handle(b)][i] = b
       /\ pc[b] = "closing" => mutex[Handle(b)] # <<>> /\ Head(mutex[Handle(b)]) = b

(* The chunks written through a handle, and what a copy of the store says. *)
Through(h) == {b \in written : Handle(b) = h}

LowIn(store) ==
  \A f \in Names : store[f] # NoBuffer =>
    store[f].received <= Cardinality(Through(store[f].handle))

Low == LowIn(buffers) /\ \A b \in Blobs : LowIn(snap[b])

(* A file of a name of its own is complete before it is closed.            *)
AllWritten(t) == \A c \in Blobs : Task(c) = t => c \in written

Complete ==
  \A b \in Blobs : Alone(Task(b)) =>
    /\ pc[b] = "closing" \/ b \in shut => AllWritten(Task(b))
    /\ pc[b] # "closed"

IInv == Types /\ Writes /\ Queues /\ Low /\ Complete

--------------------------------------------------------------------------------
(* Blobs, entries and handles. *)

(* A blob is of a task that has blobs. *)
LEMMA BlobTask ==
  ASSUME NEW b \in Blobs
  PROVE  Task(b) \in Tasks /\ Total[Task(b)] \in Nat \ {0}
BY BufferAssumption DEF Blobs, Task

(* Every blob goes to a file with a name. *)
LEMMA FileOf ==
  ASSUME Types, NEW b \in Blobs
  PROVE  File(b) \in Names
BY BlobTask, BufferAssumption DEF Types, File

(* An entry that is there counts for a task of the same name. *)
LEMMA EntryOf ==
  ASSUME Types, NEW b \in Blobs, Entry(b) # NoBuffer
  PROVE  /\ Entry(b) \in Entries /\ Entry(b).received \in Nat
         /\ Handle(b) = Entry(b).handle /\ Handle(b) \in Blobs
         /\ Entry(b).received < Total[Task(Handle(b))]
         /\ name[Task(Handle(b))] = File(b)
<1>1. File(b) \in Names /\ Sane(snap[b])
  BY FileOf DEF Types
<1> QED
  BY <1>1 DEF Sane, Stores, Entry, Handle, Entries

(* The invariant holds at first. *)
LEMMA Initially == Init => IInv
<1> SUFFICES ASSUME Init PROVE IInv
  OBVIOUS
<1>1. NoBuffers \in Stores /\ \A f \in Names : NoBuffers[f] = NoBuffer
  BY DEF NoBuffers, Stores
<1>2. Sane(buffers) /\ \A b \in Blobs : Sane(snap[b])
  BY <1>1 DEF Init, Sane
<1>3. Types
  BY <1>1, <1>2 DEF Init, Types, HasEntry
<1>4. Writes
  BY FS_EmptySet DEF Init, Writes
<1>5. Queues
  BY DEF Init, Queues
<1>6. Low
  BY <1>1 DEF Init, Low, LowIn
<1>7. Complete
  BY DEF Init, Complete
<1> QED
  BY <1>3, <1>4, <1>5, <1>6, <1>7 DEF IInv

--------------------------------------------------------------------------------
(* Counting. *)

(* Finitely many blobs are written through one handle. *)
LEMMA ThroughFinite ==
  ASSUME Writes, NEW h
  PROVE  IsFiniteSet(Through(h)) /\ Cardinality(Through(h)) \in Nat
<1>1. Through(h) \in SUBSET written /\ IsFiniteSet(written)
  BY DEF Through, Writes
<1> QED
  BY <1>1, FS_Subset, FS_CardinalityType

(* A step that writes nothing and leaves the handles of what is written.   *)
LEMMA NothingWritten ==
  ASSUME written' = written, \A c \in written : Handle(c)' = Handle(c),
         NEW store, LowIn(store)
  PROVE  LowIn(store)'
<1>1. \A h : Through(h)' = Through(h)
  BY DEF Through
<1> QED
  BY <1>1 DEF LowIn

(* A step that writes one chunk more.                                      *)
LEMMA OneWritten ==
  ASSUME Writes, NEW b \in Blobs, b \notin written, written' = written \union {b},
         \A c \in Blobs : Handle(c)' = Handle(c)
  PROVE  /\ Cardinality(Through(Handle(b)))' = Cardinality(Through(Handle(b))) + 1
         /\ \A h : \/ Cardinality(Through(h))' = Cardinality(Through(h))
                  \/ Cardinality(Through(h))' = Cardinality(Through(h)) + 1
<1>1. ASSUME NEW h, h = Handle(b)
      PROVE  Cardinality(Through(h))' = Cardinality(Through(h)) + 1
  <2>1. Through(h)' = Through(h) \union {b} /\ b \notin Through(h)
    BY <1>1 DEF Through, Writes
  <2> QED
    BY <2>1, ThroughFinite, FS_AddElement
<1>2. ASSUME NEW h, h # Handle(b)
      PROVE  Cardinality(Through(h))' = Cardinality(Through(h))
  <2>1. Through(h)' = Through(h)
    BY <1>2 DEF Through, Writes
  <2> QED
    BY <2>1
<1>3. \A h : Cardinality(Through(h)) \in Nat
  BY ThroughFinite
<1>4. Handle(b)' = Handle(b)
  OBVIOUS
<1>5. PICK h : h = Handle(b)
  OBVIOUS
<1>6. Cardinality(Through(Handle(b)))' = Cardinality(Through(h))'
  BY <1>4, <1>5 DEF Through
<1> QED
  BY <1>1, <1>2, <1>3, <1>5, <1>6

(* One more blob written does not make counts too high. *)
LEMMA StillLow ==
  ASSUME Writes, NEW b \in Blobs, b \notin written, written' = written \union {b},
         \A c \in Blobs : Handle(c)' = Handle(c),
         NEW store, LowIn(store), Sane(store)
  PROVE  LowIn(store)'
<1>1. ASSUME NEW f \in Names, store[f] # NoBuffer
      PROVE  store[f].received <= Cardinality(Through(store[f].handle))'
  <2>1. store[f].received <= Cardinality(Through(store[f].handle))
    BY <1>1 DEF LowIn
  <2>2. store[f].received \in Nat
    BY <1>1 DEF Sane, Stores, Entries
  <2>3. Cardinality(Through(store[f].handle)) \in Nat
    BY ThroughFinite
  <2> QED
    BY <2>1, <2>2, <2>3, OneWritten
<1> QED
  BY <1>1 DEF LowIn

--------------------------------------------------------------------------------
(* Mutexes. *)

(* The mutex is still a queue after its holder has left it. *)
LEMMA ReleaseQueues ==
  ASSUME Types, Queues, NEW b \in Blobs, Holds(b) \/ pc[b] = "closing", Release(b),
         NEW x, x \notin {"writing", "closing"}, pc' = [pc EXCEPT ![b] = x],
         snap' = snap, name' = name
  PROVE  Queues'
<1> DEFINE h == Handle(b)
<1>1. pc[b] \in HasEntry
  BY DEF Holds, HasEntry
<1>2. h \in Blobs /\ mutex[h] \in Seq(Blobs) /\ mutex[h] # <<>> /\ Head(mutex[h]) = b
  BY <1>1, EntryOf DEF Types, Queues, Holds
<1>3. mutex' = [mutex EXCEPT ![h] = Tail(mutex[h])] /\ Tail(mutex[h]) \in Seq(Blobs)
  BY <1>2 DEF Release, Queues
<1>4. \A c \in Blobs : Handle(c)' = Handle(c)
  BY DEF Handle, Entry, File
<1>10. \A c \in Blobs : c # b => pc'[c] = pc[c]
  BY DEF Types
<1>11. pc'[b] = x
  BY DEF Types
<1>5. ASSUME NEW c \in Blobs, c # b, pc[c] = "writing"
      PROVE  \E i \in 1 .. Len(mutex'[Handle(c)]) : mutex'[Handle(c)][i] = c
  <2>1. PICK i \in 1 .. Len(mutex[Handle(c)]) : mutex[Handle(c)][i] = c
    BY <1>5 DEF Queues
  <2>2. Handle(c) \in Blobs
    BY <1>5, EntryOf DEF Types, HasEntry
  <2>3. CASE Handle(c) # h
    BY <1>3, <2>1, <2>2, <2>3 DEF Queues
  <2>4. CASE Handle(c) = h
    <3>1. mutex'[Handle(c)] = Tail(mutex[h])
      BY <1>2, <1>3, <2>4 DEF Queues
    <3>2. i # 1 /\ i \in 1 .. Len(mutex[h])
      BY <1>2, <1>5, <2>1, <2>4
    <3>3. i - 1 \in 1 .. Len(Tail(mutex[h])) /\ Tail(mutex[h])[i - 1] = mutex[h][i]
      BY <1>2, <3>2
    <3> QED
      BY <2>1, <2>4, <3>1, <3>3
  <2> QED
    BY <2>3, <2>4
<1>6. ASSUME NEW c \in Blobs, c # b, pc[c] = "closing"
      PROVE  mutex'[Handle(c)] # <<>> /\ Head(mutex'[Handle(c)]) = c
  <2>1. Handle(c) \in Blobs /\ mutex[Handle(c)] # <<>> /\ Head(mutex[Handle(c)]) = c
    BY <1>6, EntryOf DEF Types, HasEntry, Queues
  <2>2. Handle(c) # h
    BY <1>2, <1>6, <2>1
  <2> QED
    BY <1>3, <2>1, <2>2 DEF Queues
<1>7. mutex' \in [Blobs -> Seq(Blobs)]
  BY <1>2, <1>3 DEF Queues
<1> HIDE DEF h
<1>8. ASSUME NEW c \in Blobs, pc'[c] = "writing"
      PROVE  \E i \in 1 .. Len(mutex'[Handle(c)']) : mutex'[Handle(c)'][i] = c
  <2>1. c # b /\ pc[c] = "writing" /\ Handle(c)' = Handle(c)
    BY <1>4, <1>8, <1>10, <1>11
  <2>2. \E i \in 1 .. Len(mutex'[Handle(c)]) : mutex'[Handle(c)][i] = c
    BY <1>5, <2>1
  <2> QED
    BY <2>1, <2>2
<1>9. ASSUME NEW c \in Blobs, pc'[c] = "closing"
      PROVE  mutex'[Handle(c)'] # <<>> /\ Head(mutex'[Handle(c)']) = c
  <2>1. c # b /\ pc[c] = "closing" /\ Handle(c)' = Handle(c)
    BY <1>4, <1>9, <1>10, <1>11
  <2>2. mutex'[Handle(c)] # <<>> /\ Head(mutex'[Handle(c)]) = c
    BY <1>6, <2>1
  <2> QED
    BY <2>1, <2>2
<1> QED
  BY <1>7, <1>8, <1>9 DEF Queues

(* The mutex is still a queue after one more waits for it. *)
LEMMA AppendQueues ==
  ASSUME Types, Queues, NEW b \in Blobs, pc[b] \in {"away", "opening"}, NEW store \in Stores,
         store[File(b)] # NoBuffer, AwaitMutex(b, store), name' = name
  PROVE  Queues'
<1> DEFINE h == store[File(b)].handle
<1>1. h \in Blobs
  BY FileOf DEF Stores, Entries
<1>2. /\ snap' = [snap EXCEPT ![b] = store] /\ pc' = [pc EXCEPT ![b] = "writing"]
      /\ mutex' = [mutex EXCEPT ![h] = Append(mutex[h], b)]
  BY <1>1 DEF AwaitMutex, Queues
<1>3. Handle(b)' = h /\ \A c \in Blobs : c # b => Handle(c)' = Handle(c)
  BY <1>2 DEF Handle, Entry, File, Types
<1>4. /\ \A c \in Blobs : c # b => pc'[c] = pc[c]
      /\ pc'[b] = "writing"
  BY <1>2 DEF Types
<1>5. mutex' \in [Blobs -> Seq(Blobs)] /\ mutex[h] \in Seq(Blobs)
  BY <1>1, <1>2 DEF Queues
<1>6. /\ \A g \in Blobs : g # h => mutex'[g] = mutex[g]
      /\ Len(mutex'[h]) = Len(mutex[h]) + 1 /\ mutex'[h][Len(mutex[h]) + 1] = b
      /\ \A i \in 1 .. Len(mutex[h]) : mutex'[h][i] = mutex[h][i]
  BY <1>1, <1>2, <1>5, AppendProperties DEF Queues
<1> HIDE DEF h
<1>7. Len(mutex[h]) \in Nat
  BY <1>5
<1>8. ASSUME NEW c \in Blobs, c # b, pc[c] = "writing"
      PROVE  \E i \in 1 .. Len(mutex'[Handle(c)]) : mutex'[Handle(c)][i] = c
  <2>1. PICK i \in 1 .. Len(mutex[Handle(c)]) : mutex[Handle(c)][i] = c
    BY <1>8 DEF Queues
  <2>2. Handle(c) \in Blobs
    BY <1>8, EntryOf DEF Types, HasEntry
  <2>3. CASE Handle(c) # h
    BY <1>6, <2>1, <2>2, <2>3
  <2>4. CASE Handle(c) = h
    BY <1>6, <1>7, <2>1, <2>4
  <2> QED
    BY <2>3, <2>4
<1>9. ASSUME NEW c \in Blobs, c # b, pc[c] = "closing"
      PROVE  mutex'[Handle(c)] # <<>> /\ Head(mutex'[Handle(c)]) = c
  <2>1. Handle(c) \in Blobs /\ mutex[Handle(c)] # <<>> /\ Head(mutex[Handle(c)]) = c
    BY <1>9, EntryOf DEF Types, HasEntry, Queues
  <2>2. CASE Handle(c) # h
    BY <1>6, <2>1, <2>2
  <2>3. CASE Handle(c) = h
    <3>1. 1 \in 1 .. Len(mutex[h]) /\ mutex[h][1] = c
      BY <1>5, <2>1, <2>3
    <3>2. Len(mutex'[h]) \in Nat \ {0} /\ mutex'[h][1] = c /\ mutex'[h] \in Seq(Blobs)
      BY <1>1, <1>5, <1>6, <1>7, <3>1
    <3> QED
      BY <2>3, <3>2
  <2> QED
    BY <2>2, <2>3
<1>10. \E i \in 1 .. Len(mutex'[h]) : mutex'[h][i] = b
  BY <1>6, <1>7
<1>11. ASSUME NEW c \in Blobs, pc'[c] = "writing"
       PROVE  \E i \in 1 .. Len(mutex'[Handle(c)']) : mutex'[Handle(c)'][i] = c
  <2>1. CASE c = b
    BY <1>3, <1>10, <2>1
  <2>2. CASE c # b
    BY <1>3, <1>4, <1>8, <1>11, <2>2
  <2> QED
    BY <2>1, <2>2
<1>12. ASSUME NEW c \in Blobs, pc'[c] = "closing"
       PROVE  mutex'[Handle(c)'] # <<>> /\ Head(mutex'[Handle(c)']) = c
  BY <1>3, <1>4, <1>9, <1>12
<1> QED
  BY <1>5, <1>11, <1>12 DEF Queues

(* A step of one handler leaves what the others wait for as it was.        *)
LEMMA SameQueues ==
  ASSUME Types, Queues, NEW b \in Blobs, NEW x, pc' = [pc EXCEPT ![b] = x],
         x # "writing",
         x = "closing" => mutex[Handle(b)] # <<>> /\ Head(mutex[Handle(b)]) = b,
         mutex' = mutex, snap' = snap, name' = name
  PROVE  Queues'
<1>1. \A c \in Blobs : Handle(c)' = Handle(c)
  BY DEF Handle, Entry, File
<1>2. \A c \in Blobs : c # b => pc'[c] = pc[c]
  BY DEF Types
<1>3. pc'[b] = x
  BY DEF Types
<1>4. ASSUME NEW c \in Blobs, pc'[c] = "writing"
      PROVE  \E i \in 1 .. Len(mutex'[Handle(c)']) : mutex'[Handle(c)'][i] = c
  <2>1. pc[c] = "writing" /\ Handle(c)' = Handle(c)
    BY <1>1, <1>2, <1>3, <1>4
  <2>2. \E i \in 1 .. Len(mutex[Handle(c)]) : mutex[Handle(c)][i] = c
    BY <2>1 DEF Queues
  <2> QED
    BY <2>1, <2>2
<1>5. ASSUME NEW c \in Blobs, pc'[c] = "closing"
      PROVE  mutex'[Handle(c)'] # <<>> /\ Head(mutex'[Handle(c)']) = c
  <2>1. /\ Handle(c)' = Handle(c)
        /\ mutex[Handle(c)] # <<>> /\ Head(mutex[Handle(c)]) = c
    BY <1>1, <1>2, <1>3, <1>5 DEF Queues
  <2> QED
    BY <2>1
<1> QED
  BY <1>4, <1>5 DEF Queues

--------------------------------------------------------------------------------
(* One lemma per step that fetches, fills or gives up a buffer. *)

(* The handler joins the mutex of an entry of the store it has read.       *)
LEMMA JoinKeeps ==
  ASSUME IInv, NEW b \in Blobs, pc[b] \in {"away", "opening"},
         NEW store, Sane(store), LowIn(store), store[File(b)] # NoBuffer,
         AwaitMutex(b, store), UNCHANGED <<name, shut, written>>,
         Sane(buffers)', LowIn(buffers)'
  PROVE  IInv'
<1>1. Types /\ Writes /\ Queues /\ Low /\ Complete
  BY DEF IInv
<1>2. snap' = [snap EXCEPT ![b] = store] /\ pc' = [pc EXCEPT ![b] = "writing"]
  BY DEF AwaitMutex
<1>3. snap'[b] = store /\ \A c \in Blobs : c # b => snap'[c] = snap[c]
  BY <1>1, <1>2 DEF Types
<1>4. pc'[b] = "writing" /\ \A c \in Blobs : c # b => pc'[c] = pc[c]
  BY <1>1, <1>2 DEF Types
<1>5. b \notin written /\ written \subseteq Blobs
  BY <1>1 DEF Writes
<1>6. \A c \in Blobs : c # b => Entry(c)' = Entry(c) /\ Handle(c)' = Handle(c)
  BY <1>3 DEF Entry, Handle, File
<1>7. Entry(b)' = store[File(b)]
  BY <1>3 DEF Entry, File
<1>8. store \in Stores
  BY DEF Sane
<1>9. Types'
  <2>1. \A c \in Blobs : Sane(snap[c])'
    <3>1. \A c \in Blobs : Sane(snap'[c])
      BY <1>1, <1>3 DEF Types
    <3> QED
      BY <3>1 DEF Sane, Stores
  <2>2. \A c \in Blobs : pc'[c] \in HasEntry => Entry(c)' # NoBuffer
    BY <1>1, <1>4, <1>6, <1>7 DEF Types
  <2>3. snap' \in [Blobs -> Stores]
    BY <1>1, <1>2, <1>8 DEF Types
  <2>4. Stores' = Stores
    BY DEF Stores
  <2> QED
    BY <1>1, <1>2, <2>1, <2>2, <2>3, <2>4 DEF Types
<1>10. Writes'
  <2>1. \A c \in written : pc'[c] = pc[c] /\ Entry(c)' = Entry(c)
    BY <1>4, <1>5, <1>6
  <2>2. \A c \in Blobs : pc'[c] = "closing" => pc[c] = "closing"
    BY <1>4
  <2> QED
    BY <1>1, <2>1, <2>2 DEF Writes
<1>11. Queues'
  BY <1>1, <1>8, AppendQueues
<1>12. Low'
  <2>1. \A c \in written : Handle(c)' = Handle(c)
    BY <1>5, <1>6
  <2>2. ASSUME NEW c \in Blobs PROVE LowIn(snap[c])'
    <3>1. LowIn(snap'[c])
      BY <1>1, <1>3 DEF Low
    <3>2. PICK s : s = snap'[c]
      OBVIOUS
    <3>3. LowIn(s)'
      BY <2>1, <3>1, <3>2, NothingWritten
    <3> QED
      BY <3>2, <3>3 DEF LowIn
  <2> QED
    BY <2>2 DEF Low
<1>13. Complete'
  <2>1. \A c \in Blobs : /\ pc'[c] = "closing" => pc[c] = "closing"
                         /\ pc'[c] = "closed" => pc[c] = "closed"
    BY <1>4
  <2>2. \A t : Alone(t)' = Alone(t) /\ AllWritten(t)' = AllWritten(t)
    BY DEF Alone, AllWritten
  <2> QED
    BY <1>1, <2>1, <2>2 DEF Complete
<1> QED
  BY <1>9, <1>10, <1>11, <1>12, <1>13 DEF IInv

(* A handler goes on, and reads no store and writes nothing.               *)
LEMMA PassKeeps ==
  ASSUME IInv, NEW b \in Blobs,
         NEW x \in {"opening", "done", "failed", "closed"}, pc' = [pc EXCEPT ![b] = x],
         UNCHANGED <<name, snap, written>>, Queues',
         x = "done" => Entry(b) # NoBuffer,
         b \in written => x \in {"done", "failed"},
         x = "closed" => ~Alone(Task(b)),
         shut' \subseteq Blobs,
         \A c \in shut' : c \notin shut /\ Alone(Task(c)) => AllWritten(Task(c)),
         NEW store, buffers' = store, Sane(store), LowIn(store)
  PROVE  IInv'
<1>1. Types /\ Writes /\ Low /\ Complete
  BY DEF IInv
<1>2. \A c \in Blobs : c # b => pc'[c] = pc[c]
  BY <1>1 DEF Types
<1>3. pc'[b] = x
  BY <1>1 DEF Types
<1>4. \A c \in Blobs : Entry(c)' = Entry(c) /\ Handle(c)' = Handle(c)
  BY DEF Entry, Handle, File
<1>5. Types'
  <2>1. \A c \in Blobs : Sane(snap[c])'
    BY <1>1 DEF Types, Sane, Stores
  <2>2. \A c \in Blobs : pc'[c] \in HasEntry => Entry(c)' # NoBuffer
    BY <1>1, <1>2, <1>3, <1>4 DEF Types, HasEntry
  <2>3. Sane(buffers)'
    BY DEF Sane, Stores
  <2>4. snap' \in [Blobs -> Stores'] /\ name' \in Namings
    BY <1>1 DEF Types, Stores
  <2>5. pc' \in [Blobs -> {"away", "opening", "writing", "closing", "done", "failed", "closed"}]
    BY <1>1 DEF Types
  <2> QED
    BY <2>1, <2>2, <2>3, <2>4, <2>5 DEF Types
<1>6. Writes'
  <2>1. \A c \in written : pc'[c] \in {"closing", "done", "failed"} /\ Entry(c)' # NoBuffer
    BY <1>1, <1>2, <1>3, <1>4 DEF Writes
  <2>2. \A c \in Blobs : pc'[c] = "closing" => c \in written
    BY <1>1, <1>2, <1>3 DEF Writes
  <2> QED
    BY <1>1, <2>1, <2>2 DEF Writes
<1>7. Low'
  <2>1. \A c \in written : Handle(c)' = Handle(c)
    BY <1>1, <1>4 DEF Writes
  <2>2. ASSUME NEW c \in Blobs PROVE LowIn(snap[c])'
    <3>1. PICK s : s = snap[c]
      OBVIOUS
    <3>2. LowIn(s)'
      BY <1>1, <2>1, <3>1, NothingWritten DEF Low
    <3> QED
      BY <3>1, <3>2 DEF LowIn
  <2>3. LowIn(store)'
    BY <2>1, NothingWritten
  <2>4. LowIn(buffers)'
    BY <2>3 DEF LowIn
  <2> QED
    BY <2>2, <2>4 DEF Low
<1>8. Complete'
  <2>1. \A t : Alone(t)' = Alone(t) /\ AllWritten(t)' = AllWritten(t)
    BY DEF Alone, AllWritten
  <2>2. ASSUME NEW c \in Blobs, Alone(Task(c)), pc'[c] = "closing"
        PROVE  AllWritten(Task(c))
    BY <1>1, <1>2, <1>3, <2>2 DEF Complete
  <2>3. ASSUME NEW c \in Blobs, Alone(Task(c)), c \in shut'
        PROVE  AllWritten(Task(c))
    BY <1>1, <2>3 DEF Complete
  <2>4. ASSUME NEW c \in Blobs, Alone(Task(c))
        PROVE  pc'[c] # "closed"
    BY <1>1, <1>2, <1>3, <2>4 DEF Complete
  <2>5. \A c \in Blobs : Alone(Task(c))' =>
          /\ pc'[c] = "closing" \/ c \in shut' => AllWritten(Task(c))'
          /\ pc'[c] # "closed"
    BY <2>1, <2>2, <2>3, <2>4
  <2> QED
    BY <2>5 DEF Complete
<1> QED
  BY <1>5, <1>6, <1>7, <1>8 DEF IInv

(* Arrive keeps the invariant: the blob finds an entry, or opens one. *)
LEMMA ArriveKeeps ==
  ASSUME IInv, NEW b \in Blobs, Arrive(b)
  PROVE  IInv'
<1>1. Types /\ Writes /\ Queues /\ Low /\ Complete
  BY DEF IInv
<1>2. Sane(buffers)' /\ LowIn(buffers)'
  <2>1. \A c \in written : Handle(c)' = Handle(c)
    <3>1. \A c \in Blobs : c # b => snap'[c] = snap[c]
      BY <1>1 DEF Arrive, AwaitMutex, Types
    <3>2. b \notin written /\ written \subseteq Blobs
      BY <1>1 DEF Arrive, Writes
    <3> QED
      BY <3>1, <3>2 DEF Handle, Entry, File, Arrive
  <2>2. buffers' = buffers /\ name' = name /\ written' = written
    BY DEF Arrive
  <2>3. PICK s : s = buffers
    OBVIOUS
  <2>4. LowIn(s)'
    BY <1>1, <2>1, <2>2, <2>3, NothingWritten DEF Low
  <2>5. LowIn(buffers)'
    BY <2>2, <2>3, <2>4 DEF LowIn
  <2>6. Sane(buffers)'
    BY <1>1, <2>2 DEF Types, Sane, Stores
  <2> QED
    BY <2>5, <2>6
<1>3. CASE buffers[File(b)] = NoBuffer
  <2>1. /\ pc' = [pc EXCEPT ![b] = "opening"]
        /\ UNCHANGED <<name, buffers, snap, mutex, shut, written>>
    BY <1>3 DEF Arrive
  <2>2. Queues'
    BY <1>1, <2>1, SameQueues
  <2>3. b \notin written /\ shut \subseteq Blobs
    BY <1>1 DEF Arrive, Writes, Types
  <2>4. PICK s : s = buffers
    OBVIOUS
  <2>5. Sane(s) /\ LowIn(s)
    BY <1>1, <2>4 DEF Types, Low
  <2> QED
    BY <2>1, <2>2, <2>3, <2>4, <2>5, PassKeeps
<1>4. CASE buffers[File(b)] # NoBuffer
  <2>1. AwaitMutex(b, buffers) /\ UNCHANGED <<name, shut, written>> /\ pc[b] = "away"
    BY <1>4 DEF Arrive
  <2>2. PICK s : s = buffers
    OBVIOUS
  <2>3. Sane(s) /\ LowIn(s) /\ s[File(b)] # NoBuffer /\ AwaitMutex(b, s)
    BY <1>1, <1>4, <2>1, <2>2 DEF Types, Low
  <2> QED
    BY <1>2, <2>1, <2>3, JoinKeeps
<1> QED
  BY <1>3, <1>4

(* So does a file that does not open. *)
LEMMA OpenFailsKeeps ==
  ASSUME IInv, NEW b \in Blobs, OpenFails(b)
  PROVE  IInv'
<1>1. Types /\ Writes /\ Queues /\ Low
  BY DEF IInv
<1>2. /\ pc[b] = "opening" /\ pc' = [pc EXCEPT ![b] = "failed"]
      /\ UNCHANGED <<name, buffers, snap, mutex, shut, written>>
  BY DEF OpenFails
<1>3. Queues'
  BY <1>1, <1>2, SameQueues
<1>4. b \notin written /\ shut \subseteq Blobs
  BY <1>1, <1>2 DEF Writes, Types
<1>5. PICK s : s = buffers
  OBVIOUS
<1>6. Sane(s) /\ LowIn(s)
  BY <1>1, <1>5 DEF Types, Low
<1> QED
  BY <1>2, <1>3, <1>4, <1>5, <1>6, PassKeeps

(* So does addBuffer: the entry counts nothing yet. *)
LEMMA AddBufferKeeps ==
  ASSUME IInv, NEW b \in Blobs, AddBuffer(b)
  PROVE  IInv'
<1>1. Types /\ Writes /\ Queues /\ Low
  BY DEF IInv
<1>2. PICK s : s = [buffers EXCEPT ![File(b)] = NewEntry(b)]
  OBVIOUS
<1>3. /\ pc[b] = "opening" /\ buffers' = s /\ AwaitMutex(b, s)
      /\ UNCHANGED <<name, shut, written>>
  BY <1>2 DEF AddBuffer
<1>4. NewEntry(b) \in Entries /\ NewEntry(b).received = 0 /\ NewEntry(b).handle = b
  BY DEF NewEntry, Entries
<1>5. NewEntry(b) # NoBuffer
  BY <1>4, NoBufferAssumption
<1>6. File(b) \in Names
  BY <1>1, FileOf
<1>7. /\ s \in Stores /\ s[File(b)] = NewEntry(b)
      /\ \A f \in Names : f # File(b) => s[f] = buffers[f]
  BY <1>1, <1>2, <1>4, <1>6 DEF Types, Sane, Stores
<1>8. Sane(s)
  <2>1. name[Task(b)] = File(b) /\ 0 < Total[Task(b)]
    BY BlobTask DEF File
  <2> QED
    BY <1>1, <1>4, <1>7, <2>1 DEF Types, Sane
<1>9. LowIn(s)
  <2>1. Cardinality(Through(b)) \in Nat
    BY <1>1, ThroughFinite
  <2> QED
    BY <1>1, <1>4, <1>7, <2>1 DEF Low, LowIn
<1>10. Sane(buffers)'
  BY <1>3, <1>8 DEF Sane, Stores
<1>11. LowIn(buffers)'
  <2>1. \A c \in written : Handle(c)' = Handle(c)
    <3>1. b \notin written /\ written \subseteq Blobs
      BY <1>1, <1>3 DEF Writes
    <3>2. \A c \in Blobs : c # b => snap'[c] = snap[c]
      BY <1>1, <1>3 DEF AwaitMutex, Types
    <3> QED
      BY <1>3, <3>1, <3>2 DEF Handle, Entry, File
  <2>2. LowIn(s)'
    BY <1>3, <1>9, <2>1, NothingWritten
  <2> QED
    BY <1>3, <2>2 DEF LowIn
<1> QED
  BY <1>3, <1>5, <1>7, <1>8, <1>9, <1>10, <1>11, JoinKeeps

--------------------------------------------------------------------------------
(* Inside the mutex. *)

(* Whoever has an entry writes to a file of its own task, if it has its name alone. *)
LEMMA HolderOf ==
  ASSUME Types, NEW b \in Blobs, pc[b] \in HasEntry
  PROVE  /\ Handle(b) \in Blobs
         /\ Alone(Task(b)) => Task(Handle(b)) = Task(b)
         /\ Alone(Task(Handle(b))) => Task(Handle(b)) = Task(b)
<1>1. Handle(b) \in Blobs /\ name[Task(Handle(b))] = name[Task(b)]
  BY EntryOf DEF Types, File
<1>2. Task(b) \in Tasks /\ Task(Handle(b)) \in Tasks
  BY <1>1, BlobTask
<1> QED
  BY <1>1, <1>2 DEF Alone

(* Whoever holds the mutex has an entry. *)
LEMMA HolderHasEntry ==
  ASSUME NEW b, Holds(b) \/ pc[b] = "closing"
  PROVE  pc[b] \in HasEntry
BY DEF Holds, HasEntry

(* What a store says without one of its entries.                           *)
LEMMA Dropped ==
  ASSUME Types, NEW b \in Blobs, NEW store, Sane(store), LowIn(store)
  PROVE  /\ Sane([store EXCEPT ![File(b)] = NoBuffer])
         /\ LowIn([store EXCEPT ![File(b)] = NoBuffer])
<1>1. PICK s : s = [store EXCEPT ![File(b)] = NoBuffer]
  OBVIOUS
<1>2. /\ s \in Stores /\ s[File(b)] = NoBuffer
      /\ \A f \in Names : f # File(b) => s[f] = store[f]
  BY <1>1, FileOf DEF Sane, Stores
<1>3. Sane(s)
  BY <1>2 DEF Sane
<1>4. LowIn(s)
  BY <1>2 DEF LowIn
<1> QED
  BY <1>1, <1>3, <1>4

(* A write that fails keeps the invariant. *)
LEMMA WriteFailsKeeps ==
  ASSUME IInv, NEW b \in Blobs, WriteFails(b)
  PROVE  IInv'
<1>1. Types /\ Writes /\ Queues /\ Low /\ Complete
  BY DEF IInv
<1>2. PICK x : x = IF Handle(b) \in shut THEN "closed" ELSE "failed"
  OBVIOUS
<1>3. /\ Holds(b) /\ pc' = [pc EXCEPT ![b] = x] /\ Release(b)
      /\ UNCHANGED <<name, buffers, snap, shut, written>>
      /\ x \in {"closed", "failed"}
  BY <1>2 DEF WriteFails
<1>4. Queues'
  BY <1>1, <1>3, ReleaseQueues
<1>5. b \notin written /\ shut \subseteq Blobs /\ pc[b] \in HasEntry
  BY <1>1, <1>3, HolderHasEntry DEF Writes, Types, Holds
<1>6. ~(x = "closed" /\ Alone(Task(b)))
  <2> SUFFICES ASSUME x = "closed", Alone(Task(b)) PROVE FALSE
    OBVIOUS
  <2>1. Handle(b) \in shut /\ Handle(b) \in Blobs /\ Task(Handle(b)) = Task(b)
    BY <1>1, <1>2, <1>5, HolderOf
  <2>2. AllWritten(Task(b))
    BY <1>1, <2>1 DEF Complete
  <2> QED
    BY <1>5, <2>2 DEF AllWritten
<1>7. PICK s : s = buffers
  OBVIOUS
<1>8. Sane(s) /\ LowIn(s)
  BY <1>1, <1>7 DEF Types, Low
<1> QED
  BY <1>3, <1>4, <1>5, <1>6, <1>7, <1>8, PassKeeps

(* Closing the file keeps the invariant. *)
LEMMA CloseKeeps ==
  ASSUME IInv, NEW b \in Blobs, Close(b)
  PROVE  IInv'
<1>1. Types /\ Writes /\ Queues /\ Low /\ Complete
  BY DEF IInv
<1>2. PICK s : s = [snap[b] EXCEPT ![File(b)] = NoBuffer]
  OBVIOUS
<1>3. /\ pc[b] = "closing" /\ pc' = [pc EXCEPT ![b] = "done"] /\ Release(b)
      /\ UNCHANGED <<name, snap, written>> /\ buffers' = s
      /\ shut' = shut \union {Handle(b)}
  BY <1>2 DEF Close
<1>4. Queues'
  BY <1>1, <1>3, ReleaseQueues
<1>5. pc[b] \in HasEntry /\ Entry(b) # NoBuffer
  BY <1>1, <1>3 DEF HasEntry, Types
<1>6. Sane(s) /\ LowIn(s)
  BY <1>1, <1>2, Dropped DEF Types, Low
<1>7. shut' \subseteq Blobs
  BY <1>1, <1>3, <1>5, HolderOf DEF Types
<1>8. \A c \in shut' : c \notin shut /\ Alone(Task(c)) => AllWritten(Task(c))
  <2> SUFFICES ASSUME Alone(Task(Handle(b))) PROVE AllWritten(Task(Handle(b)))
    BY <1>3
  <2>1. Task(Handle(b)) = Task(b)
    BY <1>1, <1>5, HolderOf
  <2> QED
    BY <1>1, <1>3, <2>1 DEF Complete
<1> QED
  BY <1>3, <1>4, <1>5, <1>6, <1>7, <1>8, PassKeeps

(* So does a close that fails. *)
LEMMA CloseFailsKeeps ==
  ASSUME IInv, NEW b \in Blobs, CloseFails(b)
  PROVE  IInv'
<1>1. Types /\ Writes /\ Queues /\ Low
  BY DEF IInv
<1>2. /\ pc[b] = "closing" /\ pc' = [pc EXCEPT ![b] = "failed"] /\ Release(b)
      /\ UNCHANGED <<name, buffers, snap, shut, written>>
  BY DEF CloseFails
<1>3. Queues'
  BY <1>1, <1>2, ReleaseQueues
<1>4. PICK s : s = buffers
  OBVIOUS
<1>5. Sane(s) /\ LowIn(s) /\ shut \subseteq Blobs
  BY <1>1, <1>4 DEF Types, Low
<1> QED
  BY <1>2, <1>3, <1>4, <1>5, PassKeeps

(* A handler writes its chunk, and counts it unless it is the last.        *)
LEMMA WrittenKeeps ==
  ASSUME IInv, NEW b \in Blobs, Holds(b),
         NEW x \in {"closing", "done"}, pc' = [pc EXCEPT ![b] = x],
         UNCHANGED <<name, snap, shut>>, written' = written \union {b}, Queues',
         x = "closing" /\ Alone(Task(b)) => AllWritten(Task(b))',
         Sane(buffers)', LowIn(buffers)'
  PROVE  IInv'
<1>1. Types /\ Writes /\ Low /\ Complete
  BY DEF IInv
<1>2. \A c \in Blobs : c # b => pc'[c] = pc[c]
  BY <1>1 DEF Types
<1>3. pc'[b] = x
  BY <1>1 DEF Types
<1>4. \A c \in Blobs : Entry(c)' = Entry(c) /\ Handle(c)' = Handle(c)
  BY DEF Entry, Handle, File
<1>5. b \notin written /\ Entry(b) # NoBuffer
  BY <1>1 DEF Writes, Holds, Types, HasEntry
<1>6. Types'
  <2>1. \A c \in Blobs : Sane(snap[c])'
    BY <1>1 DEF Types, Sane, Stores
  <2>2. \A c \in Blobs : pc'[c] \in HasEntry => Entry(c)' # NoBuffer
    BY <1>1, <1>2, <1>4, <1>5 DEF Types
  <2>3. snap' \in [Blobs -> Stores'] /\ name' \in Namings
    BY <1>1 DEF Types, Stores
  <2>4. pc' \in [Blobs -> {"away", "opening", "writing", "closing", "done", "failed", "closed"}]
    BY <1>1 DEF Types
  <2> QED
    BY <1>1, <2>1, <2>2, <2>3, <2>4 DEF Types
<1>7. Writes'
  <2>1. IsFiniteSet(written')
    BY <1>1, FS_AddElement DEF Writes
  <2>2. \A c \in written' : pc'[c] \in {"closing", "done", "failed"} /\ Entry(c)' # NoBuffer
    BY <1>1, <1>2, <1>3, <1>4, <1>5 DEF Writes
  <2>3. \A c \in Blobs : pc'[c] = "closing" => c \in written'
    BY <1>1, <1>2 DEF Writes
  <2> QED
    BY <1>1, <2>1, <2>2, <2>3 DEF Writes
<1>8. Low'
  <2>1. \A c \in Blobs : Handle(c)' = Handle(c)
    BY <1>4
  <2>2. ASSUME NEW c \in Blobs PROVE LowIn(snap[c])'
    <3>1. PICK s : s = snap[c]
      OBVIOUS
    <3>2. LowIn(s)'
      BY <1>1, <1>5, <2>1, <3>1, StillLow DEF Low, Types
    <3> QED
      BY <3>1, <3>2 DEF LowIn
  <2> QED
    BY <2>2 DEF Low
<1>9. Complete'
  <2>1. \A t : Alone(t)' = Alone(t) /\ (AllWritten(t) => AllWritten(t)')
    BY DEF Alone, AllWritten
  <2>2. ASSUME NEW c \in Blobs, Alone(Task(c)), pc'[c] = "closing"
        PROVE  AllWritten(Task(c))'
    <3>1. CASE c = b
      BY <1>3, <2>2, <3>1 DEF AllWritten
    <3>2. CASE c # b
      BY <1>1, <1>2, <2>1, <2>2, <3>2 DEF Complete
    <3> QED
      BY <3>1, <3>2
  <2>3. ASSUME NEW c \in Blobs, Alone(Task(c)), c \in shut'
        PROVE  AllWritten(Task(c))'
    BY <1>1, <2>1, <2>3 DEF Complete
  <2>4. ASSUME NEW c \in Blobs, Alone(Task(c))
        PROVE  pc'[c] # "closed"
    BY <1>1, <1>2, <1>3, <2>4 DEF Complete
  <2>5. \A c \in Blobs : Alone(Task(c))' =>
          /\ pc'[c] = "closing" \/ c \in shut' => AllWritten(Task(c))'
          /\ pc'[c] # "closed"
    BY <2>1, <2>2, <2>3, <2>4
  <2> QED
    BY <2>5 DEF Complete
<1> QED
  BY <1>6, <1>7, <1>8, <1>9 DEF IInv

(* A write that is not the last keeps the invariant: the count stays low. *)
LEMMA WriteKeeps ==
  ASSUME IInv, NEW b \in Blobs, Write(b)
  PROVE  IInv'
<1>1. Types /\ Writes /\ Queues /\ Low
  BY DEF IInv
<1>2. PICK s : s = [snap[b] EXCEPT ![File(b)].received = @ + 1]
  OBVIOUS
<1>3. /\ Holds(b) /\ pc' = [pc EXCEPT ![b] = "done"] /\ Release(b)
      /\ UNCHANGED <<name, snap, shut>> /\ written' = written \union {b}
      /\ buffers' = s /\ ~Last(b)
  BY <1>2 DEF Write
<1>4. Queues'
  BY <1>1, <1>3, ReleaseQueues
<1>5. pc[b] \in HasEntry /\ Entry(b) # NoBuffer /\ b \notin written
  BY <1>1, <1>3 DEF Holds, HasEntry, Types, Writes
<1>6. /\ Entry(b) \in Entries /\ Entry(b).received \in Nat /\ Handle(b) = Entry(b).handle
      /\ name[Task(Handle(b))] = File(b) /\ File(b) \in Names /\ Handle(b) \in Blobs
  BY <1>1, <1>5, EntryOf, FileOf
<1>7. PICK r : r = Entry(b).received
  OBVIOUS
<1>8. PICK h : h = Handle(b)
  OBVIOUS
<1>9. PICK e : e = [handle |-> h, received |-> r + 1]
  OBVIOUS
<1>10. e \in Entries /\ e.handle = h /\ e.received = r + 1 /\ e # NoBuffer
  BY <1>6, <1>7, <1>8, <1>9, NoBufferAssumption DEF Entries
<1>11. snap[b] \in Stores
  BY <1>1 DEF Types
<1>12. [Entry(b) EXCEPT !.received = @ + 1] = e
  BY <1>6, <1>7, <1>8, <1>9 DEF Entries
<1>13. /\ s \in Stores /\ s[File(b)] = e
       /\ \A f \in Names : f # File(b) => s[f] = snap[b][f]
  <2>1. s = [snap[b] EXCEPT ![File(b)] = e]
    BY <1>2, <1>6, <1>11, <1>12 DEF Entry, Stores
  <2> QED
    BY <1>6, <1>10, <1>11, <2>1 DEF Stores
<1>14. Sane(s)
  <2>1. r + 1 < Total[Task(h)]
    <3>1. ~(r + 1 >= Total[Task(h)])
      BY <1>3, <1>7, <1>8 DEF Last
    <3>2. Total[Task(h)] \in Nat
      BY <1>6, <1>8, BlobTask
    <3> QED
      BY <1>6, <1>7, <3>1, <3>2
  <2> QED
    BY <1>1, <1>6, <1>8, <1>10, <1>13, <2>1 DEF Types, Sane
<1>15. Sane(buffers)'
  BY <1>3, <1>14 DEF Sane, Stores
<1>16. \A c \in Blobs : Handle(c)' = Handle(c)
  BY <1>3 DEF Handle, Entry, File
<1>17. LowIn(buffers)'
  <2>1. PICK t : t = snap[b]
    OBVIOUS
  <2>2. LowIn(t) /\ Sane(t)
    BY <1>1, <2>1 DEF Low, Types
  <2>3. LowIn(t)'
    BY <1>1, <1>3, <1>5, <1>16, <2>2, StillLow
  <2>4. r <= Cardinality(Through(h))
    BY <1>5, <1>6, <1>7, <1>8, <2>1, <2>2 DEF LowIn, Entry
  <2>5. r + 1 <= Cardinality(Through(h))'
    <3>1. Cardinality(Through(Handle(b)))' = Cardinality(Through(Handle(b))) + 1
      BY <1>1, <1>3, <1>5, <1>16, OneWritten
    <3>2. Cardinality(Through(h))' = Cardinality(Through(h)) + 1
      <4>1. Handle(b)' = Handle(b)
        BY <1>16
      <4>2. Through(h)' = Through(Handle(b))'
        BY <1>8, <4>1 DEF Through
      <4> QED
        BY <1>8, <3>1, <4>2
    <3>3. Cardinality(Through(h)) \in Nat
      BY <1>1, ThroughFinite
    <3> QED
      BY <1>6, <1>7, <2>4, <3>2, <3>3
  <2>6. ASSUME NEW f \in Names, s[f] # NoBuffer
        PROVE  s[f].received <= Cardinality(Through(s[f].handle))'
    <3>1. CASE f = File(b)
      BY <1>10, <1>13, <2>5, <3>1
    <3>2. CASE f # File(b)
      BY <1>13, <2>1, <2>3, <2>6, <3>2 DEF LowIn
    <3> QED
      BY <3>1, <3>2
  <2>7. LowIn(s)'
    BY <2>6 DEF LowIn
  <2> QED
    BY <1>3, <2>7 DEF LowIn
<1> QED
  BY <1>3, <1>4, <1>15, <1>17, WrittenKeeps

(* The chunks of a task are as many as its blobs say.                      *)
LEMMA TaskChunks ==
  ASSUME NEW t \in Tasks
  PROVE  /\ IsFiniteSet({t} \X (1 .. Total[t]))
         /\ Cardinality({t} \X (1 .. Total[t])) = Total[t]
<1>1. Total[t] \in Nat
  BY BufferAssumption
<1>2. IsFiniteSet(1 .. Total[t]) /\ Cardinality(1 .. Total[t]) = Total[t]
  BY <1>1, FS_Interval
<1>3. IsFiniteSet({t}) /\ Cardinality({t}) = 1
  BY FS_Singleton
<1>4. /\ IsFiniteSet({t} \X (1 .. Total[t]))
      /\ Cardinality({t} \X (1 .. Total[t])) = 1 * Total[t]
  BY <1>2, <1>3, FS_Product
<1> QED
  BY <1>1, <1>4

(* A chunk that is counted as the last of a file with a name of its own is *)
(* the last one: the count errs on the low side.                           *)
LEMMA LastIsLast ==
  ASSUME Types, Writes, Low, NEW b \in Blobs, pc[b] = "writing", Last(b), Alone(Task(b)),
         written' = written \union {b}
  PROVE  AllWritten(Task(b))'
<1> DEFINE h == Handle(b)
           t == Task(b)
           chunks == {t} \X (1 .. Total[t])
           have == Through(h) \union {b}
<1>1. pc[b] \in HasEntry /\ Entry(b) # NoBuffer /\ b \notin written
  BY DEF HasEntry, Types, Writes
<1>2. /\ Entry(b).received \in Nat /\ h = Entry(b).handle /\ File(b) \in Names
      /\ Task(h) = t /\ t \in Tasks /\ Total[t] \in Nat
  BY <1>1, EntryOf, FileOf, HolderOf, BlobTask
<1>3. Entry(b).received + 1 >= Total[t]
  BY <1>2 DEF Last
<1>4. Entry(b).received <= Cardinality(Through(h))
  BY <1>1, <1>2 DEF Low, LowIn, Entry
<1>5. /\ IsFiniteSet(have) /\ Cardinality(have) = Cardinality(Through(h)) + 1
      /\ Cardinality(Through(h)) \in Nat
  <2>1. b \notin Through(h)
    BY <1>1 DEF Through
  <2> QED
    BY <2>1, ThroughFinite, FS_AddElement
<1>6. have \subseteq chunks
  <2>1. ASSUME NEW c \in Through(h) PROVE Task(c) = t
    <3>1. c \in Blobs /\ Entry(c) # NoBuffer /\ Handle(c) = h
      BY <2>1 DEF Through, Writes
    <3>2. name[Task(h)] = File(c) /\ Task(c) \in Tasks
      BY <3>1, EntryOf, BlobTask
    <3> QED
      BY <1>2, <3>2 DEF File, Alone
  <2>2. \A c \in Blobs : Task(c) = t => c \in chunks
    BY DEF Blobs, Task
  <2>3. Through(h) \subseteq Blobs
    BY DEF Through, Writes
  <2> QED
    BY <2>1, <2>2, <2>3
<1>7. IsFiniteSet(chunks) /\ Cardinality(chunks) = Total[t]
  BY <1>2, TaskChunks
<1>8. Cardinality(have) = Cardinality(chunks)
  <2>1. Cardinality(have) <= Cardinality(chunks)
    BY <1>6, <1>7, FS_Subset
  <2> QED
    BY <1>2, <1>3, <1>4, <1>5, <1>7, <2>1
<1>9. have = chunks
  BY <1>6, <1>7, <1>8, FS_Subset
<1>10. \A c \in Blobs : Task(c) = t => c \in chunks
  BY DEF Blobs, Task
<1>11. have \subseteq written'
  BY DEF Through
<1> QED
  BY <1>9, <1>10, <1>11 DEF AllWritten

(* The write that counts the last chunk keeps it: the file is complete. *)
LEMMA WriteLastKeeps ==
  ASSUME IInv, NEW b \in Blobs, WriteLast(b)
  PROVE  IInv'
<1>1. Types /\ Writes /\ Queues /\ Low
  BY DEF IInv
<1>2. /\ Holds(b) /\ pc' = [pc EXCEPT ![b] = "closing"] /\ written' = written \union {b}
      /\ UNCHANGED <<name, buffers, snap, mutex, shut>> /\ Last(b)
  BY DEF WriteLast
<1>3. /\ pc[b] = "writing" /\ b \notin written
      /\ mutex[Handle(b)] # <<>> /\ Head(mutex[Handle(b)]) = b
  <2>1. pc[b] = "writing" /\ Head(mutex[Handle(b)]) = b
    BY <1>2 DEF Holds
  <2>2. PICK i \in 1 .. Len(mutex[Handle(b)]) : mutex[Handle(b)][i] = b
    BY <1>1, <2>1 DEF Queues
  <2>3. mutex[Handle(b)] # <<>>
    BY <2>2
  <2> QED
    BY <1>1, <2>1, <2>3 DEF Writes
<1>4. Queues'
  BY <1>1, <1>2, <1>3, SameQueues
<1>5. Alone(Task(b)) => AllWritten(Task(b))'
  BY <1>1, <1>2, <1>3, LastIsLast
<1>6. Sane(buffers)'
  BY <1>1, <1>2 DEF Types, Sane, Stores
<1>7. LowIn(buffers)'
  <2>1. PICK s : s = buffers
    OBVIOUS
  <2>2. \A c \in Blobs : Handle(c)' = Handle(c)
    BY <1>2 DEF Handle, Entry, File
  <2>3. LowIn(s)'
    BY <1>1, <1>2, <1>3, <2>1, <2>2, StillLow DEF Low, Types
  <2> QED
    BY <1>2, <2>1, <2>3 DEF LowIn
<1> QED
  BY <1>2, <1>4, <1>5, <1>6, <1>7, WrittenKeeps

(* Every step keeps the invariant. *)
LEMMA Inductive == IInv /\ [Next]_vars => IInv'
<1> SUFFICES ASSUME IInv, [Next]_vars PROVE IInv'
  OBVIOUS
<1>1. ASSUME NEW b \in Blobs, Arrive(b) PROVE IInv'
  BY <1>1, ArriveKeeps
<1>2. ASSUME NEW b \in Blobs, AddBuffer(b) PROVE IInv'
  BY <1>2, AddBufferKeeps
<1>3. ASSUME NEW b \in Blobs, OpenFails(b) PROVE IInv'
  BY <1>3, OpenFailsKeeps
<1>4. ASSUME NEW b \in Blobs, Write(b) PROVE IInv'
  BY <1>4, WriteKeeps
<1>5. ASSUME NEW b \in Blobs, WriteLast(b) PROVE IInv'
  BY <1>5, WriteLastKeeps
<1>6. ASSUME NEW b \in Blobs, WriteFails(b) PROVE IInv'
  BY <1>6, WriteFailsKeeps
<1>7. ASSUME NEW b \in Blobs, Close(b) PROVE IInv'
  BY <1>7, CloseKeeps
<1>8. ASSUME NEW b \in Blobs, CloseFails(b) PROVE IInv'
  BY <1>8, CloseFailsKeeps
<1>9. CASE UNCHANGED vars
  BY <1>9 DEF vars, IInv, Types, Sane, Stores, Writes, Queues, Low, LowIn, Through, Complete,
       Alone, AllWritten, Entry, Handle, File
<1> QED
  BY <1>1, <1>2, <1>3, <1>4, <1>5, <1>6, <1>7, <1>8, <1>9 DEF Next, Step

(* The invariant always holds. *)
LEMMA Always == Spec => []IInv
<1>1. Init => IInv
  BY Initially
<1>2. IInv /\ [Next]_vars => IInv'
  BY Inductive
<1> QED
  BY <1>1, <1>2, PTL DEF Spec

(* The store holds entries that can be written to, and no count reaches    *)
(* its total, however the handlers interleave (useBlobBufferStore.ts).     *)
THEOREM TypeCorrect == Spec => []TypeOK
<1>1. IInv => TypeOK
  <2> SUFFICES ASSUME IInv PROVE TypeOK
    OBVIOUS
  <2>1. Types /\ Queues /\ Writes
    BY DEF IInv
  <2>2. \A b \in Blobs : pc[b] = "writing" => Entry(b) \in Entries
    BY <2>1, EntryOf DEF Types, HasEntry
  <2>3. buffers \in [Names -> Entries \union {NoBuffer}]
    BY <2>1 DEF Types, Sane, Stores
  <2>4. \A f \in Names : buffers[f] # NoBuffer =>
          buffers[f].received < Total[Task(buffers[f].handle)]
    BY <2>1 DEF Types, Sane
  <2> QED
    BY <2>1, <2>2, <2>3, <2>4 DEF TypeOK, Types, Queues, Writes
<1> QED
  BY <1>1, Always, PTL

(* No count is above what was written through its handle, and a file that  *)
(* has its name to itself is closed only when it is complete               *)
(* (writeBuffer and removeBuffer of useBlobBufferStore.ts).                *)
THEOREM CountsStaySafe == Spec => []CountsAreSafe
<1>1. IInv => CountsAreSafe
  <2> SUFFICES ASSUME IInv PROVE CountsAreSafe
    OBVIOUS
  <2>1. Low /\ Complete
    BY DEF IInv
  <2>2. NeverOvercounts
    BY <2>1 DEF Low, LowIn, Through, NeverOvercounts
  <2>3. ClosedMeansComplete
    BY <2>1 DEF Complete, AllWritten, ClosedMeansComplete
  <2> QED
    BY <2>2, <2>3 DEF CountsAreSafe
<1> QED
  BY <1>1, Always, PTL
================================================================================
