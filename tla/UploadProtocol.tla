----------------------------- MODULE UploadProtocol -----------------------------
(***************************************************************************)
(* What an upload task puts on the wire, whatever happens to the files,    *)
(* the connections and the user meanwhile: upload-start, the chunks in     *)
(* order, upload-complete, and nothing after it.  It may stop anywhere.    *)
(* Unless the file has changed since it was measured, there are no more    *)
(* chunks than declared, and upload-complete comes after the last of them. *)
(***************************************************************************)
EXTENDS Naturals, Sequences

CONSTANT MaxChunks   (* size of a file, in chunks, at most *)

VARIABLES
  sent,      (* the messages of the task that went out      *)
  changed    (* the file has changed since it was measured  *)

vars == <<sent, changed>>

StartMsg(n) == [kind |-> "start", no |-> n]      \* n: total_chunks
ChunkMsg(i) == [kind |-> "chunk", no |-> i]      \* i: from 1
CompleteMsg == [kind |-> "complete", no |-> 0]

Started   == sent # <<>>
Completed == Started /\ sent[Len(sent)].kind = "complete"
Declared  == sent[1].no
NumSent   == Len(sent) - 1                       \* chunks, until Completed

Init == sent = <<>> /\ changed = FALSE

Start ==
  /\ ~Started
  /\ \E n \in 0 .. MaxChunks : sent' = <<StartMsg(n)>>
  /\ UNCHANGED changed

Chunk ==
  /\ Started /\ ~Completed
  /\ changed \/ NumSent < Declared
  /\ sent' = Append(sent, ChunkMsg(NumSent + 1))
  /\ UNCHANGED changed

\* The last chunk, with upload-complete right behind it.
LastChunk ==
  /\ Started /\ ~Completed
  /\ changed \/ NumSent + 1 = Declared
  /\ sent' = sent \o <<ChunkMsg(NumSent + 1), CompleteMsg>>
  /\ UNCHANGED changed

Complete ==
  /\ Started /\ ~Completed
  /\ changed \/ NumSent = Declared
  /\ sent' = Append(sent, CompleteMsg)
  /\ UNCHANGED changed

Change == Started /\ changed' = TRUE /\ UNCHANGED sent

Next == Start \/ Chunk \/ LastChunk \/ Complete \/ Change

Spec == Init /\ [][Next]_vars
================================================================================
