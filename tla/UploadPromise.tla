----------------------------- MODULE UploadPromise -----------------------------
(***************************************************************************)
(* What one upload task promises to the clients of a transfer channel,     *)
(* whatever the worker pool looks like: blobs are handled one at a time    *)
(* and each at most once, and "upload-complete" is announced at most once  *)
(* and only when as many blobs were handled as upload-start declared.      *)
(***************************************************************************)
EXTENDS Naturals, FiniteSets

CONSTANTS
  Blobs,        (* the binary messages the uploader sends for the task      *)
  TotalChunks   (* total_chunks of the upload-start request                 *)

VARIABLES
  handled,      (* the blobs some worker is finished with                   *)
  announced     (* upload-complete was broadcast                            *)

vars == <<handled, announced>>

Init ==
  /\ handled = {}
  /\ announced = FALSE

Handle(b) ==
  /\ b \notin handled
  /\ handled' = handled \union {b}
  /\ UNCHANGED announced

Announce ==
  /\ ~announced
  /\ Cardinality(handled) >= TotalChunks
  /\ announced' = TRUE
  /\ UNCHANGED handled

Next ==
  \/ \E b \in Blobs : Handle(b)
  \/ Announce

Spec == Init /\ [][Next]_vars
================================================================================
