------------------------------ MODULE MCBlobBuffer ------------------------------
(* A file of three chunks and one of one, received at the same time, under *)
(* names of their own or under the same name.                              *)
EXTENDS BlobBuffer, TLC

CONSTANTS movie, song

MCTasks   == {movie, song}
MCTotal   == movie :> 3 @@ song :> 1
MCNames   == {movie, song}
MCNamings == {[t \in MCTasks |-> t], [t \in MCTasks |-> song]}
================================================================================
