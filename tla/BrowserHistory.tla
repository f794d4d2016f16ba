----------------------------- MODULE BrowserHistory -----------------------------
(***************************************************************************)
(* What back and forward promise: a trail of places with a position on it. *)
(* FileExplorer implements it with two stacks and the current path.        *)
(***************************************************************************)
EXTENDS Integers, Sequences

CONSTANTS
  Places,  (* what can be on a trail *)
  Start    (* where it begins        *)

VARIABLES
  trail,  (* places, oldest first *)
  at      (* the place shown      *)

Init == trail = <<Start>> /\ at = 1

(* What lay ahead is forgotten. *)
Visit(p) == trail' = Append(SubSeq(trail, 1, at), p) /\ at' = at + 1

(* Another place takes the position of the one shown. *)
Replace(p) == trail' = [trail EXCEPT ![at] = p] /\ at' = at

Back    == at > 1 /\ at' = at - 1 /\ trail' = trail
Forward == at < Len(trail) /\ at' = at + 1 /\ trail' = trail
Restart == trail' = <<Start>> /\ at' = 1

Next ==
  \/ \E p \in Places : Visit(p) \/ Replace(p)
  \/ Back \/ Forward \/ Restart

Spec == Init /\ [][Next]_<<trail, at>>
================================================================================
