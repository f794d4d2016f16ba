---------------------------- MODULE MCChannelRegistry ----------------------------
(* Three connections, all with the client id conn_api.go gives them, of    *)
(* users among whom is the one with that id.                               *)
EXTENDS ChannelRegistry, TLC

CONSTANTS c1, c2, c3, fixed, other

MCConns    == {c1, c2, c3}
MCKeys     == {fixed, other}
MCClientId == [c \in MCConns |-> fixed]
Symmetry   == Permutations(MCConns)
================================================================================
