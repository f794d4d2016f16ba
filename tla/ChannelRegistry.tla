----------------------------- MODULE ChannelRegistry -----------------------------
(***************************************************************************)
(* Which connection the server finds in which channel, while connections   *)
(* come and go (core/channel.go, the requests and the closing of           *)
(* core/client.go).                                                        *)
(*                                                                         *)
(* Channels are kept under the group id of the request that made them,     *)
(* clients within a channel under the client id, which CreateConn makes    *)
(* the same for every connection.  A channel is a Go object: a connection  *)
(* that has looked it up goes on using it when the map has another one.    *)
(* A channel is never taken out of the map, so a connection makes at most  *)
(* one, and the channel goes by its maker's name here.                     *)
(*                                                                         *)
(* CreateChannel refuses when it finds the new channel's name, "transfer", *)
(* among the ids; group ids are user ids, so it never does.                *)
(***************************************************************************)
EXTENDS Integers, FiniteSets

CONSTANTS
  Conns,        (* connections                                              *)
  Keys,         (* group ids and client ids                                 *)
  ClientId,     (* connection -> Client.ID                                  *)
  NumRequests,  (* joins an app sends on a connection, at most              *)
  None          (* no channel, no connection                                *)

ASSUME RegistryAssumption ==
  /\ ClientId \in [Conns -> Keys]
  /\ NumRequests \in Nat
  /\ None \notin Conns

VARIABLES
  group,     (* connection -> group id its requests carry                   *)
  channels,  (* ChannelManager.Channels: group id -> channel, or None       *)
  made,      (* the channels that have been made                            *)
  clients,   (* channel -> client id -> connection, or None                 *)
  requests,  (* connection -> requests its processor has taken              *)
  proc,      (* connection -> "idle", "creating", "joining", "ended"        *)
  at,        (* connection -> channel its processor is using                *)
  told,      (* connections that were answered that they have joined        *)
  life,      (* connection -> "up", "closed", "removing", "down"            *)
  from,      (* connection -> channel ClientClose removes it from           *)
  running    (* the server has not panicked                                 *)

procVars == <<requests, proc, at, told>>
vars     == <<group, channels, made, clients, procVars, life, from, running>>

Init ==
  /\ group \in [Conns -> Keys]
  /\ channels = [k \in Keys |-> None]
  /\ made = {}
  /\ clients = [ch \in Conns |-> [k \in Keys |-> None]]
  /\ requests = [c \in Conns |-> 0]
  /\ proc = [c \in Conns |-> "idle"]
  /\ at = [c \in Conns |-> None]
  /\ told = {}
  /\ life = [c \in Conns |-> "up"]
  /\ from = [c \in Conns |-> None]
  /\ running = TRUE

--------------------------------------------------------------------------------
(* HandleClientRequest, on the connection's processor. *)

\* Fault: channels are looked up by client id, as ClientClose does.
FoundByClientId(c) == channels[ClientId[c]]

FoundByGroup(c) == channels[group[c]]

GetChannel(c) ==
  /\ running
  /\ proc[c] = "idle"
  /\ requests[c] < NumRequests
  /\ requests' = [requests EXCEPT ![c] = @ + 1]
  /\ at' = [at EXCEPT ![c] = FoundByGroup(c)]
  /\ proc' = [proc EXCEPT ![c] = IF at'[c] = None THEN "creating" ELSE "joining"]
  /\ UNCHANGED <<group, channels, made, clients, told, life, from, running>>

\* Fault: a channel is kept under the client id.
KeptUnderClientId(c) == ClientId[c]

KeptUnder(c) == group[c]

\* The lookup is over: what others have made since is replaced.
CreateChannel(c) ==
  /\ running
  /\ proc[c] = "creating"
  /\ channels' = [channels EXCEPT ![KeptUnder(c)] = c]
  /\ made' = made \union {c}
  /\ at' = [at EXCEPT ![c] = c]
  /\ proc' = [proc EXCEPT ![c] = "joining"]
  /\ UNCHANGED <<group, clients, requests, told, life, from, running>>

\* Fault: the newcomer takes the place of the client that is there.
TakenNever(c) == FALSE

Taken(c) == clients[at[c]][ClientId[c]] # None

JoinRefused(c) ==
  /\ running
  /\ proc[c] = "joining"
  /\ Taken(c)
  /\ proc' = [proc EXCEPT ![c] = "idle"]
  /\ UNCHANGED <<group, channels, made, clients, requests, at, told, life, from, running>>

\* The answer to a connection whose queues are closed brings the server down.
JoinTransfer(c) ==
  /\ running
  /\ proc[c] = "joining"
  /\ ~Taken(c)
  /\ clients' = [clients EXCEPT ![at[c]][ClientId[c]] = c]
  /\ running' = (life[c] = "up")
  /\ told' = IF running' THEN told \union {c} ELSE told
  /\ proc' = [proc EXCEPT ![c] = "idle"]
  /\ UNCHANGED <<group, channels, made, requests, at, life, from>>

ProcessorEnds(c) ==
  /\ running
  /\ proc[c] = "idle"
  /\ life[c] # "up"
  /\ proc' = [proc EXCEPT ![c] = "ended"]
  /\ UNCHANGED <<group, channels, made, clients, requests, at, told, life, from, running>>

--------------------------------------------------------------------------------
(* ClientClose: the queues are closed (ClientConn has the steps of it), then *)
(* the client id is used as the id of a channel.                             *)

CloseQueues(c) ==
  /\ running
  /\ life[c] = "up"
  /\ life' = [life EXCEPT ![c] = "closed"]
  /\ UNCHANGED <<group, channels, made, clients, procVars, from, running>>

ChannelRemoveClient(c) ==
  /\ running
  /\ life[c] = "closed"
  /\ from' = [from EXCEPT ![c] = channels[ClientId[c]]]
  /\ life' = [life EXCEPT ![c] = IF from'[c] = None THEN "down" ELSE "removing"]
  /\ UNCHANGED <<group, channels, made, clients, procVars, running>>

\* Fault: a connection is removed only from a channel it has made itself.
RemoveFromOwnChannel(c) ==
  clients' = IF from[c] = c THEN [clients EXCEPT ![c][ClientId[c]] = None] ELSE clients

RemoveById(c) == clients' = [clients EXCEPT ![from[c]][ClientId[c]] = None]

RemoveFromChannel(c) ==
  /\ running
  /\ life[c] = "removing"
  /\ RemoveById(c)
  /\ life' = [life EXCEPT ![c] = "down"]
  /\ UNCHANGED <<group, channels, made, procVars, from, running>>

--------------------------------------------------------------------------------
Processor(c) ==
  \/ GetChannel(c) \/ CreateChannel(c)
  \/ JoinRefused(c) \/ JoinTransfer(c)
  \/ ProcessorEnds(c)

ClientClose(c) == CloseQueues(c) \/ ChannelRemoveClient(c) \/ RemoveFromChannel(c)

Next == \E c \in Conns : Processor(c) \/ ClientClose(c)

Spec == Init /\ [][Next]_vars

--------------------------------------------------------------------------------
(* Types; a channel in the map, or in use, has been made, and under the    *)
(* group of its maker.                                                     *)
TypeOK ==
  /\ group \in [Conns -> Keys]
  /\ made \subseteq Conns
  /\ channels \in [Keys -> made \union {None}]
  /\ \A k \in Keys : channels[k] # None => group[channels[k]] = k
  /\ clients \in [Conns -> [Keys -> Conns \union {None}]]
  /\ requests \in [Conns -> 0 .. NumRequests]
  /\ proc \in [Conns -> {"idle", "creating", "joining", "ended"}]
  /\ at \in [Conns -> made \union {None}]
  /\ told \subseteq Conns
  /\ life \in [Conns -> {"up", "closed", "removing", "down"}]
  /\ from \in [Conns -> made \union {None}]
  /\ running \in BOOLEAN

Found(c)    == channels[group[c]] # None /\ clients[channels[group[c]]][ClientId[c]] = c
Replaced(g) == Cardinality({ch \in made : group[ch] = g}) > 1
Same(c)     == {d \in Conns : ClientId[d] = ClientId[c]}

(* A connection that was told it has joined is the one the server finds in *)
(* the channel of its group, as long as it is up; only the closing of a    *)
(* connection with the same id, or two connections that made the group's   *)
(* channel at the same time, can take it out.                              *)
ToldIsFound ==
  \A c \in told : running /\ life[c] = "up" =>
    \/ Found(c)
    \/ Replaced(group[c])
    \/ \E d \in Same(c) \ {c} : life[d] # "up"

(* When all connections with an id are gone, none of them is left in the   *)
(* channel with that id: whatever they removed of each other, and although *)
(* requests are handled after the removal.                                 *)
NoneLeftBehind ==
  \A c \in Conns :
    LET k == ClientId[c] IN
    running /\ (\A d \in Same(c) : life[d] = "down" /\ proc[d] = "ended") =>
      channels[k] = None \/ clients[channels[k]][k] = None

Settled(g) ==
  channels[g] # None /\ \A c \in Conns : group[c] = g => proc[c] # "creating"

(* Connections of one group meet in one channel, except for those that     *)
(* made theirs at the same time: once a channel is in the map and nobody   *)
(* of its group is past a vain lookup, it is the group's channel for good, *)
(* however the connections come and go.                                    *)
SettledForGood ==
  [][\A g \in Keys : Settled(g) => Settled(g)' /\ channels'[g] = channels[g]]_vars

--------------------------------------------------------------------------------
(* What the source says and the code does not do. *)

(* channel.go:32 answers "channel already exists" to a second CreateChannel *)
(* of a group.  The test looks for the name among the ids and never finds   *)
(* it: the second channel replaces the first, with the clients and the      *)
(* worker pools in it.                                                      *)
OneChannelPerGroup == \A g \in Keys : ~Replaced(g)
================================================================================
