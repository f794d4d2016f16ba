------------------------- MODULE ChannelRegistryProofs -------------------------
(***************************************************************************)
(* Proofs about ChannelRegistry, for any number of connections, ids and    *)
(* requests: TypeOK, that a group's channel is settled for good, that a    *)
(* connection told it has joined is found, and that none is left behind in *)
(* a channel after its teardown.                                           *)
(***************************************************************************)
EXTENDS ChannelRegistry, FiniteSetTheorems, TLAPS

--------------------------------------------------------------------------------
(* Types (core/channel.go): the channels in the map are channels that were *)
(* made, each under the group of the request it was made for.              *)
THEOREM TypeCorrect == Spec => []TypeOK
<1>1. Init => TypeOK
  BY RegistryAssumption DEF Init, TypeOK
<1>2. TypeOK /\ [Next]_vars => TypeOK'
  <2> SUFFICES ASSUME TypeOK, [Next]_vars PROVE TypeOK'
    OBVIOUS
  <2> USE RegistryAssumption DEF TypeOK
  <2>1. CASE UNCHANGED vars
    BY <2>1 DEF vars, procVars
  <2>2. ASSUME NEW c \in Conns, GetChannel(c) PROVE TypeOK'
    BY <2>2 DEF GetChannel, FoundByGroup
  <2>3. ASSUME NEW c \in Conns, CreateChannel(c) PROVE TypeOK'
    BY <2>3 DEF CreateChannel, KeptUnder
  <2>4. ASSUME NEW c \in Conns, JoinRefused(c) PROVE TypeOK'
    BY <2>4 DEF JoinRefused
  <2>5. ASSUME NEW c \in Conns, JoinTransfer(c) PROVE TypeOK'
    BY <2>5 DEF JoinTransfer
  <2>6. ASSUME NEW c \in Conns, ProcessorEnds(c) PROVE TypeOK'
    BY <2>6 DEF ProcessorEnds
  <2>7. ASSUME NEW c \in Conns, CloseQueues(c) PROVE TypeOK'
    BY <2>7 DEF CloseQueues, procVars
  <2>8. ASSUME NEW c \in Conns, ChannelRemoveClient(c) PROVE TypeOK'
    BY <2>8 DEF ChannelRemoveClient, procVars
  <2>9. ASSUME NEW c \in Conns, RemoveFromChannel(c) PROVE TypeOK'
    BY <2>9 DEF RemoveFromChannel, RemoveById, procVars
  <2> QED
    BY <2>1, <2>2, <2>3, <2>4, <2>5, <2>6, <2>7, <2>8, <2>9
    DEF Next, Processor, ClientClose
<1> QED
  BY <1>1, <1>2, PTL DEF Spec

--------------------------------------------------------------------------------
(* Only CreateChannel writes the map, and it runs on a connection that has *)
(* looked for its group in vain; no lookup is in vain once the channel is  *)
(* there (GetChannel and CreateChannel of core/channel.go).                *)
THEOREM SettledStaysSettled == Spec => SettledForGood
<1>1. TypeOK /\ [Next]_vars =>
        \A g \in Keys : Settled(g) => Settled(g)' /\ channels'[g] = channels[g]
  <2> SUFFICES ASSUME TypeOK, [Next]_vars, NEW g \in Keys, Settled(g)
               PROVE  Settled(g)' /\ channels'[g] = channels[g]
    OBVIOUS
  <2> USE RegistryAssumption DEF TypeOK, Settled
  <2>1. CASE UNCHANGED vars
    BY <2>1 DEF vars, procVars
  <2>2. ASSUME NEW c \in Conns, GetChannel(c)
        PROVE  Settled(g)' /\ channels'[g] = channels[g]
    BY <2>2 DEF GetChannel, FoundByGroup
  <2>3. ASSUME NEW c \in Conns, CreateChannel(c)
        PROVE  Settled(g)' /\ channels'[g] = channels[g]
    BY <2>3 DEF CreateChannel, KeptUnder
  <2>4. ASSUME NEW c \in Conns,
               JoinRefused(c) \/ JoinTransfer(c) \/ ProcessorEnds(c) \/ ClientClose(c)
        PROVE  Settled(g)' /\ channels'[g] = channels[g]
    BY <2>4 DEF JoinRefused, JoinTransfer, ProcessorEnds, ClientClose,
                CloseQueues, ChannelRemoveClient, RemoveFromChannel, procVars
  <2> QED
    BY <2>1, <2>2, <2>3, <2>4 DEF Next, Processor
<1> QED
  BY <1>1, TypeCorrect, PTL DEF Spec, SettledForGood

--------------------------------------------------------------------------------
(* A channel that was made has a channel in the map under its group, not   *)
(* always itself.                                                          *)
MadeIsKept == \A ch \in made : channels[group[ch]] # None

(* A processor that is about to join has a channel of its own group.       *)
JoinsOwnGroup ==
  \A c \in Conns : proc[c] = "joining" => at[c] \in made /\ group[at[c]] = group[c]

(* ToldIsFound, strengthened by where the channels that are joined come    *)
(* from; that few channels were made is what lets Replaced count them.     *)
IInv ==
  /\ TypeOK
  /\ IsFiniteSet(made)
  /\ MadeIsKept
  /\ JoinsOwnGroup
  /\ ToldIsFound

MadeFor(g) == {ch \in made : group[ch] = g}

(* Two members make a finite set larger than one. *)
LEMMA TwoMembers ==
  ASSUME NEW S, IsFiniteSet(S), NEW x \in S, NEW y \in S, x # y
  PROVE  Cardinality(S) > 1
<1>1. IsFiniteSet({x}) /\ Cardinality({x}) = 1
  BY FS_Singleton
<1>2. Cardinality({x, y}) = 2
  BY <1>1, FS_AddElement, y \notin {x}, {x, y} = {x} \union {y}
<1>3. Cardinality({x, y}) <= Cardinality(S)
  BY FS_Subset, {x, y} \subseteq S
<1>4. Cardinality(S) \in Nat
  BY FS_CardinalityType
<1> QED
  BY <1>2, <1>3, <1>4

(* A replaced channel stays replaced: no channel is taken back. *)
LEMMA ReplacedStays ==
  ASSUME IsFiniteSet(made'), made \subseteq made', group' = group,
         NEW g, Replaced(g)
  PROVE  Replaced(g)'
<1>1. MadeFor(g) \subseteq MadeFor(g)'
  BY DEF MadeFor
<1>2. IsFiniteSet(MadeFor(g)')
  BY FS_Subset, MadeFor(g)' \subseteq made' DEF MadeFor
<1>3. /\ IsFiniteSet(MadeFor(g))
      /\ Cardinality(MadeFor(g)) <= Cardinality(MadeFor(g)')
  BY <1>1, <1>2, FS_Subset
<1>4. Cardinality(MadeFor(g)) \in Nat /\ Cardinality(MadeFor(g)') \in Nat
  BY <1>2, <1>3, FS_CardinalityType
<1> QED
  BY <1>3, <1>4 DEF Replaced, MadeFor

(* The part of IInv that does not count channels. *)
LEMMA OriginsStep ==
  ASSUME TypeOK, TypeOK', IsFiniteSet(made), MadeIsKept, JoinsOwnGroup, [Next]_vars
  PROVE  /\ IsFiniteSet(made') /\ made \subseteq made' /\ group' = group
         /\ MadeIsKept' /\ JoinsOwnGroup'
<1> DEFINE Goal == /\ IsFiniteSet(made') /\ made \subseteq made' /\ group' = group
                   /\ MadeIsKept' /\ JoinsOwnGroup'
<1> USE RegistryAssumption DEF TypeOK, MadeIsKept, JoinsOwnGroup
<1>1. CASE UNCHANGED vars
  BY <1>1 DEF vars, procVars
<1>2. ASSUME NEW c \in Conns, GetChannel(c) PROVE Goal
  BY <1>2 DEF GetChannel, FoundByGroup
<1>3. ASSUME NEW c \in Conns, CreateChannel(c) PROVE Goal
  <2>1. IsFiniteSet(made')
    BY <1>3, FS_AddElement DEF CreateChannel
  <2> QED
    BY <1>3, <2>1 DEF CreateChannel, KeptUnder
<1>4. ASSUME NEW c \in Conns,
             JoinRefused(c) \/ JoinTransfer(c) \/ ProcessorEnds(c) \/ ClientClose(c)
      PROVE  Goal
  BY <1>4 DEF JoinRefused, JoinTransfer, ProcessorEnds, ClientClose,
              CloseQueues, ChannelRemoveClient, RemoveFromChannel, procVars
<1> QED
  BY <1>1, <1>2, <1>3, <1>4 DEF Next, Processor

(* What ToldIsFound says of one connection. *)
StillFound(c) ==
  running /\ life[c] = "up" =>
    \/ Found(c)
    \/ Replaced(group[c])
    \/ \E d \in Same(c) \ {c} : life[d] # "up"

(* A step that leaves what is found alone, and lets no connection come up  *)
(* and no connection go that shares its id, keeps ToldIsFound; so does one *)
(* that only makes things worse for others.                                *)
LEMMA QuietStep ==
  ASSUME TypeOK, ToldIsFound,
         IsFiniteSet(made'), made \subseteq made', group' = group,
         NEW c \in told,
         running' => running,
         \A d \in Conns : life'[d] = "up" => life[d] = "up",
         Found(c) => Found(c)'
  PROVE  StillFound(c)'
<1> SUFFICES ASSUME running', life'[c] = "up", ~Replaced(group[c])',
                    ~ \E d \in Same(c) \ {c} : life'[d] # "up"
             PROVE  Found(c)'
  BY DEF StillFound, Same
<1>1. c \in Conns
  BY DEF TypeOK
<1>2. running /\ life[c] = "up"
  BY <1>1
<1>3. ~Replaced(group[c])
  BY ReplacedStays
<1>4. ~ \E d \in Same(c) \ {c} : life[d] # "up"
  BY DEF Same, TypeOK
<1> QED
  BY <1>2, <1>3, <1>4 DEF ToldIsFound

(* Every step keeps ToldIsFound, by the origins of the channels: a joined  *)
(* channel is the one in the map or has been replaced (CreateChannel), and *)
(* no client is put in the place of another (TransferChannel.AddClient).   *)
LEMMA ToldStep ==
  ASSUME IInv, TypeOK', [Next]_vars
  PROVE  ToldIsFound'
<1>1. /\ IsFiniteSet(made') /\ made \subseteq made' /\ group' = group
      /\ MadeIsKept' /\ JoinsOwnGroup'
  BY OriginsStep DEF IInv
<1>2. SUFFICES ASSUME NEW c \in told' PROVE StillFound(c)'
  BY DEF ToldIsFound, StillFound
<1>3. CASE UNCHANGED vars
  <2>1. Found(c) => Found(c)'
    BY <1>3 DEF vars, procVars, Found
  <2> QED
    BY <1>1, <1>2, <1>3, <2>1, QuietStep DEF IInv, vars, procVars
<1>4. ASSUME NEW d \in Conns, CreateChannel(d) PROVE StillFound(c)'
  <2>1. c \in told /\ running /\ running' /\ life' = life /\ clients' = clients /\ d \in made'
    BY <1>2, <1>4 DEF CreateChannel
  <2>2. c \in Conns /\ group \in [Conns -> Keys] /\ channels \in [Keys -> made \union {None}]
    BY <2>1 DEF IInv, TypeOK
  <2>3. CASE Replaced(group[c])
    BY <1>1, <2>3, ReplacedStays DEF StillFound
  <2>4. CASE ~Replaced(group[c]) /\ Found(c) /\ group[d] = group[c]
    <3>1. channels[group[c]] \in made /\ group[channels[group[c]]] = group[c]
      BY <2>2, <2>4 DEF IInv, TypeOK, Found
    <3>2. CASE channels[group[c]] = d
      <4>1. channels' = channels
        BY <1>4, <2>2, <2>4, <3>2 DEF CreateChannel, KeptUnder
      <4> QED
        BY <1>1, <2>1, <2>4, <4>1 DEF StillFound, Found
    <3>3. CASE channels[group[c]] # d
      <4>1. d \in MadeFor(group[c])' /\ channels[group[c]] \in MadeFor(group[c])'
        BY <1>1, <2>1, <2>4, <3>1 DEF MadeFor
      <4>2. IsFiniteSet(MadeFor(group[c])')
        BY <1>1, FS_Subset, MadeFor(group[c])' \subseteq made' DEF MadeFor
      <4>3. Cardinality(MadeFor(group[c])') > 1
        BY <3>3, <4>1, <4>2, TwoMembers
      <4> QED
        BY <4>3 DEF StillFound, Replaced, MadeFor
    <3> QED
      BY <3>2, <3>3
  <2>5. CASE ~(Found(c) /\ group[d] = group[c])
    <3>1. Found(c) => Found(c)'
      BY <1>1, <1>4, <2>1, <2>2, <2>5 DEF CreateChannel, KeptUnder, Found
    <3> QED
      BY <1>1, <2>1, <3>1, QuietStep DEF IInv
  <2> QED
    BY <2>3, <2>4, <2>5
<1>5. ASSUME NEW d \in Conns, JoinTransfer(d) PROVE StillFound(c)'
  <2>1. c \in Conns
    BY DEF TypeOK
  <2>2. /\ at[d] \in made /\ made \subseteq Conns /\ group[at[d]] = group[d]
        /\ channels[group[d]] # None /\ channels[group[d]] \in made
        /\ group[channels[group[d]]] = group[d]
    BY <1>5 DEF IInv, TypeOK, JoinTransfer, JoinsOwnGroup, MadeIsKept
  <2>3. CASE c = d /\ channels[group[c]] = at[c]
    <3>1. clients' = [clients EXCEPT ![at[c]][ClientId[c]] = c] /\ channels' = channels
      BY <1>5, <2>3 DEF JoinTransfer
    <3>2. clients'[at[c]][ClientId[c]] = c
      BY <2>1, <2>2, <2>3, <3>1, RegistryAssumption DEF IInv, TypeOK
    <3> QED
      BY <1>1, <2>2, <2>3, <3>1, <3>2 DEF StillFound, Found
  <2>4. CASE c = d /\ channels[group[c]] # at[c]
    <3>1. at[c] \in MadeFor(group[c]) /\ channels[group[c]] \in MadeFor(group[c])
      BY <2>2, <2>4 DEF MadeFor
    <3>2. IsFiniteSet(MadeFor(group[c]))
      BY FS_Subset, MadeFor(group[c]) \subseteq made DEF MadeFor, IInv
    <3>3. Replaced(group[c])
      BY <2>4, <3>1, <3>2, TwoMembers DEF Replaced, MadeFor
    <3> QED
      BY <1>1, <3>3, ReplacedStays DEF StillFound
  <2>5. CASE c # d
    <3>1. c \in told /\ channels' = channels /\ life' = life /\ (running' => running)
      BY <1>2, <1>5, <2>5 DEF JoinTransfer
    <3>2. Found(c) => Found(c)'
      <4> SUFFICES ASSUME Found(c) PROVE Found(c)'
        OBVIOUS
      <4>1. channels[group[c]] \in made
        BY <2>1 DEF IInv, TypeOK, Found
      <4>2. c # None
        BY <2>1, RegistryAssumption
      <4>3. clients[channels[group[c]]][ClientId[c]] = c
        BY DEF Found
      <4>4. ~(at[d] = channels[group[c]] /\ ClientId[d] = ClientId[c])
        BY <1>5, <4>2, <4>3 DEF JoinTransfer, Taken
      <4>5. clients'[channels[group[c]]][ClientId[c]] = c
        BY <1>5, <2>1, <2>2, <4>1, <4>3, <4>4, RegistryAssumption
        DEF JoinTransfer, IInv, TypeOK
      <4> QED
        BY <1>1, <3>1, <4>5 DEF Found
    <3> QED
      BY <1>1, <3>1, <3>2, QuietStep DEF IInv
  <2> QED
    BY <2>3, <2>4, <2>5
<1>6. ASSUME NEW d \in Conns, RemoveFromChannel(d) PROVE StillFound(c)'
  <2>1. c \in told /\ channels' = channels /\ (running' => running)
    BY <1>2, <1>6 DEF RemoveFromChannel, procVars
  <2>2. c \in Conns
    BY <2>1 DEF IInv, TypeOK
  <2>3. life[d] # "up" /\ life'[d] # "up"
    BY <1>6 DEF RemoveFromChannel, IInv, TypeOK
  <2>4. CASE ClientId[d] = ClientId[c]
    <3>1. CASE d = c
      BY <2>3, <3>1 DEF StillFound
    <3>2. CASE d # c
      <4>1. d \in Same(c) \ {c}
        BY <2>4, <3>2 DEF Same
      <4> QED
        BY <2>3, <4>1 DEF StillFound, Same
    <3> QED
      BY <3>1, <3>2
  <2>5. CASE ClientId[d] # ClientId[c]
    <3>1. Found(c) => Found(c)'
      <4> SUFFICES ASSUME Found(c) PROVE Found(c)'
        OBVIOUS
      <4>1. channels[group[c]] \in Conns
        BY <2>2 DEF IInv, TypeOK, Found
      <4>2. clients'[channels[group[c]]][ClientId[c]] = clients[channels[group[c]]][ClientId[c]]
        BY <1>6, <2>2, <2>5, <4>1, RegistryAssumption
        DEF RemoveFromChannel, RemoveById, IInv, TypeOK
      <4> QED
        BY <1>1, <2>1, <4>2 DEF Found
    <3>2. \A e \in Conns : life'[e] = "up" => life[e] = "up"
      BY <1>6 DEF RemoveFromChannel, IInv, TypeOK
    <3> QED
      BY <1>1, <2>1, <3>1, <3>2, QuietStep DEF IInv
  <2> QED
    BY <2>4, <2>5
<1>7. ASSUME NEW d \in Conns,
             GetChannel(d) \/ JoinRefused(d) \/ ProcessorEnds(d)
               \/ CloseQueues(d) \/ ChannelRemoveClient(d)
      PROVE  StillFound(c)'
  <2>1. /\ c \in told /\ channels' = channels /\ clients' = clients
        /\ (running' => running)
        /\ \A e \in Conns : life'[e] = "up" => life[e] = "up"
    BY <1>2, <1>7 DEF GetChannel, JoinRefused, ProcessorEnds, CloseQueues,
                      ChannelRemoveClient, procVars, IInv, TypeOK
  <2>2. Found(c) => Found(c)'
    BY <1>1, <2>1 DEF Found
  <2> QED
    BY <1>1, <2>1, <2>2, QuietStep DEF IInv
<1> QED
  BY <1>3, <1>4, <1>5, <1>6, <1>7 DEF Next, Processor, ClientClose

(* HandleClientRequest, CreateChannel, TransferChannel.AddClient and       *)
(* ClientClose: a connection that was told it has joined is found in its   *)
(* group's channel while it is up, unless the channel was replaced or a    *)
(* connection with its id is closing.                                      *)
THEOREM ToldIsFoundAlways == Spec => []ToldIsFound
<1>1. Init => IInv
  <2>1. Init => TypeOK
    BY RegistryAssumption DEF Init, TypeOK
  <2> QED
    BY <2>1, FS_EmptySet DEF Init, IInv, MadeIsKept, JoinsOwnGroup, ToldIsFound
<1>2. IInv /\ TypeOK' /\ [Next]_vars => IInv'
  BY OriginsStep, ToldStep DEF IInv
<1>3. IInv => ToldIsFound
  BY DEF IInv
<1> QED
  BY <1>1, <1>2, <1>3, TypeCorrect, PTL DEF Spec

--------------------------------------------------------------------------------
(* Clients are kept under their ids. *)
KeptUnderId ==
  \A ch \in Conns, k \in Keys : clients[ch][k] # None => ClientId[clients[ch][k]] = k

(* A channel is empty until it is made, and nobody makes a second one. *)
EmptyWhenMade ==
  \A c \in Conns : /\ proc[c] = "creating" => c \notin made
                   /\ c \notin made => \A k \in Keys : clients[c][k] = None

(* e has not been closed, or is on its way out of the channel ch. *)
StillLeaving(e, ch) == life[e] \in {"up", "closed"} \/ (life[e] = "removing" /\ from[e] = ch)

(* Who is found under an id in the channel with that id can still leave it: *)
(* a connection that joins has the channel to itself until it closes, what  *)
(* it then looks up is that channel unless it has been replaced, and the    *)
(* channel in its place is empty.                                           *)
CanLeave ==
  running => \A k \in Keys :
    channels[k] # None /\ clients[channels[k]][k] # None =>
      StillLeaving(clients[channels[k]][k], channels[k])

LeaveInv == KeptUnderId /\ EmptyWhenMade /\ CanLeave

(* A step that puts nobody into a channel, leaves the map alone, and after  *)
(* which those who could leave still can.                                   *)
LEMMA LeavesCanLeave ==
  ASSUME TypeOK, TypeOK', CanLeave, channels' = channels, running' = running,
         \A ch \in Conns, k \in Keys : clients'[ch][k] # None => clients'[ch][k] = clients[ch][k],
         \A k \in Keys, ch \in Conns, e \in Conns :
           ch = channels[k] /\ e = clients'[ch][k] /\ e = clients[ch][k]
             /\ StillLeaving(e, ch) => StillLeaving(e, ch)'
  PROVE  CanLeave'
<1>1. SUFFICES ASSUME running, NEW k \in Keys, NEW ch, NEW e,
                      ch = channels[k], e = clients'[ch][k], ch # None, e # None
               PROVE  StillLeaving(e, ch)'
  <2>1. ASSUME running', NEW k \in Keys, channels'[k] # None, clients'[channels'[k]][k] # None
        PROVE  StillLeaving(clients[channels[k]][k], channels[k])'
    BY <1>1, <2>1 DEF StillLeaving
  <2> QED
    BY <2>1 DEF CanLeave
<1>2. ch \in Conns /\ e = clients[ch][k] /\ e \in Conns
  BY <1>1 DEF TypeOK
<1>3. StillLeaving(e, ch)
  BY <1>1, <1>2 DEF CanLeave
<1> QED
  BY <1>1, <1>2, <1>3

(* Every step keeps it: the requests and the closing of core/client.go on   *)
(* the channels of core/channel.go.                                         *)
LEMMA LeaveStep ==
  ASSUME TypeOK, TypeOK', MadeIsKept, JoinsOwnGroup, LeaveInv, [Next]_vars
  PROVE  LeaveInv'
<1> USE RegistryAssumption
<1>1. ASSUME UNCHANGED <<channels, made, clients, running>>,
             \A c \in Conns : proc'[c] = "creating" => proc[c] = "creating" \/ c \notin made,
             \A e \in Conns, ch \in Conns : StillLeaving(e, ch) => StillLeaving(e, ch)'
      PROVE  LeaveInv'
  <2>1. KeptUnderId' /\ EmptyWhenMade'
    BY <1>1 DEF LeaveInv, KeptUnderId, EmptyWhenMade
  <2>2. CanLeave'
    BY <1>1, LeavesCanLeave DEF LeaveInv
  <2> QED
    BY <2>1, <2>2 DEF LeaveInv
<1>2. CASE UNCHANGED vars
  BY <1>1, <1>2 DEF vars, procVars, StillLeaving
<1>3. ASSUME NEW c \in Conns, GetChannel(c) PROVE LeaveInv'
  <2>1. UNCHANGED <<channels, made, clients, running, life, from>>
    BY <1>3 DEF GetChannel
  <2>2. ASSUME NEW d \in Conns, proc'[d] = "creating", proc[d] # "creating" PROVE d \notin made
    <3>1. d = c /\ channels[group[c]] = None
      BY <1>3, <2>2 DEF GetChannel, FoundByGroup, TypeOK
    <3> QED
      BY <3>1 DEF MadeIsKept
  <2> QED
    BY <1>1, <2>1, <2>2 DEF StillLeaving
<1>4. ASSUME NEW c \in Conns, CreateChannel(c) PROVE LeaveInv'
  <2>1. /\ c \notin made /\ made' = made \union {c} /\ clients' = clients
        /\ channels' = [channels EXCEPT ![group[c]] = c]
        /\ UNCHANGED <<running, life, from>>
        /\ proc' = [proc EXCEPT ![c] = "joining"]
    BY <1>4 DEF CreateChannel, KeptUnder, LeaveInv, EmptyWhenMade
  <2>2. KeptUnderId' /\ EmptyWhenMade'
    BY <2>1 DEF LeaveInv, KeptUnderId, EmptyWhenMade, TypeOK
  <2>3. ASSUME running, NEW k \in Keys, channels'[k] # None, clients[channels'[k]][k] # None
        PROVE  StillLeaving(clients[channels'[k]][k], channels'[k])
    <3>1. CASE k = group[c]
      <4>1. channels'[k] = c
        BY <2>1, <3>1 DEF TypeOK
      <4> QED
        BY <2>1, <2>3, <4>1 DEF LeaveInv, EmptyWhenMade
    <3>2. CASE k # group[c]
      <4>1. channels'[k] = channels[k]
        BY <2>1, <3>2 DEF TypeOK
      <4> QED
        BY <2>3, <4>1 DEF LeaveInv, CanLeave
    <3> QED
      BY <3>1, <3>2
  <2>4. CanLeave'
    BY <2>1, <2>3 DEF CanLeave, StillLeaving
  <2> QED
    BY <2>2, <2>4 DEF LeaveInv
<1>5. ASSUME NEW c \in Conns, JoinTransfer(c) PROVE LeaveInv'
  <2>1. /\ at[c] \in made /\ at[c] \in Conns /\ ClientId[c] \in Keys
        /\ UNCHANGED <<channels, made, life, from>>
        /\ clients' = [clients EXCEPT ![at[c]][ClientId[c]] = c]
        /\ proc' = [proc EXCEPT ![c] = "idle"]
    BY <1>5 DEF JoinTransfer, JoinsOwnGroup, TypeOK
  <2>2. ASSUME NEW ch \in Conns, NEW k \in Keys
        PROVE  clients'[ch][k] = IF ch = at[c] /\ k = ClientId[c] THEN c ELSE clients[ch][k]
    BY <2>1 DEF TypeOK
  <2>3. KeptUnderId'
    BY <2>2 DEF LeaveInv, KeptUnderId
  <2>4. EmptyWhenMade'
    BY <2>1, <2>2 DEF LeaveInv, EmptyWhenMade, TypeOK
  <2>5. ASSUME running', NEW k \in Keys, channels[k] # None, clients'[channels[k]][k] # None
        PROVE  StillLeaving(clients'[channels[k]][k], channels[k])
    <3>1. running /\ life[c] = "up"
      BY <1>5, <2>5, Zenon DEF JoinTransfer
    <3>4. channels[k] \in Conns
      BY <2>5 DEF TypeOK
    <3>2. CASE clients'[channels[k]][k] = c
      BY <3>1, <3>2 DEF StillLeaving
    <3>3. CASE clients'[channels[k]][k] = clients[channels[k]][k]
      BY <2>5, <3>1, <3>3 DEF LeaveInv, CanLeave
    <3> QED
      BY <2>2, <3>2, <3>3, <3>4
  <2>6. CanLeave'
    BY <2>1, <2>5 DEF CanLeave, StillLeaving
  <2> QED
    BY <2>3, <2>4, <2>6 DEF LeaveInv
<1>6. ASSUME NEW c \in Conns, ChannelRemoveClient(c) PROVE LeaveInv'
  <2>1. /\ UNCHANGED <<channels, made, clients, proc, running>>
        /\ from' = [from EXCEPT ![c] = channels[ClientId[c]]]
        /\ life' = [life EXCEPT ![c] = IF from'[c] = None THEN "down" ELSE "removing"]
        /\ life[c] = "closed" /\ ClientId[c] \in Keys
    BY <1>6 DEF ChannelRemoveClient, procVars
  <2>2. KeptUnderId' /\ EmptyWhenMade'
    BY <2>1 DEF LeaveInv, KeptUnderId, EmptyWhenMade
  <2>3. ASSUME NEW k \in Keys, NEW ch \in Conns, NEW e \in Conns,
               ch = channels[k], e = clients[ch][k], StillLeaving(e, ch)
        PROVE  StillLeaving(e, ch)'
    <3>1. ClientId[e] = k
      BY <2>3, RegistryAssumption DEF LeaveInv, KeptUnderId
    <3>2. CASE e = c
      <4>1. from'[c] = ch /\ life'[c] = "removing"
        BY <2>1, <2>3, <3>1, <3>2 DEF TypeOK
      <4> QED
        BY <3>2, <4>1 DEF StillLeaving
    <3>3. CASE e # c
      <4>1. life'[e] = life[e] /\ from'[e] = from[e]
        BY <2>1, <3>3 DEF TypeOK
      <4> QED
        BY <2>3, <4>1 DEF StillLeaving
    <3> QED
      BY <3>2, <3>3
  <2>4. CanLeave'
    BY <2>1, <2>3, LeavesCanLeave DEF LeaveInv
  <2> QED
    BY <2>2, <2>4 DEF LeaveInv
<1>7. ASSUME NEW c \in Conns, RemoveFromChannel(c) PROVE LeaveInv'
  <2>1. /\ UNCHANGED <<channels, made, proc, from, running>>
        /\ clients' = [clients EXCEPT ![from[c]][ClientId[c]] = None]
        /\ life' = [life EXCEPT ![c] = "down"]
        /\ life[c] = "removing" /\ ClientId[c] \in Keys
    BY <1>7 DEF RemoveFromChannel, RemoveById, procVars
  <2>2. ASSUME NEW ch \in Conns, NEW k \in Keys
        PROVE  clients'[ch][k] = IF ch = from[c] /\ k = ClientId[c] THEN None ELSE clients[ch][k]
    BY <2>1 DEF TypeOK
  <2>3. KeptUnderId' /\ EmptyWhenMade'
    BY <2>1, <2>2 DEF LeaveInv, KeptUnderId, EmptyWhenMade
  <2>4. ASSUME NEW k \in Keys, NEW ch \in Conns, NEW e \in Conns,
               ch = channels[k], e = clients'[ch][k], e = clients[ch][k], StillLeaving(e, ch)
        PROVE  StillLeaving(e, ch)'
    <3>0. e # None
      BY <2>4, RegistryAssumption
    <3>1. ClientId[e] = k /\ ~(ch = from[c] /\ k = ClientId[c])
      <4>1. ClientId[e] = k
        BY <2>4, <3>0 DEF LeaveInv, KeptUnderId
      <4>2. ~(ch = from[c] /\ k = ClientId[c])
        BY <2>2, <2>4, <3>0
      <4> QED
        BY <4>1, <4>2
    <3>2. e # c
      BY <2>1, <2>4, <3>1 DEF StillLeaving
    <3>3. life'[e] = life[e] /\ from'[e] = from[e]
      BY <2>1, <3>2 DEF TypeOK
    <3> QED
      BY <2>4, <3>3 DEF StillLeaving
  <2>5. CanLeave'
    BY <2>1, <2>2, <2>4, LeavesCanLeave DEF LeaveInv
  <2> QED
    BY <2>3, <2>5 DEF LeaveInv
<1>8. ASSUME NEW c \in Conns, JoinRefused(c) \/ ProcessorEnds(c) PROVE LeaveInv'
  BY <1>1, <1>8 DEF JoinRefused, ProcessorEnds, StillLeaving, TypeOK
<1>9. ASSUME NEW c \in Conns, CloseQueues(c) PROVE LeaveInv'
  BY <1>1, <1>9 DEF CloseQueues, procVars, StillLeaving, TypeOK
<1> QED
  BY <1>2, <1>3, <1>4, <1>5, <1>6, <1>7, <1>8, <1>9 DEF Next, Processor, ClientClose

(* ClientClose of core/client.go and GetChannel, AddClient and RemoveClient *)
(* of core/channel.go: when all connections with an id are gone, none is    *)
(* left in the channel with that id.                                        *)
THEOREM NoneIsLeftBehind == Spec => []NoneLeftBehind
<1> DEFINE Inv == TypeOK /\ IsFiniteSet(made) /\ MadeIsKept /\ JoinsOwnGroup /\ LeaveInv
<1>1. Init => Inv
  <2>1. Init => TypeOK
    BY RegistryAssumption DEF Init, TypeOK
  <2>2. Init => LeaveInv
    BY DEF Init, LeaveInv, KeptUnderId, EmptyWhenMade, CanLeave
  <2> QED
    BY <2>1, <2>2, FS_EmptySet DEF Init, MadeIsKept, JoinsOwnGroup
<1>2. Inv /\ TypeOK' /\ [Next]_vars => Inv'
  BY OriginsStep, LeaveStep
<1>3. Inv => NoneLeftBehind
  <2> SUFFICES ASSUME Inv, NEW c \in Conns, running,
                      \A d \in Same(c) : life[d] = "down" /\ proc[d] = "ended",
                      channels[ClientId[c]] # None,
                      clients[channels[ClientId[c]]][ClientId[c]] # None
               PROVE  FALSE
    BY DEF NoneLeftBehind
  <2>1. PICK e : e = clients[channels[ClientId[c]]][ClientId[c]]
    OBVIOUS
  <2>2. ClientId[c] \in Keys /\ channels[ClientId[c]] \in Conns
    BY RegistryAssumption DEF TypeOK
  <2>3. e \in Same(c)
    BY <2>1, <2>2 DEF Same, TypeOK, LeaveInv, KeptUnderId
  <2>4. StillLeaving(e, channels[ClientId[c]])
    BY <2>1, <2>2 DEF LeaveInv, CanLeave
  <2> QED
    BY <2>3, <2>4 DEF StillLeaving
<1> QED
  BY <1>1, <1>2, <1>3, TypeCorrect, PTL DEF Spec
================================================================================
