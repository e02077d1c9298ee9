-------------------------- MODULE AsyncRelayProofs --------------------------
(***************************************************************************)
(* Proofs about AsyncRelay for any number of calls, descriptors and        *)
(* relays: the counter is a bounded semaphore, the registry and the        *)
(* descriptors follow the places of the jobs, and no shutdown() reaches a  *)
(* descriptor that a relay does not own.                                   *)
(***************************************************************************)
EXTENDS AsyncRelay, FiniteSetTheorems, TLAPS

HasPeer == Listed \cup {"register", "closePeer"}
Holders == {j \in Jobs : place[j] \in Counted}

(* The descriptors of a job are its own, and a job's descriptor is one of  *)
(* the two it knows.                                                       *)
PeersOwned == \A j \in Jobs : place[j] \in HasPeer =>
  peer[j] \in RelayFds /\ holder[peer[j]] = j
UpsOwned == \A j \in Jobs : place[j] \in Dialling =>
  up[j] \in RelayFds /\ holder[up[j]] = j /\ up[j] # peer[j]
OwnersKnow == \A f \in RelayFds : holder[f] \in Jobs =>
  LET j == holder[f] IN
    \/ f = peer[j] /\ place[j] \in HasPeer
    \/ f = up[j] /\ place[j] \in Dialling

RegistryMatches == \A f \in RelayFds :
  f \in registry <=> \E j \in Jobs : place[j] \in Listed /\ peer[j] = f

SweepWithin == todo \subseteq registry /\ (~sweeping => todo = {})

CountMatches == relayCount = Cardinality(Holders)

RelayInv ==
  /\ RelayTypeOK
  /\ PeersOwned /\ UpsOwned /\ OwnersKnow
  /\ RegistryMatches /\ SweepWithin
  /\ CountMatches

LEMMA PlacesSubsets ==
  /\ Counted \subseteq Places /\ Listed \subseteq Counted /\ HasPeer \subseteq Counted
  /\ Dialling \subseteq Listed /\ Listed \subseteq HasPeer
BY DEF Places, Counted, Listed, HasPeer, Dialling

LEMMA InitInv == ASSUME RelayInit PROVE RelayInv
<1>1. Holders = {}
  BY DEF RelayInit, Holders, Counted
<1>2. CountMatches
  BY <1>1, FS_EmptySet DEF CountMatches, RelayInit
<1>3. RelayTypeOK
  <2>1. relayCount \in 0..MaxRelays /\ seen \in [Jobs -> 0..MaxRelays]
    BY RelayAssumption DEF RelayInit
  <2>2. holder \in [RelayFds -> Jobs \cup {"free", "app"}] /\ shut \subseteq RelayFds
    BY DEF RelayInit
  <2>3. place \in [Jobs -> Places] /\ open \in [Jobs -> SUBSET {"up", "peer"}]
        /\ sending \in [Jobs -> {"none", "up", "peer"}]
    BY DEF RelayInit, Places
  <2>4. peer \in [Jobs -> RelayFds \cup {NoRelayFd}] /\ up \in [Jobs -> RelayFds \cup {NoRelayFd}]
    BY DEF RelayInit
  <2>5. registry \subseteq RelayFds /\ todo \subseteq RelayFds /\ sweeping \in BOOLEAN
    BY DEF RelayInit
  <2> QED BY <2>1, <2>2, <2>3, <2>4, <2>5 DEF RelayTypeOK
<1>4. PeersOwned /\ UpsOwned
  BY DEF RelayInit, PeersOwned, UpsOwned, HasPeer, Listed, Dialling
<1>5. OwnersKnow
  BY RelayAssumption DEF RelayInit, OwnersKnow
<1>6. RegistryMatches /\ SweepWithin
  BY DEF RelayInit, RegistryMatches, SweepWithin, Listed
<1> QED BY <1>2, <1>3, <1>4, <1>5, <1>6 DEF RelayInv

-----------------------------------------------------------------------------
(* The counter.  A job enters Holders by SwapSucceeds and leaves it by     *)
(* ReleaseCount; every other step keeps the set and the counter.           *)

LEMMA HoldersFinite == IsFiniteSet(Holders) /\ Cardinality(Holders) \in Nat
BY RelayAssumption, FS_Subset, FS_CardinalityType DEF Holders

LEMMA HolderEnters ==
  ASSUME RelayTypeOK, NEW j \in Jobs, SwapSucceeds(j)
  PROVE  j \notin Holders /\ Holders' = Holders \cup {j}
BY DEF RelayTypeOK, SwapSucceeds, Holders, At, Goes, Counted, Places

LEMMA HolderLeaves ==
  ASSUME RelayTypeOK, NEW j \in Jobs, ReleaseCount(j)
  PROVE  j \in Holders /\ Holders' = Holders \ {j}
BY DEF RelayTypeOK, ReleaseCount, Holders, At, Goes, Counted, Places

Stays(j) ==
  \/ LoadCount(j) \/ SwapFails(j) \/ Full(j) \/ Start(j)
  \/ SocketMade(j) \/ SocketFails(j) \/ ChainConnects(j) \/ ChainFails(j)
  \/ CloseUp(j) \/ Unregister(j) \/ ClosePeer(j)
  \/ Pumps(j)

Others == CloseAll \/ AppOpens \/ AppCloses

LEMMA NextSplits ==
  ASSUME RelayNext
  PROVE  (\E j \in Jobs : SwapSucceeds(j) \/ ReleaseCount(j) \/ Stays(j)) \/ Others
BY DEF RelayNext, Acquire, Works, Stays, Others

LEMMA HoldersStay ==
  ASSUME RelayTypeOK, NEW j \in Jobs, Stays(j)
  PROVE  Holders' = Holders /\ relayCount' = relayCount
<1>1. CASE LoadCount(j) \/ SwapFails(j) \/ Full(j)
  BY <1>1 DEF RelayTypeOK, LoadCount, SwapFails, Full, Holders, At, Goes, Counted, Places
<1>2. CASE Start(j)
  BY <1>2 DEF RelayTypeOK, Start, PairMade, PairFails, Register, CallocFails, Spawned,
    NotSpawned, Holders, At, Goes, Counted, Places
<1>3. CASE SocketMade(j) \/ SocketFails(j) \/ ChainConnects(j) \/ ChainFails(j)
  BY <1>3 DEF RelayTypeOK, SocketMade, SocketFails, ChainConnects, ChainFails, Holders, At,
    Goes, Counted, Places
<1>4. CASE CloseUp(j) \/ Unregister(j) \/ ClosePeer(j) \/ Pumps(j)
  BY <1>4 DEF RelayTypeOK, CloseUp, Unregister, ClosePeer, Pumps, PeerEnds, UpstreamEnds,
    PeerSends, UpstreamSends, WriteDone, PumpReturns, Holders, At, Goes, Counted, Places
<1> QED BY <1>1, <1>2, <1>3, <1>4 DEF Stays

LEMMA OthersKeepHolders ==
  ASSUME Others PROVE Holders' = Holders /\ relayCount' = relayCount
BY DEF Others, CloseAll, CloseAllBegins, CloseAllStep, CloseAllEnds, AppOpens, AppCloses,
  jobVars, registryVars, Holders

LEMMA CountNext ==
  ASSUME RelayInv, RelayNext
  PROVE  CountMatches' /\ relayCount' \in 0..MaxRelays
<1> USE RelayAssumption
<1>t. RelayTypeOK /\ CountMatches /\ relayCount \in 0..MaxRelays
  BY DEF RelayInv, RelayTypeOK
<1>1. ASSUME NEW j \in Jobs, SwapSucceeds(j) PROVE CountMatches' /\ relayCount' \in 0..MaxRelays
  <2>1. relayCount' = relayCount + 1 /\ relayCount < MaxRelays
    BY <1>1 DEF SwapSucceeds
  <2>2. Cardinality(Holders') = Cardinality(Holders) + 1
    BY <1>1, <1>t, HolderEnters, HoldersFinite, FS_AddElement
  <2> QED BY <2>1, <2>2, <1>t DEF CountMatches
<1>2. ASSUME NEW j \in Jobs, ReleaseCount(j) PROVE CountMatches' /\ relayCount' \in 0..MaxRelays
  <2>1. relayCount' = relayCount - 1
    BY <1>2 DEF ReleaseCount
  <2>2. Cardinality(Holders') = Cardinality(Holders) - 1 /\ Cardinality(Holders') \in Nat
    BY <1>2, <1>t, HolderLeaves, HoldersFinite, FS_RemoveElement, FS_CardinalityType
  <2> QED BY <2>1, <2>2, <1>t DEF CountMatches
<1>3. ASSUME NEW j \in Jobs, Stays(j) PROVE CountMatches' /\ relayCount' \in 0..MaxRelays
  BY <1>3, <1>t, HoldersStay DEF CountMatches
<1>4. CASE Others
  BY <1>4, <1>t, OthersKeepHolders DEF CountMatches
<1> QED BY <1>1, <1>2, <1>3, <1>4, NextSplits

-----------------------------------------------------------------------------
(* Types, descriptors and registry, one step per action.                   *)

Body == PeersOwned /\ UpsOwned /\ OwnersKnow /\ RegistryMatches /\ SweepWithin
Kept == RelayTypeOK /\ Body

(* The types but for the counter, which CountNext has.                     *)
TypesBut ==
  /\ registry \subseteq RelayFds /\ todo \subseteq RelayFds
  /\ sweeping \in BOOLEAN
  /\ place \in [Jobs -> Places]
  /\ seen \in [Jobs -> 0..MaxRelays]
  /\ peer \in [Jobs -> RelayFds \cup {NoRelayFd}]
  /\ up \in [Jobs -> RelayFds \cup {NoRelayFd}]
  /\ open \in [Jobs -> SUBSET {"up", "peer"}]
  /\ sending \in [Jobs -> {"none", "up", "peer"}]
  /\ holder \in [RelayFds -> Jobs \cup {"free", "app"}]
  /\ shut \subseteq RelayFds

LEMMA AcquireKeeps ==
  ASSUME Kept, NEW j \in Jobs, Acquire(j) PROVE TypesBut' /\ Body'
<1> USE DEF Kept, RelayTypeOK, At, Goes, registryVars, fdVars
<1>1. TypesBut'
  BY DEF Acquire, LoadCount, SwapSucceeds, SwapFails, Full, TypesBut, Places
<1>2. Body'
  BY DEF Acquire, LoadCount, SwapSucceeds, SwapFails, Full, Body, PeersOwned, UpsOwned, OwnersKnow,
    RegistryMatches, SweepWithin, HasPeer, Listed, Dialling
<1> QED BY <1>1, <1>2

LEMMA StartKeeps ==
  ASSUME Kept, NEW j \in Jobs, Start(j) PROVE TypesBut' /\ Body'
<1> USE DEF Kept, RelayTypeOK, At, Goes
<1>1. CASE PairMade(j)
  <2> USE DEF OpenedBy, registryVars
  <2>1. TypesBut'
    BY <1>1 DEF PairMade, TypesBut, Places
  <2>2. PICK f \in RelayFds : /\ holder[f] = "free" /\ holder' = [holder EXCEPT ![f] = j]
                             /\ peer' = [peer EXCEPT ![j] = f]
    BY <1>1 DEF PairMade
  <2>3. PeersOwned' /\ UpsOwned'
    BY <1>1, <2>2, RelayAssumption DEF PairMade, Body, PeersOwned, UpsOwned, HasPeer, Listed, Dialling
  <2>4. OwnersKnow'
    BY <1>1, <2>2, RelayAssumption DEF PairMade, Body, OwnersKnow, HasPeer, Listed, Dialling
  <2>5. RegistryMatches' /\ SweepWithin'
    BY <1>1, <2>2 DEF PairMade, Body, RegistryMatches, SweepWithin, Listed
  <2> QED BY <2>1, <2>3, <2>4, <2>5 DEF Body
<1>2. CASE Register(j)
  <2> USE DEF fdVars
  <2>1. TypesBut'
    BY <1>2 DEF Register, TypesBut, Places, Body, PeersOwned, HasPeer
  <2>2. PeersOwned' /\ UpsOwned' /\ OwnersKnow'
    BY <1>2 DEF Register, Body, PeersOwned, UpsOwned, OwnersKnow, HasPeer, Listed, Dialling
  <2>3. \A i \in Jobs : place[i] \in Listed => peer[i] # peer[j]
    BY <1>2, PlacesSubsets DEF Register, Body, PeersOwned, HasPeer, Listed
  <2>4. RegistryMatches' /\ SweepWithin'
    BY <1>2, <2>3 DEF Register, Body, RegistryMatches, SweepWithin, Listed, PeersOwned, HasPeer
  <2> QED BY <2>1, <2>2, <2>4 DEF Body
<1>3. CASE PairFails(j) \/ CallocFails(j) \/ Spawned(j) \/ NotSpawned(j)
  <2> USE DEF registryVars, fdVars
  <2>1. TypesBut'
    BY <1>3 DEF PairFails, CallocFails, Spawned, NotSpawned, TypesBut, Places
  <2>2. Body'
    BY <1>3 DEF PairFails, CallocFails, Spawned, NotSpawned, Body, PeersOwned, UpsOwned, OwnersKnow,
      RegistryMatches, SweepWithin, HasPeer, Listed, Dialling
  <2> QED BY <2>1, <2>2
<1> QED BY <1>1, <1>2, <1>3 DEF Start

LEMMA WorksKeeps ==
  ASSUME Kept, NEW j \in Jobs, Works(j) PROVE TypesBut' /\ Body'
<1> USE DEF Kept, RelayTypeOK, At, Goes
<1>1. CASE SocketMade(j)
  <2> USE DEF OpenedBy, registryVars
  <2>1. TypesBut'
    BY <1>1 DEF SocketMade, TypesBut, Places
  <2>2. PICK f \in RelayFds : /\ holder[f] = "free" /\ holder' = [holder EXCEPT ![f] = j]
                             /\ up' = [up EXCEPT ![j] = f]
    BY <1>1 DEF SocketMade
  <2>3. PeersOwned' /\ UpsOwned'
    BY <1>1, <2>2, RelayAssumption DEF SocketMade, Body, PeersOwned, UpsOwned, HasPeer, Listed, Dialling
  <2>4. OwnersKnow'
    BY <1>1, <2>2, RelayAssumption DEF SocketMade, Body, OwnersKnow, HasPeer, Listed, Dialling
  <2>5. RegistryMatches' /\ SweepWithin'
    BY <1>1 DEF SocketMade, Body, RegistryMatches, SweepWithin, Listed
  <2> QED BY <2>1, <2>3, <2>4, <2>5 DEF Body
<1>2. CASE CloseUp(j)
  <2> USE DEF ClosedFd, registryVars
  <2>1. TypesBut'
    BY <1>2 DEF CloseUp, TypesBut, Places
  <2>2. PeersOwned' /\ UpsOwned'
    BY <1>2, RelayAssumption DEF CloseUp, Body, PeersOwned, UpsOwned, HasPeer, Listed, Dialling
  <2>3. OwnersKnow'
    BY <1>2, RelayAssumption DEF CloseUp, Body, UpsOwned, OwnersKnow, HasPeer, Listed, Dialling
  <2>4. RegistryMatches' /\ SweepWithin'
    BY <1>2 DEF CloseUp, Body, RegistryMatches, SweepWithin, Listed
  <2> QED BY <2>1, <2>2, <2>3, <2>4 DEF Body
<1>3. CASE Unregister(j)
  <2> USE DEF fdVars
  <2>1. TypesBut'
    BY <1>3 DEF Unregister, TypesBut, Places
  <2>2. PeersOwned' /\ UpsOwned' /\ OwnersKnow'
    BY <1>3 DEF Unregister, Body, PeersOwned, UpsOwned, OwnersKnow, HasPeer, Listed, Dialling
  <2>3. \A i \in Jobs : place[i] \in Listed /\ i # j => peer[i] # peer[j]
    BY <1>3 DEF Unregister, Body, PeersOwned, HasPeer, Listed
  <2>4. RegistryMatches' /\ SweepWithin'
    BY <1>3, <2>3 DEF Unregister, Body, RegistryMatches, SweepWithin, Listed
  <2> QED BY <2>1, <2>2, <2>4 DEF Body
<1>4. CASE ClosePeer(j)
  <2> USE DEF ClosedFd, registryVars
  <2>1. TypesBut'
    BY <1>4 DEF ClosePeer, TypesBut, Places
  <2>2. PeersOwned' /\ UpsOwned'
    BY <1>4, RelayAssumption DEF ClosePeer, Body, PeersOwned, UpsOwned, HasPeer, Listed, Dialling
  <2>3. OwnersKnow'
    BY <1>4, RelayAssumption DEF ClosePeer, Body, PeersOwned, OwnersKnow, HasPeer, Listed, Dialling
  <2>4. RegistryMatches' /\ SweepWithin'
    BY <1>4 DEF ClosePeer, Body, RegistryMatches, SweepWithin, Listed
  <2> QED BY <2>1, <2>2, <2>3, <2>4 DEF Body
<1>5. CASE SocketFails(j) \/ ChainConnects(j) \/ ChainFails(j) \/ ReleaseCount(j)
  <2> USE DEF registryVars, fdVars
  <2>1. TypesBut'
    BY <1>5 DEF SocketFails, ChainConnects, ChainFails, ReleaseCount, TypesBut, Places
  <2>2. Body'
    BY <1>5 DEF SocketFails, ChainConnects, ChainFails, ReleaseCount, Body, PeersOwned, UpsOwned,
      OwnersKnow, RegistryMatches, SweepWithin, HasPeer, Listed, Dialling
  <2> QED BY <2>1, <2>2
<1> QED BY <1>1, <1>2, <1>3, <1>4, <1>5 DEF Works

LEMMA PumpsKeeps ==
  ASSUME Kept, NEW j \in Jobs, Pumps(j) PROVE TypesBut' /\ Body'
<1> USE DEF Kept, RelayTypeOK, At, Goes, registryVars, fdVars
<1>1. CASE PumpReturns(j)
  <2>1. {up[j], peer[j]} \subseteq RelayFds
    BY <1>1 DEF PumpReturns, Body, PeersOwned, UpsOwned, HasPeer, Listed, Dialling
  <2>2. TypesBut'
    BY <1>1, <2>1 DEF PumpReturns, TypesBut, Places
  <2>3. Body'
    BY <1>1 DEF PumpReturns, Body, PeersOwned, UpsOwned, OwnersKnow,
      RegistryMatches, SweepWithin, HasPeer, Listed, Dialling
  <2> QED BY <2>2, <2>3
<1>2. CASE PeerEnds(j) \/ UpstreamEnds(j)
  <2>1. TypesBut'
    BY <1>2 DEF PeerEnds, UpstreamEnds, TypesBut
  <2>2. Body'
    BY <1>2 DEF PeerEnds, UpstreamEnds, Body, PeersOwned, UpsOwned, OwnersKnow, RegistryMatches, SweepWithin
  <2> QED BY <2>1, <2>2
<1>3. CASE PeerSends(j) \/ UpstreamSends(j) \/ WriteDone(j)
  <2>1. TypesBut'
    BY <1>3 DEF PeerSends, UpstreamSends, WriteDone, TypesBut
  <2>2. Body'
    BY <1>3 DEF PeerSends, UpstreamSends, WriteDone, Body, PeersOwned, UpsOwned, OwnersKnow,
      RegistryMatches, SweepWithin
  <2> QED BY <2>1, <2>2
<1> QED BY <1>1, <1>2, <1>3 DEF Pumps

LEMMA OthersKeep ==
  ASSUME Kept, Others PROVE TypesBut' /\ Body'
<1> USE DEF Kept, RelayTypeOK
<1>1. CASE CloseAll
  <2>1. TypesBut'
    BY <1>1 DEF CloseAll, CloseAllBegins, CloseAllStep, CloseAllEnds, jobVars, fdVars, TypesBut
  <2>2. PeersOwned' /\ UpsOwned' /\ OwnersKnow' /\ RegistryMatches'
    BY <1>1 DEF CloseAll, CloseAllBegins, CloseAllStep, CloseAllEnds, jobVars, fdVars, Body,
      PeersOwned, UpsOwned, OwnersKnow, RegistryMatches
  <2>3. SweepWithin'
    BY <1>1 DEF CloseAll, CloseAllBegins, CloseAllStep, CloseAllEnds, Body, SweepWithin
  <2> QED BY <2>1, <2>2, <2>3 DEF Body
<1>2. CASE AppOpens \/ AppCloses
  <2> USE DEF ClosedFd, registryVars, jobVars
  <2>1. TypesBut'
    BY <1>2 DEF AppOpens, AppCloses, TypesBut
  <2>2. PeersOwned' /\ UpsOwned' /\ OwnersKnow' /\ RegistryMatches' /\ SweepWithin'
    BY <1>2, RelayAssumption DEF AppOpens, AppCloses, Body, PeersOwned, UpsOwned, OwnersKnow,
      RegistryMatches, SweepWithin
  <2> QED BY <2>1, <2>2 DEF Body
<1> QED BY <1>1, <1>2 DEF Others

LEMMA NextKeeps ==
  ASSUME RelayInv, [RelayNext]_relayVars PROVE RelayInv'
<1>k. Kept
  BY DEF RelayInv, Kept, Body
<1>1. CASE RelayNext
  <2>1. TypesBut' /\ Body'
    BY <1>1, <1>k, AcquireKeeps, StartKeeps, WorksKeeps, PumpsKeeps, OthersKeep DEF RelayNext, Others
  <2>2. CountMatches' /\ relayCount' \in 0..MaxRelays
    BY <1>1, CountNext
  <2>3. RelayTypeOK'
    BY <2>1, <2>2 DEF RelayTypeOK, TypesBut
  <2> QED BY <2>1, <2>2, <2>3 DEF RelayInv, Body
<1>2. CASE UNCHANGED relayVars
  BY <1>2 DEF relayVars, registryVars, jobVars, fdVars, RelayInv, RelayTypeOK, PeersOwned, UpsOwned,
    OwnersKnow, RegistryMatches, SweepWithin, CountMatches, Holders
<1> QED BY <1>1, <1>2

THEOREM RelayInvariant == RelaySpec => []RelayInv
<1>1. RelayInit => RelayInv
  BY InitInv
<1>2. RelayInv /\ [RelayNext]_relayVars => RelayInv'
  BY NextKeeps
<1> QED BY <1>1, <1>2, PTL DEF RelaySpec

\* Every variable of the relay keeps its type.
THEOREM RelayTypeCorrect == RelaySpec => []RelayTypeOK
<1>1. RelayInv => RelayTypeOK
  BY DEF RelayInv
<1> QED BY <1>1, RelayInvariant, PTL

-----------------------------------------------------------------------------
(* A job about to register counts as a holder and is not in the registry,  *)
(* and a registered peer belongs to one holder: the registry has room.     *)
LEMMA RegistryHasRoom ==
  ASSUME RelayInv, NEW j \in Jobs, place[j] = "register"
  PROVE  Cardinality(registry) < MaxRelays
<1> DEFINE L == {i \in Jobs : place[i] \in Listed}
           image == {peer[i] : i \in L}
<1>1. registry = image
  BY DEF RelayInv, RegistryMatches, RelayTypeOK, PeersOwned, HasPeer
<1>2. IsFiniteSet(L) /\ Cardinality(L) \in Nat
  BY RelayAssumption, FS_Subset, FS_CardinalityType
<1>3. Cardinality(image) <= Cardinality(L) /\ IsFiniteSet(image)
  <2>1. [i \in L |-> peer[i]] \in Surjection(L, image)
    BY DEF Surjection
  <2> QED BY <2>1, <1>2, FS_Surjection
<1>4. Cardinality(image) \in Nat
  BY <1>3, FS_CardinalityType
<1>5. j \in Holders /\ L \subseteq Holders \ {j}
  BY PlacesSubsets DEF Holders, Counted, Places, Listed
<1>6. IsFiniteSet(Holders \ {j}) /\ Cardinality(Holders \ {j}) = Cardinality(Holders) - 1
  BY <1>5, HoldersFinite, FS_RemoveElement
<1>7. Cardinality(L) <= Cardinality(Holders \ {j})
  BY <1>5, <1>6, FS_Subset
<1>8. Cardinality(Holders) \in 0..MaxRelays
  BY DEF RelayInv, CountMatches, RelayTypeOK
<1> QED BY <1>1, <1>2, <1>3, <1>4, <1>6, <1>7, <1>8, RelayAssumption

\* Nothing a call or its worker took is leaked or forgotten, whatever fails.
THEOREM RelaysAccountedAlways == RelaySpec => []RelaysAccounted
<1>1. RelayInv => RelaysAccounted
  <2> SUFFICES ASSUME RelayInv PROVE RelaysAccounted
    OBVIOUS
  <2>1. registry = {peer[j] : j \in {i \in Jobs : place[i] \in Listed}}
    BY DEF RelayInv, RegistryMatches, RelayTypeOK, PeersOwned, HasPeer
  <2>2. ASSUME NEW f \in RelayFds, holder[f] \in Jobs
        PROVE  LET j == holder[f] IN
                 \/ f = peer[j] /\ place[j] \in Listed \cup {"register", "closePeer"}
                 \/ f = up[j] /\ place[j] \in Dialling
    BY <2>2 DEF RelayInv, OwnersKnow, HasPeer
  <2>3. \A j \in Jobs : At(j, "register") => Cardinality(registry) < MaxRelays
    BY RegistryHasRoom DEF At
  <2> QED BY <2>1, <2>2, <2>3 DEF RelaysAccounted
<1> QED BY <1>1, RelayInvariant, PTL

\* shutdown() reaches only descriptors that relays own at that moment.
THEOREM OwnShutdownsAlways == RelaySpec => OwnShutdownsOnly
<1> DEFINE A == \A f \in shut' \ shut : holder[f] \in Jobs
<1>1. RelayInv /\ [RelayNext]_relayVars => [A]_relayVars
  <2> SUFFICES ASSUME RelayInv, RelayNext PROVE A
    BY DEF relayVars
  <2>i. PeersOwned /\ UpsOwned /\ RegistryMatches /\ SweepWithin /\ todo \subseteq RelayFds
    BY DEF RelayInv, RelayTypeOK
  <2>1. ASSUME NEW j \in Jobs, Acquire(j) \/ Start(j) \/ Works(j) PROVE A
    BY <2>1 DEF Acquire, LoadCount, SwapSucceeds, SwapFails, Full, Start, PairMade, PairFails, Register,
      CallocFails, Spawned, NotSpawned, Works, SocketMade, SocketFails, ChainConnects, ChainFails,
      CloseUp, Unregister, ClosePeer, ReleaseCount, OpenedBy, ClosedFd, fdVars
  <2>2. ASSUME NEW j \in Jobs, Pumps(j) PROVE A
    BY <2>2, <2>i DEF Pumps, PeerEnds, UpstreamEnds, PeerSends, UpstreamSends, WriteDone, PumpReturns,
      fdVars, PeersOwned, UpsOwned, HasPeer, Listed, Dialling, At
  <2>3. CASE Others
    BY <2>3, <2>i DEF Others, CloseAll, CloseAllBegins, CloseAllStep, CloseAllEnds, AppOpens, AppCloses,
      ClosedFd, fdVars, RegistryMatches, SweepWithin, PeersOwned, HasPeer
  <2> QED BY <2>1, <2>2, <2>3 DEF RelayNext, Others
<1> QED BY <1>1, RelayInvariant, PTL DEF RelaySpec, OwnShutdownsOnly

\* The compare-and-swap loop and the releases are a bounded semaphore.
THEOREM RelayLimitAlways == RelaySpec => RelayLimit
<1>1. RelayInit => Relays!SemInit
  BY RelayAssumption DEF RelayInit, Relays!SemInit, Counted
<1>2. RelayInv /\ [RelayNext]_relayVars => [Relays!SemNext]_<<Holders, MaxRelays - relayCount>>
  <2> SUFFICES ASSUME RelayInv, [RelayNext]_relayVars
               PROVE  Relays!SemNext \/ (Holders' = Holders /\ relayCount' = relayCount)
    OBVIOUS
  <2>t. RelayTypeOK /\ relayCount \in 0..MaxRelays /\ MaxRelays \in Nat
    BY RelayAssumption DEF RelayInv, RelayTypeOK
  <2>1. ASSUME NEW j \in Jobs, SwapSucceeds(j) PROVE Relays!SemNext
    <3>1. relayCount < MaxRelays /\ relayCount' = relayCount + 1
      BY <2>1 DEF SwapSucceeds
    <3>2. Relays!Take(j)
      BY <2>1, <2>t, <3>1, HolderEnters DEF Relays!Take, Holders
    <3> QED BY <3>2 DEF Relays!SemNext
  <2>2. ASSUME NEW j \in Jobs, ReleaseCount(j) PROVE Relays!SemNext
    <3>1. relayCount' = relayCount - 1
      BY <2>2 DEF ReleaseCount
    <3>2. Relays!Give(j)
      BY <2>2, <2>t, <3>1, HolderLeaves DEF Relays!Give, Holders
    <3> QED BY <3>2 DEF Relays!SemNext
  <2>3. ASSUME NEW j \in Jobs, Stays(j) PROVE Holders' = Holders /\ relayCount' = relayCount
    BY <2>3, <2>t, HoldersStay
  <2>4. CASE Others
    BY <2>4, OthersKeepHolders
  <2>5. CASE UNCHANGED relayVars
    BY <2>5 DEF relayVars, jobVars, Holders
  <2> QED BY <2>1, <2>2, <2>3, <2>4, <2>5, NextSplits
<1> QED BY <1>1, <1>2, RelayInvariant, PTL DEF RelaySpec, RelayLimit, Relays!SemSpec, Relays!sem, Holders
=============================================================================
