----------------------------- MODULE AsyncRelay -----------------------------
(***************************************************************************)
(* async_proxy.c: a non-blocking connect() of the app is answered at once  *)
(* with one end of a loopback connection, and a detached worker connects   *)
(* through the proxy chain and pumps between the other end (the peer) and  *)
(* the upstream.  A counter bounds the workers, a registry of peers lets   *)
(* lcproxy_async_close_all wake them.                                      *)
(*                                                                         *)
(* A job is one call of lcproxy_async_connect_start with the worker it     *)
(* starts.  Descriptor numbers are reused by the whole app, so `holder`    *)
(* says who has each of them.  What the pump carries is in Tunnel.         *)
(***************************************************************************)
EXTENDS Naturals, FiniteSets

CONSTANTS
  Jobs,       \* calls that can be under way
  RelayFds,   \* descriptor numbers
  NoRelayFd,  \* -1
  MaxRelays   \* LC_ASYNC_MAX_RELAY_THREADS

ASSUME RelayAssumption ==
  /\ IsFiniteSet(Jobs)
  /\ MaxRelays \in Nat \ {0}
  /\ NoRelayFd \notin RelayFds
  /\ Jobs \cap {"free", "app"} = {}

VARIABLES
  relayCount,  \* g_lc_async_relay_count
  registry,    \* g_lc_async_peer_fds
  sweeping,    \* close_all holds g_lc_async_peer_lock
  todo,        \* descriptors its loop has yet to shut down
  place,       \* where each job is
  seen,        \* `cur` of each compare-and-swap loop
  peer, up,    \* descriptors of each job
  open,        \* up_open and peer_open of each pump
  sending,     \* the end its write_all writes to, "none" at its poll
  holder,      \* who has each descriptor number
  shut         \* open descriptors on which shutdown() has been called

registryVars == <<registry, sweeping, todo>>
jobVars == <<place, seen, peer, up, open, sending>>
fdVars == <<holder, shut>>
relayVars == <<relayCount, registryVars, jobVars, fdVars>>

Places ==
  {"idle", "swap", "pair", "register", "spawn", "socket", "chain", "pump",
   "closeUp", "unregister", "closePeer", "release"}

(* Places between the increment and the decrement of the counter, and      *)
(* between the registration of the peer and its removal.                   *)
Counted == Places \ {"idle", "swap"}
Listed == {"spawn", "socket", "chain", "pump", "closeUp", "unregister"}
Dialling == {"chain", "pump", "closeUp"}

At(j, p) == place[j] = p
Goes(j, p) == place' = [place EXCEPT ![j] = p]

OpenedBy(j, f) == holder[f] = "free" /\ holder' = [holder EXCEPT ![f] = j] /\ UNCHANGED shut
ClosedFd(f) == holder' = [holder EXCEPT ![f] = "free"] /\ shut' = shut \ {f}

-----------------------------------------------------------------------------
(* lc_async_relay_try_acquire *)

LoadCount(j) ==
  /\ At(j, "idle")
  /\ seen' = [seen EXCEPT ![j] = relayCount]
  /\ Goes(j, "swap")
  /\ UNCHANGED <<relayCount, registryVars, peer, up, open, sending, fdVars>>

(* Variant: the limit is tested, and the counter then incremented whatever *)
(* its value has become.                                                   *)
BlindSwap(j) ==
  /\ At(j, "swap") /\ seen[j] < MaxRelays
  /\ relayCount' = relayCount + 1
  /\ Goes(j, "pair")
  /\ UNCHANGED <<registryVars, seen, peer, up, open, sending, fdVars>>

SwapSucceeds(j) ==
  /\ At(j, "swap") /\ seen[j] < MaxRelays
  /\ relayCount = seen[j]
  /\ relayCount' = relayCount + 1
  /\ Goes(j, "pair")
  /\ UNCHANGED <<registryVars, seen, peer, up, open, sending, fdVars>>

(* A failed exchange stores the present value in `cur`.                    *)
SwapFails(j) ==
  /\ At(j, "swap") /\ seen[j] < MaxRelays
  /\ relayCount # seen[j]
  /\ seen' = [seen EXCEPT ![j] = relayCount]
  /\ UNCHANGED <<relayCount, registryVars, place, peer, up, open, sending, fdVars>>

(* The caller falls back to connecting synchronously.                      *)
Full(j) ==
  /\ At(j, "swap") /\ seen[j] >= MaxRelays
  /\ Goes(j, "idle")
  /\ UNCHANGED <<relayCount, registryVars, seen, peer, up, open, sending, fdVars>>

-----------------------------------------------------------------------------
(* lcproxy_async_connect_start after the acquisition *)

(* make_local_tcp_pair: the listener is opened and closed within it.       *)
PairMade(j) ==
  /\ At(j, "pair")
  /\ \E f \in RelayFds : OpenedBy(j, f) /\ peer' = [peer EXCEPT ![j] = f]
  /\ Goes(j, "register")
  /\ UNCHANGED <<relayCount, registryVars, seen, up, open, sending>>

PairFails(j) ==
  /\ At(j, "pair")
  /\ Goes(j, "release")
  /\ UNCHANGED <<relayCount, registryVars, seen, peer, up, open, sending, fdVars>>

(* lc_async_peer_register, under the lock close_all holds for its loop.    *)
Register(j) ==
  /\ At(j, "register") /\ ~sweeping
  /\ LET fits == Cardinality(registry) < MaxRelays IN
       /\ registry' = IF fits THEN registry \cup {peer[j]} ELSE registry
       /\ Goes(j, IF fits THEN "spawn" ELSE "closePeer")
  /\ UNCHANGED <<relayCount, sweeping, todo, seen, peer, up, open, sending, fdVars>>

CallocFails(j) ==
  /\ At(j, "register")
  /\ Goes(j, "closePeer")
  /\ UNCHANGED <<relayCount, registryVars, seen, peer, up, open, sending, fdVars>>

Spawned(j) ==
  /\ At(j, "spawn")
  /\ Goes(j, "socket")
  /\ UNCHANGED <<relayCount, registryVars, seen, peer, up, open, sending, fdVars>>

(* Variant: the failed thread creation leaves the peer registered.         *)
SpawnLeavesPeer(j) ==
  /\ At(j, "spawn")
  /\ Goes(j, "closePeer")
  /\ UNCHANGED <<relayCount, registryVars, seen, peer, up, open, sending, fdVars>>

(* pthread_create fails: unregister, close and release, as a worker ends.  *)
NotSpawned(j) ==
  /\ At(j, "spawn")
  /\ Goes(j, "unregister")
  /\ UNCHANGED <<relayCount, registryVars, seen, peer, up, open, sending, fdVars>>

-----------------------------------------------------------------------------
(* relay_worker *)

SocketMade(j) ==
  /\ At(j, "socket")
  /\ \E f \in RelayFds : OpenedBy(j, f) /\ up' = [up EXCEPT ![j] = f]
  /\ Goes(j, "chain")
  /\ UNCHANGED <<relayCount, registryVars, seen, peer, open, sending>>

SocketFails(j) ==
  /\ At(j, "socket")
  /\ Goes(j, "unregister")
  /\ UNCHANGED <<relayCount, registryVars, seen, peer, up, open, sending, fdVars>>

(* connect_proxy_chain over a copy of the chain; its steps have timeouts.  *)
ChainConnects(j) ==
  /\ At(j, "chain")
  /\ open' = [open EXCEPT ![j] = {"up", "peer"}]
  /\ Goes(j, "pump")
  /\ UNCHANGED <<relayCount, registryVars, seen, peer, up, sending, fdVars>>

ChainFails(j) ==
  /\ At(j, "chain")
  /\ Goes(j, "closeUp")
  /\ UNCHANGED <<relayCount, registryVars, seen, peer, up, open, sending, fdVars>>

(* pump_bidirectional, at its poll: an end that reads EOF or an error      *)
(* stops being read and the other one is shut down for writing.            *)
PeerEnds(j) ==
  /\ At(j, "pump") /\ sending[j] = "none" /\ "peer" \in open[j]
  /\ open' = [open EXCEPT ![j] = @ \ {"peer"}]
  /\ UNCHANGED <<relayCount, registryVars, place, seen, peer, up, sending, fdVars>>

UpstreamEnds(j) ==
  /\ At(j, "pump") /\ sending[j] = "none" /\ "up" \in open[j]
  /\ open' = [open EXCEPT ![j] = @ \ {"up"}]
  /\ UNCHANGED <<relayCount, registryVars, place, seen, peer, up, sending, fdVars>>

(* What an end sent is read, and write_all to the other end begins.  A     *)
(* peer that was shut down has nothing to read but EOF.                    *)
PeerSends(j) ==
  /\ At(j, "pump") /\ sending[j] = "none" /\ "peer" \in open[j] /\ peer[j] \notin shut
  /\ sending' = [sending EXCEPT ![j] = "up"]
  /\ UNCHANGED <<relayCount, registryVars, place, seen, peer, up, open, fdVars>>

UpstreamSends(j) ==
  /\ At(j, "pump") /\ sending[j] = "none" /\ "up" \in open[j]
  /\ sending' = [sending EXCEPT ![j] = "peer"]
  /\ UNCHANGED <<relayCount, registryVars, place, seen, peer, up, open, fdVars>>

(* The socket took all of it.  One that was shut down takes nothing, and   *)
(* one whose reader has stopped takes nothing either: send() has no limit. *)
WriteDone(j) ==
  /\ At(j, "pump") /\ sending[j] # "none"
  /\ sending[j] = "peer" => peer[j] \notin shut
  /\ sending' = [sending EXCEPT ![j] = "none"]
  /\ UNCHANGED <<relayCount, registryVars, place, seen, peer, up, open, fdVars>>

(* A write fails, or at the poll: it fails, nothing was read for           *)
(* max_idle_sec, or both ends are done.  Both descriptors are shut down.   *)
PumpReturns(j) ==
  /\ At(j, "pump")
  /\ open' = [open EXCEPT ![j] = {}]
  /\ sending' = [sending EXCEPT ![j] = "none"]
  /\ shut' = shut \cup {up[j], peer[j]}
  /\ Goes(j, "closeUp")
  /\ UNCHANGED <<relayCount, registryVars, seen, peer, up, holder>>

CloseUp(j) ==
  /\ At(j, "closeUp")
  /\ ClosedFd(up[j])
  /\ up' = [up EXCEPT ![j] = NoRelayFd]
  /\ Goes(j, "unregister")
  /\ UNCHANGED <<relayCount, registryVars, seen, peer, open, sending>>

(* Variant: the removal does not take the lock.                            *)
UnregisterUnlocked(j) ==
  /\ At(j, "unregister")
  /\ registry' = registry \ {peer[j]}
  /\ Goes(j, "closePeer")
  /\ UNCHANGED <<relayCount, sweeping, todo, seen, peer, up, open, sending, fdVars>>

Unregister(j) ==
  /\ At(j, "unregister") /\ ~sweeping
  /\ registry' = registry \ {peer[j]}
  /\ Goes(j, "closePeer")
  /\ UNCHANGED <<relayCount, sweeping, todo, seen, peer, up, open, sending, fdVars>>

ClosePeer(j) ==
  /\ At(j, "closePeer")
  /\ ClosedFd(peer[j])
  /\ peer' = [peer EXCEPT ![j] = NoRelayFd]
  /\ Goes(j, "release")
  /\ UNCHANGED <<relayCount, registryVars, seen, up, open, sending>>

(* Variant: a worker whose thread was not created releases the place, and  *)
(* its caller does so again.                                               *)
ReleaseTwice(j) ==
  /\ At(j, "release")
  /\ relayCount' \in {relayCount - 1, relayCount - 2}
  /\ Goes(j, "idle")
  /\ UNCHANGED <<registryVars, seen, peer, up, open, sending, fdVars>>

ReleaseCount(j) ==
  /\ At(j, "release")
  /\ relayCount' = relayCount - 1
  /\ Goes(j, "idle")
  /\ UNCHANGED <<registryVars, seen, peer, up, open, sending, fdVars>>

-----------------------------------------------------------------------------
(* lcproxy_async_close_all, called by the runtime queue before a recovery  *)

CloseAllBegins ==
  /\ ~sweeping
  /\ sweeping' = TRUE /\ todo' = registry
  /\ UNCHANGED <<relayCount, registry, jobVars, fdVars>>

CloseAllStep ==
  /\ \E f \in todo :
       /\ todo' = todo \ {f}
       /\ shut' = IF holder[f] = "free" THEN shut ELSE shut \cup {f}
  /\ UNCHANGED <<relayCount, registry, sweeping, jobVars, holder>>

\* Variant: the loop ends in a return, with the lock held.
CloseAllKeepsLock ==
  /\ sweeping /\ todo = {}
  /\ UNCHANGED <<relayCount, registryVars, jobVars, fdVars>>

CloseAllEnds ==
  /\ sweeping /\ todo = {}
  /\ sweeping' = FALSE
  /\ UNCHANGED <<relayCount, registry, todo, jobVars, fdVars>>

(* The rest of the app opens and closes descriptors of its own.            *)
AppOpens ==
  /\ \E f \in RelayFds : holder[f] = "free" /\ holder' = [holder EXCEPT ![f] = "app"]
  /\ UNCHANGED <<relayCount, registryVars, jobVars, shut>>

AppCloses ==
  /\ \E f \in RelayFds : holder[f] = "app" /\ ClosedFd(f)
  /\ UNCHANGED <<relayCount, registryVars, jobVars>>

-----------------------------------------------------------------------------
RelayInit ==
  /\ relayCount = 0
  /\ registry = {} /\ sweeping = FALSE /\ todo = {}
  /\ place = [j \in Jobs |-> "idle"]
  /\ seen = [j \in Jobs |-> 0]
  /\ peer = [j \in Jobs |-> NoRelayFd]
  /\ up = [j \in Jobs |-> NoRelayFd]
  /\ open = [j \in Jobs |-> {}]
  /\ sending = [j \in Jobs |-> "none"]
  /\ holder = [f \in RelayFds |-> "free"]
  /\ shut = {}

Acquire(j) == LoadCount(j) \/ SwapSucceeds(j) \/ SwapFails(j) \/ Full(j)

Start(j) ==
  \/ PairMade(j) \/ PairFails(j)
  \/ Register(j) \/ CallocFails(j)
  \/ Spawned(j) \/ NotSpawned(j)

Works(j) ==
  \/ SocketMade(j) \/ SocketFails(j)
  \/ ChainConnects(j) \/ ChainFails(j)
  \/ CloseUp(j) \/ Unregister(j) \/ ClosePeer(j) \/ ReleaseCount(j)

Pumps(j) ==
  \/ PeerEnds(j) \/ UpstreamEnds(j)
  \/ PeerSends(j) \/ UpstreamSends(j) \/ WriteDone(j)
  \/ PumpReturns(j)

CloseAll == CloseAllBegins \/ CloseAllStep \/ CloseAllEnds

RelayNext ==
  \/ \E j \in Jobs : Acquire(j) \/ Start(j) \/ Works(j) \/ Pumps(j)
  \/ CloseAll
  \/ AppOpens
  \/ AppCloses

RelaySpec == RelayInit /\ [][RelayNext]_relayVars

(* A relay that has traffic may last for ever.  Once its peer is shut down *)
(* the pump reads EOF from it and a write to it fails, and from then on    *)
(* silence of the upstream ends in the idle limit and data from it in a    *)
(* failed write.  That holds of a pump at its poll or in a write to the    *)
(* peer: nothing is assumed of a write to the upstream, which goes on only *)
(* if the upstream reads or goes away.                                     *)
PumpWoken(j) == peer[j] \in shut /\ sending[j] # "up" /\ Pumps(j)

(* close_all runs once per recovery, so a worker that waits for the lock   *)
(* gets it in the end: strong fairness of the worker's own steps.          *)
RelayFairness ==
  /\ WF_relayVars(CloseAllStep \/ CloseAllEnds)
  /\ \A j \in Jobs : SF_relayVars(Start(j) \/ Works(j)) /\ WF_relayVars(PumpWoken(j))

RelayFair == RelaySpec /\ RelayFairness

-----------------------------------------------------------------------------
(* Properties *)

\* Every variable keeps the type of its counterpart in async_proxy.c.
RelayTypeOK ==
  /\ relayCount \in 0..MaxRelays
  /\ registry \subseteq RelayFds /\ todo \subseteq RelayFds
  /\ sweeping \in BOOLEAN
  /\ place \in [Jobs -> Places]
  /\ seen \in [Jobs -> 0..MaxRelays]
  /\ peer \in [Jobs -> RelayFds \cup {NoRelayFd}]
  /\ up \in [Jobs -> RelayFds \cup {NoRelayFd}]
  /\ open \in [Jobs -> SUBSET {"up", "peer"}]
  /\ sending \in [Jobs -> {"none", "up", "peer"}]
  /\ holder \in [RelayFds -> Jobs \cup {"free", "app"}]
  /\ shut \subseteq RelayFds

\* Whatever step fails, a call and its worker give back what they took: the
\* jobs that have not released the counter hold the descriptors, and a peer
\* is registered exactly while close_all may shut it down.  Registration
\* therefore never finds the registry full (the branch at line 323).
RelaysAccounted ==
  /\ registry = {peer[j] : j \in {i \in Jobs : place[i] \in Listed}}
  /\ \A f \in RelayFds : holder[f] \in Jobs =>
       LET j == holder[f] IN
         \/ f = peer[j] /\ place[j] \in Listed \cup {"register", "closePeer"}
         \/ f = up[j] /\ place[j] \in Dialling
  /\ \A j \in Jobs : At(j, "register") => Cardinality(registry) < MaxRelays

\* "Holding the registry lock across shutdown prevents [the worker] from
\* unregistering and closing this fd until shutdown returns, so an unrelated
\* reused descriptor cannot be affected": close_all and the pumps shut down
\* only descriptors that relays own at that moment.
OwnShutdownsOnly ==
  [][\A f \in shut' \ shut : holder[f] \in Jobs]_relayVars

\* The compare-and-swap loop and its releases implement a bounded number of
\* holders: the counter never exceeds the limit and moves exactly when a job
\* begins or ends holding.
Relays == INSTANCE Semaphore WITH
  Clients <- Jobs, Limit <- MaxRelays,
  holders <- {j \in Jobs : place[j] \in Counted}, room <- MaxRelays - relayCount

RelayLimit == Relays!SemSpec

\* "Kill every old-generation relay before rebuilding the forwarder"
\* (LCProxyConfig.m:572).  A relay whose peer close_all has shut down ends and
\* gives back its thread, wherever the call found it: before the worker runs,
\* while it dials, between two reads or in a write.  "Every" is too much said:
\* close_all does not touch the upstream, and one that neither reads nor goes
\* away while the pump writes to it keeps the relay for ever.
SweptRelaysEnd ==
  \A j \in Jobs :
    []<>(sending[j] # "up") =>
      ((place[j] \in Listed /\ peer[j] \in shut) ~> At(j, "idle"))
=============================================================================
