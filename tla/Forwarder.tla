------------------------------ MODULE Forwarder ------------------------------
(***************************************************************************)
(* The local forwarder of KPKIngCore.c as a set of threads and socket      *)
(* descriptors: one accept thread, one detached worker thread per client,  *)
(* the owner that starts, stops and frees the forwarder, the callers in    *)
(* LCProxyKing.m that pin it, and the rest of the host app, which opens    *)
(* and closes descriptors of its own in the same process.                  *)
(*                                                                         *)
(* Descriptor numbers are a small shared table: a number closed by one     *)
(* thread may be handed to another at once, which is what makes the two    *)
(* registries (client_fds, upstream_fds) delicate.  What travels through a *)
(* socket is abstracted away; which thread blocks on which descriptor, and *)
(* what wakes it, is kept.                                                 *)
(***************************************************************************)
EXTENDS Integers, FiniteSets

CONSTANTS
  Workers,       \* identities of worker threads, reused once a worker has exited
  FDs,           \* descriptor numbers of the process
  Outside,       \* threads that pin the forwarder through selfCheck
  GuidFetchers,  \* threads that run syncFetchGuid
  MaxClients,    \* KP_FORWARDER_MAX_CLIENTS
  MaxTries,      \* bound on the upstream connections one request tries
  NoFd,          \* -1
  NoWorker       \* "no worker": the second half of a holder that is not a worker

ASSUME MaxClientsAssumption == MaxClients \in Nat \ {0}
ASSUME MaxTriesAssumption   == MaxTries \in Nat
ASSUME WorkersAssumption    == IsFiniteSet(Workers)
ASSUME NoFdAssumption       == NoFd \notin FDs
ASSUME NoWorkerAssumption   == NoWorker \notin Workers
ASSUME CallersAssumption    == /\ Outside \cap GuidFetchers = {}
                               /\ IsFiniteSet(Outside \cup GuidFetchers)

VARIABLES
  owner,          \* who holds each descriptor number
  shut,           \* open descriptors on which shutdown() has been called
  running,        \* fw->running
  listenFd,       \* fw->listen_fd is a descriptor, not -1
  accPc,          \* where the accept thread is
  accFd,          \* the descriptor accept() returned
  accWorker,      \* the worker the accept thread is about to spawn
  pc,             \* where each worker thread is
  clientFd,       \* the client descriptor of a worker, its argument ca->fd
  upFd,           \* the upstream descriptor of a worker
  tries,          \* upstream connections this request has tried
  activeClients,  \* fw->active_clients
  clientFds,      \* fw->client_fds, by the worker each entry was made for
  upstreamFds,    \* fw->upstream_fds, by the worker that registered each entry
  retained,       \* fw->retained_clients
  callerPc,       \* where each caller outside the worker threads is
  own,            \* where the owner is in the life of the forwarder
  call            \* the call the owner is in: kp_forwarder_stop or _free

fdVars     == <<owner, shut>>
acceptVars == <<accPc, accFd, accWorker>>
workerVars == <<pc, clientFd, upFd, tries>>
slotVars   == <<activeClients, clientFds>>
ownerVars  == <<running, listenFd, own, call>>
pinVars    == <<retained, callerPc>>
vars == <<fdVars, acceptVars, workerVars, slotVars, upstreamFds, ownerVars, pinVars>>

-----------------------------------------------------------------------------
(* Descriptor numbers.                                                     *)

Free        == <<"free", NoWorker>>
Foreign     == <<"foreign", NoWorker>>
Acceptor    == <<"acceptor", NoWorker>>
ClientOf(w) == <<"client", w>>
UpOf(w)     == <<"upstream", w>>

Holders == {Free, Foreign, Acceptor} \cup {ClientOf(w) : w \in Workers}
                                     \cup {UpOf(w) : w \in Workers}

\* socket(), accept(): the kernel hands out any free number.
OpenFd(f, h) ==
  /\ owner[f] = Free
  /\ owner' = [owner EXCEPT ![f] = h]
  /\ UNCHANGED shut

CloseFd(f) ==
  /\ owner' = [owner EXCEPT ![f] = Free]
  /\ shut' = shut \ {f}

\* Variant: stop wakes the client side only, as it once did.
SweptClientsOnly ==
  {f \in {clientFd[w] : w \in clientFds} : f \in FDs /\ owner[f] # Free}

\* The descriptors a sweep of both registries calls shutdown() on.  A stale
\* entry names a number that may be closed or may belong to somebody else.
Swept == {f \in {clientFd[w] : w \in clientFds} \cup {upFd[w] : w \in upstreamFds} :
             f \in FDs /\ owner[f] # Free}

\* Any other code in the host app opens and closes sockets of its own.
ForeignOpen(f) ==
  /\ OpenFd(f, Foreign)
  /\ UNCHANGED <<acceptVars, workerVars, slotVars, upstreamFds, ownerVars, pinVars>>

ForeignClose(f) ==
  /\ owner[f] = Foreign
  /\ CloseFd(f)
  /\ UNCHANGED <<acceptVars, workerVars, slotVars, upstreamFds, ownerVars, pinVars>>

-----------------------------------------------------------------------------
(* The accept thread: kp_forwarder_run.                                    *)

\* Variant: the accept loop does not look at running again.
LoopTopBlind ==
  /\ accPc = "loop"
  /\ accPc' = "poll"
  /\ UNCHANGED <<fdVars, accFd, accWorker, workerVars, slotVars, upstreamFds, ownerVars, pinVars>>

\* The top of the loop: running and listen_fd are read again every 500 ms.
LoopTop ==
  /\ accPc = "loop"
  /\ accPc' = IF running /\ listenFd THEN "poll" ELSE "exited"
  /\ UNCHANGED <<fdVars, accFd, accWorker, workerVars, slotVars, upstreamFds, ownerVars, pinVars>>

\* poll() times out or accept() fails; a failed accept() looks at running.
PollAgain ==
  /\ accPc = "poll"
  /\ accPc' \in {"loop"} \cup (IF running THEN {} ELSE {"exited"})
  /\ UNCHANGED <<fdVars, accFd, accWorker, workerVars, slotVars, upstreamFds, ownerVars, pinVars>>

\* accept() succeeds, possibly after stop has cleared running.
Accept(f) ==
  /\ accPc = "poll"
  /\ OpenFd(f, Acceptor)
  /\ accFd' = f
  /\ accPc' = "accepted"
  /\ UNCHANGED <<accWorker, workerVars, slotVars, upstreamFds, ownerVars, pinVars>>

OverLimit ==
  \/ ~running
  \/ activeClients >= MaxClients
  \/ Cardinality(clientFds) >= MaxClients

\* The 503 branch; the connection never entered the registry.
Reject ==
  /\ accPc = "accepted"
  /\ OverLimit
  /\ accPc' = "closing"
  /\ UNCHANGED <<fdVars, accFd, accWorker, workerVars, slotVars, upstreamFds, ownerVars, pinVars>>

\* Under client_lock: take a slot and register the descriptor.
Register(w) ==
  /\ accPc = "accepted"
  /\ ~OverLimit
  /\ pc[w] = "idle"
  /\ activeClients' = activeClients + 1
  /\ clientFds' = clientFds \cup {w}
  /\ clientFd' = [clientFd EXCEPT ![w] = accFd]
  /\ accWorker' = w
  /\ accPc' = "spawn"
  /\ UNCHANGED <<fdVars, accFd, pc, upFd, tries, upstreamFds, ownerVars, pinVars>>

Spawn ==
  /\ accPc = "spawn"
  /\ pc' = [pc EXCEPT ![accWorker] = "head"]
  /\ tries' = [tries EXCEPT ![accWorker] = 0]
  /\ owner' = [owner EXCEPT ![accFd] = ClientOf(accWorker)]
  /\ accPc' = "loop"
  /\ accFd' = NoFd
  /\ accWorker' = NoWorker
  /\ UNCHANGED <<shut, clientFd, upFd, slotVars, upstreamFds, ownerVars, pinVars>>

\* Variant: the failure path forgets to give the slot back.
SpawnFailsKeepsSlot ==
  /\ accPc = "spawn"
  /\ clientFds' = clientFds \ {accWorker}
  /\ clientFd' = [clientFd EXCEPT ![accWorker] = NoFd]
  /\ accPc' = "closing"
  /\ accWorker' = NoWorker
  /\ UNCHANGED <<fdVars, accFd, pc, upFd, tries, activeClients, upstreamFds, ownerVars, pinVars>>

\* malloc or pthread_create fails: the slot is given back under the lock, and
\* the descriptor is closed only after it has left the registry.
SpawnFails ==
  /\ accPc = "spawn"
  /\ activeClients' = activeClients - 1
  /\ clientFds' = clientFds \ {accWorker}
  /\ clientFd' = [clientFd EXCEPT ![accWorker] = NoFd]
  /\ accPc' = "closing"
  /\ accWorker' = NoWorker
  /\ UNCHANGED <<fdVars, accFd, pc, upFd, tries, upstreamFds, ownerVars, pinVars>>

AcceptClose ==
  /\ accPc = "closing"
  /\ CloseFd(accFd)
  /\ accFd' = NoFd
  /\ accPc' = "loop"
  /\ UNCHANGED <<accWorker, workerVars, slotVars, upstreamFds, ownerVars, pinVars>>

-----------------------------------------------------------------------------
(* A worker thread: kp_client_thread and the parts of kp_handle_client that *)
(* open, register, wait on and close descriptors.                          *)

WorkerStays == UNCHANGED <<acceptVars, ownerVars, pinVars>>

\* recv() of the request head returns: a request that needs an upstream, or an
\* error, an end of file or a request answered at once (400, 407).
ReadHead(w) ==
  /\ pc[w] = "head"
  /\ \E next \in {"pick", "finish"} : pc' = [pc EXCEPT ![w] = next]
  /\ UNCHANGED <<fdVars, clientFd, upFd, tries, slotVars, upstreamFds>>
  /\ WorkerStays

\* kp_connect_host for the next node of the pool, a loopback host or a direct
\* fallback.  The new descriptor is not registered while it is connecting.
Dial(w, f) ==
  /\ pc[w] = "pick"
  /\ tries[w] < MaxTries
  /\ OpenFd(f, UpOf(w))
  /\ upFd' = [upFd EXCEPT ![w] = f]
  /\ tries' = [tries EXCEPT ![w] = @ + 1]
  /\ pc' = [pc EXCEPT ![w] = "dialing"]
  /\ UNCHANGED <<clientFd, slotVars, upstreamFds>>
  /\ WorkerStays

\* The pool is empty or exhausted, or socket() failed on every node: 502.
NoMoreNodes(w) ==
  /\ pc[w] = "pick"
  /\ pc' = [pc EXCEPT ![w] = "finish"]
  /\ UNCHANGED <<fdVars, clientFd, upFd, tries, slotVars, upstreamFds>>
  /\ WorkerStays

DialDone(w) ==
  /\ pc[w] = "dialing"
  /\ pc' = [pc EXCEPT ![w] = "track"]
  /\ UNCHANGED <<fdVars, clientFd, upFd, tries, slotVars, upstreamFds>>
  /\ WorkerStays

\* Refused, unreachable or timed out: the loop goes on to the next node.
DialFails(w) ==
  /\ pc[w] = "dialing"
  /\ CloseFd(upFd[w])
  /\ upFd' = [upFd EXCEPT ![w] = NoFd]
  /\ pc' = [pc EXCEPT ![w] = "pick"]
  /\ UNCHANGED <<clientFd, tries, slotVars, upstreamFds>>
  /\ WorkerStays

\* Variant: a connection made during stop is registered behind the sweep.
MayTrackStopped == Cardinality(upstreamFds) < MaxClients

MayTrack == running /\ Cardinality(upstreamFds) < MaxClients

\* kp_forwarder_track_upstream accepts, under client_lock.
Track(w) ==
  /\ pc[w] = "track"
  /\ MayTrack
  /\ upstreamFds' = upstreamFds \cup {w}
  /\ pc' = [pc EXCEPT ![w] = "io"]
  /\ UNCHANGED <<fdVars, clientFd, upFd, tries, slotVars>>
  /\ WorkerStays

\* ... or refuses, and kp_up_open closes the connection it has just made.
TrackRefused(w) ==
  /\ pc[w] = "track"
  /\ ~MayTrack
  /\ CloseFd(upFd[w])
  /\ upFd' = [upFd EXCEPT ![w] = NoFd]
  /\ pc' = [pc EXCEPT ![w] = "pick"]
  /\ UNCHANGED <<clientFd, tries, slotVars, upstreamFds>>
  /\ WorkerStays

\* The exchange over the upstream ends: a response, an error, a timeout, the
\* end of the tunnel, or a shutdown() of both descriptors by a sweep.
IoDone(w) ==
  /\ pc[w] = "io"
  /\ pc' = [pc EXCEPT ![w] = "hangup"]
  /\ UNCHANGED <<fdVars, clientFd, upFd, tries, slotVars, upstreamFds>>
  /\ WorkerStays

\* Variant: the descriptor is closed while its entry stays in upstream_fds.
CloseUpstreamKeepsEntry(w) ==
  /\ pc[w] = "hangup"
  /\ CloseFd(upFd[w])
  /\ upFd' = [upFd EXCEPT ![w] = NoFd]
  /\ \E next \in {"pick", "finish"} : pc' = [pc EXCEPT ![w] = next]
  /\ UNCHANGED <<clientFd, tries, slotVars, upstreamFds>>
  /\ WorkerStays

\* kp_upstream_close: unregister and close in one critical section.  The
\* request is over, or the node failed it and the next one is tried.
CloseUpstream(w) ==
  /\ pc[w] = "hangup"
  /\ upstreamFds' = upstreamFds \ {w}
  /\ CloseFd(upFd[w])
  /\ upFd' = [upFd EXCEPT ![w] = NoFd]
  /\ \E next \in {"pick", "finish"} : pc' = [pc EXCEPT ![w] = next]
  /\ UNCHANGED <<clientFd, tries, slotVars>>
  /\ WorkerStays

\* kp_handle_client closes the client before it returns, without client_lock:
\* the entry of the worker is still in client_fds.
CloseClient(w) ==
  /\ pc[w] = "finish"
  /\ CloseFd(clientFd[w])
  /\ pc' = [pc EXCEPT ![w] = "closed"]
  /\ UNCHANGED <<clientFd, upFd, tries, slotVars, upstreamFds>>
  /\ WorkerStays

\* The end of kp_client_thread, under client_lock.
Unregister(w) ==
  /\ pc[w] = "closed"
  /\ clientFds' = clientFds \ {w}
  /\ activeClients' = IF activeClients > 0 THEN activeClients - 1 ELSE activeClients
  /\ clientFd' = [clientFd EXCEPT ![w] = NoFd]
  /\ pc' = [pc EXCEPT ![w] = "idle"]
  /\ UNCHANGED <<fdVars, upFd, tries, upstreamFds>>
  /\ WorkerStays

-----------------------------------------------------------------------------
(* Callers that use the forwarder from outside its threads.                *)

CallerStays == UNCHANGED <<fdVars, acceptVars, workerVars, slotVars, upstreamFds, ownerVars>>

Goes(p, from, to) ==
  /\ callerPc[p] = from
  /\ callerPc' = [callerPc EXCEPT ![p] = to]

\* kp_forwarder_retain through the pointer self.forwarder, which the owner
\* installs and clears under the lock the caller holds here.
Retain(p) ==
  /\ own = "attached"
  /\ running
  /\ Goes(p, "out", "pinned")
  /\ retained' = retained + 1
  /\ CallerStays

\* Variant: the count of pins may pass below zero.
DropPinUnguarded == retained' = retained - 1

\* kp_forwarder_release.
DropPin == retained' = IF retained > 0 THEN retained - 1 ELSE 0

Release(p) ==
  /\ Goes(p, "pinned", "out")
  /\ DropPin
  /\ CallerStays

\* syncFetchGuid finds the route unpublished, or the socket not listening, or
\* the retain refused: it keeps the pointer it has read ...
FetchGuidUnpublished(p) ==
  /\ p \in GuidFetchers
  /\ own = "attached"
  /\ Goes(p, "out", "unpublished")
  /\ UNCHANGED retained
  /\ CallerStays

\* ... and, once self.lock is released, calls kp_forwarder_release all the same.
FetchGuidGivesUp(p) ==
  /\ Goes(p, "unpublished", "out")
  /\ DropPin
  /\ CallerStays

-----------------------------------------------------------------------------
(* The owner: kp_forwarder_start, _shutdown_clients, _stop and _free, and   *)
(* the order LCProxyKing calls them in.                                    *)

OwnerStays == UNCHANGED <<workerVars, slotVars, upstreamFds, pinVars>>

\* kp_forwarder_start: listen, publish listen_fd and running ...
StartListening ==
  /\ own = "new"
  /\ listenFd' = TRUE
  /\ running' = TRUE
  /\ own' = "bound"
  /\ UNCHANGED <<call, fdVars, acceptVars>>
  /\ OwnerStays

\* ... then create the accept thread, or undo both if that fails.
StartAccepting ==
  /\ own = "bound"
  /\ \/ /\ accPc' = "loop"
        /\ own' = "started"
        /\ UNCHANGED <<running, listenFd>>
     \/ /\ running' = FALSE
        /\ listenFd' = FALSE
        /\ own' = "startFailed"
        /\ UNCHANGED accPc
  /\ UNCHANGED <<call, fdVars, accFd, accWorker>>
  /\ OwnerStays

\* The result of a successful start is installed in self.forwarder ...
Attach ==
  /\ own = "started"
  /\ own' = "attached"
  /\ UNCHANGED <<running, listenFd, call, fdVars, acceptVars>>
  /\ OwnerStays

\* ... and taken out of it before it is stopped.
Detach ==
  /\ own = "attached"
  /\ own' = "detached"
  /\ UNCHANGED <<running, listenFd, call, fdVars, acceptVars>>
  /\ OwnerStays

\* kp_forwarder_shutdown_clients, on a healthy forwarder that is kept.
ShutdownClients ==
  /\ own = "attached"
  /\ shut' = shut \cup Swept
  /\ UNCHANGED <<owner, acceptVars, ownerVars>>
  /\ OwnerStays

\* kp_forwarder_stop, first half: running, then listen_fd.  It is called on a
\* forwarder taken out of service or never put in it, and once more by
\* kp_forwarder_free, which is also what a failed start calls.
Stop ==
  /\ \/ own \in {"started", "detached"} /\ call' = "stop"
     \/ own \in {"stopped", "startFailed"} /\ call' = "free"
  /\ running' = FALSE
  /\ listenFd' = (listenFd /\ ~running)
  /\ own' = "join"
  /\ UNCHANGED <<fdVars, acceptVars>>
  /\ OwnerStays

\* pthread_join of the accept thread.
Join ==
  /\ own = "join"
  /\ accPc \in {"none", "exited"}
  /\ accPc' = "none"
  /\ own' = "sweep"
  /\ UNCHANGED <<running, listenFd, call, fdVars, accFd, accWorker>>
  /\ OwnerStays

\* Under client_lock, wake every thread blocked on a registered descriptor.
Sweep ==
  /\ own = "sweep"
  /\ shut' = shut \cup Swept
  /\ own' = "wait"
  /\ UNCHANGED <<owner, running, listenFd, call, acceptVars>>
  /\ OwnerStays

\* Variant: stop waits for the workers only.
DrainedOfWorkers == activeClients = 0

Drained == activeClients = 0 /\ retained = 0

\* The timed wait ends with nobody left; kp_forwarder_free frees.
WaitDrained ==
  /\ own = "wait"
  /\ Drained
  /\ own' = IF call = "free" THEN "freed" ELSE "stopped"
  /\ UNCHANGED <<running, listenFd, call, fdVars, acceptVars>>
  /\ OwnerStays

\* Variant: kp_forwarder_free ignores the result of stop.
WaitExpiresFrees ==
  /\ own = "wait"
  /\ ~Drained
  /\ own' = IF call = "free" THEN "freed" ELSE "stopped"
  /\ UNCHANGED <<running, listenFd, call, fdVars, acceptVars>>
  /\ OwnerStays

\* KP_FORWARDER_STOP_GRACE_MS expires; kp_forwarder_free leaks the forwarder.
WaitExpires ==
  /\ own = "wait"
  /\ ~Drained
  /\ own' = IF call = "free" THEN "leaked" ELSE "stopped"
  /\ UNCHANGED <<running, listenFd, call, fdVars, acceptVars>>
  /\ OwnerStays

-----------------------------------------------------------------------------
Init ==
  /\ owner = [f \in FDs |-> Free]
  /\ shut = {}
  /\ running = FALSE
  /\ listenFd = FALSE
  /\ accPc = "none"
  /\ accFd = NoFd
  /\ accWorker = NoWorker
  /\ pc = [w \in Workers |-> "idle"]
  /\ clientFd = [w \in Workers |-> NoFd]
  /\ upFd = [w \in Workers |-> NoFd]
  /\ tries = [w \in Workers |-> 0]
  /\ activeClients = 0
  /\ clientFds = {}
  /\ upstreamFds = {}
  /\ retained = 0
  /\ callerPc = [p \in Outside \cup GuidFetchers |-> "out"]
  /\ own = "new"
  /\ call = "none"

Host == \E f \in FDs : ForeignOpen(f) \/ ForeignClose(f)

AcceptThread ==
  \/ LoopTop
  \/ PollAgain
  \/ \E f \in FDs : Accept(f)
  \/ Reject
  \/ \E w \in Workers : Register(w)
  \/ Spawn
  \/ SpawnFails
  \/ AcceptClose

\* Steps a worker takes without waiting for a peer that may stay silent: a
\* connect is bounded by its timeout.
WorkerMoves(w) ==
  \/ \E f \in FDs : Dial(w, f)
  \/ NoMoreNodes(w)
  \/ DialDone(w)
  \/ DialFails(w)
  \/ Track(w)
  \/ TrackRefused(w)
  \/ CloseUpstream(w)
  \/ CloseClient(w)
  \/ Unregister(w)

Worker(w) == ReadHead(w) \/ IoDone(w) \/ WorkerMoves(w)

Caller(p) ==
  \/ Retain(p)
  \/ Release(p)
  \/ FetchGuidUnpublished(p)
  \/ FetchGuidGivesUp(p)

OwnerInStop == Join \/ Sweep \/ WaitDrained \/ WaitExpires

Owner ==
  \/ StartListening
  \/ StartAccepting
  \/ Attach
  \/ Detach
  \/ ShutdownClients
  \/ Stop
  \/ OwnerInStop

Next ==
  \/ Host
  \/ AcceptThread
  \/ \E w \in Workers : Worker(w)
  \/ \E p \in Outside \cup GuidFetchers : Caller(p)
  \/ Owner

Spec == Init /\ [][Next]_vars

\* What the threads are owed.  Nothing obliges a peer to send or the owner to
\* stop; a thread blocked on a descriptor is owed a step only once shutdown()
\* has been called on every descriptor it may be blocked on.
Woken(w) ==
  \/ ReadHead(w) /\ clientFd[w] \in shut
  \/ IoDone(w) /\ {upFd[w], clientFd[w]} \subseteq shut

Fairness ==
  /\ WF_vars(AcceptThread)
  /\ WF_vars(OwnerInStop)
  /\ WF_vars(own = "stopped" /\ Stop)
  /\ \A w \in Workers : WF_vars(WorkerMoves(w)) /\ WF_vars(Woken(w))

FairSpec == Spec /\ Fairness

-----------------------------------------------------------------------------
(* Properties.                                                             *)

AccPcs == {"none", "loop", "poll", "accepted", "spawn", "closing", "exited"}
Pcs    == {"idle", "head", "pick", "dialing", "track", "io", "hangup", "finish", "closed"}
Owns   == {"new", "bound", "startFailed", "started", "attached", "detached",
           "join", "sweep", "wait", "stopped", "freed", "leaked"}

\* Every variable of the forwarder stays within its type.
TypeOK ==
  /\ owner \in [FDs -> Holders]
  /\ shut \in SUBSET FDs
  /\ running \in BOOLEAN
  /\ listenFd \in BOOLEAN
  /\ accPc \in AccPcs
  /\ accFd \in FDs \cup {NoFd}
  /\ accWorker \in Workers \cup {NoWorker}
  /\ pc \in [Workers -> Pcs]
  /\ clientFd \in [Workers -> FDs \cup {NoFd}]
  /\ upFd \in [Workers -> FDs \cup {NoFd}]
  /\ tries \in [Workers -> 0 .. MaxTries]
  /\ activeClients \in Nat
  /\ clientFds \in SUBSET Workers
  /\ upstreamFds \in SUBSET Workers
  /\ retained \in Nat
  /\ callerPc \in [Outside \cup GuidFetchers -> {"out", "pinned", "unpublished"}]
  /\ own \in Owns
  /\ call \in {"none", "stop", "free"}

\* active_clients, client_fd_count and the worker threads agree at all times,
\* through every failure path of the accept thread, and never pass the limit.
SlotsMatchWorkers ==
  /\ clientFds = {w \in Workers : pc[w] # "idle"} \cup ({accWorker} \ {NoWorker})
  /\ activeClients = Cardinality(clientFds)
  /\ activeClients <= MaxClients

\* An entry of upstream_fds names an open descriptor of the worker that made
\* it, so a sweep never shuts down a socket that has reused the number.
UpstreamRegistryOwned ==
  \A w \in upstreamFds : upFd[w] \in FDs /\ owner[upFd[w]] = UpOf(w)

\* The first sweep of kp_forwarder_stop has run.
AfterSweep ==
  \/ own \in {"wait", "stopped", "freed", "leaked"}
  \/ call = "free" /\ own \in {"join", "sweep"}

\* After the sweep of kp_forwarder_stop, no thread is left blocked on a
\* descriptor nobody has shut down: the half-open upstream of
\* test_forwarder_stop.c cannot keep a worker for ever.
NobodyLeftBlocked ==
  AfterSweep =>
    \A w \in Workers :
      /\ pc[w] \in {"head", "io"} => clientFd[w] \in shut
      /\ pc[w] = "io" => upFd[w] \in shut

\* kp_forwarder_free gives the memory back only when no thread of the
\* forwarder can touch it any more.
FreedUnused ==
  own = "freed" => accPc = "none" /\ \A w \in Workers : pc[w] = "idle"

\* A worker that holds a slot finds room in upstream_fds, which has the same
\* limit: kp_up_open refuses a connection only because the forwarder stops.
UpstreamRoom ==
  \A w \in Workers : pc[w] = "track" => Cardinality(upstreamFds) < MaxClients

\* "A pinned forwarder is not freed by a concurrent lifecycle restart."
\* (KPKIngCore.h, kp_forwarder_retain.)
PinnedNotFreed ==
  own = "freed" => \A p \in Outside \cup GuidFetchers : callerPc[p] # "pinned"

\* shutdown() is called only on sockets of the forwarder, never on one that the
\* host app opened on a reused number (KPKIngCore.h: "worker threads remain the
\* sole close owner to avoid fd reuse races").
NoForeignShutdown == \A f \in shut : owner[f] # Foreign

\* Once stop has swept the registries nothing enters either of them again, by
\* the order running = 0, join, sweep.
NoLateRegistration ==
  [][AfterSweep => clientFds' \subseteq clientFds /\ upstreamFds' \subseteq upstreamFds]_vars

\* kp_forwarder_stop always returns: the join of the accept thread is bounded
\* by its 500 ms poll and the wait by the grace period.
StopReturns == own = "join" ~> own \notin {"join", "sweep", "wait"}

\* Every worker of a forwarder being stopped exits in the end, those of a leaked
\* one included, however silent the peers are.
WorkersExit == own = "join" ~> \A w \in Workers : pc[w] = "idle"

-----------------------------------------------------------------------------
(* The inductive invariant behind the safety properties.                   *)

HasClient == {"head", "pick", "dialing", "track", "io", "hangup", "finish"}
HasUp     == {"dialing", "track", "io", "hangup"}

\* Each descriptor a thread uses is its own.
FdInv ==
  /\ \A w \in Workers :
       /\ pc[w] \in HasClient => clientFd[w] \in FDs /\ owner[clientFd[w]] = ClientOf(w)
       /\ pc[w] \in HasUp => upFd[w] \in FDs /\ owner[upFd[w]] = UpOf(w)
  /\ accPc \in {"accepted", "spawn", "closing"} => accFd \in FDs /\ owner[accFd] = Acceptor

\* The registries follow the program counters of the workers.
RegInv ==
  /\ clientFds = {w \in Workers : pc[w] # "idle"} \cup ({accWorker} \ {NoWorker})
  /\ upstreamFds = {w \in Workers : pc[w] \in {"io", "hangup"}}
  /\ activeClients = Cardinality(clientFds)
  /\ activeClients <= MaxClients
  /\ IF accPc = "spawn" THEN accWorker \in Workers /\ pc[accWorker] = "idle"
                               /\ clientFd[accWorker] = accFd
                        ELSE accWorker = NoWorker

\* What the owner has done so far.
StopInv ==
  /\ own \notin {"bound", "started", "attached", "detached"} => ~running
  /\ own \in {"new", "bound", "startFailed", "sweep", "wait", "stopped", "freed", "leaked"}
        => accPc = "none"
  /\ call = "free" => own \in {"join", "sweep", "wait", "freed", "leaked"}
  /\ call = "free" => accPc = "none"
  /\ own \in {"new", "bound", "startFailed", "freed"} => clientFds = {}

Inv == TypeOK /\ FdInv /\ RegInv /\ StopInv /\ NobodyLeftBlocked

Pinned == {p \in Outside \cup GuidFetchers : callerPc[p] = "pinned"}

\* The count of pins is the number of the pins taken.
PinInv ==
  /\ retained = Cardinality(Pinned)
  /\ own = "freed" => retained = 0

\* No syncFetchGuid is about to give up while another caller holds a pin: the
\* release it makes all the same would take that pin.
PinsApart ==
  \A p, q \in Outside \cup GuidFetchers :
    callerPc[p] = "unpublished" => callerPc[q] # "pinned"

\* The forwarder as a resource shared by its workers: see Lifetime.  A worker
\* uses it from the moment it holds a slot until it gives the slot back.
Phase ==
  CASE own \in {"freed", "leaked"} -> own
    [] own = "new" -> "fresh"
    [] own # "new" /\ running -> "open"
    [] OTHER -> "closing"

Life == INSTANCE Lifetime WITH Users <- Workers, phase <- Phase, users <- clientFds

\* The threads and registries of KPKIngCore.c implement the life of a shared
\* resource: nobody enters once it closes, and it is freed with nobody in it.
LifetimeSpec == Life!Spec

=============================================================================
