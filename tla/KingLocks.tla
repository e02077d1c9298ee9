----------------------------- MODULE KingLocks -----------------------------
(***************************************************************************)
(* The locks around the forwarder: the serial runtimeQueue of LCProxyConfig *)
(* (dispatch_sync waits as a lock does), lifecycleLock, self.lock and      *)
(* cacheLock of LCProxyKing, and the two mutexes of kp_forwarder.  None is *)
(* recursive.  What the calls do between them is in KingLifecycle,         *)
(* Credentials and Forwarder; here only the order of locks is left.        *)
(*                                                                         *)
(* A call is a path: the sequence of locks it takes and drops, with the    *)
(* places where it may go one of several ways.  A lock taken several times *)
(* in a row, with no other in between, is written once.  A client thread   *)
(* of a forwarder runs the path Client; kp_forwarder_stop waits for these  *)
(* threads and for the callers that have pinned the forwarder, ten seconds *)
(* at most.                                                                *)
(***************************************************************************)
EXTENDS Naturals, Sequences

CONSTANTS
  Callers,  \* queues, timers and handlers of the console
  Clients,  \* client threads of the forwarders
  Calls,    \* what the callers call, of those PathOf knows
  Nobody    \* who has a lock that is free

ASSUME LocksAssumption ==
  /\ Callers \cap Clients = {}
  /\ Nobody \notin Callers \union Clients

Locks == {"runtimeQueue", "lifecycle", "self", "cache", "cred", "client"}

-----------------------------------------------------------------------------
(* Paths.                                                                  *)

Take(l) == <<"take", l>>
Drop(l) == <<"drop", l>>
Drain == <<"drain", "clients">>
PinUp == <<"pin", "forwarder">>
PinDown == <<"unpin", "forwarder">>

Holding(l, p) == <<Take(l)>> \o p \o <<Drop(l)>>
Section(l) == Holding(l, <<>>)

\* The code goes one of several ways.
OneOf(paths) == <<<<"oneOf", paths>>>>
Maybe(p) == OneOf({p, <<>>})

\* The cache is copied, or filled from the log.
LoadState == Section("cache")

\* loadCachedStateIntoForwarder: self.lock around the mutex of the credentials.
LoadCached == LoadState \o Holding("self", Maybe(Section("cred")))

\* The sockets are shut down under client_lock, which pthread_cond_timedwait
\* gives up while it waits.
StopPath == Section("client") \o <<Drain>> \o Section("client")

\* applyConfig: a healthy forwarder is kept ...
Reuse == Section("self") \o Maybe(Section("client")) \o LoadCached

\* Variant: a forwarder that is not wanted is stopped while self.lock is held.
TurnOffLocked == Holding("self", Maybe(StopPath))

\* ... one that is not wanted is detached under self.lock and stopped after it,
TurnOff == Section("self") \o Maybe(StopPath)

\* ... and one that is wanted is created between two sections of self.lock:
\* it fails, is installed, or is discarded.
Rebuild ==
  Section("self") \o Maybe(StopPath) \o Section("self")
    \o OneOf({<<>>, LoadCached, StopPath})

ApplyConfig == Holding("lifecycle", OneOf({Reuse, TurnOff, Rebuild}))

ShutdownActive == Holding("lifecycle", Holding("self", Maybe(Section("client"))))

\* publishRouteForSettings, with the timer whose delay is read from the state.
PublishRoute == Section("self") \o Maybe(LoadCached \o LoadState)

\* applyRuntimeSnapshot: the route is closed, a recovery ends the connections,
\* the settings are applied, the port is read, and the route opened.
ApplyPath ==
  Holding("runtimeQueue",
    Section("self") \o Maybe(ShutdownActive) \o ApplyConfig \o Section("self")
      \o Maybe(PublishRoute))

\* The probes run under lifecycleLock, outside self.lock.
HealthCheck == Holding("lifecycle", Section("self") \o Section("self"))

\* The check after a recovery: if it fails it waits for the runtime queue, and
\* asks for new credentials.
PostRecovery ==
  HealthCheck \o Maybe(Section("runtimeQueue") \o Maybe(Section("self")))

\* healMissingForwarderDirectly stops what it discards on the reaper queue.
Heal == Section("self") \o Maybe(LoadCached \o Section("self"))

Heartbeat == Maybe(LoadState) \o Section("self") \o Maybe(Heal)

\* kp_forwarder_retain and kp_forwarder_release.
RetainPath == Holding("client", <<PinUp>>)
ReleasePath == Holding("client", <<PinDown>>)

\* syncFetchGuid: pin and permit are taken under self.lock and given back
\* without it; a route that is not published is given back what it never gave.
FetchGuid ==
  OneOf({Holding("self", Maybe(Section("client"))) \o Maybe(Section("client")),
         Holding("self", RetainPath \o Section("cred"))
           \o Maybe(Section("cred")) \o ReleasePath})

\* finishRefreshWithState.
FinishRefresh ==
  LoadState \o Maybe(Holding("self", Maybe(Section("cred"))) \o LoadState)
    \o Section("self")

\* refreshCredentialsWithForce: another one is under way, the forwarder is
\* missing, the cache is fresh, or the credentials are fetched.
Refresh ==
  Section("self") \o
    OneOf({<<>>,
           Section("self"),
           LoadState \o Section("self") \o
             OneOf({LoadCached \o Section("self"),
                    Maybe(FetchGuid) \o FinishRefresh})})

SelfCheck ==
  OneOf({Holding("self", Maybe(Section("client"))),
         Holding("self", RetainPath) \o Section("cred") \o ReleasePath \o LoadState})

ForwarderStats == Holding("self", Maybe(Section("cred")))

\* status takes self.lock once more, while it has it, around the pointer of its
\* listen probe: "NSLock is not re-entrant, or it deadlocks" (line 1953), so a
\* thread that calls it waits for itself and NoCircularWait does not hold.
Status ==
  LoadState \o
    Holding("self",
      Maybe(Section("client")) \o Section("self") \o Maybe(Section("cred")))

\* kp_client_thread: credentials are read and upstreams registered, a failed
\* request calls the refresh hook (requestBackgroundRefresh), and at the end
\* the client is taken out of the registry.
Client ==
  Section("cred") \o Section("client") \o Maybe(Section("self") \o Section("cred"))
    \o Section("client")

PathOf(c) ==
  CASE c = "apply" -> ApplyPath
    [] c = "postRecovery" -> PostRecovery
    [] c = "heartbeat" -> Heartbeat
    [] c = "refresh" -> Refresh
    [] c = "selfCheck" -> SelfCheck
    [] c = "stats" -> ForwarderStats
    [] c = "status" -> Status
    [] c = "reap" -> StopPath
    [] c = "client" -> Client

-----------------------------------------------------------------------------
VARIABLES
  left,      \* what is left of the path each thread is on
  lockOwner  \* who has each lock

locksVars == <<left, lockOwner>>

Parties == Callers \union Clients
OnPath(t) == left[t] # <<>>
Faces(t, s) == OnPath(t) /\ Head(left[t]) = s
Advances(t) == left' = [left EXCEPT ![t] = Tail(@)]

Begin(t, c) ==
  /\ ~OnPath(t)
  /\ left' = [left EXCEPT ![t] = PathOf(c)]
  /\ UNCHANGED lockOwner

GoesOneWay(t) ==
  /\ OnPath(t) /\ Head(left[t])[1] = "oneOf"
  /\ \E p \in Head(left[t])[2] : left' = [left EXCEPT ![t] = p \o Tail(@)]
  /\ UNCHANGED lockOwner

TakeLock(t, l) ==
  /\ Faces(t, Take(l)) /\ lockOwner[l] = Nobody
  /\ lockOwner' = [lockOwner EXCEPT ![l] = t]
  /\ Advances(t)

DropLock(t, l) ==
  /\ Faces(t, Drop(l))
  /\ lockOwner' = [lockOwner EXCEPT ![l] = Nobody]
  /\ Advances(t)

\* A caller has pinned the forwarder: it has still to release it.
HoldsPin(t) ==
  \E i \in 1..Len(left[t]) :
    left[t][i] = PinDown /\ \A k \in 1..i : left[t][k] # PinUp

PinsOrUnpins(t) ==
  /\ Faces(t, PinUp) \/ Faces(t, PinDown)
  /\ Advances(t)
  /\ UNCHANGED lockOwner

\* active_clients and retained_clients.
InUse == {c \in Clients : OnPath(c)} \union {t \in Callers : HoldsPin(t)}

StopDrained(t) ==
  /\ Faces(t, Drain) /\ InUse = {}
  /\ Advances(t)
  /\ UNCHANGED lockOwner

\* KP_FORWARDER_STOP_GRACE_MS are over.
GraceExpires(t) ==
  /\ Faces(t, Drain) /\ InUse # {}
  /\ Advances(t)
  /\ UNCHANGED lockOwner

LocksInit ==
  /\ left = [t \in Parties |-> <<>>]
  /\ lockOwner = [l \in Locks |-> Nobody]

MovesOn(t) ==
  \/ GoesOneWay(t)
  \/ \E l \in Locks : TakeLock(t, l) \/ DropLock(t, l)
  \/ PinsOrUnpins(t)
  \/ StopDrained(t)
  \/ GraceExpires(t)

LocksNext ==
  \/ \E t \in Callers, c \in Calls : Begin(t, c)
  \/ \E t \in Clients : Begin(t, "client")
  \/ \E t \in Parties : MovesOn(t)

LocksSpec == LocksInit /\ [][LocksNext]_locksVars

-----------------------------------------------------------------------------
(* Properties.                                                             *)

\* Whom a thread waits for: the one who has the lock it is about to take, or the
\* client threads and pins that stop waits for.
WaitsFor(t) ==
  {u \in Parties :
     \/ \E l \in Locks : Faces(t, Take(l)) /\ lockOwner[l] = u
     \/ Faces(t, Drain) /\ u \in InUse}

\* No threads wait for each other in a circle, and none for itself: a lock that
\* an early return kept would stop its own thread at the next call.  In particular
\* stop never waits for clients, or for callers that pin the forwarder, that wait
\* for a lock of its caller: "stop waits for client threads to exit, and a client thread may wait
\* for self.lock when it fails" (LCProxyKing.m:244).  The grace period would break
\* that circle only after ten seconds, and leak the forwarder.  It holds of every
\* call but status.
NoCircularWait ==
  \A S \in SUBSET Parties : S # {} => \E t \in S : WaitsFor(t) \cap S = {}
=============================================================================
