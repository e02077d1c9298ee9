----------------------------- MODULE Credentials -----------------------------
(***************************************************************************)
(* The credentials of the king card in one process: LCProxyKing.m gets a   *)
(* GUID, a token and a pool of nodes from the carrier, keeps them in the   *)
(* process, appends them to a log that the apps share, and puts them into  *)
(* the forwarder.  A refresh is asked for by the timer, by a retry, by a   *)
(* failed connection, by the user and by an apply; one runs at a time.     *)
(*                                                                         *)
(* Of a state all that is told apart is who knows its GUID and how long it *)
(* is good for.  GetGuid, which needs the published route, is Bootstrap;   *)
(* what an apply does besides, and the emergency heal, is KingLifecycle;   *)
(* what the nodes answer is Routing.                                       *)
(***************************************************************************)
EXTENDS Naturals

CONSTANT
  MaxCredEvents  \* bound on what users, the system and other apps do

ASSUME CredentialsAssumption == MaxCredEvents \in Nat

VARIABLES
  cache,     \* cachedCredentialState
  logged,    \* the identity in the newest good line of kingcard-credentials.log
  installed, \* the identity in the king state of the forwarder
  up,        \* the forwarder: down, running, published
  flags,     \* the booleans of LCProxyKing and of the forwarder that are set
  asked,     \* the kinds of refresh dispatched and not begun
  step,      \* where the refresh is
  renew,     \* its `force`, and later: nothing of the old state may be kept
  guid,      \* the identity it is about to store
  apply,     \* where the runtime queue is in an apply
  seen,      \* the identity each thread that installs one has read, if good
  reachable, \* the carrier answers
  credEvents  \* events so far

fwVars == <<installed, up>>
refreshVars == <<step, renew, guid>>
worldVars == <<reachable, credEvents>>
credVars == <<cache, logged, fwVars, flags, asked, refreshVars, apply, seen, worldVars>>

RefreshKinds == {"plain", "forced"}
Installers == {"refresh", "apply"}
RefreshFlags == {"newIdentity", "retry", "timer", "rejected", "outdated", "apply"}

\* An identity is known to the nodes, replaced by one the carrier gave later,
\* or made up in the process.
Identities == {"good", "dead", "local", "none"}

\* A state is good for longer than the lead time, good now, or not: it has
\* expired, or was obtained with other settings.
Lives == {"fresh", "late", "bad"}
States == [identity : Identities, life : Lives]
State(i, l) == [identity |-> i, life |-> l]
Nothing == State("none", "bad")

-----------------------------------------------------------------------------
\* stateHasFreshCredentials, with the lead time and without.
Fresh(s) == s.life = "fresh"
Usable(s) == s.life \in {"fresh", "late"}

\* loadState: the cache, or else the newest line of the log, if one is good.
LoadState ==
  IF cache # Nothing THEN {cache}
  ELSE {Nothing} \cup (IF logged = "none" THEN {} ELSE {State(logged, l) : l \in {"fresh", "late"}})

\* The carrier gives one identity to a SIM card: an older one may be void.
Void(i) == IF i = "good" THEN "dead" ELSE i
VoidState(s) == State(Void(s.identity), s.life)
CarrierVoids ==
  /\ cache' = VoidState(cache)
  /\ installed' = Void(installed) /\ logged' = Void(logged)
  /\ seen' = [t \in Installers |-> Void(seen[t])]

Refreshing == step # "idle"
Fetching == step \in {"identify", "token", "pool", "append", "failed"}

-----------------------------------------------------------------------------
(* loadCachedStateIntoForwarder, by the refresh and by an apply: what the  *)
(* thread has read decides, although both can be past it.                  *)

LoadFor(t) ==
  /\ cache' \in LoadState
  /\ seen' = [seen EXCEPT ![t] = IF Usable(cache') THEN cache'.identity ELSE "none"]

Install(t) ==
  /\ installed' = IF up = "down" THEN "none" ELSE seen[t]
  /\ seen' = [seen EXCEPT ![t] = "none"]

-----------------------------------------------------------------------------
(* Who asks for a refresh without waiting for it.                          *)

\* requestBackgroundRefresh.  For twenty seconds after a refresh has begun it
\* does nothing; when those are over is left open.
Background == asked' = IF Refreshing THEN asked ELSE asked \cup {"forced"}

\* No node took the request: none is there, they do not answer, or they close
\* a connection whose identity they have never heard of.
Unserved ==
  /\ up = "published"
  /\ installed \in {"none", "local"} \/ ~reachable
  /\ Background
  /\ UNCHANGED <<cache, logged, fwVars, flags, refreshVars, apply, seen, worldVars>>

\* Nodes answer 820, 821 or 823 to an identity the carrier has replaced.
Rejected ==
  /\ up = "published" /\ reachable /\ installed = "dead"
  /\ flags' = flags \cup {"rejected"}
  /\ Background
  /\ UNCHANGED <<cache, logged, fwVars, refreshVars, apply, seen, worldVars>>

-----------------------------------------------------------------------------
(* refreshCredentialsWithForce.                                            *)

RefreshGoes(from, to) == step = from /\ step' = to

\* Timer, retry and blocks dispatched call it from a thread of their own.
Begins(kind) ==
  /\ RefreshGoes("idle", "begun")
  /\ renew' = (kind = "forced")
  /\ UNCHANGED <<cache, logged, fwVars, guid, apply, seen, worldVars>>

TimerFires ==
  /\ "timer" \in flags
  /\ Begins("plain")
  /\ UNCHANGED <<flags, asked>>

RetryFires ==
  /\ "retry" \in flags
  /\ Begins("plain")
  /\ flags' = flags \ {"retry"}
  /\ UNCHANGED asked

Dispatched(kind) ==
  /\ kind \in asked
  /\ Begins(kind)
  /\ asked' = asked \ {kind}
  /\ UNCHANGED flags

\* One is under way: the caller is told that it succeeded.
Coalesced ==
  /\ Refreshing
  /\ \/ asked # {} /\ UNCHANGED flags /\ \E k \in asked : asked' = asked \ {k}
     \/ "retry" \in flags /\ flags' = flags \ {"retry"} /\ UNCHANGED asked
  /\ UNCHANGED <<cache, logged, fwVars, refreshVars, apply, seen, worldVars>>

\* The forwarder is missing: an apply is asked for, and a retry.
Watchdog ==
  /\ up = "down"
  /\ RefreshGoes("begun", "idle")
  /\ flags' = flags \cup {"retry", "apply"}
  /\ renew' = FALSE
  /\ UNCHANGED <<cache, logged, fwVars, asked, guid, apply, seen, worldVars>>

\* The state is read, with its identity the one to keep ...
ReadState ==
  /\ up # "down" /\ "newIdentity" \notin flags
  /\ cache' \in LoadState
  /\ RefreshGoes("begun", IF ~renew /\ Fresh(cache') THEN "hit" ELSE "identify")
  /\ IF cache' = Nothing THEN renew' = TRUE
     ELSE IF Usable(cache') THEN renew' = renew
     ELSE renew' \in {renew, TRUE}
  /\ guid' = IF step' = "hit" THEN "none" ELSE cache'.identity
  /\ UNCHANGED <<logged, fwVars, flags, asked, apply, seen, worldVars>>

\* ... or, after a reset, thrown away.
ReadReset ==
  /\ up # "down" /\ "newIdentity" \in flags
  /\ cache' \in LoadState
  /\ RefreshGoes("begun", "identify")
  /\ renew' = TRUE /\ guid' = "none"
  /\ flags' = flags \ {"newIdentity"}
  /\ UNCHANGED <<logged, fwVars, asked, apply, seen, worldVars>>

\* Variant: a stored identity is kept, whatever the nodes say.
ReidentifyOnce == guid = "none"

\* kp_forwarder_take_credential_rejection, and a new GUID where it is due.
Reidentify == guid = "none" \/ "rejected" \in flags

KeepGuid ==
  /\ ~Reidentify
  /\ RefreshGoes("identify", "token")
  /\ UNCHANGED <<cache, logged, fwVars, flags, asked, renew, guid, apply, seen, worldVars>>

FetchGuid ==
  /\ Reidentify /\ up = "published" /\ reachable
  /\ RefreshGoes("identify", "token")
  /\ guid' = "good"
  /\ flags' = flags \ {"rejected"}
  /\ CarrierVoids \/ UNCHANGED <<cache, installed, logged, seen>>
  /\ UNCHANGED <<up, asked, renew, apply, worldVars>>

\* The fallback: a GUID made up in the process.
MakeGuid ==
  /\ Reidentify /\ ~(up = "published" /\ reachable)
  /\ RefreshGoes("identify", "token")
  /\ guid' = "local"
  /\ flags' = flags \ {"rejected"}
  /\ UNCHANGED <<cache, logged, fwVars, asked, renew, apply, seen, worldVars>>

\* Token and pool expire one without the other; the one that has not is kept,
\* and the nodes reject it together with an identity it was not given to.
Kept == IF guid = cache.identity THEN guid ELSE "dead"

KeepToken ==
  /\ ~renew
  /\ RefreshGoes("token", "pool")
  /\ guid' = Kept
  /\ UNCHANGED <<cache, logged, fwVars, flags, asked, renew, apply, seen, worldVars>>

FetchToken ==
  /\ reachable
  /\ \/ RefreshGoes("token", "pool") /\ UNCHANGED guid
     \/ ~renew /\ RefreshGoes("token", "append") /\ guid' = Kept
  /\ UNCHANGED <<cache, logged, fwVars, flags, asked, renew, apply, seen, worldVars>>

FetchPool ==
  /\ reachable
  /\ RefreshGoes("pool", "append")
  /\ UNCHANGED <<cache, logged, fwVars, flags, asked, renew, guid, apply, seen, worldVars>>

\* No token, no pool, or an empty one.
FetchFails ==
  /\ ~reachable
  /\ RefreshGoes("token", "failed") \/ RefreshGoes("pool", "failed")
  /\ UNCHANGED <<cache, logged, fwVars, flags, asked, renew, guid, apply, seen, worldVars>>

\* Variant: the cache is replaced only when the line is in the log.
AppendRecordLogged ==
  /\ RefreshGoes("append", "look")
  /\ \/ logged' = guid /\ cache' = State(guid, "fresh")
     \/ UNCHANGED <<cache, logged>>
  /\ flags' = flags \ {"outdated"}
  /\ guid' = "none" /\ renew' = FALSE
  /\ UNCHANGED <<fwVars, asked, apply, seen, worldVars>>

\* appendCredentialRecord: the line may not get into the log, the cache is
\* replaced all the same.
AppendRecord ==
  /\ RefreshGoes("append", "look")
  /\ IF "outdated" \in flags
     THEN cache' = State(guid, "bad") /\ logged' = logged
     ELSE cache' = State(guid, "fresh") /\ logged' \in {logged, guid}
  /\ flags' = flags \ {"outdated"}
  /\ guid' = "none" /\ renew' = FALSE
  /\ UNCHANGED <<fwVars, asked, apply, seen, worldVars>>

RefreshLooks ==
  /\ RefreshGoes("look", "install") \/ RefreshGoes("hit", "hitInstall")
  /\ LoadFor("refresh")
  /\ UNCHANGED <<logged, fwVars, flags, asked, renew, guid, apply, worldVars>>

\* startRefreshTimer, unless the state was in the cache; refreshing is over.
RefreshInstalls ==
  /\ \/ RefreshGoes("install", "idle") /\ flags' = flags \cup {"timer"}
     \/ RefreshGoes("hitInstall", "idle") /\ UNCHANGED flags
  /\ Install("refresh")
  /\ UNCHANGED <<cache, logged, up, asked, renew, guid, apply, worldVars>>

\* finishRefreshWithState after a failure: what is still good keeps serving.
Failed ==
  /\ RefreshGoes("failed", "idle")
  /\ cache' \in LoadState
  /\ renew' = FALSE /\ guid' = "none"

FailServing ==
  /\ Failed /\ Usable(cache')
  /\ flags' = flags \ {"outdated"}
  /\ UNCHANGED <<logged, fwVars, asked, apply, seen, worldVars>>

FailBare ==
  /\ Failed /\ ~Usable(cache')
  /\ installed' = "none"
  /\ flags' = (flags \ {"outdated"}) \cup {"retry"}
  /\ UNCHANGED <<logged, up, asked, apply, seen, worldVars>>

-----------------------------------------------------------------------------
(* The runtime queue: applyConfig and publishRouteForSettings.  Both load  *)
(* the cached state; the second time is the one that lasts.                *)

ApplyGoes(from, to) == apply = from /\ apply' = to

\* A healthy forwarder is kept; its route is closed until it is published.
ApplyReuses ==
  /\ "apply" \in flags /\ up # "down"
  /\ ApplyGoes("idle", "publish")
  /\ up' = "running"
  /\ flags' = flags \ {"apply"}
  /\ UNCHANGED <<cache, logged, installed, asked, refreshVars, seen, worldVars>>

\* A new one has no king state and no rejection.
ApplyRebuilds ==
  /\ "apply" \in flags /\ up = "down"
  /\ ApplyGoes("idle", "publish")
  /\ up' = "running"
  /\ flags' = flags \ {"apply", "timer", "rejected"}
  /\ UNCHANGED <<cache, logged, installed, asked, refreshVars, seen, worldVars>>

Publish ==
  /\ up # "down"
  /\ ApplyGoes("publish", "look")
  /\ up' = "published"
  /\ UNCHANGED <<cache, logged, installed, flags, asked, refreshVars, seen, worldVars>>

\* It has gone down meanwhile: no route, no timer, and another apply.
PublishFails ==
  /\ up = "down"
  /\ ApplyGoes("publish", "idle")
  /\ flags' = (flags \ {"timer"}) \cup {"apply"}
  /\ UNCHANGED <<cache, logged, fwVars, asked, refreshVars, seen, worldVars>>

ApplyLooks ==
  /\ ApplyGoes("look", "install")
  /\ LoadFor("apply")
  /\ UNCHANGED <<logged, fwVars, flags, asked, refreshVars, worldVars>>

\* startRefreshTimer, and a refresh unless the state is fresh.
ApplyInstalls ==
  /\ ApplyGoes("install", "idle")
  /\ Install("apply")
  /\ flags' = flags \cup {"timer"}
  /\ cache' \in LoadState
  /\ asked' = IF Fresh(cache') THEN asked ELSE asked \cup {"plain"}
  /\ UNCHANGED <<logged, up, refreshVars, worldVars>>

-----------------------------------------------------------------------------
(* The world.                                                              *)

\* The state nears its end; the carrier gives each longer than it takes to
\* install it.
TimePasses ==
  /\ step \notin {"look", "install"}
  /\ \/ cache.life = "fresh" /\ cache' = [cache EXCEPT !.life = "late"]
     \/ cache.life = "late" /\ cache' = [cache EXCEPT !.life = "bad"]
  /\ UNCHANGED <<logged, fwVars, flags, asked, refreshVars, apply, seen, worldVars>>

CredEvent == credEvents < MaxCredEvents /\ credEvents' = credEvents + 1

\* The console asks for a refresh; resetSharedCredentialsAndRefresh.
Console ==
  /\ CredEvent
  /\ asked' = asked \cup {"forced"}
  /\ flags' \in {flags, flags \cup {"newIdentity"}}
  /\ UNCHANGED <<cache, logged, fwVars, refreshVars, apply, seen, reachable>>

Outage ==
  /\ CredEvent
  /\ reachable /\ reachable' = FALSE
  /\ UNCHANGED <<cache, logged, fwVars, flags, asked, refreshVars, apply, seen>>

OutageEnds ==
  /\ ~reachable /\ reachable' = TRUE
  /\ UNCHANGED <<cache, logged, fwVars, flags, asked, refreshVars, apply, seen, credEvents>>

\* Another app gets credentials of its own and appends them.
OtherApp ==
  /\ CredEvent
  /\ \/ guid' = Void(guid) /\ cache' = VoidState(cache) /\ installed' = Void(installed)
        /\ seen' = [t \in Installers |-> Void(seen[t])]
     \/ UNCHANGED <<cache, installed, seen, guid>>
  /\ logged' = "good"
  /\ UNCHANGED <<up, flags, asked, step, renew, apply, reachable>>

\* The settings are saved and applied; what was obtained with the old ones,
\* or is being obtained, no longer counts.
SettingsChange ==
  /\ CredEvent
  /\ cache' = [cache EXCEPT !.life = "bad"]
  /\ logged' = "none"
  /\ flags' = flags \cup {"apply"} \cup (IF Fetching THEN {"outdated"} ELSE {})
  /\ UNCHANGED <<fwVars, asked, refreshVars, apply, seen, reachable>>

\* The app comes to the foreground, or the network changes.
Reapply ==
  /\ CredEvent
  /\ flags' = flags \cup {"apply"}
  /\ UNCHANGED <<cache, logged, fwVars, asked, refreshVars, apply, seen, reachable>>

\* The forwarder dies, and somebody notices.
ForwarderDies ==
  /\ CredEvent
  /\ up' = "down" /\ installed' = "none"
  /\ flags' = (flags \ {"rejected"}) \cup {"apply"}
  /\ UNCHANGED <<cache, logged, asked, refreshVars, apply, seen, reachable>>

\* The process is killed and started again; only the log is left.
Restart ==
  /\ CredEvent
  /\ cache' = Nothing /\ installed' = "none" /\ up' = "down"
  /\ flags' = {"apply"} /\ asked' = {}
  /\ step' = "idle" /\ renew' = FALSE /\ guid' = "none"
  /\ apply' = "idle" /\ seen' = [t \in Installers |-> "none"]
  /\ UNCHANGED <<logged, reachable>>

-----------------------------------------------------------------------------
CredInit ==
  /\ cache = Nothing /\ logged \in {"none", "good"}
  /\ installed = "none" /\ up = "down"
  /\ flags = {"apply"} /\ asked = {}
  /\ step = "idle" /\ renew = FALSE /\ guid = "none"
  /\ apply = "idle" /\ seen = [t \in Installers |-> "none"]
  /\ reachable = TRUE /\ credEvents = 0

Begin == TimerFires \/ RetryFires \/ \E k \in RefreshKinds : Dispatched(k)

Refresh ==
  \/ Watchdog \/ ReadState \/ ReadReset
  \/ KeepGuid \/ FetchGuid \/ MakeGuid
  \/ KeepToken \/ FetchToken \/ FetchPool \/ FetchFails
  \/ AppendRecord \/ RefreshLooks \/ RefreshInstalls
  \/ FailServing \/ FailBare

Applies ==
  \/ ApplyReuses \/ ApplyRebuilds \/ Publish \/ PublishFails
  \/ ApplyLooks \/ ApplyInstalls

AppTraffic == Unserved \/ Rejected

World ==
  \/ TimePasses \/ Console
  \/ Outage \/ OutageEnds
  \/ OtherApp \/ SettingsChange \/ Reapply \/ ForwarderDies \/ Restart

CredNext == AppTraffic \/ Begin \/ Coalesced \/ Refresh \/ Applies \/ World

CredSpec == CredInit /\ [][CredNext]_credVars

\* Queues and timers run, outages end, and apps go on connecting: a refresh
\* takes seconds and the timer fires every two minutes, so what waits for the
\* time between two refreshes gets its turn.
CredFairness ==
  /\ WF_credVars(Refresh) /\ WF_credVars(Applies) /\ WF_credVars(OutageEnds)
  /\ WF_credVars(TimerFires) /\ WF_credVars(RetryFires)
  /\ \A k \in RefreshKinds : SF_credVars(Dispatched(k))
  /\ SF_credVars(~Refreshing /\ AppTraffic)
  /\ SF_credVars("rejected" \in flags /\ Dispatched("forced"))

CredLive == CredSpec /\ CredFairness

-----------------------------------------------------------------------------
(* Properties                                                              *)

\* Every variable keeps its type; a dead forwarder has no king state.
CredTypeOK ==
  /\ cache \in States /\ seen \in [Installers -> Identities]
  /\ {logged, installed, guid} \subseteq Identities
  /\ up \in {"down", "running", "published"} /\ (up = "down" => installed = "none")
  /\ flags \subseteq RefreshFlags /\ asked \subseteq RefreshKinds
  /\ step \in {"idle", "begun", "hit", "hitInstall", "identify", "token", "pool",
               "append", "look", "install", "failed"}
  /\ apply \in {"idle", "publish", "look", "install"}
  /\ renew \in BOOLEAN /\ reachable \in BOOLEAN /\ credEvents \in 0 .. MaxCredEvents

\* Whatever fails, and whoever is killed, the forwarder gets credentials that
\* are good, again and again.
Recharged == []<>(up = "published" /\ Usable(cache) /\ installed = cache.identity)

\* An identity that the nodes reject is replaced, although the refresh that
\* takes note of the rejection may fail.
DeadReplaced == installed = "dead" ~> installed # "dead"

\* An identity made up at start-up does not stay ("it should serve as a brief
\* bootstrap only and not become the identity for long", LCProxyKing.m).
LocalIsBrief == installed = "local" ~> installed # "local"
=============================================================================
