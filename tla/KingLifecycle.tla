--------------------------- MODULE KingLifecycle ---------------------------
(***************************************************************************)
(* Who creates, publishes and retires the forwarder of a process.  Three   *)
(* parties do, and share no lock that spans their steps:                   *)
(*  - the runtime queue of LCProxyConfig, which applies the settings: it   *)
(*    rebuilds the forwarder, pins its port as the first hop of the        *)
(*    proxychains chain, and publishes the route;                          *)
(*  - the heartbeat of LCProxyKing, every five seconds, which heals what   *)
(*    the queue left behind without waiting for it;                        *)
(*  - the watchdog at the head of refreshCredentials, which does the same. *)
(* self.lock makes single steps atomic; everything in between interleaves. *)
(*                                                                         *)
(* A forwarder has one listening port for life, so one value stands for    *)
(* both.  A freed identity may be used again, as malloc and the kernel do. *)
(***************************************************************************)
EXTENDS Naturals

CONSTANTS
  Forwarders,  \* identities, and ports, of forwarders
  None,        \* no forwarder, port 0
  Threads,     \* subset of {"heartbeat", "watchdog"}
  Modes,       \* subset of {"king", "off", "direct", "custom"}
  MaxEvents    \* bound on settings changes, suspensions and failures

ASSUME NoneAssumption == None \notin Forwarders
ASSUME ThreadsAssumption == Threads \subseteq {"heartbeat", "watchdog"}
ASSUME MaxEventsAssumption == MaxEvents \in Nat
ASSUME ModesAssumption == Modes \subseteq {"king", "off", "direct", "custom"}

VARIABLES
  mode,       \* effective mode of the stored settings; "off": king, disabled
  resumeDue,  \* the app was suspended and will be told of its return
  events,     \* events so far
  fw,         \* LCProxyKing.forwarder
  desired,    \* desiredForwarderRunning
  published,  \* routePublished
  pubPort,    \* publishedForwarderPort
  alive,      \* forwarders created and not yet stopped and freed
  deaf,       \* ... whose listening socket iOS has invalidated
  override,   \* lc_proxy_override_port
  applied,    \* lc_proxy_override_applied_port: None is the dead placeholder
  configValid,\* lc_proxy_config_valid
  chainOn,    \* not lc_proxy_disabled
  conf,       \* the configuration file on disk: "proxies" or "empty"
  pending,    \* applies waiting on the runtime queue; TRUE forces recovery
  retryDue,   \* forwarderRetryScheduled
  lastMode, lastPort,                \* lastAppliedRuntimeSignature, ...Port
  apc, aForced, aMode, aFw, aPort,   \* locals of applyRuntimeSnapshot
  tpc, tPtr, tFw, tPort              \* locals of heartbeat and watchdog

envVars    == <<mode, resumeDue, events>>
kingVars   == <<fw, desired, published, pubPort>>
poolVars   == <<alive, deaf>>
chainVars  == <<override, applied, configValid, chainOn, conf>>
queueVars  == <<pending, retryDue, lastMode, lastPort>>
applyVars  == <<apc, aForced, aMode, aFw, aPort>>
threadVars == <<tpc, tPtr, tFw, tPort>>
vars == <<envVars, kingVars, poolVars, chainVars, queueVars, applyVars, threadVars>>

-----------------------------------------------------------------------------
\* The settings of an apply are a snapshot, the network is not: where the code
\* asks for the effective mode again, king card or off may have become direct
\* meanwhile, or the reverse (kingAutoDirectOnNonCellular).
ModesNow ==
  IF "direct" \in {aMode, mode} /\ "custom" \notin {aMode, mode}
  THEN {aMode, mode}
  ELSE {aMode}

\* applyConfig: asks again; forceRestartForwarderWithSettings: takes the mode.
ModesOfConfig == IF aForced THEN {aMode} ELSE ModesNow

\* shouldRun, and the mode whose override names the forwarder.
ShouldRun(m) == m = "king"
UsesForwarderPort(m) == m \in {"king", "off"}
ProxyActive(m) == m \in {"king", "custom"}

\* writeProxychainsConf leaves the proxy list out in direct mode.
ConfOf(m) == IF m = "direct" THEN "empty" ELSE "proxies"

\* A memory, file or socket operation fails.
Misfortune ==
  /\ events < MaxEvents /\ events' = events + 1
  /\ UNCHANGED <<mode, resumeDue>>

Listening(f) == f \in alive \ deaf

\* kp_forwarder_stop and kp_forwarder_free (their inside is module Forwarder).
Retire(f) == alive' = alive \ {f} /\ deaf' = deaf \ {f}

\* kp_forwarder_new and kp_forwarder_start on an ephemeral port.
Born(f) == f \in Forwarders \ alive /\ alive' = alive \union {f} /\ UNCHANGED deaf

\* lcproxy_control_reload_config: the chain is parsed and the override put on
\* its first hop, or there is no usable list and the configuration is invalid.
ReloadConfig ==
  /\ conf = "proxies"
  /\ applied' = override /\ configValid' = TRUE
  /\ UNCHANGED <<envVars, override, chainOn, conf>>
ReloadFails ==
  /\ (conf = "empty" /\ UNCHANGED envVars) \/ Misfortune
  /\ applied' = None /\ configValid' = FALSE
  /\ UNCHANGED <<override, chainOn, conf>>

Request(forced) == pending' = pending \union {forced}

-----------------------------------------------------------------------------
(* The runtime queue: one applyRuntimeSnapshot at a time.                  *)

ApplyStays == UNCHANGED <<aForced, aMode, aFw, aPort>>

\* Variant: the route stays published while it is rebuilt.
ApplyBeginPublished ==
  /\ apc = "idle"
  /\ \E forced \in pending : pending' = pending \ {forced} /\ aForced' = forced
  /\ aMode' = mode
  /\ apc' = "check"
  /\ UNCHANGED <<aFw, aPort, retryDue, lastMode, lastPort>>
  /\ UNCHANGED <<envVars, kingVars, poolVars, chainVars, threadVars>>

\* The settings are read, and the route is closed (beginRoutePublication).
ApplyBegin ==
  /\ apc = "idle"
  /\ \E forced \in pending : pending' = pending \ {forced} /\ aForced' = forced
  /\ aMode' = mode
  /\ published' = FALSE /\ pubPort' = None
  /\ apc' = "check"
  /\ UNCHANGED <<aFw, aPort, retryDue, lastMode, lastPort, fw, desired>>
  /\ UNCHANGED <<envVars, poolVars, chainVars, threadVars>>

\* applyConfig keeps a healthy forwarder ...
ApplyReuse ==
  /\ apc = "check"
  /\ \E m \in ModesOfConfig : ShouldRun(m)
  /\ Listening(fw)
  /\ apc' = "port"
  /\ ApplyStays
  /\ UNCHANGED <<envVars, kingVars, poolVars, chainVars, queueVars, threadVars>>

\* ... and detaches any other before it is stopped, outside self.lock.
ApplyDetach ==
  /\ apc = "check"
  /\ \E m \in ModesOfConfig :
       /\ ~(ShouldRun(m) /\ Listening(fw))
       /\ desired' = ShouldRun(m)
       /\ apc' = IF ShouldRun(m) THEN "replace" ELSE "stop"
  /\ aFw' = fw
  /\ fw' = None
  /\ UNCHANGED <<aForced, aMode, aPort, published, pubPort>>
  /\ UNCHANGED <<envVars, poolVars, chainVars, queueVars, threadVars>>

\* Variant: the detached forwarder is forgotten.
ApplyRetireForgets ==
  /\ apc \in {"replace", "stop"}
  /\ aFw' = None
  /\ apc' = IF apc = "replace" THEN "create" ELSE "port"
  /\ UNCHANGED <<aForced, aMode, aPort>>
  /\ UNCHANGED <<envVars, kingVars, poolVars, chainVars, queueVars, threadVars>>

ApplyRetire ==
  /\ apc \in {"replace", "stop"}
  /\ Retire(aFw)
  /\ aFw' = None
  /\ apc' = IF apc = "replace" THEN "create" ELSE "port"
  /\ UNCHANGED <<aForced, aMode, aPort>>
  /\ UNCHANGED <<envVars, kingVars, chainVars, queueVars, threadVars>>

ApplyCreate ==
  /\ apc = "create"
  /\ \E f \in Forwarders : Born(f) /\ aFw' = f
  /\ apc' = "install"
  /\ UNCHANGED <<aForced, aMode, aPort>>
  /\ UNCHANGED <<envVars, kingVars, chainVars, queueVars, threadVars>>

\* notifyForwarderLifecycle: an observer asks for an apply, at most every 5 s.
Notify == pending' \in {pending, pending \union {FALSE}}

\* No memory, or no socket.
ApplyCreateFails ==
  /\ apc = "create"
  /\ Misfortune
  /\ Notify
  /\ apc' = "port"
  /\ ApplyStays
  /\ UNCHANGED <<retryDue, lastMode, lastPort>>
  /\ UNCHANGED <<kingVars, poolVars, chainVars, threadVars>>

ApplyInstall ==
  /\ apc = "install"
  /\ fw = None /\ desired
  /\ fw' = aFw /\ aFw' = None
  /\ apc' = "port"
  /\ UNCHANGED <<desired, published, pubPort, aForced, aMode, aPort>>
  /\ UNCHANGED <<envVars, poolVars, chainVars, queueVars, threadVars>>

\* A heal has installed one meanwhile: the own forwarder is discarded.
ApplyDiscard ==
  /\ apc = "install"
  /\ ~(fw = None /\ desired)
  /\ Retire(aFw) /\ aFw' = None
  /\ Notify
  /\ apc' = "port"
  /\ UNCHANGED <<aForced, aMode, aPort, retryDue, lastMode, lastPort>>
  /\ UNCHANGED <<envVars, kingVars, chainVars, threadVars>>

\* desiredForwarderPort.
ApplyPort ==
  /\ apc = "port"
  /\ aPort' = IF UsesForwarderPort(aMode) THEN fw ELSE None
  /\ apc' = "pin"
  /\ UNCHANGED <<aForced, aMode, aFw>>
  /\ UNCHANGED <<envVars, kingVars, poolVars, chainVars, queueVars, threadVars>>

ApplyPin ==
  /\ apc = "pin"
  /\ override' = aPort
  /\ apc' = "write"
  /\ ApplyStays
  /\ UNCHANGED <<applied, configValid, chainOn, conf>>
  /\ UNCHANGED <<envVars, kingVars, poolVars, queueVars, threadVars>>

\* needsRuntimeReload, of a configuration that was written.
NeedsReload ==
  \/ aForced
  \/ aMode # lastMode
  \/ aPort # lastPort
  \/ (ProxyActive(aMode) \/ aPort # None) /\ applied # aPort
  \/ ProxyActive(aMode) /\ ~configValid

\* The configuration is written and its path set; the proxy is switched on or off.
ApplyWrite ==
  /\ apc = "write"
  /\ \E m \in ModesNow : conf' = ConfOf(m)
  /\ chainOn' = ProxyActive(aMode)
  /\ apc' = IF NeedsReload THEN "reload" ELSE "publish"
  /\ ApplyStays
  /\ UNCHANGED <<override, applied, configValid>>
  /\ UNCHANGED <<envVars, kingVars, poolVars, queueVars, threadVars>>

\* One of the two failed: the configuration is marked invalid.
ApplyWriteFails ==
  /\ apc = "write"
  /\ Misfortune
  /\ \E m \in ModesNow : conf' \in {conf, ConfOf(m)}
  /\ configValid' = FALSE
  /\ chainOn' = ProxyActive(aMode)
  /\ apc' = "close"
  /\ ApplyStays
  /\ UNCHANGED <<override, applied>>
  /\ UNCHANGED <<kingVars, poolVars, queueVars, threadVars>>

ApplyReload(Outcome) ==
  /\ apc = "reload"
  /\ Outcome
  /\ apc' = "publish"
  /\ ApplyStays
  /\ UNCHANGED <<kingVars, poolVars, queueVars, threadVars>>

\* What an apply leaves behind; without a port in king mode, a retry.
ApplyEnd ==
  /\ lastMode' = aMode /\ lastPort' = aPort
  /\ retryDue' = (retryDue \/ (aMode = "king" /\ aPort = None))
  /\ apc' = "idle"
  /\ aForced' = FALSE /\ aPort' = None
  /\ UNCHANGED <<aMode, aFw, pending>>

Publishable == apc = "publish" /\ (~ProxyActive(aMode) \/ configValid)

\* The condition of publishRouteForSettings, evaluated under self.lock.
RouteIsUp(m) == ProxyActive(aMode) /\ m = "king" /\ Listening(fw)

ApplyPublish ==
  /\ Publishable
  /\ \E m \in ModesNow :
       /\ published' = RouteIsUp(m)
       /\ pubPort' = IF RouteIsUp(m) THEN fw ELSE None
  /\ ApplyEnd
  /\ UNCHANGED <<fw, desired>>
  /\ UNCHANGED <<envVars, poolVars, chainVars, threadVars>>

\* The configuration is not usable: the route stays closed.
ApplyClose ==
  /\ apc = "close" \/ (apc = "publish" /\ ~Publishable)
  /\ ApplyEnd
  /\ UNCHANGED <<envVars, kingVars, poolVars, chainVars, threadVars>>

\* The timer of scheduleForwarderRecoveryRetry.
Retry ==
  /\ apc = "idle"
  /\ retryDue
  /\ retryDue' = FALSE
  /\ Request(TRUE)
  /\ UNCHANGED <<lastMode, lastPort>>
  /\ UNCHANGED <<envVars, kingVars, poolVars, chainVars, applyVars, threadVars>>

Apply ==
  \/ ApplyBegin \/ ApplyReuse \/ ApplyDetach \/ ApplyRetire
  \/ ApplyCreate \/ ApplyCreateFails \/ ApplyInstall \/ ApplyDiscard
  \/ ApplyPort \/ ApplyPin \/ ApplyWrite \/ ApplyWriteFails
  \/ ApplyReload(ReloadConfig) \/ ApplyReload(ReloadFails)
  \/ ApplyPublish \/ ApplyClose \/ Retry

-----------------------------------------------------------------------------
(* The heartbeat and the watchdog.                                         *)

At(t, p) == tpc[t] = p
Go(t, p) == tpc' = [tpc EXCEPT ![t] = p]
ThreadOnly == UNCHANGED <<envVars, kingVars, poolVars, chainVars, queueVars, applyVars>>

\* heartbeatTick reads whether a forwarder is wanted ...
Look(t) ==
  /\ At(t, "idle") /\ t = "heartbeat"
  /\ desired
  /\ Go(t, "port")
  /\ ThreadOnly /\ UNCHANGED <<tPtr, tFw, tPort>>

\* ... its port, under self.lock ...
LocalPort(t) ==
  /\ At(t, "port")
  /\ tPort' = [tPort EXCEPT ![t] = fw]
  /\ Go(t, "load")
  /\ ThreadOnly /\ UNCHANGED <<tPtr, tFw>>

\* refreshCredentials finds king card mode in the settings.
Watch(t) ==
  /\ At(t, "idle") /\ t = "watchdog"
  /\ mode = "king"
  /\ Go(t, "load")
  /\ ThreadOnly /\ UNCHANGED <<tPtr, tFw, tPort>>

\* isRunning reads self.forwarder without self.lock ...
Load(t) ==
  /\ tpc[t] \in {"load", "recheck"}
  /\ tPtr' = [tPtr EXCEPT ![t] = fw]
  /\ Go(t, IF At(t, "load") THEN "deref" ELSE "again")
  /\ ThreadOnly /\ UNCHANGED <<tFw, tPort>>

\* ... and then its `running`; of a freed forwarder the answer may be either.
SaysRunning(t) == tPtr[t] # None
SaysStopped(t) == tPtr[t] \notin alive
Forget(t) == tPtr' = [tPtr EXCEPT ![t] = None]

BeatFindsRunning(t) ==
  /\ At(t, "deref") /\ t = "heartbeat"
  /\ tPort[t] # None /\ SaysRunning(t)
  /\ Forget(t)
  /\ Go(t, IF override # tPort[t] THEN "pin" ELSE "chain")
  /\ ThreadOnly /\ UNCHANGED <<tFw, tPort>>

BeatFindsMissing(t) ==
  /\ At(t, "deref") /\ t = "heartbeat"
  /\ tPort[t] = None \/ SaysStopped(t)
  /\ Forget(t)
  /\ tPort' = [tPort EXCEPT ![t] = None]
  /\ Go(t, "recheck")
  /\ ThreadOnly /\ UNCHANGED tFw

WatchFindsRunning(t) ==
  /\ At(t, "deref") /\ t = "watchdog"
  /\ SaysRunning(t)
  /\ Forget(t)
  /\ Go(t, "idle")
  /\ ThreadOnly /\ UNCHANGED <<tFw, tPort>>

\* The watchdog asks for an apply and has the heal run outside the queue.
WatchFindsMissing(t) ==
  /\ At(t, "deref") /\ t = "watchdog"
  /\ SaysStopped(t)
  /\ Forget(t)
  /\ Request(FALSE)
  /\ Go(t, "recheck")
  /\ UNCHANGED <<tFw, tPort, retryDue, lastMode, lastPort>>
  /\ UNCHANGED <<envVars, kingVars, poolVars, chainVars, applyVars>>

\* healMissingForwarderDirectly looks once more, creates, ...
HealNotNeeded(t) ==
  /\ At(t, "again")
  /\ SaysRunning(t)
  /\ Forget(t)
  /\ Go(t, "idle")
  /\ ThreadOnly /\ UNCHANGED <<tFw, tPort>>

HealCreate(t) ==
  /\ At(t, "again")
  /\ SaysStopped(t)
  /\ Forget(t)
  /\ \E f \in Forwarders : Born(f) /\ tFw' = [tFw EXCEPT ![t] = f]
  /\ Go(t, "install")
  /\ UNCHANGED <<tPort, envVars, kingVars, chainVars, queueVars, applyVars>>

HealCreateFails(t) ==
  /\ At(t, "again")
  /\ SaysStopped(t)
  /\ Forget(t)
  /\ Go(t, "idle")
  /\ Misfortune
  /\ UNCHANGED <<tFw, tPort, kingVars, poolVars, chainVars, queueVars, applyVars>>

\* Variant: the forwarder is installed whatever is there.
HealInstallBlind(t) ==
  /\ At(t, "install")
  /\ fw' = tFw[t] /\ desired' = TRUE
  /\ tFw' = [tFw EXCEPT ![t] = None]
  /\ tPort' = [tPort EXCEPT ![t] = tFw[t]]
  /\ Go(t, "healpin")
  /\ UNCHANGED <<tPtr, published, pubPort>>
  /\ UNCHANGED <<envVars, poolVars, chainVars, queueVars, applyVars>>

\* ... and installs, unless there is one now, whatever the mode is by then.
HealInstall(t) ==
  /\ At(t, "install")
  /\ fw = None
  /\ fw' = tFw[t] /\ desired' = TRUE
  /\ tFw' = [tFw EXCEPT ![t] = None]
  /\ tPort' = [tPort EXCEPT ![t] = tFw[t]]
  /\ Go(t, "healpin")
  /\ UNCHANGED <<tPtr, published, pubPort>>
  /\ UNCHANGED <<envVars, poolVars, chainVars, queueVars, applyVars>>

HealDiscard(t) ==
  /\ At(t, "install")
  /\ fw # None
  /\ Retire(tFw[t])
  /\ tFw' = [tFw EXCEPT ![t] = None]
  /\ Go(t, "idle")
  /\ UNCHANGED <<tPtr, tPort, envVars, kingVars, chainVars, queueVars, applyVars>>

\* The override is pinned to the port, by a heal or by the heartbeat.
Pin(t) ==
  /\ tpc[t] \in {"pin", "healpin"}
  /\ override' = tPort[t]
  /\ Go(t, IF At(t, "pin") THEN "parse" ELSE "healparse")
  /\ UNCHANGED <<tPtr, tFw, tPort, applied, configValid, chainOn, conf>>
  /\ UNCHANGED <<envVars, kingVars, poolVars, queueVars, applyVars>>

\* A heal ends with the reload; the heartbeat goes on to check the chain.
Parse(t, Outcome) ==
  /\ tpc[t] \in {"parse", "healparse"}
  /\ Outcome
  /\ IF At(t, "parse")
     THEN Go(t, "chain") /\ UNCHANGED tPort
     ELSE Go(t, "idle") /\ tPort' = [tPort EXCEPT ![t] = None]
  /\ UNCHANGED <<tPtr, tFw, kingVars, poolVars, queueVars, applyVars>>

\* The applied port is compared, then the publication.
ChainPort(t) ==
  /\ At(t, "chain")
  /\ Go(t, IF applied = tPort[t] THEN "route" ELSE "request")
  /\ ThreadOnly /\ UNCHANGED <<tPtr, tFw, tPort>>

\* Variant: only the applied port is checked, as before version 0.5.62.
RouteUnchecked(t) ==
  /\ At(t, "route")
  /\ Go(t, "idle")
  /\ tPort' = [tPort EXCEPT ![t] = None]
  /\ ThreadOnly /\ UNCHANGED <<tPtr, tFw>>

RouteCheck(t) ==
  /\ At(t, "route")
  /\ IF published
     THEN Go(t, "idle") /\ tPort' = [tPort EXCEPT ![t] = None]
     ELSE Go(t, "request") /\ UNCHANGED tPort
  /\ ThreadOnly /\ UNCHANGED <<tPtr, tFw>>

\* An apply is asked for ...
BeatRequests(t) ==
  /\ At(t, "request")
  /\ Request(FALSE)
  /\ Go(t, "idle")
  /\ tPort' = [tPort EXCEPT ![t] = None]
  /\ UNCHANGED <<tPtr, tFw, retryDue, lastMode, lastPort>>
  /\ UNCHANGED <<envVars, kingVars, poolVars, chainVars, applyVars>>

\* ... unless one was within the last 20 seconds.
BeatHoldsBack(t) ==
  /\ At(t, "request")
  /\ Go(t, "idle")
  /\ tPort' = [tPort EXCEPT ![t] = None]
  /\ ThreadOnly /\ UNCHANGED <<tPtr, tFw>>

Thread(t) ==
  \/ Look(t) \/ LocalPort(t) \/ Watch(t) \/ Load(t)
  \/ BeatFindsRunning(t) \/ BeatFindsMissing(t)
  \/ WatchFindsRunning(t) \/ WatchFindsMissing(t)
  \/ HealNotNeeded(t) \/ HealCreate(t) \/ HealCreateFails(t)
  \/ HealInstall(t) \/ HealDiscard(t)
  \/ Pin(t) \/ Parse(t, ReloadConfig) \/ Parse(t, ReloadFails)
  \/ ChainPort(t) \/ RouteCheck(t) \/ BeatRequests(t) \/ BeatHoldsBack(t)

-----------------------------------------------------------------------------
(* The world.                                                              *)

\* The settings or the network path change; an apply follows, forced by a
\* change of the network.
ChangeMode ==
  /\ events < MaxEvents /\ events' = events + 1
  /\ mode' \in Modes \ {mode}
  /\ \E forced \in BOOLEAN : Request(forced)
  /\ UNCHANGED <<resumeDue, retryDue, lastMode, lastPort>>
  /\ UNCHANGED <<kingVars, poolVars, chainVars, applyVars, threadVars>>

\* iOS suspends the app or locks the screen: the listening sockets are dead.
Suspend ==
  /\ events < MaxEvents /\ events' = events + 1
  /\ deaf' = alive
  /\ resumeDue' = TRUE
  /\ UNCHANGED <<mode, alive>>
  /\ UNCHANGED <<kingVars, chainVars, queueVars, applyVars, threadVars>>

\* The app is in the foreground again: willEnterForeground, didBecomeActive.
Foreground ==
  /\ resumeDue
  /\ resumeDue' = FALSE
  /\ Request(TRUE)
  /\ UNCHANGED <<mode, events, retryDue, lastMode, lastPort>>
  /\ UNCHANGED <<kingVars, poolVars, chainVars, applyVars, threadVars>>

-----------------------------------------------------------------------------
\* proxychains has read the file of an earlier run, if there is one, and the
\* constructor of LCProxyControl asks for the first apply.
Init ==
  /\ mode \in Modes /\ resumeDue = FALSE /\ events = 0
  /\ fw = None /\ desired = FALSE /\ published = FALSE /\ pubPort = None
  /\ alive = {} /\ deaf = {}
  /\ override = None /\ applied = None
  /\ conf \in {"empty", "proxies"} /\ configValid = (conf = "proxies") /\ chainOn = TRUE
  /\ pending = {FALSE} /\ retryDue = FALSE
  /\ lastMode = "none" /\ lastPort = None
  /\ apc = "idle" /\ aForced = FALSE /\ aMode = "none" /\ aFw = None /\ aPort = None
  /\ tpc = [t \in Threads |-> "idle"]
  /\ tPtr = [t \in Threads |-> None]
  /\ tFw = [t \in Threads |-> None]
  /\ tPort = [t \in Threads |-> None]

Next ==
  \/ Apply
  \/ \E t \in Threads : Thread(t)
  \/ ChangeMode
  \/ Suspend
  \/ Foreground

Spec == Init /\ [][Next]_vars

\* The runtime queue, its timers and those of LCProxyKing run, and the
\* heartbeat is not held back for ever: its limit is 20 seconds.
Fairness ==
  /\ WF_vars(Apply)
  /\ \A t \in Threads : WF_vars(Thread(t)) /\ SF_vars(BeatRequests(t))

\* The app comes back to the foreground, too.
LiveSpec == Spec /\ Fairness /\ WF_vars(Foreground)

-----------------------------------------------------------------------------
(* Properties.                                                             *)

Ports == Forwarders \union {None}
Places == {"idle", "port", "load", "deref", "recheck", "again", "install", "pin",
           "parse", "healpin", "healparse", "chain", "route", "request"}

\* Every variable stays within its type; only living sockets are deaf.
TypeOK ==
  /\ mode \in Modes /\ resumeDue \in BOOLEAN /\ events \in 0 .. MaxEvents
  /\ fw \in Ports /\ desired \in BOOLEAN /\ published \in BOOLEAN /\ pubPort \in Ports
  /\ alive \subseteq Forwarders /\ deaf \subseteq alive
  /\ override \in Ports /\ applied \in Ports
  /\ configValid \in BOOLEAN /\ chainOn \in BOOLEAN /\ conf \in {"empty", "proxies"}
  /\ pending \subseteq BOOLEAN /\ retryDue \in BOOLEAN
  /\ lastMode \in Modes \union {"none"} /\ lastPort \in Ports
  /\ apc \in {"idle", "check", "replace", "stop", "create", "install", "port", "pin",
              "write", "reload", "publish", "close"}
  /\ aForced \in BOOLEAN /\ aMode \in Modes \union {"none"} /\ aFw \in Ports /\ aPort \in Ports
  /\ tpc \in [Threads -> Places]
  /\ tPtr \in [Threads -> Ports] /\ tFw \in [Threads -> Ports] /\ tPort \in [Threads -> Ports]

\* However heals and applies interleave, a forwarder that is alive belongs to
\* LCProxyKing, to the apply that replaces or starts it, or to the heal that
\* starts it, and to one of them only: none is lost while its threads and its
\* port live on, and none has two owners who would both stop and free it.
OneOwnerEach ==
  /\ alive = ({fw, aFw} \union {tFw[t] : t \in Threads}) \ {None}
  /\ fw # None => fw # aFw
  /\ \A t \in Threads : tFw[t] # None =>
       tFw[t] \notin {fw, aFw} /\ \A u \in Threads \ {t} : tFw[u] # tFw[t]

\* An installed forwarder is under the eye of the heartbeat, which looks only
\* when desiredForwarderRunning is set.
WatchedWhileInstalled == fw # None => desired

\* While the route is published the published port is that of the forwarder
\* installed, and the chain is switched on.  The first hop of the chain may be
\* an earlier forwarder for a while: publishRouteForSettings looks at the one
\* installed at that moment, and a heal may have installed it after the apply
\* read its port.
PublishedIsInstalled == published => fw # None /\ pubPort = fw /\ chainOn

\* isRunning never asks a forwarder that has been freed ("self.forwarder is
\* accessed with the lock held everywhere else", LCProxyKing.m).
NoUseAfterFree ==
  \A t \in Threads : tpc[t] \in {"deref", "again"} /\ tPtr[t] # None => tPtr[t] \in alive

Serving == fw # None /\ Listening(fw) /\ override = fw /\ applied = fw /\ published

\* In king card mode the forwarder, the chain and the route come back together
\* again and again, whatever failed on the way.  A forwarder whose listening
\* socket has died is missed by the heartbeat, which asks isRunning only, and is
\* rebuilt when the app comes to the foreground.
Recovers == <>[](mode = "king") => []<>Serving

\* With the king card off for good no forwarder stays: one that a heal puts
\* back after the apply is noticed by the heartbeat and taken down again.
OffStops == <>[](mode # "king") => []<>(fw = None)
=============================================================================
