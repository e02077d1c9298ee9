----------------------------- MODULE Foreground -----------------------------
(***************************************************************************)
(* What makes LCProxyConfig apply the settings again: the app comes back   *)
(* to the foreground, or the network changes.  iOS and its timers put      *)
(* blocks on the serial runtime queue; a block notes something and may put *)
(* an apply behind those that wait.  With kingAutoDirectOnNonCellular the  *)
(* path that was heard of last decides whether an apply goes direct.       *)
(*                                                                         *)
(* An apply is one step here: what it does, and its own retries, is        *)
(* KingLifecycle.  While the app is frozen nothing of it runs.             *)
(***************************************************************************)
EXTENDS Integers, Sequences

CONSTANTS
  MaxBlocks,   \* bound on the queue for timers and handlers to post
  MaxFgEvents  \* bound on what users and networks do

ASSUME ForegroundAssumption == MaxBlocks \in Nat \ {0} /\ MaxFgEvents \in Nat

VARIABLES
  phase,      \* of the app: loading, inactive, active, background, frozen
  lifecycle,  \* lifecycleState; stuck: foregrounding for 15 seconds or more
  dead,       \* the app was frozen and its sockets have not been renewed
  path,       \* the network there is
  monitor,    \* the path monitor: none, due (it has a path to report), idle, silent
  reports,    \* paths its handlers have read and not yet put on the queue
  lastPath,   \* lastPathState, and the path known to proxychains
  overdue,    \* lastPathUpdateAt is more than ten seconds ago
  auto,       \* king card mode with kingAutoDirectOnNonCellular
  direct,     \* lc_proxy_disabled: connections pass by the proxy
  lastDirect, \* lastAppliedShouldDirect
  blocks,     \* the runtime queue
  fgEvents    \* events so far

appVars == <<phase, lifecycle, dead>>
pathVars == <<path, monitor, reports, lastPath, overdue>>
modeVars == <<auto, direct, lastDirect>>
foregroundVars == <<appVars, pathVars, modeVars, blocks, fgEvents>>

Paths == {"wifi", "other"}
Notices == {"background", "foreground", "active"}
Blocks == Notices \cup Paths \cup {"start", "timer", "apply", "forced"}

-----------------------------------------------------------------------------
(* The runtime queue.                                                      *)

Runs(b) == phase # "frozen" /\ blocks # <<>> /\ Head(blocks) = b
Posts(b) == blocks' = Append(blocks, b)
RunsAndPosts(b) == blocks' = Append(Tail(blocks), b)
Done == blocks' = Tail(blocks)

\* Direct only when the path is known, satisfied and not cellular.
ShouldDirect == lastPath = "wifi"
AsNumber(b) == IF b THEN 1 ELSE 0

\* applyRuntimeSnapshot; a forced one renews the sockets.
Apply(b) ==
  /\ Runs(b) /\ Done
  /\ direct' = (auto /\ ShouldDirect)
  /\ lastDirect' = AsNumber(ShouldDirect)
  /\ dead' = (dead /\ b # "forced")
  /\ UNCHANGED <<phase, lifecycle, pathVars, auto, fgEvents>>

\* notifyDidEnterBackground.
NoteBackground ==
  /\ Runs("background") /\ Done
  /\ lifecycle' = "background"
  /\ UNCHANGED <<phase, dead, pathVars, modeVars, fgEvents>>

\* requestForegroundRecoveryAsync: the second of two notices does nothing.
NoteForeground ==
  /\ Runs("foreground")
  /\ lifecycle' = "foregrounding"
  /\ IF lifecycle = "foregrounding" THEN Done ELSE RunsAndPosts("forced")
  /\ UNCHANGED <<phase, dead, pathVars, modeVars, fgEvents>>

\* Variant: only willEnterForeground recovers.
MissedForegroundIgnored == FALSE

\* It was in the background, and willEnterForeground was missed, or its
\* recovery got stuck.
MissedForeground ==
  lifecycle \in {"background", "stuck"}

\* notifyDidBecomeActive.
NoteActive ==
  /\ Runs("active")
  /\ IF MissedForeground THEN RunsAndPosts("forced")
     ELSE IF lifecycle = "foregrounding" THEN Done
     ELSE RunsAndPosts("apply")
  /\ lifecycle' = "active"
  /\ UNCHANGED <<phase, dead, pathVars, modeVars, fgEvents>>

\* A new monitor reports the path there is.
NewMonitor == monitor' = "due"

\* startNetworkMonitorOnRuntimeQueue.
StartMonitor ==
  /\ Runs("start") /\ Done
  /\ NewMonitor
  /\ UNCHANGED <<appVars, path, reports, lastPath, overdue, modeVars, fgEvents>>

\* handleNetworkPath, on the queue.
NotePath(p) ==
  /\ Runs(p)
  /\ IF lastPath # p THEN RunsAndPosts("forced") ELSE Done
  /\ lastPath' = p
  /\ overdue' = FALSE
  /\ UNCHANGED <<appVars, path, monitor, reports, modeVars, fgEvents>>

\* Variant: a monitor that has fallen silent is trusted.
MonitorTrusted == UNCHANGED monitor

MonitorChecked == IF overdue THEN NewMonitor ELSE UNCHANGED monitor

\* checkNetworkAndApplyIfNeeded.
CheckNetwork ==
  /\ Runs("timer")
  /\ IF auto
     THEN /\ MonitorChecked
          /\ IF lastDirect # AsNumber(ShouldDirect) THEN RunsAndPosts("forced") ELSE Done
          /\ UNCHANGED lastDirect
     ELSE Done /\ lastDirect' = -1 /\ UNCHANGED monitor
  /\ UNCHANGED <<appVars, path, reports, lastPath, overdue, auto, direct, fgEvents>>

RuntimeQueue ==
  \/ Apply("apply") \/ Apply("forced")
  \/ NoteBackground \/ NoteForeground \/ NoteActive
  \/ StartMonitor \/ CheckNetwork \/ \E p \in Paths : NotePath(p)

-----------------------------------------------------------------------------
(* Timers and handlers.                                                    *)

\* The timer of the network monitor, every two seconds.
NetworkTimer ==
  /\ phase # "frozen" /\ monitor # "none" /\ Len(blocks) < MaxBlocks
  /\ Posts("timer")
  /\ UNCHANGED <<appVars, pathVars, modeVars, fgEvents>>

\* The handler of the monitor, on a concurrent queue: it reads the path ...
HandlerReads ==
  /\ phase # "frozen" /\ monitor = "due"
  /\ monitor' = "idle" /\ reports' = reports \cup {path}
  /\ UNCHANGED <<appVars, path, lastPath, overdue, modeVars, blocks, fgEvents>>

\* ... and puts it on the runtime queue, perhaps behind that of a later one.
HandlerPosts(p) ==
  /\ phase # "frozen" /\ p \in reports /\ Len(blocks) < MaxBlocks
  /\ reports' = reports \ {p}
  /\ Posts(p)
  /\ UNCHANGED <<appVars, path, monitor, lastPath, overdue, modeVars, fgEvents>>

FifteenSeconds ==
  /\ lifecycle = "foregrounding" /\ lifecycle' = "stuck"
  /\ UNCHANGED <<phase, dead, pathVars, modeVars, blocks, fgEvents>>

TenSeconds ==
  /\ ~overdue /\ overdue' = TRUE
  /\ UNCHANGED <<appVars, path, monitor, reports, lastPath, modeVars, blocks, fgEvents>>

-----------------------------------------------------------------------------
(* iOS, the user and the network.                                          *)

FgEvent == fgEvents < MaxFgEvents /\ fgEvents' = fgEvents + 1

\* The constructor has applied the settings and asks for the monitor.
Load ==
  /\ phase = "loading" /\ phase' = "inactive"
  /\ path' \in Paths
  /\ Posts("start")
  /\ UNCHANGED <<lifecycle, dead, monitor, reports, lastPath, overdue, modeVars, fgEvents>>

EnterBackground ==
  /\ FgEvent
  /\ phase \in {"active", "inactive"} /\ phase' = "background"
  /\ Posts("background")
  /\ UNCHANGED <<lifecycle, dead, pathVars, modeVars>>

\* Sockets die, the network may be another one when the app wakes, and the
\* monitor may never report again.
Freeze ==
  /\ phase = "background" /\ phase' = "frozen"
  /\ dead' = TRUE
  /\ path' \in Paths
  /\ monitor' \in IF monitor = "none" THEN {"none"} ELSE {"due", "silent"}
  /\ UNCHANGED <<lifecycle, reports, lastPath, overdue, modeVars, blocks, fgEvents>>

\* willEnterForeground may be missed.
Return ==
  /\ phase \in {"background", "frozen"} /\ phase' = "inactive"
  /\ Posts("foreground") \/ UNCHANGED blocks
  /\ UNCHANGED <<lifecycle, dead, pathVars, modeVars, fgEvents>>

BecomeActive ==
  /\ phase = "inactive" /\ phase' = "active"
  /\ Posts("active")
  /\ UNCHANGED <<lifecycle, dead, pathVars, modeVars, fgEvents>>

NetworkChanges ==
  /\ FgEvent
  /\ phase # "loading" /\ path' \in Paths \ {path}
  /\ monitor' = IF monitor = "idle" THEN "due" ELSE monitor
  /\ UNCHANGED <<appVars, reports, lastPath, overdue, modeVars, blocks>>

\* The console saves the settings and applies them.
SaveSettings ==
  /\ FgEvent
  /\ phase \notin {"loading", "frozen"}
  /\ auto' = ~auto
  /\ Posts("apply")
  /\ UNCHANGED <<appVars, pathVars, direct, lastDirect>>

-----------------------------------------------------------------------------
\* Before the library is loaded.
ForegroundInit ==
  /\ phase = "loading" /\ lifecycle = "active" /\ dead = FALSE
  /\ path = "other" /\ monitor = "none" /\ reports = {}
  /\ lastPath = "nothing" /\ overdue = TRUE
  /\ auto = TRUE /\ direct = FALSE /\ lastDirect = 0
  /\ blocks = <<>> /\ fgEvents = 0

ForegroundNext ==
  \/ RuntimeQueue
  \/ NetworkTimer \/ HandlerReads \/ \E p \in Paths : HandlerPosts(p)
  \/ FifteenSeconds \/ TenSeconds
  \/ Load \/ EnterBackground \/ Freeze \/ Return \/ BecomeActive
  \/ NetworkChanges \/ SaveSettings

ForegroundSpec == ForegroundInit /\ [][ForegroundNext]_foregroundVars

\* The queue, the timers and the clock run, the app comes back in the end, and a
\* new monitor reports before the timer, two seconds later, replaces it again.
ForegroundFairness ==
  /\ WF_foregroundVars(RuntimeQueue) /\ WF_foregroundVars(TenSeconds)
  /\ WF_foregroundVars(Return \/ BecomeActive) /\ WF_foregroundVars(HandlerReads)
  /\ \A p \in Paths : SF_foregroundVars(HandlerPosts(p))
  /\ SF_foregroundVars(NetworkTimer)

ForegroundLive == ForegroundSpec /\ ForegroundFairness

-----------------------------------------------------------------------------
(* Properties                                                              *)

\* Every variable keeps its type.
ForegroundTypeOK ==
  /\ phase \in {"loading", "active", "inactive", "background", "frozen"}
  /\ lifecycle \in {"active", "background", "foregrounding", "stuck"}
  /\ path \in Paths /\ monitor \in {"none", "due", "idle", "silent"}
  /\ reports \subseteq Paths /\ lastPath \in Paths \cup {"nothing"}
  /\ blocks \in Seq(Blocks)

\* Whatever monitors miss, repeat or report late, connections end up on the
\* side of the proxy that the network and the settings ask for.
ModeFollowsPath == []<>(direct = (auto /\ path = "wifi"))

\* Sockets that died while the app was frozen have been renewed when the app is
\* active and the queue has run, whichever notices of its return arrived.
RecoveredWhenIdle == phase = "active" /\ blocks = <<>> => ~dead
=============================================================================
