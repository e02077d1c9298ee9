--------------------------- MODULE RecoveryProofs ---------------------------
(***************************************************************************)
(* What comes back by itself: the types of Credentials, whose refresh      *)
(* renews a token, and of Foreground, which renews the sockets of a frozen *)
(* app, with the promise of the latter.                                    *)
(***************************************************************************)
EXTENDS Credentials, Foreground, TLAPS

-----------------------------------------------------------------------------
(* The types of Credentials, for any number of events, and with them that  *)
(* no forwarder that is down has a king state: what a refresh that         *)
(* outlives its forwarder, or an apply, installs is for the one that is    *)
(* there.                                                                  *)

\* The bundles of variables that actions leave alone, spelled out.
USE DEF fwVars, refreshVars, worldVars

\* What loadState returns is a state.
LEMMA LoadStateType ==
  ASSUME CredTypeOK
  PROVE  LoadState \subseteq States
BY DEF CredTypeOK, LoadState, States, State, Nothing, Identities, Lives

\* An identity that is voided stays an identity, and nothing stays nothing.
LEMMA VoidType ==
  ASSUME NEW i \in Identities
  PROVE  Void(i) \in Identities /\ (i = "none" => Void(i) = "none")
BY DEF Identities, Void

\* A state that is voided stays a state.
LEMMA VoidStateType ==
  ASSUME NEW s \in States
  PROVE  VoidState(s) \in States
BY DEF States, State, Identities, Lives, Void, VoidState

\* At first every variable has its type.
LEMMA TypeInit == CredInit => CredTypeOK
<1> SUFFICES ASSUME CredInit PROVE CredTypeOK
  OBVIOUS
<1>1. renew \in BOOLEAN /\ reachable \in BOOLEAN
  BY Zenon DEF CredInit
<1>2. cache \in States /\ seen \in [Installers -> Identities]
  BY DEF CredInit, Nothing, State, States, Identities, Lives
<1>3. credEvents \in 0 .. MaxCredEvents
  BY CredentialsAssumption DEF CredInit
<1> QED
  BY <1>1, <1>2, <1>3 DEF CredInit, CredTypeOK, Identities, RefreshFlags, RefreshKinds

\* A step of one of the apps' connections or of a starter.
LEMMA TypeBegin ==
  ASSUME CredTypeOK, AppTraffic \/ Begin \/ Coalesced
  PROVE  CredTypeOK'
<1> USE DEF CredTypeOK, RefreshFlags, RefreshKinds
<1>1. CASE AppTraffic
  BY <1>1 DEF AppTraffic, Unserved, Rejected, Background
<1>2. CASE Begin
  <2>1. renew' \in BOOLEAN
    BY <1>2, Zenon DEF Begin, TimerFires, RetryFires, Dispatched, Begins
  <2>2. PICK kind \in RefreshKinds : Begins(kind)
    BY <1>2 DEF Begin, TimerFires, RetryFires, Dispatched
  <2>3. asked' \subseteq asked /\ flags' \subseteq flags
    BY <1>2 DEF Begin, TimerFires, RetryFires, Dispatched
  <2> HIDE DEF RefreshFlags, RefreshKinds
  <2> QED BY <2>1, <2>2, <2>3 DEF Begins, RefreshGoes
<1>3. CASE Coalesced
  BY <1>3 DEF Coalesced
<1> QED BY <1>1, <1>2, <1>3

\* A step of a refresh.
LEMMA TypeRefresh ==
  ASSUME CredTypeOK, Refresh
  PROVE  CredTypeOK'
<1> USE DEF CredTypeOK, RefreshFlags, RefreshKinds, RefreshGoes
<1>0. LoadState \subseteq States
  BY LoadStateType
<1>s. \A s \in States : s.identity \in Identities
  BY DEF States
<1>1. CASE Watchdog
  BY <1>1 DEF Watchdog
<1>2. CASE ReadState
  BY <1>0, <1>s, <1>2 DEF ReadState, Identities
<1>3. CASE ReadReset
  BY <1>0, <1>3 DEF ReadReset, Identities
<1>4. CASE KeepGuid
  BY <1>4 DEF KeepGuid
<1>5. CASE FetchGuid
  <2>1. cache' \in States /\ logged' \in Identities /\ installed' \in Identities
        /\ seen' \in [Installers -> Identities] /\ (installed = "none" => installed' = "none")
    BY <1>5, VoidType, VoidStateType DEF FetchGuid, CarrierVoids
  <2> QED BY <1>5, <2>1 DEF FetchGuid, Identities
<1>6. CASE MakeGuid
  BY <1>6 DEF MakeGuid, Identities
<1>7. CASE KeepToken
  BY <1>7 DEF KeepToken, Kept, Identities
<1>8. CASE FetchToken
  BY <1>8 DEF FetchToken, Kept, Identities
<1>9. CASE FetchPool
  BY <1>9 DEF FetchPool
<1>10. CASE FetchFails
  BY <1>10 DEF FetchFails
<1>11. CASE AppendRecord
  <2>1. renew' \in BOOLEAN /\ reachable' \in BOOLEAN
    BY <1>11, Zenon DEF AppendRecord
  <2>2. cache' \in States /\ logged' \in Identities /\ guid' \in Identities
    BY <1>11 DEF AppendRecord, State, States, Lives, Identities
  <2> QED BY <1>11, <2>1, <2>2 DEF AppendRecord
<1>12. CASE RefreshLooks
  BY <1>0, <1>s, <1>12 DEF RefreshLooks, LoadFor, Identities
<1>13. CASE RefreshInstalls
  BY <1>13 DEF RefreshInstalls, Install, Installers, Identities
<1>14. CASE FailServing
  BY <1>0, <1>14 DEF FailServing, Failed, Identities
<1>15. CASE FailBare
  BY <1>0, <1>15 DEF FailBare, Failed, Identities
<1> QED BY <1>1, <1>2, <1>3, <1>4, <1>5, <1>6, <1>7, <1>8, <1>9, <1>10, <1>11, <1>12,
           <1>13, <1>14, <1>15 DEF Refresh

\* A step of an apply.
LEMMA TypeApplies ==
  ASSUME CredTypeOK, Applies
  PROVE  CredTypeOK'
<1> USE DEF CredTypeOK, RefreshFlags, RefreshKinds, ApplyGoes
<1>0. LoadState \subseteq States
  BY LoadStateType
<1>s. \A s \in States : s.identity \in Identities
  BY DEF States
<1>1. CASE ApplyReuses
  BY <1>1 DEF ApplyReuses
<1>2. CASE ApplyRebuilds
  BY <1>2 DEF ApplyRebuilds
<1>3. CASE Publish
  BY <1>3 DEF Publish
<1>4. CASE PublishFails
  BY <1>4 DEF PublishFails
<1>5. CASE ApplyLooks
  BY <1>0, <1>s, <1>5 DEF ApplyLooks, LoadFor, Identities
<1>6. CASE ApplyInstalls
  BY <1>0, <1>6 DEF ApplyInstalls, Install, Installers, Identities
<1> QED BY <1>1, <1>2, <1>3, <1>4, <1>5, <1>6 DEF Applies

\* A step of the world around.
LEMMA TypeWorld ==
  ASSUME CredTypeOK, World
  PROVE  CredTypeOK'
<1> USE CredentialsAssumption DEF CredTypeOK, RefreshFlags, RefreshKinds, CredEvent
<1>1. CASE TimePasses
  BY <1>1 DEF TimePasses, States, Lives
<1>2. CASE Console
  BY <1>2 DEF Console
<1>3. CASE Outage
  <2>1. renew' \in BOOLEAN /\ reachable' \in BOOLEAN
    BY <1>3, Zenon DEF Outage
  <2>2. credEvents' \in 0 .. MaxCredEvents
    BY <1>3 DEF Outage
  <2> QED BY <1>3, <2>1, <2>2 DEF Outage
<1>4. CASE OutageEnds
  BY <1>4 DEF OutageEnds
<1>5. CASE OtherApp
  <2>1. cache' \in States /\ guid' \in Identities /\ installed' \in Identities
        /\ seen' \in [Installers -> Identities] /\ (installed = "none" => installed' = "none")
    BY <1>5, VoidType, VoidStateType DEF OtherApp
  <2> QED BY <1>5, <2>1 DEF OtherApp, Identities
<1>6. CASE SettingsChange
  BY <1>6 DEF SettingsChange, States, Lives, Identities
<1>7. CASE Reapply
  BY <1>7 DEF Reapply
<1>8. CASE ForwarderDies
  BY <1>8 DEF ForwarderDies, Identities
<1>9. CASE Restart
  <2>1. renew' \in BOOLEAN /\ reachable' \in BOOLEAN
    BY <1>9, Zenon DEF Restart
  <2>2. cache' \in States /\ seen' \in [Installers -> Identities]
    BY <1>9 DEF Restart, Nothing, State, States, Lives, Identities
  <2>3. credEvents' \in 0 .. MaxCredEvents
    BY <1>9 DEF Restart
  <2> QED BY <1>9, <2>1, <2>2, <2>3 DEF Restart, Identities
<1> QED BY <1>1, <1>2, <1>3, <1>4, <1>5, <1>6, <1>7, <1>8, <1>9 DEF World

\* Every variable keeps its type, whatever refreshes, applies, other apps and
\* restarts interleave, and a forwarder that is down has no king state.
THEOREM CredentialTypesCorrect == CredSpec => []CredTypeOK
<1>1. CredInit => CredTypeOK
  BY TypeInit
<1>2. CredTypeOK /\ [CredNext]_credVars => CredTypeOK'
  <2> SUFFICES ASSUME CredTypeOK, [CredNext]_credVars PROVE CredTypeOK'
    OBVIOUS
  <2>1. CASE CredNext
    BY <2>1, TypeBegin, TypeRefresh, TypeApplies, TypeWorld DEF CredNext
  <2>2. CASE UNCHANGED credVars
    BY <2>2 DEF credVars, CredTypeOK
  <2> QED BY <2>1, <2>2
<1> QED BY <1>1, <1>2, PTL DEF CredSpec

-----------------------------------------------------------------------------
(* Foreground: types, and that the sockets of a frozen app are renewed,    *)
(* however long the queue gets and whichever notices arrive.               *)

(* A recovery is owed while the app is away: the queue holds, or has just   *)
(* run, the notice that it went into the background, and the first notice   *)
(* of its return behind that one asks for a recovery.                       *)

\* The notice of the background is the k-th block, or was the last to be run.
AtBackground(k) ==
  \/ k = 0 /\ lifecycle = "background"
  \/ k \in 1 .. Len(blocks) /\ blocks[k] = "background"

Away ==
  phase \in {"background", "frozen"} =>
    \E k \in 0 .. Len(blocks) :
      AtBackground(k) /\ \A i \in k + 1 .. Len(blocks) : blocks[i] \notin {"foreground", "active"}

Pending == \E i \in 1 .. Len(blocks) : blocks[i] = "forced"

Owed ==
  dead => \/ Pending
          \/ \E k \in 0 .. Len(blocks) :
               /\ AtBackground(k)
               /\ phase = "active" => \E i \in k + 1 .. Len(blocks) : blocks[i] = "active"

ForegroundInv == ForegroundTypeOK /\ Away /\ Owed

\* What running the first block does to the others: they move up by one, and at
\* most an apply comes behind them.
LEMMA BlocksMoveUp ==
  ASSUME blocks \in Seq(Blocks), blocks # <<>>,
         Done \/ RunsAndPosts("apply") \/ RunsAndPosts("forced")
  PROVE  /\ blocks' \in Seq(Blocks)
         /\ Len(blocks) \in Nat \ {0} /\ Len(blocks') \in {Len(blocks) - 1, Len(blocks)}
         /\ \A i \in 1 .. Len(blocks) - 1 : blocks'[i] = blocks[i + 1]
         /\ Len(blocks') = Len(blocks) => blocks'[Len(blocks)] \in {"apply", "forced"}
<1>1. CASE Done
  BY <1>1 DEF Done
<1>2. CASE RunsAndPosts("apply")
  BY <1>2 DEF RunsAndPosts, Blocks, Notices, Paths
<1>3. CASE RunsAndPosts("forced")
  BY <1>3 DEF RunsAndPosts, Blocks, Notices, Paths
<1> QED
  BY <1>1, <1>2, <1>3

\* What posting a block does.
LEMMA BlocksPosted ==
  ASSUME NEW b \in Blocks, blocks \in Seq(Blocks), Posts(b)
  PROVE  /\ blocks' \in Seq(Blocks)
         /\ Len(blocks) \in Nat /\ Len(blocks') = Len(blocks) + 1
         /\ \A i \in 1 .. Len(blocks) : blocks'[i] = blocks[i]
         /\ blocks'[Len(blocks) + 1] = b
BY DEF Posts

\* Every step keeps the types.
LEMMA ForegroundTypeStep == ForegroundTypeOK /\ [ForegroundNext]_foregroundVars => ForegroundTypeOK'
<1> SUFFICES ASSUME ForegroundTypeOK, [ForegroundNext]_foregroundVars PROVE ForegroundTypeOK'
  OBVIOUS
<1> USE DEF ForegroundTypeOK
<1>1. blocks' \in Seq(Blocks)
  <2> USE DEF Runs, RunsAndPosts, Done, Posts, Blocks, Notices, Paths
  <2>1. CASE RuntimeQueue
    BY <2>1 DEF RuntimeQueue, Apply, NoteBackground, NoteForeground, NoteActive, StartMonitor,
                CheckNetwork, NotePath
  <2>2. CASE NetworkTimer \/ HandlerReads \/ \E p \in Paths : HandlerPosts(p)
    BY <2>2 DEF NetworkTimer, HandlerReads, HandlerPosts
  <2>3. CASE FifteenSeconds \/ TenSeconds \/ Freeze \/ NetworkChanges
    BY <2>3 DEF FifteenSeconds, TenSeconds, Freeze, NetworkChanges
  <2>4. CASE Load \/ EnterBackground \/ Return \/ BecomeActive \/ SaveSettings
    BY <2>4 DEF Load, EnterBackground, Return, BecomeActive, SaveSettings
  <2>5. CASE UNCHANGED foregroundVars
    BY <2>5 DEF foregroundVars
  <2> QED
    BY <2>1, <2>2, <2>3, <2>4, <2>5 DEF ForegroundNext
<1>2. /\ phase' \in {"loading", "active", "inactive", "background", "frozen"}
      /\ lifecycle' \in {"active", "background", "foregrounding", "stuck"}
      /\ path' \in Paths /\ monitor' \in {"none", "due", "idle", "silent"}
      /\ reports' \subseteq Paths /\ lastPath' \in Paths \cup {"nothing"}
  <2> USE DEF appVars, pathVars, modeVars
  <2>1. CASE RuntimeQueue
    BY <2>1 DEF RuntimeQueue, Apply, NoteBackground, NoteForeground, NoteActive, StartMonitor,
                CheckNetwork, NotePath, NewMonitor, MonitorChecked
  <2>2. CASE NetworkTimer \/ HandlerReads \/ \E p \in Paths : HandlerPosts(p)
    BY <2>2 DEF NetworkTimer, HandlerReads, HandlerPosts
  <2>3. CASE FifteenSeconds \/ TenSeconds \/ Freeze \/ NetworkChanges
    BY <2>3 DEF FifteenSeconds, TenSeconds, Freeze, NetworkChanges
  <2>4. CASE Load \/ EnterBackground \/ Return \/ BecomeActive \/ SaveSettings
    BY <2>4 DEF Load, EnterBackground, Return, BecomeActive, SaveSettings
  <2>5. CASE UNCHANGED foregroundVars
    BY <2>5 DEF foregroundVars
  <2> QED
    BY <2>1, <2>2, <2>3, <2>4, <2>5 DEF ForegroundNext
<1> QED
  BY <1>1, <1>2

\* However long the queue gets, every variable keeps its type.
THEOREM ForegroundTypesCorrect == ForegroundSpec => []ForegroundTypeOK
<1>1. ForegroundInit => ForegroundTypeOK
  BY DEF ForegroundInit, ForegroundTypeOK, Paths
<1> QED
  BY <1>1, ForegroundTypeStep, PTL DEF ForegroundSpec

-----------------------------------------------------------------------------
(* What a recovery is owed for stays in the queue.                          *)

\* The index that a block has when the first one has been run.
Up(k) == IF k = 0 THEN 0 ELSE k - 1

\* A block that is no notice of the return keeps what is owed.
LEMMA OwedMovesUp ==
  ASSUME ForegroundInv, blocks # <<>>, UNCHANGED phase, dead' => dead,
         Done \/ RunsAndPosts("apply") \/ RunsAndPosts("forced"),
         dead' => Head(blocks) # "forced",
         \/ Head(blocks) \notin Notices /\ UNCHANGED lifecycle
         \/ Head(blocks) = "background" /\ lifecycle' = "background"
  PROVE  Away' /\ Owed'
<1>1. /\ Len(blocks) \in Nat \ {0} /\ Len(blocks') \in {Len(blocks) - 1, Len(blocks)}
      /\ \A i \in 1 .. Len(blocks) - 1 : blocks'[i] = blocks[i + 1]
      /\ Len(blocks') = Len(blocks) => blocks'[Len(blocks)] \in {"apply", "forced"}
  BY BlocksMoveUp DEF ForegroundInv, ForegroundTypeOK
<1>2. Head(blocks) = blocks[1]
  BY DEF ForegroundInv, ForegroundTypeOK
<1>3. ASSUME NEW k \in 0 .. Len(blocks), AtBackground(k)
      PROVE  Up(k) \in 0 .. Len(blocks') /\ AtBackground(Up(k))'
  BY <1>1, <1>2, <1>3 DEF AtBackground, Up, Notices
<1>4. Away'
  <2> SUFFICES ASSUME phase \in {"background", "frozen"}
               PROVE  \E k \in 0 .. Len(blocks') : AtBackground(k)' /\
                        \A i \in k + 1 .. Len(blocks') : blocks'[i] \notin {"foreground", "active"}
    BY DEF Away
  <2>1. PICK k \in 0 .. Len(blocks) :
          AtBackground(k) /\ \A i \in k + 1 .. Len(blocks) : blocks[i] \notin {"foreground", "active"}
    BY DEF ForegroundInv, Away
  <2>2. \A i \in Up(k) + 1 .. Len(blocks') : blocks'[i] \notin {"foreground", "active"}
    BY <1>1, <2>1 DEF Up
  <2> QED
    BY <1>3, <2>1, <2>2
<1>5. Owed'
  <2> SUFFICES ASSUME dead'
               PROVE  \/ Pending'
                      \/ \E k \in 0 .. Len(blocks') :
                           /\ AtBackground(k)'
                           /\ phase = "active" => \E i \in k + 1 .. Len(blocks') : blocks'[i] = "active"
    BY DEF Owed
  <2>1. CASE Pending
    <3>1. PICK i \in 1 .. Len(blocks) : blocks[i] = "forced"
      BY <2>1 DEF Pending
    <3>2. i # 1
      BY <3>1, <1>2
    <3>3. i - 1 \in 1 .. Len(blocks') /\ blocks'[i - 1] = "forced"
      BY <3>1, <3>2, <1>1
    <3> QED
      BY <3>3 DEF Pending
  <2>2. CASE \E k \in 0 .. Len(blocks) :
               /\ AtBackground(k)
               /\ phase = "active" => \E i \in k + 1 .. Len(blocks) : blocks[i] = "active"
    <3>1. PICK k \in 0 .. Len(blocks) :
               /\ AtBackground(k)
               /\ phase = "active" => \E i \in k + 1 .. Len(blocks) : blocks[i] = "active"
      BY <2>2
    <3>2. phase = "active" => \E i \in Up(k) + 1 .. Len(blocks') : blocks'[i] = "active"
      <4> SUFFICES ASSUME phase = "active"
                   PROVE  \E i \in Up(k) + 1 .. Len(blocks') : blocks'[i] = "active"
        OBVIOUS
      <4>1. PICK i \in k + 1 .. Len(blocks) : blocks[i] = "active"
        BY <3>1
      <4>2. i # 1
        BY <4>1, <1>2 DEF Notices
      <4>3. i - 1 \in Up(k) + 1 .. Len(blocks') /\ blocks'[i - 1] = "active"
        BY <4>1, <4>2, <1>1 DEF Up
      <4> QED
        BY <4>3
    <3> QED
      BY <1>3, <3>1, <3>2
  <2> QED
    BY <2>1, <2>2 DEF ForegroundInv, Owed
<1> QED
  BY <1>4, <1>5

\* The first notice of the return that is run in the background asks for a
\* recovery; one before the notice of the background changes nothing.
LEMMA OwedAtReturn ==
  ASSUME ForegroundInv, blocks # <<>>, UNCHANGED <<phase, dead>>,
         Head(blocks) \in {"foreground", "active"},
         Done \/ RunsAndPosts("apply") \/ RunsAndPosts("forced"),
         lifecycle = "background" => RunsAndPosts("forced")
  PROVE  Away' /\ Owed'
<1>1. /\ Len(blocks) \in Nat \ {0} /\ Len(blocks') \in {Len(blocks) - 1, Len(blocks)}
      /\ \A i \in 1 .. Len(blocks) - 1 : blocks'[i] = blocks[i + 1]
      /\ Len(blocks') = Len(blocks) => blocks'[Len(blocks)] \in {"apply", "forced"}
  BY BlocksMoveUp DEF ForegroundInv, ForegroundTypeOK
<1>2. Head(blocks) = blocks[1]
  BY DEF ForegroundInv, ForegroundTypeOK
<1>3. ASSUME NEW k \in 1 .. Len(blocks), AtBackground(k)
      PROVE  k - 1 \in 1 .. Len(blocks') /\ AtBackground(k - 1)'
  BY <1>1, <1>2, <1>3 DEF AtBackground
<1>4. Away'
  <2> SUFFICES ASSUME phase \in {"background", "frozen"}
               PROVE  \E k \in 0 .. Len(blocks') : AtBackground(k)' /\
                        \A i \in k + 1 .. Len(blocks') : blocks'[i] \notin {"foreground", "active"}
    BY DEF Away
  <2>1. PICK k \in 0 .. Len(blocks) :
          AtBackground(k) /\ \A i \in k + 1 .. Len(blocks) : blocks[i] \notin {"foreground", "active"}
    BY DEF ForegroundInv, Away
  <2>2. k \in 1 .. Len(blocks)
    BY <2>1, <1>1, <1>2
  <2>3. \A i \in k .. Len(blocks') : blocks'[i] \notin {"foreground", "active"}
    BY <1>1, <2>1, <2>2
  <2> QED
    BY <1>1, <1>3, <2>1, <2>2, <2>3
<1>5. Owed'
  <2> SUFFICES ASSUME dead
               PROVE  \/ Pending'
                      \/ \E k \in 0 .. Len(blocks') :
                           /\ AtBackground(k)'
                           /\ phase = "active" => \E i \in k + 1 .. Len(blocks') : blocks'[i] = "active"
    BY DEF Owed
  <2>1. CASE Pending
    <3>1. PICK i \in 1 .. Len(blocks) : blocks[i] = "forced"
      BY <2>1 DEF Pending
    <3>2. i # 1
      BY <3>1, <1>2
    <3>3. i - 1 \in 1 .. Len(blocks') /\ blocks'[i - 1] = "forced"
      BY <3>1, <3>2, <1>1
    <3> QED
      BY <3>3 DEF Pending
  <2>2. CASE lifecycle = "background"
    BY <2>2, <1>1 DEF Pending, RunsAndPosts, ForegroundInv, ForegroundTypeOK
  <2>3. CASE lifecycle # "background" /\ ~Pending
    <3>1. PICK k \in 0 .. Len(blocks) :
               /\ AtBackground(k)
               /\ phase = "active" => \E i \in k + 1 .. Len(blocks) : blocks[i] = "active"
      BY <2>3 DEF ForegroundInv, Owed
    <3>2. k \in 1 .. Len(blocks)
      BY <3>1, <2>3 DEF AtBackground
    <3>3. phase = "active" => \E i \in k .. Len(blocks') : blocks'[i] = "active"
      <4> SUFFICES ASSUME phase = "active" PROVE \E i \in k .. Len(blocks') : blocks'[i] = "active"
        OBVIOUS
      <4>1. PICK i \in k + 1 .. Len(blocks) : blocks[i] = "active"
        BY <3>1
      <4>2. i - 1 \in k .. Len(blocks') /\ blocks'[i - 1] = "active"
        BY <4>1, <3>2, <1>1
      <4> QED
        BY <4>2
    <3> QED
      BY <1>1, <1>3, <3>1, <3>2, <3>3
  <2> QED
    BY <2>1, <2>2, <2>3
<1> QED
  BY <1>4, <1>5

\* A block that comes at the end keeps what is owed.
LEMMA OwedWhenPosted ==
  ASSUME ForegroundInv, UNCHANGED <<lifecycle, dead>>,
         \/ UNCHANGED blocks
         \/ \E b \in Blocks \ {"foreground", "active"} : Posts(b)
         \/ phase' \notin {"background", "frozen"} /\ \E b \in Blocks : Posts(b),
         phase' \in {"background", "frozen"} => phase' = phase \/ Posts("background"),
         phase' = "active" => phase' = phase \/ Posts("active")
  PROVE  Away' /\ Owed'
<1>1. /\ blocks \in Seq(Blocks)
      /\ Len(blocks) \in Nat /\ Len(blocks') \in {Len(blocks), Len(blocks) + 1}
      /\ \A i \in 1 .. Len(blocks) : blocks'[i] = blocks[i]
      /\ \A b \in Blocks : Posts(b) => Len(blocks') = Len(blocks) + 1 /\ blocks'[Len(blocks) + 1] = b
  BY BlocksPosted DEF ForegroundInv, ForegroundTypeOK
<1>2. ASSUME NEW k \in 0 .. Len(blocks), AtBackground(k)
      PROVE  k \in 0 .. Len(blocks') /\ AtBackground(k)'
  BY <1>1, <1>2 DEF AtBackground
<1>3. Away'
  <2> SUFFICES ASSUME phase' \in {"background", "frozen"}
               PROVE  \E k \in 0 .. Len(blocks') : AtBackground(k)' /\
                        \A i \in k + 1 .. Len(blocks') : blocks'[i] \notin {"foreground", "active"}
    BY DEF Away
  <2>1. CASE Posts("background")
    <3>1. Len(blocks') = Len(blocks) + 1 /\ blocks'[Len(blocks) + 1] = "background"
      BY <2>1, <1>1 DEF Blocks, Notices
    <3>2. PICK n \in Nat : n = Len(blocks) + 1
      BY <1>1
    <3>3. n \in 0 .. Len(blocks') /\ AtBackground(n)'
      BY <3>1, <3>2, <1>1 DEF AtBackground
    <3>4. n + 1 .. Len(blocks') = {}
      BY <3>1, <3>2, <1>1
    <3> QED
      BY <3>3, <3>4
  <2>2. CASE phase' = phase
    <3>1. PICK k \in 0 .. Len(blocks) :
            AtBackground(k) /\ \A i \in k + 1 .. Len(blocks) : blocks[i] \notin {"foreground", "active"}
      BY <2>2 DEF ForegroundInv, Away
    <3>2. \A i \in k + 1 .. Len(blocks') : blocks'[i] \notin {"foreground", "active"}
      BY <3>1, <1>1
    <3> QED
      BY <1>2, <3>1, <3>2
  <2> QED
    BY <2>1, <2>2
<1>4. Owed'
  <2> SUFFICES ASSUME dead
               PROVE  \/ Pending'
                      \/ \E k \in 0 .. Len(blocks') :
                           /\ AtBackground(k)'
                           /\ phase' = "active" => \E i \in k + 1 .. Len(blocks') : blocks'[i] = "active"
    BY DEF Owed
  <2>1. CASE Pending
    BY <2>1, <1>1 DEF Pending
  <2>2. CASE ~Pending
    <3>1. PICK k \in 0 .. Len(blocks) :
               /\ AtBackground(k)
               /\ phase = "active" => \E i \in k + 1 .. Len(blocks) : blocks[i] = "active"
      BY <2>2 DEF ForegroundInv, Owed
    <3>2. phase' = "active" => \E i \in k + 1 .. Len(blocks') : blocks'[i] = "active"
      BY <3>1, <1>1 DEF Blocks, Notices
    <3> QED
      BY <1>2, <3>1, <3>2
  <2> QED
    BY <2>1, <2>2
<1> QED
  BY <1>3, <1>4

-----------------------------------------------------------------------------
(* The invariant of the recovery.                                           *)

\* The blocks of the runtime queue keep what is owed.
LEMMA OwedByQueue == ForegroundInv /\ RuntimeQueue => Away' /\ Owed'
<1> SUFFICES ASSUME ForegroundInv, RuntimeQueue PROVE Away' /\ Owed'
  OBVIOUS
<1> USE DEF appVars, pathVars, modeVars, Runs, Notices, Paths
<1>1. CASE Apply("apply")
  BY <1>1, OwedMovesUp DEF Apply
<1>2. CASE Apply("forced")
  <2>1. ~dead'
    BY <1>2 DEF Apply
  <2> QED
    BY <2>1, <1>2, OwedMovesUp DEF Apply
<1>3. CASE NoteBackground
  BY <1>3, OwedMovesUp DEF NoteBackground
<1>4. CASE NoteForeground
  BY <1>4, OwedAtReturn DEF NoteForeground
<1>5. CASE NoteActive
  BY <1>5, OwedAtReturn DEF NoteActive, MissedForeground
<1>6. CASE StartMonitor
  BY <1>6, OwedMovesUp DEF StartMonitor
<1>7. CASE CheckNetwork
  BY <1>7, OwedMovesUp DEF CheckNetwork
<1>8. CASE \E p \in Paths : NotePath(p)
  BY <1>8, OwedMovesUp DEF NotePath
<1> QED
  BY <1>1, <1>2, <1>3, <1>4, <1>5, <1>6, <1>7, <1>8 DEF RuntimeQueue

\* So does every step.
LEMMA ForegroundInvStep == ForegroundInv /\ [ForegroundNext]_foregroundVars => ForegroundInv'
<1> SUFFICES ASSUME ForegroundInv, [ForegroundNext]_foregroundVars PROVE ForegroundInv'
  OBVIOUS
<1>1. ForegroundTypeOK'
  BY ForegroundTypeStep DEF ForegroundInv
<1>2. Away' /\ Owed'
  <2> USE DEF appVars, pathVars, modeVars, Blocks, Notices
  <2>1. CASE RuntimeQueue
    BY <2>1, OwedByQueue
  <2>2. CASE NetworkTimer
    BY <2>2, OwedWhenPosted DEF NetworkTimer
  <2>3. CASE HandlerReads
    BY <2>3, OwedWhenPosted DEF HandlerReads
  <2>4. CASE \E p \in Paths : HandlerPosts(p)
    BY <2>4, OwedWhenPosted DEF HandlerPosts, Paths
  <2>5. CASE FifteenSeconds
    BY <2>5 DEF FifteenSeconds, ForegroundInv, Away, Owed, Pending, AtBackground
  <2>6. CASE TenSeconds \/ NetworkChanges
    BY <2>6, OwedWhenPosted DEF TenSeconds, NetworkChanges
  <2>7. CASE Load
    BY <2>7, OwedWhenPosted DEF Load
  <2>8. CASE EnterBackground
    BY <2>8, OwedWhenPosted DEF EnterBackground
  <2>9. CASE Freeze
    BY <2>9 DEF Freeze, ForegroundInv, Away, Owed, Pending, AtBackground
  <2>10. CASE Return
    BY <2>10, OwedWhenPosted DEF Return
  <2>11. CASE BecomeActive
    BY <2>11, OwedWhenPosted DEF BecomeActive
  <2>12. CASE SaveSettings
    BY <2>12, OwedWhenPosted DEF SaveSettings
  <2>13. CASE UNCHANGED foregroundVars
    BY <2>13, OwedWhenPosted DEF foregroundVars
  <2> QED
    BY <2>1, <2>2, <2>3, <2>4, <2>5, <2>6, <2>7, <2>8, <2>9, <2>10, <2>11, <2>12, <2>13
    DEF ForegroundNext
<1> QED
  BY <1>1, <1>2 DEF ForegroundInv

\* Whichever notices of the return arrive, and however long the queue was: an
\* active app whose queue has run has renewed the sockets that died.
THEOREM RecoveredAlways == ForegroundSpec => []RecoveredWhenIdle
<1>1. ForegroundInit => ForegroundInv
  BY DEF ForegroundInit, ForegroundInv, ForegroundTypeOK, Paths, Away, Owed
<1>2. ForegroundInv => RecoveredWhenIdle
  BY DEF ForegroundInv, ForegroundTypeOK, Owed, Pending, RecoveredWhenIdle
<1> QED
  BY <1>1, <1>2, ForegroundInvStep, PTL DEF ForegroundSpec
=============================================================================
