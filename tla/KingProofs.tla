----------------------------- MODULE KingProofs -----------------------------
(***************************************************************************)
(* Types, ownership and publication of the forwarder in KingLifecycle, for *)
(* any number of forwarders, either or both of the healers, and any events. *)
(***************************************************************************)
EXTENDS KingLifecycle, TLAPS

-----------------------------------------------------------------------------
(* Types.  The conjuncts of TypeOK are taken in groups of variables that   *)
(* change together.                                                        *)

\* What is on or off.
Switches ==
  /\ resumeDue \in BOOLEAN /\ desired \in BOOLEAN /\ published \in BOOLEAN
  /\ configValid \in BOOLEAN /\ chainOn \in BOOLEAN /\ retryDue \in BOOLEAN
  /\ aForced \in BOOLEAN

\* Who holds which forwarder, or its port.
Holdings ==
  /\ fw \in Ports /\ pubPort \in Ports
  /\ alive \subseteq Forwarders /\ deaf \subseteq alive
  /\ override \in Ports /\ applied \in Ports /\ lastPort \in Ports
  /\ aFw \in Ports /\ aPort \in Ports

\* Where the healers are, and what they have read.
Locals ==
  /\ tpc \in [Threads -> Places]
  /\ tPtr \in [Threads -> Ports] /\ tFw \in [Threads -> Ports] /\ tPort \in [Threads -> Ports]

\* Modes, files, requests, and where the apply is.
Words ==
  /\ mode \in Modes /\ events \in 0 .. MaxEvents
  /\ conf \in {"empty", "proxies"} /\ pending \subseteq BOOLEAN
  /\ lastMode \in Modes \union {"none"} /\ aMode \in Modes \union {"none"}
  /\ apc \in {"idle", "check", "replace", "stop", "create", "install", "port", "pin",
              "write", "reload", "publish", "close"}

\* The groups are all of TypeOK.
LEMMA TypeGroups == TypeOK <=> Switches /\ Holdings /\ Locals /\ Words
BY Zenon DEF TypeOK, Switches, Holdings, Locals, Words

-----------------------------------------------------------------------------
\* An apply keeps the booleans.
LEMMA SwitchesApply == ASSUME TypeOK, Apply PROVE Switches'
<1> USE TypeGroups
       DEF Switches, Ports,
           envVars, kingVars, poolVars, chainVars, queueVars, applyVars, threadVars
<1>1. CASE ApplyReuse \/ ApplyDetach \/ ApplyRetire \/ ApplyCreate
  BY <1>1 DEF ApplyReuse, ApplyStays, ApplyDetach, ShouldRun, ApplyRetire, Retire,
     ApplyCreate, Born
<1>2. CASE ApplyCreateFails \/ ApplyInstall \/ ApplyDiscard \/ ApplyPort
  BY <1>2 DEF ApplyCreateFails, Misfortune, Notify, ApplyStays, ApplyInstall,
     ApplyDiscard, Retire, ApplyPort
<1>3. CASE ApplyPin \/ ApplyReload(ReloadConfig) \/ ApplyClose \/ Retry
  BY <1>3 DEF ApplyPin, ApplyStays, ApplyReload, ReloadConfig, ApplyClose, ApplyEnd,
     Retry, Request
<1>4. CASE ApplyBegin
  BY <1>4 DEF ApplyBegin, Words
<1>5. CASE ApplyWrite
  BY <1>5 DEF ApplyWrite, ProxyActive, ApplyStays
<1>6. CASE ApplyWriteFails
  <2>1. UNCHANGED resumeDue
    BY <1>6 DEF ApplyWriteFails, Misfortune
  <2>2. chainOn' \in BOOLEAN
    BY <1>6 DEF ApplyWriteFails, ProxyActive
  <2> QED
    BY <2>1, <2>2, <1>6 DEF ApplyWriteFails, ApplyStays
<1>7. CASE ApplyReload(ReloadFails)
  BY <1>7 DEF ApplyReload, ReloadFails, Misfortune, ApplyStays
<1>8. CASE ApplyPublish
  BY <1>8 DEF ApplyPublish, RouteIsUp, ApplyEnd
<1> QED
  BY <1>1, <1>2, <1>3, <1>4, <1>5, <1>6, <1>7, <1>8 DEF Apply

\* So does a healer.
LEMMA SwitchesThread == ASSUME TypeOK, NEW t \in Threads, Thread(t) PROVE Switches'
<1> USE TypeGroups
       DEF Switches, Ports, Places, At, Go, Forget, ThreadOnly,
           envVars, kingVars, poolVars, chainVars, queueVars, applyVars, threadVars
<1>1. CASE Look(t) \/ LocalPort(t) \/ Watch(t) \/ Load(t)
  BY <1>1 DEF Look, LocalPort, Watch, Load
<1>2. CASE BeatFindsRunning(t) \/ BeatFindsMissing(t)
          \/ WatchFindsRunning(t) \/ WatchFindsMissing(t)
  BY <1>2 DEF BeatFindsRunning, BeatFindsMissing, WatchFindsRunning, WatchFindsMissing, Request
<1>3. CASE HealNotNeeded(t) \/ HealCreate(t) \/ HealCreateFails(t) \/ HealInstall(t)
  BY <1>3 DEF HealNotNeeded, HealCreate, Born, HealCreateFails, Misfortune, HealInstall
<1>4. CASE HealDiscard(t) \/ Pin(t) \/ Parse(t, ReloadConfig) \/ Parse(t, ReloadFails)
  BY <1>4 DEF HealDiscard, Retire, Pin, Parse, ReloadConfig, ReloadFails, Misfortune
<1>5. CASE ChainPort(t) \/ RouteCheck(t) \/ BeatRequests(t) \/ BeatHoldsBack(t)
  BY <1>5 DEF ChainPort, RouteCheck, BeatRequests, Request, BeatHoldsBack
<1> QED
  BY <1>1, <1>2, <1>3, <1>4, <1>5 DEF Thread

\* And the world.
LEMMA SwitchesWorld ==
  ASSUME TypeOK, ChangeMode \/ Suspend \/ Foreground \/ UNCHANGED vars PROVE Switches'
BY TypeGroups DEF Switches, ChangeMode, Suspend, Foreground, Request, vars,
   envVars, kingVars, poolVars, chainVars, queueVars, applyVars, threadVars

-----------------------------------------------------------------------------
\* An apply keeps the ports and forwarders.
LEMMA HoldingsApply == ASSUME TypeOK, Apply PROVE Holdings'
<1> USE TypeGroups
       DEF Holdings, Ports,
           envVars, kingVars, poolVars, chainVars, queueVars, applyVars, threadVars
<1>1. CASE ApplyBegin \/ ApplyReuse \/ ApplyDetach \/ ApplyRetire
  BY <1>1 DEF ApplyBegin, ApplyReuse, ApplyStays, ApplyDetach, ShouldRun, ApplyRetire, Retire
<1>2. CASE ApplyCreate \/ ApplyCreateFails \/ ApplyInstall \/ ApplyDiscard
  BY <1>2 DEF ApplyCreate, Born, ApplyCreateFails, Misfortune, Notify, ApplyStays,
     ApplyInstall, ApplyDiscard, Retire
<1>3. CASE ApplyPort \/ ApplyPin \/ ApplyWrite \/ ApplyWriteFails
  BY <1>3 DEF ApplyPort, ApplyPin, ApplyStays, ApplyWrite, ProxyActive, ConfOf,
     ApplyWriteFails, Misfortune
<1>4. CASE ApplyReload(ReloadConfig) \/ ApplyReload(ReloadFails) \/ ApplyPublish \/ ApplyClose
  BY <1>4 DEF ApplyReload, ReloadConfig, ApplyStays, ReloadFails, Misfortune,
     ApplyPublish, RouteIsUp, Listening, ApplyEnd, ApplyClose
<1>5. CASE Retry
  BY <1>5 DEF Retry, Request
<1> QED
  BY <1>1, <1>2, <1>3, <1>4, <1>5 DEF Apply

\* So does a healer.
LEMMA HoldingsThread == ASSUME TypeOK, NEW t \in Threads, Thread(t) PROVE Holdings'
<1> USE TypeGroups
       DEF Holdings, Ports, Places, At, Go, Forget, ThreadOnly,
           envVars, kingVars, poolVars, chainVars, queueVars, applyVars, threadVars
<1>1. CASE Look(t) \/ LocalPort(t) \/ Watch(t) \/ Load(t)
  BY <1>1 DEF Look, LocalPort, Watch, Load
<1>2. CASE BeatFindsRunning(t) \/ BeatFindsMissing(t)
          \/ WatchFindsRunning(t) \/ WatchFindsMissing(t)
  BY <1>2 DEF BeatFindsRunning, BeatFindsMissing, WatchFindsRunning, WatchFindsMissing, Request
<1>3. CASE HealNotNeeded(t) \/ HealCreate(t) \/ HealCreateFails(t) \/ HealDiscard(t)
  BY <1>3 DEF HealNotNeeded, HealCreate, Born, HealCreateFails, Misfortune, HealDiscard, Retire
<1>4. CASE Parse(t, ReloadConfig) \/ Parse(t, ReloadFails) \/ ChainPort(t) \/ RouteCheck(t)
  BY <1>4 DEF Parse, ReloadConfig, ReloadFails, Misfortune, ChainPort, RouteCheck
<1>5. CASE BeatRequests(t) \/ BeatHoldsBack(t)
  BY <1>5 DEF BeatRequests, Request, BeatHoldsBack
<1>6. CASE HealInstall(t)
  BY <1>6 DEF HealInstall, Locals
<1>7. CASE Pin(t)
  BY <1>7 DEF Pin, Locals
<1> QED
  BY <1>1, <1>2, <1>3, <1>4, <1>5, <1>6, <1>7 DEF Thread

\* And the world.
LEMMA HoldingsWorld ==
  ASSUME TypeOK, ChangeMode \/ Suspend \/ Foreground \/ UNCHANGED vars PROVE Holdings'
BY TypeGroups DEF Holdings, ChangeMode, Suspend, Foreground, Request, vars,
   envVars, kingVars, poolVars, chainVars, queueVars, applyVars, threadVars

-----------------------------------------------------------------------------
\* An apply keeps the locals of the healers.
LEMMA LocalsApply == ASSUME TypeOK, Apply PROVE Locals'
<1> USE TypeGroups
       DEF Locals, Ports,
           envVars, kingVars, poolVars, chainVars, queueVars, applyVars, threadVars
<1>1. CASE ApplyBegin \/ ApplyReuse \/ ApplyDetach \/ ApplyRetire
  BY <1>1 DEF ApplyBegin, ApplyReuse, ApplyStays, ApplyDetach, ShouldRun, ApplyRetire, Retire
<1>2. CASE ApplyCreate \/ ApplyCreateFails \/ ApplyInstall \/ ApplyDiscard
  BY <1>2 DEF ApplyCreate, Born, ApplyCreateFails, Misfortune, Notify, ApplyStays,
     ApplyInstall, ApplyDiscard, Retire
<1>3. CASE ApplyPort \/ ApplyPin \/ ApplyWrite \/ ApplyWriteFails
  BY <1>3 DEF ApplyPort, ApplyPin, ApplyStays, ApplyWrite, ProxyActive, ConfOf,
     ApplyWriteFails, Misfortune
<1>4. CASE ApplyReload(ReloadConfig) \/ ApplyReload(ReloadFails) \/ ApplyPublish \/ ApplyClose
  BY <1>4 DEF ApplyReload, ReloadConfig, ApplyStays, ReloadFails, Misfortune,
     ApplyPublish, RouteIsUp, Listening, ApplyEnd, ApplyClose
<1>5. CASE Retry
  BY <1>5 DEF Retry, Request
<1> QED
  BY <1>1, <1>2, <1>3, <1>4, <1>5 DEF Apply

\* So does a healer.
LEMMA LocalsThread == ASSUME TypeOK, NEW t \in Threads, Thread(t) PROVE Locals'
<1> USE TypeGroups
       DEF Locals, Ports, Places, At, Go, Forget, ThreadOnly,
           envVars, kingVars, poolVars, chainVars, queueVars, applyVars, threadVars
<1>1. CASE Look(t) \/ Watch(t) \/ BeatFindsRunning(t) \/ BeatFindsMissing(t)
  BY <1>1 DEF Look, Watch, BeatFindsRunning, BeatFindsMissing
<1>2. CASE WatchFindsRunning(t) \/ WatchFindsMissing(t)
          \/ HealNotNeeded(t) \/ HealCreateFails(t)
  BY <1>2 DEF WatchFindsRunning, WatchFindsMissing, Request, HealNotNeeded,
     HealCreateFails, Misfortune
<1>3. CASE HealInstall(t) \/ HealDiscard(t) \/ Pin(t) \/ Parse(t, ReloadConfig)
  BY <1>3 DEF HealInstall, HealDiscard, Retire, Pin, Parse, ReloadConfig
<1>4. CASE Parse(t, ReloadFails) \/ ChainPort(t) \/ RouteCheck(t) \/ BeatRequests(t)
  BY <1>4 DEF Parse, ReloadFails, Misfortune, ChainPort, RouteCheck, BeatRequests, Request
<1>5. CASE BeatHoldsBack(t)
  BY <1>5 DEF BeatHoldsBack
<1>6. CASE LocalPort(t)
  BY <1>6 DEF LocalPort, Holdings
<1>7. CASE Load(t)
  BY <1>7 DEF Load, Holdings
<1>8. CASE HealCreate(t)
  BY <1>8 DEF HealCreate, Born
<1> QED
  BY <1>1, <1>2, <1>3, <1>4, <1>5, <1>6, <1>7, <1>8 DEF Thread

\* And the world.
LEMMA LocalsWorld ==
  ASSUME TypeOK, ChangeMode \/ Suspend \/ Foreground \/ UNCHANGED vars PROVE Locals'
BY TypeGroups DEF Locals, ChangeMode, Suspend, Foreground, Request, vars,
   envVars, kingVars, poolVars, chainVars, queueVars, applyVars, threadVars

-----------------------------------------------------------------------------
\* An apply keeps modes, places and counts.
LEMMA WordsApply == ASSUME TypeOK, Apply PROVE Words'
<1> USE MaxEventsAssumption, TypeGroups
       DEF Words, Ports,
           envVars, kingVars, poolVars, chainVars, queueVars, applyVars, threadVars
<1>1. CASE ApplyBegin \/ ApplyReuse \/ ApplyDetach \/ ApplyRetire
  BY <1>1 DEF ApplyBegin, ApplyReuse, ApplyStays, ApplyDetach, ShouldRun, ApplyRetire, Retire
<1>2. CASE ApplyCreate \/ ApplyInstall \/ ApplyDiscard \/ ApplyPort
  BY <1>2 DEF ApplyCreate, Born, ApplyInstall, ApplyDiscard, Retire, Notify, ApplyPort
<1>3. CASE ApplyPin \/ ApplyWrite \/ ApplyWriteFails \/ ApplyReload(ReloadConfig)
  BY <1>3 DEF ApplyPin, ApplyStays, ApplyWrite, ProxyActive, ConfOf, ApplyWriteFails,
     Misfortune, ApplyReload, ReloadConfig
<1>4. CASE ApplyPublish \/ ApplyClose \/ Retry
  BY <1>4 DEF ApplyPublish, RouteIsUp, Listening, ApplyEnd, ApplyClose, Retry, Request
<1>5. CASE ApplyCreateFails
  <2>1. pending' \subseteq BOOLEAN
    BY <1>5 DEF ApplyCreateFails, Notify
  <2>2. mode' \in Modes /\ events' \in 0 .. MaxEvents
    BY <1>5 DEF ApplyCreateFails, Misfortune
  <2> QED
    BY <2>1, <2>2, <1>5 DEF ApplyCreateFails, ApplyStays
<1>6. CASE ApplyReload(ReloadFails)
  BY <1>6 DEF ApplyReload, ReloadFails, Misfortune, ApplyStays
<1> QED
  BY <1>1, <1>2, <1>3, <1>4, <1>5, <1>6 DEF Apply

\* So does a healer.
LEMMA WordsThread == ASSUME TypeOK, NEW t \in Threads, Thread(t) PROVE Words'
<1> USE MaxEventsAssumption, TypeGroups
       DEF Words, Ports, Places, At, Go, Forget, ThreadOnly,
           envVars, kingVars, poolVars, chainVars, queueVars, applyVars, threadVars
<1>1. CASE Look(t) \/ LocalPort(t) \/ Watch(t) \/ Load(t)
  BY <1>1 DEF Look, LocalPort, Watch, Load
<1>2. CASE BeatFindsRunning(t) \/ BeatFindsMissing(t)
          \/ WatchFindsRunning(t) \/ WatchFindsMissing(t)
  BY <1>2 DEF BeatFindsRunning, BeatFindsMissing, WatchFindsRunning, WatchFindsMissing, Request
<1>3. CASE HealNotNeeded(t) \/ HealCreate(t) \/ HealCreateFails(t) \/ HealInstall(t)
  BY <1>3 DEF HealNotNeeded, HealCreate, Born, HealCreateFails, Misfortune, HealInstall
<1>4. CASE HealDiscard(t) \/ Pin(t) \/ Parse(t, ReloadConfig) \/ Parse(t, ReloadFails)
  BY <1>4 DEF HealDiscard, Retire, Pin, Parse, ReloadConfig, ReloadFails, Misfortune
<1>5. CASE ChainPort(t) \/ RouteCheck(t) \/ BeatRequests(t) \/ BeatHoldsBack(t)
  BY <1>5 DEF ChainPort, RouteCheck, BeatRequests, Request, BeatHoldsBack
<1> QED
  BY <1>1, <1>2, <1>3, <1>4, <1>5 DEF Thread

\* And the world.
LEMMA WordsWorld ==
  ASSUME TypeOK, ChangeMode \/ Suspend \/ Foreground \/ UNCHANGED vars PROVE Words'
<1> USE MaxEventsAssumption, TypeGroups
       DEF Words,
           envVars, kingVars, poolVars, chainVars, queueVars, applyVars, threadVars
<1>1. CASE ChangeMode
  BY <1>1 DEF ChangeMode, Request
<1>2. CASE Suspend \/ UNCHANGED vars
  BY <1>2 DEF Suspend, vars
<1>3. CASE Foreground
  BY <1>3 DEF Foreground, Request
<1> QED
  BY <1>1, <1>2, <1>3

-----------------------------------------------------------------------------
\* However applies, heals and events interleave, every variable keeps its type.
THEOREM KingTypesCorrect == Spec => []TypeOK
<1>1. Init => TypeOK
  <2> SUFFICES ASSUME Init PROVE TypeOK
    OBVIOUS
  <2>1. Switches
    BY DEF Init, Switches
  <2>2. Holdings /\ Locals /\ Words
    BY MaxEventsAssumption DEF Init, Holdings, Locals, Words, Ports, Places
  <2> QED
    BY <2>1, <2>2, TypeGroups
<1>2. TypeOK /\ [Next]_vars => TypeOK'
  <2> SUFFICES ASSUME TypeOK, [Next]_vars PROVE Switches' /\ Holdings' /\ Locals' /\ Words'
    BY Zenon DEF TypeOK, Switches, Holdings, Locals, Words
  <2>1. CASE Apply
    BY <2>1, SwitchesApply, HoldingsApply, LocalsApply, WordsApply
  <2>2. CASE \E t \in Threads : Thread(t)
    BY <2>2, SwitchesThread, HoldingsThread, LocalsThread, WordsThread
  <2>3. CASE ChangeMode \/ Suspend \/ Foreground \/ UNCHANGED vars
    BY <2>3, SwitchesWorld, HoldingsWorld, LocalsWorld, WordsWorld
  <2> QED
    BY <2>1, <2>2, <2>3 DEF Next
<1> QED
  BY <1>1, <1>2, PTL DEF Spec

-----------------------------------------------------------------------------
(* Ownership: no thread has a forwarder that another frees.                *)

\* What the locals of the threads are functions over.
ThreadTypes ==
  /\ tpc \in [Threads -> Places]
  /\ tFw \in [Threads -> Ports]

\* The apply holds a forwarder only from its detaching to its stop, and from
\* its birth to its installation; a heal only while it installs it.
HeldWhere ==
  /\ aFw # None => apc \in {"replace", "stop", "install"}
  /\ \A t \in Threads : tFw[t] # None => tpc[t] = "install"

\* Ownership is inductive together with the places where a forwarder is held.
OwnerInv == ThreadTypes /\ HeldWhere /\ OneOwnerEach

-----------------------------------------------------------------------------
(* One forwarder, one owner.                                               *)

\* At the start nothing is alive and nobody holds anything.
LEMMA OwnerInit == Init => OwnerInv
<1> SUFFICES ASSUME Init PROVE OwnerInv
  OBVIOUS
<1>1. \A t \in Threads : tFw[t] = None
  BY DEF Init
<1>2. ThreadTypes
  BY DEF Init, ThreadTypes, Ports, Places
<1>3. OneOwnerEach
  BY <1>1 DEF Init, OneOwnerEach
<1> QED
  BY <1>1, <1>2, <1>3 DEF Init, OwnerInv, HeldWhere

\* The apply's own steps keep the owners apart.
LEMMA OwnerApply == OwnerInv /\ Apply => OwnerInv'
<1> SUFFICES ASSUME OwnerInv, Apply PROVE OwnerInv'
  OBVIOUS
<1> USE NoneAssumption DEF OwnerInv, ThreadTypes, HeldWhere, OneOwnerEach, threadVars
<1>1. CASE ApplyBegin
  BY <1>1 DEF ApplyBegin, poolVars
<1>2. CASE ApplyReuse
  BY <1>2 DEF ApplyReuse, ApplyStays, poolVars, kingVars
<1>3. CASE ApplyDetach
  BY <1>3 DEF ApplyDetach, poolVars
<1>4. CASE ApplyRetire
  BY <1>4 DEF ApplyRetire, Retire, kingVars
<1>5. CASE ApplyCreate
  BY <1>5 DEF ApplyCreate, Born, kingVars
<1>6. CASE ApplyCreateFails
  BY <1>6 DEF ApplyCreateFails, ApplyStays, poolVars, kingVars
<1>7. CASE ApplyInstall
  BY <1>7 DEF ApplyInstall, poolVars
<1>8. CASE ApplyDiscard
  BY <1>8 DEF ApplyDiscard, Retire, kingVars
<1>9. CASE ApplyPort
  BY <1>9 DEF ApplyPort, poolVars, kingVars
<1>10. CASE ApplyPin
  BY <1>10 DEF ApplyPin, ApplyStays, poolVars, kingVars
<1>11. CASE ApplyWrite
  BY <1>11 DEF ApplyWrite, ApplyStays, poolVars, kingVars
<1>12. CASE ApplyWriteFails
  BY <1>12 DEF ApplyWriteFails, ApplyStays, poolVars, kingVars
<1>13. CASE ApplyReload(ReloadConfig) \/ ApplyReload(ReloadFails)
  BY <1>13 DEF ApplyReload, ApplyStays, poolVars, kingVars
<1>14. CASE ApplyPublish
  BY <1>14 DEF ApplyPublish, Publishable, ApplyEnd, poolVars
<1>15. CASE ApplyClose
  BY <1>15 DEF ApplyClose, ApplyEnd, poolVars, kingVars
<1>16. CASE Retry
  BY <1>16 DEF Retry, poolVars, kingVars, applyVars
<1> QED
  BY <1>1, <1>2, <1>3, <1>4, <1>5, <1>6, <1>7, <1>8, <1>9, <1>10, <1>11, <1>12, <1>13,
     <1>14, <1>15, <1>16 DEF Apply

\* A step of a healer that holds nothing and takes nothing.
Looks(t) ==
  /\ tpc[t] # "install"
  /\ tpc' \in {[tpc EXCEPT ![t] = p] : p \in Places}
  /\ UNCHANGED <<alive, fw, aFw, tFw, apc>>

\* Such a step leaves the owners as they are.
LEMMA OwnerLooks == ASSUME OwnerInv, NEW t \in Threads, Looks(t) PROVE OwnerInv'
<1> USE DEF OwnerInv, ThreadTypes, HeldWhere
<1>1. PICK p \in Places : tpc' = [tpc EXCEPT ![t] = p]
  BY DEF Looks
<1>2. tpc' \in [Threads -> Places]
  BY <1>1
<1>3. \A u \in Threads : tFw'[u] # None => tpc'[u] = "install"
  BY <1>1 DEF Looks
<1>4. OneOwnerEach'
  BY DEF Looks, OneOwnerEach
<1> QED
  BY <1>2, <1>3, <1>4 DEF Looks

\* The steps of a healer that are not those of a forwarder's birth or death.
Moves(t) ==
  \/ Look(t) \/ LocalPort(t) \/ Watch(t) \/ Load(t)
  \/ BeatFindsRunning(t) \/ BeatFindsMissing(t)
  \/ WatchFindsRunning(t) \/ WatchFindsMissing(t)
  \/ HealNotNeeded(t) \/ HealCreateFails(t)
  \/ Pin(t) \/ Parse(t, ReloadConfig) \/ Parse(t, ReloadFails)
  \/ ChainPort(t) \/ RouteCheck(t) \/ BeatRequests(t) \/ BeatHoldsBack(t)

\* All of them only look, pin or ask.
LEMMA MovesLook == ASSUME NEW t \in Threads, Moves(t) PROVE Looks(t)
<1> USE DEF At, Go, ThreadOnly, kingVars, poolVars, applyVars, Places
<1>4. CASE Look(t) \/ LocalPort(t) \/ Watch(t)
  BY <1>4 DEF Look, LocalPort, Watch, Looks
<1>5. CASE Load(t)
  BY <1>5 DEF Load, Looks
<1>6. CASE BeatFindsRunning(t) \/ BeatFindsMissing(t)
  BY <1>6 DEF BeatFindsRunning, BeatFindsMissing, Looks
<1>7. CASE WatchFindsRunning(t) \/ WatchFindsMissing(t)
  BY <1>7 DEF WatchFindsRunning, WatchFindsMissing, Looks
<1>8. CASE HealNotNeeded(t) \/ HealCreateFails(t)
  BY <1>8 DEF HealNotNeeded, HealCreateFails, Looks
<1>9. CASE Pin(t)
  BY <1>9 DEF Pin, Looks
<1>10. CASE Parse(t, ReloadConfig) \/ Parse(t, ReloadFails)
  BY <1>10 DEF Parse, Looks
<1>11. CASE ChainPort(t) \/ RouteCheck(t) \/ BeatRequests(t) \/ BeatHoldsBack(t)
  BY <1>11 DEF ChainPort, RouteCheck, BeatRequests, BeatHoldsBack, Looks
<1> QED
  BY <1>4, <1>5, <1>6, <1>7, <1>8, <1>9, <1>10, <1>11 DEF Moves

\* A heal makes one forwarder its own, and gives it up in one step.
LEMMA OwnerThread == ASSUME OwnerInv, NEW t \in Threads, Thread(t) PROVE OwnerInv'
<1> USE DEF At, Go, kingVars, poolVars, applyVars, Places
<1>1. CASE HealCreate(t)
  <2>1. tFw[t] = None /\ tpc[t] = "again"
    BY <1>1 DEF HealCreate, OwnerInv, HeldWhere
  <2>2. PICK f \in Forwarders : Born(f) /\ tFw' = [tFw EXCEPT ![t] = f]
    BY <1>1 DEF HealCreate
  <2>3. tpc' = [tpc EXCEPT ![t] = "install"] /\ UNCHANGED <<fw, aFw, apc>>
    BY <1>1 DEF HealCreate
  <2>4. ThreadTypes' /\ HeldWhere'
    BY <2>1, <2>2, <2>3 DEF OwnerInv, ThreadTypes, HeldWhere, Ports
  <2>5. \A u \in Threads \ {t} : tFw'[u] = tFw[u]
    BY <2>2 DEF OwnerInv, ThreadTypes
  <2>6. tFw'[t] = f
    BY <2>2 DEF OwnerInv, ThreadTypes
  <2>7. alive' = ({fw', aFw'} \union {tFw'[u] : u \in Threads}) \ {None}
    BY <2>1, <2>2, <2>3, <2>5, <2>6, NoneAssumption DEF Born, OwnerInv, OneOwnerEach
  <2>8. f \notin {fw, aFw} /\ \A u \in Threads \ {t} : tFw[u] # f
    BY <2>2, NoneAssumption DEF Born, OwnerInv, OneOwnerEach
  <2>9. OneOwnerEach'
    BY <2>3, <2>5, <2>6, <2>7, <2>8 DEF OwnerInv, OneOwnerEach
  <2> QED
    BY <2>4, <2>9 DEF OwnerInv
<1>2. CASE HealInstall(t)
  BY <1>2, NoneAssumption DEF HealInstall, OwnerInv, ThreadTypes, HeldWhere, OneOwnerEach, Ports
<1>3. CASE HealDiscard(t)
  BY <1>3, NoneAssumption DEF HealDiscard, Retire, OwnerInv, ThreadTypes, HeldWhere, OneOwnerEach, Ports
<1>4. CASE Moves(t)
  BY <1>4, MovesLook, OwnerLooks
<1> QED
  BY <1>1, <1>2, <1>3, <1>4 DEF Thread, Moves

\* And the world holds no forwarder at all.
LEMMA OwnerWorld ==
  OwnerInv /\ (ChangeMode \/ Suspend \/ Foreground \/ UNCHANGED vars) => OwnerInv'
<1> USE DEF OwnerInv, ThreadTypes, HeldWhere, OneOwnerEach, kingVars, poolVars, applyVars, threadVars
<1>1. ASSUME OwnerInv, ChangeMode PROVE OwnerInv'
  BY <1>1 DEF ChangeMode
<1>2. ASSUME OwnerInv, Suspend PROVE OwnerInv'
  BY <1>2 DEF Suspend
<1>3. ASSUME OwnerInv, Foreground PROVE OwnerInv'
  BY <1>3 DEF Foreground
<1>4. ASSUME OwnerInv, UNCHANGED vars PROVE OwnerInv'
  BY <1>4 DEF vars
<1> QED
  BY <1>1, <1>2, <1>3, <1>4

\* Every living forwarder has exactly one owner, whoever rebuilds or heals.
THEOREM OneOwnerEachCorrect == Spec => []OneOwnerEach
<1>1. OwnerInv /\ [Next]_vars => OwnerInv'
  BY OwnerApply, OwnerThread, OwnerWorld DEF Next
<1>2. OwnerInv => OneOwnerEach
  BY DEF OwnerInv
<1> QED
  BY OwnerInit, <1>1, <1>2, PTL DEF Spec

-----------------------------------------------------------------------------
(* The route is published for the forwarder that is installed.             *)

\* The route is published only between two applies, and the chain is on from
\* the writing of the configuration to the publication.
RouteInv ==
  /\ published => apc = "idle"
  /\ apc \in {"reload", "publish"} /\ ProxyActive(aMode) => chainOn
  /\ PublishedIsInstalled
  /\ WatchedWhileInstalled

\* At the start there is nothing to publish and nothing to watch.
LEMMA RouteInit == Init => RouteInv
  BY DEF Init, RouteInv, PublishedIsInstalled, WatchedWhileInstalled

\* A step that touches neither the route, the forwarder, the switch nor the apply.
LEMMA RouteSame ==
  RouteInv /\ UNCHANGED <<fw, desired, published, pubPort, chainOn, apc, aMode>> => RouteInv'
  BY DEF RouteInv, PublishedIsInstalled, WatchedWhileInstalled

\* An apply closes the route before anything else, and opens it at its end.
LEMMA RouteApply == RouteInv /\ OneOwnerEach /\ Apply => RouteInv'
<1> SUFFICES ASSUME RouteInv, OneOwnerEach, Apply PROVE RouteInv'
  OBVIOUS
<1> USE DEF RouteInv, PublishedIsInstalled, WatchedWhileInstalled
<1>1. CASE ApplyBegin
  BY <1>1 DEF ApplyBegin, chainVars
<1>2. CASE ApplyReuse
  BY <1>2 DEF ApplyReuse, ApplyStays, kingVars, chainVars
<1>3. CASE ApplyDetach
  BY <1>3 DEF ApplyDetach, chainVars
<1>4. CASE ApplyRetire
  BY <1>4 DEF ApplyRetire, kingVars, chainVars
<1>5. CASE ApplyCreate
  BY <1>5 DEF ApplyCreate, kingVars, chainVars
<1>6. CASE ApplyCreateFails
  BY <1>6 DEF ApplyCreateFails, ApplyStays, kingVars, chainVars
<1>7. CASE ApplyInstall
  BY <1>7 DEF ApplyInstall, chainVars
<1>8. CASE ApplyDiscard
  BY <1>8 DEF ApplyDiscard, kingVars, chainVars
<1>9. CASE ApplyPort
  BY <1>9 DEF ApplyPort, kingVars, chainVars
<1>10. CASE ApplyPin
  BY <1>10 DEF ApplyPin, ApplyStays, kingVars
<1>11. CASE ApplyWrite
  <2>1. ProxyActive(aMode) => chainOn'
    BY <1>11 DEF ApplyWrite
  <2>2. ~published'
    BY <1>11 DEF ApplyWrite, kingVars
  <2> QED
    BY <1>11, <2>1, <2>2 DEF ApplyWrite, ApplyStays, kingVars
<1>12. CASE ApplyWriteFails
  <2>1. ~published'
    BY <1>12 DEF ApplyWriteFails, kingVars
  <2> QED
    BY <1>12, <2>1 DEF ApplyWriteFails, ApplyStays, kingVars
<1>13. CASE ApplyReload(ReloadConfig) \/ ApplyReload(ReloadFails)
  BY <1>13 DEF ApplyReload, ReloadConfig, ReloadFails, ApplyStays, kingVars
<1>14. CASE ApplyPublish
  <2>1. apc = "publish" /\ apc' = "idle" /\ UNCHANGED <<fw, desired, chainOn>>
    BY <1>14 DEF ApplyPublish, Publishable, ApplyEnd, chainVars
  <2>2. PICK m \in ModesNow : published' = RouteIsUp(m) /\ (RouteIsUp(m) => pubPort' = fw)
    BY <1>14 DEF ApplyPublish
  <2>3. CASE RouteIsUp(m)
    <3>1. fw # None /\ chainOn
      BY <2>1, <2>3 DEF RouteIsUp, Listening, OneOwnerEach
    <3> QED
      BY <2>1, <2>2, <2>3, <3>1
  <2>4. CASE ~RouteIsUp(m)
    BY <2>1, <2>2, <2>4
  <2> QED
    BY <2>3, <2>4
<1>15. CASE ApplyClose
  BY <1>15 DEF ApplyClose, ApplyEnd, kingVars, chainVars
<1>16. CASE Retry
  BY <1>16 DEF Retry, kingVars, chainVars, applyVars
<1> QED
  BY <1>1, <1>2, <1>3, <1>4, <1>5, <1>6, <1>7, <1>8, <1>9, <1>10, <1>11, <1>12, <1>13,
     <1>14, <1>15, <1>16 DEF Apply

\* A heal installs only where nothing is installed, hence nothing published.
LEMMA RouteThread == ASSUME RouteInv, NEW t \in Threads, Thread(t) PROVE RouteInv'
<1> USE DEF ThreadOnly, kingVars, chainVars, applyVars
<1>1. CASE HealInstall(t)
  BY <1>1 DEF HealInstall, RouteInv, PublishedIsInstalled, WatchedWhileInstalled
<1>2. CASE HealCreate(t) \/ HealDiscard(t) \/ HealNotNeeded(t) \/ HealCreateFails(t)
  BY <1>2, RouteSame DEF HealCreate, HealDiscard, HealNotNeeded, HealCreateFails
<1>3. CASE Look(t) \/ LocalPort(t) \/ Watch(t) \/ Load(t)
  BY <1>3, RouteSame DEF Look, LocalPort, Watch, Load
<1>4. CASE BeatFindsRunning(t) \/ BeatFindsMissing(t)
  BY <1>4, RouteSame DEF BeatFindsRunning, BeatFindsMissing
<1>5. CASE WatchFindsRunning(t) \/ WatchFindsMissing(t)
  BY <1>5, RouteSame DEF WatchFindsRunning, WatchFindsMissing
<1>6. CASE Pin(t)
  BY <1>6, RouteSame DEF Pin
<1>7. CASE Parse(t, ReloadConfig) \/ Parse(t, ReloadFails)
  BY <1>7, RouteSame DEF Parse, ReloadConfig, ReloadFails
<1>8. CASE ChainPort(t) \/ RouteCheck(t) \/ BeatRequests(t) \/ BeatHoldsBack(t)
  BY <1>8, RouteSame DEF ChainPort, RouteCheck, BeatRequests, BeatHoldsBack
<1> QED
  BY <1>1, <1>2, <1>3, <1>4, <1>5, <1>6, <1>7, <1>8 DEF Thread

\* Every step keeps the route with the forwarder.
LEMMA RouteStep == RouteInv /\ OneOwnerEach /\ [Next]_vars => RouteInv'
<1> USE DEF kingVars, chainVars, applyVars
<1>1. ASSUME RouteInv, ChangeMode \/ Suspend \/ Foreground \/ UNCHANGED vars PROVE RouteInv'
  BY <1>1, RouteSame DEF ChangeMode, Suspend, Foreground, vars
<1> QED
  BY <1>1, RouteApply, RouteThread DEF Next

\* While the route is published, its port is that of the installed forwarder.
THEOREM PublishedIsInstalledCorrect == Spec => []PublishedIsInstalled
<1>1. RouteInv => PublishedIsInstalled
  BY DEF RouteInv
<1> QED
  BY RouteInit, RouteStep, OneOwnerEachCorrect, <1>1, PTL DEF Spec

\* An installed forwarder is always under the eye of the heartbeat.
THEOREM WatchedWhileInstalledCorrect == Spec => []WatchedWhileInstalled
<1>1. RouteInv => WatchedWhileInstalled
  BY DEF RouteInv
<1> QED
  BY RouteInit, RouteStep, OneOwnerEachCorrect, <1>1, PTL DEF Spec
=============================================================================
