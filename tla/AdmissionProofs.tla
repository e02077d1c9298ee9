-------------------------- MODULE AdmissionProofs --------------------------
(***************************************************************************)
(* The kill switch of Admission, for any number of threads, descriptors    *)
(* and entries of the table.  What the sweep reaches depends on where each *)
(* thread is in its hook, so the invariant says of every hook what the     *)
(* table, the sockets and the switch can have become under it.             *)
(***************************************************************************)
EXTENDS Admission, FiniteSetTheorems, TLAPS

\* The bundles of variables that actions leave alone, spelled out.
USE DEF modeVars, controlVars, threadVars, netVars

\* Numbers are not 0, and there are as many descriptors as sockets.
LEMMA Numbers ==
  /\ 0 \notin Fds /\ 0 \notin Sockets
  /\ IsFiniteSet(Fds) /\ Cardinality(Fds) = MaxFd
  /\ IsFiniteSet(Sockets) /\ Cardinality(Sockets) = MaxFd
  /\ MaxFd \in Nat /\ TableMax \in Nat \ {0}
<1>1. IsFiniteSet(1 .. MaxFd) /\ Cardinality(1 .. MaxFd) = MaxFd
  <2>1. 1 \in Int /\ MaxFd \in Int /\ MaxFd >= 1
    BY AdmissionAssumption
  <2> QED
    BY <2>1, FS_Interval
<1> QED
  BY <1>1, AdmissionAssumption DEF Fds, Sockets

\* socket() finds a socket that no descriptor has: with one number free, the
\* others cannot stand for all of them.
LEMMA UnusedFound ==
  ASSUME NEW f \in Fds, socketOf \in [Fds -> Sockets \cup {0}], socketOf[f] = 0
  PROVE  Unused \in Sockets /\ FdsOf(Unused) = {}
<1>1. SUFFICES ASSUME \A s \in Sockets : FdsOf(s) # {} PROVE FALSE
  BY DEF Unused
<1> DEFINE Taken == {g \in Fds : socketOf[g] # 0}
           h == [g \in Taken |-> socketOf[g]]
<1>2. IsFiniteSet(Fds \ {f}) /\ Cardinality(Fds \ {f}) = MaxFd - 1
  BY Numbers, FS_RemoveElement
<1>3. Taken \in SUBSET (Fds \ {f})
  OBVIOUS
<1>4. IsFiniteSet(Taken) /\ Cardinality(Taken) <= MaxFd - 1
  BY <1>2, <1>3, FS_Subset
<1>5. h \in Surjection(Taken, Sockets)
  BY <1>1, Numbers DEF Surjection, FdsOf
<1>6. Cardinality(Sockets) <= Cardinality(Taken)
  BY <1>4, <1>5, FS_Surjection
<1> QED
  BY <1>4, <1>6, Numbers, FS_CardinalityType

-----------------------------------------------------------------------------
(* The invariant *)

\* Where a thread is in a connect.
Connecting == {"admit", "look", "track", "dial", "leave", "route"}

\* A descriptor is used by one hook at a time.
Apart ==
  /\ \A t \in AppThreads :
       /\ Idle(t) <=> using[t] = 0
       /\ In(t, "copy") <=> twin[t] # 0
       /\ In(t, "copy") => twin[t] # using[t]
  /\ \A t, i \in AppThreads :
       t # i => {using[t], twin[t]} \cap {using[i], twin[i]} \subseteq {0}

\* A connect that has not lost its socket holds it by the descriptor it uses,
\* and no other connect is for that socket.
Aimed ==
  \A t \in AppThreads : aim[t] # 0 =>
     /\ hook[t] \in Connecting /\ aim[t] = socketOf[using[t]]
     /\ \A i \in AppThreads : aim[i] = aim[t] => i = t

\* A socket without a descriptor is as good as new.
NoTrace == \A s \in Sockets : FdsOf(s) = {} => wire[s] = "new" /\ s \notin escaped

\* What the switch has got to.
SwitchOrder ==
  /\ leaving => ~disabled /\ control \in {"bar", "wait", "sweep"}
  /\ control \in {"wait", "sweep"} => ~disabled
  /\ control = "sweep" => Admitted = {}
  /\ ~disabled /\ ~leaving => table = {} /\ Admitted = {}
  /\ disabled /\ barred => control = "bar" /\ table = {} /\ Admitted = {}

\* While a connect is on its way to the network its descriptor is the only one
\* of its socket, unless the table has been told that it cannot cover it; and a
\* connect whose number was swept and given out again has the new socket alone.
Alone ==
  \A t \in AppThreads :
    LET s == socketOf[using[t]] IN
      /\ hook[t] \in {"admit", "look", "track", "dial"} /\ s # 0 =>
           s \in escaped \/ FdsOf(s) = {using[t]}
      /\ hook[t] \in Connecting /\ aim[t] = 0 /\ s # 0 => FdsOf(s) = {using[t]}

\* Nor is the socket connected yet.
Unconnected ==
  \A t \in AppThreads :
    LET s == socketOf[using[t]] IN
      hook[t] \in {"admit", "look", "track", "dial"} /\ s # 0 => wire[s] \in {"new", "cut"}

\* Before the system call of a direct connect its descriptor is in the table,
\* or the table was full.
Tracked ==
  \A t \in AppThreads :
    In(t, "dial") /\ aim[t] # 0 => using[t] \in table \/ aim[t] \in escaped

\* A direct connection the table has to cover; a number that a dup2 has made and
\* not yet noted; a number that is noted to be closed and not yet closed.
Covered(s) == s # 0 /\ wire[s] = "direct" /\ s \notin escaped
Copied(f) == \E t \in AppThreads : In(t, "copy") /\ twin[t] = f
Closing(f) == \E t \in AppThreads : In(t, "close") /\ using[t] = f

\* Every descriptor of a direct connection is in the table, up to the steps that
\* dup, dup2 and close have still to take.
FdsCovered ==
  \A f \in Fds : Covered(socketOf[f]) => f \in table \/ Closing(f) \/ Copied(f)

\* A duplicate that is not noted yet has its original in the table.
TwinsCovered ==
  \A t \in AppThreads : In(t, "copy") /\ Covered(socketOf[twin[t]]) =>
     using[t] \in table /\ socketOf[using[t]] = socketOf[twin[t]]

\* A duplicate of a tracked number stands for the same socket, unless the sweep
\* has closed one of the two, whose number may be out again for a new socket.
TwinsFollow ==
  \A t \in AppThreads : In(t, "copy") /\ using[t] \in table =>
    LET s == socketOf[twin[t]] IN
      \/ s \in {0, socketOf[using[t]]}
      \/ FdsOf(s) = {twin[t]} /\ wire[s] = "new"

\* A connect that goes through the chain has no number of its socket in the
\* table, where a later sweep would cut it, but while the switch is under way.
RoutesSpared ==
  \A t \in AppThreads : In(t, "route") =>
    \/ leaving
    \/ /\ using[t] \notin table
       /\ \A f \in table :
            socketOf[f] # 0 /\ socketOf[f] = socketOf[using[t]] => Copied(f)

\* The inductive invariant.
AdmissionInv ==
  /\ AdmissionTypeOK /\ Apart /\ Aimed /\ NoTrace /\ SwitchOrder /\ Alone /\ Unconnected
  /\ Tracked /\ FdsCovered /\ TwinsCovered /\ TwinsFollow /\ RoutesSpared /\ ProxiedSpared

-----------------------------------------------------------------------------
(* Facts about the hooks                                                   *)

\* No other hook works on the descriptors of a thread.
OwnNumbers(t) ==
  \A i \in AppThreads : i # t =>
    /\ using[t] # 0 => using[i] # using[t] /\ twin[i] # using[t]
    /\ twin[t] # 0 => using[i] # twin[t] /\ twin[i] # twin[t]

\* A hook works on open numbers, which no other hook has.
LEMMA Owned ==
  ASSUME AdmissionInv, NEW t \in AppThreads
  PROVE  /\ OwnNumbers(t)
         /\ ~Idle(t) => using[t] \in Fds
         /\ In(t, "copy") => twin[t] \in Fds /\ twin[t] # using[t]
<1>1. OwnNumbers(t)
  BY DEF AdmissionInv, Apart, OwnNumbers
<1>2. using[t] \in Fds \cup {0} /\ twin[t] \in Fds \cup {0}
  BY DEF AdmissionInv, AdmissionTypeOK
<1> QED
  BY <1>1, <1>2 DEF AdmissionInv, Apart, Idle, In

\* dup and dup2 take numbers that no hook works on.
LEMMA FreeNumbers ==
  ASSUME NEW t \in AppThreads, NEW f, NEW d, Duplicate(t, f, d)
  PROVE  \A i \in AppThreads : using[i] # f /\ twin[i] # f
BY DEF Duplicate, Busy

\* Two connects are never at work on one socket.
LEMMA SocketsApart ==
  ASSUME AdmissionInv, NEW t \in AppThreads, NEW i \in AppThreads, i # t,
         hook[t] \in Connecting, hook[i] \in Connecting, socketOf[using[t]] # 0
  PROVE  socketOf[using[i]] # socketOf[using[t]]
<1> SUFFICES ASSUME socketOf[using[i]] = socketOf[using[t]] PROVE FALSE
  OBVIOUS
<1>1. using[t] \in Fds /\ using[i] \in Fds /\ using[i] # using[t]
  <2>1. using[t] \in Fds /\ using[i] \in Fds
    BY Owned DEF Connecting, Idle
  <2> QED
    BY <2>1, Owned, Numbers DEF OwnNumbers
<1>2. aim[t] = 0 \/ aim[i] = 0
  <2>1. aim[t] # 0 => aim[t] = socketOf[using[t]] /\ (aim[i] = aim[t] => i = t)
    BY DEF AdmissionInv, Aimed
  <2>2. aim[i] # 0 => aim[i] = socketOf[using[i]]
    BY DEF AdmissionInv, Aimed
  <2> QED
    BY <2>1, <2>2
<1>3. FdsOf(socketOf[using[t]]) \in {{using[t]}, {using[i]}}
  BY <1>2 DEF AdmissionInv, Alone
<1> QED
  BY <1>1, <1>3 DEF FdsOf

\* What becomes of the socket s of number f when the number is closed.
Lost(f, cut) ==
  LET s == socketOf[f] IN
    /\ \A r \in Sockets : r # s => wire'[r] = wire[r] /\ (r \in escaped' <=> r \in escaped)
    /\ \/ s = 0
       \/ /\ \A g \in Fds : socketOf[g] = s => g = f
          /\ wire'[s] = "new" /\ s \notin escaped'
       \/ /\ \E g \in Fds : g # f /\ socketOf[g] = s
          /\ wire'[s] = IF cut THEN "cut" ELSE wire[s]
          /\ s \in escaped' <=> s \in escaped
\* The number is free; the sweep takes it out of the table as well, and from a
\* connect that holds it.
Closed(f, cut) == Lost(f, cut) /\ socketOf' = [socketOf EXCEPT ![f] = 0]
SweptFd(f) ==
  /\ table' = table \ {f} /\ Closed(f, TRUE)
  /\ aim' = [t \in AppThreads |-> IF using[t] = f THEN 0 ELSE aim[t]]

\* close, dup2 and the sweep do so to the number they close.
LEMMA Closes ==
  ASSUME AdmissionTypeOK, NEW f \in Fds
  PROVE  /\ \A cut \in BOOLEAN : CloseNumber(f, cut) => Closed(f, cut)
         /\ \A t \in AppThreads, d \in Fds : Duplicate(t, d, f) => Lost(f, FALSE)
<1>1. FdsOf(socketOf[f]) = {f} <=> \A g \in Fds : socketOf[g] = socketOf[f] => g = f
  BY DEF FdsOf
<1>2. ASSUME NEW cut \in BOOLEAN, CloseNumber(f, cut) PROVE Closed(f, cut)
  BY <1>1, <1>2 DEF CloseNumber, Closed, Lost, AdmissionTypeOK
<1>3. ASSUME NEW t \in AppThreads, NEW d \in Fds, Duplicate(t, d, f) PROVE Lost(f, FALSE)
  BY <1>1, <1>3 DEF Duplicate, Lost, AdmissionTypeOK
<1> QED
  BY <1>2, <1>3

\* dup2 disturbs neither the other hooks nor the sockets their numbers stand for.
LEMMA Duplicates ==
  ASSUME AdmissionTypeOK, NEW t \in AppThreads, NEW f \in Fds, NEW d \in Fds, Duplicate(t, f, d)
  PROVE  /\ hook'[t] = "copy" /\ using'[t] = f /\ twin'[t] = d /\ f # d
         /\ socketOf'[f] = socketOf[f] /\ socketOf'[d] = socketOf[f]
         /\ \A i \in AppThreads : i # t =>
              /\ hook'[i] = hook[i] /\ using'[i] = using[i] /\ twin'[i] = twin[i]
              /\ {using[i], twin[i]} \cap {f, d} = {}
         /\ \A g \in Fds : g # d => socketOf'[g] = socketOf[g]
         /\ \A g \in Fds \ {d} : LET s == socketOf[g] IN s # 0 =>
              /\ wire'[s] = wire[s] /\ (s \in escaped' <=> s \in escaped)
         /\ \A g \in Fds \ {f, d} : FdsOf(socketOf[g]) = {g} => FdsOf(socketOf[g])' = {g}
         /\ aim' = aim /\ table' = table
<1>1. Lost(d, FALSE)
  BY Closes
<1>2. /\ hook'[t] = "copy" /\ using'[t] = f /\ twin'[t] = d /\ f # d
      /\ socketOf'[d] = socketOf[f] /\ \A g \in Fds : g # d => socketOf'[g] = socketOf[g]
      /\ \A i \in AppThreads : i # t =>
           hook'[i] = hook[i] /\ using'[i] = using[i] /\ twin'[i] = twin[i]
      /\ aim' = aim /\ table' = table
  BY DEF Duplicate, AdmissionTypeOK, Does
<1>3. \A i \in AppThreads : {using[i], twin[i]} \cap {f, d} = {}
  BY DEF Duplicate, Busy
<1>4. ASSUME NEW g \in Fds \ {d}, socketOf[g] # 0
      PROVE  LET s == socketOf[g] IN wire'[s] = wire[s] /\ (s \in escaped' <=> s \in escaped)
  BY <1>1, <1>4 DEF Lost, AdmissionTypeOK
<1>5. ASSUME NEW g \in Fds \ {f, d}, FdsOf(socketOf[g]) = {g}
      PROVE  FdsOf(socketOf[g])' = {g}
  <2>1. socketOf[f] # socketOf[g] /\ \A h \in Fds : socketOf[h] = socketOf[g] <=> h = g
    BY <1>5 DEF FdsOf
  <2>2. \A h \in Fds : socketOf'[h] = socketOf[g] <=> h = g
    BY <1>2, <2>1
  <2> QED
    BY <2>2 DEF FdsOf
<1> QED
  BY <1>2, <1>3, <1>4, <1>5

\* The two actions that close a number, on the state they meet.
LEMMA Closings ==
  ASSUME AdmissionInv
  PROVE  /\ \A t \in AppThreads : Close(t) => using[t] \in Fds /\ Closed(using[t], FALSE)
         /\ SweepOne => \E f \in table : SweptFd(f)
<1> AdmissionTypeOK /\ Apart
  BY DEF AdmissionInv
<1>1. ASSUME NEW t \in AppThreads, Close(t) PROVE using[t] \in Fds /\ Closed(using[t], FALSE)
  <2>1. using[t] \in Fds
    BY <1>1 DEF AdmissionTypeOK, Apart, Close, In, Idle
  <2> QED
    BY <1>1, <2>1, Closes DEF Close
<1>2. ASSUME SweepOne PROVE \E f \in table : SweptFd(f)
  <2>1. table \subseteq Fds
    BY DEF AdmissionTypeOK
  <2> QED
    BY <1>2, <2>1, Closes DEF SweepOne, SweptFd
<1> QED
  BY <1>1, <1>2

-----------------------------------------------------------------------------
(* The counter of admissions                                               *)

\* The admitted calls can be counted.
LEMMA AdmittedFinite == IsFiniteSet(Admitted) /\ Cardinality(Admitted) \in Nat
BY FS_Subset, FS_CardinalityType, AdmissionAssumption DEF Admitted

\* The counter goes by one with a thread that enters or leaves, and stays with
\* one that goes from step to step.
LEMMA AdmissionCounts ==
  ASSUME AdmissionTypeOK, NEW t \in AppThreads, NEW d \in HookSteps, Does(t, d)
  PROVE  Cardinality(Admitted)' =
           IF t \in Admitted
           THEN IF d \in {"look", "track", "dial", "leave"} THEN admissions ELSE admissions - 1
           ELSE IF d \in {"look", "track", "dial", "leave"} THEN admissions + 1 ELSE admissions
<1>1. Admitted' = IF d \in {"look", "track", "dial", "leave"} THEN Admitted \cup {t} ELSE Admitted \ {t}
  BY DEF Admitted, Does, AdmissionTypeOK
<1>2. t \in Admitted => Admitted \cup {t} = Admitted
  OBVIOUS
<1>3. t \notin Admitted => Admitted \ {t} = Admitted
  OBVIOUS
<1> QED
  BY <1>1, <1>2, <1>3, AdmittedFinite, FS_AddElement, FS_RemoveElement DEF AdmissionTypeOK

\* The types, in groups of variables that change together.
Modes ==
  /\ disabled \in BOOLEAN /\ barred \in BOOLEAN /\ leaving \in BOOLEAN
  /\ control \in {"idle", "bar", "wait"} \cup Sweeps
Net ==
  /\ socketOf \in [Fds -> Sockets \cup {0}] /\ wire \in [Sockets -> Wires]
  /\ escaped \subseteq Sockets
Hooks ==
  /\ hook \in [AppThreads -> HookSteps] /\ using \in [AppThreads -> Fds \cup {0}]
  /\ twin \in [AppThreads -> Fds \cup {0}] /\ aim \in [AppThreads -> Sockets \cup {0}]
Fits(S) == S \subseteq Fds /\ Cardinality(S) <= TableMax
Table == Fits(table)

\* Together they are the type invariant.
LEMMA TypeGroups ==
  AdmissionTypeOK <=> Modes /\ Net /\ Hooks /\ Table /\ admissions = Cardinality(Admitted)
BY DEF AdmissionTypeOK, Modes, Net, Hooks, Table, Fits

\* What is on or off, and where the queue is, keeps its type.
LEMMA ModesStep == ASSUME AdmissionTypeOK, AdmissionNext PROVE Modes'
<1> USE DEF AdmissionTypeOK, Modes, Sweeps
<1>1. ASSUME NEW f \in Fds, OpenSocket(f) PROVE Modes'
  BY <1>1 DEF OpenSocket
<1>2. ASSUME NEW t \in AppThreads, Hook(t) PROVE Modes'
  BY <1>2 DEF Hook, Admit, Look, TrackSocket, DirectConnect, DirectConnectFails,
              Leave, RouteByChain, Copy, Close
<1>3. ASSUME NEW t \in AppThreads, AppCalls(t) PROVE Modes'
  BY <1>3 DEF AppCalls, Connect, Untrack, Duplicate
<1>4. ASSUME Switching PROVE Modes'
  BY <1>4 DEF Switching, Bar, Awaited, SweepOne, SweepEnds
<1>5. ASSUME SetEnabled \/ ConfigChanged PROVE Modes'
  BY <1>5 DEF SetEnabled, ConfigChanged
<1> QED
  BY <1>1, <1>2, <1>3, <1>4, <1>5 DEF AdmissionNext

\* So does what the threads hold.
LEMMA HooksStep == ASSUME AdmissionTypeOK, AdmissionNext PROVE Hooks'
<1> USE Numbers DEF AdmissionTypeOK, Hooks, HookSteps, Does, Done
<1>1. ASSUME NEW f \in Fds, OpenSocket(f) PROVE Hooks'
  BY <1>1 DEF OpenSocket
<1>2. ASSUME NEW t \in AppThreads, Hook(t) PROVE Hooks'
  BY <1>2 DEF Hook, Admit, Look, TrackSocket, DirectConnect, DirectConnectFails,
              Leave, RouteByChain, Copy, Close
<1>3. ASSUME NEW t \in AppThreads, AppCalls(t) PROVE Hooks'
  BY <1>3 DEF AppCalls, Connect, Untrack, Duplicate
<1>4. ASSUME Switching PROVE Hooks'
  BY <1>4 DEF Switching, Bar, Awaited, SweepOne, SweepEnds
<1>5. ASSUME SetEnabled \/ ConfigChanged PROVE Hooks'
  BY <1>5 DEF SetEnabled, ConfigChanged
<1> QED
  BY <1>1, <1>2, <1>3, <1>4, <1>5 DEF AdmissionNext

\* So do sockets: the one that socket() finds is there.
LEMMA NetStep == ASSUME AdmissionTypeOK, Apart, AdmissionNext PROVE Net'
<1> USE Numbers DEF AdmissionTypeOK, Net, Wires
<1>1. ASSUME NEW f \in Fds, OpenSocket(f) PROVE Net'
  BY <1>1, UnusedFound DEF OpenSocket
<1>2. ASSUME NEW t \in AppThreads, Hook(t) PROVE Net'
  <2>1. CASE Close(t)
    BY <2>1 DEF Close, CloseNumber
  <2>2. CASE DirectConnect(t)
    <3>1. socketOf[using[t]] \in Sockets
      BY <2>2 DEF DirectConnect, Apart, Idle, In
    <3> QED
      BY <2>2, <3>1 DEF DirectConnect
  <2>3. CASE RouteByChain(t)
    BY <2>3 DEF RouteByChain
  <2>4. CASE TrackSocket(t) \/ Copy(t)
    BY <2>4 DEF TrackSocket, Copy, Apart, Idle, In
  <2>5. CASE Admit(t) \/ Look(t) \/ DirectConnectFails(t) \/ Leave(t)
    BY <2>5 DEF Admit, Look, DirectConnectFails, Leave
  <2> QED
    BY <1>2, <2>1, <2>2, <2>3, <2>4, <2>5 DEF Hook
<1>3. ASSUME NEW t \in AppThreads, AppCalls(t) PROVE Net'
  BY <1>3 DEF AppCalls, Connect, Untrack, Duplicate
<1>4. ASSUME Switching PROVE Net'
  BY <1>4 DEF Switching, Bar, Awaited, SweepOne, SweepEnds, CloseNumber
<1>5. ASSUME SetEnabled \/ ConfigChanged PROVE Net'
  BY <1>5 DEF SetEnabled, ConfigChanged
<1> QED
  BY <1>1, <1>2, <1>3, <1>4, <1>5 DEF AdmissionNext

\* What an entry more or less does to the size of the table.
LEMMA TableGrows ==
  ASSUME NEW S, S \subseteq Fds, NEW f
  PROVE  /\ Cardinality(S) \in Nat
         /\ Cardinality(S \ {f}) \in Nat /\ Cardinality(S \ {f}) <= Cardinality(S)
         /\ Cardinality(S \cup {f}) \in Nat /\ Cardinality(S \cup {f}) <= Cardinality(S) + 1
         /\ f \in S => S \cup {f} = S
<1>1. IsFiniteSet(S) /\ Cardinality(S) \in Nat
  BY Numbers, FS_Subset, FS_CardinalityType
<1>2. Cardinality(S \ {f}) = IF f \in S THEN Cardinality(S) - 1 ELSE Cardinality(S)
  BY <1>1, FS_RemoveElement
<1>3. Cardinality(S \cup {f}) = IF f \in S THEN Cardinality(S) ELSE Cardinality(S) + 1
  BY <1>1, FS_AddElement
<1>4. IsFiniteSet(S \ {f}) /\ Cardinality(S \ {f}) \in Nat
  BY <1>1, FS_RemoveElement, FS_CardinalityType
<1> QED
  BY <1>1, <1>2, <1>3, <1>4

\* The table stays within LC_DIRECT_FD_MAX.
LEMMA TableStep == ASSUME AdmissionTypeOK, Apart, AdmissionNext PROVE Table'
<1>0. Fits(table) /\ TableMax \in Nat
  BY AdmissionAssumption DEF AdmissionTypeOK, Fits
<1>1. ASSUME NEW f \in Fds, OpenSocket(f) PROVE Table'
  BY <1>0, <1>1, Zenon DEF OpenSocket, Table
<1>2. ASSUME NEW t \in AppThreads, TrackSocket(t) PROVE Table'
  <2>1. using[t] \in Fds
    BY <1>2 DEF TrackSocket, Apart, Idle, In, AdmissionTypeOK
  <2>2. /\ Cardinality(table) \in Nat
        /\ Cardinality(table \cup {using[t]}) \in Nat
        /\ Cardinality(table \cup {using[t]}) <= Cardinality(table) + 1
        /\ using[t] \in table => table \cup {using[t]} = table
    BY <1>0, TableGrows DEF Fits
  <2>3. table' = table \/ (Cardinality(table) < TableMax /\ table' = table \cup {using[t]})
    BY <1>2, <2>2 DEF TrackSocket
  <2>4. Cardinality(table) < TableMax => Fits(table \cup {using[t]})
    BY <1>0, <2>1, <2>2 DEF Fits
  <2> QED
    BY <1>0, <2>3, <2>4, Zenon DEF Table
<1>3. ASSUME NEW t \in AppThreads, Copy(t) PROVE Table'
  <2> DEFINE others == table \ {twin[t]}
  <2>1. twin[t] \in Fds
    BY <1>3 DEF Copy, Apart, In, AdmissionTypeOK
  <2>2. Fits(others) /\ Cardinality(others) \in Nat
    <3>1. /\ Cardinality(table) \in Nat /\ Cardinality(others) \in Nat
          /\ Cardinality(others) <= Cardinality(table)
      BY <1>0, TableGrows DEF Fits
    <3> QED
      BY <1>0, <3>1 DEF Fits
  <2> HIDE DEF others
  <2>3. /\ Cardinality(others \cup {twin[t]}) \in Nat
        /\ Cardinality(others \cup {twin[t]}) <= Cardinality(others) + 1
    BY <2>2, TableGrows DEF Fits
  <2>4. table' = others \/ (Cardinality(others) < TableMax /\ table' = others \cup {twin[t]})
    BY <1>3 DEF Copy, others
  <2>5. Cardinality(others) < TableMax => Fits(others \cup {twin[t]})
    BY <1>0, <2>1, <2>2, <2>3 DEF Fits
  <2> QED
    BY <2>2, <2>4, <2>5, Zenon DEF Table
<1>4. ASSUME NEW t \in AppThreads, Hook(t), ~TrackSocket(t), ~Copy(t) PROVE Table'
  <2>1. table' = table
    BY <1>4 DEF Hook, Admit, Look, DirectConnect, DirectConnectFails, Leave, RouteByChain, Close
  <2> QED
    BY <1>0, <2>1, Zenon DEF Table
<1>5. ASSUME NEW f, table' = table \ {f} PROVE Table'
  <2>1. Fits(table \ {f})
    BY <1>0, TableGrows DEF Fits
  <2> QED
    BY <1>5, <2>1, Zenon DEF Table
<1>6. ASSUME NEW t \in AppThreads, AppCalls(t) PROVE Table'
  <2>1. ASSUME table' = table PROVE Table'
    BY <1>0, <2>1, Zenon DEF Table
  <2> QED
    BY <1>5, <1>6, <2>1 DEF AppCalls, Connect, Duplicate, Untrack
<1>7. ASSUME SweepOne PROVE Table'
  BY <1>5, <1>7 DEF SweepOne
<1>8. ASSUME Bar \/ Awaited \/ SweepEnds \/ SetEnabled \/ ConfigChanged PROVE Table'
  BY <1>0, <1>8, Zenon DEF Bar, Awaited, SweepEnds, SetEnabled, ConfigChanged, Table
<1> QED
  BY <1>1, <1>2, <1>3, <1>4, <1>6, <1>7, <1>8 DEF AdmissionNext, Switching

\* The counter of admissions counts the calls between its begin and its end.
LEMMA CountStep ==
  ASSUME AdmissionTypeOK, Apart, AdmissionNext PROVE admissions' = Cardinality(Admitted)'
<1>0. admissions = Cardinality(Admitted)
  BY DEF AdmissionTypeOK
<1>1. ASSUME hook' = hook, admissions' = admissions PROVE admissions' = Cardinality(Admitted)'
  <2>1. Admitted' = Admitted
    BY <1>1 DEF Admitted
  <2> QED
    BY <1>0, <1>1, <2>1
<1>2. ASSUME NEW t \in AppThreads, Hook(t) PROVE admissions' = Cardinality(Admitted)'
  <2>1. CASE Admit(t)
    <3>1. PICK d \in {"look", "route"} : Does(t, d)
      BY <2>1 DEF Admit
    <3>2. t \notin Admitted
      BY <2>1 DEF Admit, Admitted, In
    <3> QED
      BY <2>1, <3>1, <3>2, AdmissionCounts DEF Admit, Does, HookSteps, AdmissionTypeOK
  <2>2. CASE Look(t) \/ TrackSocket(t) \/ DirectConnect(t) \/ DirectConnectFails(t)
    <3>1. /\ t \in Admitted /\ admissions' = admissions
          /\ \E d \in {"dial", "track", "leave"} : Does(t, d)
      BY <2>2 DEF Look, TrackSocket, DirectConnect, DirectConnectFails, Admitted, In
    <3>2. PICK d \in {"dial", "track", "leave"} : Does(t, d)
      BY <3>1
    <3> QED
      BY <3>1, <3>2, AdmissionCounts DEF HookSteps
  <2>3. CASE Leave(t)
    <3>1. t \in Admitted /\ admissions' = admissions - 1 /\ Does(t, "idle")
      BY <2>3 DEF Leave, Done, Admitted, In
    <3> QED
      BY <3>1, AdmissionCounts DEF HookSteps
  <2>4. CASE RouteByChain(t) \/ Copy(t) \/ Close(t)
    <3>1. t \notin Admitted /\ admissions' = admissions /\ Does(t, "idle")
      BY <2>4 DEF RouteByChain, Copy, Close, Done, Admitted, In
    <3> QED
      BY <3>1, AdmissionCounts DEF HookSteps
  <2> QED
    BY <1>2, <2>1, <2>2, <2>3, <2>4 DEF Hook
<1>3. ASSUME NEW t \in AppThreads, AppCalls(t) PROVE admissions' = Cardinality(Admitted)'
  <2>1. /\ t \notin Admitted /\ admissions' = admissions
        /\ \E d \in {"admit", "route", "copy", "close"} : Does(t, d)
    BY <1>3 DEF AppCalls, Connect, Untrack, Duplicate, Admitted, Idle
  <2>2. PICK d \in {"admit", "route", "copy", "close"} : Does(t, d)
    BY <2>1
  <2> QED
    BY <2>1, <2>2, AdmissionCounts DEF HookSteps
<1>4. CASE (\E f \in Fds : OpenSocket(f)) \/ Switching \/ SetEnabled \/ ConfigChanged
  <2>1. hook' = hook /\ admissions' = admissions
    BY <1>4 DEF OpenSocket, Switching, Bar, Awaited, SweepOne, SweepEnds, SetEnabled, ConfigChanged
  <2> QED
    BY <1>1, <2>1
<1> QED
  BY <1>2, <1>3, <1>4 DEF AdmissionNext

-----------------------------------------------------------------------------
(* Every step keeps every part of the invariant.                           *)

\* A hook takes only numbers that are not in use.
LEMMA ApartStep == ASSUME AdmissionInv, AdmissionNext PROVE Apart'
<1> USE Numbers
    DEF AdmissionInv, AdmissionTypeOK, Apart, Busy, HookSteps, Does, Done, In, Idle,
        TableFree, Sweeps
<1>1. ASSUME NEW f \in Fds, OpenSocket(f) PROVE Apart'
  BY <1>1, UnusedFound DEF OpenSocket
<1>2. ASSUME NEW t \in AppThreads, NEW f \in Fds, Connect(t, f) PROVE Apart'
  BY <1>2 DEF Connect
<1>3. ASSUME NEW t \in AppThreads, NEW f \in Fds, Untrack(t, f) PROVE Apart'
  BY <1>3 DEF Untrack
<1>4. ASSUME NEW t \in AppThreads, NEW f \in Fds, NEW d \in Fds, Duplicate(t, f, d) PROVE Apart'
  <2>1. Lost(d, FALSE)
    BY <1>4, Closes
  <2> QED
    BY <1>4, <2>1 DEF Duplicate, Lost
<1>5. ASSUME NEW t \in AppThreads, Admit(t) \/ Look(t) \/ DirectConnectFails(t) \/ Leave(t) PROVE Apart'
  BY <1>5 DEF Admit, Look, DirectConnectFails, Leave
<1>6. ASSUME NEW t \in AppThreads, TrackSocket(t) PROVE Apart'
  BY <1>6 DEF TrackSocket
<1>7. ASSUME NEW t \in AppThreads, DirectConnect(t) PROVE Apart'
  BY <1>7 DEF DirectConnect
<1>8. ASSUME NEW t \in AppThreads, RouteByChain(t) PROVE Apart'
  BY <1>8 DEF RouteByChain
<1>9. ASSUME NEW t \in AppThreads, Copy(t) PROVE Apart'
  BY <1>9 DEF Copy
<1>10. ASSUME NEW t \in AppThreads, Close(t) PROVE Apart'
  <2>1. using[t] \in Fds /\ Closed(using[t], FALSE) /\ OwnNumbers(t)
    BY <1>10, Closings, Owned
  <2> QED
    BY <1>10, <2>1 DEF Close, Closed, Lost, OwnNumbers
<1>11. ASSUME SweepOne PROVE Apart'
  <2>1. PICK f \in table : SweptFd(f)
    BY <1>11, Closings
  <2> QED
    BY <1>11, <2>1 DEF SweepOne, SweptFd, Closed, Lost
<1>12. ASSUME Bar \/ Awaited \/ SweepEnds \/ SetEnabled \/ ConfigChanged PROVE Apart'
  BY <1>12 DEF Bar, Awaited, SweepEnds, SetEnabled, ConfigChanged
<1> QED
  BY <1>1, <1>2, <1>3, <1>4, <1>5, <1>6,
     <1>7, <1>8, <1>9, <1>10, <1>11, <1>12
  DEF AdmissionNext, Hook, AppCalls, Switching

\* No second connect takes a socket.
LEMMA AimedStep == ASSUME AdmissionInv, AdmissionNext PROVE Aimed'
<1> USE Numbers
    DEF AdmissionInv, AdmissionTypeOK, Aimed, Busy, HookSteps, Connecting, Apart, Does,
        Done, In, Idle, TableFree, Sweeps
<1>1. ASSUME NEW f \in Fds, OpenSocket(f) PROVE Aimed'
  BY <1>1, UnusedFound DEF OpenSocket
<1>2. ASSUME NEW t \in AppThreads, NEW f \in Fds, Connect(t, f) PROVE Aimed'
  BY <1>2 DEF Connect
<1>3. ASSUME NEW t \in AppThreads, NEW f \in Fds, Untrack(t, f) PROVE Aimed'
  BY <1>3 DEF Untrack
<1>4. ASSUME NEW t \in AppThreads, NEW f \in Fds, NEW d \in Fds, Duplicate(t, f, d) PROVE Aimed'
  <2>1. Lost(d, FALSE)
    BY <1>4, Closes
  <2> QED
    BY <1>4, <2>1 DEF Duplicate, Lost
<1>5. ASSUME NEW t \in AppThreads, Admit(t) \/ Look(t) \/ DirectConnectFails(t) \/ Leave(t) PROVE Aimed'
  BY <1>5 DEF Admit, Look, DirectConnectFails, Leave
<1>6. ASSUME NEW t \in AppThreads, TrackSocket(t) PROVE Aimed'
  BY <1>6 DEF TrackSocket
<1>7. ASSUME NEW t \in AppThreads, DirectConnect(t) PROVE Aimed'
  BY <1>7 DEF DirectConnect
<1>8. ASSUME NEW t \in AppThreads, RouteByChain(t) PROVE Aimed'
  BY <1>8 DEF RouteByChain
<1>9. ASSUME NEW t \in AppThreads, Copy(t) PROVE Aimed'
  <2>1. OwnNumbers(t) /\ using[t] \in Fds /\ twin[t] \in Fds
    BY <1>9, Owned DEF Copy
  <2> QED
    BY <1>9, <2>1 DEF OwnNumbers, Copy
<1>10. ASSUME NEW t \in AppThreads, Close(t) PROVE Aimed'
  <2>1. using[t] \in Fds /\ Closed(using[t], FALSE) /\ OwnNumbers(t)
    BY <1>10, Closings, Owned
  <2> QED
    BY <1>10, <2>1 DEF Close, Closed, Lost, OwnNumbers
<1>11. ASSUME SweepOne PROVE Aimed'
  <2>1. PICK f \in table : SweptFd(f)
    BY <1>11, Closings
  <2> QED
    BY <1>11, <2>1 DEF SweepOne, SweptFd, Closed, Lost
<1>12. ASSUME Bar \/ Awaited \/ SweepEnds \/ SetEnabled \/ ConfigChanged PROVE Aimed'
  BY <1>12 DEF Bar, Awaited, SweepEnds, SetEnabled, ConfigChanged
<1> QED
  BY <1>1, <1>2, <1>3, <1>4, <1>5, <1>6,
     <1>7, <1>8, <1>9, <1>10, <1>11, <1>12
  DEF AdmissionNext, Hook, AppCalls, Switching

\* The last close of a socket wipes it.
LEMMA NoTraceStep == ASSUME AdmissionInv, AdmissionNext PROVE NoTrace'
<1> USE Numbers
    DEF AdmissionInv, AdmissionTypeOK, NoTrace, Apart, FdsOf, HookSteps, Does, Done, In,
        Idle, TableFree, Sweeps
<1>1. ASSUME NEW f \in Fds, OpenSocket(f) PROVE NoTrace'
  BY <1>1, UnusedFound DEF OpenSocket
<1>2. ASSUME NEW t \in AppThreads, NEW f \in Fds, Connect(t, f) PROVE NoTrace'
  BY <1>2 DEF Connect
<1>3. ASSUME NEW t \in AppThreads, NEW f \in Fds, Untrack(t, f) PROVE NoTrace'
  BY <1>3 DEF Untrack
<1>4. ASSUME NEW t \in AppThreads, NEW f \in Fds, NEW d \in Fds, Duplicate(t, f, d) PROVE NoTrace'
  <2>1. Lost(d, FALSE)
    BY <1>4, Closes
  <2> QED
    BY <1>4, <2>1 DEF Duplicate, Lost
<1>5. ASSUME NEW t \in AppThreads, Admit(t) \/ Look(t) \/ DirectConnectFails(t) \/ Leave(t) PROVE NoTrace'
  BY <1>5 DEF Admit, Look, DirectConnectFails, Leave
<1>6. ASSUME NEW t \in AppThreads, TrackSocket(t) PROVE NoTrace'
  BY <1>6 DEF TrackSocket
<1>7. ASSUME NEW t \in AppThreads, DirectConnect(t) PROVE NoTrace'
  BY <1>7 DEF DirectConnect
<1>8. ASSUME NEW t \in AppThreads, RouteByChain(t) PROVE NoTrace'
  BY <1>8 DEF RouteByChain
<1>9. ASSUME NEW t \in AppThreads, Copy(t) PROVE NoTrace'
  BY <1>9 DEF Copy
<1>10. ASSUME NEW t \in AppThreads, Close(t) PROVE NoTrace'
  <2>1. using[t] \in Fds /\ Closed(using[t], FALSE) /\ OwnNumbers(t)
    BY <1>10, Closings, Owned
  <2> QED
    BY <1>10, <2>1 DEF Close, Closed, Lost, OwnNumbers
<1>11. ASSUME SweepOne PROVE NoTrace'
  <2>1. PICK f \in table : SweptFd(f)
    BY <1>11, Closings
  <2> QED
    BY <1>11, <2>1 DEF SweepOne, SweptFd, Closed, Lost
<1>12. ASSUME Bar \/ Awaited \/ SweepEnds \/ SetEnabled \/ ConfigChanged PROVE NoTrace'
  BY <1>12 DEF Bar, Awaited, SweepEnds, SetEnabled, ConfigChanged
<1> QED
  BY <1>1, <1>2, <1>3, <1>4, <1>5, <1>6,
     <1>7, <1>8, <1>9, <1>10, <1>11, <1>12
  DEF AdmissionNext, Hook, AppCalls, Switching

\* The order of the switch: admissions are stopped, then awaited, then swept.
LEMMA SwitchOrderStep == ASSUME AdmissionInv, AdmissionNext PROVE SwitchOrder'
<1> USE Numbers
    DEF AdmissionInv, AdmissionTypeOK, SwitchOrder, Apart, HookSteps, Admitted, Does,
        Done, In, Idle, TableFree, Sweeps
<1>1. ASSUME NEW f \in Fds, OpenSocket(f) PROVE SwitchOrder'
  BY <1>1, UnusedFound DEF OpenSocket
<1>2. ASSUME NEW t \in AppThreads, NEW f \in Fds, Connect(t, f) PROVE SwitchOrder'
  BY <1>2 DEF Connect
<1>3. ASSUME NEW t \in AppThreads, NEW f \in Fds, Untrack(t, f) PROVE SwitchOrder'
  BY <1>3 DEF Untrack
<1>4. ASSUME NEW t \in AppThreads, NEW f \in Fds, NEW d \in Fds, Duplicate(t, f, d) PROVE SwitchOrder'
  <2>1. Lost(d, FALSE)
    BY <1>4, Closes
  <2> QED
    BY <1>4, <2>1 DEF Duplicate, Lost
<1>5. ASSUME NEW t \in AppThreads, Admit(t) \/ Look(t) \/ DirectConnectFails(t) \/ Leave(t) PROVE SwitchOrder'
  BY <1>5 DEF Admit, Look, DirectConnectFails, Leave
<1>6. ASSUME NEW t \in AppThreads, TrackSocket(t) PROVE SwitchOrder'
  BY <1>6 DEF TrackSocket
<1>7. ASSUME NEW t \in AppThreads, DirectConnect(t) PROVE SwitchOrder'
  BY <1>7 DEF DirectConnect
<1>8. ASSUME NEW t \in AppThreads, RouteByChain(t) PROVE SwitchOrder'
  BY <1>8 DEF RouteByChain
<1>9. ASSUME NEW t \in AppThreads, Copy(t) PROVE SwitchOrder'
  BY <1>9 DEF Copy
<1>10. ASSUME NEW t \in AppThreads, Close(t) PROVE SwitchOrder'
  <2>1. using[t] \in Fds /\ Closed(using[t], FALSE) /\ OwnNumbers(t)
    BY <1>10, Closings, Owned
  <2> QED
    BY <1>10, <2>1 DEF Close, Closed, Lost, OwnNumbers
<1>11. ASSUME SweepOne PROVE SwitchOrder'
  <2>1. PICK f \in table : SweptFd(f)
    BY <1>11, Closings
  <2> QED
    BY <1>11, <2>1 DEF SweepOne, SweptFd, Closed, Lost
<1>12. ASSUME Bar \/ Awaited \/ SweepEnds \/ SetEnabled \/ ConfigChanged PROVE SwitchOrder'
  <2>1. admissions = 0 => Admitted = {}
    BY AdmittedFinite, FS_EmptySet
  <2> QED
    BY <1>12, <2>1 DEF Bar, Awaited, SweepEnds, SetEnabled, ConfigChanged
<1> QED
  BY <1>1, <1>2, <1>3, <1>4, <1>5, <1>6,
     <1>7, <1>8, <1>9, <1>10, <1>11, <1>12
  DEF AdmissionNext, Hook, AppCalls, Switching

\* A duplicate made before the connect makes the socket escape; none is made under it.
LEMMA AloneStep == ASSUME AdmissionInv, AdmissionNext PROVE Alone'
<1> USE Numbers
    DEF AdmissionInv, AdmissionTypeOK, Alone, Apart, Aimed, NoTrace, FdsOf, HookSteps,
        Connecting, Busy, Does, Done, In, Idle, TableFree, Sweeps
<1>1. ASSUME NEW f \in Fds, OpenSocket(f) PROVE Alone'
  BY <1>1, UnusedFound DEF OpenSocket
<1>2. ASSUME NEW t \in AppThreads, NEW f \in Fds, Connect(t, f) PROVE Alone'
  BY <1>2 DEF Connect
<1>3. ASSUME NEW t \in AppThreads, NEW f \in Fds, Untrack(t, f) PROVE Alone'
  BY <1>3 DEF Untrack
<1>4. ASSUME NEW t \in AppThreads, NEW f \in Fds, NEW d \in Fds, Duplicate(t, f, d) PROVE Alone'
  <2> SUFFICES ASSUME NEW i \in AppThreads,
                      hook'[i] \in Connecting, socketOf'[using'[i]] # 0
               PROVE  /\ hook[i] \in {"admit", "look", "track", "dial"} =>
                           socketOf[using[i]] \in escaped' \/ FdsOf(socketOf[using[i]])' = {using[i]}
                      /\ aim[i] = 0 => FdsOf(socketOf[using[i]])' = {using[i]}
                      /\ i # t /\ socketOf'[using[i]] = socketOf[using[i]]
    BY <1>4, Duplicates
  <2>1. i # t /\ using[i] \in Fds \ {f, d}
    <3>1. i # t
      BY <1>4, Duplicates
    <3>2. using[i] \in Fds
      BY <1>4, <3>1, Owned, Duplicates
    <3> QED
      BY <1>4, <3>1, <3>2, Duplicates
  <2>2. socketOf'[using[i]] = socketOf[using[i]] /\ socketOf[using[i]] # 0 /\ hook[i] \in Connecting
    BY <1>4, <2>1, Duplicates
  <2> QED
    BY <1>4, <2>1, <2>2, Duplicates
<1>5. ASSUME NEW t \in AppThreads, Admit(t) \/ Look(t) \/ DirectConnectFails(t) \/ Leave(t) PROVE Alone'
  BY <1>5 DEF Admit, Look, DirectConnectFails, Leave
<1>6. ASSUME NEW t \in AppThreads, TrackSocket(t) PROVE Alone'
  BY <1>6 DEF TrackSocket
<1>7. ASSUME NEW t \in AppThreads, DirectConnect(t) PROVE Alone'
  BY <1>7 DEF DirectConnect
<1>8. ASSUME NEW t \in AppThreads, RouteByChain(t) PROVE Alone'
  BY <1>8 DEF RouteByChain
<1>9. ASSUME NEW t \in AppThreads, Copy(t) PROVE Alone'
  BY <1>9 DEF Copy
<1>10. ASSUME NEW t \in AppThreads, Close(t) PROVE Alone'
  <2>1. using[t] \in Fds /\ Closed(using[t], FALSE) /\ OwnNumbers(t)
    BY <1>10, Closings, Owned
  <2> QED
    BY <1>10, <2>1 DEF Close, Closed, Lost, OwnNumbers
<1>11. ASSUME SweepOne PROVE Alone'
  <2>1. PICK f \in table : SweptFd(f)
    BY <1>11, Closings
  <2> QED
    BY <1>11, <2>1 DEF SweepOne, SweptFd, Closed, Lost
<1>12. ASSUME Bar \/ Awaited \/ SweepEnds \/ SetEnabled \/ ConfigChanged PROVE Alone'
  BY <1>12 DEF Bar, Awaited, SweepEnds, SetEnabled, ConfigChanged
<1> QED
  BY <1>1, <1>2, <1>3, <1>4, <1>5, <1>6,
     <1>7, <1>8, <1>9, <1>10, <1>11, <1>12
  DEF AdmissionNext, Hook, AppCalls, Switching

\* Nobody connects a socket under a connect that has not got so far.
LEMMA UnconnectedStep == ASSUME AdmissionInv, AdmissionNext PROVE Unconnected'
<1> USE Numbers
    DEF AdmissionInv, AdmissionTypeOK, Unconnected, Apart, NoTrace, FdsOf, HookSteps,
        Connecting, Busy, Wires, Does, Done, In, Idle, TableFree, Sweeps
<1>1. ASSUME NEW f \in Fds, OpenSocket(f) PROVE Unconnected'
  BY <1>1, UnusedFound DEF OpenSocket
<1>2. ASSUME NEW t \in AppThreads, NEW f \in Fds, Connect(t, f) PROVE Unconnected'
  BY <1>2 DEF Connect
<1>3. ASSUME NEW t \in AppThreads, NEW f \in Fds, Untrack(t, f) PROVE Unconnected'
  BY <1>3 DEF Untrack
<1>4. ASSUME NEW t \in AppThreads, NEW f \in Fds, NEW d \in Fds, Duplicate(t, f, d) PROVE Unconnected'
  <2>1. Lost(d, FALSE)
    BY <1>4, Closes
  <2> QED
    BY <1>4, <2>1 DEF Duplicate, Lost
<1>5. ASSUME NEW t \in AppThreads, Admit(t) \/ Look(t) \/ DirectConnectFails(t) \/ Leave(t) PROVE Unconnected'
  BY <1>5 DEF Admit, Look, DirectConnectFails, Leave
<1>6. ASSUME NEW t \in AppThreads, TrackSocket(t) PROVE Unconnected'
  BY <1>6 DEF TrackSocket
<1>7. ASSUME NEW t \in AppThreads, DirectConnect(t) PROVE Unconnected'
  <2>1. OwnNumbers(t)
    BY Owned
  <2>2. \A i \in AppThreads : i # t /\ hook[i] \in Connecting /\ socketOf[using[t]] # 0 =>
           socketOf[using[i]] # socketOf[using[t]]
    BY <1>7, SocketsApart DEF Connecting, DirectConnect
  <2> QED
    BY <1>7, <2>1, <2>2 DEF OwnNumbers, DirectConnect
<1>8. ASSUME NEW t \in AppThreads, RouteByChain(t) PROVE Unconnected'
  <2>1. OwnNumbers(t)
    BY Owned
  <2>2. \A i \in AppThreads : i # t /\ hook[i] \in Connecting /\ socketOf[using[t]] # 0 =>
           socketOf[using[i]] # socketOf[using[t]]
    BY <1>8, SocketsApart DEF Connecting, RouteByChain
  <2> QED
    BY <1>8, <2>1, <2>2 DEF OwnNumbers, RouteByChain
<1>9. ASSUME NEW t \in AppThreads, Copy(t) PROVE Unconnected'
  BY <1>9 DEF Copy
<1>10. ASSUME NEW t \in AppThreads, Close(t) PROVE Unconnected'
  <2>1. using[t] \in Fds /\ Closed(using[t], FALSE) /\ OwnNumbers(t)
    BY <1>10, Closings, Owned
  <2> QED
    BY <1>10, <2>1 DEF Close, Closed, Lost, OwnNumbers
<1>11. ASSUME SweepOne PROVE Unconnected'
  <2>1. PICK f \in table : SweptFd(f)
    BY <1>11, Closings
  <2> QED
    BY <1>11, <2>1 DEF SweepOne, SweptFd, Closed, Lost
<1>12. ASSUME Bar \/ Awaited \/ SweepEnds \/ SetEnabled \/ ConfigChanged PROVE Unconnected'
  BY <1>12 DEF Bar, Awaited, SweepEnds, SetEnabled, ConfigChanged
<1> QED
  BY <1>1, <1>2, <1>3, <1>4, <1>5, <1>6,
     <1>7, <1>8, <1>9, <1>10, <1>11, <1>12
  DEF AdmissionNext, Hook, AppCalls, Switching

\* The descriptor of a direct connect is noted before it is dialled.
LEMMA TrackedStep == ASSUME AdmissionInv, AdmissionNext PROVE Tracked'
<1> USE Numbers
    DEF AdmissionInv, AdmissionTypeOK, Tracked, Apart, Aimed, NoTrace, FdsOf, HookSteps,
        Connecting, Busy, SwitchOrder, Admitted, Does, Done, In, Idle, TableFree, Sweeps
<1>1. ASSUME NEW f \in Fds, OpenSocket(f) PROVE Tracked'
  BY <1>1, UnusedFound DEF OpenSocket
<1>2. ASSUME NEW t \in AppThreads, NEW f \in Fds, Connect(t, f) PROVE Tracked'
  BY <1>2 DEF Connect
<1>3. ASSUME NEW t \in AppThreads, NEW f \in Fds, Untrack(t, f) PROVE Tracked'
  BY <1>3 DEF Untrack
<1>4. ASSUME NEW t \in AppThreads, NEW f \in Fds, NEW d \in Fds, Duplicate(t, f, d) PROVE Tracked'
  <2>1. Lost(d, FALSE)
    BY <1>4, Closes
  <2> QED
    BY <1>4, <2>1 DEF Duplicate, Lost
<1>5. ASSUME NEW t \in AppThreads, Admit(t) \/ Look(t) \/ DirectConnectFails(t) \/ Leave(t) PROVE Tracked'
  BY <1>5 DEF Admit, Look, DirectConnectFails, Leave
<1>6. ASSUME NEW t \in AppThreads, TrackSocket(t) PROVE Tracked'
  BY <1>6 DEF TrackSocket
<1>7. ASSUME NEW t \in AppThreads, DirectConnect(t) PROVE Tracked'
  BY <1>7 DEF DirectConnect
<1>8. ASSUME NEW t \in AppThreads, RouteByChain(t) PROVE Tracked'
  BY <1>8 DEF RouteByChain
<1>9. ASSUME NEW t \in AppThreads, Copy(t) PROVE Tracked'
  <2>1. OwnNumbers(t) /\ using[t] \in Fds /\ twin[t] \in Fds
    BY <1>9, Owned DEF Copy
  <2> QED
    BY <1>9, <2>1 DEF OwnNumbers, Copy
<1>10. ASSUME NEW t \in AppThreads, Close(t) PROVE Tracked'
  <2>1. using[t] \in Fds /\ Closed(using[t], FALSE) /\ OwnNumbers(t)
    BY <1>10, Closings, Owned
  <2> QED
    BY <1>10, <2>1 DEF Close, Closed, Lost, OwnNumbers
<1>11. ASSUME SweepOne PROVE Tracked'
  <2>1. PICK f \in table : SweptFd(f)
    BY <1>11, Closings
  <2> QED
    BY <1>11, <2>1 DEF SweepOne, SweptFd, Closed, Lost
<1>12. ASSUME Bar \/ Awaited \/ SweepEnds \/ SetEnabled \/ ConfigChanged PROVE Tracked'
  BY <1>12 DEF Bar, Awaited, SweepEnds, SetEnabled, ConfigChanged
<1> QED
  BY <1>1, <1>2, <1>3, <1>4, <1>5, <1>6,
     <1>7, <1>8, <1>9, <1>10, <1>11, <1>12
  DEF AdmissionNext, Hook, AppCalls, Switching

\* The table loses no direct connection that it covered.
LEMMA FdsCoveredStep == ASSUME AdmissionInv, AdmissionNext PROVE FdsCovered'
<1> USE Numbers
    DEF AdmissionInv, AdmissionTypeOK, FdsCovered, Apart, Aimed, NoTrace, Alone,
        Tracked, TwinsCovered, Covered, Copied, Closing, FdsOf, Connecting, Busy,
        HookSteps, Does, Done, In, Idle, TableFree, Sweeps
<1>1. ASSUME NEW f \in Fds, OpenSocket(f) PROVE FdsCovered'
  BY <1>1, UnusedFound DEF OpenSocket
<1>2. ASSUME NEW t \in AppThreads, NEW f \in Fds, Connect(t, f) PROVE FdsCovered'
  BY <1>2 DEF Connect
<1>3. ASSUME NEW t \in AppThreads, NEW f \in Fds, Untrack(t, f) PROVE FdsCovered'
  BY <1>3 DEF Untrack
<1>4. ASSUME NEW t \in AppThreads, NEW f \in Fds, NEW d \in Fds, Duplicate(t, f, d) PROVE FdsCovered'
  <2>1. Lost(d, FALSE)
    BY <1>4, Closes
  <2> QED
    BY <1>4, <2>1 DEF Duplicate, Lost
<1>5. ASSUME NEW t \in AppThreads, Admit(t) \/ Look(t) \/ DirectConnectFails(t) \/ Leave(t) PROVE FdsCovered'
  BY <1>5 DEF Admit, Look, DirectConnectFails, Leave
<1>6. ASSUME NEW t \in AppThreads, TrackSocket(t) PROVE FdsCovered'
  BY <1>6 DEF TrackSocket
<1>7. ASSUME NEW t \in AppThreads, DirectConnect(t) PROVE FdsCovered'
  BY <1>7 DEF DirectConnect
<1>8. ASSUME NEW t \in AppThreads, RouteByChain(t) PROVE FdsCovered'
  BY <1>8 DEF RouteByChain
<1>9. ASSUME NEW t \in AppThreads, Copy(t) PROVE FdsCovered'
  <2>1. OwnNumbers(t) /\ using[t] \in Fds /\ twin[t] \in Fds
    BY <1>9, Owned DEF Copy
  <2> QED
    BY <1>9, <2>1 DEF OwnNumbers, Copy
<1>10. ASSUME NEW t \in AppThreads, Close(t) PROVE FdsCovered'
  <2>1. using[t] \in Fds /\ Closed(using[t], FALSE) /\ OwnNumbers(t)
    BY <1>10, Closings, Owned
  <2> QED
    BY <1>10, <2>1 DEF Close, Closed, Lost, OwnNumbers
<1>11. ASSUME SweepOne PROVE FdsCovered'
  <2>1. PICK f \in table : SweptFd(f)
    BY <1>11, Closings
  <2> QED
    BY <1>11, <2>1 DEF SweepOne, SweptFd, Closed, Lost
<1>12. ASSUME Bar \/ Awaited \/ SweepEnds \/ SetEnabled \/ ConfigChanged PROVE FdsCovered'
  BY <1>12 DEF Bar, Awaited, SweepEnds, SetEnabled, ConfigChanged
<1> QED
  BY <1>1, <1>2, <1>3, <1>4, <1>5, <1>6,
     <1>7, <1>8, <1>9, <1>10, <1>11, <1>12
  DEF AdmissionNext, Hook, AppCalls, Switching

\* Nor does it while a duplicate is not noted.
LEMMA TwinsCoveredStep == ASSUME AdmissionInv, AdmissionNext PROVE TwinsCovered'
<1> USE Numbers
    DEF AdmissionInv, AdmissionTypeOK, TwinsCovered, Apart, NoTrace, Alone, FdsCovered,
        Covered, Copied, Closing, FdsOf, Busy, HookSteps, Does, Done, In, Idle,
        TableFree, Sweeps
<1>1. ASSUME NEW f \in Fds, OpenSocket(f) PROVE TwinsCovered'
  BY <1>1, UnusedFound DEF OpenSocket
<1>2. ASSUME NEW t \in AppThreads, NEW f \in Fds, Connect(t, f) PROVE TwinsCovered'
  BY <1>2 DEF Connect
<1>3. ASSUME NEW t \in AppThreads, NEW f \in Fds, Untrack(t, f) PROVE TwinsCovered'
  BY <1>3 DEF Untrack
<1>4. ASSUME NEW t \in AppThreads, NEW f \in Fds, NEW d \in Fds, Duplicate(t, f, d) PROVE TwinsCovered'
  <2>1. Lost(d, FALSE)
    BY <1>4, Closes
  <2>2. \A r \in Sockets : Covered(r)' => Covered(r)
    BY <1>4, <2>1 DEF Duplicate, Lost
  <2>3. Covered(socketOf[f]) => f \in table
    <3>1. \A i \in AppThreads : using[i] # f /\ twin[i] # f
      BY <1>4, FreeNumbers
    <3> QED
      BY <3>1
  <2>4. ASSUME NEW i \in AppThreads, In(i, "copy")', Covered(socketOf[twin[i]])'
        PROVE  (using[i] \in table /\ socketOf[using[i]] = socketOf[twin[i]])'
    <3>1. CASE i = t
      BY <1>4, <2>2, <2>3, <2>4, <3>1 DEF Duplicate
    <3>2. CASE i # t
      <4>1. In(i, "copy") /\ using'[i] = using[i] /\ twin'[i] = twin[i]
        BY <1>4, <2>4, <3>2, Duplicates
      <4>2. using[i] \in Fds \ {f, d} /\ twin[i] \in Fds \ {f, d}
        <5>1. using[i] \in Fds /\ twin[i] \in Fds
          BY <4>1, Owned
        <5>2. {using[i], twin[i]} \cap {f, d} = {}
          BY <1>4, <3>2, Duplicates
        <5> QED
          BY <5>1, <5>2
      <4>3. /\ socketOf'[using[i]] = socketOf[using[i]] /\ socketOf'[twin[i]] = socketOf[twin[i]]
            /\ table' = table
        BY <1>4, <4>2, Duplicates
      <4> QED
        BY <2>2, <2>4, <4>1, <4>3
    <3> QED
      BY <3>1, <3>2
  <2> QED
    BY <2>4
<1>5. ASSUME NEW t \in AppThreads, Admit(t) \/ Look(t) \/ DirectConnectFails(t) \/ Leave(t) PROVE TwinsCovered'
  BY <1>5 DEF Admit, Look, DirectConnectFails, Leave
<1>6. ASSUME NEW t \in AppThreads, TrackSocket(t) PROVE TwinsCovered'
  BY <1>6 DEF TrackSocket
<1>7. ASSUME NEW t \in AppThreads, DirectConnect(t) PROVE TwinsCovered'
  <2>1. OwnNumbers(t)
    BY Owned
  <2> QED
    BY <1>7, <2>1 DEF OwnNumbers, DirectConnect
<1>8. ASSUME NEW t \in AppThreads, RouteByChain(t) PROVE TwinsCovered'
  BY <1>8 DEF RouteByChain
<1>9. ASSUME NEW t \in AppThreads, Copy(t) PROVE TwinsCovered'
  <2>1. OwnNumbers(t) /\ using[t] \in Fds /\ twin[t] \in Fds
    BY <1>9, Owned DEF Copy
  <2> QED
    BY <1>9, <2>1 DEF OwnNumbers, Copy
<1>10. ASSUME NEW t \in AppThreads, Close(t) PROVE TwinsCovered'
  <2>1. using[t] \in Fds /\ Closed(using[t], FALSE) /\ OwnNumbers(t)
    BY <1>10, Closings, Owned
  <2> QED
    BY <1>10, <2>1 DEF Close, Closed, Lost, OwnNumbers
<1>11. ASSUME SweepOne PROVE TwinsCovered'
  <2>1. PICK f \in table : SweptFd(f)
    BY <1>11, Closings
  <2> QED
    BY <1>11, <2>1 DEF SweepOne, SweptFd, Closed, Lost
<1>12. ASSUME Bar \/ Awaited \/ SweepEnds \/ SetEnabled \/ ConfigChanged PROVE TwinsCovered'
  BY <1>12 DEF Bar, Awaited, SweepEnds, SetEnabled, ConfigChanged
<1> QED
  BY <1>1, <1>2, <1>3, <1>4, <1>5, <1>6,
     <1>7, <1>8, <1>9, <1>10, <1>11, <1>12
  DEF AdmissionNext, Hook, AppCalls, Switching

\* The sweep, which disregards the hooks, leaves no duplicate of something else.
LEMMA TwinsFollowStep == ASSUME AdmissionInv, AdmissionNext PROVE TwinsFollow'
<1> USE Numbers
    DEF AdmissionInv, AdmissionTypeOK, TwinsFollow, Apart, NoTrace, FdsOf, Busy,
        HookSteps, Does, Done, In, Idle, TableFree, Sweeps
<1>1. ASSUME NEW f \in Fds, OpenSocket(f) PROVE TwinsFollow'
  BY <1>1, UnusedFound DEF OpenSocket
<1>2. ASSUME NEW t \in AppThreads, NEW f \in Fds, Connect(t, f) PROVE TwinsFollow'
  BY <1>2 DEF Connect
<1>3. ASSUME NEW t \in AppThreads, NEW f \in Fds, Untrack(t, f) PROVE TwinsFollow'
  BY <1>3 DEF Untrack
<1>4. ASSUME NEW t \in AppThreads, NEW f \in Fds, NEW d \in Fds, Duplicate(t, f, d) PROVE TwinsFollow'
  <2> SUFFICES ASSUME NEW i \in AppThreads, In(i, "copy")', using'[i] \in table', i # t
               PROVE  \/ socketOf'[twin'[i]] \in {0, socketOf'[using'[i]]}
                      \/ FdsOf(socketOf[twin[i]])' = {twin'[i]} /\ wire'[socketOf'[twin'[i]]] = "new"
    BY <1>4, Duplicates
  <2>1. In(i, "copy") /\ using'[i] = using[i] /\ twin'[i] = twin[i] /\ using[i] \in table
    BY <1>4, Duplicates
  <2>2. using[i] \in Fds \ {f, d} /\ twin[i] \in Fds \ {f, d}
    <3>1. using[i] \in Fds /\ twin[i] \in Fds
      BY <2>1, Owned
    <3>2. {using[i], twin[i]} \cap {f, d} = {}
      BY <1>4, Duplicates
    <3> QED
      BY <3>1, <3>2
  <2>3. socketOf'[using[i]] = socketOf[using[i]] /\ socketOf'[twin[i]] = socketOf[twin[i]]
    BY <1>4, <2>2, Duplicates
  <2> QED
    BY <1>4, <2>1, <2>2, <2>3, Duplicates
<1>5. ASSUME NEW t \in AppThreads, Admit(t) \/ Look(t) \/ DirectConnectFails(t) \/ Leave(t) PROVE TwinsFollow'
  BY <1>5 DEF Admit, Look, DirectConnectFails, Leave
<1>6. ASSUME NEW t \in AppThreads, TrackSocket(t) PROVE TwinsFollow'
  <2>1. OwnNumbers(t)
    BY Owned
  <2> QED
    BY <1>6, <2>1 DEF OwnNumbers, TrackSocket
<1>7. ASSUME NEW t \in AppThreads, DirectConnect(t) PROVE TwinsFollow'
  <2>1. OwnNumbers(t)
    BY Owned
  <2> QED
    BY <1>7, <2>1 DEF OwnNumbers, DirectConnect
<1>8. ASSUME NEW t \in AppThreads, RouteByChain(t) PROVE TwinsFollow'
  <2>1. OwnNumbers(t)
    BY Owned
  <2> QED
    BY <1>8, <2>1 DEF OwnNumbers, RouteByChain
<1>9. ASSUME NEW t \in AppThreads, Copy(t) PROVE TwinsFollow'
  <2>1. OwnNumbers(t) /\ using[t] \in Fds /\ twin[t] \in Fds
    BY <1>9, Owned DEF Copy
  <2> QED
    BY <1>9, <2>1 DEF OwnNumbers, Copy
<1>10. ASSUME NEW t \in AppThreads, Close(t) PROVE TwinsFollow'
  <2>1. using[t] \in Fds /\ Closed(using[t], FALSE) /\ OwnNumbers(t)
    BY <1>10, Closings, Owned
  <2> QED
    BY <1>10, <2>1 DEF Close, Closed, Lost, OwnNumbers
<1>11. ASSUME SweepOne PROVE TwinsFollow'
  <2>1. PICK f \in table : SweptFd(f)
    BY <1>11, Closings
  <2> QED
    BY <1>11, <2>1 DEF SweepOne, SweptFd, Closed, Lost
<1>12. ASSUME Bar \/ Awaited \/ SweepEnds \/ SetEnabled \/ ConfigChanged PROVE TwinsFollow'
  BY <1>12 DEF Bar, Awaited, SweepEnds, SetEnabled, ConfigChanged
<1> QED
  BY <1>1, <1>2, <1>3, <1>4, <1>5, <1>6,
     <1>7, <1>8, <1>9, <1>10, <1>11, <1>12
  DEF AdmissionNext, Hook, AppCalls, Switching

\* A connect that is not admitted was never noted, or the switch is on its way.
LEMMA RoutesSparedStep == ASSUME AdmissionInv, AdmissionNext PROVE RoutesSpared'
<1> USE Numbers
    DEF AdmissionInv, AdmissionTypeOK, RoutesSpared, Apart, NoTrace, FdsOf, Busy,
        HookSteps, SwitchOrder, Admitted, Copied, TwinsFollow, Does, Done, In, Idle,
        TableFree, Sweeps
<1>1. ASSUME NEW f \in Fds, OpenSocket(f) PROVE RoutesSpared'
  BY <1>1, UnusedFound DEF OpenSocket
<1>2. ASSUME NEW t \in AppThreads, NEW f \in Fds, Connect(t, f) PROVE RoutesSpared'
  BY <1>2 DEF Connect
<1>3. ASSUME NEW t \in AppThreads, NEW f \in Fds, Untrack(t, f) PROVE RoutesSpared'
  BY <1>3 DEF Untrack
<1>4. ASSUME NEW t \in AppThreads, NEW f \in Fds, NEW d \in Fds, Duplicate(t, f, d) PROVE RoutesSpared'
  <2>1. Copied(d)' /\ \A g : Copied(g) => Copied(g)'
    BY <1>4 DEF Duplicate
  <2>2. /\ table' = table /\ table \subseteq Fds /\ leaving' = leaving
        /\ \A g \in Fds : g # d => socketOf'[g] = socketOf[g]
    BY <1>4 DEF Duplicate
  <2>3. \A i \in AppThreads : In(i, "route")' =>
          /\ In(i, "route") /\ using'[i] = using[i] /\ using[i] \in Fds /\ using[i] # d
    BY <1>4 DEF Duplicate
  <2> HIDE DEF AdmissionTypeOK, Apart, NoTrace, SwitchOrder, TwinsFollow, Copied
  <2> QED
    BY <2>1, <2>2, <2>3
<1>5. ASSUME NEW t \in AppThreads, Admit(t) \/ Look(t) \/ DirectConnectFails(t) \/ Leave(t) PROVE RoutesSpared'
  BY <1>5 DEF Admit, Look, DirectConnectFails, Leave
<1>6. ASSUME NEW t \in AppThreads, TrackSocket(t) PROVE RoutesSpared'
  <2>1. \A i \in AppThreads : i # t /\ In(i, "route") =>
          /\ using[i] # using[t]
          /\ socketOf[using[t]] # 0 => socketOf[using[i]] # socketOf[using[t]]
    BY <1>6, Owned, SocketsApart DEF Connecting, OwnNumbers, TrackSocket
  <2>2. \A g : Copied(g) => Copied(g)'
    BY <1>6 DEF TrackSocket
  <2>3. table' \subseteq table \cup {using[t]} /\ leaving' = leaving
    BY <1>6 DEF TrackSocket
  <2> QED
    BY <1>6, <2>1, <2>2, <2>3 DEF TrackSocket
<1>7. ASSUME NEW t \in AppThreads, DirectConnect(t) PROVE RoutesSpared'
  BY <1>7 DEF DirectConnect
<1>8. ASSUME NEW t \in AppThreads, RouteByChain(t) PROVE RoutesSpared'
  BY <1>8 DEF RouteByChain
<1>9. ASSUME NEW t \in AppThreads, Copy(t) PROVE RoutesSpared'
  <2>1. OwnNumbers(t) /\ using[t] \in Fds /\ twin[t] \in Fds
    BY <1>9, Owned DEF Copy
  <2> QED
    BY <1>9, <2>1 DEF OwnNumbers, Copy
<1>10. ASSUME NEW t \in AppThreads, Close(t) PROVE RoutesSpared'
  <2>1. using[t] \in Fds /\ Closed(using[t], FALSE) /\ OwnNumbers(t)
    BY <1>10, Closings, Owned
  <2> QED
    BY <1>10, <2>1 DEF Close, Closed, Lost, OwnNumbers
<1>11. ASSUME SweepOne PROVE RoutesSpared'
  <2>1. PICK f \in table : SweptFd(f)
    BY <1>11, Closings
  <2> QED
    BY <1>11, <2>1 DEF SweepOne, SweptFd, Closed, Lost
<1>12. ASSUME Bar \/ Awaited \/ SweepEnds \/ SetEnabled \/ ConfigChanged PROVE RoutesSpared'
  BY <1>12 DEF Bar, Awaited, SweepEnds, SetEnabled, ConfigChanged
<1> QED
  BY <1>1, <1>2, <1>3, <1>4, <1>5, <1>6,
     <1>7, <1>8, <1>9, <1>10, <1>11, <1>12
  DEF AdmissionNext, Hook, AppCalls, Switching

\* What the chain connects is not in the table.
LEMMA ProxiedSparedStep == ASSUME AdmissionInv, AdmissionNext PROVE ProxiedSpared'
<1> USE Numbers
    DEF AdmissionInv, AdmissionTypeOK, ProxiedSpared, Apart, NoTrace, FdsOf, Busy,
        HookSteps, SwitchOrder, Admitted, Unconnected, Copied, TwinsFollow,
        RoutesSpared, Does, Done, In, Idle, TableFree, Sweeps
<1>1. ASSUME NEW f \in Fds, OpenSocket(f) PROVE ProxiedSpared'
  BY <1>1, UnusedFound DEF OpenSocket
<1>2. ASSUME NEW t \in AppThreads, NEW f \in Fds, Connect(t, f) PROVE ProxiedSpared'
  BY <1>2 DEF Connect
<1>3. ASSUME NEW t \in AppThreads, NEW f \in Fds, Untrack(t, f) PROVE ProxiedSpared'
  BY <1>3 DEF Untrack
<1>4. ASSUME NEW t \in AppThreads, NEW f \in Fds, NEW d \in Fds, Duplicate(t, f, d) PROVE ProxiedSpared'
  <2>1. Lost(d, FALSE)
    BY <1>4, Closes
  <2> QED
    BY <1>4, <2>1 DEF Duplicate, Lost
<1>5. ASSUME NEW t \in AppThreads, Admit(t) \/ Look(t) \/ DirectConnectFails(t) \/ Leave(t) PROVE ProxiedSpared'
  BY <1>5 DEF Admit, Look, DirectConnectFails, Leave
<1>6. ASSUME NEW t \in AppThreads, TrackSocket(t) PROVE ProxiedSpared'
  BY <1>6 DEF TrackSocket
<1>7. ASSUME NEW t \in AppThreads, DirectConnect(t) PROVE ProxiedSpared'
  BY <1>7 DEF DirectConnect
<1>8. ASSUME NEW t \in AppThreads, RouteByChain(t) PROVE ProxiedSpared'
  BY <1>8 DEF RouteByChain
<1>9. ASSUME NEW t \in AppThreads, Copy(t) PROVE ProxiedSpared'
  <2>1. OwnNumbers(t) /\ using[t] \in Fds /\ twin[t] \in Fds
    BY <1>9, Owned DEF Copy
  <2> QED
    BY <1>9, <2>1 DEF OwnNumbers, Copy
<1>10. ASSUME NEW t \in AppThreads, Close(t) PROVE ProxiedSpared'
  <2>1. using[t] \in Fds /\ Closed(using[t], FALSE) /\ OwnNumbers(t)
    BY <1>10, Closings, Owned
  <2> QED
    BY <1>10, <2>1 DEF Close, Closed, Lost, OwnNumbers
<1>11. ASSUME SweepOne PROVE ProxiedSpared'
  <2>1. PICK f \in table : SweptFd(f)
    BY <1>11, Closings
  <2> QED
    BY <1>11, <2>1 DEF SweepOne, SweptFd, Closed, Lost
<1>12. ASSUME Bar \/ Awaited \/ SweepEnds \/ SetEnabled \/ ConfigChanged PROVE ProxiedSpared'
  BY <1>12 DEF Bar, Awaited, SweepEnds, SetEnabled, ConfigChanged
<1> QED
  BY <1>1, <1>2, <1>3, <1>4, <1>5, <1>6,
     <1>7, <1>8, <1>9, <1>10, <1>11, <1>12
  DEF AdmissionNext, Hook, AppCalls, Switching

-----------------------------------------------------------------------------
\* At first nothing is open.
LEMMA AdmissionInitInv == ASSUME AdmissionInit PROVE AdmissionInv
<1> USE DEF AdmissionInit
<1>1. AdmissionTypeOK
  <2>1. Admitted = {}
    BY DEF Admitted
  <2>2. Cardinality({}) = 0
    BY FS_EmptySet
  <2>3. admissions = Cardinality(Admitted)
    BY <2>1, <2>2, Zenon
  <2>4. Table
    BY <2>2, Numbers DEF Table, Fits
  <2>5. Modes /\ Hooks /\ Net
    BY DEF Modes, Hooks, Net, HookSteps, Wires, Sweeps
  <2> QED
    BY <2>3, <2>4, <2>5, TypeGroups
<1>2. Apart /\ Aimed /\ NoTrace /\ SwitchOrder /\ Alone
  BY Numbers DEF Apart, Aimed, NoTrace, SwitchOrder, Alone, Idle, In, Admitted, Connecting, Sweeps
<1>3. Unconnected /\ Tracked /\ FdsCovered /\ TwinsCovered /\ TwinsFollow
  BY Numbers DEF Unconnected, Tracked, FdsCovered, TwinsCovered, TwinsFollow, In, Covered
<1>4. RoutesSpared /\ ProxiedSpared
  BY DEF RoutesSpared, ProxiedSpared, In
<1> QED
  BY <1>1, <1>2, <1>3, <1>4 DEF AdmissionInv

\* Every step keeps the invariant.
LEMMA AdmissionStepInv == ASSUME AdmissionInv, [AdmissionNext]_admissionVars PROVE AdmissionInv'
<1>1. CASE AdmissionNext
  <2> AdmissionTypeOK /\ Apart
    BY DEF AdmissionInv
  <2>1. AdmissionTypeOK'
    BY <1>1, ModesStep, HooksStep, NetStep, TableStep, CountStep
      DEF AdmissionTypeOK, Modes, Hooks, Net, Table, Fits
  <2>2. Apart' /\ Aimed' /\ NoTrace' /\ SwitchOrder' /\ Alone' /\ Unconnected'
    BY <1>1, ApartStep, AimedStep, NoTraceStep, SwitchOrderStep, AloneStep, UnconnectedStep
  <2>3. Tracked' /\ FdsCovered' /\ TwinsCovered' /\ TwinsFollow' /\ RoutesSpared' /\ ProxiedSpared'
    BY <1>1, TrackedStep, FdsCoveredStep, TwinsCoveredStep, TwinsFollowStep, RoutesSparedStep,
       ProxiedSparedStep
  <2> QED
    BY <2>1, <2>2, <2>3 DEF AdmissionInv
<1>2. CASE UNCHANGED admissionVars
  <2> USE <1>2 DEF admissionVars
  <2>1. AdmissionTypeOK' /\ SwitchOrder'
    BY DEF AdmissionInv, AdmissionTypeOK, SwitchOrder, Admitted
  <2>2. Apart' /\ Aimed' /\ NoTrace' /\ Alone' /\ Unconnected' /\ Tracked'
    BY DEF AdmissionInv, Apart, Aimed, NoTrace, Alone, Unconnected, Tracked, FdsOf, In, Idle
  <2>3. FdsCovered' /\ TwinsCovered' /\ TwinsFollow' /\ RoutesSpared' /\ ProxiedSpared'
    BY DEF AdmissionInv, FdsCovered, TwinsCovered, TwinsFollow, RoutesSpared, ProxiedSpared,
           Covered, Copied, Closing, FdsOf, In
  <2> QED
    BY <2>1, <2>2, <2>3 DEF AdmissionInv
<1> QED
  BY <1>1, <1>2

\* The invariant holds in every reachable state.
THEOREM AdmissionSafe == AdmissionSpec => []AdmissionInv
BY AdmissionInitInv, AdmissionStepInv, PTL DEF AdmissionSpec

\* The counter of admissions is the number of connects between
\* lc_direct_admission_begin and lc_direct_admission_end, the table never
\* outgrows LC_DIRECT_FD_MAX, and every variable keeps its type.
THEOREM AdmissionTypeCorrect == AdmissionSpec => []AdmissionTypeOK
<1>1. AdmissionInv => AdmissionTypeOK
  BY DEF AdmissionInv
<1> QED
  BY <1>1, AdmissionSafe, PTL

\* No connect is admitted to go direct once the queue has put the proxy in
\* force, for any number of threads and descriptors.
THEOREM NoDirectInProxyModeHolds == AdmissionSpec => []NoDirectInProxyMode
<1>1. AdmissionInv => NoDirectInProxyMode
  BY DEF AdmissionInv, SwitchOrder, NoDirectInProxyMode, ProxyInForce
<1> QED
  BY <1>1, AdmissionSafe, PTL

\* The sweep reaches every direct socket that the table covered: through dup,
\* dup2, close and the reuse of numbers, those left in proxy mode escaped it.
THEOREM TrackedAreCutHolds == AdmissionSpec => []TrackedAreCut
<1>1. ASSUME AdmissionInv PROVE TrackedAreCut
  <2> SUFFICES ASSUME ProxyInForce, NEW s \in Sockets, s \in Leaking, s \notin escaped PROVE FALSE
    BY DEF TrackedAreCut, Leaking
  <2>1. table = {}
    BY <1>1 DEF AdmissionInv, SwitchOrder, ProxyInForce
  <2>2. PICK f \in Fds : socketOf[f] = s /\ ~Closing(f)
    BY DEF Leaking, FdsOf, Closing
  <2>3. Covered(s)
    BY Numbers DEF Leaking, Covered
  <2>4. PICK t \in AppThreads : In(t, "copy") /\ twin[t] = f
    BY <1>1, <2>1, <2>2, <2>3 DEF AdmissionInv, FdsCovered, Copied
  <2> QED
    BY <1>1, <2>1, <2>2, <2>3, <2>4 DEF AdmissionInv, TwinsCovered
<1> QED
  BY <1>1, AdmissionSafe, PTL

\* A sweep cuts no connection that goes through the proxy, except in the two
\* windows that ProxiedSpared names.
THEOREM ProxiedSparedHolds == AdmissionSpec => []ProxiedSpared
<1>1. AdmissionInv => ProxiedSpared
  BY DEF AdmissionInv
<1> QED
  BY <1>1, AdmissionSafe, PTL
=============================================================================
