------------------------------ MODULE Admission ------------------------------
(***************************************************************************)
(* The kill switch that the project added to libproxychains.c.  In direct  *)
(* mode the connect hook admits a call, notes its descriptor in a table    *)
(* and connects it without the proxy.  When the runtime queue turns the    *)
(* proxy on again it stops admissions, waits for those under way and cuts  *)
(* every socket in the table, so that none goes on over the new network.   *)
(*                                                                         *)
(* Threads of the app open, connect, duplicate and close descriptors, and  *)
(* a descriptor is used, and a socket connected, by one of them at a time; *)
(* only the table's sweep disregards that.  Sockets are distinguished from *)
(* descriptors because duplicates share one and numbers are reused.  Local *)
(* targets, which go direct and untracked in either mode, are left out.    *)
(***************************************************************************)
EXTENDS Naturals, FiniteSets

CONSTANTS
  AppThreads,
  MaxFd,     \* descriptor numbers 1..MaxFd, and as many sockets
  TableMax   \* LC_DIRECT_FD_MAX

ASSUME AdmissionAssumption ==
  IsFiniteSet(AppThreads) /\ MaxFd \in Nat \ {0} /\ TableMax \in Nat \ {0}

Fds == 1 .. MaxFd
Sockets == 1 .. MaxFd

VARIABLES
  disabled,   \* lc_proxy_disabled: direct mode
  barred,     \* lc_direct_admissions_blocked
  admissions, \* lc_direct_admissions
  table,      \* lc_direct_fds
  control,    \* where the runtime queue is
  leaving,    \* was_disabled of its lcproxy_control_set_enabled
  socketOf,   \* the socket of each descriptor, 0 when it is not open
  wire,       \* what each socket is connected to
  hook,       \* where each thread is in a hook
  using,      \* the descriptor it works on, 0 when none
  twin,       \* the duplicate it has made, 0 when none
  aim,        \* history: the socket its connect was called for, 0 once closed
  escaped     \* history: sockets that the table does not cover

modeVars == <<disabled, barred>>
controlVars == <<control, leaving>>
threadVars == <<hook, using, twin, aim>>
netVars == <<socketOf, wire, escaped>>
admissionVars == <<modeVars, admissions, table, controlVars, threadVars, netVars>>

Wires == {"new", "direct", "proxied", "cut"}
HookSteps == {"idle", "admit", "look", "track", "dial", "leave", "route", "copy", "close"}
Sweeps == {"sweep", "sweepConfig"}

\* lc_direct_lock is held for the whole of a sweep.
TableFree == control \notin Sweeps

Idle(t) == hook[t] = "idle"
In(t, d) == hook[t] = d
Does(t, d) == hook' = [hook EXCEPT ![t] = d]
Busy == {using[t] : t \in AppThreads} \cup {twin[t] : t \in AppThreads}
FdsOf(s) == {f \in Fds : socketOf[f] = s}
Unused == CHOOSE s \in Sockets : FdsOf(s) = {}

Done(t) ==
  /\ Does(t, "idle")
  /\ using' = [using EXCEPT ![t] = 0]
  /\ twin' = [twin EXCEPT ![t] = 0]
  /\ aim' = [aim EXCEPT ![t] = 0]

\* A socket whose last descriptor is closed leaves no trace.
CloseNumber(f, cut) ==
  LET s == socketOf[f]
      last == FdsOf(s) = {f}
  IN
    /\ socketOf' = [socketOf EXCEPT ![f] = 0]
    /\ wire' = IF s = 0 THEN wire
               ELSE IF last THEN [wire EXCEPT ![s] = "new"]
               ELSE IF cut THEN [wire EXCEPT ![s] = "cut"]
               ELSE wire
    /\ escaped' = IF last THEN escaped \ {s} ELSE escaped

-----------------------------------------------------------------------------
(* The connect hook                                                        *)

\* socket(), which is not hooked.
OpenSocket(f) ==
  /\ socketOf[f] = 0
  /\ socketOf' = [socketOf EXCEPT ![f] = Unused]
  /\ UNCHANGED <<modeVars, admissions, table, controlVars, threadVars, wire, escaped>>

\* connect() or connectx() reads the mode.
Connect(t, f) ==
  /\ Idle(t) /\ f \notin Busy /\ socketOf[f] # 0 /\ wire[socketOf[f]] = "new"
  /\ \A i \in AppThreads : aim[i] # socketOf[f]
  /\ using' = [using EXCEPT ![t] = f]
  /\ aim' = [aim EXCEPT ![t] = socketOf[f]]
  /\ Does(t, IF disabled THEN "admit" ELSE "route")
  /\ escaped' = IF FdsOf(socketOf[f]) = {f} THEN escaped ELSE escaped \cup {socketOf[f]}
  /\ UNCHANGED <<modeVars, admissions, table, controlVars, twin, socketOf, wire>>

\* lc_direct_admission_begin reads it again under the lock.
Admit(t) ==
  /\ In(t, "admit")
  /\ IF disabled /\ ~barred
     THEN admissions' = admissions + 1 /\ Does(t, "look")
     ELSE Does(t, "route") /\ UNCHANGED admissions
  /\ UNCHANGED <<modeVars, table, controlVars, using, twin, aim, netVars>>

\* getsockopt on the descriptor, before the table is locked.
Look(t) ==
  /\ In(t, "look")
  /\ Does(t, IF socketOf[using[t]] = 0 THEN "dial" ELSE "track")
  /\ UNCHANGED <<modeVars, admissions, table, controlVars, using, twin, aim, netVars>>

\* Variant: the table is left for after the connection.
TrackLater(t) ==
  /\ In(t, "track")
  /\ Does(t, "dial")
  /\ UNCHANGED <<modeVars, admissions, table, controlVars, using, twin, aim, netVars>>

\* lc_direct_track_add_if_remote; a full table is silently left as it is.
TrackSocket(t) ==
  /\ In(t, "track") /\ TableFree
  /\ LET f == using[t] IN
       IF f \in table \/ Cardinality(table) < TableMax
       THEN table' = table \cup {f} /\ UNCHANGED escaped
       ELSE escaped' = escaped \cup ({socketOf[f]} \ {0}) /\ UNCHANGED table
  /\ Does(t, "dial")
  /\ UNCHANGED <<modeVars, admissions, controlVars, using, twin, aim, socketOf, wire>>

\* true_connect, on whatever the number stands for by now.
DirectConnect(t) ==
  /\ In(t, "dial")
  /\ LET s == socketOf[using[t]] IN
       /\ s # 0 /\ wire[s] = "new"
       /\ wire' = [wire EXCEPT ![s] = "direct"]
       /\ escaped' = IF s # aim[t] /\ using[t] \notin table
                    THEN escaped \cup {s} ELSE escaped
  /\ Does(t, "leave")
  /\ UNCHANGED <<modeVars, admissions, table, controlVars, using, twin, aim, socketOf>>

DirectConnectFails(t) ==
  /\ In(t, "dial")
  /\ Does(t, "leave")
  /\ UNCHANGED <<modeVars, admissions, table, controlVars, using, twin, aim, netVars>>

\* Variant: a connect that fails returns without ending its admission.
LeaveAdmitted(t) ==
  /\ In(t, "leave")
  /\ Done(t)
  /\ UNCHANGED <<modeVars, admissions, table, controlVars, netVars>>

\* lc_direct_admission_end.
Leave(t) ==
  /\ In(t, "leave")
  /\ admissions' = admissions - 1
  /\ Done(t)
  /\ UNCHANGED <<modeVars, table, controlVars, netVars>>

\* Not admitted: through the chain, or refused when the configuration of the
\* moment is invalid or empty.
RouteByChain(t) ==
  /\ In(t, "route")
  /\ LET s == socketOf[using[t]] IN
       \/ s # 0 /\ wire[s] = "new" /\ wire' = [wire EXCEPT ![s] = "proxied"]
       \/ UNCHANGED wire
  /\ Done(t)
  /\ UNCHANGED <<modeVars, admissions, table, controlVars, socketOf, escaped>>

-----------------------------------------------------------------------------
(* The hooks of dup, dup2 and close                                        *)

\* true_dup or true_dup2, which closes the number it is given first.
Duplicate(t, f, d) ==
  /\ Idle(t) /\ f # d /\ {f, d} \cap Busy = {} /\ socketOf[f] # 0
  /\ LET s == socketOf[d]
         last == FdsOf(s) = {d}
     IN
       /\ wire' = IF s # 0 /\ last THEN [wire EXCEPT ![s] = "new"] ELSE wire
       /\ escaped' = IF last THEN escaped \ {s} ELSE escaped
  /\ socketOf' = [socketOf EXCEPT ![d] = socketOf[f]]
  /\ using' = [using EXCEPT ![t] = f] /\ twin' = [twin EXCEPT ![t] = d]
  /\ Does(t, "copy")
  /\ UNCHANGED <<modeVars, admissions, table, controlVars, aim>>

\* Variant: the entry of a number that dup2 has taken over stays.
CopyKeepsTwin(t) ==
  /\ In(t, "copy") /\ TableFree
  /\ LET both == table \cup {twin[t]} IN
       table' = IF using[t] \in table /\ Cardinality(both) <= TableMax THEN both ELSE table
  /\ Done(t)
  /\ UNCHANGED <<modeVars, admissions, controlVars, netVars>>

\* lc_direct_track_copy.
Copy(t) ==
  /\ In(t, "copy") /\ TableFree
  /\ LET f == using[t]
         others == table \ {twin[t]}
     IN
       IF f \in table /\ Cardinality(others) < TableMax
       THEN table' = others \cup {twin[t]} /\ UNCHANGED escaped
       ELSE /\ table' = others
            /\ escaped' = IF f \in table THEN escaped \cup ({socketOf[f]} \ {0}) ELSE escaped
  /\ Done(t)
  /\ UNCHANGED <<modeVars, admissions, controlVars, socketOf, wire>>

\* lc_direct_track_remove, and then true_close.
Untrack(t, f) ==
  /\ Idle(t) /\ f \notin Busy /\ socketOf[f] # 0 /\ TableFree
  /\ table' = table \ {f}
  /\ using' = [using EXCEPT ![t] = f]
  /\ Does(t, "close")
  /\ UNCHANGED <<modeVars, admissions, controlVars, twin, aim, netVars>>

Close(t) ==
  /\ In(t, "close")
  /\ CloseNumber(using[t], FALSE)
  /\ Done(t)
  /\ UNCHANGED <<modeVars, admissions, table, controlVars>>

-----------------------------------------------------------------------------
(* The runtime queue, one apply at a time                                  *)

\* lcproxy_control_set_enabled exchanges the flag ...
SetEnabled ==
  /\ control = "idle"
  /\ \E direct \in BOOLEAN : disabled' = direct
  /\ leaving' = (disabled /\ ~disabled')
  /\ control' = "bar"
  /\ UNCHANGED <<barred, admissions, table, threadVars, netVars>>

\* ... stops or allows admissions ...
Bar ==
  /\ control = "bar"
  /\ barred' = ~disabled
  /\ control' = IF disabled THEN "idle" ELSE "wait"
  /\ UNCHANGED <<disabled, admissions, table, leaving, threadVars, netVars>>

\* Variant: the admissions under way are not waited for.
NotAwaited ==
  /\ control = "wait"
  /\ control' = IF leaving THEN "sweep" ELSE "idle"
  /\ UNCHANGED <<modeVars, admissions, table, leaving, threadVars, netVars>>

\* ... waits for those under way, and has the table swept.
Awaited ==
  /\ control = "wait" /\ admissions = 0
  /\ control' = IF leaving THEN "sweep" ELSE "idle"
  /\ UNCHANGED <<modeVars, admissions, table, leaving, threadVars, netVars>>

\* lc_direct_track_close_all: shutdown reaches every duplicate of the socket.
SweepOne ==
  /\ control \in Sweeps
  /\ \E f \in table :
       /\ table' = table \ {f}
       /\ CloseNumber(f, TRUE)
       /\ aim' = [t \in AppThreads |-> IF using[t] = f THEN 0 ELSE aim[t]]
  /\ UNCHANGED <<modeVars, admissions, controlVars, hook, using, twin>>

SweepEnds ==
  /\ control \in Sweeps /\ table = {}
  /\ control' = "idle" /\ leaving' = FALSE
  /\ UNCHANGED <<modeVars, admissions, table, threadVars, netVars>>

\* The settings could not be written, the file could not be parsed, or a reload
\* in proxy mode replaces an empty chain: the table is swept, and nobody waits
\* for the connects under way.
ConfigChanged ==
  /\ control = "idle"
  /\ control' = "sweepConfig"
  /\ UNCHANGED <<modeVars, admissions, table, leaving, threadVars, netVars>>

-----------------------------------------------------------------------------
AdmissionInit ==
  /\ disabled = FALSE /\ barred = FALSE
  /\ admissions = 0 /\ table = {}
  /\ control = "idle" /\ leaving = FALSE
  /\ hook = [t \in AppThreads |-> "idle"]
  /\ using = [t \in AppThreads |-> 0]
  /\ twin = [t \in AppThreads |-> 0]
  /\ aim = [t \in AppThreads |-> 0]
  /\ socketOf = [f \in Fds |-> 0] /\ wire = [s \in Sockets |-> "new"]
  /\ escaped = {}

Hook(t) ==
  \/ Admit(t) \/ Look(t) \/ TrackSocket(t) \/ DirectConnect(t) \/ DirectConnectFails(t) \/ Leave(t)
  \/ RouteByChain(t) \/ Copy(t) \/ Close(t)

AppCalls(t) ==
  \E f \in Fds :
    \/ Connect(t, f)
    \/ Untrack(t, f)
    \/ \E d \in Fds : Duplicate(t, f, d)

Switching == Bar \/ Awaited \/ SweepOne \/ SweepEnds

AdmissionNext ==
  \/ \E f \in Fds : OpenSocket(f)
  \/ \E t \in AppThreads : Hook(t) \/ AppCalls(t)
  \/ Switching \/ SetEnabled \/ ConfigChanged

AdmissionSpec == AdmissionInit /\ [][AdmissionNext]_admissionVars

\* The queue goes on, and so does a thread inside a hook: a direct connect
\* has the time limit of the system.
AdmissionFairness ==
  /\ WF_admissionVars(Switching)
  /\ \A t \in AppThreads : WF_admissionVars(Hook(t))

-----------------------------------------------------------------------------
(* Properties                                                              *)

Admitted == {t \in AppThreads : hook[t] \in {"look", "track", "dial", "leave"}}

\* Every variable keeps its type, and the counter counts the calls under way.
AdmissionTypeOK ==
  /\ disabled \in BOOLEAN /\ barred \in BOOLEAN
  /\ admissions = Cardinality(Admitted)
  /\ table \subseteq Fds /\ Cardinality(table) <= TableMax
  /\ control \in {"idle", "bar", "wait"} \cup Sweeps /\ leaving \in BOOLEAN
  /\ socketOf \in [Fds -> Sockets \cup {0}] /\ wire \in [Sockets -> Wires]
  /\ hook \in [AppThreads -> HookSteps] /\ using \in [AppThreads -> Fds \cup {0}]
  /\ twin \in [AppThreads -> Fds \cup {0}] /\ aim \in [AppThreads -> Sockets \cup {0}]
  /\ escaped \subseteq Sockets

\* Direct connections that the app is not about to close.
Leaking ==
  {s \in Sockets : wire[s] = "direct" /\
     \E f \in FdsOf(s) : \A t \in AppThreads : ~(In(t, "close") /\ using[t] = f)}

ProxyInForce == control = "idle" /\ ~disabled

\* "Kill sockets that were opened directly while on Wi-Fi/auto-direct so they
\* cannot keep leaking on cellular" (lcproxy_control_set_enabled).
KillSwitch == ProxyInForce => Leaking = {}

\* What holds of it: with the proxy on and the queue done, the direct sockets
\* left are those the table could not cover.  They were duplicated before they
\* were connected, the table was full, or a sweep for a changed configuration
\* closed a number under its connect and the number was given out again.
TrackedAreCut == ProxyInForce => Leaking \subseteq escaped

\* Nothing connects directly while the proxy is on and the queue done.
NoDirectInProxyMode == ProxyInForce => Admitted = {}

\* No connection that goes through the proxy is in the table, where a sweep would
\* cut it, except over a number that a dup2 has just taken and not yet removed
\* (true_dup2 comes before lc_direct_track_copy: a sweep between the two does cut
\* it), or when a direct connect that failed is tried again during the switch.
ProxiedSpared ==
  \A f \in table :
    socketOf[f] # 0 /\ wire[socketOf[f]] = "proxied" =>
      \/ leaving
      \/ \E t \in AppThreads : In(t, "copy") /\ f = twin[t]

\* Switching the proxy on, which waits for connects of the app, comes to its
\* end whatever the threads go on calling.
SwitchReturns == control = "wait" ~> control = "idle"
=============================================================================
