----------------------------- MODULE Bootstrap -----------------------------
(***************************************************************************)
(* The cold start of the king card: before any credentials exist the       *)
(* forwarder lets one TLS tunnel through to pbprx.qq.com:443, so that      *)
(* syncFetchGuid can ask for a GUID.  syncFetchGuid grants a permit bound  *)
(* to a password of its own, waits for its request, and revokes the        *)
(* permit; the worker threads of the forwarder meet the CONNECTs, some of  *)
(* them without the password, late or repeated.                            *)
(*                                                                         *)
(* Only one syncFetchGuid runs at a time (`refreshing` of LCProxyKing).    *)
(* Each draws a fresh password, so the number of its grant stands for it.  *)
(***************************************************************************)
EXTENDS Naturals

CONSTANTS
  PermitWorkers,    \* worker threads that meet a CONNECT to the bootstrap host
  MaxGrants   \* bound on the grants in a behaviour

ASSUME MaxGrantsAssumption == MaxGrants \in Nat

VARIABLES
  lease,       \* fw->pbproxy_bootstrap_lease, and the authorization stored with it
  nextLease,   \* fw->pbproxy_bootstrap_next_lease
  deadline,    \* fw->pbproxy_bootstrap_deadline_ms: "none", still "ahead", or "past"
  callLease,   \* the lease of the syncFetchGuid that is waiting, 0 when none is
  gatePc,          \* where each worker is in kp_handle_client
  password,    \* the grant whose password the worker's CONNECT carries, or 0
  tunnels      \* history: tunnels opened with the password of each grant

permitVars == <<lease, nextLease, deadline>>
meetingVars == <<gatePc, password>>
bootstrapVars == <<permitVars, callLease, meetingVars, tunnels>>

-----------------------------------------------------------------------------
\* Variant: the deadline of a permit outlives it.
ClearPermitKeepsDeadline == lease' = 0 /\ UNCHANGED deadline

\* kp_forwarder_clear_pbproxy_bootstrap_locked.
ClearPermit == lease' = 0 /\ deadline' = "none"

KeepPermit == UNCHANGED <<lease, deadline>>

\* syncFetchGuid grants itself a permit, under self.lock and cred_mutex.
Grant ==
  /\ callLease = 0
  /\ nextLease < MaxGrants
  /\ nextLease' = nextLease + 1
  /\ lease' = nextLease'
  /\ deadline' = "ahead"
  /\ callLease' = nextLease'
  /\ UNCHANGED <<meetingVars, tunnels>>

\* Variant: the wait times out and the permit is left behind.
RevokeForgotten ==
  /\ callLease # 0
  /\ callLease' = 0
  /\ UNCHANGED <<permitVars, meetingVars, tunnels>>

\* The task did not start, completed, or ran out of time: in every case the
\* lease is revoked if it is still the one the call was granted.
Revoke ==
  /\ callLease # 0
  /\ callLease' = 0
  /\ IF lease = callLease THEN ClearPermit ELSE KeepPermit
  /\ UNCHANGED <<nextLease, meetingVars, tunnels>>

\* kp_forwarder_clear_king_state, from the credential code of this process.
PermitCleared ==
  /\ ClearPermit
  /\ UNCHANGED <<nextLease, callLease, meetingVars, tunnels>>

\* The monotonic clock passes the deadline.
TimePasses ==
  /\ deadline = "ahead"
  /\ deadline' = "past"
  /\ UNCHANGED <<lease, nextLease, callLease, meetingVars, tunnels>>

-----------------------------------------------------------------------------
\* A CONNECT to the bootstrap host: the app's own, without a password, or one
\* of a GetGuid task, which may be late or sent twice.
MeetConnect(w) ==
  /\ gatePc[w] = "idle"
  /\ \E a \in 0 .. nextLease : password' = [password EXCEPT ![w] = a]
  /\ gatePc' = [gatePc EXCEPT ![w] = "gate"]
  /\ UNCHANGED <<permitVars, callLease, tunnels>>

\* Variant: the password is not compared.
AdmitsAnyone(a) == lease # 0 /\ deadline = "ahead"

\* The permit is there, in time, and was granted with this password.
Admits(a) == lease # 0 /\ deadline = "ahead" /\ a = lease

\* Variant: the permit is not cleared by the tunnel it lets through.
ConsumeKeepsPermit(w) ==
  /\ gatePc[w] = "gate"
  /\ Admits(password[w])
  /\ tunnels' = [tunnels EXCEPT ![lease] = @ + 1]
  /\ gatePc' = [gatePc EXCEPT ![w] = "tunnel"]
  /\ UNCHANGED <<permitVars, callLease, password>>

\* kp_forwarder_consume_pbproxy_bootstrap allows the tunnel ...
Consume(w) ==
  /\ gatePc[w] = "gate"
  /\ Admits(password[w])
  /\ ClearPermit
  /\ tunnels' = [tunnels EXCEPT ![lease] = @ + 1]
  /\ gatePc' = [gatePc EXCEPT ![w] = "tunnel"]
  /\ UNCHANGED <<nextLease, callLease, password>>

\* ... or does not, and clears a permit that has expired.
Refuse(w) ==
  /\ gatePc[w] = "gate"
  /\ ~Admits(password[w])
  /\ IF deadline = "past" THEN ClearPermit ELSE KeepPermit
  /\ gatePc' = [gatePc EXCEPT ![w] = "refused"]
  /\ UNCHANGED <<nextLease, callLease, password, tunnels>>

\* kp_forwarder_pbproxy_bootstrap_pending, in a critical section of its own: a
\* live permit is worth a 407 challenge, anything else goes to the Queen pool.
Challenge(w) ==
  /\ gatePc[w] = "refused"
  /\ \/ deadline = "ahead" /\ KeepPermit /\ gatePc' = [gatePc EXCEPT ![w] = "challenged"]
     \/ deadline # "ahead" /\ ClearPermit /\ gatePc' = [gatePc EXCEPT ![w] = "pool"]
  /\ UNCHANGED <<nextLease, callLease, password, tunnels>>

\* The request ends: the tunnel, the challenge or the exchange with the pool.
EndConnect(w) ==
  /\ gatePc[w] \in {"tunnel", "challenged", "pool"}
  /\ gatePc' = [gatePc EXCEPT ![w] = "idle"]
  /\ password' = [password EXCEPT ![w] = 0]
  /\ UNCHANGED <<permitVars, callLease, tunnels>>

-----------------------------------------------------------------------------
BootstrapInit ==
  /\ lease = 0
  /\ nextLease = 0
  /\ deadline = "none"
  /\ callLease = 0
  /\ gatePc = [w \in PermitWorkers |-> "idle"]
  /\ password = [w \in PermitWorkers |-> 0]
  /\ tunnels = [g \in 1 .. MaxGrants |-> 0]

PermitWorker(w) == MeetConnect(w) \/ Consume(w) \/ Refuse(w) \/ Challenge(w) \/ EndConnect(w)

BootstrapNext ==
  \/ Grant
  \/ Revoke
  \/ PermitCleared
  \/ TimePasses
  \/ \E w \in PermitWorkers : PermitWorker(w)

BootstrapSpec == BootstrapInit /\ [][BootstrapNext]_bootstrapVars

-----------------------------------------------------------------------------
(* Properties.                                                             *)

\* Every variable stays within its type; a lease is stored with a deadline.
BootstrapTypeOK ==
  /\ lease \in 0 .. MaxGrants
  /\ nextLease \in 0 .. MaxGrants
  /\ deadline \in {"none", "ahead", "past"}
  /\ callLease \in 0 .. MaxGrants
  /\ gatePc \in [PermitWorkers -> {"idle", "gate", "tunnel", "refused", "challenged", "pool"}]
  /\ password \in [PermitWorkers -> 0 .. MaxGrants]
  /\ tunnels \in [1 .. MaxGrants -> Nat]
  /\ lease = 0 <=> deadline = "none"

\* No permit outlives the syncFetchGuid that was granted it, whichever way the
\* call ends: after it, the only direct route out of the app is shut again.
PermitHasWaiter == lease # 0 => callLease = lease

\* The permit as a token: "Grants exactly one, short-lived, credential-bound
\* PBProxy TLS CONNECT" (KPKIngCore.h).
Token == INSTANCE OneShot WITH
  Grants <- 1 .. MaxGrants,
  newest <- nextLease,
  live   <- IF deadline = "ahead" THEN {lease} ELSE {},
  opened <- tunnels

\* The permit of KPKIngCore.c implements a token good for one tunnel.
SingleUse == Token!Spec

\* A tunnel is opened only for the password of the call that is waiting: a
\* CONNECT of an earlier call, arriving late, is not let through.
TunnelForTheWaiter ==
  [][\A w \in PermitWorkers : gatePc[w] = "gate" /\ gatePc'[w] = "tunnel"
        => callLease # 0 /\ password[w] = callLease]_bootstrapVars

\* What the refinement rests on: the leases handed out so far.
BootstrapInv == BootstrapTypeOK /\ PermitHasWaiter /\ callLease <= nextLease

=============================================================================
