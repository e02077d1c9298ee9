------------------------------ MODULE Routing ------------------------------
(***************************************************************************)
(* How a client thread of the forwarder routes one request over the Queen  *)
(* pool: kp_handle_client.  It counts the nodes of the pool, then tries    *)
(* them in order: picks the address, connects for up to ten seconds, signs *)
(* the request with the credentials of that moment, sends it and reads the *)
(* answer.  Each of these looks at the shared king state in a critical     *)
(* section of its own, while the credential code of LCProxyKing installs   *)
(* new states and clears old ones.                                         *)
(*                                                                         *)
(* Both request kinds run the same loop, a plain request over the HTTP     *)
(* pool and a CONNECT over the HTTPS pool; they differ in what they accept *)
(* as an answer.  Loopback targets and the bootstrap tunnel (module        *)
(* Bootstrap) do not come here.  The hook of LCProxyKing always returns -1, *)
(* so the second round of the loop is not reached.                         *)
(***************************************************************************)
EXTENDS Naturals

CONSTANTS
  RouteWorkers, \* client threads
  MaxPool,      \* nodes in a pool at most
  MaxChanges    \* bound on installations and clearings of the king state

ASSUME MaxPoolAssumption == MaxPool \in Nat \ {0}
ASSUME MaxChangesAssumption == MaxChanges \in Nat

Kinds == {"http", "connect"}
Nodes == 0 .. MaxPool - 1
Outcomes == {"none", "failed", "reject", "leave", "ok"}

VARIABLES
  gen,       \* the king state in force; 0: cleared, no GUID, token or key
  changes,   \* installations and clearings so far; a state has their number
  pool,      \* number of nodes of the pool for each kind
  rejected,  \* fw->credential_rejected
  signalled, \* the hook has asked LCProxyKing for a refresh
  routePc,   \* where each worker is
  kind,      \* what it routes
  count,     \* http_pool_count, https_pool_count: the pool at arrival
  attempt,   \* index of the node it tries
  steady,    \* history: workers since whose request the king state is the same
  heard      \* history: what became of each node tried for the request

kingVars == <<gen, changes, pool>>
flagVars == <<rejected, signalled>>
requestVars == <<kind, count, steady>>
loopVars == <<routePc, attempt, heard>>
routingVars == <<kingVars, flagVars, requestVars, loopVars>>

-----------------------------------------------------------------------------
(* A client thread.                                                        *)

Go(w, p) == routePc' = [routePc EXCEPT ![w] = p]
Hear(w, o) == heard' = [heard EXCEPT ![w][attempt[w]] = o]
Untried == [n \in Nodes |-> "none"]

\* The locals of a request end with it.
Forget(w) ==
  /\ kind' = [kind EXCEPT ![w] = "http"]
  /\ count' = [count EXCEPT ![w] = 0]
  /\ attempt' = [attempt EXCEPT ![w] = 0]
  /\ steady' = steady \ {w}
  /\ heard' = [heard EXCEPT ![w] = Untried]

\* A request is parsed, and the nodes of its pool are counted.
Arrive(w) ==
  /\ routePc[w] = "idle"
  /\ \E k \in Kinds :
       /\ kind' = [kind EXCEPT ![w] = k]
       /\ count' = [count EXCEPT ![w] = pool[k]]
  /\ steady' = steady \cup {w}
  /\ Go(w, "pick")
  /\ UNCHANGED <<kingVars, flagVars, attempt, heard>>

\* Variant: the condition of the loop is off by one.
InLoopOnceMore(w) == attempt[w] <= count[w]

\* attempt < http_pool_count, attempt < https_pool_count
InLoop(w) == attempt[w] < count[w]

\* kp_proxy_pool_pick_index tests the index, and then the entry for a colon, a port
\* and room for the host: no entry that validatedProxyPool lets through fails these
\* unless kp_proxy_pool_set cuts it at 63 bytes, which no node of the model needs.

\* Variant: the last node of the pool is never tried.
PickableButLast(w) == attempt[w] + 1 < pool[kind[w]]

Pickable(w) == attempt[w] < pool[kind[w]]

\* `continue` of the loop.
TryNext(w) ==
  /\ attempt' = [attempt EXCEPT ![w] = @ + 1]
  /\ Go(w, "pick")

\* The address of the node is copied out of the pool ...
Pick(w) ==
  /\ routePc[w] = "pick" /\ InLoop(w)
  /\ Pickable(w)
  /\ Go(w, "dial")
  /\ UNCHANGED <<kingVars, flagVars, requestVars, attempt, heard>>

\* ... which may have shrunk since the nodes were counted.
PickFails(w) ==
  /\ routePc[w] = "pick" /\ InLoop(w)
  /\ ~Pickable(w)
  /\ TryNext(w)
  /\ UNCHANGED <<kingVars, flagVars, requestVars, heard>>

\* The connection is made ...
DialNode(w) ==
  /\ routePc[w] = "dial"
  /\ Go(w, "sign")
  /\ UNCHANGED <<kingVars, flagVars, requestVars, attempt, heard>>

\* ... the request signed with a snapshot of the credentials of that moment,
\* not of the node's, and sent ...
Sign(w) ==
  /\ routePc[w] = "sign"
  /\ gen # 0
  /\ Go(w, "wait")
  /\ UNCHANGED <<kingVars, flagVars, requestVars, attempt, heard>>

\* ... unless one of these fails, there are no credentials, or no answer comes.
NodeFails(w) ==
  /\ routePc[w] \in {"dial", "sign", "wait"}
  /\ Hear(w, "failed")
  /\ TryNext(w)
  /\ UNCHANGED <<kingVars, flagVars, requestVars>>

\* kp_forwarder_note_credential_rejection is called for a CONNECT.
Notes(w) == kind[w] = "connect"

\* 820, 821, 823: the credentials are not accepted.
Rejected(w) ==
  /\ routePc[w] = "wait"
  /\ rejected' = (rejected \/ Notes(w))
  /\ Hear(w, "reject")
  /\ TryNext(w)
  /\ UNCHANGED <<kingVars, signalled, requestVars>>

\* A code that is no answer for the kind, or a CONNECT's 200 followed by the
\* text of an HTTP error.
BadAnswer(w) ==
  /\ routePc[w] = "wait"
  /\ Hear(w, "failed")
  /\ TryNext(w)
  /\ UNCHANGED <<kingVars, flagVars, requestVars>>

\* Variant: on 822 and 824 the next node is tried all the same.
ToldToLeaveIgnored(w) ==
  /\ routePc[w] = "wait"
  /\ Hear(w, "leave")
  /\ TryNext(w)
  /\ UNCHANGED <<kingVars, flagVars, requestVars>>

\* 822, 824: the target is to be reached directly.
ToldToLeave(w) ==
  /\ routePc[w] = "wait"
  /\ Hear(w, "leave")
  /\ Go(w, "direct")
  /\ UNCHANGED <<kingVars, flagVars, requestVars, attempt>>

\* The response is relayed, or the tunnel is open.
Accepted(w) ==
  /\ routePc[w] = "wait"
  /\ Hear(w, "ok")
  /\ Go(w, "relay")
  /\ UNCHANGED <<kingVars, flagVars, requestVars, attempt>>

\* Variant: with all nodes tried the target is reached directly.
GiveUpDirect(w) ==
  /\ routePc[w] = "pick" /\ ~InLoop(w)
  /\ signalled' = TRUE
  /\ Go(w, "direct")
  /\ UNCHANGED <<kingVars, rejected, requestVars, attempt, heard>>

\* Variant: the loop starts again after every refresh it asks for.
GiveUpRetries(w) ==
  /\ routePc[w] = "pick" /\ ~InLoop(w)
  /\ signalled' = TRUE
  /\ attempt' = [attempt EXCEPT ![w] = 0]
  /\ count' = [count EXCEPT ![w] = pool[kind[w]]]
  /\ UNCHANGED <<kingVars, rejected, routePc, kind, steady, heard>>

\* No node is left: a refresh is asked for, and the client gets its 502.
GiveUp(w) ==
  /\ routePc[w] = "pick" /\ ~InLoop(w)
  /\ signalled' = TRUE
  /\ Go(w, "refused")
  /\ UNCHANGED <<kingVars, rejected, requestVars, attempt, heard>>

\* The relay, the direct exchange or the refusal ends; a tunnel that brought
\* nothing back asks for a refresh.
Finish(w) ==
  /\ routePc[w] \in {"relay", "direct", "refused"}
  /\ signalled' \in {signalled, signalled \/ (routePc[w] = "relay" /\ kind[w] = "connect")}
  /\ Go(w, "idle")
  /\ Forget(w)
  /\ UNCHANGED <<kingVars, rejected>>

Route(w) ==
  \/ Pick(w) \/ PickFails(w) \/ DialNode(w) \/ Sign(w) \/ NodeFails(w)
  \/ Rejected(w) \/ BadAnswer(w) \/ ToldToLeave(w) \/ Accepted(w) \/ GiveUp(w)

-----------------------------------------------------------------------------
(* The credential code of LCProxyKing.                                     *)

\* kp_forwarder_set_king_state, of credentials with a node in some pool.
SetKingState ==
  /\ changes < MaxChanges
  /\ changes' = changes + 1
  /\ gen' = changes'
  /\ \E p \in [Kinds -> 0 .. MaxPool] : (\E k \in Kinds : p[k] > 0) /\ pool' = p
  /\ steady' = {}
  /\ UNCHANGED <<flagVars, kind, count, loopVars>>

\* kp_forwarder_clear_king_state, for want of credentials still valid.
ClearKingState ==
  /\ gen # 0
  /\ changes < MaxChanges
  /\ changes' = changes + 1
  /\ gen' = 0
  /\ pool' = [k \in Kinds |-> 0]
  /\ steady' = {}
  /\ UNCHANGED <<flagVars, kind, count, loopVars>>

\* A refresh starts, for the signal or of its own accord, and takes the flag
\* with kp_forwarder_take_credential_rejection.
RefreshStarts ==
  /\ signalled \/ rejected
  /\ signalled' = FALSE
  /\ rejected' = FALSE
  /\ UNCHANGED <<kingVars, requestVars, loopVars>>

-----------------------------------------------------------------------------
RoutingInit ==
  /\ gen = 0 /\ changes = 0 /\ pool = [k \in Kinds |-> 0]
  /\ rejected = FALSE /\ signalled = FALSE
  /\ routePc = [w \in RouteWorkers |-> "idle"]
  /\ kind = [w \in RouteWorkers |-> "http"]
  /\ count = [w \in RouteWorkers |-> 0]
  /\ attempt = [w \in RouteWorkers |-> 0]
  /\ steady = {}
  /\ heard = [w \in RouteWorkers |-> Untried]

RoutingNext ==
  \/ \E w \in RouteWorkers : Arrive(w) \/ Route(w) \/ Finish(w)
  \/ SetKingState
  \/ ClearKingState
  \/ RefreshStarts

RoutingSpec == RoutingInit /\ [][RoutingNext]_routingVars

\* Threads run, and connects, sends and receives in the loop have timeouts; a
\* relay may last for ever.
RoutingFairness == \A w \in RouteWorkers : WF_routingVars(Route(w))

-----------------------------------------------------------------------------
(* Properties.                                                             *)

\* Every variable stays within its type.
RoutingTypeOK ==
  /\ changes \in 0 .. MaxChanges /\ gen \in 0 .. changes
  /\ pool \in [Kinds -> 0 .. MaxPool]
  /\ rejected \in BOOLEAN /\ signalled \in BOOLEAN
  /\ routePc \in [RouteWorkers -> {"idle", "pick", "dial", "sign", "wait", "direct",
                         "relay", "refused"}]
  /\ kind \in [RouteWorkers -> Kinds]
  /\ count \in [RouteWorkers -> 0 .. MaxPool]
  /\ attempt \in [RouteWorkers -> 0 .. MaxPool]
  /\ steady \subseteq RouteWorkers
  /\ heard \in [RouteWorkers -> [Nodes -> Outcomes]]

\* Traffic leaves the king card only on the word of a node: a request whose
\* nodes are all dead, silent or rejecting is refused, never sent directly, and
\* one that a node has sent away is not offered to another node.
FailsClosed ==
  \A w \in RouteWorkers :
    routePc[w] = "direct" <=> \E n \in Nodes : heard[w][n] = "leave"

\* A request is refused only when every node of the pool has been asked and has
\* failed it, unless the king state was changed meanwhile.
RefusedByAll ==
  \A w \in RouteWorkers : w \in steady /\ routePc[w] = "refused" =>
    \A n \in Nodes : n < pool[kind[w]] => heard[w][n] \in {"failed", "reject"}

\* A request is relayed by at most one node, and by the last one tried: what a
\* node answered is never mixed with the answer of another.
OneAnswer ==
  \A w \in RouteWorkers : \A n \in Nodes : heard[w][n] \in {"ok", "leave"} =>
    n = attempt[w] /\ \A m \in Nodes : m > n => heard[w][m] = "none"

\* A request is answered, sent away or refused, however often the king state
\* changes under the loop.
Answered == \A w \in RouteWorkers : routePc[w] = "pick" ~> routePc[w] \in {"direct", "relay", "refused"}
=============================================================================
