----------------------------- MODULE HttpClient -----------------------------
(***************************************************************************)
(* The HTTP requests the king card makes for itself, each one a call that  *)
(* runs to its end on the thread of its caller:                            *)
(*   fetch   kp_fetch_guid_token_best: GUID and token, by proxy, else      *)
(*           directly, several times, following redirects;                 *)
(*   viaProxy, direct  kp_http_get_via_proxy, kp_http_get_direct;          *)
(*   login   kp_login_via_proxy: a CONNECT, else a request to the gateway; *)
(*   probe   kp_probe_generate204: a tunnel and a request through it;      *)
(*   post    kp_http_post_direct_len;   wup  kpq_http_post.                *)
(* A call is a series of tries.  A try resolves a host, connects to one of *)
(* its addresses, perhaps has a proxy open a tunnel, and exchanges a       *)
(* request for an answer.                                                  *)
(***************************************************************************)
EXTENDS Naturals, Sequences

CONSTANTS
  MaxAttempts,  \* `attempts` of kp_fetch_guid_token_best
  MaxHops,      \* requests in a chain of redirects: 4
  MaxAddresses  \* bound on the addresses of a host

ASSUME HttpAssumption ==
  MaxAttempts \in Nat \ {0} /\ MaxHops \in Nat \ {0} /\ MaxAddresses \in Nat

Calls == {"fetch", "viaProxy", "direct", "login", "probe", "post", "wup"}

\* The routes of one attempt, in the order they are tried.
Routes(c) ==
  CASE c \in {"fetch", "login"} -> <<"tunnel", "plain">>
    [] c \in {"viaProxy", "probe"} -> <<"tunnel">>
    [] OTHER -> <<"plain">>

Follows(c) == c \in {"fetch", "viaProxy", "direct"}

VARIABLES
  call,      \* the call that runs, or "none"
  attemptNo, \* `i` of kp_fetch_guid_token_best
  route,     \* index into Routes(call)
  hop,       \* requests of this chain of redirects
  at,        \* what the try is about to do
  addresses, \* addresses of the host not yet tried
  bypass,    \* the thread's own connects pass by the hook
  sockets,   \* descriptors the call has open
  answer,    \* what the answer read is, or "none"
  wins,      \* history: tries of this call that succeeded
  result     \* what the call returned: "ok", "failed", or "none" before

placeVars == <<call, attemptNo, route, hop>>
socketVars == <<addresses, bypass, sockets>>
httpVars == <<placeVars, at, socketVars, answer, wins, result>>

Steps ==
  {"begin", "resolve", "address", "connect", "tunnel", "ask", "read", "judge", "over"}

\* A redirect goes to another http URL, or to one the client cannot follow.
AnswerKinds == {"good", "moved", "elsewhere", "bad"}

Tunnels == Routes(call)[route] = "tunnel"
Opened == sockets' = sockets + 1
Closed == sockets' = sockets - 1

-----------------------------------------------------------------------------
\* A caller makes a request.
Call(c) ==
  /\ call = "none"
  /\ call' = c /\ attemptNo' = 1 /\ route' = 1 /\ hop' = 1
  /\ at' = "resolve"
  /\ wins' = 0 /\ result' = "none"
  /\ UNCHANGED <<socketVars, answer>>

\* getaddrinfo, in the bypass it needs for a real address.
Resolved ==
  /\ at = "resolve"
  /\ bypass' = TRUE
  /\ addresses' \in 0 .. MaxAddresses
  /\ at' = "address"
  /\ UNCHANGED <<placeVars, sockets, answer, wins, result>>

NotResolved ==
  /\ at = "resolve"
  /\ at' = "over"
  /\ UNCHANGED <<placeVars, socketVars, answer, wins, result>>

\* socket(), with its timeouts, put into non-blocking mode for the connect.
NextAddress ==
  /\ at = "address" /\ addresses > 0
  /\ addresses' = addresses - 1
  /\ \/ Opened /\ at' = "connect"
     \/ UNCHANGED <<sockets, at>>
  /\ UNCHANGED <<placeVars, bypass, answer, wins, result>>

NoAddressLeft ==
  /\ at = "address" /\ addresses = 0
  /\ bypass' = FALSE
  /\ at' = "over"
  /\ UNCHANGED <<placeVars, addresses, sockets, answer, wins, result>>

\* The connection is made within the time limit, and put back into blocking mode.
\* Where fcntl fails the connect blocks from the start and ends with the limit of
\* the kernel in place of the own one: the same two outcomes.
Connected ==
  /\ at = "connect"
  /\ bypass' = FALSE
  /\ at' = IF Tunnels THEN "tunnel" ELSE "ask"
  /\ UNCHANGED <<placeVars, addresses, sockets, answer, wins, result>>

\* It fails, or poll runs out of time.
NotConnected ==
  /\ at = "connect"
  /\ Closed /\ at' = "address"
  /\ UNCHANGED <<placeVars, addresses, bypass, answer, wins, result>>

-----------------------------------------------------------------------------
\* The proxy answers the CONNECT with 2xx, which is all a login needs.
TunnelOpened ==
  /\ at = "tunnel"
  /\ IF call = "login"
     THEN /\ answer' = "good"
          /\ at' = "judge"
     ELSE UNCHANGED answer /\ at' = "ask"
  /\ UNCHANGED <<placeVars, socketVars, wins, result>>

\* Variant: a refused tunnel leaves its connection open.
TunnelRefusedOpen ==
  /\ at = "tunnel"
  /\ at' = "over"
  /\ UNCHANGED <<placeVars, socketVars, answer, wins, result>>

TunnelRefused ==
  /\ at = "tunnel"
  /\ Closed /\ at' = "over"
  /\ UNCHANGED <<placeVars, addresses, bypass, answer, wins, result>>

\* The request does not fit its buffer, or cannot be sent.
AskFails ==
  /\ at = "ask"
  /\ Closed /\ at' = "over"
  /\ UNCHANGED <<placeVars, addresses, bypass, answer, wins, result>>

Asked ==
  /\ at = "ask"
  /\ at' = "read"
  /\ UNCHANGED <<placeVars, socketVars, answer, wins, result>>

\* kp_recv_response, kp_recv_until and kpq_recv_all succeed with whatever came
\* before the end, an error, the time limit of a recv or the end of the buffer.
Read ==
  /\ at = "read"
  /\ answer' \in AnswerKinds
  /\ at' = "judge"
  /\ UNCHANGED <<placeVars, socketVars, wins, result>>

ReadNothing ==
  /\ at = "read"
  /\ Closed /\ at' = "over"
  /\ UNCHANGED <<placeVars, addresses, bypass, answer, wins, result>>

\* What counts as success: a login and a POST take any answer.
Wins == call \in {"login", "post", "wup"} \/ answer = "good"

\* Variant: a redirect is not counted.
JudgedEndlessly ==
  /\ at = "judge"
  /\ Closed
  /\ IF ~Wins /\ answer = "moved" /\ Follows(call)
     THEN at' = "resolve" /\ UNCHANGED <<hop, wins>>
     ELSE at' = "over" /\ wins' = (IF Wins THEN wins + 1 ELSE wins) /\ UNCHANGED hop
  /\ answer' = IF Wins THEN answer ELSE "none"
  /\ UNCHANGED <<call, attemptNo, route, addresses, bypass, result>>

\* Variant: one redirect too many is followed.
JudgedOnceMore ==
  /\ at = "judge"
  /\ Closed
  /\ IF ~Wins /\ answer = "moved" /\ Follows(call) /\ hop <= MaxHops
     THEN at' = "resolve" /\ hop' = hop + 1 /\ UNCHANGED wins
     ELSE at' = "over" /\ wins' = (IF Wins THEN wins + 1 ELSE wins) /\ UNCHANGED hop
  /\ answer' = IF Wins THEN answer ELSE "none"
  /\ UNCHANGED <<call, attemptNo, route, addresses, bypass, result>>

\* The socket is closed and the answer judged; a redirect is followed to the
\* next request unless the chain is long enough.
Judged ==
  /\ at = "judge"
  /\ Closed
  /\ IF ~Wins /\ answer = "moved" /\ Follows(call) /\ hop < MaxHops
     THEN at' = "resolve" /\ hop' = hop + 1 /\ UNCHANGED wins
     ELSE at' = "over" /\ wins' = (IF Wins THEN wins + 1 ELSE wins) /\ UNCHANGED hop
  /\ answer' = IF Wins THEN answer ELSE "none"
  /\ UNCHANGED <<call, attemptNo, route, addresses, bypass, result>>

-----------------------------------------------------------------------------
\* The attempts of a call.
Attempts(c) == IF c = "fetch" THEN MaxAttempts ELSE 1

\* A try that failed is followed by the next route, or by the next attempt.
NextTry ==
  /\ at = "over" /\ wins = 0
  /\ route < Len(Routes(call)) \/ attemptNo < Attempts(call)
  /\ IF route < Len(Routes(call))
     THEN route' = route + 1 /\ UNCHANGED attemptNo
     ELSE route' = 1 /\ attemptNo' = attemptNo + 1
  /\ hop' = 1 /\ at' = "resolve"
  /\ UNCHANGED <<call, socketVars, answer, wins, result>>

\* The call returns; an answer is the caller's until the next call.
Return ==
  /\ at = "over"
  /\ wins > 0 \/ (route = Len(Routes(call)) /\ attemptNo = Attempts(call))
  /\ result' = IF wins > 0 THEN "ok" ELSE "failed"
  /\ at' = "begin"
  /\ UNCHANGED <<placeVars, socketVars, answer, wins>>

ForgetAnswer ==
  /\ at = "begin" /\ call # "none"
  /\ call' = "none" /\ answer' = "none" /\ addresses' = 0
  /\ UNCHANGED <<attemptNo, route, hop, at, bypass, sockets, wins, result>>

HttpInit ==
  /\ call = "none" /\ attemptNo = 1 /\ route = 1 /\ hop = 1
  /\ at = "begin"
  /\ addresses = 0 /\ bypass = FALSE /\ sockets = 0 
  /\ answer = "none" /\ wins = 0 /\ result = "none"

Connecting ==
  Resolved \/ NotResolved \/ NextAddress \/ NoAddressLeft \/ Connected \/ NotConnected

Exchanging ==
  TunnelOpened \/ TunnelRefused \/ Asked \/ AskFails \/ Read \/ ReadNothing \/ Judged

Trying == NextTry \/ Return \/ ForgetAnswer

HttpStep == Connecting \/ Exchanging \/ Trying

HttpNext == (\E c \in Calls : Call(c)) \/ HttpStep

HttpSpec == HttpInit /\ [][HttpNext]_httpVars

\* Every step of a call has a time limit: a connect its poll or, blocking, that of
\* the kernel, a send and a recv the timeouts of the socket.
HttpFairness == WF_httpVars(HttpStep)

-----------------------------------------------------------------------------
(* Properties                                                              *)

\* Every variable keeps its type.
HttpTypeOK ==
  /\ call \in Calls \cup {"none"} /\ at \in Steps
  /\ attemptNo \in 1 .. MaxAttempts /\ route \in 1 .. 2 /\ hop \in 1 .. MaxHops
  /\ addresses \in 0 .. MaxAddresses /\ sockets \in 0 .. 1
  /\ bypass \in BOOLEAN
  /\ answer \in AnswerKinds \cup {"none"}
  /\ wins \in Nat /\ result \in {"none", "ok", "failed"}

\* Whichever step fails, a call leaves no descriptor open behind it, and the
\* thread's connects pass by the hook only while the call resolves and connects:
\* a bypass left on would send the app's own connections around the proxy.
NothingHeld ==
  /\ sockets = (IF at \in {"begin", "resolve", "address", "over"} THEN 0 ELSE 1)
  /\ bypass <=> at \in {"address", "connect"}

\* Every call returns, redirects that lead in a circle included.
CallReturns == at = "resolve" ~> at = "begin"
=============================================================================
