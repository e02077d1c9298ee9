------------------------------- MODULE MCFlows -------------------------------
(* The components that run on one thread of their own per request, safety  *)
(* and liveness: the loop over the pool, the bytes of a tunnel, the relay  *)
(* of a non-blocking connect, the king card's own requests and the kill    *)
(* switch.  They have no variable in common, so one run checks them side   *)
(* by side: a behaviour is one of the component that `part` names, and     *)
(* those that do not run have no step that fairness asks for.  To keep the *)
(* run small the server of a tunnel with a stale length sends nothing.     *)
EXTENDS Routing, AsyncRelay, Tunnel, HttpClient, Admission

VARIABLE part

MCInit ==
  /\ part \in {"routing", "relay", "tunnel", "http", "admission"}
  /\ RoutingInit /\ RelayInit /\ TunnelInit /\ HttpInit /\ AdmissionInit
  /\ part # "tunnel" => stale = 0

MCNext ==
  /\ \/ part = "routing" /\ RoutingNext
     \/ part # "routing" /\ UNCHANGED routingVars
  /\ \/ part = "relay" /\ RelayNext
     \/ part # "relay" /\ UNCHANGED relayVars
  /\ \/ part = "tunnel" /\ TunnelNext /\ (stale = 0 \/ written'["server"] = 0)
     \/ part # "tunnel" /\ UNCHANGED tunnelVars
  /\ \/ part = "http" /\ HttpNext
     \/ part # "http" /\ UNCHANGED httpVars
  /\ \/ part = "admission" /\ AdmissionNext
     \/ part # "admission" /\ UNCHANGED admissionVars
  /\ UNCHANGED part

mcVars == <<routingVars, relayVars, tunnelVars, httpVars, admissionVars, part>>

MCSpec == MCInit /\ [][MCNext]_mcVars

MCFairness ==
  /\ RoutingFairness /\ RelayFairness /\ TunnelFairness /\ HttpFairness
  /\ AdmissionFairness

MCLive == MCSpec /\ MCFairness

\* Every variable of the four keeps its type: no index runs past the pool, no
\* counter past its limit, no copy past what was read.
FlowTypesOK == RoutingTypeOK /\ RelayTypeOK /\ TunnelTypeOK /\ HttpTypeOK
=============================================================================
