---------------------------- MODULE RoutingProofs ----------------------------
(***************************************************************************)
(* The type invariant and the safety invariants of Routing, for any number *)
(* of workers, any pool size and any number of changes of the king state.  *)
(***************************************************************************)
EXTENDS Routing, TLAPS

RoutePlaces == {"idle", "pick", "dial", "sign", "wait", "direct", "relay", "refused"}

\* The types of the king state, and of a client thread's locals.
KingTypes ==
  /\ changes \in 0 .. MaxChanges /\ gen \in 0 .. changes
  /\ pool \in [Kinds -> 0 .. MaxPool]

LocalTypes ==
  /\ routePc \in [RouteWorkers -> RoutePlaces]
  /\ kind \in [RouteWorkers -> Kinds]
  /\ count \in [RouteWorkers -> 0 .. MaxPool]
  /\ attempt \in [RouteWorkers -> 0 .. MaxPool]
  /\ steady \subseteq RouteWorkers
  /\ heard \in [RouteWorkers -> [Nodes -> Outcomes]]

FlagTypes == rejected \in BOOLEAN /\ signalled \in BOOLEAN

\* Where the index stands: below the count while a node is being asked or
\* relays, at the count when the request is refused.
IndexOf(w) ==
  /\ attempt[w] <= count[w]
  /\ routePc[w] \in {"dial", "sign", "wait", "direct", "relay"} => attempt[w] < count[w]
  /\ routePc[w] = "refused" => attempt[w] = count[w]

\* What was heard, in the order the nodes are tried: refusals from those before
\* the index, at the index only what decided the request, nothing beyond.
HeardOf(w) ==
  /\ \A n \in Nodes : n < attempt[w] => heard[w][n] \notin {"ok", "leave"}
  /\ \A n \in Nodes : n > attempt[w] => heard[w][n] = "none"
  /\ \A n \in Nodes : n = attempt[w] =>
       heard[w][n] = IF routePc[w] = "relay" THEN "ok"
                     ELSE IF routePc[w] = "direct" THEN "leave" ELSE "none"

\* While the king state stays the one of the arrival, no node is skipped.
SteadyOf(w) ==
  w \in steady =>
    /\ count[w] = pool[kind[w]]
    /\ \A n \in Nodes : n < attempt[w] => heard[w][n] \in {"failed", "reject"}

\* No request, no trace of one.
IdleOf(w) ==
  routePc[w] = "idle" => attempt[w] = 0 /\ count[w] = 0 /\ w \notin steady

LoopInv == \A w \in RouteWorkers : IndexOf(w) /\ HeardOf(w) /\ SteadyOf(w) /\ IdleOf(w)

RoutingInv == KingTypes /\ LocalTypes /\ LoopInv

-----------------------------------------------------------------------------
(* What the ends of an exchange have in common.                            *)

\* The node failed the request or refused it, and the next one is tried.
AsksNext(w) ==
  /\ routePc[w] \in {"dial", "sign", "wait"}
  /\ \E o \in {"failed", "reject"} : Hear(w, o)
  /\ TryNext(w)
  /\ UNCHANGED <<kingVars, requestVars>>

\* The node took the request, or sent it away.
Decides(w) ==
  /\ routePc[w] = "wait"
  /\ \E o \in {"leave", "ok"} :
       Hear(w, o) /\ Go(w, IF o = "leave" THEN "direct" ELSE "relay")
  /\ UNCHANGED <<kingVars, requestVars, attempt>>

\* Every exchange ends one way or the other.
LEMMA Outcome ==
  ASSUME NEW w \in RouteWorkers
  PROVE  /\ NodeFails(w) \/ Rejected(w) \/ BadAnswer(w) => AsksNext(w)
         /\ ToldToLeave(w) \/ Accepted(w) => Decides(w)
<1>1. NodeFails(w) => AsksNext(w)
  BY Zenon DEF NodeFails, AsksNext
<1>2. Rejected(w) => AsksNext(w)
  BY Zenon DEF Rejected, AsksNext
<1>3. BadAnswer(w) => AsksNext(w)
  BY Zenon DEF BadAnswer, AsksNext
<1>4. ToldToLeave(w) \/ Accepted(w) => Decides(w)
  BY DEF ToldToLeave, Accepted, Decides, Go, Hear
<1> QED
  BY <1>1, <1>2, <1>3, <1>4

-----------------------------------------------------------------------------
(* The types.                                                              *)

\* Every step keeps the king state and the locals within their types.
LEMMA TypesStep == RoutingInv /\ [RoutingNext]_routingVars => KingTypes' /\ LocalTypes'
<1> SUFFICES ASSUME RoutingInv, [RoutingNext]_routingVars PROVE KingTypes' /\ LocalTypes'
  OBVIOUS
<1> USE MaxPoolAssumption, MaxChangesAssumption
    DEF RoutingInv, KingTypes, LocalTypes, LoopInv, RoutePlaces
<1> USE DEF kingVars, flagVars, requestVars, loopVars
<1>1. ASSUME NEW w \in RouteWorkers, Arrive(w) PROVE KingTypes' /\ LocalTypes'
  BY <1>1 DEF Arrive, Go
<1>2. ASSUME NEW w \in RouteWorkers, Pick(w) PROVE KingTypes' /\ LocalTypes'
  BY <1>2 DEF Pick, Go
<1>3. ASSUME NEW w \in RouteWorkers, PickFails(w) PROVE KingTypes' /\ LocalTypes'
  BY <1>3 DEF PickFails, TryNext, Go, InLoop
<1>4. ASSUME NEW w \in RouteWorkers, DialNode(w) PROVE KingTypes' /\ LocalTypes'
  BY <1>4 DEF DialNode, Go
<1>5. ASSUME NEW w \in RouteWorkers, Sign(w) PROVE KingTypes' /\ LocalTypes'
  BY <1>5 DEF Sign, Go
<1>6. ASSUME NEW w \in RouteWorkers, AsksNext(w) PROVE KingTypes' /\ LocalTypes'
  <2>1. attempt[w] < count[w] /\ attempt[w] + 1 \in 0 .. MaxPool /\ attempt[w] \in Nodes
    BY <1>6 DEF AsksNext, IndexOf, Nodes
  <2>2. attempt' \in [RouteWorkers -> 0 .. MaxPool]
    BY <1>6, <2>1 DEF AsksNext, TryNext
  <2>3. heard' \in [RouteWorkers -> [Nodes -> Outcomes]]
    BY <1>6, <2>1 DEF AsksNext, Hear, Outcomes
  <2>4. routePc' \in [RouteWorkers -> RoutePlaces]
    BY <1>6 DEF AsksNext, TryNext, Go
  <2> QED
    BY <1>6, <2>2, <2>3, <2>4 DEF AsksNext
<1>7. ASSUME NEW w \in RouteWorkers, Decides(w) PROVE KingTypes' /\ LocalTypes'
  <2>1. attempt[w] \in Nodes
    BY <1>7 DEF Decides, IndexOf, Nodes
  <2>2. heard' \in [RouteWorkers -> [Nodes -> Outcomes]]
    BY <1>7, <2>1 DEF Decides, Hear, Outcomes
  <2>3. routePc' \in [RouteWorkers -> RoutePlaces]
    BY <1>7 DEF Decides, Go
  <2> QED
    BY <1>7, <2>2, <2>3 DEF Decides
<1>8. ASSUME NEW w \in RouteWorkers, GiveUp(w) PROVE KingTypes' /\ LocalTypes'
  BY <1>8 DEF GiveUp, Go
<1>9. ASSUME NEW w \in RouteWorkers, Finish(w) PROVE KingTypes' /\ LocalTypes'
  BY <1>9 DEF Finish, Forget, Go, Untried, Outcomes, Kinds
<1>10. CASE SetKingState
  BY <1>10 DEF SetKingState
<1>11. CASE ClearKingState
  BY <1>11 DEF ClearKingState
<1>12. CASE RefreshStarts
  BY <1>12 DEF RefreshStarts
<1>13. CASE UNCHANGED routingVars
  BY <1>13 DEF routingVars
<1> QED
  BY <1>1, <1>2, <1>3, <1>4, <1>5, <1>6, <1>7, <1>8, <1>9, <1>10, <1>11, <1>12, <1>13,
     Outcome DEF RoutingNext, Route

-----------------------------------------------------------------------------
(* The loop.                                                               *)

\* A step of one worker leaves the loops of the others alone.
LEMMA LoopsKeep ==
  ASSUME RoutingInv, NEW w \in RouteWorkers, NEW v \in RouteWorkers, v # w,
         UNCHANGED pool,
         routePc'[v] = routePc[v], kind'[v] = kind[v], count'[v] = count[v],
         attempt'[v] = attempt[v], heard'[v] = heard[v], v \in steady' <=> v \in steady
  PROVE  IndexOf(v)' /\ HeardOf(v)' /\ SteadyOf(v)' /\ IdleOf(v)'
BY DEF RoutingInv, LoopInv, IndexOf, HeardOf, SteadyOf, IdleOf

\* What is to be shown of a step of worker w.
OwnLoop(w) == IndexOf(w) /\ HeardOf(w) /\ SteadyOf(w) /\ IdleOf(w)

\* Steps that bring no outcome: only the place moves, to one at the same index.
LEMMA OwnMoves ==
  ASSUME RoutingInv, NEW w \in RouteWorkers, Pick(w) \/ DialNode(w) \/ Sign(w)
  PROVE  OwnLoop(w)'
<1> USE DEF RoutingInv, LoopInv, LocalTypes, OwnLoop, IndexOf, HeardOf, SteadyOf, IdleOf,
            Go, kingVars, flagVars, requestVars, loopVars
<1>1. CASE Pick(w)
  BY <1>1 DEF Pick, InLoop
<1>2. CASE DialNode(w)
  BY <1>2 DEF DialNode
<1>3. CASE Sign(w)
  BY <1>3 DEF Sign
<1> QED
  BY <1>1, <1>2, <1>3

\* The loop has run out of nodes.
LEMMA OwnGivesUp ==
  ASSUME RoutingInv, NEW w \in RouteWorkers, GiveUp(w)
  PROVE  OwnLoop(w)'
<1>1. /\ routePc[w] = "pick" /\ routePc'[w] = "refused" /\ ~(attempt[w] < count[w])
      /\ UNCHANGED <<pool, kind, count, attempt, heard, steady>>
  BY DEF RoutingInv, LocalTypes, GiveUp, Go, InLoop, kingVars, requestVars
<1>2. attempt[w] \in Nat /\ count[w] \in Nat
  BY MaxPoolAssumption DEF RoutingInv, LocalTypes
<1>3. IndexOf(w) /\ HeardOf(w) /\ SteadyOf(w) /\ IdleOf(w)
  BY DEF RoutingInv, LoopInv
<1>4. attempt[w] = count[w]
  BY <1>1, <1>2, <1>3 DEF IndexOf
<1>5. IndexOf(w)' /\ IdleOf(w)'
  BY <1>1, <1>2, <1>4 DEF IndexOf, IdleOf
<1>6. HeardOf(w)'
  BY <1>1, <1>3 DEF HeardOf
<1>7. SteadyOf(w)'
  BY <1>1, <1>3 DEF SteadyOf
<1> QED
  BY <1>5, <1>6, <1>7 DEF OwnLoop

\* A request arrives at an idle worker, all nodes untried.
LEMMA OwnArrives ==
  ASSUME RoutingInv, NEW w \in RouteWorkers, Arrive(w)
  PROVE  OwnLoop(w)'
BY DEF RoutingInv, LoopInv, KingTypes, LocalTypes, OwnLoop, IndexOf, HeardOf, SteadyOf,
       IdleOf, Arrive, Go, kingVars, Nodes

\* A node fails the request: it is noted as such and the index moves past it.
LEMMA OwnAsksNext ==
  ASSUME RoutingInv, NEW w \in RouteWorkers, AsksNext(w)
  PROVE  OwnLoop(w)'
<1> USE MaxPoolAssumption
    DEF RoutingInv, LoopInv, LocalTypes, AsksNext, TryNext, Go, kingVars, requestVars
<1>1. PICK o \in {"failed", "reject"} : Hear(w, o)
  OBVIOUS
<1>2. attempt[w] < count[w] /\ attempt[w] \in Nodes /\ attempt'[w] = attempt[w] + 1
      /\ routePc'[w] = "pick" /\ count'[w] = count[w]
  BY DEF IndexOf, Nodes
<1>3. heard'[w] = [heard[w] EXCEPT ![attempt[w]] = o]
  BY <1>1 DEF Hear
<1>4. IndexOf(w)'
  BY <1>2 DEF IndexOf
<1>5. HeardOf(w)'
  BY <1>2, <1>3 DEF HeardOf, Nodes
<1>6. SteadyOf(w)'
  BY <1>2, <1>3 DEF SteadyOf, Nodes
<1>7. IdleOf(w)'
  BY <1>2 DEF IdleOf
<1> QED
  BY <1>4, <1>5, <1>6, <1>7 DEF OwnLoop

\* The pool has lost the node meanwhile: only after a change of the king state.
LEMMA OwnSkips ==
  ASSUME RoutingInv, NEW w \in RouteWorkers, PickFails(w)
  PROVE  OwnLoop(w)'
<1> USE MaxPoolAssumption
    DEF RoutingInv, LoopInv, LocalTypes, PickFails, TryNext, Go, kingVars, requestVars
<1>1. /\ attempt[w] < count[w] /\ attempt[w] \in Nodes /\ attempt'[w] = attempt[w] + 1
      /\ routePc'[w] = "pick" /\ count'[w] = count[w] /\ heard'[w] = heard[w]
  BY DEF InLoop, Nodes
<1>2. w \notin steady /\ w \notin steady'
  BY DEF Pickable, InLoop, SteadyOf
<1>3. IndexOf(w)'
  BY <1>1 DEF IndexOf
<1>4. HeardOf(w)'
  <2>1. HeardOf(w)
    OBVIOUS
  <2>2. /\ \A n \in Nodes : n < attempt[w] + 1 => heard[w][n] \notin {"ok", "leave"}
        /\ \A n \in Nodes : n > attempt[w] + 1 => heard[w][n] = "none"
        /\ \A n \in Nodes : n = attempt[w] + 1 => heard[w][n] = "none"
    BY <1>1, <2>1 DEF HeardOf, Nodes
  <2> QED
    BY <1>1, <2>2 DEF HeardOf
<1> QED
  BY <1>1, <1>2, <1>3, <1>4 DEF OwnLoop, SteadyOf, IdleOf

\* A node decides the request.
LEMMA OwnDecides ==
  ASSUME RoutingInv, NEW w \in RouteWorkers, Decides(w)
  PROVE  OwnLoop(w)'
<1>1. PICK o \in {"leave", "ok"} :
        Hear(w, o) /\ Go(w, IF o = "leave" THEN "direct" ELSE "relay")
  BY DEF Decides
<1>2. /\ routePc[w] = "wait" /\ UNCHANGED <<pool, kind, count, attempt, steady>>
      /\ routePc'[w] = (IF o = "leave" THEN "direct" ELSE "relay")
      /\ heard'[w] = [heard[w] EXCEPT ![attempt[w]] = o]
  BY <1>1 DEF Decides, Hear, Go, RoutingInv, LocalTypes, kingVars, requestVars
<1>3. /\ attempt[w] \in Nat /\ count[w] \in 0 .. MaxPool
      /\ heard[w] \in [Nodes -> Outcomes]
  BY MaxPoolAssumption DEF RoutingInv, LocalTypes
<1>4. IndexOf(w) /\ HeardOf(w) /\ SteadyOf(w)
  BY DEF RoutingInv, LoopInv
<1>5. attempt[w] < count[w] /\ attempt[w] \in Nodes
  BY <1>2, <1>3, <1>4, MaxPoolAssumption DEF IndexOf, Nodes
<1>6. IndexOf(w)'
  BY <1>2, <1>3, <1>5 DEF IndexOf
<1>7. heard'[w][attempt[w]] = o
      /\ \A n \in Nodes : n # attempt[w] => heard'[w][n] = heard[w][n]
  BY <1>2, <1>3, <1>5
<1>8. HeardOf(w)'
  <2>1. /\ \A n \in Nodes : n < attempt[w] => heard'[w][n] \notin {"ok", "leave"}
        /\ \A n \in Nodes : n > attempt[w] => heard'[w][n] = "none"
    BY <1>3, <1>4, <1>7 DEF HeardOf, Nodes
  <2> QED
    BY <1>2, <1>7, <2>1 DEF HeardOf
<1>9. SteadyOf(w)'
  <2>1. \A n \in Nodes : n < attempt[w] => heard'[w][n] = heard[w][n]
    BY <1>3, <1>7 DEF Nodes
  <2> QED
    BY <1>2, <1>4, <2>1 DEF SteadyOf
<1>10. IdleOf(w)'
  BY <1>2 DEF IdleOf
<1> QED
  BY <1>6, <1>8, <1>9, <1>10 DEF OwnLoop

\* A request leaves no trace.
LEMMA OwnFinishes ==
  ASSUME RoutingInv, NEW w \in RouteWorkers, Finish(w)
  PROVE  OwnLoop(w)'
BY MaxPoolAssumption
   DEF RoutingInv, LoopInv, LocalTypes, OwnLoop, IndexOf, HeardOf, SteadyOf, IdleOf,
       Finish, Forget, Go, Untried, Nodes

\* Every step keeps the loops as described.
LEMMA LoopStep == RoutingInv /\ [RoutingNext]_routingVars => LoopInv'
<1> SUFFICES ASSUME RoutingInv, [RoutingNext]_routingVars PROVE LoopInv'
  OBVIOUS
<1> USE DEF kingVars, flagVars, requestVars, loopVars
<1>1. ASSUME NEW w \in RouteWorkers, Arrive(w) \/ Route(w) \/ Finish(w) PROVE LoopInv'
  <2>1. OwnLoop(w)'
    BY <1>1, Outcome, OwnMoves, OwnGivesUp, OwnArrives, OwnAsksNext, OwnSkips, OwnDecides,
       OwnFinishes DEF Route
  <2>2. ASSUME NEW v \in RouteWorkers, v # w PROVE OwnLoop(v)'
    <3>1. /\ UNCHANGED pool
          /\ routePc'[v] = routePc[v] /\ kind'[v] = kind[v] /\ count'[v] = count[v]
          /\ attempt'[v] = attempt[v] /\ heard'[v] = heard[v]
          /\ v \in steady' <=> v \in steady
      <4> USE <2>2 DEF RoutingInv, LocalTypes, Go, Hear, TryNext
      <4>1. CASE Arrive(w)
        BY <4>1 DEF Arrive
      <4>2. CASE Pick(w)
        BY <4>2 DEF Pick
      <4>3. CASE PickFails(w)
        BY <4>3 DEF PickFails
      <4>4. CASE DialNode(w) \/ Sign(w)
        BY <4>4 DEF DialNode, Sign
      <4>5. CASE AsksNext(w)
        BY <4>5 DEF AsksNext
      <4>6. CASE Decides(w)
        BY <4>6 DEF Decides
      <4>7. CASE GiveUp(w)
        BY <4>7 DEF GiveUp
      <4>8. CASE Finish(w)
        BY <4>8 DEF Finish, Forget
      <4> QED
        BY <1>1, Outcome, <4>1, <4>2, <4>3, <4>4, <4>5, <4>6, <4>7, <4>8 DEF Route
    <3> QED
      BY <2>2, <3>1, LoopsKeep DEF OwnLoop
  <2> QED
    BY <2>1, <2>2 DEF LoopInv, OwnLoop
<1>2. CASE SetKingState \/ ClearKingState
  BY <1>2 DEF SetKingState, ClearKingState, RoutingInv, LoopInv, IndexOf, HeardOf, SteadyOf,
     IdleOf
<1>3. CASE RefreshStarts \/ UNCHANGED routingVars
  BY <1>3 DEF RefreshStarts, routingVars, RoutingInv, LoopInv, IndexOf, HeardOf, SteadyOf, IdleOf
<1> QED
  BY <1>1, <1>2, <1>3 DEF RoutingNext

-----------------------------------------------------------------------------
(* The invariant.                                                          *)

\* It holds at the start ...
LEMMA InitTypes == RoutingInit => RoutingInv
<1> SUFFICES ASSUME RoutingInit PROVE RoutingInv
  OBVIOUS
<1> USE MaxPoolAssumption, MaxChangesAssumption DEF RoutingInit, Untried
<1>1. KingTypes
  BY DEF KingTypes
<1>2. LocalTypes
  BY DEF LocalTypes, RoutePlaces, Kinds, Outcomes
<1>3. LoopInv
  <2> SUFFICES ASSUME NEW w \in RouteWorkers
               PROVE  IndexOf(w) /\ HeardOf(w) /\ SteadyOf(w) /\ IdleOf(w)
    BY DEF LoopInv
  <2>1. routePc[w] = "idle" /\ attempt[w] = 0 /\ count[w] = 0 /\ w \notin steady
    OBVIOUS
  <2>2. \A n \in Nodes : n >= 0 /\ heard[w][n] = "none"
    BY DEF Nodes
  <2> QED
    BY <2>1, <2>2 DEF IndexOf, HeardOf, SteadyOf, IdleOf
<1> QED
  BY <1>1, <1>2, <1>3 DEF RoutingInv

\* ... and in every state.
THEOREM Invariant == RoutingSpec => []RoutingInv
<1>1. RoutingInv /\ [RoutingNext]_routingVars => RoutingInv'
  BY TypesStep, LoopStep DEF RoutingInv
<1> QED
  BY InitTypes, <1>1, PTL DEF RoutingSpec

-----------------------------------------------------------------------------
(* What follows from it.                                                   *)

\* The flags are set and taken, by the workers and by the refresh.
LEMMA KingFlagsStep == FlagTypes /\ [RoutingNext]_routingVars => FlagTypes'
<1> SUFFICES ASSUME FlagTypes, [RoutingNext]_routingVars PROVE FlagTypes'
  OBVIOUS
<1> USE DEF flagVars
<1>1. CASE UNCHANGED flagVars
  BY <1>1 DEF FlagTypes
<1>2. ASSUME NEW w \in RouteWorkers, Rejected(w) PROVE FlagTypes'
  <2>1. rejected' = (rejected \/ Notes(w)) /\ signalled' = signalled
    BY <1>2 DEF Rejected
  <2> QED
    BY <2>1, Zenon DEF FlagTypes
<1>3. ASSUME NEW w \in RouteWorkers, GiveUp(w) PROVE FlagTypes'
  BY <1>3, Zenon DEF GiveUp, FlagTypes
<1>4. ASSUME NEW w \in RouteWorkers, Finish(w) PROVE FlagTypes'
  <2>1. rejected' = rejected
    BY <1>4 DEF Finish
  <2>2. \/ signalled' = signalled
        \/ signalled' = (signalled \/ (routePc[w] = "relay" /\ kind[w] = "connect"))
    BY <1>4, Zenon DEF Finish
  <2>3. signalled' \in BOOLEAN
    BY <2>2, Zenon DEF FlagTypes
  <2> QED
    BY <2>1, <2>3 DEF FlagTypes
<1>5. CASE RefreshStarts
  BY <1>5, Zenon DEF RefreshStarts, FlagTypes
<1>6. ASSUME NEW w \in RouteWorkers,
             Arrive(w) \/ Pick(w) \/ PickFails(w) \/ DialNode(w) \/ Sign(w) \/ NodeFails(w)
             \/ BadAnswer(w) \/ ToldToLeave(w) \/ Accepted(w)
      PROVE  UNCHANGED flagVars
  BY <1>6, Zenon
  DEF Arrive, Pick, PickFails, DialNode, Sign, NodeFails, BadAnswer, ToldToLeave, Accepted
<1>7. SetKingState \/ ClearKingState \/ UNCHANGED routingVars => UNCHANGED flagVars
  BY Zenon DEF SetKingState, ClearKingState, routingVars
<1> QED
  BY <1>1, <1>2, <1>3, <1>4, <1>5, <1>6, <1>7 DEF RoutingNext, Route

\* Every variable stays within its type, whatever the workers, the credential
\* code and the nodes do.
THEOREM TypeCorrect == RoutingSpec => []RoutingTypeOK
<1>1. RoutingInit => FlagTypes
  BY Zenon DEF RoutingInit, FlagTypes
<1>2. RoutingInv /\ FlagTypes => RoutingTypeOK
  BY DEF RoutingInv, KingTypes, LocalTypes, FlagTypes, RoutingTypeOK, RoutePlaces
<1>3. RoutingSpec => []FlagTypes
  BY <1>1, KingFlagsStep, PTL DEF RoutingSpec
<1> QED
  BY Invariant, <1>2, <1>3, PTL

\* A request goes around the king card only if a node has said so
\* (kp_handle_client: the one way out of the loop to the direct exchange).
THEOREM FailsClosedAlways == RoutingSpec => []FailsClosed
<1>1. RoutingInv => FailsClosed
  <2> SUFFICES ASSUME RoutingInv, NEW w \in RouteWorkers
               PROVE  routePc[w] = "direct" <=> \E n \in Nodes : heard[w][n] = "leave"
    BY DEF FailsClosed
  <2>1. IndexOf(w) /\ HeardOf(w)
    BY DEF RoutingInv, LoopInv
  <2>2. attempt[w] \in Nat /\ count[w] \in 0 .. MaxPool
    BY MaxPoolAssumption DEF RoutingInv, LocalTypes
  <2>3. ASSUME routePc[w] = "direct" PROVE \E n \in Nodes : heard[w][n] = "leave"
    <3>1. attempt[w] \in Nodes
      BY <2>1, <2>2, <2>3, MaxPoolAssumption DEF IndexOf, Nodes
    <3> QED
      BY <2>1, <2>3, <3>1 DEF HeardOf
  <2>4. ASSUME NEW n \in Nodes, heard[w][n] = "leave" PROVE routePc[w] = "direct"
    <3>1. n = attempt[w]
      BY <2>1, <2>2, <2>4, MaxPoolAssumption DEF HeardOf, Nodes
    <3> QED
      BY <2>1, <2>4, <3>1 DEF HeardOf
  <2> QED
    BY <2>3, <2>4
<1> QED
  BY Invariant, <1>1, PTL

\* With the king state left alone, a refused request has been failed by every
\* node of the pool: the loop skips none and stops at none.
THEOREM RefusedByAllAlways == RoutingSpec => []RefusedByAll
<1>1. RoutingInv => RefusedByAll
  <2> SUFFICES ASSUME RoutingInv, NEW w \in RouteWorkers, w \in steady, routePc[w] = "refused",
                      NEW n \in Nodes, n < pool[kind[w]]
               PROVE  heard[w][n] \in {"failed", "reject"}
    BY DEF RefusedByAll
  <2>1. IndexOf(w) /\ SteadyOf(w)
    BY DEF RoutingInv, LoopInv
  <2>2. n < attempt[w]
    BY <2>1 DEF IndexOf, SteadyOf
  <2> QED
    BY <2>1, <2>2 DEF SteadyOf
<1> QED
  BY Invariant, <1>1, PTL

\* At most one node, the last one tried, decides a request.
THEOREM OneAnswerAlways == RoutingSpec => []OneAnswer
<1>1. RoutingInv => OneAnswer
  <2> SUFFICES ASSUME RoutingInv, NEW w \in RouteWorkers, NEW n \in Nodes,
                      heard[w][n] \in {"ok", "leave"}
               PROVE  n = attempt[w] /\ \A k \in Nodes : k > n => heard[w][k] = "none"
    BY DEF OneAnswer
  <2>1. HeardOf(w) /\ attempt[w] \in Nat
    BY MaxPoolAssumption DEF RoutingInv, LoopInv, LocalTypes
  <2>2. n = attempt[w]
    BY <2>1, MaxPoolAssumption DEF HeardOf, Nodes
  <2> QED
    BY <2>1, <2>2 DEF HeardOf
<1> QED
  BY Invariant, <1>1, PTL
=============================================================================
