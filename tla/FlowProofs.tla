----------------------------- MODULE FlowProofs -----------------------------
(***************************************************************************)
(* The bytes of a tunnel, for any lengths and any room in the kernel; what *)
(* a request of the plain HTTP client holds, for any number of attempts,   *)
(* redirects and addresses; and the types of what MCFlows checks side by   *)
(* side.                                                                   *)
(***************************************************************************)
EXTENDS MCFlows, RoutingProofs, AsyncRelayProofs, SequenceTheorems, TLAPS

-----------------------------------------------------------------------------
(* Runs of units                                                           *)

\* s is the run m, m + 1, ..., n - 1 of units.
IsRun(s, m, n) ==
  /\ m \in Nat /\ n \in Nat /\ m <= n
  /\ s \in Seq(Nat) /\ Len(s) = n - m /\ \A i \in 1 .. Len(s) : s[i] = m + i - 1

\* A recv gives a run.
LEMMA RunOfUnits ==
  ASSUME NEW m \in Nat, NEW k \in Nat, m <= k + 1
  PROVE  IsRun(Units(m, k), m, k + 1)
<1> DEFINE n == k + 1 - m
<1>1. n \in Nat
  OBVIOUS
<1>2. Units(m, k) = [i \in 1 .. n |-> m + i - 1]
  BY DEF Units
<1>3. Units(m, k) \in Seq(Nat)
  BY <1>1, <1>2
<1>4. Len(Units(m, k)) = n
  BY <1>1, <1>2
<1> QED
  BY <1>1, <1>2, <1>3, <1>4 DEF IsRun

\* It is a sequence of units.
LEMMA UnitsSeq ==
  ASSUME NEW m \in Nat, NEW k \in Nat, m <= k + 1
  PROVE  Units(m, k) \in Seq(Nat)
BY RunOfUnits DEF IsRun

\* A run is empty when it ends where it begins, and only then.
LEMMA RunEmpty ==
  /\ \A m \in Nat : IsRun(<<>>, m, m)
  /\ \A s, m, n : IsRun(s, m, n) => (s = <<>> <=> m = n)
<1>1. ASSUME NEW m \in Nat PROVE IsRun(<<>>, m, m)
  BY DEF IsRun
<1>2. ASSUME NEW s, NEW m, NEW n, IsRun(s, m, n) PROVE s = <<>> <=> m = n
  BY <1>2, EmptySeq DEF IsRun
<1> QED
  BY <1>1, <1>2

\* The 200 is the run of unit 0.
LEMMA RunStart == IsRun(<<0>>, 0, 1)
BY DEF IsRun

\* The first unit of a run is taken from its front ...
LEMMA RunHead ==
  ASSUME NEW s, NEW m, NEW n, IsRun(s, m, n), s # <<>>
  PROVE  m < n /\ Head(s) = m /\ IsRun(Tail(s), m + 1, n)
<1>1. m \in Nat /\ n \in Nat /\ m < n
  BY EmptySeq DEF IsRun
<1>2. Head(s) = s[1] /\ s[1] = m
  BY <1>1, HeadTailProperties DEF IsRun
<1>3. /\ Tail(s) \in Seq(Nat) /\ Len(Tail(s)) = Len(s)-1
      /\ \A i \in 1 .. Len(Tail(s)) : Tail(s)[i] = s[i+1]
  BY HeadTailProperties DEF IsRun
<1> QED
  BY <1>1, <1>2, <1>3 DEF IsRun

\* ... and put at the end of the run that went before.
LEMMA RunAppend ==
  ASSUME NEW s, NEW m, NEW n, IsRun(s, m, n)
  PROVE  IsRun(Append(s, n), m, n + 1)
<1>1. /\ Append(s, n) \in Seq(Nat) /\ Len(Append(s, n)) = Len(s) + 1
      /\ \A i \in 1 .. Len(s) : Append(s, n)[i] = s[i]
      /\ Append(s, n)[Len(s) + 1] = n
  BY AppendProperties DEF IsRun
<1> QED
  BY <1>1 DEF IsRun

\* A run and the one that goes on from it are one run.
LEMMA RunConcat ==
  ASSUME NEW s, NEW t, NEW m, NEW n, NEW k, IsRun(s, m, n), IsRun(t, n, k)
  PROVE  IsRun(s \o t, m, k)
<1>1. /\ s \o t \in Seq(Nat) /\ Len(s \o t) = Len(s) + Len(t)
      /\ \A i \in 1 .. Len(s) + Len(t) : (s \o t)[i] = IF i <= Len(s) THEN s[i] ELSE t[i - Len(s)]
  BY ConcatProperties DEF IsRun
<1> QED
  BY <1>1 DEF IsRun

\* Of two runs from the same unit the shorter is a prefix of the longer.
LEMMA RunPrefix ==
  ASSUME NEW s, NEW t, NEW m, NEW n, NEW k, IsRun(s, m, n), IsRun(t, m, k), n <= k
  PROVE  IsPrefix(s, t)
<1>1. Len(s) \in Nat /\ Len(s) <= Len(t)
  BY DEF IsRun
<1>2. ASSUME NEW i \in 1 .. Len(s) PROVE s[i] \in Nat /\ t[i] = s[i]
  <2>1. i \in 1 .. Len(t) /\ i \in Nat /\ i >= 1 /\ m \in Nat
    BY <1>1, <1>2 DEF IsRun
  <2>2. s[i] = m + i - 1 /\ t[i] = m + i - 1
    BY <1>2, <2>1 DEF IsRun
  <2> QED
    BY <2>1, <2>2
<1>3. /\ SubSeq(s, 1, Len(s)) \in Seq(Nat) /\ SubSeq(t, 1, Len(s)) \in Seq(Nat)
      /\ Len(SubSeq(s, 1, Len(s))) = Len(s) /\ Len(SubSeq(t, 1, Len(s))) = Len(s)
      /\ \A i \in 1 .. Len(s) : SubSeq(s, 1, Len(s))[i] = s[i] /\ SubSeq(t, 1, Len(s))[i] = t[i]
  BY <1>1, <1>2, SubSeqProperties
<1>4. SubSeq(s, 1, Len(s)) = SubSeq(t, 1, Len(s))
  BY <1>2, <1>3, SeqEqual
<1> QED
  BY <1>1, <1>4 DEF IsPrefix

-----------------------------------------------------------------------------
(* The tunnel                                                              *)

\* The types, in groups of variables that change together.
Counters ==
  /\ written \in [Ends -> Nat] /\ taken \in [Ends -> Nat]
  /\ \A e \in Ends :
       taken[e] <= written[e] /\ written[e] <= Limit(e) /\ written[e] - taken[e] <= Inbound
Queues ==
  /\ kernel \in [Ends -> Seq(Nat)] /\ got \in [Ends -> Seq(Nat)]
  /\ \A e \in Ends : Len(kernel[e]) <= Outbound
Flags ==
  /\ finished \subseteq Ends /\ gone \subseteq Ends /\ closing \subseteq Ends
  /\ relaying \subseteq Ends
  /\ swept \in BOOLEAN /\ stage \in Stages /\ towards \in Ends
Buffers == reader \in Seq(Nat) /\ chunk \in Seq(Nat) /\ extra \in Seq(Nat)
BodyLeft == stale \in StaleLengths /\ need \in 0 .. stale

TunnelBase == Counters /\ Queues /\ Flags /\ Buffers /\ BodyLeft

\* What each stage of kp_handle_client knows.
ByStage ==
  /\ stage \in {"head", "body", "dial", "done"} => chunk = <<>>
  /\ stage \in {"greet", "extra"} => towards = "client"
  /\ stage = "early" => towards = "server"
  /\ stage = "head" => need = 0
  /\ stage \in {"head", "body", "dial"} => taken["server"] = 0

\* The first unit for the node, and the next one of either end.
First == HeadLen + 1 + (stale - need)
NextOf(e) == taken[e] + 1

\* The server has read the run from First to i and has that from i to j in its
\* kernel; the worker holds, in its reader or its chunk, all that it has taken
\* behind that, up to the end of a send that failed.
ServerHas(i, j) ==
  /\ IsRun(got["server"], First, i) /\ IsRun(kernel["server"], i, j)
  /\ stage \in {"head", "body", "dial", "greet", "extra"} => j = First
  /\ stage \in {"body", "dial", "greet", "extra"} => IsRun(reader, First, NextOf("client"))
  /\ stage \in {"early", "pump"} =>
       IF towards = "server" THEN IsRun(chunk, j, NextOf("client")) ELSE j = NextOf("client")
  /\ j <= NextOf("client") \/ j = First

\* The same for the client, from the 200 on.  The bytes that came with the 200 of
\* the node may fail to be sent, but then the client gets nothing more.
ClientHas(i, j) ==
  /\ IsRun(got["client"], 0, i) /\ IsRun(kernel["client"], i, j) /\ j <= NextOf("server")
  /\ stage \in {"head", "body", "dial"} => j = 0
  /\ stage = "greet" => IsRun(chunk, j, 1) /\ IsRun(extra, 1, NextOf("server"))
  /\ stage \in {"extra", "early", "pump"} =>
       \/ Refuses("client")
       \/ IF towards = "client" THEN IsRun(chunk, j, NextOf("server")) ELSE j = NextOf("server")

\* An end is told only in the pump, when the other one is no longer read, and
\* then nothing is left of what that one has written.
FinLast ==
  /\ closing # {} => stage \in {"pump", "done"}
  /\ stage = "pump" => \A e \in closing :
       /\ Peer(e) \notin relaying
       /\ \/ swept \/ Peer(e) \in gone
          \/ /\ Pending(Peer(e)) = 0 /\ Peer(e) \in finished
             /\ ~(chunk # <<>> /\ towards = e)

\* The inductive invariant.
TunnelInv ==
  /\ TunnelBase /\ ByStage /\ FinLast
  /\ \E i, j \in Nat : ServerHas(i, j)
  /\ \E i, j \in Nat : ClientHas(i, j)

\* The bundles of variables that actions leave alone, spelled out.
USE DEF endVars, headVars, sendVars, outVars

\* There are two ends.
LEMMA Peers == Peer("client") = "server" /\ Peer("server") = "client"
BY DEF Peer, Ends

\* The assumption on the constants, and the range of the two operators on ends.
LEMMA TunnelNumbers ==
  /\ HeadLen \in Nat /\ ClientLen \in Nat /\ ServerLen \in Nat /\ Inbound \in Nat /\ Outbound \in Nat
  /\ HeadLen >= 2 /\ HeadLen <= ClientLen /\ StaleLengths \subseteq Nat
  /\ \A e \in Ends : Limit(e) \in Nat /\ Peer(e) \in Ends
  /\ Ends = {"client", "server"}
BY TunnelAssumption, Peers DEF Limit, Ends

\* A recv takes a run of what is there.
LEMMA RecvTakes ==
  ASSUME Counters, NEW e \in Ends, NEW n \in 1 .. Pending(e), Recv(e, n)
  PROVE  /\ taken' = [taken EXCEPT ![e] = @ + n] /\ n \in Nat \ {0}
         /\ taken[e] + n <= written[e]
         /\ IsRun(Units(taken[e] + 1, taken[e] + n), taken[e] + 1, taken[e] + n + 1)
         /\ written' = written => Counters'
<1>1. n \in Nat \ {0} /\ taken[e] + n <= written[e] /\ taken[e] \in Nat
  BY DEF Counters, Pending
<1>2. taken' = [taken EXCEPT ![e] = @ + n]
  BY <1>1 DEF Recv, Counters
<1>3. IsRun(Units(taken[e] + 1, taken[e] + n), taken[e] + 1, taken[e] + n + 1)
  <2> DEFINE m == taken[e] + 1
             k == taken[e] + n
  <2>1. m \in Nat /\ k \in Nat /\ m <= k + 1
    BY <1>1
  <2> HIDE DEF m, k
  <2>2. IsRun(Units(m, k), m, k + 1)
    BY <2>1, RunOfUnits
  <2> QED
    BY <2>2 DEF m, k
<1>4. ASSUME written' = written PROVE Counters'
  BY <1>1, <1>2, <1>4, TunnelNumbers DEF Counters
<1> QED
  BY <1>1, <1>2, <1>3, <1>4

\* Nothing is taken that was not written, nothing written past the kernel's room.
LEMMA CountersStep == ASSUME TunnelBase, TunnelNext PROVE Counters'
<1> Counters
  BY DEF TunnelBase
<1>1. ASSUME written' = written, taken' = taken PROVE Counters'
  BY <1>1 DEF Counters
<1>2. ASSUME NEW e \in Ends, TunnelEnd(e) PROVE Counters'
  <2>1. CASE EndWrites(e)
    BY <2>1, TunnelNumbers DEF EndWrites, Counters, Pending
  <2> QED
    BY <1>1, <1>2, <2>1 DEF TunnelEnd, EndFinishes, EndCloses, EndReads
<1>3. CASE HeadStep
  BY <1>1, <1>3, RecvTakes, TunnelNumbers
    DEF HeadStep, ReadHead, ReadHeadFails, CopyBody, BodyDone
<1>4. CASE DialStep
  BY <1>1, <1>4, RecvTakes, TunnelNumbers DEF DialStep, DialSucceeds, DialFails
<1>5. CASE SendStep
  BY <1>1, <1>5 DEF SendStep, SendUnit, SendFails, Greeted, SendEarly
<1>6. CASE PumpStep
  BY <1>1, <1>6, RecvTakes DEF PumpStep, StartPump, PumpReads, PumpEof, PumpEnds
<1>7. CASE Sweep
  BY <1>1, <1>7 DEF Sweep
<1> QED
  BY <1>2, <1>3, <1>4, <1>5, <1>6, <1>7 DEF TunnelNext, TunnelWorker

\* What the queues of an end hold after the end or the worker has used them.
LEMMA QueuesStep == ASSUME TunnelBase, TunnelNext PROVE Queues'
<1> Queues /\ Buffers /\ Flags
  BY DEF TunnelBase
<1>1. ASSUME kernel' = kernel, got' = got PROVE Queues'
  BY <1>1 DEF Queues
<1>2. ASSUME NEW e \in Ends, EndReads(e) PROVE Queues'
  <2> DEFINE k == kernel[e]
  <2>1. k \in Seq(Nat) /\ k # <<>> /\ Len(k) <= Outbound
    BY <1>2 DEF EndReads, Queues
  <2>2. Head(k) \in Nat /\ Tail(k) \in Seq(Nat) /\ Len(Tail(k)) <= Outbound
    BY <2>1, HeadTailProperties, LenProperties, TunnelNumbers
  <2>3. Append(got[e], Head(k)) \in Seq(Nat)
    BY <2>2, AppendProperties DEF Queues
  <2> QED
    BY <1>2, <2>2, <2>3 DEF EndReads, Queues
<1>3. CASE SendUnit
  <2> DEFINE k == kernel[towards]
  <2>1. towards \in Ends /\ k \in Seq(Nat) /\ Len(k) < Outbound /\ chunk \in Seq(Nat) /\ chunk # <<>>
    BY <1>3 DEF SendUnit, Queues, Flags, Buffers
  <2>2. Head(chunk) \in Nat
    BY <2>1, HeadTailProperties
  <2>3. Append(k, Head(chunk)) \in Seq(Nat) /\ Len(Append(k, Head(chunk))) = Len(k) + 1
    BY <2>1, <2>2, AppendProperties
  <2>4. Len(Append(k, Head(chunk))) <= Outbound
    BY <2>1, <2>3, LenProperties, TunnelNumbers
  <2>5. kernel' = [kernel EXCEPT ![towards] = Append(k, Head(chunk))] /\ got' = got
    BY <1>3 DEF SendUnit
  <2> HIDE DEF k
  <2> QED
    BY <2>1, <2>3, <2>4, <2>5 DEF Queues
<1>4. ASSUME NEW e \in Ends, TunnelEnd(e), ~EndReads(e) PROVE Queues'
  BY <1>1, <1>4 DEF TunnelEnd, EndWrites, EndFinishes, EndCloses
<1>5. CASE HeadStep \/ DialStep \/ Sweep
  BY <1>1, <1>5
    DEF HeadStep, ReadHead, ReadHeadFails, CopyBody, BodyDone, DialStep, DialSucceeds, DialFails, Sweep
<1>6. CASE SendFails \/ Greeted \/ SendEarly \/ PumpStep
  BY <1>1, <1>6 DEF SendFails, Greeted, SendEarly, PumpStep, StartPump, PumpReads, PumpEof, PumpEnds
<1> QED
  BY <1>2, <1>3, <1>4, <1>5, <1>6 DEF TunnelNext, TunnelWorker, SendStep

\* Stages, ends and flags keep their types.
LEMMA FlagsStep == ASSUME TunnelBase, TunnelNext PROVE Flags'
<1> USE TunnelNumbers DEF Flags, TunnelBase, Stages
<1>1. ASSUME NEW e \in Ends, TunnelEnd(e) PROVE Flags'
  BY <1>1 DEF TunnelEnd, EndWrites, EndFinishes, EndCloses, EndReads
<1>2. CASE HeadStep
  BY <1>2 DEF HeadStep, ReadHead, ReadHeadFails, CopyBody, BodyDone, Ended
<1>3. CASE DialStep \/ Sweep
  BY <1>3 DEF DialStep, DialSucceeds, DialFails, Sweep, Ended
<1>4. CASE SendStep
  BY <1>4 DEF SendStep, SendUnit, SendFails, Greeted, SendEarly
<1>5. CASE PumpStep
  BY <1>5 DEF PumpStep, StartPump, PumpReads, PumpEof, PumpEnds, Ended
<1> QED
  BY <1>1, <1>2, <1>3, <1>4, <1>5 DEF TunnelNext, TunnelWorker

\* The buffers of the worker hold units.
LEMMA BuffersStep == ASSUME TunnelBase, TunnelNext PROVE Buffers'
<1> Buffers /\ Counters
  BY DEF TunnelBase
<1>1. <<>> \in Seq(Nat) /\ <<0>> \in Seq(Nat)
  BY RunStart, EmptySeq DEF IsRun
<1>2. \A s \in Seq(Nat) : s # <<>> => Tail(s) \in Seq(Nat)
  BY HeadTailProperties
<1>3. \A e \in Ends : \A n \in 1 .. Pending(e) : Recv(e, n) =>
        Units(taken[e] + 1, taken[e] + n) \in Seq(Nat) /\ Units(1, n) \in Seq(Nat)
  <2> SUFFICES ASSUME NEW e \in Ends, NEW n \in 1 .. Pending(e), Recv(e, n)
               PROVE  Units(taken[e] + 1, taken[e] + n) \in Seq(Nat) /\ Units(1, n) \in Seq(Nat)
    OBVIOUS
  <2>1. n \in Nat \ {0}
    BY RecvTakes
  <2>2. Units(1, n) \in Seq(Nat)
    BY <2>1, UnitsSeq
  <2> QED
    BY <2>2, RecvTakes DEF IsRun
<1>4. ASSUME NEW e \in Ends, TunnelEnd(e) PROVE Buffers'
  BY <1>4 DEF Buffers, TunnelEnd, EndWrites, EndFinishes, EndCloses, EndReads
<1>5. CASE ReadHead
  <2>1. ASSUME NEW n \in 1 .. Pending("client"), Recv("client", n), taken["client"] + n >= HeadLen
        PROVE  Units(HeadLen + 1, taken["client"] + n) \in Seq(Nat)
    <3> DEFINE k == taken["client"] + n
    <3>1. k \in Nat /\ HeadLen + 1 \in Nat /\ HeadLen + 1 <= k + 1
      BY <2>1, RecvTakes, TunnelNumbers DEF Counters
    <3> HIDE DEF k
    <3>2. Units(HeadLen + 1, k) \in Seq(Nat)
      BY <3>1, UnitsSeq
    <3> QED
      BY <3>2 DEF k
  <2> QED
    BY <1>5, <2>1 DEF ReadHead, Buffers
<1>6. CASE ReadHeadFails \/ CopyBody \/ BodyDone
  BY <1>1, <1>2, <1>3, <1>6, TunnelNumbers DEF Buffers, ReadHeadFails, CopyBody, BodyDone, Ended
<1>7. CASE DialStep \/ Sweep
  BY <1>1, <1>3, <1>7, TunnelNumbers DEF Buffers, DialStep, DialSucceeds, DialFails, Sweep, Ended
<1>8. CASE SendStep
  BY <1>1, <1>2, <1>8 DEF Buffers, SendStep, SendUnit, SendFails, Greeted, SendEarly
<1>9. CASE PumpStep
  BY <1>1, <1>3, <1>9 DEF Buffers, PumpStep, StartPump, PumpReads, PumpEof, PumpEnds, Ended
<1> QED
  BY <1>4, <1>5, <1>6, <1>7, <1>8, <1>9 DEF TunnelNext, TunnelWorker, HeadStep

\* No more of a body is copied than the length that was found.
LEMMA BodyStep == ASSUME TunnelBase, TunnelNext PROVE BodyLeft'
<1> USE TunnelNumbers DEF BodyLeft, TunnelBase
<1>1. ASSUME NEW e \in Ends, TunnelEnd(e) PROVE BodyLeft'
  BY <1>1 DEF TunnelEnd, EndWrites, EndFinishes, EndCloses, EndReads
<1>2. CASE HeadStep
  BY <1>2 DEF HeadStep, ReadHead, ReadHeadFails, CopyBody, BodyDone
<1>3. CASE DialStep \/ Sweep \/ SendStep
  BY <1>3 DEF DialStep, DialSucceeds, DialFails, Sweep, SendStep, SendUnit, SendFails, Greeted, SendEarly
<1>4. CASE PumpStep
  BY <1>4 DEF PumpStep, StartPump, PumpReads, PumpEof, PumpEnds
<1> QED
  BY <1>1, <1>2, <1>3, <1>4 DEF TunnelNext, TunnelWorker

\* Every stage hands over to the next what that relies on.
LEMMA ByStageStep == ASSUME TunnelBase, ByStage, TunnelNext PROVE ByStage'
<1> USE TunnelNumbers DEF ByStage
<1>1. ASSUME NEW e \in Ends, TunnelEnd(e) PROVE ByStage'
  BY <1>1 DEF TunnelEnd, EndWrites, EndFinishes, EndCloses, EndReads
<1>2. CASE ReadHead \/ CopyBody
  <2>1. taken'["server"] = taken["server"]
    BY <1>2 DEF ReadHead, CopyBody, Recv, TunnelBase, Counters
  <2> QED
    BY <1>2, <2>1 DEF ReadHead, CopyBody
<1>3. CASE ReadHeadFails \/ BodyDone \/ DialStep \/ Sweep
  BY <1>3 DEF ReadHeadFails, BodyDone, Ended, DialStep, DialSucceeds, DialFails, Sweep
<1>4. CASE SendStep
  BY <1>4 DEF SendStep, SendUnit, SendFails, Greeted, SendEarly
<1>5. CASE PumpStep
  BY <1>5 DEF PumpStep, StartPump, PumpReads, PumpEof, PumpEnds, Pumping, Ended
<1> QED
  BY <1>1, <1>2, <1>3, <1>4, <1>5 DEF TunnelNext, TunnelWorker, HeadStep

\* The end of one direction is told once, and the last of it has gone before.
LEMMA FinStep == ASSUME TunnelBase, ByStage, FinLast, TunnelNext PROVE FinLast'
<1> USE TunnelNumbers, Peers DEF FinLast
<1>1. ASSUME NEW e \in Ends, TunnelEnd(e) PROVE FinLast'
  <2>1. /\ UNCHANGED <<taken, swept, stage, closing, relaying, chunk, towards>>
        /\ finished \subseteq finished' /\ gone \subseteq gone'
        /\ \A d \in finished : written'[d] = written[d]
    BY <1>1 DEF TunnelEnd, EndWrites, EndFinishes, EndCloses, EndReads, TunnelBase, Counters, Flags
  <2> QED
    BY <2>1 DEF Pending
<1>2. CASE HeadStep
  BY <1>2 DEF HeadStep, ReadHead, ReadHeadFails, CopyBody, BodyDone, Ended
<1>3. CASE DialStep
  BY <1>3 DEF DialStep, DialSucceeds, DialFails, Ended
<1>4. CASE Sweep
  BY <1>4 DEF Sweep
<1>5. CASE SendUnit
  BY <1>5 DEF SendUnit, Pending
<1>6. CASE SendFails \/ Greeted \/ SendEarly
  BY <1>6 DEF SendFails, Greeted, SendEarly, Pending
<1>7. CASE StartPump \/ PumpEnds
  BY <1>7 DEF StartPump, PumpEnds, Pumping, Ended
<1>8. ASSUME NEW e \in Ends, PumpReads(e) PROVE FinLast'
  <2>1. PICK n \in 1 .. Pending(e) : Recv(e, n)
    BY <1>8 DEF PumpReads
  <2>2. taken'[Peer(e)] = taken[Peer(e)]
    BY <2>1 DEF Recv, TunnelBase, Counters
  <2>3. /\ stage = "pump" /\ e \in relaying /\ towards' = Peer(e)
        /\ UNCHANGED <<written, finished, gone, swept, stage, relaying, closing>>
    BY <1>8 DEF PumpReads, Pumping
  <2>4. \A d \in closing : d # Peer(e) /\ Peer(d) = Peer(e)
    BY <2>3 DEF TunnelBase, Flags
  <2>5. \A d \in closing : Pending(Peer(d))' = Pending(Peer(d))
    BY <2>2, <2>3, <2>4 DEF Pending
  <2> QED
    BY <2>3, <2>4, <2>5
<1>9. ASSUME NEW e \in Ends, PumpEof(e) PROVE FinLast'
  BY <1>9 DEF PumpEof, Pumping, Eof, Pending
<1> QED
  BY <1>1, <1>2, <1>3, <1>4, <1>5, <1>6, <1>7, <1>8, <1>9
  DEF TunnelNext, TunnelWorker, SendStep, PumpStep

\* Before a byte has gone out, nothing is in the kernel and nothing read.
LEMMA ServerUntouched ==
  ASSUME NEW i, NEW j, ServerHas(i, j), j = First
  PROVE  got["server"] = <<>> /\ kernel["server"] = <<>>
<1>1. i = j
  BY DEF ServerHas, IsRun
<1> QED
  BY <1>1, RunEmpty DEF ServerHas

\* Whatever is read, copied, sent or lost with a connection, what is behind the
\* server and what the worker holds for it remain one run.
LEMMA ServerStep ==
  ASSUME TunnelBase, ByStage, NEW i \in Nat, NEW j \in Nat, ServerHas(i, j), TunnelNext
  PROVE  \E k, l \in Nat : ServerHas(k, l)'
<1> Counters /\ Queues /\ Flags /\ BodyLeft
  BY DEF TunnelBase
<1>0. First \in Nat /\ NextOf("client") \in Nat /\ NextOf("client") >= 1
  BY TunnelNumbers DEF First, NextOf, Counters, BodyLeft
<1>1. ASSUME NEW e \in Ends, TunnelEnd(e), ~EndReads("server") PROVE ServerHas(i, j)'
  <2>1. UNCHANGED <<stage, taken, need, stale, reader, chunk, towards>>
    BY <1>1 DEF TunnelEnd, EndWrites, EndFinishes, EndCloses, EndReads
  <2>2. got'["server"] = got["server"] /\ kernel'["server"] = kernel["server"]
    BY <1>1, TunnelNumbers DEF TunnelEnd, EndWrites, EndFinishes, EndCloses, EndReads, Queues
  <2> QED
    BY <2>1, <2>2 DEF ServerHas, First, NextOf
<1>2. ASSUME EndReads("server") PROVE ServerHas(i + 1, j)'
  <2>1. UNCHANGED <<stage, taken, need, stale, reader, chunk, towards>>
    BY <1>2 DEF EndReads
  <2>2. /\ got'["server"] = Append(got["server"], Head(kernel["server"]))
        /\ kernel'["server"] = Tail(kernel["server"]) /\ kernel["server"] # <<>>
    BY <1>2, TunnelNumbers DEF EndReads, Queues
  <2>3. Head(kernel["server"]) = i /\ IsRun(kernel'["server"], i + 1, j)
    BY <2>2, RunHead DEF ServerHas
  <2>4. IsRun(got'["server"], First, i + 1)
    BY <2>2, <2>3, RunAppend DEF ServerHas
  <2> QED
    BY <2>1, <2>3, <2>4 DEF ServerHas, First, NextOf
<1>3. ASSUME ReadHead PROVE \E k \in Nat : ServerHas(k, k)'
  <2>1. PICK n \in 1 .. Pending("client") : ReadHead!2!(n)
    BY <1>3 DEF ReadHead
  <2>2. /\ n \in Nat \ {0} /\ NextOf("client")' = NextOf("client") + n
        /\ UNCHANGED <<got, kernel, stale>>
    BY <1>3, <2>1, RecvTakes, TunnelNumbers DEF NextOf, Counters, ReadHead
  <2>3. j = First /\ stage = "head" /\ need = 0
    BY <1>3 DEF ReadHead, ServerHas, ByStage
  <2>4. got["server"] = <<>> /\ kernel["server"] = <<>>
    BY <2>3, ServerUntouched
  <2>5. IsRun(got["server"], First', First') /\ IsRun(kernel["server"], First', First')
        /\ First' \in Nat
    <3>1. First' \in Nat
      <4>1. BodyLeft'
        BY BodyStep
      <4>2. stale' \in Nat /\ need' \in Nat /\ need' <= stale'
        BY <4>1, TunnelNumbers DEF BodyLeft
      <4>3. \A s, m \in Nat : m <= s => HeadLen + 1 + (s - m) \in Nat
        BY TunnelNumbers
      <4> QED
        BY <4>2, <4>3 DEF First
    <3> QED
      BY <3>1, <2>4, RunEmpty
  <2>6. CASE taken["client"] < HeadLen - 1 /\ taken["client"] + n >= HeadLen
    <3> DEFINE k == taken["client"] + n
    <3>1. k \in Nat /\ HeadLen + 1 \in Nat /\ HeadLen + 1 <= k + 1
      BY <2>2, <2>6, TunnelNumbers DEF Counters
    <3>2. NextOf("client")' = k + 1
      BY <2>2, TunnelNumbers DEF NextOf, Counters
    <3>3. reader' = Units(HeadLen + 1, k) /\ stage' = "body" /\ need' = stale
      BY <2>1, <2>6
    <3> HIDE DEF k
    <3>4. IsRun(reader', HeadLen + 1, k + 1)
      BY <3>1, <3>3, RunOfUnits
    <3>5. First' = HeadLen + 1
      BY <2>2, <3>3, TunnelNumbers DEF First, BodyLeft
    <3> QED
      BY <2>2, <2>5, <3>2, <3>3, <3>4, <3>5 DEF ServerHas
  <2>7. CASE ~(taken["client"] < HeadLen - 1 /\ taken["client"] + n >= HeadLen)
    BY <2>1, <2>2, <2>3, <2>5, <2>7 DEF ServerHas
  <2> QED
    BY <2>6, <2>7
<1>4. ASSUME CopyBody PROVE \E k \in Nat : ServerHas(k, k)'
  <2>1. j = First /\ stage = "body" /\ stage' = stage /\ need > 0 /\ UNCHANGED <<got, kernel, stale>>
    BY <1>4 DEF CopyBody, ServerHas
  <2>2. got["server"] = <<>> /\ kernel["server"] = <<>>
    BY <2>1, ServerUntouched
  <2>3. IsRun(got["server"], First', First') /\ IsRun(kernel["server"], First', First')
        /\ First' \in Nat
    <3>1. First' \in Nat
      <4>1. BodyLeft'
        BY BodyStep
      <4>2. stale' \in Nat /\ need' \in Nat /\ need' <= stale'
        BY <4>1, TunnelNumbers DEF BodyLeft
      <4>3. \A s, m \in Nat : m <= s => HeadLen + 1 + (s - m) \in Nat
        BY TunnelNumbers
      <4> QED
        BY <4>2, <4>3 DEF First
    <3> QED
      BY <3>1, <2>2, RunEmpty
  <2>4. IsRun(reader, First, NextOf("client"))
    BY <2>1 DEF ServerHas
  <2>5. CASE reader # <<>>
    <3>1. reader' = Tail(reader) /\ need' = need - 1 /\ taken' = taken
      BY <1>4, <2>5 DEF CopyBody
    <3>2. First' = First + 1 /\ NextOf("client")' = NextOf("client")
      BY <2>1, <3>1, TunnelNumbers DEF First, NextOf, BodyLeft
    <3>3. IsRun(reader', First + 1, NextOf("client"))
      BY <2>4, <2>5, <3>1, RunHead
    <3> QED
      BY <2>1, <2>3, <3>2, <3>3 DEF ServerHas
  <2>6. CASE reader = <<>>
    <3>1. PICK n \in 1 .. Pending("client") :
            Recv("client", n) /\ reader' = Units(taken["client"] + 1, taken["client"] + n)
      BY <1>4, <2>6 DEF CopyBody
    <3>2. need' = need /\ First' = First /\ First = NextOf("client")
      BY <1>4, <2>1, <2>4, <2>6, RunEmpty DEF CopyBody, First
    <3>3. /\ NextOf("client")' = taken["client"] + n + 1
          /\ IsRun(reader', taken["client"] + 1, taken["client"] + n + 1)
      BY <3>1, RecvTakes, TunnelNumbers DEF NextOf, Counters
    <3>4. IsRun(reader', First', NextOf("client")')
      BY <3>2, <3>3 DEF NextOf
    <3> QED
      BY <2>1, <2>3, <3>4 DEF ServerHas
  <2> QED
    BY <2>5, <2>6
<1>5. CASE ReadHeadFails \/ BodyDone \/ DialFails \/ Sweep
  <2> ServerHas(i, j)'
    BY <1>5 DEF ServerHas, First, NextOf, ReadHeadFails, BodyDone, DialFails, Sweep, Ended
  <2> QED
    OBVIOUS
<1>6. CASE DialSucceeds
  <2>1. taken'["client"] = taken["client"]
    BY <1>6, TunnelNumbers DEF DialSucceeds, Recv, Counters
  <2>2. ServerHas(i, j)'
    BY <1>6, <2>1 DEF ServerHas, First, NextOf, DialSucceeds
  <2> QED
    BY <2>2
<1>7. CASE SendUnit /\ towards = "server"
  <2>1. stage \in {"early", "pump"} /\ UNCHANGED <<stage, taken, need, stale, reader, got, towards>>
    BY <1>7 DEF SendUnit, ByStage, Flags, Stages
  <2>2. /\ IsRun(chunk, j, NextOf("client")) /\ chunk # <<>> /\ chunk' = Tail(chunk)
        /\ kernel'["server"] = Append(kernel["server"], Head(chunk))
    BY <1>7, <2>1, TunnelNumbers DEF ServerHas, SendUnit, Queues
  <2>3. j < NextOf("client") /\ Head(chunk) = j /\ IsRun(chunk', j + 1, NextOf("client"))
    BY <2>2, RunHead
  <2>4. IsRun(kernel'["server"], i, j + 1)
    BY <2>2, <2>3, RunAppend DEF ServerHas
  <2>5. j + 1 <= NextOf("client")
    BY <1>0, <2>3
  <2>6. ServerHas(i, j + 1)'
    BY <1>7, <2>1, <2>3, <2>4, <2>5 DEF ServerHas, First, NextOf
  <2> QED
    BY <2>6
<1>8. CASE SendUnit /\ towards = "client"
  <2>1. UNCHANGED <<stage, taken, need, stale, reader, got, towards>> /\ kernel'["server"] = kernel["server"]
    BY <1>8 DEF SendUnit, Queues
  <2>2. ServerHas(i, j)'
    BY <1>8, <2>1 DEF ServerHas, First, NextOf
  <2> QED
    BY <2>2
<1>9. CASE SendFails \/ Greeted
  <2>1. ServerHas(i, j)'
    BY <1>9 DEF ServerHas, First, NextOf, SendFails, Greeted
  <2> QED
    BY <2>1
<1>10. CASE SendEarly
  <2>1. ServerHas(i, j)'
    BY <1>10 DEF ServerHas, First, NextOf, SendEarly
  <2> QED
    BY <2>1
<1>11. CASE StartPump \/ PumpEnds
  <2>1. ServerHas(i, j)'
    BY <1>11 DEF ServerHas, First, NextOf, StartPump, PumpEnds, Ended
  <2> QED
    BY <2>1
<1>12. ASSUME NEW e \in Ends, PumpReads(e) PROVE ServerHas(i, j)'
  <2>1. PICK n \in 1 .. Pending(e) : Recv(e, n) /\ chunk' = Units(taken[e] + 1, taken[e] + n)
    BY <1>12 DEF PumpReads
  <2>2. /\ stage = "pump" /\ chunk = <<>> /\ towards' = Peer(e)
        /\ UNCHANGED <<stage, need, stale, reader, got, kernel>>
    BY <1>12 DEF PumpReads, Pumping
  <2>3. j = NextOf("client")
    BY <2>2, RunEmpty DEF ServerHas
  <2>4. CASE e = "client"
    <3>1. /\ NextOf("client")' = taken["client"] + n + 1
          /\ IsRun(chunk', taken["client"] + 1, taken["client"] + n + 1)
      BY <2>1, <2>4, RecvTakes DEF NextOf, Counters
    <3>2. IsRun(chunk', j, NextOf("client")')
      BY <2>3, <3>1 DEF NextOf
    <3>3. j <= NextOf("client")'
      BY <3>2 DEF IsRun
    <3> QED
      BY <2>2, <2>4, <3>2, <3>3, Peers DEF ServerHas, First
  <2>5. CASE e = "server"
    <3>1. taken'["client"] = taken["client"]
      BY <2>1, <2>5 DEF Recv, Counters
    <3> QED
      BY <2>2, <2>3, <2>5, <3>1, Peers DEF ServerHas, First, NextOf
  <2> QED
    BY <2>4, <2>5, TunnelNumbers
<1>13. ASSUME NEW e \in Ends, PumpEof(e) PROVE ServerHas(i, j)'
  BY <1>13 DEF ServerHas, First, NextOf, PumpEof
<1>14. ASSUME NEW e \in Ends, TunnelEnd(e) PROVE \E k, l \in Nat : ServerHas(k, l)'
  <2>1. CASE EndReads("server")
    <3> i + 1 \in Nat
      OBVIOUS
    <3> QED
      BY <1>2, <2>1
  <2> QED
    BY <1>1, <1>14, <2>1
<1> QED
  BY <1>3, <1>4, <1>5, <1>6, <1>7, <1>8, <1>9, <1>10, <1>11, <1>12, <1>13, <1>14, TunnelNumbers
  DEF TunnelNext, TunnelWorker, HeadStep, DialStep, SendStep, PumpStep, Flags

\* And for the client.
LEMMA ClientStep ==
  ASSUME TunnelBase, ByStage, NEW i \in Nat, NEW j \in Nat, ClientHas(i, j), TunnelNext
  PROVE  \E k, l \in Nat : ClientHas(k, l)'
<1> Counters /\ Queues /\ Flags
  BY DEF TunnelBase
<1>0. NextOf("server") \in Nat /\ NextOf("server") >= 1
  BY TunnelNumbers DEF NextOf, Counters
<1>1. ASSUME NEW e \in Ends, TunnelEnd(e), ~EndReads("client") PROVE ClientHas(i, j)'
  <2>1. UNCHANGED <<stage, taken, swept, extra, chunk, towards>> /\ gone \subseteq gone'
    BY <1>1 DEF TunnelEnd, EndWrites, EndFinishes, EndCloses, EndReads
  <2>2. got'["client"] = got["client"] /\ kernel'["client"] = kernel["client"]
    BY <1>1, TunnelNumbers DEF TunnelEnd, EndWrites, EndFinishes, EndCloses, EndReads, Queues
  <2> QED
    BY <2>1, <2>2 DEF ClientHas, NextOf, Refuses
<1>2. ASSUME EndReads("client") PROVE ClientHas(i + 1, j)'
  <2>1. UNCHANGED <<stage, taken, swept, gone, extra, chunk, towards>>
    BY <1>2 DEF EndReads
  <2>2. /\ got'["client"] = Append(got["client"], Head(kernel["client"]))
        /\ kernel'["client"] = Tail(kernel["client"]) /\ kernel["client"] # <<>>
    BY <1>2, TunnelNumbers DEF EndReads, Queues
  <2>3. Head(kernel["client"]) = i /\ IsRun(kernel'["client"], i + 1, j)
    <3>1. IsRun(kernel["client"], i, j)
      BY DEF ClientHas
    <3>2. kernel["client"] # <<>> /\ kernel'["client"] = Tail(kernel["client"])
      BY <2>2
    <3>3. Head(kernel["client"]) = i /\ IsRun(Tail(kernel["client"]), i + 1, j)
      BY <3>1, <3>2, RunHead
    <3> QED
      BY <3>2, <3>3
  <2>4. IsRun(got'["client"], 0, i + 1)
    BY <2>2, <2>3, RunAppend DEF ClientHas
  <2> QED
    BY <2>1, <2>3, <2>4 DEF ClientHas, NextOf, Refuses
<1>3. CASE HeadStep \/ DialFails \/ Sweep
  <2>1. taken'["server"] = taken["server"]
    BY <1>3, TunnelNumbers
    DEF HeadStep, ReadHead, ReadHeadFails, CopyBody, BodyDone, DialFails, Sweep, Recv, Counters
  <2>2. CASE Sweep
    <3>1. ClientHas(i, j)'
      BY <2>1, <2>2 DEF ClientHas, NextOf, Refuses, Sweep
    <3> QED
      BY <3>1
  <2>3. CASE HeadStep \/ DialFails
    <3>1. j = 0 /\ stage' \in {"head", "body", "dial", "done"} /\ UNCHANGED <<got, kernel>>
      BY <2>3 DEF ClientHas, HeadStep, ReadHead, ReadHeadFails, CopyBody, BodyDone, DialFails, Ended
    <3>2. ClientHas(i, j)'
      BY <2>1, <3>1 DEF ClientHas, NextOf
    <3> QED
      BY <3>2
  <2> QED
    BY <1>3, <2>2, <2>3
<1>4. CASE DialSucceeds
  <2>1. /\ j = 0 /\ stage' = "greet" /\ chunk' = <<0>> /\ taken["server"] = 0
        /\ UNCHANGED <<got, kernel>>
    BY <1>4 DEF DialSucceeds, ClientHas, ByStage
  <2>2. IsRun(extra', 1, NextOf("server")')
    <3>1. CASE extra' = <<>> /\ UNCHANGED taken
      <4>1. NextOf("server")' = 1
        BY <2>1, <3>1 DEF NextOf
      <4> QED
        BY <3>1, <4>1, RunEmpty
    <3>2. ASSUME NEW n \in 1 .. Pending("server"), Recv("server", n), extra' = Units(1, n)
          PROVE  IsRun(extra', 1, NextOf("server")')
      <4>1. n \in Nat \ {0} /\ NextOf("server")' = n + 1
        BY <2>1, <3>2, RecvTakes, TunnelNumbers DEF NextOf, Counters
      <4>2. IsRun(Units(1, n), 1, n + 1)
        BY <4>1, RunOfUnits
      <4> QED
        BY <3>2, <4>1, <4>2
    <3> QED
      BY <1>4, <3>1, <3>2 DEF DialSucceeds
  <2>3. j <= NextOf("server")'
    BY <2>1, <2>2 DEF IsRun
  <2>4. ClientHas(i, j)'
    BY <2>1, <2>2, <2>3, RunStart DEF ClientHas
  <2> QED
    BY <2>4
<1>5. CASE SendUnit /\ towards = "client"
  <2>1. /\ stage \in {"greet", "extra", "early", "pump"} /\ ~Refuses("client")
        /\ UNCHANGED <<stage, taken, got, towards, extra>>
    BY <1>5 DEF SendUnit, ByStage, Flags, Stages
  <2>2. /\ chunk # <<>> /\ chunk' = Tail(chunk)
        /\ kernel'["client"] = Append(kernel["client"], Head(chunk))
    BY <1>5, TunnelNumbers DEF SendUnit, Queues
  <2> DEFINE n == IF stage = "greet" THEN 1 ELSE NextOf("server")
  <2>3. IsRun(chunk, j, n)
    BY <1>5, <2>1 DEF ClientHas
  <2>4. j < n /\ Head(chunk) = j /\ IsRun(chunk', j + 1, n)
    BY <2>2, <2>3, RunHead
  <2>5. IsRun(kernel'["client"], i, j + 1)
    BY <2>2, <2>4, RunAppend DEF ClientHas
  <2>6. j + 1 <= NextOf("server")
    BY <1>0, <2>4
  <2>7. ClientHas(i, j + 1)'
    BY <1>5, <2>1, <2>4, <2>5, <2>6 DEF ClientHas, NextOf
  <2>8. j + 1 \in Nat
    OBVIOUS
  <2> QED
    BY <2>7, <2>8
<1>6. CASE SendUnit /\ towards = "server"
  <2>1. /\ stage \notin {"greet", "extra"} /\ kernel'["client"] = kernel["client"]
        /\ UNCHANGED <<stage, taken, got, towards, extra, swept, gone>>
    BY <1>6, TunnelNumbers DEF SendUnit, ByStage, Queues
  <2>2. ClientHas(i, j)'
    BY <1>6, <2>1 DEF ClientHas, NextOf, Refuses
  <2> QED
    BY <2>2
<1>7. CASE SendFails
  <2>1. UNCHANGED <<taken, got, kernel, towards, swept, gone>>
    BY <1>7 DEF SendFails
  <2>2. ClientHas(i, j)'
    BY <1>7, <2>1 DEF ClientHas, NextOf, SendFails, Refuses, ByStage
  <2> QED
    BY <2>2
<1>8. CASE Greeted
  <2>1. IsRun(chunk, j, 1) /\ IsRun(extra, 1, NextOf("server")) /\ chunk = <<>> /\ towards = "client"
    BY <1>8 DEF Greeted, ClientHas, ByStage
  <2>2. j = 1
    BY <2>1, RunEmpty
  <2>3. ClientHas(i, j)'
    BY <1>8, <2>1, <2>2 DEF Greeted, ClientHas, NextOf
  <2> QED
    BY <2>3
<1>9. CASE SendEarly \/ StartPump
  <2>1. /\ chunk = <<>> /\ UNCHANGED <<taken, got, kernel, swept, gone>>
        /\ stage \in {"extra", "early"} /\ stage' \in {"early", "pump"} /\ towards' = "server"
    BY <1>9 DEF SendEarly, StartPump, ByStage
  <2>2. Refuses("client") \/ j = NextOf("server")
    BY <2>1, RunEmpty DEF ClientHas
  <2>3. ClientHas(i, j)'
    BY <2>1, <2>2 DEF ClientHas, NextOf, Refuses
  <2> QED
    BY <2>3
<1>10. ASSUME NEW e \in Ends, PumpReads(e) PROVE ClientHas(i, j)'
  <2>1. PICK n \in 1 .. Pending(e) : Recv(e, n) /\ chunk' = Units(taken[e] + 1, taken[e] + n)
    BY <1>10 DEF PumpReads
  <2>2. /\ stage = "pump" /\ chunk = <<>> /\ towards' = Peer(e)
        /\ UNCHANGED <<stage, got, kernel, swept, gone>>
    BY <1>10 DEF PumpReads, Pumping
  <2>3. Refuses("client") \/ j = NextOf("server")
    BY <2>2, RunEmpty DEF ClientHas
  <2>4. CASE e = "server"
    <3>1. /\ NextOf("server")' = taken["server"] + n + 1 /\ n \in Nat
          /\ IsRun(chunk', taken["server"] + 1, taken["server"] + n + 1)
      BY <2>1, <2>4, RecvTakes DEF NextOf, Counters
    <3>2. IsRun(chunk', NextOf("server"), NextOf("server")')
      BY <3>1 DEF NextOf
    <3>3. j <= NextOf("server")'
      BY <1>0, <3>2 DEF ClientHas, IsRun
    <3> QED
      BY <2>2, <2>3, <2>4, <3>2, <3>3, Peers DEF ClientHas, Refuses
  <2>5. CASE e = "client"
    <3>1. taken'["server"] = taken["server"]
      BY <2>1, <2>5, TunnelNumbers DEF Recv, Counters
    <3> QED
      BY <2>2, <2>3, <2>5, <3>1, Peers DEF ClientHas, NextOf, Refuses
  <2> QED
    BY <2>4, <2>5, TunnelNumbers
<1>11. ASSUME NEW e \in Ends, PumpEof(e) PROVE ClientHas(i, j)'
  BY <1>11 DEF ClientHas, NextOf, Refuses, PumpEof
<1>12. CASE PumpEnds
  <2>1. ClientHas(i, j)'
    BY <1>12 DEF ClientHas, NextOf, PumpEnds, Ended
  <2> QED
    BY <2>1
<1>13. ASSUME NEW e \in Ends, TunnelEnd(e) PROVE \E k, l \in Nat : ClientHas(k, l)'
  <2>1. CASE EndReads("client")
    <3> i + 1 \in Nat
      OBVIOUS
    <3> QED
      BY <1>2, <2>1
  <2> QED
    BY <1>1, <1>13, <2>1
<1> QED
  BY <1>3, <1>4, <1>5, <1>6, <1>7, <1>8, <1>9, <1>10, <1>11, <1>12, <1>13, TunnelNumbers
  DEF TunnelNext, TunnelWorker, DialStep, SendStep, PumpStep, Flags

\* Nothing has been sent.
LEMMA TunnelInitInv == ASSUME TunnelInit PROVE TunnelInv
<1> USE TunnelNumbers
<1> DEFINE m == HeadLen + 1 + stale
<1>1. m \in Nat /\ 0 \in Nat /\ stale \in Nat /\ need = 0
  BY DEF TunnelInit
<1>2. IsRun(<<>>, m, m) /\ IsRun(<<>>, 0, 0) /\ <<>> \in Seq(Nat) /\ Len(<<>>) = 0
  BY <1>1, RunEmpty, EmptySeq
<1>3. TunnelBase
  <2>1. Counters /\ Queues
    BY <1>2 DEF TunnelInit, Counters, Queues
  <2>2. Flags
    BY DEF TunnelInit, Flags, Stages
  <2>3. Buffers /\ BodyLeft
    BY <1>1, <1>2 DEF TunnelInit, Buffers, BodyLeft
  <2> QED
    BY <2>1, <2>2, <2>3 DEF TunnelBase
<1>4. ByStage /\ FinLast
  BY DEF TunnelInit, ByStage, FinLast
<1>5. First = m
  BY <1>1 DEF First
<1> HIDE DEF m
<1>6. ServerHas(m, m)
  BY <1>2, <1>5 DEF TunnelInit, ServerHas
<1>7. ClientHas(0, 0)
  BY <1>2 DEF TunnelInit, ClientHas, NextOf
<1> QED
  BY <1>1, <1>3, <1>4, <1>6, <1>7 DEF TunnelInv

\* Every step keeps the invariant.
LEMMA TunnelStepInv == ASSUME TunnelInv, [TunnelNext]_tunnelVars PROVE TunnelInv'
<1>1. CASE TunnelNext
  <2>1. TunnelBase' /\ ByStage' /\ FinLast'
    BY <1>1, CountersStep, QueuesStep, FlagsStep, BuffersStep, BodyStep, ByStageStep, FinStep
    DEF TunnelInv, TunnelBase
  <2>2. \E i, j \in Nat : ServerHas(i, j)'
    BY <1>1, ServerStep DEF TunnelInv
  <2>3. \E i, j \in Nat : ClientHas(i, j)'
    BY <1>1, ClientStep DEF TunnelInv
  <2> QED
    BY <2>1, <2>2, <2>3 DEF TunnelInv
<1>2. CASE UNCHANGED tunnelVars
  <2> USE <1>2 DEF tunnelVars, TunnelInv
  <2>1. TunnelBase' /\ ByStage'
    BY DEF TunnelBase, Counters, Queues, Flags, Buffers, BodyLeft, ByStage
  <2>2. FinLast'
    BY DEF FinLast, Pending
  <2>3. \E i, j \in Nat : ServerHas(i, j)'
    BY DEF ServerHas, First, NextOf
  <2>4. \E i, j \in Nat : ClientHas(i, j)'
    BY DEF ClientHas, NextOf, Refuses
  <2> QED
    BY <2>1, <2>2, <2>3, <2>4
<1> QED
  BY <1>1, <1>2

\* The types that a run checks follow.
LEMMA TunnelTypes == ASSUME TunnelBase PROVE TunnelTypeOK
<1>1. \A e \in Ends : got[e] \o kernel[e] \in Seq(Nat)
  BY ConcatProperties DEF TunnelBase, Queues
<1>2. \A e \in Ends : written[e] \in 0 .. Limit(e) /\ taken[e] \in 0 .. written[e]
                      /\ Pending(e) <= Inbound
  BY TunnelNumbers DEF TunnelBase, Counters, Pending
<1> QED
  BY <1>1, <1>2 DEF TunnelBase, Queues, Flags, Buffers, BodyLeft, TunnelTypeOK, Delivered

\* What has left for an end, joined, is one run from the first unit that is its.
LEMMA TunnelArrives == ASSUME TunnelInv PROVE BytesArrive
<1> USE TunnelNumbers, Peers
<1> Counters /\ BodyLeft
  BY DEF TunnelInv, TunnelBase
<1>1. ASSUME NEW w \in Nat, NEW m \in Nat, NEW j, NEW s,
             IsRun(s, m, j), j <= w + 1 \/ j = m
      PROVE  IsPrefix(s, Units(m, w))
  <2>1. m <= j /\ j \in Nat
    BY <1>1 DEF IsRun
  <2>2. CASE j <= w + 1
    <3>1. IsRun(Units(m, w), m, w + 1)
      BY <2>1, <2>2, RunOfUnits
    <3> QED
      BY <1>1, <2>2, <3>1, RunPrefix
  <2>3. CASE j = m
    <3>1. s = <<>>
      BY <1>1, <2>3, RunEmpty
    <3> QED
      BY <3>1 DEF IsPrefix
  <2> QED
    BY <1>1, <2>2, <2>3
<1>2. ASSUME stale = 0 PROVE IsPrefix(Delivered("server"), Due("server"))
  <2>1. PICK i, j \in Nat : ServerHas(i, j)
    BY DEF TunnelInv
  <2>2. IsRun(Delivered("server"), First, j)
    BY <2>1, RunConcat DEF ServerHas, Delivered
  <2>3. First \in Nat /\ First = HeadLen + 1 /\ written["client"] \in Nat
    BY <1>2 DEF First, BodyLeft, Counters
  <2>4. j <= written["client"] + 1 \/ j = First
    BY <2>1 DEF ServerHas, NextOf, Counters
  <2>5. IsPrefix(Delivered("server"), Units(First, written["client"]))
    BY <1>1, <2>2, <2>3, <2>4
  <2> QED
    BY <2>3, <2>5 DEF Due
<1>3. IsPrefix(Delivered("client"), Due("client"))
  <2>1. PICK i, j \in Nat : ClientHas(i, j)
    BY DEF TunnelInv
  <2>2. IsRun(Delivered("client"), 0, j)
    BY <2>1, RunConcat DEF ClientHas, Delivered
  <2>3. j <= written["server"] + 1 /\ written["server"] \in Nat
    BY <2>1 DEF ClientHas, NextOf, Counters
  <2>4. IsPrefix(Delivered("client"), Units(0, written["server"]))
    BY <1>1, <2>2, <2>3
  <2> QED
    BY <2>4 DEF Due
<1> QED
  BY <1>2, <1>3 DEF BytesArrive, Unmistaken, Ends

\* A run is determined by where it begins and ends.
LEMMA RunUnique ==
  ASSUME NEW s, NEW t, NEW m, NEW n, IsRun(s, m, n), IsRun(t, m, n)
  PROVE  s = t
<1>1. Len(s) = Len(t) /\ \A i \in 1 .. Len(s) : s[i] = t[i]
  BY DEF IsRun
<1> QED
  BY <1>1, SeqEqual DEF IsRun

\* Once the other end has finished and nothing of it is left in the worker, the
\* run that has left for an end goes up to the last unit written.
LEMMA TunnelFinWhole == ASSUME TunnelInv PROVE NothingBehindFin
<1> USE TunnelNumbers, Peers
<1> Counters /\ BodyLeft /\ Flags
  BY DEF TunnelInv, TunnelBase
<1> SUFFICES ASSUME NEW e \in Ends, stage = "pump", e \in closing,
                    ~swept, Peer(e) \notin gone, e \notin gone
             PROVE  /\ Pending(Peer(e)) = 0 /\ Peer(e) \in finished
                    /\ ~(chunk # <<>> /\ towards = e)
                    /\ Unmistaken(e) => Delivered(e) = Due(e)
  BY DEF NothingBehindFin, TunnelInv, FinLast
<1>1. Pending(Peer(e)) = 0 /\ Peer(e) \in finished /\ ~(chunk # <<>> /\ towards = e)
  BY DEF TunnelInv, FinLast
<1> DEFINE w == written[Peer(e)]
<1>2. w \in Nat /\ NextOf(Peer(e)) = w + 1
  BY <1>1 DEF Pending, NextOf, Counters
<1>3. ASSUME NEW m \in Nat, NEW j, IsRun(Delivered(e), m, j), j = w + 1
      PROVE  Delivered(e) = Units(m, w)
  <2>1. m <= w + 1
    BY <1>3 DEF IsRun
  <2> HIDE DEF w
  <2>2. IsRun(Units(m, w), m, w + 1)
    BY <1>2, <2>1, RunOfUnits
  <2> QED
    BY <1>3, <2>2, RunUnique
<1>4. CASE e = "server"
  <2>1. PICK i, j \in Nat : ServerHas(i, j)
    BY DEF TunnelInv
  <2>2. j = NextOf("client")
    <3>1. CASE towards = "server"
      BY <1>1, <1>4, <2>1, <3>1, RunEmpty DEF ServerHas
    <3>2. CASE towards # "server"
      BY <2>1, <3>2 DEF ServerHas
    <3> QED
      BY <3>1, <3>2
  <2>3. IsRun(Delivered("server"), First, j)
    BY <2>1, RunConcat DEF ServerHas, Delivered
  <2>4. First \in Nat /\ (stale = 0 => First = HeadLen + 1)
    BY DEF First, BodyLeft
  <2>5. Delivered(e) = Units(First, w)
    BY <1>2, <1>3, <1>4, <2>2, <2>3, <2>4
  <2>6. Unmistaken(e) => Delivered(e) = Due(e)
    BY <1>4, <2>4, <2>5 DEF Unmistaken, Due
  <2> QED
    BY <1>1, <2>6
<1>5. CASE e = "client"
  <2>1. PICK i, j \in Nat : ClientHas(i, j)
    BY DEF TunnelInv
  <2>2. j = NextOf("server")
    <3>1. CASE towards = "client"
      BY <1>1, <1>5, <2>1, <3>1, RunEmpty DEF ClientHas, Refuses
    <3>2. CASE towards # "client"
      BY <1>5, <2>1, <3>2 DEF ClientHas, Refuses
    <3> QED
      BY <3>1, <3>2
  <2>3. IsRun(Delivered("client"), 0, j)
    BY <2>1, RunConcat DEF ClientHas, Delivered
  <2>4. Delivered(e) = Units(0, w)
    BY <1>2, <1>3, <1>5, <2>2, <2>3
  <2>5. Delivered(e) = Due(e)
    BY <1>5, <2>4 DEF Due
  <2> QED
    BY <1>1, <2>5
<1> QED
  BY <1>1, <1>4, <1>5

\* Types, bytes and the order of the end, in every reachable state.
THEOREM TunnelSafe == TunnelSpec => [](TunnelTypeOK /\ BytesArrive /\ NothingBehindFin)
<1>1. TunnelInv => TunnelTypeOK /\ BytesArrive /\ NothingBehindFin
  BY TunnelTypes, TunnelArrives, TunnelFinWhole DEF TunnelInv
<1> QED
  BY <1>1, TunnelInitInv, TunnelStepInv, PTL DEF TunnelSpec

\* For any lengths of head, payload and answer and any buffers of the kernel, what
\* leaves for the client is its bytes, once and in order; so is what leaves for
\* the node, unless a stale Content-Length is found behind the head.
THEOREM BytesArriveHolds == TunnelSpec => []BytesArrive
BY TunnelSafe, PTL

\* An end that is told that nothing more comes is told behind the last byte, unless
\* a connection broke or stop cut it; it has every byte that is its, read or in its
\* kernel, unless it is the node and a stale Content-Length was found.
THEOREM NothingBehindFinHolds == TunnelSpec => []NothingBehindFin
BY TunnelSafe, PTL

-----------------------------------------------------------------------------
(* The plain HTTP client                                                   *)

\* A call has one or two routes.
LEMMA RouteCount == ASSUME NEW c PROVE Len(Routes(c)) \in {1, 2}
<1>1. Routes(c) \in {<<"tunnel", "plain">>, <<"tunnel">>, <<"plain">>}
  BY DEF Routes
<1> QED
  BY <1>1

\* The types and NothingHeld, by groups of variables that belong together.
Course ==
  /\ call \in Calls \cup {"none"} /\ at \in Steps /\ (call = "none" => at = "begin")
  /\ answer \in AnswerKinds \cup {"none"}
  /\ wins \in Nat /\ result \in {"none", "ok", "failed"}
Tries == attemptNo \in 1 .. MaxAttempts /\ route \in 1 .. 2 /\ hop \in 1 .. MaxHops
Holds ==
  /\ addresses \in 0 .. MaxAddresses
  /\ sockets = (IF at \in {"begin", "resolve", "address", "over"} THEN 0 ELSE 1)
Bypasses == bypass = IF at \in {"address", "connect"} THEN TRUE ELSE FALSE

HttpInv == Course /\ Tries /\ Holds /\ Bypasses

\* The groups are the types and the promise.
LEMMA HttpGroups == HttpInv => HttpTypeOK /\ NothingHeld
<1>1. Bypasses => bypass \in BOOLEAN /\ (bypass <=> at \in {"address", "connect"})
  BY DEF Bypasses
<1> QED
  BY <1>1 DEF HttpInv, HttpTypeOK, NothingHeld, Course, Tries, Holds

\* Before a call nothing is held.
LEMMA HttpInitInv == ASSUME HttpInit PROVE HttpInv
<1> USE HttpAssumption DEF HttpInit, Steps
<1>1. Course
  BY DEF Course, Calls
<1>2. Tries
  BY DEF Tries
<1>3. Holds
  BY DEF Holds
<1>4. Bypasses
  BY DEF Bypasses
<1> QED
  BY <1>1, <1>2, <1>3, <1>4 DEF HttpInv

\* A socket for each address that is tried, and the bypass with it.
LEMMA ConnectingKeeps == ASSUME HttpInv, Connecting PROVE HttpInv'
<1> USE HttpAssumption DEF HttpInv, Connecting, Resolved, NotResolved, NextAddress, NoAddressLeft,
      Connected, NotConnected, placeVars, socketVars, Opened, Closed
<1>1. Course'
  BY DEF Course, Steps
<1>2. Tries'
  BY DEF Tries
<1>3. Holds'
  BY DEF Holds
<1>4. Bypasses'
  BY DEF Bypasses
<1> QED
  BY <1>1, <1>2, <1>3, <1>4

\* The socket is closed wherever the exchange ends.
LEMMA ExchangingKeeps == ASSUME HttpInv, Exchanging PROVE HttpInv'
<1> USE HttpAssumption DEF HttpInv, Exchanging, TunnelOpened, TunnelRefused, Asked, AskFails, Read,
      ReadNothing, Judged, placeVars, socketVars, Opened, Closed
<1>1. Course'
  BY DEF Course, Steps, AnswerKinds
<1>2. Tries'
  BY DEF Tries
<1>3. Holds'
  BY DEF Holds
<1>4. Bypasses'
  BY DEF Bypasses
<1> QED
  BY <1>1, <1>2, <1>3, <1>4

\* Between two tries, and between two calls, there is none.
LEMMA TryingKeeps ==
  ASSUME HttpInv, Trying \/ \E c \in Calls : Call(c) PROVE HttpInv'
<1> USE HttpAssumption DEF HttpInv, Trying, NextTry, Return, ForgetAnswer, Call, placeVars, socketVars
<1>1. Course'
  BY DEF Course, Steps, Calls
<1>2. Tries'
  <2>1. Len(Routes(call)) \in {1, 2} /\ Attempts(call) \in 1 .. MaxAttempts
    BY RouteCount DEF Attempts
  <2>2. CASE NextTry
    <3> DEFINE n == Len(Routes(call))
               k == Attempts(call)
    <3>1. /\ n \in {1, 2} /\ k \in 1 .. MaxAttempts /\ hop' = 1
          /\ \/ route < n /\ route' = route + 1 /\ attemptNo' = attemptNo
             \/ attemptNo < k /\ route' = 1 /\ attemptNo' = attemptNo + 1
      BY <2>1, <2>2
    <3> HIDE DEF n, k
    <3> QED
      BY <3>1 DEF Tries
  <2> QED
    BY <2>2 DEF Tries
<1>3. Holds'
  BY DEF Holds, Course
<1>4. Bypasses'
  BY DEF Bypasses, Course
<1> QED
  BY <1>1, <1>2, <1>3, <1>4

\* Every step keeps the invariant.
LEMMA HttpStepInv == ASSUME HttpInv, [HttpNext]_httpVars PROVE HttpInv'
<1>1. CASE UNCHANGED httpVars
  BY <1>1 DEF httpVars, HttpInv, Course, Tries, Holds, Bypasses, placeVars, socketVars
<1> QED
  BY <1>1, ConnectingKeeps, ExchangingKeeps, TryingKeeps DEF HttpNext, HttpStep

\* Types and the promise, in every reachable state.
THEOREM HttpSafe == HttpSpec => [](HttpTypeOK /\ NothingHeld)
<1>1. HttpSpec => []HttpInv
  BY HttpInitInv, HttpStepInv, PTL DEF HttpSpec
<1> QED
  BY <1>1, HttpGroups, PTL

\* Whichever step of a request fails, for any number of attempts, redirects and
\* addresses, no descriptor and no bypass of the hook is left behind.
THEOREM NothingHeldHolds == HttpSpec => []NothingHeld
BY HttpSafe, PTL

-----------------------------------------------------------------------------
(* Side by side                                                            *)

\* Each of the four behaves as its own specification says.
LEMMA FlowParts == MCSpec => RoutingSpec /\ RelaySpec /\ TunnelSpec /\ HttpSpec
<1>1. MCInit => RoutingInit /\ RelayInit /\ TunnelInit /\ HttpInit
  BY DEF MCInit
<1>2. [MCNext]_mcVars =>
        /\ [RoutingNext]_routingVars /\ [RelayNext]_relayVars
        /\ [TunnelNext]_tunnelVars /\ [HttpNext]_httpVars
  BY DEF MCNext, mcVars
<1> QED
  BY <1>1, <1>2, PTL DEF MCSpec, RoutingSpec, RelaySpec, TunnelSpec, HttpSpec

\* No index runs past the pool, no counter past its limit and no copy past what
\* was read, for all values of the constants.
THEOREM FlowTypesHold == MCSpec => []FlowTypesOK
<1>1. RoutingTypeOK /\ RelayTypeOK /\ TunnelTypeOK /\ HttpTypeOK => FlowTypesOK
  BY DEF FlowTypesOK
<1> QED
  BY <1>1, FlowParts, TypeCorrect, RelayTypeCorrect, TunnelSafe, HttpSafe, PTL
=============================================================================
