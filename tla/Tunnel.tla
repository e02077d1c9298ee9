------------------------------- MODULE Tunnel -------------------------------
(***************************************************************************)
(* The bytes of one CONNECT through the forwarder: kp_handle_client reads  *)
(* the head of the request, has a node answer, tells the client and pumps  *)
(* in both directions until the tunnel ends.                               *)
(*                                                                         *)
(* The client sends units 1..ClientLen: the head is units 1..HeadLen, and  *)
(* its last two are the two halves of the separator that closes it.  The   *)
(* server sends units 1..ServerLen; unit 0 is "200 Connection              *)
(* Established".  The kernel keeps at most Inbound units of an end for the *)
(* worker, of which a recv returns any part, and Outbound units for an end. *)
(*                                                                         *)
(* The head is searched for a Content-Length with strstr before its end    *)
(* has been written (line 2183): what an earlier request left on the stack *)
(* may be found, so `stale` is any of a few lengths.                       *)
(***************************************************************************)
EXTENDS Naturals, Sequences, SequencesExt

CONSTANTS HeadLen, ClientLen, ServerLen, Inbound, Outbound, StaleLengths

ASSUME TunnelAssumption ==
  /\ HeadLen \in Nat \ {0, 1} /\ ClientLen \in Nat /\ HeadLen <= ClientLen
  /\ ServerLen \in Nat
  /\ Inbound \in Nat \ {0} /\ Outbound \in Nat \ {0}
  /\ StaleLengths \subseteq Nat

Ends == {"client", "server"}
Peer(e) == CHOOSE d \in Ends : d # e
Limit(e) == IF e = "client" THEN ClientLen ELSE ServerLen
Units(from, to) == [i \in 1 .. (to + 1 - from) |-> from + i - 1]

VARIABLES
  written,  \* units each end has written
  taken,    \* of those, the units recv has handed to the worker
  finished, \* ends that have closed their writing side
  gone,     \* ends that have closed, or reset, the connection
  swept,    \* kp_forwarder_stop has shut both sockets down
  stage,    \* where kp_handle_client is
  reader,   \* what kp_reader still holds
  need,     \* bytes of a body still to be copied
  stale,    \* what strstr found behind the head, 0 when nothing
  chunk,    \* the buffer kp_send_all is sending, and what follows it
  extra,    \* what came with the 200 of the node
  towards,  \* the end it is sent to
  relaying, \* the ends the pump still reads: a_open and b_open
  kernel,   \* sent to each end and not yet read by it
  got,      \* read by each end
  closing   \* ends whose socket the worker has shut down for writing

endVars == <<written, finished, gone>>
headVars == <<reader, need, stale, extra>>
sendVars == <<chunk, towards>>
outVars == <<kernel, got, closing>>
tunnelVars ==
  <<endVars, taken, swept, stage, headVars, sendVars, relaying, outVars>>

Pending(e) == written[e] - taken[e]
Eof(e) == swept \/ e \in gone \/ (e \in finished /\ Pending(e) = 0)

\* Variant: stop shuts the sockets down for reading only.
RefusesUnlessSwept(e) == e \in gone

Refuses(e) == swept \/ e \in gone

Stages ==
  {"head", "body", "dial", "greet", "extra", "early", "pump", "done"}

\* A recv on the socket of end e that returns n units.
Recv(e, n) ==
  /\ n \in 1 .. Pending(e)
  /\ taken' = [taken EXCEPT ![e] = @ + n]

Ended == stage' = "done" /\ chunk' = <<>>

-----------------------------------------------------------------------------
(* The client and the node                                                 *)

\* The server is there from the dial on.
Present(e) == e \notin gone /\ (e = "client" \/ stage \notin {"head", "body"})

EndWrites(e) ==
  /\ Present(e) /\ e \notin finished
  /\ written[e] < Limit(e) /\ Pending(e) < Inbound
  /\ written' = [written EXCEPT ![e] = @ + 1]
  /\ UNCHANGED <<finished, gone, taken, swept, stage, headVars, sendVars, relaying, outVars>>

EndFinishes(e) ==
  /\ Present(e) /\ e \notin finished
  /\ finished' = finished \cup {e}
  /\ UNCHANGED <<written, gone, taken, swept, stage, headVars, sendVars, relaying, outVars>>

EndCloses(e) ==
  /\ Present(e)
  /\ gone' = gone \cup {e}
  /\ UNCHANGED <<written, finished, taken, swept, stage, headVars, sendVars, relaying, outVars>>

EndReads(e) ==
  /\ e \notin gone /\ kernel[e] # <<>>
  /\ got' = [got EXCEPT ![e] = Append(@, Head(kernel[e]))]
  /\ kernel' = [kernel EXCEPT ![e] = Tail(@)]
  /\ UNCHANGED <<endVars, taken, swept, stage, headVars, sendVars, relaying, closing>>

\* kp_forwarder_stop shuts down the registered descriptors of the worker.
Sweep ==
  /\ swept' = TRUE
  /\ UNCHANGED <<endVars, taken, stage, headVars, sendVars, relaying, outVars>>

-----------------------------------------------------------------------------
(* The request                                                             *)

\* Variant: what follows the head in the buffer is dropped with it.
ReadHeadDropsRest ==
  /\ stage = "head"
  /\ \E n \in 1 .. Pending("client") :
       /\ Recv("client", n)
       /\ IF taken["client"] < HeadLen - 1 /\ taken["client"] + n >= HeadLen
          THEN stage' = "body" /\ need' = stale
          ELSE UNCHANGED <<stage, need>>
  /\ UNCHANGED <<endVars, swept, reader, stale, extra, sendVars, relaying, outVars>>

\* kp_reader_fill and one turn of kp_reader_read_header, which looks for the
\* separator in the chunk it has just read.
ReadHead ==
  /\ stage = "head"
  /\ \E n \in 1 .. Pending("client") :
       /\ Recv("client", n)
       /\ IF taken["client"] < HeadLen - 1 /\ taken["client"] + n >= HeadLen
          THEN /\ reader' = Units(HeadLen + 1, taken["client"] + n)
               /\ stage' = "body" /\ need' = stale
          ELSE UNCHANGED <<reader, stage, need>>
  /\ UNCHANGED <<endVars, swept, stale, extra, sendVars, relaying, outVars>>

\* The client ended its request early, or the buffer is full.
ReadHeadFails ==
  /\ stage = "head"
  /\ Eof("client") \/ taken["client"] >= HeadLen
  /\ Ended
  /\ UNCHANGED <<endVars, taken, swept, headVars, towards, relaying, outVars>>

\* Variant: the whole buffer is taken, however much is needed.
CopyWholeBuffer ==
  /\ stage = "body" /\ need > 0
  /\ \/ /\ reader # <<>>
        /\ reader' = <<>> /\ need' = need - Len(reader)
        /\ UNCHANGED taken
     \/ /\ reader = <<>>
        /\ \E n \in 1 .. Pending("client") :
             /\ Recv("client", n)
             /\ reader' = Units(taken["client"] + 1, taken["client"] + n)
        /\ UNCHANGED need
  /\ UNCHANGED <<endVars, swept, stage, stale, extra, sendVars, relaying, outVars>>

\* kp_reader_copy: from the reader, then from the socket.
CopyBody ==
  /\ stage = "body" /\ need > 0
  /\ \/ /\ reader # <<>>
        /\ reader' = Tail(reader) /\ need' = need - 1
        /\ UNCHANGED taken
     \/ /\ reader = <<>>
        /\ \E n \in 1 .. Pending("client") :
             /\ Recv("client", n)
             /\ reader' = Units(taken["client"] + 1, taken["client"] + n)
        /\ UNCHANGED need
  /\ UNCHANGED <<endVars, swept, stage, stale, extra, sendVars, relaying, outVars>>

BodyDone ==
  /\ stage = "body"
  /\ need = 0 \/ (reader = <<>> /\ Eof("client"))
  /\ stage' = "dial"
  /\ UNCHANGED <<endVars, taken, swept, headVars, sendVars, relaying, outVars>>

\* A node answers 200, perhaps with the first bytes of the target behind it.
DialSucceeds ==
  /\ stage = "dial"
  /\ \/ extra' = <<>> /\ UNCHANGED taken
     \/ \E n \in 1 .. Pending("server") : Recv("server", n) /\ extra' = Units(1, n)
  /\ stage' = "greet" /\ chunk' = <<0>> /\ towards' = "client"
  /\ UNCHANGED <<endVars, swept, reader, need, stale, relaying, outVars>>

\* No node does: the client gets a 502 if it still listens.
DialFails ==
  /\ stage = "dial"
  /\ Ended
  /\ UNCHANGED <<endVars, taken, swept, headVars, towards, relaying, outVars>>

-----------------------------------------------------------------------------
(* kp_send_all                                                             *)

SendUnit ==
  /\ chunk # <<>> /\ ~Refuses(towards)
  /\ Len(kernel[towards]) < Outbound
  /\ kernel' = [kernel EXCEPT ![towards] = Append(@, Head(chunk))]
  /\ chunk' = Tail(chunk)
  /\ UNCHANGED <<endVars, taken, swept, stage, headVars, towards, relaying, got, closing>>

\* A failure ends the tunnel, except that of the bytes behind the 200.
SendFails ==
  /\ chunk # <<>> /\ Refuses(towards)
  /\ chunk' = <<>>
  /\ stage' = IF stage = "extra" THEN stage ELSE "done"
  /\ UNCHANGED <<endVars, taken, swept, headVars, towards, relaying, outVars>>

Greeted ==
  /\ stage = "greet" /\ chunk = <<>>
  /\ stage' = "extra" /\ chunk' = extra
  /\ UNCHANGED <<endVars, taken, swept, headVars, towards, relaying, outVars>>

\* kp_reader_send_available.
SendEarly ==
  /\ stage = "extra" /\ chunk = <<>>
  /\ stage' = "early" /\ chunk' = reader /\ towards' = "server"
  /\ reader' = <<>>
  /\ UNCHANGED <<endVars, taken, swept, need, stale, extra, relaying, outVars>>

-----------------------------------------------------------------------------
(* kp_pipe_bidirectional_counted                                           *)

StartPump ==
  /\ stage = "early" /\ chunk = <<>>
  /\ stage' = "pump" /\ relaying' = Ends
  /\ UNCHANGED <<endVars, taken, swept, headVars, sendVars, outVars>>

Pumping == stage = "pump" /\ chunk = <<>>

PumpReads(e) ==
  /\ Pumping /\ e \in relaying
  /\ \E n \in 1 .. Pending(e) :
       Recv(e, n) /\ chunk' = Units(taken[e] + 1, taken[e] + n)
  /\ towards' = Peer(e)
  /\ UNCHANGED <<endVars, swept, stage, headVars, relaying, outVars>>

\* Variant: the end of one direction ends both.
PumpEofEndsBoth(e) ==
  /\ Pumping /\ e \in relaying /\ Eof(e)
  /\ relaying' = {}
  /\ closing' = Ends
  /\ UNCHANGED <<endVars, taken, swept, stage, headVars, sendVars, kernel, got>>

\* One direction is over: the other end is told, and still read.
PumpEof(e) ==
  /\ Pumping /\ e \in relaying /\ Eof(e)
  /\ relaying' = relaying \ {e}
  /\ closing' = closing \cup {Peer(e)}
  /\ UNCHANGED <<endVars, taken, swept, stage, headVars, sendVars, kernel, got>>

\* Variant: silence does not end the tunnel.
PumpEndsByEof ==
  /\ Pumping
  /\ relaying = {}
  /\ closing' = Ends
  /\ Ended
  /\ UNCHANGED <<endVars, taken, swept, headVars, towards, relaying, kernel, got>>

\* Both directions are over, or nothing has come for max_idle_sec.
PumpEnds ==
  /\ Pumping
  /\ \A e \in relaying : Pending(e) = 0 /\ ~Eof(e)
  /\ closing' = Ends
  /\ Ended
  /\ UNCHANGED <<endVars, taken, swept, headVars, towards, relaying, kernel, got>>

-----------------------------------------------------------------------------
TunnelInit ==
  /\ written = [e \in Ends |-> 0] /\ taken = [e \in Ends |-> 0]
  /\ finished = {} /\ gone = {} /\ swept = FALSE
  /\ stage = "head"
  /\ reader = <<>> /\ need = 0 /\ extra = <<>>
  /\ stale \in StaleLengths
  /\ chunk = <<>> /\ towards = "client"
  /\ relaying = {}
  /\ kernel = [e \in Ends |-> <<>>] /\ got = [e \in Ends |-> <<>>]
  /\ closing = {}

HeadStep == ReadHead \/ ReadHeadFails \/ CopyBody \/ BodyDone
DialStep == DialSucceeds \/ DialFails
SendStep == SendUnit \/ SendFails \/ Greeted \/ SendEarly
PumpStep == StartPump \/ (\E e \in Ends : PumpReads(e) \/ PumpEof(e)) \/ PumpEnds

TunnelWorker == HeadStep \/ DialStep \/ SendStep \/ PumpStep

TunnelEnd(e) == EndWrites(e) \/ EndFinishes(e) \/ EndCloses(e) \/ EndReads(e)

TunnelNext == TunnelWorker \/ (\E e \in Ends : TunnelEnd(e)) \/ Sweep

TunnelSpec == TunnelInit /\ [][TunnelNext]_tunnelVars

\* The worker is a thread that is scheduled; nobody else has to do anything.
TunnelFairness == WF_tunnelVars(TunnelWorker)

-----------------------------------------------------------------------------
(* Properties                                                              *)

\* What has left the worker for an end and the end has not lost.
Delivered(e) == got[e] \o kernel[e]

\* Every variable keeps its type, and the kernel its bounds.
TunnelTypeOK ==
  /\ \A e \in Ends :
       /\ written[e] \in 0 .. Limit(e) /\ taken[e] \in 0 .. written[e]
       /\ Pending(e) <= Inbound /\ Len(kernel[e]) <= Outbound
       /\ Delivered(e) \in Seq(Nat)
  /\ finished \subseteq Ends /\ gone \subseteq Ends /\ closing \subseteq Ends
  /\ relaying \subseteq Ends
  /\ swept \in BOOLEAN /\ stage \in Stages /\ towards \in Ends
  /\ reader \in Seq(Nat) /\ chunk \in Seq(Nat) /\ extra \in Seq(Nat)
  /\ stale \in StaleLengths /\ need \in 0 .. stale

\* What is e's of what the other end has written so far.  For the client the 200
\* comes first, and then the bytes of the server, those that came with the 200 of
\* the node included.  For the node it is what follows the head.
Due(e) == Units(IF e = "client" THEN 0 ELSE HeadLen + 1, written[Peer(e)])

\* No stale length makes bytes of the tunnel to e look like a body.
Unmistaken(e) == e = "client" \/ stale = 0

\* Nothing is lost, doubled, reordered or made up on the way: both ends get what
\* is theirs, from its first byte, and no more than has been written.  The node
\* does as long as the head is searched for a Content-Length without a stale
\* result; EarlyDataKept says what happens otherwise.
BytesArrive == \A e \in Ends : Unmistaken(e) => IsPrefix(Delivered(e), Due(e))

\* kp_reader_read_header "consumes the head only, not the bytes behind it" (line
\* 2118), which are the "TLS data that arrived early" (line 2157) and go to the
\* node first.  It does not hold when strstr finds a stale Content-Length.
EarlyDataKept == \A e \in Ends : IsPrefix(Delivered(e), Due(e))

\* Telling an end that nothing more comes is said behind the last byte of the
\* other one, unless that one broke the connection or stop did: then nothing is
\* left to be read or sent, and the end, if it is still there, has every byte.
NothingBehindFin ==
  \A e \in Ends :
    (stage = "pump" /\ e \in closing) =>
      \/ swept \/ Peer(e) \in gone
      \/ /\ Pending(Peer(e)) = 0 /\ Peer(e) \in finished
         /\ ~(chunk # <<>> /\ towards = e)
         /\ e \in gone \/ (Unmistaken(e) => Delivered(e) = Due(e))

\* A stop, which shuts both sockets down, ends the tunnel wherever it is,
\* whatever its ends do: what Forwarder's StopReturns takes from the pump.
SweptTunnelEnds == swept ~> stage = "done"

\* The comment over the pumps says the forwarding thread can always leave.
\* It can, from the dial on, when each end goes on reading or goes away.
TunnelEnds ==
  (\A e \in Ends : []<>(Len(kernel[e]) < Outbound \/ Refuses(e)))
    => (stage = "dial" ~> stage = "done")
=============================================================================
