---------------------------- MODULE TcpEndToEnd -----------------------------
(***************************************************************************)
(* The endpoint of TcpStack, the application that drives it and one        *)
(* kernel-socket client, over the lossless link the library targets.  The  *)
(* control and the data queue are two queues: each keeps its order, their  *)
(* segments may overtake each other.  Segments are lost only where the     *)
(* endpoint has no buffer for them or no room in a ring.                   *)
(*                                                                         *)
(* The client is external: it opens one connection, streams PeerBytes      *)
(* bytes and a FIN, reads what it receives when it likes, never takes back *)
(* window it has granted, and repeats what is not acknowledged.            *)
(***************************************************************************)
EXTENDS TcpStack, SequencesExt

CONSTANTS PeerIsn,     \* the client's initial sequence number
          PeerBytes,   \* bytes the client sends
          PeerCloses,  \* does the client close?
          PeerBuffer,  \* the client's receive buffer
          SendBytes,   \* bytes the application sends
          LinkRoom,    \* segments a queue holds
          MaxLost,     \* bound: segments lost
          Eager        \* may the client repeat a segment while others are under way?

VARIABLES peer,         \* the client
          to_stack,     \* the RX queue
          from_control, \* the control TX queue
          from_data,    \* the data TX queue
          lost,         \* number of segments lost
          app_in        \* history: the bytes the application received

linkVars == <<to_stack, from_control, from_data>>
e2eVars == <<vars, peer, linkVars, lost, app_in>>

PeerStart == SeqAdd(PeerIsn, 1)
PeerDataEnd == SeqAdd(PeerStart, PeerBytes)

E2EInit ==
  /\ Init
  /\ peer = [up |-> FALSE, una |-> PeerIsn, nxt |-> PeerIsn, fin |-> FALSE, rcv |-> 0,
             unread |-> 0, edge |-> 0, owes |-> FALSE, eof |-> FALSE, reset |-> FALSE]
  /\ to_stack = <<>> /\ from_control = <<>> /\ from_data = <<>>
  /\ lost = 0 /\ app_in = <<>>

-----------------------------------------------------------------------------
\* The client

Window(p) == PeerBuffer - p.unread

\* The client puts a segment on the link: with its present acknowledgement and window,
\* which move the right edge it has granted.  A full RX queue loses it; only of segments
\* that the client repeats, since the stream stalls when a pure ACK is lost.
Transmit(p, flags, seq, len) ==
  /\ IF Len(to_stack) < LinkRoom
     THEN /\ to_stack' = Append(to_stack,
               [key |-> 1, flags |-> flags, seq |-> seq, ack |-> p.rcv, window |-> Window(p),
                len |-> len, mss |-> Mss])
          /\ lost' = lost
     ELSE /\ len > 0 \/ flags \cap {"SYN", "FIN"} # {}
          /\ lost' = lost + 1 /\ lost' <= MaxLost
          /\ UNCHANGED to_stack
  /\ peer' = [p EXCEPT !.owes = FALSE, !.edge = SeqAdd(p.rcv, Window(p))]
  /\ UNCHANGED <<vars, from_control, from_data, app_in>>

PeerOpen ==
  /\ peer.nxt = PeerIsn
  /\ Transmit([peer EXCEPT !.nxt = PeerStart], {"SYN"}, PeerIsn, 0)

PeerAlive == peer.up /\ ~peer.reset

\* New data, within the window the endpoint advertises, with or without the FIN.
PeerSend(len, fin) ==
  LET end == SeqAdd(peer.nxt, len)
  IN  /\ PeerAlive /\ ~peer.fin
      /\ len > 0 \/ fin
      /\ len <= SeqSub(PeerDataEnd, peer.nxt)
      /\ SeqSub(end, peer.una) <= ReceiveWindow
      /\ fin => PeerCloses /\ end = PeerDataEnd
      /\ Transmit([peer EXCEPT !.nxt = IF fin THEN SeqAdd(end, 1) ELSE end, !.fin = fin],
                  IF fin THEN {"ACK", "FIN"} ELSE {"ACK"}, peer.nxt, len)

\* The acknowledgement of what arrived, or a window update.
PeerAck ==
  /\ PeerAlive /\ peer.owes
  /\ Transmit(peer, {"ACK"}, peer.nxt, 0)

PeerRead ==
  /\ peer.unread > 0
  /\ peer' = [peer EXCEPT !.unread = 0, !.owes = TRUE]
  /\ UNCHANGED <<vars, linkVars, lost, app_in>>

\* Nothing is under way: the retransmission timer is long.
Quiet ==
  /\ to_stack = <<>> /\ from_control = <<>> /\ from_data = <<>>
  /\ rx_pc \notin {"open", "flags", "ack", "data"} /\ control = <<>> /\ ack_list = <<>>
  /\ ~peer.owes

\* Unacknowledged bytes again from the oldest on, cut as the client likes.
PeerRetransmit ==
  LET left == SeqSub(peer.nxt, peer.una) - (IF peer.fin THEN 1 ELSE 0)
  IN  /\ peer.una # peer.nxt /\ ~peer.reset
      /\ Eager \/ Quiet
      /\ IF ~peer.up THEN Transmit(peer, {"SYN"}, PeerIsn, 0)
         ELSE \/ \E len \in 1 .. left : Transmit(peer, {"ACK"}, peer.una, len)
              \/ peer.fin /\ Transmit(peer, {"ACK", "FIN"}, peer.una, left)

\* The client once it has taken seg.  An old sequence number is only re-acknowledged
\* (its ACK is not looked at), and so is what does not fit the window.
Received(p, seg) ==
  LET offset == SeqSub(seg.seq, p.rcv)
      acked == [p EXCEPT !.una = IF seq_gt(seg.ack, @) THEN seg.ack ELSE @]
      fits == offset = 0 /\ seg.len <= Window(p)
      fin == has(seg, "FIN")
  IN  CASE has(seg, "RST") -> [p EXCEPT !.reset = TRUE]
        [] ~has(seg, "RST") /\ has(seg, "SYN") ->
             IF p.up THEN [p EXCEPT !.owes = TRUE]
             ELSE [p EXCEPT !.up = TRUE, !.una = PeerStart, !.rcv = SeqAdd(seg.seq, 1),
                            !.edge = SeqAdd(SeqAdd(seg.seq, 1), Window(p)), !.owes = TRUE]
        [] OTHER ->
             IF offset > Window(p) THEN [p EXCEPT !.owes = TRUE]
             ELSE IF seg.len = 0 /\ ~fin THEN acked
             ELSE IF ~fits THEN [acked EXCEPT !.owes = TRUE]
             ELSE [acked EXCEPT !.rcv = SeqAdd(@, seg.len + (IF fin THEN 1 ELSE 0)),
                                !.unread = @ + seg.len, !.eof = @ \/ fin, !.owes = TRUE]

PeerReceiveControl ==
  /\ from_control # <<>>
  /\ peer' = Received(peer, Head(from_control))
  /\ from_control' = Tail(from_control)
  /\ UNCHANGED <<vars, to_stack, from_data, lost, app_in>>

PeerReceiveData ==
  /\ from_data # <<>>
  /\ peer' = Received(peer, Head(from_data))
  /\ from_data' = Tail(from_data)
  /\ UNCHANGED <<vars, to_stack, from_control, lost, app_in>>

Peer ==
  \/ PeerOpen \/ PeerAck \/ PeerRead \/ PeerRetransmit
  \/ (\E len \in 0 .. PeerBytes, fin \in BOOLEAN : PeerSend(len, fin))
  \/ PeerReceiveControl \/ PeerReceiveData

-----------------------------------------------------------------------------
\* The endpoint, its queues connected to the client

\* poll() takes the next packet of the RX queue; a poll without a packet or a slot to
\* reap, which does nothing, is left out.  Here a control segment is lost when the ring
\* does not take it: a poll of one packet queues at most one, so that one lost when it was
\* queued makes no difference to the client.
Waiting == to_stack # <<>>

Deliver ==
  /\ Waiting
  /\ LET seg == Head(to_stack)
     IN  \/ ReceiveUnknown(seg) /\ control' # control
         \/ ProcessSegment(seg) /\ (IsOpen(seg) /\ state[flows[seg.key]] = "syn_received"
                                      => control' # control)
         \/ \E iss \in Iss : Open(seg, iss)
  /\ to_stack' = Tail(to_stack)
  /\ UNCHANGED <<peer, from_control, from_data, lost, app_in>>

\* The bytes of the data events, in order.
Payload(evs) ==
  FoldRight(LAMBDA e, q : [i \in 1 .. e.len |-> SeqAdd(e.from, i - 1)] \o q,
            SelectSeq(evs, LAMBDA e : e.type = "data"), <<>>)

Flush(sent) ==
  /\ FlushControl(sent)
  /\ from_control' = from_control \o SubSeq(control, 1, sent)
  /\ Len(from_control') <= LinkRoom
  /\ lost' = lost + Len(control) - sent /\ lost' <= MaxLost
  /\ UNCHANGED <<peer, to_stack, from_data, app_in>>

InboundThread ==
  \/ \E sent \in 0 .. Len(control) : Flush(sent)
  \/ /\ PollReturn
     /\ app_in' = app_in \o Payload(events)
     /\ UNCHANGED <<peer, linkVars, lost>>
  \/ /\ \/ (Waiting \/ awaiting_release # <<>>) /\ PollStart
        \/ ReapReleased \/ ReapDone
        \/ (\E f \in opening : OpenStore(f)) \/ (OpenPublish /\ control' # control)
        \/ AckLoadFlags \/ AckBeyond \/ AckProcessed \/ DataNotDelivered \/ DataDelivered
        \/ (rx.n = MaxBurst \/ ~Waiting) /\ EndBurst
        \/ FlushAck /\ (ack_pending[Head(ack_list)] => control' # control)
        \/ Finalize
     /\ UNCHANGED <<peer, linkVars, lost, app_in>>

\* The segments of the burst being sent, and the FIN.
BurstSegments(sent) ==
  [k \in 1 .. sent |->
     build_segment(tcb[tx.conn.slot].key, {"ACK"}, SeqAdd(tx.base, SegEnd(k - 1)), tx.ack,
                   SegEnd(k) - SegEnd(k - 1))]
FinSegment == build_segment(tcb[tx.conn.slot].key, {"FIN", "ACK"}, tx.base, FinAck[1], 0)

OutboundThread ==
  \/ /\ \/ \E sent \in 0 .. MaxBurst :
             SendBurst(sent) /\ from_data' = from_data \o BurstSegments(sent)
        \/ CloseSendFin /\ from_data' = Append(from_data, FinSegment)
     /\ Len(from_data') <= LinkRoom
     /\ UNCHANGED <<peer, to_stack, from_control, lost, app_in>>
  \/ /\ \/ LookupGeneration \/ LookupFlags \/ LookupRecheck
        \/ Sendable \/ SendLimit \/ SendLoadAck
        \/ (\E n \in 0 .. MaxBurst : SendBuild(n)) \/ SendPullBack
        \/ CloseCheck \/ CloseCountFin \/ CloseFlagFin
        \/ (\E built \in BOOLEAN : CloseRetry(built)) \/ CloseGiveUp \/ CloseRelease
     /\ UNCHANGED <<peer, linkVars, lost, app_in>>

\* The application sends SendBytes bytes at most and closes once, whenever it likes.
Sent(s) == SeqSub(wire_end[s], SeqAdd(tcb[s].iss, 1))
App ==
  /\ \E id \in held \ closed_ids :
       \/ \E bytes \in 1 .. MaxSend :
            Sent(id.slot) + bytes <= SendBytes /\ Call("send", id, bytes)
       \/ Call("close", id, 0)
  /\ UNCHANGED <<peer, linkVars, lost, app_in>>

E2ENext == Peer \/ Deliver \/ InboundThread \/ OutboundThread \/ App

E2ESpec == E2EInit /\ [][E2ENext]_e2eVars

\* Both threads run (busy polling, one core each), and so does the client's kernel and
\* its reader.  Neither side has to send or to close.
ClientRuns ==
  PeerAck \/ PeerRead \/ PeerRetransmit \/ PeerReceiveControl \/ PeerReceiveData
E2EFairness ==
  /\ WF_e2eVars(Deliver \/ InboundThread) /\ WF_e2eVars(OutboundThread)
  /\ WF_e2eVars(ClientRuns)
E2EFairSpec == E2ESpec /\ E2EFairness

-----------------------------------------------------------------------------
\* Properties.  The client has the flow key 1, and only slot 0 is used.

\* What the application receives is a prefix of the client's stream: no byte is lost,
\* repeated or out of place, whatever the client repeats (process_data's trimming).
InOrderOnce == \A i \in DOMAIN app_in : app_in[i] = SeqAdd(PeerIsn, i)

\* A byte the client has seen acknowledged, by the inbound thread's ACK or by the one the
\* outbound thread piggybacks, is in the application's hands or in the events poll() is
\* about to return.
AckedIsDelivered ==
  LET acked == SeqSub(peer.una, PeerStart) - (IF peer.fin /\ peer.una = peer.nxt THEN 1 ELSE 0)
  IN  peer.up => acked <= Len(app_in) + Len(Payload(events))

\* A client that keeps to the protocol is reset only once its connection is over and both
\* FINs were exchanged (there is no TIME_WAIT).
ResetOnlyWhenOver ==
  \A i \in DOMAIN control :
    has(control[i], "RST") => seen[0] # <<>> /\ back(seen[0]) = "closed" /\ peer.eof

\* "sending limited by the peer's advertised window" (src/include/tcp_stack.h): no segment
\* on the data queue ends past the right edge the client has granted.
WindowRespected ==
  \A i \in DOMAIN from_data :
    from_data[i].len > 0 => seq_leq(SeqAdd(from_data[i].seq, from_data[i].len), peer.edge)

\* close() gave up on its FIN: the ring stayed full, or the pool empty.
FinGivenUp == "released" \in out_flags[0] /\ wire_end[0] # snd_nxt[0]

\* "stream bytes both ways and close cleanly" (src/README.md): once the client and the
\* application have closed, the client gets everything sent and the end of the stream,
\* its own is acknowledged, and the slot is free again.
ClosesCleanly ==
  (peer.fin /\ "fin_sent" \in out_flags[0])
    ~> \/ FinGivenUp
       \/ /\ state[0] = "free" /\ peer.rcv = snd_nxt[0] /\ peer.eof
          /\ peer.una = peer.nxt \/ peer.reset
=============================================================================
