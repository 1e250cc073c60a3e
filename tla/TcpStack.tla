------------------------------ MODULE TcpStack ------------------------------
(***************************************************************************)
(* The TCP endpoint of src/src/tcp_stack.cpp: one connection table shared  *)
(* without locks by an inbound thread (tcp_receiver::poll) and an outbound *)
(* thread (tcp_sender::send / send_space / close).                         *)
(*                                                                         *)
(* A step is at most one access to memory the other thread writes, with    *)
(* the thread-private work around it.  The relaxed stores with which       *)
(* open() re-initialises a slot become visible in any order; the release   *)
(* store of out_flags follows all of them.                                 *)
(*                                                                         *)
(* Flow keys stand for (peer ip, peer port, local port); flows is the map  *)
(* flow_table implements (module FlowTable).  Payload bytes are their      *)
(* sequence numbers.  Statistics are left out.                             *)
(***************************************************************************)
EXTENDS SeqSpace, Vectors

CONSTANTS MaxConnections, \* tcp_params::max_connections
          Keys,           \* flow keys; 0 is the empty key
          ListenKeys,     \* keys whose local port is in listening_
          Segments,       \* the segments the network may deliver
          Iss,            \* values rte_rand() may give an initial sequence number
          ReceiveWindow,  \* tcp_params::receive_window
          Mss,            \* tcp_stack::mss_
          MaxBurst,       \* packet_burst::max_size
          MaxSend,        \* most bytes the application passes to one send()
          CloseRetries,   \* kCloseRetries
          GenMod          \* 2^32: the width of a generation

Slots == 0 .. (MaxConnections - 1)
npos == MaxConnections
MaxControl == 2 * MaxBurst
\* Mutant: room for two events per packet.
MaxEventsTwoPerPacket == 2 * MaxBurst

MaxEvents == 3 * MaxBurst
Generations == 0 .. (GenMod - 1)
ConnIds == [slot : Slots, generation : Generations]
OutFlags == {"fin_sent", "released"}
OpenStores == {"generation", "rcv_nxt", "send_window", "terminated", "snd_nxt"}
TcpFlags == {"SYN", "ACK", "RST", "FIN"}
TcpStates == {"free", "syn_received", "established", "close_wait", "last_ack",
              "fin_wait_1", "fin_wait_2", "closing", "closed"}

\* What the segment struct holds, and what build_segment() is given.
SegmentType == [key : Keys, flags : SUBSET TcpFlags, seq : SeqNums, ack : SeqNums,
                window : Nat, len : Nat, mss : Nat \ {0}]

ASSUME SizeAssumption ==
  /\ MaxConnections \in Nat \ {0} /\ MaxBurst \in Nat \ {0} /\ Mss \in Nat \ {0}
  /\ GenMod \in Nat /\ GenMod >= 3
  /\ MaxSend \in Nat /\ CloseRetries \in Nat /\ ReceiveWindow \in Nat
ASSUME KeyAssumption == Keys \subseteq Nat \ {0} /\ ListenKeys \subseteq Keys
ASSUME SegmentAssumption == Segments \subseteq SegmentType /\ Iss \subseteq SeqNums
\* A payload is shorter than the sequence space: IPv4 gives its length in 16 bits.
ASSUME LengthAssumption == \A seg \in Segments : seg.len < SeqSize

VARIABLES
  \* tcp_connection, inbound-only: written and read by the inbound thread
  \* (of tcb, outbound reads the addressing, key and send_mss, which open() writes)
  state, tcb, ack_pending, finalize_pending,
  \* tcp_connection, written by inbound and read by outbound
  generation, rcv_nxt, send_window, terminated,
  \* tcp_connection, written by outbound (and reset by open) and read by inbound
  snd_nxt, out_flags,
  \* tcp_receiver::impl
  flows, free_slots, awaiting_release, ack_list, finalize_list, control,
  \* poll() in progress: program point, locals, events, stores of open() not yet visible
  rx_pc, rx, events, opening,
  \* sender call in progress: program point and locals
  tx_pc, tx,
  \* the application: ids it holds, and those it has close()d
  held, closed_ids,
  \* history: end of what the NIC has taken of each slot's send stream, and the
  \* events other than data of the slot's present connection
  wire_end, seen

connVars == <<state, tcb, ack_pending, finalize_pending>>
inVars == <<generation, rcv_nxt, send_window, terminated>>
outVars == <<snd_nxt, out_flags, wire_end>>
listVars == <<flows, free_slots, awaiting_release, ack_list, finalize_list, control>>
evVars == <<events, seen>>
rxVars == <<rx_pc, rx, evVars, opening>>
txVars == <<tx_pc, tx>>
appVars == <<held, closed_ids>>
vars == <<connVars, inVars, outVars, listVars, rxVars, txVars, appVars>>

-----------------------------------------------------------------------------
\* poll() locals between packets, and the sender's locals between calls

NoRx == [idx |-> npos, seg |-> <<>>, out |-> {}, n |-> 0, i |-> 1]
NoCall == [op |-> "none", conn |-> [slot |-> 0, generation |-> 0], pass |-> 1,
           out |-> {}, bytes |-> 0, base |-> 0, limit |-> 0, ack |-> 0,
           done |-> 0, off |-> 0, n |-> 0, attempt |-> 0, fin |-> <<>>]

NoTcb == [key |-> 0, send_mss |-> 0, iss |-> 0, irs |-> 0, rcv_nxt_local |-> 0,
          snd_una |-> 0, snd_wnd |-> 0, snd_wl1 |-> 0, snd_wl2 |-> 0]

StackInit ==
  /\ state = [s \in Slots |-> "free"]
  /\ tcb = [s \in Slots |-> NoTcb]
  /\ ack_pending = [s \in Slots |-> FALSE]
  /\ finalize_pending = [s \in Slots |-> FALSE]
  /\ generation = [s \in Slots |-> 0]
  /\ rcv_nxt = [s \in Slots |-> 0]
  /\ send_window = [s \in Slots |-> pack_window(0, 0)]
  /\ terminated = [s \in Slots |-> FALSE]
  /\ snd_nxt = [s \in Slots |-> 0]
  /\ out_flags = [s \in Slots |-> {}]
  /\ wire_end = [s \in Slots |-> 0] /\ seen = [s \in Slots |-> <<>>]
  /\ flows = [k \in Keys |-> npos]
  /\ free_slots = [i \in 1 .. MaxConnections |-> MaxConnections - i]
  /\ awaiting_release = <<>> /\ ack_list = <<>> /\ finalize_list = <<>>
  /\ control = <<>> /\ events = <<>> /\ opening = {}
  /\ rx_pc = "idle" /\ rx = NoRx
  /\ tx_pc = "idle" /\ tx = NoCall

\* The application knows no connection before the first accepted event.
Init == StackInit /\ held = {} /\ closed_ids = {}

-----------------------------------------------------------------------------
\* Helpers of tcp_receiver::impl

has(seg, f) == f \in seg.flags

\* An outgoing segment.
build_segment(k, flags, seq, ack, len) ==
  [key |-> k, flags |-> flags, seq |-> seq, ack |-> ack, len |-> len]

\* The control queue after queue_control(pkt): pkt is dropped when the queue is
\* full or build_segment found the pool exhausted.
queue_control(pkt) ==
  {control} \cup IF Len(control) < MaxControl THEN {Append(control, pkt)} ELSE {}

queue_ack(s) ==
  /\ ack_pending' = [ack_pending EXCEPT ![s] = TRUE]
  /\ ack_list' = IF ack_pending[s] THEN ack_list ELSE Append(ack_list, s)

schedule_finalize(s) ==
  /\ finalize_pending' = [finalize_pending EXCEPT ![s] = TRUE]
  /\ finalize_list' = IF finalize_pending[s] THEN finalize_list
                                             ELSE Append(finalize_list, s)

make_event(type, s, from, len) ==
  [type |-> type, conn |-> [slot |-> s, generation |-> generation[s]],
   from |-> from, len |-> len]

\* Events are pushed, in order; types are those other than data.
Emit(s, new, types) ==
  /\ events' = events \o new
  /\ seen' = [seen EXCEPT ![s] = @ \o types]

release_slot(s) ==
  /\ state' = [state EXCEPT ![s] = "free"]
  /\ ack_pending' = [ack_pending EXCEPT ![s] = FALSE]
  /\ finalize_pending' = [finalize_pending EXCEPT ![s] = FALSE]
  /\ free_slots' = Append(free_slots, s)

\* A segment that matches no connection is answered with a reset, unless it is one.
send_rst_for(seg) ==
  LET occupied == seg.len + (IF has(seg, "SYN") THEN 1 ELSE 0)
                          + (IF has(seg, "FIN") THEN 1 ELSE 0)
      rst == IF has(seg, "ACK")
             THEN build_segment(seg.key, {"RST"}, seg.ack, 0, 0)
             ELSE build_segment(seg.key, {"RST", "ACK"}, 0, SeqAdd(seg.seq, occupied), 0)
  IN  IF has(seg, "RST") THEN {control} ELSE queue_control(rst)

send_syn_ack(s) ==
  queue_control(build_segment(tcb[s].key, {"SYN", "ACK"}, tcb[s].iss,
                              tcb[s].rcv_nxt_local, 0))

\* Mutant: a FIN sent after the peer's is not looked for.
sync_out_flags_first(s) ==
  IF "fin_sent" \in out_flags[s] /\ state[s] = "established" THEN "fin_wait_1" ELSE state[s]

\* State after sync_out_flags: close() folded into the state machine.
sync_out_flags(s) ==
  CASE "fin_sent" \in out_flags[s] /\ state[s] = "established" -> "fin_wait_1"
    [] "fin_sent" \in out_flags[s] /\ state[s] = "close_wait" -> "last_ack"
    [] OTHER -> state[s]

rst_acceptable(s, seg) ==
  /\ seq_geq(seg.seq, tcb[s].rcv_nxt_local)
  /\ seq_lt(seg.seq, SeqAdd(tcb[s].rcv_nxt_local, ReceiveWindow))

\* The loop over the burst moves to the next packet.
NextPacket ==
  /\ rx_pc' = "process"
  /\ rx' = [NoRx EXCEPT !.n = rx.n + 1]

-----------------------------------------------------------------------------
\* tcp_receiver::poll: reap_released

PollStart ==
  /\ rx_pc = "idle"
  /\ rx_pc' = "reap"
  /\ rx' = NoRx
  /\ UNCHANGED <<connVars, inVars, outVars, listVars, evVars, opening, txVars, appVars>>

\* Mutant: the slot is recycled without waiting for close().
ReapUnreleased ==
  /\ rx_pc = "reap" /\ rx.i <= Len(awaiting_release)
  /\ release_slot(awaiting_release[rx.i])
  /\ awaiting_release' = pop_back([awaiting_release EXCEPT ![rx.i] = back(awaiting_release)])
  /\ UNCHANGED <<tcb, inVars, outVars, flows, ack_list, finalize_list, control,
                 rx, rx_pc, evVars, opening, txVars, appVars>>

\* Mutant: pop_back without first moving the last entry into the hole.
ReapPopsLast ==
  /\ rx_pc = "reap" /\ rx.i <= Len(awaiting_release)
  /\ LET idx == awaiting_release[rx.i]
     IN  \/ /\ "released" \in out_flags[idx]
            /\ release_slot(idx)
            /\ awaiting_release' = pop_back(awaiting_release)
            /\ rx' = rx
         \/ /\ "released" \notin out_flags[idx]
            /\ rx' = [rx EXCEPT !.i = @ + 1]
            /\ UNCHANGED <<state, ack_pending, finalize_pending, free_slots, awaiting_release>>
  /\ UNCHANGED <<tcb, inVars, outVars, flows, ack_list, finalize_list, control,
                 rx_pc, evVars, opening, txVars, appVars>>

\* One round of the loop: a released slot goes back to the free list, and the
\* last entry of awaiting_release takes its place.
ReapReleased ==
  /\ rx_pc = "reap" /\ rx.i <= Len(awaiting_release)
  /\ LET idx == awaiting_release[rx.i]
     IN  \/ /\ "released" \in out_flags[idx]
            /\ release_slot(idx)
            /\ awaiting_release' =
                 pop_back([awaiting_release EXCEPT ![rx.i] = back(awaiting_release)])
            /\ rx' = rx
         \/ /\ "released" \notin out_flags[idx]
            /\ rx' = [rx EXCEPT !.i = @ + 1]
            /\ UNCHANGED <<state, ack_pending, finalize_pending, free_slots, awaiting_release>>
  /\ UNCHANGED <<tcb, inVars, outVars, flows, ack_list, finalize_list, control,
                 rx_pc, evVars, opening, txVars, appVars>>

ReapDone ==
  /\ rx_pc = "reap" /\ rx.i > Len(awaiting_release)
  /\ rx_pc' = "process" /\ rx' = NoRx
  /\ UNCHANGED <<connVars, inVars, outVars, listVars, evVars, opening, txVars, appVars>>

-----------------------------------------------------------------------------
\* process() and process_tcp(): the packets of the burst.  A packet process()
\* discards (not ARP or TCP for us, malformed, bad checksum, a fragment) changes
\* nothing but a counter and is not an action.

Receiving == rx_pc = "process" /\ rx.n < MaxBurst

\* handle_arp: the reply, when one is due, is a control segment.
ReceiveArp ==
  /\ Receiving
  /\ control' \in queue_control(build_segment(0, {}, 0, 0, 0))
  /\ NextPacket
  /\ UNCHANGED <<connVars, inVars, outVars, flows, free_slots, awaiting_release,
                 ack_list, finalize_list, evVars, opening, txVars, appVars>>

IsOpen(seg) == has(seg, "SYN") /\ ~has(seg, "ACK") /\ ~has(seg, "RST")
               /\ seg.key \in ListenKeys

\* No flow and no listener, or a SYN with every slot in use.
ReceiveUnknown(seg) ==
  /\ Receiving /\ flows[seg.key] = npos
  /\ IsOpen(seg) => free_slots = <<>>
  /\ control' \in send_rst_for(seg)
  /\ NextPacket
  /\ UNCHANGED <<connVars, inVars, outVars, flows, free_slots, awaiting_release,
                 ack_list, finalize_list, evVars, opening, txVars, appVars>>

\* Mutant: the generation wraps to 0.
NextGenerationWraps(g) == (g + 1) % GenMod

NextGeneration(g) == IF (g + 1) % GenMod = 0 THEN 1 ELSE g + 1

\* open() up to its first atomic store: the slot leaves the free list and its
\* private fields are written.  The application has forgotten an id before the
\* slot's generation comes round to it again.
Open(seg, iss) ==
  /\ Receiving /\ flows[seg.key] = npos
  /\ IsOpen(seg) /\ free_slots # <<>>
  /\ LET idx == back(free_slots)
     IN  /\ [slot |-> idx, generation |-> NextGeneration(generation[idx])] \notin held
         /\ free_slots' = pop_back(free_slots)
         /\ tcb' = [tcb EXCEPT ![idx] =
                      [key |-> seg.key, send_mss |-> IF seg.mss < Mss THEN seg.mss ELSE Mss,
                       iss |-> iss, irs |-> seg.seq, rcv_nxt_local |-> SeqAdd(seg.seq, 1),
                       snd_una |-> iss, snd_wnd |-> seg.window,
                       snd_wl1 |-> seg.seq, snd_wl2 |-> 0]]
         /\ state' = [state EXCEPT ![idx] = "syn_received"]
         /\ ack_pending' = [ack_pending EXCEPT ![idx] = FALSE]
         /\ finalize_pending' = [finalize_pending EXCEPT ![idx] = FALSE]
         /\ rx' = [rx EXCEPT !.idx = idx]
  /\ opening' = OpenStores
  /\ rx_pc' = "open"
  /\ UNCHANGED <<inVars, outVars, flows, awaiting_release, ack_list, finalize_list,
                 control, evVars, txVars, appVars>>

\* One of open()'s relaxed stores becomes visible to the outbound thread.
OpenStore(f) ==
  /\ rx_pc = "open" /\ f \in opening
  /\ opening' = opening \ {f}
  /\ LET s == rx.idx
         Stored(g, x, v) == IF f = g THEN [x EXCEPT ![s] = v] ELSE x
     IN  /\ generation' = Stored("generation", generation, NextGeneration(generation[s]))
         /\ rcv_nxt' = Stored("rcv_nxt", rcv_nxt, tcb[s].rcv_nxt_local)
         /\ send_window' = Stored("send_window", send_window,
                                  pack_window(tcb[s].snd_una, tcb[s].snd_wnd))
         /\ terminated' = Stored("terminated", terminated, FALSE)
         /\ snd_nxt' = Stored("snd_nxt", snd_nxt, SeqAdd(tcb[s].iss, 1))
         /\ wire_end' = Stored("snd_nxt", wire_end, SeqAdd(tcb[s].iss, 1))
  /\ UNCHANGED <<connVars, out_flags, listVars, rx_pc, rx, evVars, txVars, appVars>>

\* Mutant: out_flags may become visible before the stores above it (a relaxed store).
OpenPublishRelaxed ==
  /\ rx_pc = "open"
  /\ out_flags' = [out_flags EXCEPT ![rx.idx] = {}]
  /\ flows' = [flows EXCEPT ![tcb[rx.idx].key] = rx.idx]
  /\ control' \in send_syn_ack(rx.idx)
  /\ seen' = [seen EXCEPT ![rx.idx] = <<>>]
  /\ NextPacket
  /\ UNCHANGED <<connVars, inVars, snd_nxt, wire_end, free_slots, awaiting_release,
                 ack_list, finalize_list, events, opening, txVars, appVars>>

\* The release store of out_flags, after which open() publishes the flow and
\* answers with a SYN-ACK.
OpenPublish ==
  /\ rx_pc = "open" /\ opening = {}
  /\ out_flags' = [out_flags EXCEPT ![rx.idx] = {}]
  /\ flows' = [flows EXCEPT ![tcb[rx.idx].key] = rx.idx]
  /\ control' \in send_syn_ack(rx.idx)
  /\ seen' = [seen EXCEPT ![rx.idx] = <<>>]
  /\ NextPacket
  /\ UNCHANGED <<connVars, inVars, snd_nxt, wire_end, free_slots, awaiting_release,
                 ack_list, finalize_list, events, opening, txVars, appVars>>

-----------------------------------------------------------------------------
\* process_segment()

Matches(seg) == Receiving /\ flows[seg.key] # npos

\* Free or closed: a straggler, ignored until finalize.
SegmentIgnored(seg) ==
  /\ Matches(seg) /\ sync_out_flags(flows[seg.key]) \in {"free", "closed"}
  /\ NextPacket
  /\ UNCHANGED <<connVars, inVars, outVars, listVars, evVars, opening, txVars, appVars>>

\* syn_received, reset: never accepted, so the slot is recycled at once.
HandshakeReset(seg) ==
  LET s == flows[seg.key]
      st == sync_out_flags(s)
  IN  /\ Matches(seg) /\ st = "syn_received"
      /\ has(seg, "RST")
      /\ IF rst_acceptable(s, seg)
         THEN /\ flows' = [flows EXCEPT ![tcb[s].key] = npos]
              /\ release_slot(s)
         ELSE UNCHANGED <<flows, state, ack_pending, finalize_pending, free_slots>>
      /\ NextPacket
      /\ UNCHANGED <<tcb, inVars, outVars, awaiting_release, ack_list, finalize_list,
                     control, evVars, opening, txVars, appVars>>

\* syn_received, anything that does not complete the handshake: a duplicate SYN is
\* answered again, an ACK of something else with a reset.
HandshakePending(seg) ==
  LET s == flows[seg.key]
      st == sync_out_flags(s)
  IN  /\ Matches(seg) /\ st = "syn_received"
      /\ ~has(seg, "RST")
      /\ \/ /\ has(seg, "SYN")
            /\ control' \in IF ~has(seg, "ACK") /\ seg.seq = tcb[s].irs
                            THEN send_syn_ack(s) ELSE {control}
         \/ /\ ~has(seg, "SYN") /\ ~has(seg, "ACK")
            /\ control' = control
         \/ /\ ~has(seg, "SYN") /\ has(seg, "ACK") /\ seg.ack # SeqAdd(tcb[s].iss, 1)
            /\ control' \in send_rst_for(seg)
      /\ NextPacket
      /\ UNCHANGED <<connVars, inVars, outVars, flows, free_slots, awaiting_release,
                     ack_list, finalize_list, evVars, opening, txVars, appVars>>

\* syn_received, the handshake's final ACK; its payload is next.
HandshakeAck(seg) ==
  LET s == flows[seg.key]
      st == sync_out_flags(s)
  IN  /\ Matches(seg) /\ st = "syn_received"
      /\ has(seg, "ACK") /\ ~has(seg, "RST") /\ ~has(seg, "SYN")
      /\ seg.ack = SeqAdd(tcb[s].iss, 1)
      /\ tcb' = [tcb EXCEPT ![s].snd_una = seg.ack, ![s].snd_wnd = seg.window,
                            ![s].snd_wl1 = seg.seq, ![s].snd_wl2 = seg.ack]
      /\ send_window' = [send_window EXCEPT ![s] = pack_window(seg.ack, seg.window)]
      /\ state' = [state EXCEPT ![s] = "established"]
      /\ Emit(s, <<make_event("accepted", s, 0, 0)>>, <<"accepted">>)
      /\ rx_pc' = "data"
      /\ rx' = [rx EXCEPT !.idx = s, !.seg = seg]
      /\ UNCHANGED <<ack_pending, finalize_pending, generation, rcv_nxt, terminated, outVars,
                     listVars, opening, txVars, appVars>>

Synchronized == TcpStates \ {"free", "syn_received", "closed"}

\* Mutant: a reset leaves the pending ACK in place.
SegmentResetKeepsAck(seg) ==
  LET s == flows[seg.key]
      st == sync_out_flags(s)
  IN  /\ Matches(seg) /\ st \in Synchronized
      /\ has(seg, "RST") /\ rst_acceptable(s, seg)
      /\ state' = [state EXCEPT ![s] = "closed"]
      /\ terminated' = [terminated EXCEPT ![s] = TRUE]
      /\ Emit(s, <<make_event("reset", s, 0, 0)>>, <<"reset">>)
      /\ schedule_finalize(s)
      /\ NextPacket
      /\ UNCHANGED <<tcb, ack_pending, generation, rcv_nxt, send_window, outVars, flows,
                     free_slots, awaiting_release, ack_list, control, opening, txVars, appVars>>

\* An acceptable RST terminates the connection; others are dropped.
SegmentReset(seg) ==
  LET s == flows[seg.key]
      st == sync_out_flags(s)
  IN  /\ Matches(seg) /\ st \in Synchronized
      /\ has(seg, "RST")
      /\ IF rst_acceptable(s, seg)
         THEN /\ state' = [state EXCEPT ![s] = "closed"]
              /\ terminated' = [terminated EXCEPT ![s] = TRUE]
              /\ ack_pending' = [ack_pending EXCEPT ![s] = FALSE]
              /\ Emit(s, <<make_event("reset", s, 0, 0)>>, <<"reset">>)
              /\ schedule_finalize(s)
         ELSE /\ state' = [state EXCEPT ![s] = st]
              /\ UNCHANGED <<terminated, ack_pending, evVars, finalize_pending, finalize_list>>
      /\ NextPacket
      /\ UNCHANGED <<tcb, generation, rcv_nxt, send_window, outVars, flows, free_slots,
                     awaiting_release, ack_list, control, opening, txVars, appVars>>

\* A SYN in a synchronized state draws a challenge ACK; a segment without ACK is dropped.
SegmentNotAck(seg) ==
  LET s == flows[seg.key]
      st == sync_out_flags(s)
  IN  /\ Matches(seg) /\ st \in Synchronized
      /\ ~has(seg, "RST")
      /\ \/ has(seg, "SYN") /\ queue_ack(s)
         \/ /\ ~has(seg, "SYN") /\ ~has(seg, "ACK")
            /\ UNCHANGED <<ack_pending, ack_list>>
      /\ state' = [state EXCEPT ![s] = st]
      /\ NextPacket
      /\ UNCHANGED <<tcb, finalize_pending, inVars, outVars, flows, free_slots, awaiting_release,
                     finalize_list, control, evVars, opening, txVars, appVars>>

\* Everything else goes to process_ack.
SegmentAck(seg) ==
  LET s == flows[seg.key]
      st == sync_out_flags(s)
  IN  /\ Matches(seg) /\ st \in Synchronized
      /\ has(seg, "ACK") /\ ~has(seg, "RST") /\ ~has(seg, "SYN")
      /\ state' = [state EXCEPT ![s] = st]
      /\ rx_pc' = "flags"
      /\ rx' = [rx EXCEPT !.idx = s, !.seg = seg]
      /\ UNCHANGED <<tcb, ack_pending, finalize_pending, inVars, outVars, listVars,
                     evVars, opening, txVars, appVars>>

-----------------------------------------------------------------------------
\* process_ack(): out_flags is loaded before snd_nxt

AckLoadFlags ==
  /\ rx_pc = "flags"
  /\ rx' = [rx EXCEPT !.out = out_flags[rx.idx]]
  /\ rx_pc' = "ack"
  /\ UNCHANGED <<connVars, inVars, outVars, listVars, evVars, opening, txVars, appVars>>

\* The segment acknowledges something never sent: re-ACK and drop it.
AckBeyond ==
  /\ rx_pc = "ack" /\ seq_gt(rx.seg.ack, snd_nxt[rx.idx])
  /\ queue_ack(rx.idx)
  /\ NextPacket
  /\ UNCHANGED <<state, tcb, finalize_pending, inVars, outVars, flows, free_slots,
                 awaiting_release, finalize_list, control, evVars, opening, txVars, appVars>>

\* SND.WL1/WL2: may this segment, given the send-unacknowledged mark una, update
\* the window?
UpdatesWindow(c, seg, una) ==
  /\ seq_geq(seg.ack, una)
  /\ \/ seq_lt(c.snd_wl1, seg.seq)
     \/ c.snd_wl1 = seg.seq /\ seq_leq(c.snd_wl2, seg.ack)

\* The connection's send side after an ACK no later than snd_nxt.
AckedTcb(c, seg) ==
  LET una == IF seq_gt(seg.ack, c.snd_una) THEN seg.ack ELSE c.snd_una
      acked == [c EXCEPT !.snd_una = una]
  IN  IF UpdatesWindow(c, seg, una)
      THEN [acked EXCEPT !.snd_wnd = seg.window, !.snd_wl1 = seg.seq, !.snd_wl2 = seg.ack]
      ELSE acked

\* Mutant: any ACK after close() is taken for one of the FIN.
FinAckedAny(seg) == "fin_sent" \in rx.out

\* The ACK covers the FIN that close() counted in snd_nxt.
FinAcked(seg) == "fin_sent" \in rx.out /\ seg.ack = snd_nxt[rx.idx]

\* The window is published (an unchanged one is stored again, which nobody can tell);
\* the ACK of our FIN moves the connection on, or ends it.
AckProcessed ==
  LET s == rx.idx
      c == AckedTcb(tcb[s], rx.seg)
  IN  /\ rx_pc = "ack" /\ ~seq_gt(rx.seg.ack, snd_nxt[s])
      /\ tcb' = [tcb EXCEPT ![s] = c]
      /\ send_window' = [send_window EXCEPT ![s] = pack_window(c.snd_una, c.snd_wnd)]
      /\ IF FinAcked(rx.seg) /\ state[s] \in {"closing", "last_ack"}
         THEN /\ state' = [state EXCEPT ![s] = "closed"]
              /\ terminated' = [terminated EXCEPT ![s] = TRUE]
              /\ Emit(s, <<make_event("closed", s, 0, 0)>>, <<"closed">>)
              /\ schedule_finalize(s)
              /\ NextPacket
         ELSE /\ state' = IF FinAcked(rx.seg) /\ state[s] = "fin_wait_1"
                          THEN [state EXCEPT ![s] = "fin_wait_2"] ELSE state
              /\ rx_pc' = "data"
              /\ UNCHANGED <<terminated, evVars, finalize_pending, finalize_list, rx>>
      /\ UNCHANGED <<ack_pending, generation, rcv_nxt, outVars, flows, free_slots,
                     awaiting_release, ack_list, control, opening, txVars, appVars>>

-----------------------------------------------------------------------------
\* process_data()

CanReceive(s) == state[s] \in {"established", "fin_wait_1", "fin_wait_2"}

\* Mutant: a segment past a gap is taken for the next one.
AheadNever(s, seg) == FALSE

\* The segment starts past the next byte expected.
Ahead(s, seg) == seq_gt(seg.seq, tcb[s].rcv_nxt_local)

\* Mutant: what was delivered before is delivered again.
TrimNothing(seg, next) == 0

\* Bytes at the front of the segment that were delivered before.
Trim(seg, next) == SeqSub(next, seg.seq)

\* Nothing to deliver: the peer already FINed, a pure ACK, or a gap.  Whatever
\* occupied sequence space is re-ACKed.
DataNotDelivered ==
  LET s == rx.idx
      occupies == rx.seg.len > 0 \/ has(rx.seg, "FIN")
  IN  /\ rx_pc = "data"
      /\ \/ ~CanReceive(s) /\ occupies /\ queue_ack(s)
         \/ CanReceive(s) /\ occupies /\ Ahead(s, rx.seg) /\ queue_ack(s)
         \/ ~occupies /\ UNCHANGED <<ack_pending, ack_list>>
      /\ NextPacket
      /\ UNCHANGED <<state, tcb, finalize_pending, inVars, outVars, flows, free_slots,
                     awaiting_release, finalize_list, control, evVars, opening, txVars, appVars>>

\* New bytes start at rcv_nxt: the front already delivered is trimmed.  A FIN that
\* ends exactly there is consumed.
DataDelivered ==
  LET s == rx.idx
      seg == rx.seg
      old == tcb[s].rcv_nxt_local
      end == SeqAdd(seg.seq, seg.len)
      fresh == seq_gt(end, old)
      skip == Trim(seg, old)
      upto == IF fresh THEN end ELSE old
      fin == has(seg, "FIN") /\ end = upto
      new == IF fin THEN SeqAdd(upto, 1) ELSE upto
  IN  /\ rx_pc = "data" /\ CanReceive(s)
      /\ seg.len > 0 \/ has(seg, "FIN")
      /\ ~Ahead(s, seg)
      /\ tcb' = [tcb EXCEPT ![s].rcv_nxt_local = new]
      /\ rcv_nxt' = [rcv_nxt EXCEPT ![s] = new]
      /\ queue_ack(s)
      /\ state' = [state EXCEPT ![s] =
                     CASE fin /\ state[s] = "established" -> "close_wait"
                       [] fin /\ state[s] = "fin_wait_1" -> "closing"
                       [] fin /\ state[s] = "fin_wait_2" -> "closed"
                       [] OTHER -> state[s]]
      /\ LET data == IF fresh THEN <<make_event("data", s, SeqAdd(seg.seq, skip), seg.len - skip)>>
                     ELSE <<>>
             why == CASE fin /\ state[s] = "established" -> <<"peer_closed">>
                      [] fin /\ state[s] = "fin_wait_2" -> <<"closed">>
                      [] OTHER -> <<>>
         IN  Emit(s, data \o [i \in DOMAIN why |-> make_event(why[i], s, 0, 0)], why)
      /\ IF fin /\ state[s] = "fin_wait_2"
         THEN schedule_finalize(s) /\ terminated' = [terminated EXCEPT ![s] = TRUE]
         ELSE UNCHANGED <<finalize_pending, finalize_list, terminated>>
      /\ NextPacket
      /\ UNCHANGED <<generation, send_window, outVars, flows, free_slots, awaiting_release,
                     control, opening, txVars, appVars>>

-----------------------------------------------------------------------------
\* The end of poll(): flush_acks, flush_control, finalize, return

EndBurst ==
  /\ rx_pc = "process"
  /\ rx_pc' = "acks" /\ rx' = NoRx
  /\ UNCHANGED <<connVars, inVars, outVars, listVars, evVars, opening, txVars, appVars>>

\* One entry of ack_list; an ACK cancelled by a reset is skipped.
FlushAck ==
  /\ rx_pc = "acks" /\ ack_list # <<>>
  /\ LET s == Head(ack_list)
     IN  /\ control' \in IF ack_pending[s]
                         THEN queue_control(build_segment(tcb[s].key, {"ACK"}, snd_nxt[s],
                                                          tcb[s].rcv_nxt_local, 0))
                         ELSE {control}
         /\ ack_pending' = [ack_pending EXCEPT ![s] = FALSE]
  /\ ack_list' = Tail(ack_list)
  /\ UNCHANGED <<state, tcb, finalize_pending, inVars, outVars, flows, free_slots,
                 awaiting_release, finalize_list, rxVars, txVars, appVars>>

\* The control queue takes the first sent segments; the others are dropped.
FlushControl(sent) ==
  /\ rx_pc = "acks" /\ ack_list = <<>>
  /\ sent \in 0 .. Len(control)
  /\ control' = <<>>
  /\ rx_pc' = "finalize"
  /\ UNCHANGED <<connVars, inVars, outVars, flows, free_slots, awaiting_release, ack_list,
                 finalize_list, rx, evVars, opening, txVars, appVars>>

\* Mutant: the slot is recycled whether or not close() came.
FinalizeRecycles ==
  /\ rx_pc = "finalize" /\ finalize_list # <<>>
  /\ LET s == Head(finalize_list)
     IN  flows' = [flows EXCEPT ![tcb[s].key] = npos] /\ release_slot(s)
  /\ finalize_list' = Tail(finalize_list)
  /\ UNCHANGED <<tcb, inVars, outVars, awaiting_release, ack_list, control, rxVars,
                 txVars, appVars>>

\* Mutant: the flow stays in the table.
FinalizeKeepsFlow ==
  /\ rx_pc = "finalize" /\ finalize_list # <<>>
  /\ LET s == Head(finalize_list)
     IN  IF "released" \in out_flags[s]
         THEN release_slot(s) /\ UNCHANGED awaiting_release
         ELSE /\ awaiting_release' = Append(awaiting_release, s)
              /\ finalize_pending' = [finalize_pending EXCEPT ![s] = FALSE]
              /\ UNCHANGED <<state, ack_pending, free_slots>>
  /\ finalize_list' = Tail(finalize_list)
  /\ UNCHANGED <<tcb, flows, inVars, outVars, ack_list, control, rxVars, txVars, appVars>>

\* Mutant: a slot not yet released is not remembered.
FinalizeForgets ==
  /\ rx_pc = "finalize" /\ finalize_list # <<>>
  /\ LET s == Head(finalize_list)
     IN  /\ flows' = [flows EXCEPT ![tcb[s].key] = npos]
         /\ IF "released" \in out_flags[s]
            THEN release_slot(s)
            ELSE /\ finalize_pending' = [finalize_pending EXCEPT ![s] = FALSE]
                 /\ UNCHANGED <<state, ack_pending, free_slots>>
  /\ finalize_list' = Tail(finalize_list)
  /\ UNCHANGED <<tcb, awaiting_release, inVars, outVars, ack_list, control, rxVars,
                 txVars, appVars>>

\* One entry of finalize_list: the flow goes, and the slot too if close() came first.
Finalize ==
  /\ rx_pc = "finalize" /\ finalize_list # <<>>
  /\ LET s == Head(finalize_list)
     IN  /\ flows' = [flows EXCEPT ![tcb[s].key] = npos]
         /\ IF "released" \in out_flags[s]
            THEN release_slot(s) /\ UNCHANGED awaiting_release
            ELSE /\ awaiting_release' = Append(awaiting_release, s)
                 /\ finalize_pending' = [finalize_pending EXCEPT ![s] = FALSE]
                 /\ UNCHANGED <<state, ack_pending, free_slots>>
  /\ finalize_list' = Tail(finalize_list)
  /\ UNCHANGED <<tcb, inVars, outVars, ack_list, control, rxVars, txVars, appVars>>

\* poll() returns its events; the application hands accepted ids to the outbound thread.
PollReturn ==
  /\ rx_pc = "finalize" /\ finalize_list = <<>>
  /\ held' = held \cup {e.conn : e \in {f \in Range(events) : f.type = "accepted"}}
  /\ events' = <<>>
  /\ rx_pc' = "idle" /\ rx' = NoRx
  /\ UNCHANGED <<connVars, inVars, outVars, listVars, seen, opening, txVars, closed_ids>>

-----------------------------------------------------------------------------
\* tcp_sender: lookup(), shared by every call

Call(op, id, bytes) ==
  /\ tx_pc = "idle" /\ id \in held
  /\ tx_pc' = "generation"
  /\ tx' = [NoCall EXCEPT !.op = op, !.conn = id, !.bytes = bytes]
  /\ UNCHANGED <<connVars, inVars, outVars, listVars, rxVars, appVars>>

Return == tx_pc' = "idle" /\ tx' = NoCall

\* lookup() returned null.  After a successful sendable(), send() and send_space()
\* dereference the second lookup's result without a check.
LookupNull ==
  IF tx.pass = 2 THEN tx_pc' = "fault" /\ tx' = tx ELSE Return

LookupGeneration ==
  /\ tx_pc = "generation"
  /\ IF generation[tx.conn.slot] = tx.conn.generation
     THEN tx_pc' = "out_flags" /\ tx' = tx
     ELSE LookupNull
  /\ UNCHANGED <<connVars, inVars, outVars, listVars, rxVars, appVars>>

LookupFlags ==
  /\ tx_pc = "out_flags"
  /\ tx' = [tx EXCEPT !.out = out_flags[tx.conn.slot]]
  /\ tx_pc' = "recheck"
  /\ UNCHANGED <<connVars, inVars, outVars, listVars, rxVars, appVars>>

\* Mutant: lookup() does not look at the released flag.
LookupIgnoresReleased ==
  /\ tx_pc = "recheck"
  /\ IF generation[tx.conn.slot] # tx.conn.generation
     THEN LookupNull
     ELSE /\ tx_pc' = IF tx.op = "close" THEN "close"
                      ELSE IF tx.pass = 1 THEN "sendable" ELSE "limit"
          /\ tx' = tx
  /\ UNCHANGED <<connVars, inVars, outVars, listVars, rxVars, appVars>>

\* The caller goes on with the slot: close() at once, send() and send_space() through
\* sendable() first.
LookupRecheck ==
  /\ tx_pc = "recheck"
  /\ IF generation[tx.conn.slot] # tx.conn.generation \/ "released" \in tx.out
     THEN LookupNull
     ELSE /\ tx_pc' = IF tx.op = "close" THEN "close"
                      ELSE IF tx.pass = 1 THEN "sendable" ELSE "limit"
          /\ tx' = tx
  /\ UNCHANGED <<connVars, inVars, outVars, listVars, rxVars, appVars>>

-----------------------------------------------------------------------------
\* tcp_sender::sendable, send_space and send

Sendable ==
  /\ tx_pc = "sendable"
  /\ IF "fin_sent" \notin out_flags[tx.conn.slot] /\ ~terminated[tx.conn.slot]
     THEN tx_pc' = "generation" /\ tx' = [tx EXCEPT !.pass = 2]
     ELSE Return
  /\ UNCHANGED <<connVars, inVars, outVars, listVars, rxVars, appVars>>

\* send_space() returns here; send() takes what the window has room for.
SendLimit ==
  LET s == tx.conn.slot
      space == window_space(send_window[s], snd_nxt[s])
      limit == IF tx.bytes < space THEN tx.bytes ELSE space
  IN  /\ tx_pc = "limit"
      /\ IF tx.op = "send_space" \/ limit = 0
         THEN Return
         ELSE /\ tx' = [tx EXCEPT !.base = snd_nxt[s], !.limit = limit]
              /\ tx_pc' = "rcv_nxt"
      /\ UNCHANGED <<connVars, inVars, outVars, listVars, rxVars, appVars>>

SendLoadAck ==
  /\ tx_pc = "rcv_nxt"
  /\ tx' = [tx EXCEPT !.ack = rcv_nxt[tx.conn.slot]]
  /\ tx_pc' = "build"
  /\ UNCHANGED <<connVars, inVars, outVars, listVars, rxVars, appVars>>

\* Offset just past the n-th segment of the burst being built.
SegEnd(n) ==
  LET end == tx.done + n * tcb[tx.conn.slot].send_mss
  IN  IF end < tx.limit THEN end ELSE tx.limit

\* Mutant: snd_nxt is left for after the transmission.
SendBuildUnpublished(n) ==
  /\ tx_pc = "build"
  /\ n = 0 \/ SegEnd(n - 1) < tx.limit
  /\ IF n = 0 THEN Return
     ELSE tx' = [tx EXCEPT !.n = n, !.off = SegEnd(n)] /\ tx_pc' = "burst"
  /\ UNCHANGED <<connVars, inVars, outVars, listVars, rxVars, appVars>>

\* A burst of n segments is built: the limit, a full burst or an empty pool ends it.
\* snd_nxt is published before any of them is transmitted.
SendBuild(n) ==
  LET s == tx.conn.slot
  IN  /\ tx_pc = "build"
      /\ n = 0 \/ SegEnd(n - 1) < tx.limit
      /\ IF n = 0
         THEN Return /\ UNCHANGED snd_nxt
         ELSE /\ tx' = [tx EXCEPT !.n = n, !.off = SegEnd(n)]
              /\ tx_pc' = "burst"
              /\ snd_nxt' = [snd_nxt EXCEPT ![s] = SeqAdd(tx.base, SegEnd(n))]
      /\ UNCHANGED <<connVars, inVars, out_flags, wire_end, listVars, rxVars, appVars>>

\* The data queue takes the first sent segments of the burst.
SendBurst(sent) ==
  LET s == tx.conn.slot
  IN  /\ tx_pc = "burst" /\ sent \in 0 .. tx.n
      /\ wire_end' = IF sent = 0 THEN wire_end
                     ELSE [wire_end EXCEPT ![s] = SeqAdd(tx.base, SegEnd(sent))]
      /\ CASE sent < tx.n ->
                tx_pc' = "pull_back" /\ tx' = [tx EXCEPT !.done = SegEnd(sent)]
           [] sent = tx.n /\ tx.off < tx.limit /\ tx.n = MaxBurst ->
                tx_pc' = "build" /\ tx' = [tx EXCEPT !.done = tx.off]
           [] OTHER -> Return
      /\ UNCHANGED <<connVars, inVars, snd_nxt, out_flags, listVars, rxVars, appVars>>

\* Mutant: a partial burst leaves snd_nxt ahead of the wire.
SendKeepsAhead ==
  /\ tx_pc = "pull_back"
  /\ Return
  /\ UNCHANGED <<connVars, inVars, outVars, listVars, rxVars, appVars>>

\* snd_nxt goes back to the end of the last segment the NIC took.
SendPullBack ==
  /\ tx_pc = "pull_back"
  /\ snd_nxt' = [snd_nxt EXCEPT ![tx.conn.slot] = SeqAdd(tx.base, tx.done)]
  /\ Return
  /\ UNCHANGED <<connVars, inVars, out_flags, wire_end, listVars, rxVars, appVars>>

-----------------------------------------------------------------------------
\* tcp_sender::close

\* Mutant: fin_sent is stored before the snd_nxt that counts the FIN.
CloseFlagsFirst ==
  LET s == tx.conn.slot
  IN  /\ tx_pc = "close"
      /\ IF "fin_sent" \notin out_flags[s] /\ ~terminated[s]
         THEN /\ tx_pc' = "count_fin"
              /\ out_flags' = [out_flags EXCEPT ![s] = @ \cup {"fin_sent"}]
         ELSE tx_pc' = "release" /\ UNCHANGED out_flags
      /\ tx' = tx
      /\ UNCHANGED <<connVars, inVars, snd_nxt, wire_end, listVars, rxVars, appVars>>

CloseCheck ==
  /\ tx_pc = "close"
  /\ tx_pc' = IF "fin_sent" \notin out_flags[tx.conn.slot] /\ ~terminated[tx.conn.slot]
              THEN "count_fin" ELSE "release"
  /\ tx' = tx
  /\ UNCHANGED <<connVars, inVars, outVars, listVars, rxVars, appVars>>

CloseCountFin ==
  LET s == tx.conn.slot
  IN  /\ tx_pc = "count_fin"
      /\ tx' = [tx EXCEPT !.base = snd_nxt[s]]
      /\ snd_nxt' = [snd_nxt EXCEPT ![s] = SeqAdd(@, 1)]
      /\ tx_pc' = "flag_fin"
      /\ UNCHANGED <<connVars, inVars, out_flags, wire_end, listVars, rxVars, appVars>>

CloseFlagFin ==
  /\ tx_pc = "flag_fin"
  /\ out_flags' = [out_flags EXCEPT ![tx.conn.slot] = @ \cup {"fin_sent"}]
  /\ tx_pc' = "fin" /\ tx' = tx
  /\ UNCHANGED <<connVars, inVars, snd_nxt, wire_end, listVars, rxVars, appVars>>

\* The FIN, once built, keeps the acknowledgement loaded when it was built.
FinAck == IF tx.fin = <<>> THEN <<rcv_nxt[tx.conn.slot]>> ELSE tx.fin

CloseSendFin ==
  /\ tx_pc = "fin" /\ tx.attempt < CloseRetries
  /\ wire_end' = [wire_end EXCEPT ![tx.conn.slot] = SeqAdd(tx.base, 1)]
  /\ tx' = [tx EXCEPT !.fin = FinAck]
  /\ tx_pc' = "release"
  /\ UNCHANGED <<connVars, inVars, snd_nxt, out_flags, listVars, rxVars, appVars>>

\* The pool was empty, or the FIN was built but the ring was full.
CloseRetry(built) ==
  /\ tx_pc = "fin" /\ tx.attempt < CloseRetries
  /\ tx' = [tx EXCEPT !.attempt = @ + 1, !.fin = IF built THEN FinAck ELSE tx.fin]
  /\ UNCHANGED <<connVars, inVars, outVars, listVars, rxVars, tx_pc, appVars>>

CloseGiveUp ==
  /\ tx_pc = "fin" /\ tx.attempt = CloseRetries
  /\ tx_pc' = "release" /\ tx' = tx
  /\ UNCHANGED <<connVars, inVars, outVars, listVars, rxVars, appVars>>

\* The last touch of the slot by this thread.
CloseRelease ==
  /\ tx_pc = "release"
  /\ out_flags' = [out_flags EXCEPT ![tx.conn.slot] = @ \cup {"released"}]
  /\ closed_ids' = closed_ids \cup {tx.conn}
  /\ Return
  /\ UNCHANGED <<connVars, inVars, snd_nxt, wire_end, listVars, rxVars, held>>

\* The application drops an id it has closed.
Forget(id) ==
  /\ id \in closed_ids
  /\ tx_pc = "idle" \/ tx.conn # id
  /\ held' = held \ {id} /\ closed_ids' = closed_ids \ {id}
  /\ UNCHANGED <<connVars, inVars, outVars, listVars, rxVars, txVars>>

-----------------------------------------------------------------------------
ProcessSegment(seg) ==
  \/ SegmentIgnored(seg) \/ HandshakeReset(seg) \/ HandshakePending(seg)
  \/ HandshakeAck(seg) \/ SegmentReset(seg) \/ SegmentNotAck(seg) \/ SegmentAck(seg)

\* The network delivers a packet of the burst.
Receive ==
  \/ ReceiveArp
  \/ \E seg \in Segments : \/ ReceiveUnknown(seg) \/ ProcessSegment(seg)
                           \/ \E iss \in Iss : Open(seg, iss)

\* What poll() does by itself.
Inbound ==
  \/ PollStart \/ ReapReleased \/ ReapDone
  \/ (\E f \in opening : OpenStore(f)) \/ OpenPublish
  \/ AckLoadFlags \/ AckBeyond \/ AckProcessed \/ DataNotDelivered \/ DataDelivered
  \/ EndBurst \/ FlushAck \/ (\E sent \in 0 .. Len(control) : FlushControl(sent))
  \/ Finalize \/ PollReturn

\* What a sender call does once made.
Outbound ==
  \/ LookupGeneration \/ LookupFlags \/ LookupRecheck
  \/ Sendable \/ SendLimit \/ SendLoadAck
  \/ (\E n \in 0 .. MaxBurst : SendBuild(n)) \/ (\E sent \in 0 .. MaxBurst : SendBurst(sent))
  \/ SendPullBack
  \/ CloseCheck \/ CloseCountFin \/ CloseFlagFin \/ CloseSendFin
  \/ (\E built \in BOOLEAN : CloseRetry(built)) \/ CloseGiveUp \/ CloseRelease

Application ==
  \E id \in held : \/ \E bytes \in 1 .. MaxSend : Call("send", id, bytes)
                   \/ Call("send_space", id, 0)
                   \/ Call("close", id, 0)
                   \/ Forget(id)

Next == Receive \/ Inbound \/ Outbound \/ Application

Spec == Init /\ [][Next]_vars

-----------------------------------------------------------------------------
\* Properties

TcbType == [key : Keys \cup {0}, send_mss : Nat, iss : SeqNums, irs : SeqNums,
            rcv_nxt_local : SeqNums, snd_una : SeqNums, snd_wnd : Nat,
            snd_wl1 : SeqNums, snd_wl2 : SeqNums]
WindowType == [una : SeqNums, wnd : Nat]
RxPoints == {"idle", "reap", "process", "open", "flags", "ack", "data", "acks", "finalize"}
TxPoints == {"idle", "generation", "out_flags", "recheck", "sendable", "limit", "rcv_nxt",
             "build", "burst", "pull_back", "close", "count_fin", "flag_fin", "fin",
             "release", "fault"}
RxType == [idx : Slots \cup {npos}, seg : Segments \cup {<<>>}, out : SUBSET OutFlags,
           n : Nat, i : Nat \ {0}]
TxType == [op : {"none", "send", "send_space", "close"}, conn : ConnIds, pass : {1, 2},
           out : SUBSET OutFlags, bytes : Nat, base : SeqNums, limit : Nat, ack : SeqNums,
           done : Nat, off : Nat, n : Nat, attempt : Nat, fin : Seq(SeqNums)]
EventType == [type : {"accepted", "data", "peer_closed", "closed", "reset"}, conn : ConnIds,
              from : SeqNums, len : Int]

ConnType ==
  /\ state \in [Slots -> TcpStates] /\ tcb \in [Slots -> TcbType]
  /\ ack_pending \in [Slots -> BOOLEAN] /\ finalize_pending \in [Slots -> BOOLEAN]
SharedType ==
  /\ generation \in [Slots -> Generations]
  /\ rcv_nxt \in [Slots -> SeqNums] /\ send_window \in [Slots -> WindowType]
  /\ terminated \in [Slots -> BOOLEAN]
  /\ snd_nxt \in [Slots -> SeqNums] /\ out_flags \in [Slots -> SUBSET OutFlags]
ListType ==
  /\ flows \in [Keys -> Slots \cup {npos}]
  /\ free_slots \in Seq(Slots) /\ awaiting_release \in Seq(Slots)
  /\ ack_list \in Seq(Slots) /\ finalize_list \in Seq(Slots)
PollType ==
  /\ rx_pc \in RxPoints /\ rx \in RxType
  /\ rx_pc \in {"open", "flags", "ack", "data"} => rx.idx \in Slots
  /\ rx_pc \in {"flags", "ack", "data"} => rx.seg \in Segments
  /\ events \in Seq(EventType) /\ opening \subseteq OpenStores
CallType == tx_pc \in TxPoints /\ tx \in TxType
AppType == held \subseteq ConnIds /\ closed_ids \subseteq held

TypeOK == ConnType /\ SharedType /\ ListType /\ PollType /\ CallType /\ AppType

\* The slot the outbound thread works on: from a successful lookup to its last touch.
Holding ==
  \/ tx_pc \in {"sendable", "limit", "rcv_nxt", "build", "burst", "pull_back",
                "close", "count_fin", "flag_fin", "fin", "release"}
  \/ tx.pass = 2

\* Between a successful lookup and the end of the call the inbound thread neither
\* recycles nor re-initialises the slot: the outbound thread never reads another
\* connection's addressing, nor writes another connection's snd_nxt or out_flags.
SlotNotRecycled ==
  Holding => LET s == tx.conn.slot
             IN  /\ generation[s] = tx.conn.generation
                 /\ state[s] \notin {"free", "syn_received"}
                 /\ "released" \notin out_flags[s]

\* An id that was close()d never resolves again, even while the slot is being
\* re-initialised for its next connection (lookup's re-check against open's store order).
StaleIdNeverResolves == Holding => tx.conn \notin closed_ids

\* The unchecked second lookup of send() and send_space() never returns null.
NoNullDereference == tx_pc # "fault"

\* Why the three properties above hold.  An id the application holds, while it is the
\* slot's present generation, belongs to an accepted connection or to one released by
\* close(); a closed one is released.
HeldIdsReleased ==
  \A id \in held :
    generation[id.slot] = id.generation
      => (state[id.slot] \in {"free", "syn_received"} \/ id \in closed_ids
           => "released" \in out_flags[id.slot])

\* The same for the ids of this poll()'s events, which the application does not have yet:
\* no slot is recycled before finalize().
EventIdsCurrent ==
  /\ rx_pc \in {"idle", "reap"} => events = <<>>
  /\ \A i \in DOMAIN events :
       LET id == events[i].conn
       IN  /\ generation[id.slot] = id.generation
           /\ state[id.slot] \in {"free", "syn_received"}
                => rx_pc = "finalize" /\ "released" \in out_flags[id.slot]

\* The generation open() gives a slot is one the application has no id of.
OpenFresh ==
  rx_pc = "open" =>
    LET s == rx.idx
        g == IF "generation" \in opening THEN NextGeneration(generation[s]) ELSE generation[s]
    IN  state[s] = "syn_received" /\ [slot |-> s, generation |-> g] \notin held

\* A sender call works on an id the application holds; the flags it loaded do not
\* outlive a release.
CallHoldsId ==
  /\ IF tx_pc = "idle" THEN tx.pass = 1 ELSE tx.conn \in held
  /\ tx_pc = "recheck" =>
       /\ "released" \notin tx.out => "released" \notin out_flags[tx.conn.slot]
       /\ tx.pass = 2 => "released" \notin tx.out

\* How ids, generations, flags and slots belong together at every step of the two threads.
IdsTrackSlots == HeldIdsReleased /\ EventIdsCurrent /\ OpenFresh /\ CallHoldsId

\* Free list, awaiting_release and finalize_list account for every slot exactly once:
\* none is leaked, none is on two lists, none is freed twice.
SlotsAccounted ==
  /\ IsInjective(free_slots) /\ IsInjective(awaiting_release) /\ IsInjective(finalize_list)
  /\ \A s \in Slots :
       /\ (state[s] = "free") <=> s \in Range(free_slots)
       /\ (state[s] = "closed") <=> s \in Range(awaiting_release) \cup Range(finalize_list)
       /\ finalize_pending[s] <=> s \in Range(finalize_list)
       /\ ~(s \in Range(awaiting_release) /\ s \in Range(finalize_list))

\* The flow table holds exactly the connections that are neither free, nor waiting for
\* close(), nor half-way through open().
FlowsExact ==
  \A k \in Keys, s \in Slots :
    flows[k] = s <=> /\ state[s] # "free" /\ tcb[s].key = k
                     /\ s \notin Range(awaiting_release)
                     /\ ~(rx_pc = "open" /\ rx.idx = s)

\* The peer has acknowledged our FIN, as far as the inbound thread is concerned.
FinDone(s) == state[s] = "fin_wait_2" \/ (state[s] = "closed" /\ back(seen[s]) = "closed")

\* The connection passes to fin_wait_2, or closes cleanly, only on an ACK of the number the
\* send stream ends at for good: fin_sent is always paired with the snd_nxt that counts
\* the FIN, and nothing is sent or taken back after it.
FinAckedTruly ==
  [][\A s \in Slots : FinDone(s)' => IF FinDone(s) THEN snd_nxt'[s] = snd_nxt[s]
                                                   ELSE rx.seg.ack = snd_nxt'[s]]_vars

\* A pending ACK belongs to a connection that was accepted and not reset, and is once on
\* the list that flush_acks walks.
AckPendingLive ==
  /\ IsInjective(ack_list)
  /\ \A s \in Slots :
       ack_pending[s] => /\ s \in Range(ack_list)
                         /\ seen[s] # <<>> /\ back(seen[s]) # "reset"

\* The slot has a connection open() has published.
InUse(s) == state[s] # "free" /\ ~(rx_pc = "open" /\ rx.idx = s)

\* "Generations start at 1: a value-initialized conn_id is never valid"
\* (src/include/tcp_stack.h), also after a slot's generation has wrapped: no connection
\* has generation 0, nor does any id the application was given.
GenerationsFromOne ==
  /\ \A s \in Slots : InUse(s) => generation[s] # 0
  /\ \A id \in held : id.generation # 0

\* snd_nxt as published is never behind what is on the wire.
SndNxtCoversWire ==
  \A s \in Slots : InUse(s) => seq_leq(wire_end[s], snd_nxt[s])

\* Between calls snd_nxt is exactly the end of what the NIC took: a partial burst
\* leaves neither a gap nor a byte sent twice.
SndNxtExactBetweenCalls ==
  \A s \in Slots :
    InUse(s) /\ "fin_sent" \notin out_flags[s] /\ (tx_pc = "idle" \/ tx.conn.slot # s)
    => snd_nxt[s] = wire_end[s]

\* The data events of the slot that a step pushes.
PushedData(s) ==
  {i \in DOMAIN events' \ DOMAIN events : events'[i].type = "data" /\ events'[i].conn.slot = s}

\* A step takes n bytes of the slot's connection, those that come next, and its FIN when
\* fin is 1.
Takes(s, n, fin) ==
  /\ tcb'[s].rcv_nxt_local = SeqAdd(tcb[s].rcv_nxt_local, n + fin)
  /\ n + fin > 0 => CanReceive(s)
  /\ fin = 1 => ~CanReceive(s)'
  /\ IF n = 0 THEN PushedData(s) = {}
     ELSE \E i \in PushedData(s) : /\ PushedData(s) = {i}
                                   /\ events'[i] = make_event("data", s, tcb[s].rcv_nxt_local, n)

\* Whatever segments come, overlapping, repeated, early or late, the data events of a
\* connection are its bytes without a gap and without a byte twice: each starts where
\* rcv_nxt stands, which moves past it and, once, past the peer's FIN, after which
\* nothing is delivered.
DeliveredInOrder ==
  [][\A s \in Slots : IF state[s] = "free" THEN PushedData(s) = {}
                      ELSE \E n \in 0 .. (SeqSize \div 2), fin \in {0, 1} : Takes(s, n, fin)]_vars

\* The fixed arrays of poll() never overflow: events_ has no bounds check, the other
\* lists were reserved once.
ListsFit ==
  /\ Len(control) + Len(ack_list) <= MaxControl
  /\ Len(ack_list) <= MaxBurst /\ Len(finalize_list) <= MaxBurst
  /\ Len(events) <= MaxEvents

\* A slot whose connection is over and was close()d comes back to the free list.
SlotReclaimed ==
  \A s \in Slots : (state[s] = "closed" /\ "released" \in out_flags[s])
                   ~> (state[s] = "free")
=============================================================================
