------------------------- MODULE TcpLifecycleProofs -------------------------
(***************************************************************************)
(* What TcpStack promises of its connections, for any number of slots,     *)
(* keys and segments.  The flow table holds exactly the connections it     *)
(* should, and the fixed arrays of poll() never overflow.                  *)
(*                                                                         *)
(* The endpoint implements the life cycle it promises the application:     *)
(* every step of both threads is a step of ConnLifecycle or invisible to   *)
(* it.  LogInv relates the state of a connection to the events it has      *)
(* reported.  On it rest two results about ACKs: the FIN is taken for      *)
(* acknowledged only when it was, and an ACK is due only on a connection   *)
(* that was accepted and not reset.                                        *)
(*                                                                         *)
(* Whatever the network brings, the bytes of a connection are delivered in *)
(* order and once, and the ACK number its sender uses is the one delivery  *)
(* has come to.                                                            *)
(***************************************************************************)
EXTENDS TcpStackProofs, TcpLifecycle

\* The obligations are small but many: the back ends get more time than by default.
USE SMTT(30), ZenonT(30)

-----------------------------------------------------------------------------
\* Flows

\* A slot in use has a flow key.
KeyedSlots == \A s \in Slots : state[s] # "free" => tcb[s].key \in Keys

\* open() works on a key that no other connection has.
OpenUnmapped == rx_pc = "open" => flows[tcb[rx.idx].key] = npos

FlowInv == FlowsExact /\ KeyedSlots /\ OpenUnmapped

\* What FlowInv is about stays as it is.
SameFlows ==
  /\ UNCHANGED <<flows, awaiting_release>>
  /\ \A s \in Slots : /\ (state'[s] = "free") <=> (state[s] = "free")
                      /\ tcb'[s].key = tcb[s].key
  /\ (rx_pc' = "open") <=> (rx_pc = "open")
  /\ rx_pc = "open" => rx' = rx

\* npos is no slot.
LEMMA NposFact == npos \notin Slots
  BY SizeAssumption DEF npos, Slots

\* Such a step keeps FlowInv.
LEMMA FlowFrame ==
  ASSUME TypeOK, FlowInv, SameFlows
  PROVE  FlowInv'
  <1> USE DEF FlowInv, SameFlows
  <1>1. FlowsExact'
    <2>1. \A s \in Slots : (rx_pc' = "open" /\ rx'.idx = s) <=> (rx_pc = "open" /\ rx.idx = s)
      OBVIOUS
    <2> QED BY <2>1 DEF FlowsExact
  <1>2. KeyedSlots'
    BY DEF KeyedSlots
  <1>3. OpenUnmapped'
    BY DEF OpenUnmapped, TypeOK, PollType
  <1> QED BY <1>1, <1>2, <1>3

\* Every step keeps FlowInv.
LEMMA NextFlows == Inv /\ FlowInv /\ [Next]_vars => FlowInv'
  \* finalize() or a reset of the handshake: the flow of s goes, with its slot or before it.
  <1>Unmap.
    ASSUME TypeOK, FlowInv, NEW s \in Slots, state[s] # "free", s \notin Range(awaiting_release),
           flows' = [flows EXCEPT ![tcb[s].key] = npos], UNCHANGED tcb,
           state'[s] = "free" \/ s \in Range(awaiting_release'),
           \A t \in Slots : t # s => /\ state'[t] = state[t]
                                     /\ t \in Range(awaiting_release') <=> t \in Range(awaiting_release),
           state'[s] \in {"free", state[s]}, rx_pc # "open", rx_pc' # "open"
    PROVE  FlowInv'
    <2> USE <1>Unmap
    <2>1. tcb[s].key \in Keys /\ flows[tcb[s].key] = s
      BY DEF FlowInv, KeyedSlots, FlowsExact
    <2>2. \A k \in Keys : flows'[k] = IF k = tcb[s].key THEN npos ELSE flows[k]
      BY <2>1 DEF TypeOK, ListType
    <2>3. FlowsExact'
      <3> SUFFICES ASSUME NEW k \in Keys, NEW t \in Slots
                   PROVE  flows'[k] = t <=> /\ state'[t] # "free" /\ tcb'[t].key = k
                                            /\ t \notin Range(awaiting_release')
                                            /\ ~(rx_pc' = "open" /\ rx'.idx = t)
        BY DEF FlowsExact
      <3>1. flows[k] = t <=> state[t] # "free" /\ tcb[t].key = k /\ t \notin Range(awaiting_release)
        BY DEF FlowInv, FlowsExact
      <3>2. CASE t = s
        BY <2>1, <2>2, <3>1, <3>2, NposFact
      <3>3. CASE t # s
        BY <2>1, <2>2, <3>1, <3>3, NposFact
      <3> QED BY <3>2, <3>3
    <2>4. KeyedSlots' /\ OpenUnmapped'
      BY DEF FlowInv, KeyedSlots, OpenUnmapped
    <2> QED BY <2>3, <2>4 DEF FlowInv
  \* reap_released: the slot was not in the table any more.
  <1>ReapFlows.
    ASSUME Inv, FlowInv, ReapReleased
    PROVE  FlowInv'
    <2> USE <1>ReapFlows
    <2> DEFINE s == awaiting_release[rx.i]
               r == pop_back([awaiting_release EXCEPT ![rx.i] = back(awaiting_release)])
    <2>1. rx_pc = "reap" /\ rx.i <= Len(awaiting_release) /\ UNCHANGED <<flows, tcb, rx_pc>>
      BY DEF ReapReleased
    <2>2. CASE release_slot(s) /\ awaiting_release' = r
      <3>1. /\ rx.i \in 1 .. Len(awaiting_release) /\ awaiting_release \in Seq(Slots)
            /\ IsInjective(awaiting_release)
        BY <2>1 DEF Inv, TypeOK, PollType, ListType, RxType, SlotsAccounted
      <3>2. Range(r) = Range(awaiting_release) \ {s} /\ s \in Slots /\ s \in Range(awaiting_release)
        BY <3>1, RemoveList, Zenon
      <3> HIDE DEF r, s
      <3>3. \A t \in Slots : state'[t] = IF t = s THEN "free" ELSE state[t]
        BY <2>2, <3>2 DEF release_slot, Inv, TypeOK, ConnType
      <3>4. \A t \in Slots : t \in Range(awaiting_release') <=> t # s /\ t \in Range(awaiting_release)
        BY <2>2, <3>2
      <3>5. FlowsExact'
        BY <2>1, <3>2, <3>3, <3>4 DEF FlowInv, FlowsExact
      <3>6. KeyedSlots' /\ OpenUnmapped'
        BY <2>1, <3>3 DEF FlowInv, KeyedSlots, OpenUnmapped
      <3> QED BY <3>5, <3>6 DEF FlowInv
    <2>3. CASE UNCHANGED <<state, awaiting_release>>
      BY <2>1, <2>3, FlowFrame DEF SameFlows, Inv
    <2> QED BY <2>2, <2>3 DEF ReapReleased
  \* open() takes a free slot for a key without a flow.
  <1>OpenFlows.
    ASSUME Inv, FlowInv, NEW seg \in Segments, NEW iss \in Iss, Open(seg, iss)
    PROVE  FlowInv'
    <2> USE <1>OpenFlows
    <2> DEFINE s == back(free_slots)
    <2>1. /\ rx_pc = "process" /\ rx_pc' = "open" /\ free_slots # <<>> /\ flows[seg.key] = npos
          /\ UNCHANGED <<flows, awaiting_release>>
      BY DEF Open, Receiving
    <2>2. s \in Slots /\ s \in Range(free_slots)
      BY <2>1, FrontList DEF Inv, TypeOK, ListType, SlotsAccounted
    <2>3. state[s] = "free"
      BY <2>2 DEF Inv, SlotsAccounted
    <2>4. /\ tcb'[s].key = seg.key /\ state'[s] = "syn_received" /\ rx'.idx = s
          /\ \A t \in Slots : t # s => tcb'[t] = tcb[t] /\ state'[t] = state[t]
      BY <2>2 DEF Open, Inv, TypeOK, ConnType, PollType, RxType
    <2>5. seg.key \in Keys
      BY SegmentAssumption DEF SegmentType
    <2> HIDE DEF s
    <2>6. FlowsExact'
      <3> SUFFICES ASSUME NEW k \in Keys, NEW t \in Slots
                   PROVE  flows'[k] = t <=> /\ state'[t] # "free" /\ tcb'[t].key = k
                                            /\ t \notin Range(awaiting_release')
                                            /\ ~(rx_pc' = "open" /\ rx'.idx = t)
        BY DEF FlowsExact
      <3>1. flows[k] = t <=> state[t] # "free" /\ tcb[t].key = k /\ t \notin Range(awaiting_release)
        BY <2>1 DEF FlowInv, FlowsExact
      <3>2. CASE t = s
        BY <2>1, <2>3, <2>4, <3>1, <3>2
      <3>3. CASE t # s
        BY <2>1, <2>4, <3>1, <3>3
      <3> QED BY <3>2, <3>3
    <2>7. KeyedSlots' /\ OpenUnmapped'
      BY <2>1, <2>2, <2>4, <2>5 DEF FlowInv, KeyedSlots, OpenUnmapped
    <2> QED BY <2>6, <2>7 DEF FlowInv
  \* open() publishes the flow.
  <1>OpenPublishFlows.
    ASSUME Inv, FlowInv, OpenPublish
    PROVE  FlowInv'
    <2> USE <1>OpenPublishFlows
    <2>1. PICK s \in Slots : s = rx.idx
      BY DEF OpenPublish, Inv, TypeOK, PollType
    <2> DEFINE key == tcb[s].key
    <2>2. /\ rx_pc = "open" /\ rx_pc' = "process" /\ flows' = [flows EXCEPT ![key] = s]
          /\ UNCHANGED <<state, tcb, awaiting_release>>
      BY <2>1 DEF OpenPublish, NextPacket, connVars
    <2>3. state[s] = "syn_received"
      BY <2>1, <2>2 DEF Inv, IdsTrackSlots, OpenFresh
    <2>4. s \notin Range(awaiting_release) /\ key \in Keys /\ flows[key] = npos
      BY <2>1, <2>2, <2>3 DEF Inv, SlotsAccounted, FlowInv, KeyedSlots, OpenUnmapped
    <2>5. \A k \in Keys : flows'[k] = IF k = key THEN s ELSE flows[k]
      BY <2>2, <2>4 DEF Inv, TypeOK, ListType
    <2>6. FlowsExact'
      <3> SUFFICES ASSUME NEW k \in Keys, NEW t \in Slots
                   PROVE  flows'[k] = t <=> /\ state'[t] # "free" /\ tcb'[t].key = k
                                            /\ t \notin Range(awaiting_release')
                                            /\ ~(rx_pc' = "open" /\ rx'.idx = t)
        BY DEF FlowsExact
      <3>1. flows[k] = t <=> /\ state[t] # "free" /\ tcb[t].key = k
                             /\ t \notin Range(awaiting_release) /\ t # s
        BY <2>1, <2>2 DEF FlowInv, FlowsExact
      <3>2. CASE t = s
        BY <2>2, <2>3, <2>4, <2>5, <3>1, <3>2
      <3>3. CASE t # s
        BY <2>2, <2>4, <2>5, <3>1, <3>3, NposFact
      <3> QED BY <3>2, <3>3
    <2>7. KeyedSlots' /\ OpenUnmapped'
      BY <2>2 DEF FlowInv, KeyedSlots, OpenUnmapped
    <2> QED BY <2>6, <2>7 DEF FlowInv
  \* A reset of a handshake.
  <1>HandshakeResetFlows.
    ASSUME Inv, FlowInv, NEW seg \in Segments, HandshakeReset(seg)
    PROVE  FlowInv'
    <2> USE <1>HandshakeResetFlows
    <2>1. PICK s \in Slots : s = flows[seg.key]
      BY FlowSlot DEF HandshakeReset, Inv
    <2>2. /\ rx_pc = "process" /\ rx_pc' = "process" /\ sync_out_flags(s) = "syn_received"
          /\ UNCHANGED <<tcb, awaiting_release>>
      BY <2>1 DEF HandshakeReset, NextPacket, Matches, Receiving
    <2>3. state[s] = "syn_received" /\ s \notin Range(awaiting_release)
      BY <2>2 DEF sync_out_flags, Inv, SlotsAccounted
    <2>4. CASE flows' = [flows EXCEPT ![tcb[s].key] = npos] /\ release_slot(s)
      <3>1. \A t \in Slots : state'[t] = IF t = s THEN "free" ELSE state[t]
        BY <2>4 DEF release_slot, Inv, TypeOK, ConnType
      <3> QED BY <2>2, <2>3, <2>4, <3>1, <1>Unmap, Zenon DEF Inv
    <2>5. CASE UNCHANGED <<flows, state>>
      BY <2>2, <2>5, FlowFrame DEF SameFlows, Inv
    <2> QED BY <2>1, <2>4, <2>5 DEF HandshakeReset
  \* finalize takes the flow of a closed connection, whether its slot is recycled now or
  \* waits for close().
  <1>FinalizeFlows.
    ASSUME Inv, FlowInv, Finalize
    PROVE  FlowInv'
    <2> USE <1>FinalizeFlows
    <2>1. /\ rx_pc = "finalize" /\ rx_pc' = "finalize" /\ finalize_list # <<>> /\ UNCHANGED tcb
      BY DEF Finalize, rxVars
    <2>2. Head(finalize_list) \in Slots /\ Head(finalize_list) \in Range(finalize_list)
      BY <2>1, TailList DEF Inv, TypeOK, ListType, SlotsAccounted
    <2>3. PICK s \in Slots : s = Head(finalize_list)
      BY <2>2
    <2>4. state[s] = "closed" /\ s \notin Range(awaiting_release)
      BY <2>2, <2>3 DEF Inv, SlotsAccounted
    <2>5. flows' = [flows EXCEPT ![tcb[s].key] = npos]
      BY <2>3 DEF Finalize
    <2>6. CASE release_slot(s) /\ UNCHANGED awaiting_release
      <3>1. \A t \in Slots : state'[t] = IF t = s THEN "free" ELSE state[t]
        BY <2>6 DEF release_slot, Inv, TypeOK, ConnType
      <3> QED BY <2>1, <2>4, <2>5, <2>6, <3>1, <1>Unmap, Zenon DEF Inv
    <2>7. CASE awaiting_release' = Append(awaiting_release, s) /\ UNCHANGED state
      <3>1. Range(awaiting_release') = Range(awaiting_release) \cup {s}
        BY <2>7, AppendList DEF Inv, TypeOK, ListType
      <3> QED BY <2>1, <2>4, <2>5, <2>7, <3>1, <1>Unmap, Zenon DEF Inv
    <2> QED BY <2>3, <2>6, <2>7 DEF Finalize
  \* A connection moves to another state, with a flow key as before.
  <1>MoveFlows.
    ASSUME Inv, FlowInv, NEW s \in Slots, NEW st, state[s] # "free", st # "free",
           state' = [state EXCEPT ![s] = st],
           \A t \in Slots : tcb'[t].key = tcb[t].key,
           UNCHANGED <<flows, awaiting_release>>, rx_pc # "open", rx_pc' # "open"
    PROVE  FlowInv'
    <2> USE <1>MoveFlows
    <2>1. \A t \in Slots : state'[t] = IF t = s THEN st ELSE state[t]
      BY DEF Inv, TypeOK, ConnType
    <2> QED BY <2>1, FlowFrame DEF SameFlows, Inv
  \* The segments of a connection.
  <1>SegmentFlows.
    ASSUME Inv, FlowInv, NEW seg \in Segments,
           HandshakeAck(seg) \/ SegmentReset(seg) \/ SegmentNotAck(seg) \/ SegmentAck(seg)
    PROVE  FlowInv'
    <2> USE <1>SegmentFlows
    <2>1. PICK s \in Slots : s = flows[seg.key]
      BY FlowSlot, Zenon DEF HandshakeAck, SegmentReset, SegmentNotAck, SegmentAck, Inv
    <2>2. CASE HandshakeAck(seg)
      <3>1. /\ rx_pc = "process" /\ rx_pc' = "data" /\ sync_out_flags(s) = "syn_received"
            /\ state' = [state EXCEPT ![s] = "established"]
            /\ UNCHANGED <<flows, awaiting_release>>
        BY <2>1, <2>2, Zenon DEF HandshakeAck, Matches, Receiving, listVars
      <3>2. \A t \in Slots : tcb'[t].key = tcb[t].key
        <4>1. tcb' = [tcb EXCEPT ![s].snd_una = seg.ack, ![s].snd_wnd = seg.window,
                                 ![s].snd_wl1 = seg.seq, ![s].snd_wl2 = seg.ack]
          BY <2>1, <2>2, Zenon DEF HandshakeAck
        <4>2. tcb \in [Slots -> TcbType]
          BY DEF Inv, TypeOK, ConnType
        <4> QED BY <4>1, <4>2 DEF TcbType
      <3>3. state[s] # "free"
        BY <3>1 DEF sync_out_flags
      <3> QED BY <3>1, <3>2, <3>3, <1>MoveFlows, Zenon
    <2>3. CASE SegmentReset(seg)
      <3>1. /\ rx_pc = "process" /\ rx_pc' = "process" /\ sync_out_flags(s) \in Synchronized
            /\ UNCHANGED <<tcb, flows, awaiting_release>>
            /\ \/ state' = [state EXCEPT ![s] = "closed"]
               \/ state' = [state EXCEPT ![s] = sync_out_flags(s)]
        BY <2>1, <2>3, Zenon DEF SegmentReset, NextPacket, Matches, Receiving
      <3>2. state[s] # "free" /\ sync_out_flags(s) # "free"
        BY <3>1, SyncLive DEF Synchronized
      <3> QED BY <3>1, <3>2, <1>MoveFlows
    <2>4. CASE SegmentNotAck(seg) \/ SegmentAck(seg)
      <3>1. /\ rx_pc = "process" /\ rx_pc' # "open" /\ sync_out_flags(s) \in Synchronized
            /\ UNCHANGED <<tcb, flows, awaiting_release>>
            /\ state' = [state EXCEPT ![s] = sync_out_flags(s)]
        BY <2>1, <2>4 DEF SegmentNotAck, SegmentAck, NextPacket, Matches, Receiving, listVars
      <3>2. state[s] # "free" /\ sync_out_flags(s) # "free"
        BY <3>1, SyncLive DEF Synchronized
      <3> QED BY <3>1, <3>2, <1>MoveFlows, Zenon
    <2> QED BY <2>2, <2>3, <2>4
  \* process_ack and process_data.
  <1>AckDataFlows.
    ASSUME Inv, FlowInv, AckProcessed \/ DataDelivered
    PROVE  FlowInv'
    <2> USE <1>AckDataFlows
    <2>1. PICK s \in Slots : s = rx.idx
      BY Zenon DEF AckProcessed, DataDelivered, Inv, TypeOK, PollType
    <2>2. /\ rx_pc \in {"ack", "data"} /\ rx_pc' \in {"process", "data"}
          /\ UNCHANGED <<flows, awaiting_release>>
      BY Zenon DEF AckProcessed, DataDelivered, NextPacket
    <2>3. \A t \in Slots : tcb'[t].key = tcb[t].key
      <3>1. CASE AckProcessed
        <4>1. tcb' = [tcb EXCEPT ![s] = AckedTcb(tcb[s], rx.seg)]
          BY <2>1, <3>1, Zenon DEF AckProcessed
        <4>2. AckedTcb(tcb[s], rx.seg).key = tcb[s].key
          BY DEF AckedTcb, Inv, TypeOK, ConnType, TcbType
        <4> QED BY <4>1, <4>2 DEF Inv, TypeOK, ConnType
      <3>2. CASE DataDelivered
        <4>1. \E new : tcb' = [tcb EXCEPT ![s].rcv_nxt_local = new]
          BY <2>1, <3>2, Zenon DEF DataDelivered
        <4> QED BY <4>1 DEF Inv, TypeOK, ConnType, TcbType
      <3> QED BY <3>1, <3>2
    <2>4. UNCHANGED state \/ (state[s] # "free" /\ \E st : st # "free" /\ state' = [state EXCEPT ![s] = st])
      <3>1. CASE AckProcessed
        BY <2>1, <3>1, Zenon DEF AckProcessed
      <3>2. CASE DataDelivered
        <4> DEFINE end == SeqAdd(rx.seg.seq, rx.seg.len)
                   old == tcb[s].rcv_nxt_local
                   fin == has(rx.seg, "FIN") /\ end = (IF seq_gt(end, old) THEN end ELSE old)
                   st == CASE fin /\ state[s] = "established" -> "close_wait"
                           [] fin /\ state[s] = "fin_wait_1" -> "closing"
                           [] fin /\ state[s] = "fin_wait_2" -> "closed"
                           [] OTHER -> state[s]
        <4>1. /\ state[s] \in {"established", "fin_wait_1", "fin_wait_2"}
              /\ state' = [state EXCEPT ![s] = st]
          BY <2>1, <3>2, Zenon DEF DataDelivered, CanReceive
        <4> HIDE DEF fin
        <4>2. st # "free"
          BY <4>1
        <4> HIDE DEF st
        <4> QED BY <4>1, <4>2, Zenon
      <3> QED BY <3>1, <3>2
    <2>5. CASE UNCHANGED state
      BY <2>2, <2>3, <2>5, FlowFrame DEF SameFlows, Inv
    <2> QED BY <2>2, <2>3, <2>4, <2>5, <1>MoveFlows
  \* The inbound steps that leave connections and flows alone.
  <1>PlainFlows.
    ASSUME Inv, FlowInv,
           \/ PollStart \/ ReapDone \/ ReceiveArp \/ EndBurst \/ FlushAck \/ PollReturn
           \/ AckLoadFlags \/ AckBeyond \/ DataNotDelivered
           \/ \E sent \in 0 .. Len(control) : FlushControl(sent)
           \/ \E f \in opening : OpenStore(f)
           \/ \E seg \in Segments :
                ReceiveUnknown(seg) \/ SegmentIgnored(seg) \/ HandshakePending(seg)
    PROVE  FlowInv'
    <2> USE <1>PlainFlows
    <2> USE FlowFrame DEF SameFlows, connVars, listVars, rxVars, Inv
    <2>1. CASE PollStart \/ ReapDone \/ EndBurst \/ AckLoadFlags
      BY <2>1, Zenon DEF PollStart, ReapDone, EndBurst, AckLoadFlags
    <2>2. CASE ReceiveArp \/ AckBeyond \/ DataNotDelivered
      BY <2>2, Zenon DEF ReceiveArp, AckBeyond, DataNotDelivered, NextPacket, Receiving
    <2>3. CASE FlushAck \/ \E sent \in 0 .. Len(control) : FlushControl(sent)
      BY <2>3 DEF FlushAck, FlushControl
    <2>4. CASE PollReturn
      BY <2>4, Zenon DEF PollReturn
    <2>5. CASE \E f \in opening : OpenStore(f)
      BY <2>5, Zenon DEF OpenStore
    <2>6. CASE \E seg \in Segments :
                 ReceiveUnknown(seg) \/ SegmentIgnored(seg) \/ HandshakePending(seg)
      BY <2>6 DEF ReceiveUnknown, SegmentIgnored, HandshakePending, NextPacket, Matches, Receiving
    <2> QED BY <2>1, <2>2, <2>3, <2>4, <2>5, <2>6, Zenon
  <1> SUFFICES ASSUME Inv, FlowInv, [Next]_vars PROVE FlowInv'
    OBVIOUS
  <1>1. CASE Receive
    BY <1>1, <1>PlainFlows, <1>OpenFlows, <1>HandshakeResetFlows, <1>SegmentFlows DEF Receive, ProcessSegment
  <1>2. CASE Inbound
    BY <1>2, <1>PlainFlows, <1>ReapFlows, <1>OpenPublishFlows, <1>AckDataFlows, <1>FinalizeFlows, Zenon DEF Inbound
  <1>3. CASE Outbound \/ Application \/ UNCHANGED vars
    BY <1>3, SenderFrame, FlowFrame DEF SameFlows, vars, connVars, listVars, rxVars, Inv
  <1> QED BY <1>1, <1>2, <1>3 DEF Next

\* The flow table never sends a segment to a slot of another connection, and loses none.
THEOREM FlowsExactHolds == Spec => []FlowsExact
  <1>1. Init => FlowInv
    <2> SUFFICES ASSUME Init PROVE FlowInv
      OBVIOUS
    <2>1. /\ \A s \in Slots : state[s] = "free"
          /\ \A k \in Keys : flows[k] = npos
          /\ rx_pc = "idle"
      BY DEF Init, StackInit
    <2> QED BY <2>1, NposFact DEF FlowInv, FlowsExact, KeyedSlots, OpenUnmapped
  <1>2. Inv /\ FlowInv /\ [Next]_vars => FlowInv'
    BY NextFlows
  <1>3. FlowInv => FlowsExact
    BY DEF FlowInv
  <1> QED BY <1>1, <1>2, <1>3, InvHolds, PTL DEF Spec

-----------------------------------------------------------------------------
\* The arrays of poll()

\* control is a sequence; the type of its elements does not matter.
IsSeq == \E S : control \in Seq(S)

InBurst == {"process", "open", "flags", "ack", "data"}

\* Every packet of the burst, handled or not yet, has room in each array: one entry of
\* control or ack_list, one of finalize_list and three events, of which the "accepted"
\* comes before process_data.
Budget ==
  /\ IsSeq
  /\ rx_pc \in {"idle", "reap"} =>
       control = <<>> /\ ack_list = <<>> /\ finalize_list = <<>> /\ events = <<>>
  /\ rx_pc \in InBurst =>
       /\ rx.n <= MaxBurst /\ (rx_pc # "process" => rx.n < MaxBurst)
       /\ Len(control) + Len(ack_list) <= rx.n
       /\ Len(finalize_list) <= rx.n
       /\ Len(events) <= 3 * rx.n + (IF rx_pc = "data" THEN 1 ELSE 0)
  /\ rx_pc \in {"acks", "finalize"} =>
       /\ Len(control) + Len(ack_list) <= MaxBurst
       /\ Len(finalize_list) <= MaxBurst /\ Len(events) <= 3 * MaxBurst
  /\ rx_pc = "finalize" => control = <<>> /\ ack_list = <<>>

\* The lengths are numbers.
LEMMA Lengths ==
  ASSUME TypeOK, IsSeq
  PROVE  /\ Len(control) \in Nat /\ Len(ack_list) \in Nat /\ Len(finalize_list) \in Nat
         /\ Len(events) \in Nat /\ rx.n \in Nat /\ MaxBurst \in Nat \ {0}
  BY SizeAssumption DEF IsSeq, TypeOK, ListType, PollType, RxType

\* Every step keeps the budget.
LEMMA NextBudget == TypeOK /\ TypeOK' /\ Budget /\ [Next]_vars => Budget'
  \* The lengths after a step are numbers too.
  <1>LengthsAfter.
    ASSUME TypeOK', IsSeq'
    PROVE  /\ Len(control') \in Nat /\ Len(ack_list') \in Nat /\ Len(finalize_list') \in Nat
           /\ Len(events') \in Nat /\ rx'.n \in Nat
    BY <1>LengthsAfter DEF IsSeq, TypeOK, ListType, PollType, RxType
  \* queue_control adds a segment at most.
  <1>QueueControl.
    ASSUME IsSeq, NEW p, control' \in queue_control(p)
    PROVE  IsSeq' /\ Len(control') <= Len(control) + 1
    <2> USE <1>QueueControl
    <2>1. PICK S : control \in Seq(S)
      BY DEF IsSeq
    <2>2. control' = control \/ control' = Append(control, p)
      BY DEF queue_control
    <2>3. control \in Seq(S \cup {p}) /\ p \in S \cup {p}
      BY <2>1
    <2>4. control' \in Seq(S \cup {p}) /\ Len(control') <= Len(control) + 1
      BY <2>2, <2>3
    <2> QED BY <2>4 DEF IsSeq
  \* queue_ack and schedule_finalize add a slot at most.
  <1>QueueSlot.
    ASSUME TypeOK, NEW s \in Slots
    PROVE  /\ queue_ack(s) => Len(ack_list') <= Len(ack_list) + 1
           /\ schedule_finalize(s) => Len(finalize_list') <= Len(finalize_list) + 1
    BY <1>QueueSlot DEF queue_ack, schedule_finalize, TypeOK, ListType
  \* The end of a packet that took no more than its share.
  <1>PacketBudget.
    ASSUME TypeOK, TypeOK', Budget, NextPacket, rx_pc \in InBurst, rx.n < MaxBurst, IsSeq',
           Len(control') + Len(ack_list') <= Len(control) + Len(ack_list) + 1,
           Len(finalize_list') <= Len(finalize_list) + 1,
           Len(events') <= Len(events) + 2
    PROVE  Budget'
    <2> USE <1>PacketBudget
    <2>1. rx_pc' = "process" /\ rx'.n = rx.n + 1
      BY DEF NextPacket, NoRx
    <2>2. /\ Len(control) + Len(ack_list) <= rx.n /\ Len(finalize_list) <= rx.n
          /\ Len(events) <= 3 * rx.n + 1 /\ IsSeq
      BY Lengths DEF Budget
    <2>3. /\ Len(control) \in Nat /\ Len(ack_list) \in Nat /\ Len(finalize_list) \in Nat
          /\ Len(events) \in Nat /\ rx.n \in Nat /\ MaxBurst \in Nat
          /\ Len(control') \in Nat /\ Len(ack_list') \in Nat /\ Len(finalize_list') \in Nat
          /\ Len(events') \in Nat
      BY <2>2, Lengths, <1>LengthsAfter
    <2>4. PICK n \in Nat : n = rx.n
      BY <2>3, Zenon
    <2>5. /\ Len(control) + Len(ack_list) <= n /\ Len(finalize_list) <= n
          /\ Len(events) <= 3 * n + 1 /\ n < MaxBurst
      BY <2>2, <2>4
    <2>6. Len(control') + Len(ack_list') <= n + 1
      BY <2>3, <2>5
    <2>7. Len(finalize_list') <= n + 1
      BY <2>3, <2>5
    <2>8. Len(events') <= 3 * n + 3
      BY <2>3, <2>5
    <2>9. n + 1 <= MaxBurst
      BY <2>3, <2>5
    <2>10. rx'.n = n + 1 /\ 3 * (n + 1) = 3 * n + 3
      BY <2>1, <2>4
    <2> QED BY <2>1, <2>6, <2>7, <2>8, <2>9, <2>10 DEF Budget, InBurst
  \* The packet is still being handled; "accepted" was pushed on the way to process_data.
  <1>WithinPacket.
    ASSUME TypeOK, TypeOK', Budget, rx_pc \in InBurst, rx.n < MaxBurst, rx'.n = rx.n,
           rx_pc' \in InBurst \ {"process"}, UNCHANGED <<control, ack_list, finalize_list>>,
           \/ UNCHANGED events /\ (rx_pc = "data" => rx_pc' = "data")
           \/ Len(events') = Len(events) + 1 /\ rx_pc # "data" /\ rx_pc' = "data"
    PROVE  Budget'
    <2> USE <1>WithinPacket
    <2>1. IsSeq'
      BY DEF Budget, IsSeq
    <2> QED BY <2>1, Lengths, <1>LengthsAfter DEF Budget, InBurst
  \* Packets answered with a control segment, or not at all.
  <1>ControlBudget.
    ASSUME TypeOK, TypeOK', Budget,
           \/ ReceiveArp \/ OpenPublish
           \/ \E seg \in Segments : \/ ReceiveUnknown(seg) \/ SegmentIgnored(seg)
                                    \/ HandshakeReset(seg) \/ HandshakePending(seg)
    PROVE  Budget'
    <2> USE <1>ControlBudget
    <2>1. control' = control \/ \E p : control' \in queue_control(p)
      BY Zenon DEF ReceiveArp, OpenPublish, ReceiveUnknown, SegmentIgnored, HandshakeReset,
         HandshakePending, send_rst_for, send_syn_ack, listVars
    <2>2. UNCHANGED <<ack_list, finalize_list, events>> /\ NextPacket
      BY Zenon DEF ReceiveArp, OpenPublish, ReceiveUnknown, SegmentIgnored, HandshakeReset,
         HandshakePending, listVars, evVars
    <2>3. rx_pc = "open" \/ Receiving
      BY Zenon DEF ReceiveArp, OpenPublish, ReceiveUnknown, SegmentIgnored, HandshakeReset,
         HandshakePending, Matches
    <2>4. rx_pc \in InBurst /\ rx.n < MaxBurst
      BY <2>3 DEF Receiving, Budget, InBurst
    <2>5. IsSeq
      BY DEF Budget
    <2>6. IsSeq' /\ Len(control') <= Len(control) + 1
      <3>1. CASE control' = control
        BY <2>5, <3>1, Lengths DEF IsSeq
      <3> QED BY <2>1, <2>5, <3>1, <1>QueueControl, Zenon
    <2> QED BY <2>2, <2>4, <2>5, <2>6, <1>PacketBudget, Lengths, <1>LengthsAfter
  \* Segments of a connection that leave at most an ACK, an event and a slot to finalize.
  <1>SegmentBudget.
    ASSUME TypeOK, TypeOK', Budget,
           \/ AckBeyond \/ DataNotDelivered
           \/ \E seg \in Segments : SegmentReset(seg) \/ SegmentNotAck(seg)
    PROVE  Budget'
    <2> USE <1>SegmentBudget
    <2>1. CASE AckBeyond \/ DataNotDelivered \/ \E seg \in Segments : SegmentNotAck(seg)
      <3>1. /\ UNCHANGED <<control, finalize_list, events>> /\ NextPacket
            /\ rx_pc \in {"ack", "data"} \/ Receiving
        BY <2>1, Zenon DEF AckBeyond, DataNotDelivered, SegmentNotAck, Matches, evVars
      <3>2. UNCHANGED ack_list \/ \E s \in Slots : queue_ack(s)
        <4>1. CASE AckBeyond \/ DataNotDelivered
          <5>1. rx.idx \in Slots
            BY <4>1, Zenon DEF AckBeyond, DataNotDelivered, TypeOK, PollType
          <5>2. UNCHANGED ack_list \/ queue_ack(rx.idx)
            BY <4>1, Zenon DEF AckBeyond, DataNotDelivered
          <5> QED BY <5>1, <5>2, Zenon
        <4>2. CASE \E seg \in Segments : SegmentNotAck(seg)
          BY <4>2, FlowSlot, Zenon DEF SegmentNotAck
        <4> QED BY <2>1, <4>1, <4>2, Zenon
      <3>3. rx_pc \in InBurst /\ rx.n < MaxBurst /\ IsSeq
        BY <3>1 DEF Receiving, Budget, InBurst
      <3>4. IsSeq' /\ Len(ack_list') <= Len(ack_list) + 1
        BY <3>1, <3>2, <3>3, <1>QueueSlot, Lengths DEF IsSeq
      <3> QED BY <3>1, <3>3, <3>4, <1>PacketBudget, Lengths, <1>LengthsAfter
    <2>2. CASE \E seg \in Segments : SegmentReset(seg)
      <3>1. PICK seg \in Segments : SegmentReset(seg)
        BY <2>2
      <3>2. PICK s \in Slots : s = flows[seg.key]
        BY <3>1, FlowSlot, Zenon DEF SegmentReset
      <3>3. UNCHANGED <<control, ack_list>> /\ NextPacket /\ Receiving
        BY <3>1, Zenon DEF SegmentReset, Matches
      <3>4. \/ UNCHANGED <<finalize_list, events>>
            \/ /\ schedule_finalize(s)
               /\ events' = events \o <<make_event("reset", s, 0, 0)>>
        BY <3>1, <3>2, Zenon DEF SegmentReset, Emit, evVars
      <3>5. rx_pc \in InBurst /\ rx.n < MaxBurst /\ IsSeq
        BY <3>3 DEF Receiving, Budget, InBurst
      <3>6. IsSeq'
        BY <3>3, <3>5 DEF IsSeq
      <3>7. make_event("reset", s, 0, 0) \in EventType
        BY EventTypeOK, SeqNumsInt
      <3>8. Len(finalize_list') <= Len(finalize_list) + 1 /\ Len(events') <= Len(events) + 1
        <4>1. CASE UNCHANGED <<finalize_list, events>>
          BY <3>5, <4>1, Lengths
        <4>2. CASE /\ schedule_finalize(s)
                   /\ events' = events \o <<make_event("reset", s, 0, 0)>>
          BY <3>7, <4>2, <1>QueueSlot DEF TypeOK, PollType
        <4> QED BY <3>4, <4>1, <4>2
      <3> QED BY <3>3, <3>5, <3>6, <3>8, <1>PacketBudget, Lengths, <1>LengthsAfter
    <2> QED BY <2>1, <2>2
  \* The steps inside a packet, the last of which pushes "accepted".
  <1>WithinBudget.
    ASSUME TypeOK, TypeOK', Budget,
           \/ AckLoadFlags \/ \E f \in opening : OpenStore(f)
           \/ \E seg \in Segments : \/ SegmentAck(seg) \/ HandshakeAck(seg)
                                    \/ \E iss \in Iss : Open(seg, iss)
    PROVE  Budget'
    <2> USE <1>WithinBudget
    <2>1. /\ UNCHANGED <<control, ack_list, finalize_list>>
          /\ Receiving \/ rx_pc \in {"open", "flags"}
      BY Zenon DEF AckLoadFlags, OpenStore, SegmentAck, HandshakeAck, Open, Matches, listVars
    <2>2. rx_pc \in InBurst /\ rx.n < MaxBurst /\ IsSeq /\ rx \in RxType /\ rx_pc # "data"
      BY <2>1, Zenon DEF Receiving, Budget, InBurst, TypeOK, PollType
    <2>3. CASE AckLoadFlags \/ (\E f \in opening : OpenStore(f))
               \/ \E seg \in Segments : SegmentAck(seg) \/ \E iss \in Iss : Open(seg, iss)
      <3>1. UNCHANGED events /\ rx_pc' \in InBurst \ {"process"} /\ rx'.n = rx.n
        BY <2>2, <2>3, Zenon DEF AckLoadFlags, OpenStore, SegmentAck, Open, evVars, InBurst, RxType
      <3> QED BY <2>1, <2>2, <3>1, <1>WithinPacket
    <2>4. CASE \E seg \in Segments : HandshakeAck(seg)
      <3>1. PICK seg \in Segments : HandshakeAck(seg)
        BY <2>4
      <3>2. PICK s \in Slots : s = flows[seg.key]
        BY <3>1, FlowSlot, Zenon DEF HandshakeAck
      <3>3. events' = events \o <<make_event("accepted", s, 0, 0)>>
        BY <3>1, <3>2, Zenon DEF HandshakeAck, Emit
      <3>4. make_event("accepted", s, 0, 0) \in EventType
        BY EventTypeOK, SeqNumsInt
      <3>5. Len(events') = Len(events) + 1
        BY <3>3, <3>4 DEF TypeOK, PollType
      <3>6. rx_pc' = "data" /\ rx'.n = rx.n
        BY <2>2, <3>1, Zenon DEF HandshakeAck, RxType
      <3> QED BY <2>1, <2>2, <3>5, <3>6, <1>WithinPacket DEF InBurst
    <2> QED BY <2>3, <2>4
  \* process_ack moves on to process_data, or ends the connection.
  <1>AckBudget.
    ASSUME TypeOK, TypeOK', Budget, AckProcessed
    PROVE  Budget'
    <2> USE <1>AckBudget
    <2>1. PICK s \in Slots : s = rx.idx
      BY Zenon DEF AckProcessed, TypeOK, PollType
    <2>2. UNCHANGED <<control, ack_list>> /\ rx_pc = "ack"
      BY Zenon DEF AckProcessed
    <2>3. rx_pc \in InBurst /\ rx.n < MaxBurst /\ IsSeq /\ IsSeq'
      BY <2>2 DEF Budget, InBurst, IsSeq
    <2>4. \/ UNCHANGED <<finalize_list, events, rx>> /\ rx_pc' = "data"
          \/ /\ schedule_finalize(s) /\ NextPacket
             /\ events' = events \o <<make_event("closed", s, 0, 0)>>
      BY <2>1, Zenon DEF AckProcessed, Emit, evVars
    <2>5. CASE UNCHANGED <<finalize_list, events, rx>> /\ rx_pc' = "data"
      BY <2>2, <2>3, <2>5, <1>WithinPacket DEF InBurst
    <2>6. CASE /\ schedule_finalize(s) /\ NextPacket
               /\ events' = events \o <<make_event("closed", s, 0, 0)>>
      <3>1. make_event("closed", s, 0, 0) \in EventType
        BY EventTypeOK, SeqNumsInt
      <3>2. Len(finalize_list') <= Len(finalize_list) + 1 /\ Len(events') <= Len(events) + 1
        BY <2>6, <3>1, <1>QueueSlot DEF TypeOK, PollType
      <3> QED BY <2>2, <2>3, <2>6, <3>2, <1>PacketBudget, Lengths, <1>LengthsAfter
    <2> QED BY <2>4, <2>5, <2>6
  \* process_data delivers: an ACK, at most two events and a slot to finalize.
  <1>DataBudget.
    ASSUME TypeOK, TypeOK', Budget, DataDelivered
    PROVE  Budget'
    <2> USE <1>DataBudget
    <2>1. PICK s \in Slots : s = rx.idx
      BY Zenon DEF DataDelivered, TypeOK, PollType
    <2>2. /\ UNCHANGED control /\ rx_pc = "data" /\ NextPacket /\ queue_ack(s)
          /\ schedule_finalize(s) \/ UNCHANGED finalize_list
      BY <2>1, Zenon DEF DataDelivered
    <2>3. rx_pc \in InBurst /\ rx.n < MaxBurst /\ IsSeq /\ IsSeq'
      BY <2>2, Zenon DEF Budget, InBurst, IsSeq
    <2>4. PICK new \in Seq(EventType) : events' = events \o new /\ Len(new) <= 2
      BY DataEvents, Zenon DEF Emit
    <2>5. Len(events') <= Len(events) + 2
      <3>1. events \in Seq(EventType)
        BY Zenon DEF TypeOK, PollType
      <3>2. Len(events') = Len(events) + Len(new) /\ Len(events) \in Nat /\ Len(new) \in Nat
        BY <2>4, <3>1
      <3> QED BY <2>4, <3>2
    <2>6. Len(ack_list') <= Len(ack_list) + 1 /\ Len(finalize_list') <= Len(finalize_list) + 1
      BY <2>2, <2>3, <1>QueueSlot, Lengths
    <2> QED BY <2>2, <2>3, <2>5, <2>6, <1>PacketBudget, Lengths, <1>LengthsAfter
  \* The end of poll() empties the arrays one after the other.
  <1>EndBudget.
    ASSUME TypeOK, TypeOK', Budget,
           \/ PollStart \/ ReapReleased \/ ReapDone \/ EndBurst \/ FlushAck \/ Finalize \/ PollReturn
           \/ \E sent \in 0 .. Len(control) : FlushControl(sent)
    PROVE  Budget'
    <2> USE <1>EndBudget
    <2>1. IsSeq
      BY Zenon DEF Budget
    <2>2. CASE PollStart \/ ReapReleased
      BY <2>2 DEF PollStart, ReapReleased, listVars, evVars, Budget, InBurst, IsSeq
    <2>3. CASE ReapDone
      <3>1. /\ rx_pc = "reap" /\ rx_pc' = "process" /\ rx'.n = 0
            /\ UNCHANGED <<control, ack_list, finalize_list, events>>
        BY <2>3, Zenon DEF ReapDone, NoRx, listVars, evVars
      <3> QED BY <2>1, <3>1, Lengths DEF Budget, IsSeq
    <2>4. CASE EndBurst
      <3>1. /\ rx_pc = "process" /\ rx_pc' = "acks"
            /\ UNCHANGED <<control, ack_list, finalize_list, events>>
        BY <2>4 DEF EndBurst, listVars, evVars
      <3>2. IsSeq'
        BY <2>1, <3>1, Zenon DEF IsSeq
      <3> QED BY <2>1, <3>1, <3>2, Lengths DEF Budget, InBurst
    <2>5. CASE FlushAck
      <3>1. /\ rx_pc = "acks" /\ rx_pc' = "acks" /\ ack_list # <<>> /\ ack_list' = Tail(ack_list)
            /\ UNCHANGED <<finalize_list, events>>
        BY <2>5 DEF FlushAck, rxVars, evVars
      <3>2. control' = control \/ \E p : control' \in queue_control(p)
        BY <2>5, Zenon DEF FlushAck
      <3>3. IsSeq' /\ Len(control') <= Len(control) + 1
        <4>1. CASE control' = control
          BY <2>1, <4>1, Lengths DEF IsSeq
        <4> QED BY <2>1, <3>2, <4>1, <1>QueueControl
      <3>4. Len(ack_list') = Len(ack_list) - 1
        BY <3>1 DEF TypeOK, ListType
      <3> QED BY <2>1, <3>1, <3>3, <3>4, Lengths, <1>LengthsAfter DEF Budget, InBurst
    <2>6. CASE \E sent \in 0 .. Len(control) : FlushControl(sent)
      <3>1. /\ rx_pc = "acks" /\ rx_pc' = "finalize" /\ ack_list = <<>> /\ control' = <<>>
            /\ UNCHANGED <<ack_list, finalize_list, events>>
        BY <2>6 DEF FlushControl, evVars
      <3>2. control' \in Seq({})
        BY <3>1
      <3>3. IsSeq'
        BY <3>2 DEF IsSeq
      <3> QED BY <2>1, <3>1, <3>3, Lengths DEF Budget, InBurst
    <2>7. CASE Finalize
      <3>1. /\ rx_pc = "finalize" /\ rx_pc' = "finalize" /\ finalize_list # <<>>
            /\ finalize_list' = Tail(finalize_list)
            /\ UNCHANGED <<control, ack_list, events>>
        BY <2>7, Zenon DEF Finalize, rxVars, evVars
      <3>2. Len(finalize_list') = Len(finalize_list) - 1
        BY <3>1 DEF TypeOK, ListType
      <3>3. IsSeq'
        BY <2>1, <3>1, Zenon DEF IsSeq
      <3> QED BY <2>1, <3>1, <3>2, <3>3, Lengths, <1>LengthsAfter DEF Budget, InBurst
    <2>8. CASE PollReturn
      BY <2>8 DEF PollReturn, listVars, Budget, InBurst, IsSeq
    <2> QED BY <2>2, <2>3, <2>4, <2>5, <2>6, <2>7, <2>8
  <1> SUFFICES ASSUME TypeOK, TypeOK', Budget, [Next]_vars PROVE Budget'
    OBVIOUS
  <1>1. CASE Receive
    BY <1>1, <1>ControlBudget, <1>SegmentBudget, <1>WithinBudget, Zenon DEF Receive, ProcessSegment
  <1>2. CASE Inbound
    BY <1>2, <1>ControlBudget, <1>SegmentBudget, <1>WithinBudget, <1>AckBudget, <1>DataBudget,
       <1>EndBudget, Zenon DEF Inbound
  <1>3. CASE Outbound \/ Application \/ UNCHANGED vars
    <2>1. UNCHANGED <<control, ack_list, finalize_list, events, rx_pc, rx>>
      BY <1>3, SenderFrame DEF vars, listVars, rxVars, evVars
    <2> QED BY <2>1 DEF Budget, IsSeq
  <1> QED BY <1>1, <1>2, <1>3 DEF Next

\* The fixed arrays of poll() hold whatever a burst of packets makes of them: no ACK is
\* dropped because control is full, and events_, which checks no bound, is never overrun.
THEOREM ListsFitHolds == Spec => []ListsFit
  <1>1. Init => Budget
    <2> SUFFICES ASSUME Init PROVE Budget
      OBVIOUS
    <2>1. control = <<>> /\ ack_list = <<>> /\ finalize_list = <<>> /\ events = <<>>
          /\ rx_pc = "idle"
      BY DEF Init, StackInit
    <2>2. control \in Seq({})
      BY <2>1
    <2> QED BY <2>1, <2>2 DEF Budget, IsSeq, InBurst
  <1>2. TypeOK /\ TypeOK' /\ Budget /\ [Next]_vars => Budget'
    BY NextBudget
  <1>3. TypeOK /\ Budget => ListsFit
    <2> SUFFICES ASSUME TypeOK, Budget PROVE ListsFit
      OBVIOUS
    <2>1. rx_pc \in {"idle", "reap", "acks", "finalize"} \cup InBurst
      BY DEF TypeOK, PollType, RxPoints, InBurst
    <2>2. IsSeq
      BY DEF Budget
    <2>3. CASE rx_pc \in {"idle", "reap"}
      BY <2>2, <2>3, Lengths DEF Budget, ListsFit, MaxControl, MaxEvents
    <2>4. CASE rx_pc \in InBurst
      <3>1. Len(events) <= 3 * MaxBurst
        BY <2>2, <2>4, Lengths DEF Budget
      <3> QED BY <2>2, <2>4, <3>1, Lengths DEF Budget, ListsFit, MaxControl, MaxEvents
    <2>5. CASE rx_pc \in {"acks", "finalize"}
      BY <2>2, <2>5, Lengths DEF Budget, ListsFit, MaxControl, MaxEvents
    <2> QED BY <2>1, <2>3, <2>4, <2>5
  <1> QED BY <1>1, <1>2, <1>3, TypeCorrect, PTL DEF Spec

-----------------------------------------------------------------------------
\* The life cycle

\* The events of a connection that is over, and all a slot can have reported.
OverLogs == {<<"accepted", "closed">>, <<"accepted", "reset">>,
             <<"accepted", "peer_closed", "closed">>, <<"accepted", "peer_closed", "reset">>}
Logs == {<<>>, <<"accepted">>, <<"accepted", "peer_closed">>} \cup OverLogs

\* The state of a connection says which events were reported and whether close() has
\* finished our direction.
LogAt(st, log, flags) ==
  /\ st = "syn_received" => log = <<>>
  /\ st \in {"established", "fin_wait_1", "fin_wait_2", "closing"} => log = <<"accepted">>
  /\ st \in {"close_wait", "last_ack"} => log = <<"accepted", "peer_closed">>
  /\ st = "closed" => log \in OverLogs
  /\ st \in {"fin_wait_1", "fin_wait_2", "closing", "last_ack"} => "fin_sent" \in flags

LogInv ==
  /\ seen \in [Slots -> Logs]
  /\ \A s \in Slots : InUse(s) => LogAt(state[s], seen[s], out_flags[s])

\* A step of the promise, or none.
LifeStep == Lifecycle!Next \/ UNCHANGED Lifecycle!vars

\* Sequences with the same elements are the same.
LEMMA SameSeq ==
  ASSUME NEW S, NEW s \in Seq(S), NEW t \in Seq(S),
         Len(s) = Len(t), \A i \in 1 .. Len(s) : s[i] = t[i]
  PROVE  s = t
  OBVIOUS

\* push_back on short tuples.
LEMMA AppendPair == ASSUME NEW a, NEW b PROVE Append(<<a>>, b) = <<a, b>>
  <1> DEFINE S == {a, b}
  <1>1. <<a>> \in Seq(S) /\ <<a, b>> \in Seq(S)
    OBVIOUS
  <1>2. Append(<<a>>, b) \in Seq(S) /\ Len(Append(<<a>>, b)) = 2 /\ Len(<<a, b>>) = 2
    BY <1>1
  <1>3. \A i \in 1 .. 2 : Append(<<a>>, b)[i] = <<a, b>>[i]
    BY <1>1
  <1> HIDE DEF S
  <1> QED BY <1>1, <1>2, <1>3, SameSeq, Zenon

\* The same for a third element.
LEMMA AppendTriple == ASSUME NEW a, NEW b, NEW c PROVE Append(<<a, b>>, c) = <<a, b, c>>
  <1> DEFINE S == {a, b, c}
  <1>1. <<a, b>> \in Seq(S) /\ <<a, b, c>> \in Seq(S)
    OBVIOUS
  <1>2. Append(<<a, b>>, c) \in Seq(S) /\ Len(Append(<<a, b>>, c)) = 3 /\ Len(<<a, b, c>>) = 3
    BY <1>1
  <1>3. \A i \in 1 .. 3 : Append(<<a, b>>, c)[i] = <<a, b, c>>[i]
    BY <1>1
  <1> HIDE DEF S
  <1> QED BY <1>1, <1>2, <1>3, SameSeq, Zenon

\* What a slot reported is a sequence of events.
LEMMA LogsTyped == Logs \subseteq Seq({"accepted", "peer_closed", "closed", "reset"})
  <1> DEFINE S == {"accepted", "peer_closed", "closed", "reset"}
  <1>1. ASSUME NEW a \in S, NEW b \in S, NEW c \in S
        PROVE  /\ <<>> \in Seq(S) /\ <<a>> \in Seq(S) /\ <<a, b>> \in Seq(S)
               /\ <<a, b, c>> \in Seq(S)
    <2> HIDE DEF S
    <2> QED OBVIOUS
  <1> QED BY <1>1 DEF Logs, OverLogs

\* The logs as they grow.
LEMMA LogFacts ==
  /\ \A l \in Logs : l \o <<>> = l
  /\ \A l \in Logs, e \in {"accepted", "peer_closed", "closed", "reset"} : l \o <<e>> = Append(l, e)
  /\ Append(<<>>, "accepted") = <<"accepted">>
  /\ Append(<<"accepted">>, "peer_closed") = <<"accepted", "peer_closed">>
  /\ \A l \in {<<"accepted">>, <<"accepted", "peer_closed">>}, e \in {"closed", "reset"} :
       Append(l, e) \in OverLogs
  <1>1. \A l \in Logs : l \o <<>> = l
    BY LogsTyped
  <1>2. \A l \in Logs, e \in {"accepted", "peer_closed", "closed", "reset"} :
          l \o <<e>> = Append(l, e)
    BY LogsTyped
  <1>3. \A l \in {<<"accepted">>, <<"accepted", "peer_closed">>}, e \in {"closed", "reset"} :
          Append(l, e) \in OverLogs
    <2> TAKE l \in {<<"accepted">>, <<"accepted", "peer_closed">>}, e \in {"closed", "reset"}
    <2>1. CASE l = <<"accepted">>
      <3>1. Append(l, e) = <<"accepted", e>>
        BY <2>1, AppendPair, Zenon
      <3> QED BY <3>1, Zenon DEF OverLogs
    <2>2. CASE l = <<"accepted", "peer_closed">>
      <3>1. Append(l, e) = <<"accepted", "peer_closed", e>>
        BY <2>2, AppendTriple, Zenon
      <3> QED BY <3>1, Zenon DEF OverLogs
    <2> QED BY <2>1, <2>2, Zenon
  <1>4. Append(<<>>, "accepted") = <<"accepted">>
    OBVIOUS
  <1> QED BY <1>1, <1>2, <1>3, <1>4, AppendPair

\* Which logs are those of a connection that is over.
LEMMA EndedFacts ==
  /\ \A l \in OverLogs : Lifecycle!Ended(l)
  /\ \A l \in {<<"accepted">>, <<"accepted", "peer_closed">>} : l # <<>> /\ ~Lifecycle!Ended(l)
  BY DEF OverLogs, Lifecycle!Ended

\* Nothing the application can tell happened.
LEMMA LifeSame ==
  ASSUME LogInv, UNCHANGED <<seen, out_flags>>,
         \A t \in Slots : /\ InUse(t)' <=> InUse(t)
                          /\ InUse(t) => LogAt(state'[t], seen[t], out_flags[t])
  PROVE  LogInv' /\ LifeStep
  <1>1. LogInv'
    BY DEF LogInv
  <1>2. [t \in Slots |-> InUse(t)]' = [t \in Slots |-> InUse(t)]
    <2>1. \A t \in Slots : InUse(t)' = InUse(t)
      BY Zenon DEF InUse
    <2> QED BY <2>1, Zenon
  <1>3. UNCHANGED Lifecycle!vars
    BY <1>2 DEF Lifecycle!vars
  <1> QED BY <1>1, <1>3, Zenon DEF LifeStep

\* Every step keeps LogInv and is a step of the promise or invisible to it.
LEMMA NextLife == Inv /\ LogInv /\ [Next]_vars => LogInv' /\ LifeStep
  \* An event is reported.
  <1>LifeReport.
    ASSUME TypeOK, LogInv, NEW s \in Slots, InUse(s), UNCHANGED out_flags,
           NEW e \in {"accepted", "peer_closed", "closed", "reset"},
           Lifecycle!MayFollow(e, seen[s], "fin_sent" \in out_flags[s]),
           seen' = [seen EXCEPT ![s] = Append(seen[s], e)],
           Append(seen[s], e) \in Logs, LogAt(state'[s], Append(seen[s], e), out_flags[s]),
           \A t \in Slots : /\ InUse(t)' <=> InUse(t)
                            /\ t # s => state'[t] = state[t]
    PROVE  LogInv' /\ LifeStep
    <2> USE <1>LifeReport
    <2>1. \A t \in Slots : seen'[t] = IF t = s THEN Append(seen[s], e) ELSE seen[t]
      BY Zenon DEF LogInv
    <2>2. LogInv'
      <3>1. seen' \in [Slots -> Logs]
        BY DEF LogInv
      <3> QED BY <2>1, <3>1, Zenon DEF LogInv
    <2>3. [t \in Slots |-> InUse(t)]' = [t \in Slots |-> InUse(t)]
      <3>1. \A t \in Slots : InUse(t)' = InUse(t)
        BY Zenon DEF InUse
      <3> QED BY <3>1, Zenon
    <2>4. /\ [t \in Slots |-> InUse(t)][s]
          /\ [t \in Slots |-> "fin_sent" \in out_flags[t]][s] = ("fin_sent" \in out_flags[s])
      OBVIOUS
    <2>5. Lifecycle!Report(s, e)
      BY <2>3, <2>4, Zenon DEF Lifecycle!Report
    <2> QED BY <2>2, <2>5, Zenon DEF LifeStep, Lifecycle!Next
  \* A slot is recycled.
  <1>LifeRecycle.
    ASSUME LogInv, NEW s \in Slots, InUse(s), ~InUse(s)', UNCHANGED <<seen, out_flags>>,
           seen[s] = <<>> \/ (seen[s] \in OverLogs /\ "released" \in out_flags[s]),
           \A t \in Slots : t # s => (InUse(t)' <=> InUse(t)) /\ state'[t] = state[t]
    PROVE  LogInv' /\ LifeStep
    <2> USE <1>LifeRecycle
    <2>1. LogInv'
      BY DEF LogInv
    <2>2. [t \in Slots |-> InUse(t)]' = [[t \in Slots |-> InUse(t)] EXCEPT ![s] = FALSE]
      <3>1. \A t \in Slots : InUse(t)' = IF t = s THEN FALSE ELSE InUse(t)
        BY Zenon DEF InUse
      <3> HIDE DEF InUse
      <3> QED BY <3>1, Zenon
    <2>3. [t \in Slots |-> InUse(t)][s]
      OBVIOUS
    <2>4. seen[s] = <<>> \/ (Lifecycle!Ended(seen[s]) /\ [t \in Slots |-> "released" \in out_flags[t]][s])
      BY EndedFacts, Zenon
    <2>5. Lifecycle!Recycle(s)
      BY <2>2, <2>3, <2>4, Zenon DEF Lifecycle!Recycle
    <2> QED BY <2>1, <2>5, Zenon DEF LifeStep, Lifecycle!Next
  \* A slot not in use gets a connection.
  <1>LifeBegin.
    ASSUME TypeOK, LogInv, NEW s \in Slots, ~InUse(s), InUse(s)', state'[s] = "syn_received",
           seen' = [seen EXCEPT ![s] = <<>>], out_flags' = [out_flags EXCEPT ![s] = {}],
           \A t \in Slots : t # s => (InUse(t)' <=> InUse(t)) /\ state'[t] = state[t]
    PROVE  LogInv' /\ LifeStep
    <2> USE <1>LifeBegin
    <2>1. \A t \in Slots : /\ seen'[t] = IF t = s THEN <<>> ELSE seen[t]
                           /\ out_flags'[t] = IF t = s THEN {} ELSE out_flags[t]
      BY Zenon DEF LogInv, TypeOK, SharedType
    <2>2. LogInv'
      <3>1. seen' \in [Slots -> Logs]
        BY DEF LogInv, Logs
      <3>2. LogAt("syn_received", <<>>, {})
        BY DEF LogAt
      <3> QED BY <2>1, <3>1, <3>2 DEF LogInv
    <2>3. [t \in Slots |-> InUse(t)]' = [[t \in Slots |-> InUse(t)] EXCEPT ![s] = TRUE]
      <3>1. \A t \in Slots : InUse(t)' = IF t = s THEN TRUE ELSE InUse(t)
        BY Zenon DEF InUse
      <3> HIDE DEF InUse
      <3> QED BY <3>1, Zenon
    <2>4. ~[t \in Slots |-> InUse(t)][s]
      OBVIOUS
    <2>5. ASSUME NEW f
          PROVE  [t \in Slots |-> f \in out_flags[t]]'
                   = [[t \in Slots |-> f \in out_flags[t]] EXCEPT ![s] = FALSE]
      <3> DEFINE Has(t) == f \in out_flags[t]
      <3>1. \A t \in Slots : Has(t)' = IF t = s THEN FALSE ELSE Has(t)
        <4>1. Has(s)' = FALSE
          BY <2>1
        <4>2. ASSUME NEW t \in Slots, t # s PROVE Has(t)' = Has(t)
          <5>1. out_flags'[t] = out_flags[t]
            BY <2>1, <4>2
          <5> QED BY <5>1, Zenon
        <4> QED BY <4>1, <4>2, Zenon
      <3> HIDE DEF Has
      <3>2. [t \in Slots |-> Has(t)]' = [[t \in Slots |-> Has(t)] EXCEPT ![s] = FALSE]
        BY <3>1, Zenon
      <3> QED BY <3>2 DEF Has
    <2>6. Lifecycle!Begin(s)
      BY <2>3, <2>4, <2>5, Zenon DEF Lifecycle!Begin
    <2> QED BY <2>2, <2>6 DEF LifeStep, Lifecycle!Next
  \* close() sets a flag of a connection that was accepted and is not released.
  <1>LifeFlag.
    ASSUME TypeOK, LogInv, NEW s \in Slots, InUse(s), seen[s] # <<>>, "released" \notin out_flags[s],
           NEW f \in {"fin_sent", "released"}, UNCHANGED <<seen, state, rx_pc, rx>>,
           out_flags' = [out_flags EXCEPT ![s] = @ \cup {f}]
    PROVE  LogInv' /\ LifeStep
    <2> USE <1>LifeFlag
    <2>1. \A t \in Slots : out_flags'[t] = IF t = s THEN out_flags[t] \cup {f} ELSE out_flags[t]
      BY Zenon DEF TypeOK, SharedType
    <2>2. \A t \in Slots : InUse(t)' = InUse(t)
      BY Zenon DEF InUse
    <2>3. LogInv'
      BY <2>1, <2>2 DEF LogInv, LogAt
    <2>4. [t \in Slots |-> InUse(t)]' = [t \in Slots |-> InUse(t)]
      BY <2>2, Zenon
    <2>5. [t \in Slots |-> InUse(t)][s] /\ ~[t \in Slots |-> "released" \in out_flags[t]][s]
      BY Zenon
    <2>6. [t \in Slots |-> f \in out_flags[t]]' = [[t \in Slots |-> f \in out_flags[t]] EXCEPT ![s] = TRUE]
      <3> DEFINE Has(t) == f \in out_flags[t]
      <3>1. \A t \in Slots : Has(t)' = IF t = s THEN TRUE ELSE Has(t)
        <4>1. Has(s)' = TRUE
          BY <2>1
        <4>2. ASSUME NEW t \in Slots, t # s PROVE Has(t)' = Has(t)
          <5>1. out_flags'[t] = out_flags[t]
            BY <2>1, <4>2
          <5> QED BY <5>1, Zenon
        <4> QED BY <4>1, <4>2, Zenon
      <3> HIDE DEF Has
      <3>2. [t \in Slots |-> Has(t)]' = [[t \in Slots |-> Has(t)] EXCEPT ![s] = TRUE]
        BY <3>1, Zenon
      <3> QED BY <3>2 DEF Has
    <2>7. ASSUME NEW g \in {"fin_sent", "released"}, g # f
          PROVE  [t \in Slots |-> g \in out_flags[t]]' = [t \in Slots |-> g \in out_flags[t]]
      <3>1. \A t \in Slots : (g \in out_flags'[t]) = (g \in out_flags[t])
        BY <2>1, <2>7
      <3> QED BY <3>1, Zenon
    <2>8. CASE f = "fin_sent"
      <3>1. [t \in Slots |-> "released" \in out_flags[t]]' = [t \in Slots |-> "released" \in out_flags[t]]
        BY <2>7, <2>8
      <3>2. [t \in Slots |-> "fin_sent" \in out_flags[t]]'
              = [[t \in Slots |-> "fin_sent" \in out_flags[t]] EXCEPT ![s] = TRUE]
        BY <2>6, <2>8
      <3>3. Lifecycle!Finish(s)
        BY <2>4, <2>5, <3>1, <3>2, Zenon DEF Lifecycle!Finish
      <3> QED BY <2>3, <3>3 DEF LifeStep, Lifecycle!Next
    <2>9. CASE f = "released"
      <3>1. [t \in Slots |-> "fin_sent" \in out_flags[t]]' = [t \in Slots |-> "fin_sent" \in out_flags[t]]
        BY <2>7, <2>9
      <3>2. [t \in Slots |-> "released" \in out_flags[t]]'
              = [[t \in Slots |-> "released" \in out_flags[t]] EXCEPT ![s] = TRUE]
        BY <2>6, <2>9
      <3>3. Lifecycle!Release(s)
        BY <2>4, <2>5, <3>1, <3>2, Zenon DEF Lifecycle!Release
      <3> QED BY <2>3, <3>3, Zenon DEF LifeStep, Lifecycle!Next
    <2> QED BY <2>8, <2>9
  \* The steps of the receiver that report nothing and recycle nothing.
  <1>PlainLife.
    ASSUME Inv, LogInv,
           \/ PollStart \/ ReapDone \/ ReceiveArp \/ EndBurst \/ FlushAck \/ PollReturn
           \/ AckLoadFlags \/ AckBeyond \/ DataNotDelivered
           \/ \E sent \in 0 .. Len(control) : FlushControl(sent)
           \/ \E f \in opening : OpenStore(f)
           \/ \E seg \in Segments :
                ReceiveUnknown(seg) \/ SegmentIgnored(seg) \/ HandshakePending(seg)
    PROVE  LogInv' /\ LifeStep
    <2> USE <1>PlainLife
    <2>1. /\ UNCHANGED <<seen, out_flags, state>>
          /\ \/ rx_pc # "open" /\ rx_pc' # "open"
             \/ UNCHANGED <<rx_pc, rx>>
      <3> USE DEF connVars, listVars, rxVars, evVars, outVars
      <3>1. CASE PollStart \/ ReapDone \/ EndBurst \/ AckLoadFlags
        BY <3>1, Zenon DEF PollStart, ReapDone, EndBurst, AckLoadFlags
      <3>2. CASE ReceiveArp \/ AckBeyond \/ DataNotDelivered
        BY <3>2 DEF ReceiveArp, AckBeyond, DataNotDelivered, NextPacket, Receiving
      <3>3. CASE FlushAck \/ \E sent \in 0 .. Len(control) : FlushControl(sent)
        BY <3>3, Zenon DEF FlushAck, FlushControl
      <3>4. CASE PollReturn
        BY <3>4, Zenon DEF PollReturn
      <3>5. CASE \E f \in opening : OpenStore(f)
        BY <3>5, Zenon DEF OpenStore
      <3>6. CASE \E seg \in Segments :
                   ReceiveUnknown(seg) \/ SegmentIgnored(seg) \/ HandshakePending(seg)
        BY <3>6 DEF ReceiveUnknown, SegmentIgnored, HandshakePending, NextPacket, Matches, Receiving
      <3> QED BY <3>1, <3>2, <3>3, <3>4, <3>5, <3>6, Zenon
    <2>2. \A t \in Slots : InUse(t)' <=> InUse(t)
      BY <2>1 DEF InUse
    <2> QED BY <2>1, <2>2, LifeSame, Zenon DEF LogInv
  \* open() works on a slot that stays out of use until it is published.
  <1>OpenLife.
    ASSUME Inv, LogInv, NEW seg, NEW iss, Open(seg, iss)
    PROVE  LogInv' /\ LifeStep
    <2> USE <1>OpenLife
    <2>1. PICK s : s = back(free_slots)
      OBVIOUS
    <2>2. free_slots # <<>> /\ free_slots \in Seq(Slots) /\ IsInjective(free_slots)
      BY DEF Open, Inv, TypeOK, ListType, SlotsAccounted
    <2>3. s \in Slots /\ s \in Range(free_slots)
      BY <2>1, <2>2, FrontList
    <2>4. state[s] = "free"
      BY <2>3 DEF Inv, SlotsAccounted
    <2>5. /\ rx_pc = "process" /\ rx_pc' = "open" /\ rx'.idx = s
          /\ state' = [state EXCEPT ![s] = "syn_received"] /\ UNCHANGED <<seen, out_flags>>
      BY <2>1 DEF Open, Receiving, evVars, outVars, Inv, TypeOK, PollType, RxType
    <2>6. \A t \in Slots : t # s => state'[t] = state[t]
      BY <2>5 DEF Inv, TypeOK, ConnType
    <2>7. \A t \in Slots : /\ InUse(t)' <=> InUse(t)
                           /\ InUse(t) => LogAt(state'[t], seen[t], out_flags[t])
      BY <2>4, <2>5, <2>6 DEF InUse, LogInv
    <2> QED BY <2>5, <2>7, LifeSame, Zenon
  \* open() publishes the slot.
  <1>OpenPublishLife.
    ASSUME Inv, LogInv, OpenPublish
    PROVE  LogInv' /\ LifeStep
    <2> USE <1>OpenPublishLife
    <2>1. PICK s \in Slots : s = rx.idx
      BY DEF OpenPublish, Inv, TypeOK, PollType
    <2>2. /\ rx_pc = "open" /\ rx_pc' = "process" /\ UNCHANGED state
          /\ seen' = [seen EXCEPT ![s] = <<>>] /\ out_flags' = [out_flags EXCEPT ![s] = {}]
      BY <2>1, Zenon DEF OpenPublish, NextPacket, connVars
    <2>3. state[s] = "syn_received"
      BY <2>1, <2>2, Zenon DEF Inv, IdsTrackSlots, OpenFresh
    <2>4. /\ ~InUse(s) /\ InUse(s)'
          /\ \A t \in Slots : t # s => (InUse(t)' <=> InUse(t))
      BY <2>1, <2>2, <2>3 DEF InUse
    <2> QED BY <2>2, <2>3, <2>4, <1>LifeBegin, Zenon DEF Inv
  \* release_slot takes a slot out of use.
  <1>ReleaseLife.
    ASSUME Inv, LogInv, NEW s \in Slots, state[s] # "free", release_slot(s),
           rx_pc # "open", rx_pc' # "open", UNCHANGED <<seen, out_flags>>,
           seen[s] = <<>> \/ (seen[s] \in OverLogs /\ "released" \in out_flags[s])
    PROVE  LogInv' /\ LifeStep
    <2> USE <1>ReleaseLife
    <2>1. \A t \in Slots : state'[t] = IF t = s THEN "free" ELSE state[t]
      BY Zenon DEF release_slot, Inv, TypeOK, ConnType
    <2>2. /\ InUse(s) /\ ~InUse(s)'
          /\ \A t \in Slots : t # s => (InUse(t)' <=> InUse(t))
      BY <2>1, Zenon DEF InUse
    <2> QED BY <2>1, <2>2, <1>LifeRecycle, Zenon
  \* The slots reap_released, finalize and a reset of the handshake recycle.
  <1>RecyclingLife.
    ASSUME Inv, LogInv,
           ReapReleased \/ Finalize \/ \E seg \in Segments : HandshakeReset(seg)
    PROVE  LogInv' /\ LifeStep
    <2> USE <1>RecyclingLife
    <2>0. rx_pc # "open" /\ rx_pc' # "open" /\ UNCHANGED <<seen, out_flags>>
      BY Zenon DEF ReapReleased, Finalize, HandshakeReset, Matches, Receiving, NextPacket, rxVars,
         evVars, outVars
    <2>1. CASE UNCHANGED state
      <3>1. \A t \in Slots : InUse(t)' <=> InUse(t)
        BY <2>0, <2>1 DEF InUse
      <3> QED BY <2>0, <2>1, <3>1, LifeSame, Zenon DEF LogInv
    <2>2. ASSUME NEW s \in Slots, state[s] = "closed", release_slot(s), "released" \in out_flags[s]
          PROVE  LogInv' /\ LifeStep
      <3>1. seen[s] \in OverLogs
        BY <2>0, <2>2 DEF LogInv, LogAt, InUse
      <3> QED BY <2>0, <2>2, <3>1, <1>ReleaseLife, Zenon
    <2>3. CASE ReapReleased
      <3>1. PICK s : s = awaiting_release[rx.i]
        OBVIOUS
      <3>2. s \in Slots /\ s \in Range(awaiting_release)
        BY <2>3, <3>1 DEF ReapReleased, Inv, TypeOK, ListType, PollType, RxType, Range
      <3>3. state[s] = "closed"
        BY <3>2, Zenon DEF Inv, SlotsAccounted
      <3>4. UNCHANGED state \/ (release_slot(s) /\ "released" \in out_flags[s])
        BY <2>3, <3>1, Zenon DEF ReapReleased
      <3> QED BY <2>1, <2>2, <3>2, <3>3, <3>4, Zenon
    <2>4. CASE Finalize
      <3>1. PICK s : s = Head(finalize_list)
        OBVIOUS
      <3>2. s \in Slots /\ s \in Range(finalize_list)
        BY <2>4, <3>1, TailList, Zenon DEF Finalize, Inv, TypeOK, ListType, SlotsAccounted
      <3>3. state[s] = "closed"
        BY <3>2, Zenon DEF Inv, SlotsAccounted
      <3> QED BY <2>1, <2>2, <2>4, <3>1, <3>2, <3>3, Zenon DEF Finalize
    <2>5. CASE \E seg \in Segments : HandshakeReset(seg)
      <3>1. PICK seg \in Segments : HandshakeReset(seg)
        BY <2>5
      <3>2. PICK s \in Slots : s = flows[seg.key]
        BY <3>1, FlowSlot, Zenon DEF HandshakeReset, Inv
      <3>3. sync_out_flags(s) = "syn_received" /\ (release_slot(s) \/ UNCHANGED state)
        BY <3>1, <3>2, Zenon DEF HandshakeReset
      <3>4. state[s] = "syn_received"
        BY <3>3 DEF sync_out_flags
      <3>5. seen[s] = <<>>
        BY <2>0, <3>4 DEF LogInv, LogAt, InUse
      <3> QED BY <2>0, <2>1, <3>3, <3>4, <3>5, <1>ReleaseLife
    <2> QED BY <2>3, <2>4, <2>5
  \* A connection in use reports an event as its state moves on.
  <1>ReportLife.
    ASSUME Inv, LogInv, NEW s \in Slots, NEW st, NEW e \in {"accepted", "peer_closed", "closed", "reset"},
           state[s] # "free", st # "free", rx_pc # "open", rx_pc' # "open", UNCHANGED out_flags,
           state' = [state EXCEPT ![s] = st], seen' = [seen EXCEPT ![s] = @ \o <<e>>],
           \/ e = "accepted" /\ state[s] = "syn_received" /\ st = "established"
           \/ e = "peer_closed" /\ state[s] = "established" /\ st = "close_wait"
           \/ e = "closed" /\ state[s] \in {"closing", "last_ack", "fin_wait_2"} /\ st = "closed"
           \/ e = "reset" /\ state[s] \notin {"syn_received", "closed"} /\ st = "closed"
    PROVE  LogInv' /\ LifeStep
    <2> USE <1>ReportLife
    <2>1. \A t \in Slots : state'[t] = IF t = s THEN st ELSE state[t]
      BY Zenon DEF Inv, TypeOK, ConnType
    <2>2. InUse(s) /\ \A t \in Slots : InUse(t)' <=> InUse(t)
      BY <2>1 DEF InUse
    <2>3. seen[s] \in Logs /\ seen \in [Slots -> Logs] /\ LogAt(state[s], seen[s], out_flags[s])
      BY <2>2 DEF LogInv
    <2>4. seen' = [seen EXCEPT ![s] = Append(seen[s], e)]
      BY <2>3, LogFacts, Zenon
    <2>5. state[s] \in TcpStates
      BY DEF Inv, TypeOK, ConnType
    <2>6. /\ Lifecycle!MayFollow(e, seen[s], "fin_sent" \in out_flags[s])
          /\ Append(seen[s], e) \in Logs
          /\ LogAt(st, Append(seen[s], e), out_flags[s])
      <3>1. CASE e = "accepted" /\ state[s] = "syn_received" /\ st = "established"
        <4>1. seen[s] = <<>>
          BY <2>3, <3>1 DEF LogAt
        <4> QED BY <3>1, <4>1, LogFacts, Zenon DEF Lifecycle!MayFollow, LogAt, Logs
      <3>2. CASE e = "peer_closed" /\ state[s] = "established" /\ st = "close_wait"
        <4>1. seen[s] = <<"accepted">>
          BY <2>3, <3>2, Zenon DEF LogAt
        <4> QED BY <3>2, <4>1, LogFacts DEF Lifecycle!MayFollow, LogAt, Logs
      <3>3. CASE e \in {"closed", "reset"} /\ st = "closed"
                 /\ state[s] \notin {"free", "syn_received", "closed"}
                 /\ (e = "closed" => "fin_sent" \in out_flags[s])
        <4>1. seen[s] \in {<<"accepted">>, <<"accepted", "peer_closed">>}
          BY <2>3, <2>5, <3>3, Zenon DEF LogAt, TcpStates
        <4>2. Append(seen[s], e) \in OverLogs
          BY <3>3, <4>1, LogFacts, Zenon
        <4>3. Lifecycle!MayFollow(e, seen[s], "fin_sent" \in out_flags[s])
          BY <3>3, <4>1, EndedFacts, Zenon DEF Lifecycle!MayFollow
        <4> QED BY <3>3, <4>2, <4>3 DEF LogAt, Logs
      <3> QED BY <2>3, <3>1, <3>2, <3>3, Zenon DEF LogAt
    <2> QED BY <2>1, <2>2, <2>4, <2>6, <1>LifeReport, Zenon DEF Inv
  \* A connection moves on without an event, close() being seen or not.
  <1>MoveLife.
    ASSUME Inv, LogInv, NEW s \in Slots, NEW st, state[s] # "free",
           rx_pc # "open", rx_pc' # "open", UNCHANGED <<seen, out_flags>>,
           state' = [state EXCEPT ![s] = st],
           \/ st = state[s] \/ st = sync_out_flags(s)
           \/ state[s] = "fin_wait_1" /\ st \in {"fin_wait_2", "closing"}
    PROVE  LogInv' /\ LifeStep
    <2> USE <1>MoveLife
    <2>1. \A t \in Slots : state'[t] = IF t = s THEN st ELSE state[t]
      BY DEF Inv, TypeOK, ConnType
    <2>2. LogAt(state[s], seen[s], out_flags[s])
      BY DEF LogInv, InUse
    <2>3. st # "free" /\ LogAt(st, seen[s], out_flags[s])
      BY <2>2, Zenon DEF LogAt, sync_out_flags
    <2>4. \A t \in Slots : /\ InUse(t)' <=> InUse(t)
                           /\ InUse(t) => LogAt(state'[t], seen[t], out_flags[t])
      BY <2>1, <2>3 DEF InUse, LogInv
    <2> QED BY <2>4, LifeSame, Zenon
  \* The segments of a connection.
  <1>SegmentLife.
    ASSUME Inv, LogInv, NEW seg \in Segments,
           HandshakeAck(seg) \/ SegmentReset(seg) \/ SegmentNotAck(seg) \/ SegmentAck(seg)
    PROVE  LogInv' /\ LifeStep
    <2> USE <1>SegmentLife
    <2>1. PICK s \in Slots : s = flows[seg.key]
      BY FlowSlot, Zenon DEF HandshakeAck, SegmentReset, SegmentNotAck, SegmentAck, Inv
    <2>2. CASE HandshakeAck(seg)
      <3>1. /\ rx_pc = "process" /\ rx_pc' = "data" /\ sync_out_flags(s) = "syn_received"
            /\ state' = [state EXCEPT ![s] = "established"]
            /\ seen' = [seen EXCEPT ![s] = @ \o <<"accepted">>] /\ UNCHANGED out_flags
        BY <2>1, <2>2, Zenon DEF HandshakeAck, Matches, Receiving, Emit, outVars
      <3>2. state[s] = "syn_received"
        BY <3>1, Zenon DEF sync_out_flags
      <3> QED BY <3>1, <3>2, <1>ReportLife, Zenon
    <2>3. CASE SegmentReset(seg)
      <3>1. /\ rx_pc = "process" /\ rx_pc' = "process" /\ sync_out_flags(s) \in Synchronized
            /\ UNCHANGED out_flags
            /\ \/ /\ state' = [state EXCEPT ![s] = "closed"]
                  /\ seen' = [seen EXCEPT ![s] = @ \o <<"reset">>]
               \/ state' = [state EXCEPT ![s] = sync_out_flags(s)] /\ UNCHANGED seen
        BY <2>1, <2>3, Zenon DEF SegmentReset, NextPacket, Matches, Receiving, Emit, evVars, outVars
      <3>2. state[s] \notin {"free", "syn_received", "closed"}
        BY <3>1, SyncLive
      <3> QED BY <3>1, <3>2, <1>ReportLife, <1>MoveLife
    <2>4. CASE SegmentNotAck(seg) \/ SegmentAck(seg)
      <3>1. /\ rx_pc = "process" /\ rx_pc' # "open" /\ sync_out_flags(s) \in Synchronized
            /\ UNCHANGED <<seen, out_flags>>
            /\ state' = [state EXCEPT ![s] = sync_out_flags(s)]
        BY <2>1, <2>4 DEF SegmentNotAck, SegmentAck, NextPacket, Matches, Receiving, evVars, outVars
      <3>2. state[s] \notin {"free", "syn_received", "closed"}
        BY <3>1, SyncLive
      <3> QED BY <3>1, <3>2, <1>MoveLife, Zenon
    <2> QED BY <2>2, <2>3, <2>4
  \* The ACK of our FIN.
  <1>AckLife.
    ASSUME Inv, LogInv, AckProcessed
    PROVE  LogInv' /\ LifeStep
    <2> USE <1>AckLife
    <2>1. PICK s \in Slots : s = rx.idx
      BY Zenon DEF AckProcessed, Inv, TypeOK, PollType
    <2>2. /\ rx_pc = "ack" /\ rx_pc' # "open" /\ UNCHANGED out_flags
          /\ \/ /\ state[s] \in {"closing", "last_ack"} /\ state' = [state EXCEPT ![s] = "closed"]
                /\ seen' = [seen EXCEPT ![s] = @ \o <<"closed">>]
             \/ /\ state[s] = "fin_wait_1" /\ state' = [state EXCEPT ![s] = "fin_wait_2"]
                /\ UNCHANGED seen
             \/ UNCHANGED <<state, seen>>
      BY <2>1 DEF AckProcessed, NextPacket, Emit, evVars, outVars
    <2>3. CASE UNCHANGED <<state, seen>>
      <3>1. \A t \in Slots : InUse(t)' <=> InUse(t)
        BY <2>2, <2>3, Zenon DEF InUse
      <3> QED BY <2>2, <2>3, <3>1, LifeSame DEF LogInv
    <2> QED BY <2>2, <2>3, <1>ReportLife, <1>MoveLife
  \* Bytes, the peer's FIN or both.
  <1>DataLife.
    ASSUME Inv, LogInv, DataDelivered
    PROVE  LogInv' /\ LifeStep
    <2> USE <1>DataLife
    <2> DEFINE s == rx.idx
               end == SeqAdd(rx.seg.seq, rx.seg.len)
               old == tcb[s].rcv_nxt_local
               fin == has(rx.seg, "FIN") /\ end = (IF seq_gt(end, old) THEN end ELSE old)
               st == CASE fin /\ state[s] = "established" -> "close_wait"
                       [] fin /\ state[s] = "fin_wait_1" -> "closing"
                       [] fin /\ state[s] = "fin_wait_2" -> "closed"
                       [] OTHER -> state[s]
               why == CASE fin /\ state[s] = "established" -> <<"peer_closed">>
                        [] fin /\ state[s] = "fin_wait_2" -> <<"closed">>
                        [] OTHER -> <<>>
    <2>1. /\ rx_pc = "data" /\ rx_pc' = "process" /\ UNCHANGED out_flags
          /\ state[s] \in {"established", "fin_wait_1", "fin_wait_2"}
          /\ state' = [state EXCEPT ![s] = st]
      BY Zenon DEF DataDelivered, CanReceive, NextPacket, outVars
    <2>2. seen' = [seen EXCEPT ![s] = @ \o why]
      BY Zenon DEF DataDelivered, Emit
    <2>3. s \in Slots
      BY <2>1 DEF Inv, TypeOK, PollType
    <2> HIDE DEF fin
    <2>4. CASE fin /\ state[s] = "established"
      <3>1. st = "close_wait" /\ why = <<"peer_closed">>
        BY <2>4
      <3> HIDE DEF st, why
      <3> QED BY <2>1, <2>2, <2>3, <2>4, <3>1, <1>ReportLife, Zenon
    <2>5. CASE fin /\ state[s] = "fin_wait_2"
      <3>1. st = "closed" /\ why = <<"closed">>
        BY <2>5
      <3> HIDE DEF st, why
      <3> QED BY <2>1, <2>2, <2>3, <2>5, <3>1, <1>ReportLife, Zenon
    <2>6. CASE ~fin \/ state[s] = "fin_wait_1"
      <3>1. /\ st = state[s] \/ (state[s] = "fin_wait_1" /\ st = "closing")
            /\ why = <<>>
        BY <2>6
      <3> HIDE DEF st, why
      <3>2. seen \in [Slots -> Logs] /\ seen[s] \in Logs
        BY <2>3, Zenon DEF LogInv
      <3>3. UNCHANGED seen
        BY <2>2, <2>3, <3>1, <3>2, LogFacts
      <3> QED BY <2>1, <2>3, <3>1, <3>3, <1>MoveLife, Zenon
    <2> QED BY <2>1, <2>4, <2>5, <2>6
  \* The outbound thread and the application: close() alone is seen.
  <1>SenderLife.
    ASSUME Inv, LogInv, Outbound \/ Application
    PROVE  LogInv' /\ LifeStep
    <2> USE <1>SenderLife
    <2>1. UNCHANGED <<state, rx_pc, rx, seen>>
      BY SenderFrame DEF connVars, rxVars, evVars
    <2>2. CASE CloseFlagFin \/ CloseRelease
      <3>1. PICK s : s = tx.conn.slot
        OBVIOUS
      <3>2. \E f \in {"fin_sent", "released"} : out_flags' = [out_flags EXCEPT ![s] = @ \cup {f}]
        BY <2>2, <3>1, Zenon DEF CloseFlagFin, CloseRelease
      <3>3. s \in Slots /\ state[s] \notin {"free", "syn_received"} /\ "released" \notin out_flags[s]
        BY <2>2, <3>1, IdSlots DEF CloseFlagFin, CloseRelease, Inv, SlotNotRecycled, Holding
      <3>4. InUse(s)
        BY <3>3, Zenon DEF InUse, Inv, IdsTrackSlots, OpenFresh
      <3>5. seen[s] # <<>>
        <4>1. LogAt(state[s], seen[s], out_flags[s]) /\ state[s] \in TcpStates
          BY <3>3, <3>4, Zenon DEF LogInv, Inv, TypeOK, ConnType
        <4>2. <<>> \notin OverLogs /\ <<"accepted">> # <<>> /\ <<"accepted", "peer_closed">> # <<>>
          BY DEF OverLogs
        <4> QED BY <3>3, <4>1, <4>2 DEF LogAt, TcpStates
      <3> QED BY <2>1, <3>2, <3>3, <3>4, <3>5, <1>LifeFlag, Zenon DEF Inv
    <2>3. CASE ~(CloseFlagFin \/ CloseRelease)
      <3>1. UNCHANGED out_flags
        <4>1. CASE Application
          BY <4>1, Zenon DEF Application, Call, Forget, outVars
        <4>2. CASE Outbound
          BY <2>3, <4>2, Zenon DEF Outbound, LookupGeneration, LookupFlags, LookupRecheck, Sendable,
             SendLimit, SendLoadAck, SendBuild, SendBurst, SendPullBack, CloseCheck, CloseCountFin,
             CloseSendFin, CloseRetry, CloseGiveUp, outVars
        <4> QED BY <4>1, <4>2
      <3>2. \A t \in Slots : InUse(t)' <=> InUse(t)
        BY <2>1 DEF InUse
      <3> QED BY <2>1, <3>1, <3>2, LifeSame, Zenon DEF LogInv
    <2> QED BY <2>2, <2>3
  <1> SUFFICES ASSUME Inv, LogInv, [Next]_vars PROVE LogInv' /\ LifeStep
    OBVIOUS
  <1>1. CASE Receive
    BY <1>1, <1>PlainLife, <1>OpenLife, <1>RecyclingLife, <1>SegmentLife, Zenon DEF Receive, ProcessSegment
  <1>2. CASE Inbound
    BY <1>2, <1>PlainLife, <1>RecyclingLife, <1>OpenPublishLife, <1>AckLife, <1>DataLife DEF Inbound
  <1>3. CASE UNCHANGED vars
    <2>1. UNCHANGED <<state, rx_pc, rx, seen, out_flags>>
      BY <1>3 DEF vars, connVars, rxVars, evVars, outVars
    <2>2. \A t \in Slots : InUse(t)' <=> InUse(t)
      BY <2>1 DEF InUse
    <2> QED BY <2>1, <2>2, LifeSame, Zenon DEF LogInv
  <1> QED BY <1>1, <1>2, <1>3, <1>SenderLife DEF Next

\* The endpoint keeps, slot by slot, the promise ConnLifecycle states to the application:
\* every step of both threads is a step of the promise, or invisible to it.
THEOREM LifecycleImplemented == Spec => LifecycleSpec
  <1>1. Init => LogInv /\ Lifecycle!Init
    <2> SUFFICES ASSUME Init PROVE LogInv /\ Lifecycle!Init
      OBVIOUS
    <2>1. /\ state = [s \in Slots |-> "free"] /\ seen = [s \in Slots |-> <<>>]
          /\ out_flags = [s \in Slots |-> {}]
      BY DEF Init, StackInit
    <2>2. \A s \in Slots : ~InUse(s) /\ "fin_sent" \notin out_flags[s] /\ "released" \notin out_flags[s]
      BY <2>1 DEF InUse
    <2>3. LogInv
      BY <2>1, <2>2 DEF LogInv, Logs
    <2>4. Lifecycle!Init
      <3>1. [s \in Slots |-> InUse(s)] = [s \in Slots |-> FALSE]
        <4>1. \A s \in Slots : InUse(s) = FALSE
          BY <2>1 DEF InUse
        <4> QED BY <4>1, Zenon
      <3>2. [s \in Slots |-> "fin_sent" \in out_flags[s]] = [s \in Slots |-> FALSE]
        <4>1. \A s \in Slots : ("fin_sent" \in out_flags[s]) = FALSE
          BY <2>1
        <4> QED BY <4>1, Zenon
      <3>3. [s \in Slots |-> "released" \in out_flags[s]] = [s \in Slots |-> FALSE]
        <4>1. \A s \in Slots : ("released" \in out_flags[s]) = FALSE
          BY <2>1
        <4> QED BY <4>1, Zenon
      <3> QED BY <2>1, <3>1, <3>2, <3>3, Zenon DEF Lifecycle!Init
    <2> QED BY <2>3, <2>4
  <1>2. Inv /\ LogInv /\ [Next]_vars => LogInv' /\ [Lifecycle!Next]_(Lifecycle!vars)
    BY NextLife, Zenon DEF LifeStep
  <1> QED BY <1>1, <1>2, InvHolds, PTL DEF Spec, LifecycleSpec, Lifecycle!Spec

-----------------------------------------------------------------------------
\* The ACK of our FIN

\* close() flagged the FIN of a connection whose FIN was acknowledged, and process_ack has
\* read that flag.
FinInv ==
  /\ \A s \in Slots : FinDone(s) => "fin_sent" \in out_flags[s]
  /\ rx_pc = "ack" /\ "fin_sent" \in rx.out => "fin_sent" \in out_flags[rx.idx]

\* process_ack is at a segment that acknowledges all of snd_nxt, and has read fin_sent.
AcksFin(s) == rx_pc = "ack" /\ rx.idx = s /\ "fin_sent" \in rx.out /\ rx.seg.ack = snd_nxt[s]

FinMoves == \A s \in Slots : FinDone(s)' => FinDone(s) \/ AcksFin(s)

\* The last event of a log that has just grown.
LEMMA BackLog ==
  ASSUME NEW l \in Logs, NEW e \in {"accepted", "peer_closed", "closed", "reset"}
  PROVE  l \o <<e>> \in Seq({"accepted", "peer_closed", "closed", "reset"})
         /\ back(l \o <<e>>) = e
  <1> DEFINE S == {"accepted", "peer_closed", "closed", "reset"}
  <1>1. l \in Seq(S)
    BY LogsTyped
  <1>2. l \o <<e>> = Append(l, e)
    BY LogFacts
  <1> HIDE DEF S
  <1>3. Append(l, e) \in Seq(S) /\ Len(Append(l, e)) = Len(l) + 1 /\ Append(l, e)[Len(l) + 1] = e
    BY <1>1 DEF S
  <1> QED BY <1>2, <1>3 DEF back, S

\* The FIN of one connection is done, or the connection is out of fin_wait_2 and closed.
LEMMA MoveFin ==
  ASSUME Inv, LogInv, NEW t \in Slots, NEW st,
         state' = [state EXCEPT ![t] = st],
         \/ UNCHANGED seen /\ (st \in {"fin_wait_2", "closed"} => st = state[t])
         \/ UNCHANGED seen /\ st = "fin_wait_2" /\ AcksFin(t)
         \/ \E e \in {"accepted", "peer_closed", "closed", "reset"} :
              /\ seen' = [seen EXCEPT ![t] = @ \o <<e>>]
              /\ st # "fin_wait_2" /\ (st = "closed" /\ e = "closed" => FinDone(t) \/ AcksFin(t))
  PROVE  FinMoves
  <1>1. \A s \in Slots : state'[s] = IF s = t THEN st ELSE state[s]
    BY DEF Inv, TypeOK, ConnType
  <1>2. seen \in [Slots -> Logs]
    BY Zenon DEF LogInv
  <1>3. \A s \in Slots \ {t} : FinDone(s)' <=> FinDone(s)
    BY <1>1, <1>2, Zenon DEF FinDone
  <1>4. FinDone(t)' => FinDone(t) \/ AcksFin(t)
    <2>1. CASE UNCHANGED seen
      BY <1>1, <1>2, <2>1 DEF FinDone
    <2>2. ASSUME NEW e \in {"accepted", "peer_closed", "closed", "reset"},
                 seen' = [seen EXCEPT ![t] = @ \o <<e>>], st # "fin_wait_2",
                 st = "closed" /\ e = "closed" => FinDone(t) \/ AcksFin(t)
          PROVE  FinDone(t)' => FinDone(t) \/ AcksFin(t)
      <3>1. seen'[t] = seen[t] \o <<e>> /\ seen[t] \in Logs
        BY <1>2, <2>2, Zenon
      <3>2. back(seen'[t]) = e
        BY <3>1, BackLog, Zenon
      <3>3. FinDone(t)' => st = "closed" /\ e = "closed"
        BY <1>1, <2>2, <3>2 DEF FinDone
      <3> QED BY <2>2, <3>3
    <2> QED BY <2>1, <2>2, Zenon
  <1> QED BY <1>3, <1>4, Zenon DEF FinMoves

\* Nothing FinDone depends on.
LEMMA SameFin == ASSUME UNCHANGED <<state, seen>> PROVE FinMoves
  BY DEF FinMoves, FinDone

\* A connection passes to fin_wait_2, or closes cleanly from elsewhere, only in process_ack.
LEMMA NextFin == ASSUME Inv, LogInv, [Next]_vars PROVE FinMoves
  <1>1. CASE \/ PollStart \/ ReapDone \/ ReceiveArp
             \/ \E seg \in Segments : ReceiveUnknown(seg) \/ SegmentIgnored(seg) \/ HandshakePending(seg)
             \/ AckLoadFlags \/ AckBeyond \/ DataNotDelivered \/ EndBurst \/ FlushAck
             \/ (\E sent \in 0 .. Len(control) : FlushControl(sent)) \/ PollReturn
             \/ \E f \in opening : OpenStore(f)
    BY <1>1, SameFin, Zenon DEF PollStart, ReapDone, ReceiveArp, ReceiveUnknown, SegmentIgnored,
       HandshakePending, AckLoadFlags, AckBeyond, DataNotDelivered, EndBurst, FlushAck, FlushControl,
       PollReturn, OpenStore, connVars, rxVars, evVars
  <1>2. CASE ReapReleased \/ (\E seg \in Segments : HandshakeReset(seg)) \/ Finalize
    <2>1. /\ UNCHANGED seen
          /\ state' = state \/ \E t : state' = [state EXCEPT ![t] = "free"]
      BY <1>2, Zenon DEF ReapReleased, HandshakeReset, Finalize, release_slot, evVars, rxVars
    <2>2. \A s \in Slots : state'[s] \in {state[s], "free"}
      BY <2>1 DEF Inv, TypeOK, ConnType
    <2> QED BY <2>1, <2>2 DEF FinMoves, FinDone
  <1>3. CASE \E seg \in Segments, iss \in Iss : Open(seg, iss)
    <2>1. UNCHANGED seen /\ \E t : state' = [state EXCEPT ![t] = "syn_received"]
      BY <1>3, Zenon DEF Open, evVars
    <2>2. \A s \in Slots : state'[s] \in {state[s], "syn_received"}
      BY <2>1, Zenon DEF Inv, TypeOK, ConnType
    <2> QED BY <2>1, <2>2 DEF FinMoves, FinDone
  <1>4. CASE OpenPublish
    <2>1. UNCHANGED state /\ seen' = [seen EXCEPT ![rx.idx] = <<>>] /\ state[rx.idx] = "syn_received"
      BY <1>4, Zenon DEF OpenPublish, connVars, Inv, IdsTrackSlots, OpenFresh
    <2>2. \A s \in Slots \ {rx.idx} : seen'[s] = seen[s]
      BY <2>1 DEF LogInv
    <2> QED BY <2>1, <2>2 DEF FinMoves, FinDone
  <1>5. ASSUME NEW seg \in Segments,
               HandshakeAck(seg) \/ SegmentReset(seg) \/ SegmentNotAck(seg) \/ SegmentAck(seg)
        PROVE  FinMoves
    <2>1. PICK s \in Slots : s = flows[seg.key]
      BY <1>5, FlowSlot, Zenon DEF HandshakeAck, SegmentReset, SegmentNotAck, SegmentAck, Inv
    <2>2. \/ state' = [state EXCEPT ![s] = sync_out_flags(s)] /\ UNCHANGED seen
          \/ state' = [state EXCEPT ![s] = "closed"] /\ seen' = [seen EXCEPT ![s] = @ \o <<"reset">>]
          \/ state' = [state EXCEPT ![s] = "established"] /\ seen' = [seen EXCEPT ![s] = @ \o <<"accepted">>]
      <3>1. CASE HandshakeAck(seg)
        BY <2>1, <3>1, Zenon DEF HandshakeAck, Emit
      <3>2. CASE SegmentReset(seg)
        BY <2>1, <3>2, Zenon DEF SegmentReset, Emit, evVars
      <3>3. CASE SegmentNotAck(seg) \/ SegmentAck(seg)
        BY <2>1, <3>3, Zenon DEF SegmentNotAck, SegmentAck, evVars
      <3> QED BY <1>5, <3>1, <3>2, <3>3
    <2>3. sync_out_flags(s) \in {"fin_wait_2", "closed"} => sync_out_flags(s) = state[s]
      BY DEF sync_out_flags
    <2> QED BY <2>2, <2>3, MoveFin, Zenon
  <1>6. CASE AckProcessed
    <2>1. PICK s \in Slots : s = rx.idx
      BY <1>6, Zenon DEF AckProcessed, Inv, TypeOK, PollType
    <2>2. \/ /\ AcksFin(s) /\ state' = [state EXCEPT ![s] = "closed"]
             /\ seen' = [seen EXCEPT ![s] = @ \o <<"closed">>]
          \/ AcksFin(s) /\ state' = [state EXCEPT ![s] = "fin_wait_2"] /\ UNCHANGED seen
          \/ UNCHANGED <<state, seen>>
      BY <1>6, <2>1, Zenon DEF AckProcessed, AcksFin, FinAcked, Emit, evVars
    <2> QED BY <2>2, MoveFin, SameFin, Zenon
  <1>7. CASE DataDelivered
    <2> DEFINE s == rx.idx
               end == SeqAdd(rx.seg.seq, rx.seg.len)
               old == tcb[s].rcv_nxt_local
               fin == has(rx.seg, "FIN") /\ end = (IF seq_gt(end, old) THEN end ELSE old)
               st == CASE fin /\ state[s] = "established" -> "close_wait"
                       [] fin /\ state[s] = "fin_wait_1" -> "closing"
                       [] fin /\ state[s] = "fin_wait_2" -> "closed"
                       [] OTHER -> state[s]
               why == CASE fin /\ state[s] = "established" -> <<"peer_closed">>
                        [] fin /\ state[s] = "fin_wait_2" -> <<"closed">>
                        [] OTHER -> <<>>
    <2>1. state' = [state EXCEPT ![s] = st] /\ seen' = [seen EXCEPT ![s] = @ \o why]
      BY <1>7, Zenon DEF DataDelivered, Emit
    <2>2. s \in Slots
      BY <1>7, Zenon DEF DataDelivered, Inv, TypeOK, PollType
    <2> HIDE DEF fin
    <2>3. \/ st = "close_wait" /\ why = <<"peer_closed">>
          \/ st = "closed" /\ why = <<"closed">> /\ state[s] = "fin_wait_2"
          \/ (st = state[s] \/ st = "closing") /\ why = <<>>
      OBVIOUS
    <2> HIDE DEF st, why, s
    <2>4. why = <<>> => UNCHANGED seen
      <3>1. seen \in [Slots -> Logs] /\ seen[s] \in Logs
        BY <2>2, Zenon DEF LogInv
      <3> QED BY <2>1, <2>2, <3>1, LogFacts
    <2> QED BY <2>1, <2>2, <2>3, <2>4, MoveFin, Zenon DEF FinDone
  <1>8. CASE Outbound \/ Application
    BY <1>8, SenderFrame, SameFin DEF connVars, rxVars, evVars
  <1>9. CASE UNCHANGED vars
    BY <1>9, SameFin DEF vars, connVars, rxVars, evVars
  <1> QED BY <1>1, <1>2, <1>3, <1>4, <1>5, <1>6, <1>7, <1>8, <1>9
          DEF Next, Inbound, Receive, ProcessSegment

\* What the outbound thread owns does not change while a packet is taken.
LEMMA ReceiveKeepsOut == Receive => UNCHANGED <<snd_nxt, out_flags>>
  <1>1. ReceiveArp => UNCHANGED <<snd_nxt, out_flags>>
    BY Zenon DEF ReceiveArp, outVars
  <1>2. ASSUME NEW seg, NEW iss
        PROVE  ReceiveUnknown(seg) \/ Open(seg, iss) => UNCHANGED <<snd_nxt, out_flags>>
    BY Zenon DEF ReceiveUnknown, Open, outVars
  <1>3. ASSUME NEW seg
        PROVE  SegmentIgnored(seg) \/ HandshakeReset(seg) \/ HandshakePending(seg)
                 => UNCHANGED <<snd_nxt, out_flags>>
    BY Zenon DEF SegmentIgnored, HandshakeReset, HandshakePending, outVars
  <1>4. ASSUME NEW seg
        PROVE  HandshakeAck(seg) \/ SegmentReset(seg) \/ SegmentNotAck(seg) \/ SegmentAck(seg)
                 => UNCHANGED <<snd_nxt, out_flags>>
    BY Zenon DEF HandshakeAck, SegmentReset, SegmentNotAck, SegmentAck, outVars
  <1> QED BY <1>1, <1>2, <1>3, <1>4, Zenon DEF Receive, ProcessSegment

\* Every step keeps the flag of a FIN that was acknowledged.
LEMMA NextFinInv == Inv /\ LogInv /\ FinInv /\ [Next]_vars => FinInv'
  \* The flag of a FIN stays until open() takes the slot again.
  <1>FlagStays.
    ASSUME Inv, [Next]_vars, NEW s \in Slots, "fin_sent" \in out_flags[s],
           rx_pc = "open" => rx.idx # s
    PROVE  "fin_sent" \in out_flags'[s]
    <2> USE <1>FlagStays
    <2>1. \/ UNCHANGED out_flags
          \/ \E f : out_flags' = [out_flags EXCEPT ![tx.conn.slot] = @ \cup {f}]
          \/ rx_pc = "open" /\ out_flags' = [out_flags EXCEPT ![rx.idx] = {}]
      <3>1. CASE Receive
        BY <3>1, ReceiveKeepsOut, Zenon
      <3>2. CASE Inbound
        BY <3>2, Zenon DEF Inbound, PollStart, ReapReleased, ReapDone, OpenStore, OpenPublish,
           AckLoadFlags, AckBeyond, AckProcessed, DataNotDelivered, DataDelivered, EndBurst, FlushAck,
           FlushControl, Finalize, PollReturn, outVars
      <3>3. CASE Outbound
        BY <3>3, Zenon DEF Outbound, LookupGeneration, LookupFlags, LookupRecheck, Sendable,
           SendLimit, SendLoadAck, SendBuild, SendBurst, SendPullBack, CloseCheck, CloseCountFin,
           CloseFlagFin, CloseSendFin, CloseRetry, CloseGiveUp, CloseRelease, outVars
      <3>4. CASE Application
        BY <3>4, Zenon DEF Application, Call, Forget, outVars
      <3>5. CASE UNCHANGED vars
        BY <3>5, Zenon DEF vars, outVars
      <3> QED BY <3>1, <3>2, <3>3, <3>4, <3>5, Zenon DEF Next
    <2>2. out_flags \in [Slots -> SUBSET OutFlags]
      BY DEF Inv, TypeOK, SharedType
    <2> QED BY <2>1, <2>2
  \* process_ack reads the flags once, and nobody else touches its locals.
  <1>FlagsRead.
    ASSUME [Next]_vars, rx_pc' = "ack"
    PROVE  \/ rx_pc = "ack" /\ UNCHANGED rx
           \/ rx_pc = "flags" /\ rx' = [rx EXCEPT !.out = out_flags[rx.idx]] /\ UNCHANGED out_flags
    <2> USE <1>FlagsRead
    <2>1. CASE Receive
      <3>1. ASSUME ReceiveArp \/ \E seg \in Segments : ReceiveUnknown(seg) \/ \E iss \in Iss : Open(seg, iss)
            PROVE  FALSE
        BY <3>1, Zenon DEF ReceiveArp, ReceiveUnknown, Open, NextPacket
      <3>2. ASSUME NEW seg \in Segments,
                   SegmentIgnored(seg) \/ HandshakeReset(seg) \/ HandshakePending(seg) \/ HandshakeAck(seg)
            PROVE  FALSE
        BY <3>2, Zenon DEF SegmentIgnored, HandshakeReset, HandshakePending, HandshakeAck, NextPacket
      <3>3. ASSUME NEW seg \in Segments, SegmentReset(seg) \/ SegmentNotAck(seg) \/ SegmentAck(seg)
            PROVE  FALSE
        BY <3>3, Zenon DEF SegmentReset, SegmentNotAck, SegmentAck, NextPacket
      <3> QED BY <2>1, <3>1, <3>2, <3>3, Zenon DEF Receive, ProcessSegment
    <2>2. CASE Inbound
      <3>1. CASE AckLoadFlags
        BY <3>1 DEF AckLoadFlags, outVars
      <3>2. CASE ~AckLoadFlags
        <4>1. \/ rx_pc # "ack" /\ UNCHANGED rx_pc
              \/ rx_pc' # "ack"
          BY <2>2, <3>2, Zenon DEF Inbound, PollStart, ReapReleased, ReapDone, OpenStore, OpenPublish,
             AckBeyond, AckProcessed, DataNotDelivered, DataDelivered, EndBurst, FlushAck,
             FlushControl, Finalize, PollReturn, NextPacket, rxVars
        <4> QED BY <4>1
      <3> QED BY <3>1, <3>2
    <2>3. CASE Outbound \/ Application
      BY <2>3, SenderFrame DEF rxVars
    <2>4. CASE UNCHANGED vars
      BY <2>4 DEF vars, rxVars
    <2> QED BY <2>1, <2>2, <2>3, <2>4 DEF Next
  <1> SUFFICES ASSUME Inv, LogInv, FinInv, [Next]_vars PROVE FinInv'
    OBVIOUS
  <1>1. FinMoves
    BY NextFin
  <1>2. rx_pc \in {"flags", "ack", "data"} => rx.idx \in Slots
    BY DEF Inv, TypeOK, PollType
  <1>3. rx_pc = "open" => state[rx.idx] = "syn_received"
    BY DEF Inv, IdsTrackSlots, OpenFresh
  <1>4. \A s \in Slots : FinDone(s)' => "fin_sent" \in out_flags'[s]
    <2> SUFFICES ASSUME NEW s \in Slots, FinDone(s)' PROVE "fin_sent" \in out_flags'[s]
      OBVIOUS
    <2>1. CASE FinDone(s)
      <3>1. rx_pc = "open" => rx.idx # s
        BY <1>3, <2>1 DEF FinDone
      <3> QED BY <2>1, <3>1, <1>FlagStays DEF FinInv
    <2>2. CASE AcksFin(s)
      BY <2>2, <1>FlagStays DEF FinInv, AcksFin
    <2> QED BY <1>1, <2>1, <2>2 DEF FinMoves
  <1>5. ASSUME rx_pc' = "ack", "fin_sent" \in rx'.out PROVE "fin_sent" \in out_flags'[rx'.idx]
    <2>1. CASE rx_pc = "ack" /\ UNCHANGED rx
      BY <1>2, <1>5, <2>1, <1>FlagStays DEF FinInv
    <2>2. CASE rx_pc = "flags" /\ rx' = [rx EXCEPT !.out = out_flags[rx.idx]] /\ UNCHANGED out_flags
      <3>1. rx'.out = out_flags[rx.idx] /\ rx'.idx = rx.idx
        BY <2>2 DEF Inv, TypeOK, PollType, RxType
      <3> QED BY <1>5, <2>2, <3>1
    <2> QED BY <1>5, <2>1, <2>2, <1>FlagsRead, Zenon
  <1> QED BY <1>4, <1>5 DEF FinInv

\* snd_nxt moves where open() stores it, and where a call has not finished the stream.
LEMMA StreamEnds ==
  ASSUME Inv, WireInv, [Next]_vars, NEW s \in Slots, "fin_sent" \in out_flags[s],
         rx_pc = "open" => rx.idx # s
  PROVE  snd_nxt'[s] = snd_nxt[s]
  <1>1. \/ UNCHANGED snd_nxt
        \/ rx_pc = "open" /\ \E v : snd_nxt' = [snd_nxt EXCEPT ![rx.idx] = v]
        \/ /\ tx_pc \in {"build", "pull_back", "count_fin"}
           /\ \E v : snd_nxt' = [snd_nxt EXCEPT ![tx.conn.slot] = v]
    <2>1. CASE Receive
      BY <2>1, ReceiveKeepsOut, Zenon
    <2>2. CASE Inbound
      BY <2>2, Zenon DEF Inbound, PollStart, ReapReleased, ReapDone, OpenStore, OpenPublish,
         AckLoadFlags, AckBeyond, AckProcessed, DataNotDelivered, DataDelivered, EndBurst, FlushAck,
         FlushControl, Finalize, PollReturn, outVars
    <2>3. CASE Outbound
      <3>1. CASE (\E n \in 0 .. MaxBurst : SendBuild(n)) \/ SendPullBack \/ CloseCountFin
        BY <3>1, Zenon DEF SendBuild, SendPullBack, CloseCountFin
      <3>2. CASE ~((\E n \in 0 .. MaxBurst : SendBuild(n)) \/ SendPullBack \/ CloseCountFin)
        BY <2>3, <3>2, Zenon DEF Outbound, LookupGeneration, LookupFlags, LookupRecheck, Sendable,
           SendLimit, SendLoadAck, SendBurst, CloseCheck, CloseFlagFin, CloseSendFin, CloseRetry,
           CloseGiveUp, CloseRelease, outVars
      <3> QED BY <3>1, <3>2
    <2>4. CASE Application
      BY <2>4, Zenon DEF Application, Call, Forget, outVars
    <2>5. CASE UNCHANGED vars
      BY <2>5 DEF vars, outVars
    <2> QED BY <2>1, <2>2, <2>3, <2>4, <2>5, Zenon DEF Next
  <1>2. tx_pc \in {"build", "pull_back", "count_fin"} => tx.conn.slot # s
    BY DEF WireInv, NotFinished
  <1>3. snd_nxt \in [Slots -> SeqNums]
    BY DEF Inv, TypeOK, SharedType
  <1> QED BY <1>1, <1>2, <1>3

\* A connection passes to fin_wait_2, or closes cleanly, only on an ACK of the number its
\* send stream ends at for good, whatever close() and send() are doing meanwhile.
THEOREM FinAckedTrulyHolds == Spec => FinAckedTruly
  <1> DEFINE Step == \A s \in Slots : FinDone(s)' => IF FinDone(s) THEN snd_nxt'[s] = snd_nxt[s]
                                                                ELSE rx.seg.ack = snd_nxt'[s]
  <1>1. Init => LogInv /\ FinInv
    <2> SUFFICES ASSUME Init PROVE LogInv /\ FinInv
      OBVIOUS
    <2>1. state = [s \in Slots |-> "free"] /\ seen = [s \in Slots |-> <<>>] /\ rx_pc = "idle"
      BY DEF Init, StackInit
    <2> QED BY <2>1 DEF LogInv, FinInv, FinDone, InUse, Logs
  <1>2. Inv /\ LogInv /\ FinInv /\ [Next]_vars => LogInv' /\ FinInv'
    BY NextLife, NextFinInv, Zenon
  <1>3. Inv /\ WireInv /\ LogInv /\ FinInv /\ [Next]_vars => Step
    <2> SUFFICES ASSUME Inv, WireInv, LogInv, FinInv, [Next]_vars, NEW s \in Slots, FinDone(s)'
                 PROVE  IF FinDone(s) THEN snd_nxt'[s] = snd_nxt[s] ELSE rx.seg.ack = snd_nxt'[s]
      BY Zenon
    <2>1. rx_pc = "open" => state[rx.idx] = "syn_received"
      BY DEF Inv, IdsTrackSlots, OpenFresh
    <2>2. CASE FinDone(s)
      <3>1. (rx_pc = "open" => rx.idx # s) /\ "fin_sent" \in out_flags[s]
        BY <2>1, <2>2 DEF FinDone, FinInv
      <3> QED BY <2>2, <3>1, StreamEnds
    <2>3. CASE ~FinDone(s)
      <3>1. AcksFin(s)
        BY <2>3, NextFin DEF FinMoves
      <3>2. rx_pc = "ack" /\ "fin_sent" \in out_flags[s] /\ rx.seg.ack = snd_nxt[s]
        BY <3>1 DEF AcksFin, FinInv
      <3> QED BY <2>3, <3>2, StreamEnds
    <2> QED BY <2>2, <2>3
  <1>4. Inv /\ WireInv /\ LogInv /\ FinInv /\ [Next]_vars => [Step]_vars
    BY <1>3
  <1> HIDE DEF Step
  <1>5. Spec => [][Step]_vars
    BY <1>1, <1>2, <1>4, WireHolds, PTL DEF Spec
  <1> QED BY <1>5, Zenon DEF FinAckedTruly, Step

-----------------------------------------------------------------------------
\* The ACKs that are due

\* A slot on the list has, or had in this poll, a connection past the handshake; the flag of
\* one that is on the list is cleared by a reset alone.
AckAt(s) ==
  /\ ack_pending[s] => /\ s \in Range(ack_list)
                       /\ state[s] = "closed" => back(seen[s]) = "closed"
  /\ s \in Range(ack_list) => /\ state[s] \in Synchronized \cup {"closed"}
                              /\ ~ack_pending[s] => state[s] = "closed"

\* flush_acks empties the list before finalize() and before poll() returns.
AckInv ==
  /\ rx_pc \in {"finalize", "idle", "reap"} => ack_list = <<>>
  /\ IsInjective(ack_list)
  /\ \A s \in Slots : AckAt(s)
  /\ rx_pc \in {"flags", "ack", "data"} => state[rx.idx] \in Synchronized

\* An empty list holds nothing.
LEMMA EmptyList == Range(<<>>) = {}
  BY DEF Range

\* Every step keeps AckInv.
LEMMA NextAcks == Inv /\ LogInv /\ AckInv /\ [Next]_vars => AckInv'
  \* The list stays, and so does every slot on it.
  <1>AckKept.
    ASSUME Inv, AckInv, UNCHANGED ack_list,
           \A s \in Slots : \/ ack_pending'[s] = ack_pending[s] /\ state'[s] = state[s] /\ seen'[s] = seen[s]
                            \/ ~ack_pending'[s] /\ s \notin Range(ack_list),
           rx_pc' \in {"finalize", "idle", "reap"} => ack_list = <<>>,
           rx_pc' \in {"flags", "ack", "data"} => state'[rx'.idx] \in Synchronized
    PROVE  AckInv'
    <2> USE <1>AckKept
    <2>1. ASSUME NEW s \in Slots PROVE AckAt(s)'
      BY Zenon DEF AckInv, AckAt
    <2> QED BY <2>1, Zenon DEF AckInv
  \* The steps of the receiver between the packets, and the steps of the sender.
  <1>PlainAcks.
    ASSUME Inv, AckInv,
           \/ PollStart \/ ReapDone \/ ReceiveArp
           \/ \E seg \in Segments : ReceiveUnknown(seg) \/ SegmentIgnored(seg) \/ HandshakePending(seg)
           \/ AckLoadFlags \/ EndBurst
           \/ (\E sent \in 0 .. Len(control) : FlushControl(sent)) \/ PollReturn
           \/ (\E f \in opening : OpenStore(f))
           \/ Outbound \/ Application \/ UNCHANGED vars
    PROVE  AckInv'
    <2> USE <1>PlainAcks
    <2>1. UNCHANGED <<ack_list, ack_pending, state, seen>>
      <3>1. CASE Outbound \/ Application \/ UNCHANGED vars
        BY <3>1, SenderFrame, Zenon DEF vars, connVars, listVars, rxVars, evVars
      <3> QED BY <3>1, Zenon DEF PollStart, ReapDone, ReceiveArp, ReceiveUnknown, SegmentIgnored,
         HandshakePending, AckLoadFlags, EndBurst, FlushControl, PollReturn, OpenStore,
         connVars, listVars, rxVars, evVars
    <2>2. \/ UNCHANGED <<rx_pc, rx>>
          \/ rx_pc' \notin {"finalize", "idle", "reap", "flags", "ack", "data"}
          \/ rx_pc' \in {"finalize", "idle", "reap"} /\ ack_list = <<>>
          \/ rx_pc = "flags" /\ rx_pc' = "ack" /\ rx' = [rx EXCEPT !.out = out_flags[rx.idx]]
      <3>1. CASE Outbound \/ Application \/ UNCHANGED vars
        BY <3>1, SenderFrame DEF vars, rxVars
      <3>2. CASE PollStart \/ PollReturn \/ \E sent \in 0 .. Len(control) : FlushControl(sent)
        BY <3>2 DEF PollStart, PollReturn, FlushControl, AckInv
      <3>3. CASE AckLoadFlags
        BY <3>3 DEF AckLoadFlags
      <3> QED BY <3>1, <3>2, <3>3 DEF ReapDone, ReceiveArp, ReceiveUnknown, SegmentIgnored,
         HandshakePending, EndBurst, OpenStore, NextPacket
    <2>3. rx_pc' \in {"flags", "ack", "data"} => state[rx'.idx] \in Synchronized
      BY <2>2 DEF AckInv, Inv, TypeOK, PollType, RxType
    <2>4. rx_pc' \in {"finalize", "idle", "reap"} => ack_list = <<>>
      BY <2>2 DEF AckInv
    <2> QED BY <2>1, <2>3, <2>4, <1>AckKept, Zenon
  \* release_slot clears the flag of a slot that is not on the list.
  <1>ReleaseAcks.
    ASSUME Inv, AckInv, ReapReleased \/ (\E seg \in Segments : HandshakeReset(seg)) \/ Finalize
    PROVE  AckInv'
    <2> USE <1>ReleaseAcks
    <2>1. /\ UNCHANGED <<ack_list, seen>>
          /\ rx_pc' \in {"finalize", "reap", "process"} /\ (rx_pc' # "process" => rx_pc = rx_pc')
      BY DEF ReapReleased, HandshakeReset, Finalize, NextPacket, evVars, rxVars
    <2>2. \/ UNCHANGED <<ack_pending, state>>
          \/ \E t : /\ state' = [state EXCEPT ![t] = "free"]
                    /\ ack_pending' = [ack_pending EXCEPT ![t] = FALSE]
                    /\ ack_list = <<>> \/ state[t] = "syn_received"
      <3>1. CASE ReapReleased \/ Finalize
        <4>1. ack_list = <<>>
          BY <3>1 DEF ReapReleased, Finalize, AckInv
        <4> QED BY <3>1, <4>1, Zenon DEF ReapReleased, Finalize, release_slot
      <3>2. ASSUME NEW seg \in Segments, HandshakeReset(seg)
            PROVE  \/ UNCHANGED <<ack_pending, state>>
                   \/ \E t : /\ state' = [state EXCEPT ![t] = "free"]
                             /\ ack_pending' = [ack_pending EXCEPT ![t] = FALSE]
                             /\ ack_list = <<>> \/ state[t] = "syn_received"
        <4>1. sync_out_flags(flows[seg.key]) = "syn_received"
          BY <3>2, Zenon DEF HandshakeReset
        <4>2. state[flows[seg.key]] = "syn_received"
          BY <4>1 DEF sync_out_flags
        <4> QED BY <3>2, <4>2, Zenon DEF HandshakeReset, release_slot
      <3> QED BY <3>1, <3>2
    <2>3. rx_pc' \in {"finalize", "idle", "reap"} => ack_list = <<>>
      BY <2>1 DEF AckInv
    <2>4. state \in [Slots -> TcpStates] /\ ack_pending \in [Slots -> BOOLEAN]
      BY DEF Inv, TypeOK, ConnType
    <2>5. ASSUME NEW s \in Slots, state[s] = "syn_received" \/ ack_list = <<>>
          PROVE  s \notin Range(ack_list)
      BY <2>5, EmptyList, Zenon DEF AckInv, AckAt, Synchronized
    <2>6. ASSUME NEW s \in Slots
          PROVE  \/ ack_pending'[s] = ack_pending[s] /\ state'[s] = state[s] /\ seen'[s] = seen[s]
                 \/ ~ack_pending'[s] /\ s \notin Range(ack_list)
      BY <2>1, <2>2, <2>4, <2>5, Zenon
    <2> QED BY <2>1, <2>3, <2>6, <1>AckKept, Zenon
  \* open(), before and after it publishes: the slot is on no list.
  <1>OpenAcks.
    ASSUME Inv, LogInv, AckInv, (\E seg \in Segments, iss \in Iss : Open(seg, iss)) \/ OpenPublish
    PROVE  AckInv'
    <2> USE <1>OpenAcks
    <2> DEFINE idx == IF rx_pc = "open" THEN rx.idx ELSE back(free_slots)
    <2>1. UNCHANGED ack_list /\ rx_pc' \in {"open", "process"}
      BY Zenon DEF Open, OpenPublish, NextPacket
    <2>2. state[idx] \in {"free", "syn_received"} /\ idx \in Slots
      <3>1. CASE OpenPublish
        BY <3>1, Zenon DEF OpenPublish, Inv, IdsTrackSlots, OpenFresh, TypeOK, PollType
      <3>2. CASE \E seg \in Segments, iss \in Iss : Open(seg, iss)
        <4>1. rx_pc = "process" /\ free_slots # <<>>
          BY <3>2, Zenon DEF Open, Receiving
        <4>2. free_slots \in Seq(Slots) /\ IsInjective(free_slots)
          BY DEF Inv, TypeOK, ListType, SlotsAccounted
        <4>3. back(free_slots) \in Slots /\ back(free_slots) \in Range(free_slots)
          BY <4>1, <4>2, FrontList, Zenon
        <4> QED BY <4>1, <4>3, Zenon DEF Inv, SlotsAccounted
      <3> QED BY <3>1, <3>2
    <2>3. idx \notin Range(ack_list) /\ ~ack_pending[idx]
      BY <2>2 DEF AckInv, AckAt, Synchronized
    <2>4. ~ack_pending'[idx] /\ \A s \in Slots \ {idx} :
            ack_pending'[s] = ack_pending[s] /\ state'[s] = state[s] /\ seen'[s] = seen[s]
      <3>1. /\ state \in [Slots -> TcpStates] /\ ack_pending \in [Slots -> BOOLEAN]
            /\ seen \in [Slots -> Logs]
        BY DEF Inv, TypeOK, ConnType, LogInv
      <3>2. CASE OpenPublish
        <4>1. rx_pc = "open" /\ UNCHANGED <<ack_pending, state>> /\ seen' = [seen EXCEPT ![idx] = <<>>]
          BY <3>2, Zenon DEF OpenPublish, connVars
        <4> HIDE DEF idx
        <4> QED BY <2>2, <2>3, <3>1, <4>1
      <3>3. CASE \E seg \in Segments, iss \in Iss : Open(seg, iss)
        <4>1. rx_pc = "process"
          BY <3>3 DEF Open, Receiving
        <4>2. /\ UNCHANGED seen /\ state' = [state EXCEPT ![back(free_slots)] = "syn_received"]
              /\ ack_pending' = [ack_pending EXCEPT ![back(free_slots)] = FALSE]
          BY <3>3, Zenon DEF Open, evVars
        <4>3. idx = back(free_slots)
          BY <4>1
        <4> HIDE DEF idx
        <4> QED BY <2>2, <3>1, <4>2, <4>3
      <3> QED BY <3>2, <3>3, Zenon
    <2> HIDE DEF idx
    <2> QED BY <2>1, <2>3, <2>4, <1>AckKept
  \* The step concerns one connection t past the handshake, whose ACK it may queue: the
  \* connection stays, closes cleanly, or is reset and loses the ACK that is due.
  <1>MoveAcks.
    ASSUME Inv, AckInv, NEW t \in Slots, NEW st,
           state' = [state EXCEPT ![t] = st], state[t] \in Synchronized,
           \A s \in Slots \ {t} : seen'[s] = seen[s],
           \/ queue_ack(t) \/ UNCHANGED <<ack_pending, ack_list>>
           \/ st = "closed" /\ ack_pending' = [ack_pending EXCEPT ![t] = FALSE] /\ UNCHANGED ack_list,
           \/ st \in Synchronized
           \/ st = "closed" /\ (ack_pending'[t] => back(seen'[t]) = "closed"),
           rx_pc' \notin {"finalize", "idle", "reap"},
           rx_pc' \in {"flags", "ack", "data"} => rx'.idx = t /\ st \in Synchronized
    PROVE  AckInv'
    <2> USE <1>MoveAcks
    <2>1. \A s \in Slots : state'[s] = IF s = t THEN st ELSE state[s]
      BY Zenon DEF Inv, TypeOK, ConnType
    <2>2. ack_pending \in [Slots -> BOOLEAN] /\ ack_list \in Seq(Slots) /\ IsInjective(ack_list)
      BY Zenon DEF Inv, TypeOK, ConnType, ListType, AckInv
    <2>3. /\ ack_pending[t] => t \in Range(ack_list)
          /\ t \in Range(ack_list) => ack_pending[t]
      BY DEF AckInv, AckAt, Synchronized
    <2>4. /\ IsInjective(ack_list') /\ \A s \in Slots \ {t} : s \in Range(ack_list') <=> s \in Range(ack_list)
          /\ \A s \in Slots \ {t} : ack_pending'[s] = ack_pending[s]
          /\ ack_pending'[t] => t \in Range(ack_list')
          /\ t \in Range(ack_list') /\ ~ack_pending'[t] => st = "closed"
      <3>1. CASE queue_ack(t)
        <4>1. ack_pending' = [ack_pending EXCEPT ![t] = TRUE]
              /\ ack_list' = IF ack_pending[t] THEN ack_list ELSE Append(ack_list, t)
          BY <3>1, Zenon DEF queue_ack
        <4>2. CASE ack_pending[t]
          BY <2>2, <2>3, <4>1, <4>2, Zenon
        <4>3. CASE ~ack_pending[t]
          <5>1. ack_list' = Append(ack_list, t) /\ t \notin Range(ack_list)
            BY <2>3, <4>1, <4>3, Zenon
          <5>2. IsInjective(ack_list') /\ Range(ack_list') = Range(ack_list) \cup {t}
            BY <2>2, <5>1, AppendList
          <5> QED BY <2>2, <4>1, <5>2, Zenon
        <4> QED BY <4>2, <4>3, Zenon
      <3>2. CASE UNCHANGED <<ack_pending, ack_list>>
        BY <2>2, <2>3, <3>2, Zenon
      <3>3. CASE st = "closed" /\ ack_pending' = [ack_pending EXCEPT ![t] = FALSE] /\ UNCHANGED ack_list
        BY <2>2, <2>3, <3>3, Zenon
      <3> QED BY <3>1, <3>2, <3>3, Zenon
    <2>5. ASSUME NEW s \in Slots PROVE AckAt(s)'
      <3>1. CASE s # t
        BY <2>1, <2>4, <3>1, Zenon DEF AckInv, AckAt
      <3>2. CASE s = t
        BY <2>1, <2>4, <3>2, Zenon DEF AckAt, Synchronized
      <3> QED BY <3>1, <3>2, Zenon
    <2>6. rx_pc' \in {"flags", "ack", "data"} => state'[rx'.idx] \in Synchronized
      BY <2>1, Zenon
    <2> QED BY <2>4, <2>5, <2>6, Zenon DEF AckInv
  \* The ACK that completes the handshake: none of ours was due.
  <1>HandshakeAcks.
    ASSUME Inv, LogInv, AckInv, NEW seg \in Segments, HandshakeAck(seg)
    PROVE  AckInv'
    <2> USE <1>HandshakeAcks
    <2>1. PICK t \in Slots : t = flows[seg.key]
      BY FlowSlot, Zenon DEF HandshakeAck, Inv
    <2>2. /\ sync_out_flags(t) = "syn_received" /\ UNCHANGED <<ack_pending, ack_list>>
          /\ state' = [state EXCEPT ![t] = "established"]
          /\ seen' = [seen EXCEPT ![t] = @ \o <<"accepted">>]
          /\ rx_pc' = "data" /\ rx' = [rx EXCEPT !.idx = t, !.seg = seg]
      BY <2>1, Zenon DEF HandshakeAck, Emit, listVars
    <2>3. state[t] = "syn_received"
      BY <2>2 DEF sync_out_flags
    <2>4. ~ack_pending[t] /\ t \notin Range(ack_list)
      BY <2>3, Zenon DEF AckInv, AckAt, Synchronized
    <2>5. \A s \in Slots \ {t} : seen'[s] = seen[s] /\ state'[s] = state[s]
      BY <2>2 DEF LogInv, Inv, TypeOK, ConnType
    <2>6. rx'.idx = t /\ state'[t] = "established"
      BY <2>2, Zenon DEF Inv, TypeOK, ConnType, PollType, RxType
    <2> QED BY <2>2, <2>4, <2>5, <2>6, <1>AckKept DEF Synchronized, TcpStates
  \* The segments of a connection past the handshake.
  <1>SegmentAcks.
    ASSUME Inv, LogInv, AckInv, NEW seg \in Segments,
           SegmentReset(seg) \/ SegmentNotAck(seg) \/ SegmentAck(seg)
    PROVE  AckInv'
    <2> USE <1>SegmentAcks
    <2>1. PICK t \in Slots : t = flows[seg.key]
      BY FlowSlot DEF SegmentReset, SegmentNotAck, SegmentAck, Inv
    <2>2. sync_out_flags(t) \in Synchronized
      BY <2>1 DEF SegmentReset, SegmentNotAck, SegmentAck
    <2>3. state[t] \in Synchronized
      BY <2>2, SyncLive, Zenon DEF Inv, TypeOK, ConnType, Synchronized
    <2>4. \/ /\ state' = [state EXCEPT ![t] = sync_out_flags(t)] /\ UNCHANGED seen
             /\ queue_ack(t) \/ UNCHANGED <<ack_pending, ack_list>>
          \/ /\ state' = [state EXCEPT ![t] = "closed"] /\ seen' = [seen EXCEPT ![t] = @ \o <<"reset">>]
             /\ ack_pending' = [ack_pending EXCEPT ![t] = FALSE] /\ UNCHANGED ack_list
      <3>1. CASE SegmentReset(seg)
        BY <2>1, <3>1, Zenon DEF SegmentReset, Emit, evVars
      <3>2. CASE SegmentNotAck(seg)
        BY <2>1, <3>2, Zenon DEF SegmentNotAck, evVars
      <3>3. CASE SegmentAck(seg)
        BY <2>1, <3>3, Zenon DEF SegmentAck, evVars, listVars
      <3> QED BY <3>1, <3>2, <3>3
    <2>5. rx_pc' = "process" \/ (rx_pc' = "flags" /\ rx' = [rx EXCEPT !.idx = t, !.seg = seg]
                                 /\ state' = [state EXCEPT ![t] = sync_out_flags(t)])
      BY <2>1 DEF SegmentReset, SegmentNotAck, SegmentAck, NextPacket
    <2>6. rx_pc' = "flags" => rx'.idx = t /\ state'[t] \in Synchronized
      BY <2>2, <2>5, Zenon DEF Inv, TypeOK, ConnType, PollType, RxType
    <2>7. \A s \in Slots \ {t} : seen'[s] = seen[s]
      BY <2>4 DEF LogInv
    <2>8. CASE /\ state' = [state EXCEPT ![t] = sync_out_flags(t)] /\ UNCHANGED seen
               /\ queue_ack(t) \/ UNCHANGED <<ack_pending, ack_list>>
      BY <2>2, <2>3, <2>5, <2>6, <2>7, <2>8, <1>MoveAcks, Zenon
    <2>9. CASE /\ state' = [state EXCEPT ![t] = "closed"] /\ seen' = [seen EXCEPT ![t] = @ \o <<"reset">>]
               /\ ack_pending' = [ack_pending EXCEPT ![t] = FALSE] /\ UNCHANGED ack_list
      <3>1. ~ack_pending'[t] /\ state'[t] = "closed"
        BY <2>9 DEF Inv, TypeOK, ConnType
      <3>2. rx_pc' # "flags"
        BY <2>6, <3>1, Zenon DEF Synchronized
      <3> QED BY <2>3, <2>5, <2>7, <2>9, <3>1, <3>2, <1>MoveAcks, Zenon
    <2> QED BY <2>4, <2>8, <2>9, Zenon
  \* process_ack and process_data.
  <1>AckDataAcks.
    ASSUME Inv, LogInv, AckInv, AckBeyond \/ AckProcessed \/ DataNotDelivered \/ DataDelivered
    PROVE  AckInv'
    <2> USE <1>AckDataAcks
    <2>1. PICK t \in Slots : t = rx.idx
      BY Zenon DEF AckBeyond, AckProcessed, DataNotDelivered, DataDelivered, Inv, TypeOK, PollType
    <2>2. state[t] \in Synchronized
      BY <2>1, Zenon DEF AckBeyond, AckProcessed, DataNotDelivered, DataDelivered, AckInv
    <2>3. state = [state EXCEPT ![t] = state[t]]
      BY DEF Inv, TypeOK, ConnType
    <2>4. seen \in [Slots -> Logs] /\ seen[t] \in Logs
      BY Zenon DEF LogInv
    <2>5. CASE AckBeyond \/ DataNotDelivered
      <3>1. /\ UNCHANGED <<state, seen>> /\ rx_pc' = "process"
            /\ queue_ack(t) \/ UNCHANGED <<ack_pending, ack_list>>
        BY <2>1, <2>5, Zenon DEF AckBeyond, DataNotDelivered, NextPacket, evVars
      <3> QED BY <2>2, <2>3, <3>1, <1>MoveAcks
    <2>6. CASE AckProcessed
      <3>1. /\ UNCHANGED <<ack_pending, ack_list>>
            /\ \/ /\ state' = [state EXCEPT ![t] = "closed"] /\ rx_pc' = "process"
                  /\ seen' = [seen EXCEPT ![t] = @ \o <<"closed">>]
               \/ /\ state' = state \/ state' = [state EXCEPT ![t] = "fin_wait_2"]
                  /\ UNCHANGED <<seen, rx>> /\ rx_pc' = "data"
        BY <2>1, <2>6, Zenon DEF AckProcessed, NextPacket, Emit, evVars
      <3>2. CASE /\ state' = [state EXCEPT ![t] = "closed"] /\ rx_pc' = "process"
                 /\ seen' = [seen EXCEPT ![t] = @ \o <<"closed">>]
        <4>1. seen'[t] = seen[t] \o <<"closed">> /\ \A s \in Slots \ {t} : seen'[s] = seen[s]
          BY <2>4, <3>2
        <4>2. back(seen'[t]) = "closed"
          BY <2>4, <4>1, BackLog
        <4> QED BY <2>2, <3>1, <3>2, <4>1, <4>2, <1>MoveAcks, Zenon
      <3>3. CASE /\ state' = state \/ state' = [state EXCEPT ![t] = "fin_wait_2"]
                 /\ UNCHANGED <<seen, rx>> /\ rx_pc' = "data"
        <4>1. \E st \in Synchronized : state' = [state EXCEPT ![t] = st]
          BY <2>2, <2>3, <3>3 DEF Synchronized, TcpStates
        <4> QED BY <2>1, <2>2, <3>1, <3>3, <4>1, <1>MoveAcks, Zenon
      <3> QED BY <3>1, <3>2, <3>3
    <2>7. CASE DataDelivered
      <3> DEFINE end == SeqAdd(rx.seg.seq, rx.seg.len)
                 old == tcb[t].rcv_nxt_local
                 fin == has(rx.seg, "FIN") /\ end = (IF seq_gt(end, old) THEN end ELSE old)
                 st == CASE fin /\ state[t] = "established" -> "close_wait"
                         [] fin /\ state[t] = "fin_wait_1" -> "closing"
                         [] fin /\ state[t] = "fin_wait_2" -> "closed"
                         [] OTHER -> state[t]
                 why == CASE fin /\ state[t] = "established" -> <<"peer_closed">>
                          [] fin /\ state[t] = "fin_wait_2" -> <<"closed">>
                          [] OTHER -> <<>>
      <3>1. state' = [state EXCEPT ![t] = st] /\ seen' = [seen EXCEPT ![t] = @ \o why]
        BY <2>1, <2>7, Zenon DEF DataDelivered, Emit
      <3>2. queue_ack(t) /\ rx_pc' = "process"
        BY <2>1, <2>7, Zenon DEF DataDelivered, NextPacket
      <3> HIDE DEF fin
      <3>3. \/ st = "closed" /\ why = <<"closed">>
            \/ st \in Synchronized
        BY <2>2 DEF Synchronized, TcpStates
      <3> HIDE DEF st, why
      <3>4. \A s \in Slots \ {t} : seen'[s] = seen[s]
        BY <2>4, <3>1
      <3>5. why = <<"closed">> => back(seen'[t]) = "closed"
        BY <2>4, <3>1, BackLog
      <3> QED BY <2>2, <3>1, <3>2, <3>3, <3>4, <3>5, <1>MoveAcks, Zenon
    <2> QED BY <2>5, <2>6, <2>7
  \* flush_acks takes the slot at the front off the list, and clears its flag.
  <1>FlushAcks. ASSUME Inv, AckInv, FlushAck PROVE AckInv'
    <2> USE <1>FlushAcks
    <2> DEFINE t == Head(ack_list)
    <2>1. /\ rx_pc = "acks" /\ ack_list # <<>> /\ UNCHANGED <<state, seen, rx_pc, rx>>
          /\ ack_pending' = [ack_pending EXCEPT ![t] = FALSE] /\ ack_list' = Tail(ack_list)
      BY Zenon DEF FlushAck, rxVars, evVars
    <2>2. ack_list \in Seq(Slots) /\ IsInjective(ack_list) /\ ack_pending \in [Slots -> BOOLEAN]
      BY DEF Inv, TypeOK, ConnType, ListType, AckInv
    <2>3. /\ t \in Slots /\ IsInjective(ack_list') /\ Range(ack_list') = Range(ack_list) \ {t}
      BY <2>1, <2>2, TailList, Zenon
    <2> HIDE DEF t
    <2>4. ASSUME NEW s \in Slots PROVE AckAt(s)'
      BY <2>1, <2>2, <2>3 DEF AckInv, AckAt
    <2> QED BY <2>1, <2>3, <2>4, Zenon DEF AckInv
  <1> SUFFICES ASSUME Inv, LogInv, AckInv, [Next]_vars PROVE AckInv'
    OBVIOUS
  <1> QED BY <1>PlainAcks, <1>ReleaseAcks, <1>OpenAcks, <1>HandshakeAcks, <1>SegmentAcks, <1>AckDataAcks, <1>FlushAcks
     DEF Next, Inbound, Receive, ProcessSegment

\* An ACK is due only on connections that were accepted and not reset, and flush_acks meets
\* each of them once: release_slot and open() never find one that is due.
THEOREM AckPendingLiveHolds == Spec => []AckPendingLive
  <1>1. Init => LogInv /\ AckInv
    <2> SUFFICES ASSUME Init PROVE LogInv /\ AckInv
      OBVIOUS
    <2>1. /\ state = [s \in Slots |-> "free"] /\ seen = [s \in Slots |-> <<>>] /\ rx_pc = "idle"
          /\ ack_pending = [s \in Slots |-> FALSE] /\ ack_list = <<>>
      BY DEF Init, StackInit
    <2>2. LogInv
      BY <2>1 DEF LogInv, InUse, Logs
    <2>3. IsInjective(ack_list) /\ \A s \in Slots : s \notin Range(ack_list)
      BY <2>1, EmptyList DEF IsInjective
    <2> QED BY <2>1, <2>2, <2>3, Zenon DEF AckInv, AckAt
  <1>2. Inv /\ LogInv /\ AckInv /\ [Next]_vars => LogInv' /\ AckInv'
    BY NextLife, NextAcks
  <1>3. Inv /\ LogInv /\ AckInv => AckPendingLive
    <2> SUFFICES ASSUME Inv, LogInv, AckInv, NEW s \in Slots, ack_pending[s]
                 PROVE  seen[s] # <<>> /\ back(seen[s]) # "reset" /\ s \in Range(ack_list)
      BY Zenon DEF AckPendingLive, AckInv
    <2>1. /\ s \in Range(ack_list) /\ state[s] \in Synchronized \cup {"closed"}
          /\ state[s] = "closed" => back(seen[s]) = "closed"
      BY Zenon DEF AckInv, AckAt
    <2>2. InUse(s)
      BY <2>1, Zenon DEF InUse, Inv, IdsTrackSlots, OpenFresh, Synchronized
    <2>3. LogAt(state[s], seen[s], out_flags[s])
      BY <2>2 DEF LogInv
    <2>4. CASE state[s] = "closed"
      <3>1. \A l \in OverLogs : l # <<>>
        BY DEF OverLogs
      <3> QED BY <2>1, <2>3, <2>4, <3>1, Zenon DEF LogAt
    <2>5. CASE state[s] \in Synchronized
      <3>1. seen[s] \in {<<"accepted">>, <<"accepted", "peer_closed">>}
        BY <2>3, <2>5, Zenon DEF LogAt, Synchronized, TcpStates
      <3>2. back(<<"accepted">>) = "accepted" /\ back(<<"accepted", "peer_closed">>) = "peer_closed"
        BY DEF back
      <3> QED BY <2>1, <3>1, <3>2
    <2> QED BY <2>1, <2>4, <2>5, Zenon
  <1> QED BY <1>1, <1>2, <1>3, InvHolds, PTL DEF Spec

-----------------------------------------------------------------------------
\* The bytes that are delivered

\* Moving on by one more.
LEMMA SeqAddSucc ==
  ASSUME NEW a \in SeqNums, NEW i \in Nat, i <= Half
  PROVE  SeqAdd(SeqAdd(a, i), 1) = SeqAdd(a, i + 1)
  <1> DEFINE p == SeqAdd(a, i)
  <1>1. /\ SeqSize \in Nat /\ SeqSize >= 4 /\ a \in Int /\ 0 <= a /\ a < SeqSize
        /\ Half \in Nat /\ 2 * Half = SeqSize /\ i <= SeqSize /\ i + 1 <= SeqSize /\ i + 1 \in Nat
    <2>1. SeqSize \in Nat /\ SeqSize >= 4 /\ a \in Int /\ 0 <= a /\ a < SeqSize
      BY SeqSizeAssumption DEF SeqNums
    <2> QED BY <2>1, HalfFact
  <1>2. p = IF a + i < SeqSize THEN a + i ELSE a + i - SeqSize
    BY <1>1, SeqAddOnce, Zenon
  <1>3. SeqAdd(a, i + 1) = IF a + (i + 1) < SeqSize THEN a + (i + 1) ELSE a + (i + 1) - SeqSize
    BY <1>1, SeqAddOnce, Zenon
  <1>4. p \in SeqNums /\ 1 \in Nat /\ 1 <= SeqSize
    BY <1>1, <1>2 DEF SeqNums
  <1> HIDE DEF p
  <1>5. SeqAdd(p, 1) = IF p + 1 < SeqSize THEN p + 1 ELSE p + 1 - SeqSize
    BY <1>4, SeqAddOnce, Zenon
  <1>6. SeqAdd(p, 1) = SeqAdd(a, i + 1)
    BY <1>1, <1>2, <1>3, <1>5
  <1> QED BY <1>6 DEF p

\* The front of a segment that does not start past old was delivered; what is new of it
\* starts at old and is no longer than half the sequence space.
LEMMA FreshBytes ==
  ASSUME NEW old \in SeqNums, NEW seq \in SeqNums, NEW len \in Nat, len < SeqSize, ~seq_gt(seq, old)
  PROVE  /\ SeqAdd(seq, SeqSub(old, seq)) = old
         /\ seq_gt(SeqAdd(seq, len), old) => /\ len - SeqSub(old, seq) \in 1 .. Half
                                             /\ SeqAdd(seq, len) = SeqAdd(old, len - SeqSub(old, seq))
  <1> DEFINE skip == SeqSub(old, seq)
             end == SeqAdd(seq, len)
  <1>1. /\ SeqSize \in Nat /\ SeqSize >= 4 /\ SeqSize \in Nat \ {0}
        /\ old \in Int /\ 0 <= old /\ old < SeqSize /\ seq \in Int /\ 0 <= seq /\ seq < SeqSize
    BY SeqSizeAssumption DEF SeqNums
  <1>2. Half \in Nat /\ 2 * Half = SeqSize
    BY HalfFact
  <1>3. skip = IF old >= seq THEN old - seq ELSE old - seq + SeqSize
    <2>1. old - seq \in Int /\ (IF old >= seq THEN old - seq \in 0 .. (SeqSize - 1)
                                ELSE old - seq \in (-SeqSize) .. (-1))
      BY <1>1
    <2> QED BY <1>1, <2>1, ModOnce, Zenon DEF SeqSub
  <1>4. skip < Half
    <2>1. ~(SeqSub(old, seq) >= Half)
      BY Zenon DEF seq_gt, seq_lt, Half
    <2>2. skip \in Int
      BY <1>1, <1>3
    <2> HIDE DEF skip
    <2>3. ~(skip >= Half)
      BY <2>1 DEF skip
    <2> QED BY <1>2, <2>2, <2>3
  <1>5. skip \in Nat /\ skip <= SeqSize /\ len <= SeqSize
    BY <1>1, <1>2, <1>3, <1>4
  <1>6. end = IF seq + len < SeqSize THEN seq + len ELSE seq + len - SeqSize
    BY <1>5, SeqAddOnce, Zenon
  <1>7. SeqAdd(seq, skip) = IF seq + skip < SeqSize THEN seq + skip ELSE seq + skip - SeqSize
    BY <1>5, SeqAddOnce, Zenon
  <1> DEFINE back1 == SeqAdd(seq, skip)
  <1> HIDE DEF skip, end, back1
  <1>8. back1 = old
    BY <1>1, <1>3, <1>7 DEF back1
  <1>9. ASSUME seq_gt(end, old) PROVE len - skip \in 1 .. Half /\ end = SeqAdd(old, len - skip)
    <2>1. SeqSub(old, end) >= Half
      BY <1>9, Zenon DEF seq_gt, seq_lt, Half
    <2>2. end \in Int /\ 0 <= end /\ end < SeqSize
      BY <1>1, <1>6
    <2>3. SeqSub(old, end) = IF old >= end THEN old - end ELSE old - end + SeqSize
      <3>1. old - end \in Int /\ (IF old >= end THEN old - end \in 0 .. (SeqSize - 1)
                                  ELSE old - end \in (-SeqSize) .. (-1))
        BY <1>1, <2>2
      <3> QED BY <1>1, <3>1, ModOnce, Zenon DEF SeqSub
    <2> DEFINE gap == SeqSub(old, end)
    <2> HIDE DEF gap
    <2>4. gap >= Half /\ gap = IF old >= end THEN old - end ELSE old - end + SeqSize
      BY <2>1, <2>3, Zenon DEF gap
    <2>5. len - skip \in 1 .. Half
      BY <1>1, <1>2, <1>3, <1>4, <1>6, <2>2, <2>4
    <2>6. len - skip \in Nat /\ len - skip <= SeqSize
      BY <1>1, <1>2, <2>5
    <2>7. SeqAdd(old, len - skip) = IF old + (len - skip) < SeqSize THEN old + (len - skip)
                                    ELSE old + (len - skip) - SeqSize
      BY <2>6, SeqAddOnce, Zenon
    <2> DEFINE there == SeqAdd(old, len - skip)
    <2> HIDE DEF there
    <2>8. there = IF old + (len - skip) < SeqSize THEN old + (len - skip) ELSE old + (len - skip) - SeqSize
      BY <2>7, Zenon DEF there
    <2>9. end = there
      BY <1>1, <1>3, <1>5, <1>6, <2>2, <2>6, <2>8
    <2> QED BY <2>5, <2>9, Zenon DEF there
  <1> QED BY <1>8, <1>9 DEF skip, end, back1

\* Where the events of a step are.
LEMMA PushedAt ==
  ASSUME events \in Seq(EventType), NEW new \in Seq(EventType), events' = events \o new
  PROVE  /\ Len(events) \in Nat /\ Len(new) \in Nat
         /\ DOMAIN events = 1 .. Len(events) /\ DOMAIN events' = 1 .. (Len(events) + Len(new))
         /\ \A j \in 1 .. Len(new) : events'[Len(events) + j] = new[j]
  OBVIOUS

\* No data event.
LEMMA NoDataPushed ==
  ASSUME events \in Seq(EventType), NEW new \in Seq(EventType), events' = events \o new,
         \A j \in 1 .. Len(new) : new[j].type # "data"
  PROVE  \A s : PushedData(s) = {}
  <1> SUFFICES ASSUME NEW i, i \in DOMAIN events' \ DOMAIN events PROVE events'[i].type # "data"
    BY Zenon DEF PushedData
  <1>1. /\ Len(events) \in Nat /\ Len(new) \in Nat
        /\ DOMAIN events = 1 .. Len(events) /\ DOMAIN events' = 1 .. (Len(events) + Len(new))
        /\ \A j \in 1 .. Len(new) : events'[Len(events) + j] = new[j]
    BY PushedAt, Zenon
  <1> DEFINE m == Len(events)
             n == Len(new)
  <1>2. m \in Nat /\ n \in Nat /\ i \in 1 .. (m + n) /\ ~(i \in 1 .. m)
    BY <1>1, Zenon
  <1> HIDE DEF m, n
  <1>3. i - m \in 1 .. n /\ m + (i - m) = i
    BY <1>2
  <1> QED BY <1>1, <1>3, Zenon DEF m, n

\* One data event, the first.
LEMMA OneDataPushed ==
  ASSUME events \in Seq(EventType), NEW new \in Seq(EventType), events' = events \o new,
         NEW s, Len(new) >= 1, new[1].type = "data", new[1].conn.slot = s,
         \A j \in 1 .. Len(new) : j # 1 => new[j].type # "data"
  PROVE  /\ \A t : t # s => PushedData(t) = {}
         /\ \E i \in PushedData(s) : PushedData(s) = {i} /\ events'[i] = new[1]
  <1>1. /\ Len(events) \in Nat /\ Len(new) \in Nat
        /\ DOMAIN events = 1 .. Len(events) /\ DOMAIN events' = 1 .. (Len(events) + Len(new))
        /\ \A j \in 1 .. Len(new) : events'[Len(events) + j] = new[j]
    BY PushedAt, Zenon
  <1> DEFINE m == Len(events)
             n == Len(new)
  <1>2. m \in Nat /\ n \in Nat /\ n >= 1 /\ DOMAIN events = 1 .. m /\ DOMAIN events' = 1 .. (m + n)
        /\ \A j \in 1 .. n : events'[m + j] = new[j] /\ (j # 1 => new[j].type # "data")
    BY <1>1, Zenon
  <1> HIDE DEF m, n
  <1>3. ASSUME NEW i, i \in DOMAIN events' \ DOMAIN events, i # m + 1 PROVE events'[i].type # "data"
    <2>1. i \in 1 .. (m + n) /\ ~(i \in 1 .. m)
      BY <1>2, <1>3, Zenon
    <2>2. i - m \in 1 .. n /\ m + (i - m) = i /\ i - m # 1
      BY <1>2, <1>3, <2>1
    <2> QED BY <1>2, <2>2, Zenon
  <1>4. m + 1 \in 1 .. (m + n) /\ ~(m + 1 \in 1 .. m) /\ 1 \in 1 .. n
    BY <1>2
  <1>5. m + 1 \in DOMAIN events' \ DOMAIN events /\ events'[m + 1] = new[1]
    BY <1>2, <1>4, Zenon
  <1>6. ASSUME NEW t, t # s PROVE PushedData(t) = {}
    BY <1>3, <1>5, <1>6, Zenon DEF PushedData
  <1>7. PushedData(s) = {m + 1}
    BY <1>3, <1>5, Zenon DEF PushedData
  <1> QED BY <1>5, <1>6, <1>7, Zenon

\* A step that delivers nothing.
LEMMA NothingTaken ==
  ASSUME Inv, NEW s \in Slots, tcb'[s].rcv_nxt_local = tcb[s].rcv_nxt_local, PushedData(s) = {}
  PROVE  \E n \in 0 .. (SeqSize \div 2), fin \in {0, 1} : Takes(s, n, fin)
  <1>1. tcb[s].rcv_nxt_local \in SeqNums
    BY DEF Inv, TypeOK, ConnType, TcbType
  <1>2. SeqAdd(tcb[s].rcv_nxt_local, 0) = tcb[s].rcv_nxt_local
    BY <1>1, SeqAddZero, Zenon
  <1>3. 0 + 0 = 0 /\ ~(0 > 0) /\ 0 # 1 /\ 0 \in {0, 1}
    OBVIOUS
  <1>4. 0 \in 0 .. (SeqSize \div 2)
    BY HalfFact DEF Half
  <1>5. Takes(s, 0, 0)
    BY <1>2, <1>3, Zenon DEF Takes
  <1> QED BY <1>3, <1>4, <1>5, Zenon

\* The number the sender puts in its segments' ACK field is past exactly the bytes, and the
\* FIN, that were delivered.
AckNumberPublished == \A s \in Slots : InUse(s) => rcv_nxt[s] = tcb[s].rcv_nxt_local

\* The slot open() is at has it once the store is visible.
RcvInv ==
  /\ AckNumberPublished
  /\ rx_pc = "open" /\ "rcv_nxt" \notin opening => rcv_nxt[rx.idx] = tcb[rx.idx].rcv_nxt_local

\* A step that delivers nothing and takes no slot into use.
NoDelivery ==
  /\ \A s \in Slots : /\ PushedData(s) = {}
                      /\ tcb'[s].rcv_nxt_local = tcb[s].rcv_nxt_local /\ rcv_nxt'[s] = rcv_nxt[s]
                      /\ state[s] = "free" => state'[s] = "free"
  /\ (rx_pc # "open" /\ rx_pc' # "open") \/ UNCHANGED <<rx_pc, rx, opening>>

\* Such a step keeps RcvInv.
LEMMA NoDeliveryKeeps == ASSUME Inv, RcvInv, NoDelivery PROVE RcvInv'
  <1>1. ASSUME NEW s \in Slots, InUse(s)' PROVE InUse(s)
    BY <1>1, Zenon DEF NoDelivery, InUse
  <1>2. AckNumberPublished'
    BY <1>1, Zenon DEF NoDelivery, RcvInv, AckNumberPublished
  <1>3. rx_pc = "open" => rx.idx \in Slots
    BY DEF Inv, TypeOK, PollType
  <1> QED BY <1>2, <1>3, Zenon DEF NoDelivery, RcvInv

\* No event at all.
LEMMA SameEvents == ASSUME events' \in {events, <<>>} PROVE \A s : PushedData(s) = {}
  <1>1. DOMAIN <<>> = {}
    OBVIOUS
  <1> QED BY <1>1, Zenon DEF PushedData

\* One event, and not of data.
LEMMA OtherEvent ==
  ASSUME Inv, NEW t \in Slots, NEW e \in {"accepted", "closed", "reset"},
         events' = events \o <<make_event(e, t, 0, 0)>>
  PROVE  \A s : PushedData(s) = {}
  <1> DEFINE ev == make_event(e, t, 0, 0)
  <1>1. e # "data" /\ e \in {"accepted", "data", "peer_closed", "closed", "reset"} /\ 0 \in Int
    OBVIOUS
  <1>2. TypeOK /\ events \in Seq(EventType)
    BY Zenon DEF Inv, TypeOK, PollType
  <1>3. ev \in EventType
    BY <1>1, <1>2, SeqNumsInt, EventTypeOK, Zenon
  <1>4. ev.type # "data"
    BY <1>1, Zenon DEF make_event
  <1> HIDE DEF ev
  <1>5. <<ev>> \in Seq(EventType) /\ \A j \in 1 .. Len(<<ev>>) : <<ev>>[j].type # "data"
    BY <1>3, <1>4
  <1>6. events' = events \o <<ev>>
    BY DEF ev
  <1> QED BY <1>2, <1>5, <1>6, NoDataPushed, Zenon

\* Every step but those of open() and of process_data.
LEMMA OtherSteps ==
  ASSUME Inv, [Next]_vars
  PROVE  \/ NoDelivery \/ DataDelivered \/ OpenPublish \/ (\E f \in opening : OpenStore(f))
         \/ \E seg \in Segments, iss \in Iss : Open(seg, iss)
  <1> DEFINE NotOpen == (rx_pc # "open" /\ rx_pc' # "open") \/ UNCHANGED <<rx_pc, rx, opening>>
  <1>Plain. ASSUME UNCHANGED <<state, tcb, rcv_nxt>>, events' \in {events, <<>>}, NotOpen PROVE NoDelivery
    BY <1>Plain, SameEvents, Zenon DEF NoDelivery
  <1>Slot. ASSUME NEW t \in Slots, state[t] # "free", NEW st, state' = [state EXCEPT ![t] = st],
                  UNCHANGED rcv_nxt, NotOpen, \A s : PushedData(s) = {},
                  UNCHANGED tcb \/ \E c : /\ tcb' = [tcb EXCEPT ![t] = c]
                                          /\ c.rcv_nxt_local = tcb[t].rcv_nxt_local
           PROVE  NoDelivery
    <2>1. state \in [Slots -> TcpStates] /\ tcb \in [Slots -> TcbType]
      BY Zenon DEF Inv, TypeOK, ConnType
    <2>2. ASSUME NEW s \in Slots PROVE /\ tcb'[s].rcv_nxt_local = tcb[s].rcv_nxt_local
                                       /\ state[s] = "free" => state'[s] = "free"
      BY <1>Slot, <2>1, Zenon
    <2> QED BY <1>Slot, <2>2, Zenon DEF NoDelivery
  <1>1. CASE PollStart \/ ReapDone \/ ReceiveArp \/ AckLoadFlags \/ EndBurst \/ FlushAck \/ PollReturn
             \/ \E sent \in 0 .. Len(control) : FlushControl(sent)
    <2>1. UNCHANGED <<state, tcb, rcv_nxt>> /\ events' \in {events, <<>>} /\ NotOpen
      BY <1>1, Zenon DEF PollStart, ReapDone, ReceiveArp, Receiving, AckLoadFlags, EndBurst, FlushAck, FlushControl,
         PollReturn, NextPacket, connVars, inVars, rxVars, evVars
    <2> QED BY <2>1, <1>Plain, Zenon
  <1>2. CASE \/ \E seg \in Segments : ReceiveUnknown(seg) \/ SegmentIgnored(seg) \/ HandshakePending(seg)
             \/ AckBeyond \/ DataNotDelivered
    <2>1. UNCHANGED <<state, tcb, rcv_nxt>> /\ events' \in {events, <<>>} /\ NotOpen
      BY <1>2, Zenon DEF ReceiveUnknown, SegmentIgnored, HandshakePending, AckBeyond, DataNotDelivered,
         Matches, Receiving, NextPacket, connVars, inVars, evVars
    <2> QED BY <2>1, <1>Plain, Zenon
  <1>3. CASE ReapReleased \/ (\E seg \in Segments : HandshakeReset(seg)) \/ Finalize
    <2>1. /\ UNCHANGED <<tcb, rcv_nxt, events>> /\ NotOpen
          /\ state' = state \/ \E t : state' = [state EXCEPT ![t] = "free"]
      BY <1>3, Zenon DEF ReapReleased, HandshakeReset, Finalize, release_slot, Matches, Receiving,
         NextPacket, inVars, rxVars, evVars
    <2>2. \A s \in Slots : state[s] = "free" => state'[s] = "free"
      BY <2>1, Zenon DEF Inv, TypeOK, ConnType
    <2> QED BY <2>1, <2>2, SameEvents, Zenon DEF NoDelivery
  <1>4. ASSUME NEW seg \in Segments, HandshakeAck(seg) PROVE NoDelivery
    <2>1. PICK t \in Slots : t = flows[seg.key]
      BY <1>4, FlowSlot, Zenon DEF HandshakeAck, Inv
    <2>2. /\ sync_out_flags(t) = "syn_received" /\ state' = [state EXCEPT ![t] = "established"]
          /\ tcb' = [tcb EXCEPT ![t].snd_una = seg.ack, ![t].snd_wnd = seg.window,
                                ![t].snd_wl1 = seg.seq, ![t].snd_wl2 = seg.ack]
          /\ events' = events \o <<make_event("accepted", t, 0, 0)>> /\ UNCHANGED rcv_nxt
          /\ rx_pc = "process" /\ rx_pc' = "data"
      BY <1>4, <2>1, Zenon DEF HandshakeAck, Emit, Matches, Receiving
    <2>3. state[t] # "free"
      BY <2>2 DEF sync_out_flags
    <2>4. \E c : tcb' = [tcb EXCEPT ![t] = c] /\ c.rcv_nxt_local = tcb[t].rcv_nxt_local
      <3>1. tcb \in [Slots -> TcbType] /\ tcb[t] \in TcbType
        BY Zenon DEF Inv, TypeOK, ConnType
      <3>2. tcb' = [tcb EXCEPT ![t] = tcb'[t]] /\ tcb'[t].rcv_nxt_local = tcb[t].rcv_nxt_local
        BY <2>2, <3>1, Zenon DEF TcbType
      <3> QED BY <3>2, Zenon
    <2>5. \A s : PushedData(s) = {}
      BY <2>2, OtherEvent, Zenon
    <2> QED BY <2>2, <2>3, <2>4, <2>5, <1>Slot, Zenon
  <1>5. ASSUME NEW seg \in Segments, SegmentReset(seg) \/ SegmentNotAck(seg) \/ SegmentAck(seg) PROVE NoDelivery
    <2>1. PICK t \in Slots : t = flows[seg.key]
      BY <1>5, FlowSlot, Zenon DEF SegmentReset, SegmentNotAck, SegmentAck, Inv
    <2>2. /\ sync_out_flags(t) \in Synchronized /\ UNCHANGED <<tcb, rcv_nxt>> /\ NotOpen
          /\ \E st : state' = [state EXCEPT ![t] = st]
          /\ UNCHANGED events \/ events' = events \o <<make_event("reset", t, 0, 0)>>
      <3>1. CASE SegmentReset(seg)
        BY <2>1, <3>1, Zenon DEF SegmentReset, Emit, Matches, Receiving, NextPacket, evVars
      <3>2. CASE SegmentNotAck(seg) \/ SegmentAck(seg)
        BY <2>1, <3>2, Zenon DEF SegmentNotAck, SegmentAck, Matches, Receiving, NextPacket, inVars, evVars
      <3> QED BY <1>5, <3>1, <3>2, Zenon
    <2>3. state[t] # "free"
      BY <2>2, SyncLive, Zenon
    <2>4. \A s : PushedData(s) = {}
      BY <2>2, SameEvents, OtherEvent, Zenon
    <2> QED BY <2>2, <2>3, <2>4, <1>Slot, Zenon
  <1>6. CASE AckProcessed
    <2>1. PICK t \in Slots : t = rx.idx
      BY <1>6, Zenon DEF AckProcessed, Inv, TypeOK, PollType
    <2>2. /\ tcb' = [tcb EXCEPT ![t] = AckedTcb(tcb[t], rx.seg)] /\ UNCHANGED rcv_nxt
          /\ rx_pc = "ack" /\ rx_pc' \in {"data", "process"}
          /\ \/ UNCHANGED state
             \/ state[t] \in {"closing", "last_ack", "fin_wait_1"} /\ \E st : state' = [state EXCEPT ![t] = st]
          /\ UNCHANGED events \/ events' = events \o <<make_event("closed", t, 0, 0)>>
      BY <1>6, <2>1, Zenon DEF AckProcessed, Emit, NextPacket, evVars
    <2>3. \A s : PushedData(s) = {}
      BY <2>2, SameEvents, OtherEvent, Zenon
    <2>4. state \in [Slots -> TcpStates] /\ tcb \in [Slots -> TcbType]
      BY Zenon DEF Inv, TypeOK, ConnType
    <2>5. AckedTcb(tcb[t], rx.seg).rcv_nxt_local = tcb[t].rcv_nxt_local
      <3>1. PICK c \in TcbType : c = tcb[t]
        BY <2>4, Zenon
      <3>2. AckedTcb(c, rx.seg).rcv_nxt_local = c.rcv_nxt_local
        BY DEF AckedTcb, TcbType
      <3> QED BY <3>1, <3>2, Zenon
    <2>6. NotOpen
      BY <2>2
    <2>7. ASSUME NEW s \in Slots PROVE /\ tcb'[s].rcv_nxt_local = tcb[s].rcv_nxt_local
                                       /\ state[s] = "free" => state'[s] = "free"
      <3>1. tcb'[s].rcv_nxt_local = tcb[s].rcv_nxt_local
        BY <2>2, <2>4, <2>5, Zenon
      <3>2. state[s] = "free" => state'[s] = "free"
        BY <2>2, <2>4
      <3> QED BY <3>1, <3>2, Zenon
    <2> QED BY <2>2, <2>3, <2>6, <2>7, Zenon DEF NoDelivery
  <1>7. CASE Outbound \/ Application
    <2>1. UNCHANGED <<state, tcb, events, rx_pc, rx, opening>>
      BY <1>7, SenderFrame, Zenon DEF connVars, rxVars, evVars
    <2>2. UNCHANGED rcv_nxt
      <3>1. CASE Application
        BY <3>1, Zenon DEF Application, Call, Forget, inVars
      <3>2. CASE Outbound
        BY <3>2, Zenon DEF Outbound, LookupGeneration, LookupFlags, LookupRecheck, Sendable, SendLimit,
           SendLoadAck, SendBuild, SendBurst, SendPullBack, CloseCheck, CloseCountFin,
           CloseFlagFin, CloseSendFin, CloseRetry, CloseGiveUp, CloseRelease, inVars
      <3> QED BY <1>7, <3>1, <3>2, Zenon
    <2> QED BY <2>1, <2>2, <1>Plain, Zenon
  <1>8. CASE UNCHANGED vars
    <2>1. UNCHANGED <<state, tcb, rcv_nxt, events, rx_pc, rx, opening>>
      BY <1>8, Zenon DEF vars, connVars, inVars, rxVars, evVars
    <2> QED BY <2>1, <1>Plain, Zenon
  <1> QED BY <1>1, <1>2, <1>3, <1>4, <1>5, <1>6, <1>7, <1>8, Zenon
          DEF Next, Inbound, Receive, ProcessSegment

\* process_data takes the bytes that come next, and a FIN that comes after them.
LEMMA DataTaken ==
  ASSUME Inv, DataDelivered, NEW s \in Slots, s = rx.idx
  PROVE  /\ state[s] # "free"
         /\ \E n \in 0 .. (SeqSize \div 2), fin \in {0, 1} : Takes(s, n, fin)
         /\ \A t \in Slots : t # s => PushedData(t) = {} /\ tcb'[t] = tcb[t]
  <1> DEFINE seg == rx.seg
             old == tcb[s].rcv_nxt_local
             end == SeqAdd(seg.seq, seg.len)
             fresh == seq_gt(end, old)
             skip == SeqSub(old, seg.seq)
             upto == IF fresh THEN end ELSE old
             fin == has(seg, "FIN") /\ end = upto
             new == IF fin THEN SeqAdd(upto, 1) ELSE upto
             d == make_event("data", s, SeqAdd(seg.seq, skip), seg.len - skip)
             E(type) == make_event(type, s, 0, 0)
             data == IF fresh THEN <<d>> ELSE <<>>
             why == CASE fin /\ state[s] = "established" -> <<"peer_closed">>
                      [] fin /\ state[s] = "fin_wait_2" -> <<"closed">>
                      [] OTHER -> <<>>
             ends == [i \in DOMAIN why |-> E(why[i])]
             st == CASE fin /\ state[s] = "established" -> "close_wait"
                     [] fin /\ state[s] = "fin_wait_1" -> "closing"
                     [] fin /\ state[s] = "fin_wait_2" -> "closed"
                     [] OTHER -> state[s]
  <1>1. /\ CanReceive(s) /\ ~seq_gt(seg.seq, old) /\ tcb' = [tcb EXCEPT ![s].rcv_nxt_local = new]
        /\ state' = [state EXCEPT ![s] = st] /\ events' = events \o (data \o ends)
    <2>1. CanReceive(s) /\ ~seq_gt(seg.seq, old)
      BY Zenon DEF DataDelivered, Ahead
    <2>2. tcb' = [tcb EXCEPT ![s].rcv_nxt_local = new]
      BY Zenon DEF DataDelivered
    <2>3. state' = [state EXCEPT ![s] = st]
      BY Zenon DEF DataDelivered
    <2>4. events' = events \o (data \o ends)
      <3>1. events' = events \o (data \o [i \in DOMAIN why |-> make_event(why[i], rx.idx, 0, 0)])
        BY Zenon DEF DataDelivered, Trim, Emit
      <3> HIDE DEF data, why
      <3>2. [i \in DOMAIN why |-> make_event(why[i], rx.idx, 0, 0)] = ends
        BY Zenon
      <3> QED BY <3>1, <3>2, Zenon
    <2> QED BY <2>1, <2>2, <2>3, <2>4, Zenon
  <1>2. /\ s \in Slots /\ seg \in Segments /\ old \in SeqNums /\ seg.seq \in SeqNums /\ seg.len \in Nat
        /\ seg.len < SeqSize /\ skip \in SeqNums
    BY DataTypes, LengthAssumption, Zenon DEF Inv
  <1>3. /\ SeqAdd(seg.seq, skip) = old
        /\ fresh => seg.len - skip \in 1 .. Half /\ end = SeqAdd(old, seg.len - skip)
    <2>1. ~seq_gt(seg.seq, old)
      BY <1>1, Zenon
    <2> HIDE DEF seg, old
    <2> QED BY <1>2, <2>1, FreshBytes, Zenon
  <1>4. state[s] \in {"established", "fin_wait_1", "fin_wait_2"} /\ state[s] # "free"
    <2>1. state[s] \in {"established", "fin_wait_1", "fin_wait_2"}
      BY <1>1, Zenon DEF CanReceive
    <2> QED BY <2>1
  <1>5. ASSUME NEW t \in Slots
        PROVE  /\ t # s => tcb'[t] = tcb[t]
               /\ t = s => tcb'[t].rcv_nxt_local = new /\ state'[t] = st
    <2>1. tcb \in [Slots -> TcbType] /\ state \in [Slots -> TcpStates] /\ tcb[s] \in TcbType
      BY <1>2, Zenon DEF Inv, TypeOK, ConnType
    <2>2. state'[s] = st
      BY <1>1, <1>2, <2>1, Zenon
    <2> HIDE DEF new, st
    <2> QED BY <1>1, <1>2, <2>1, <2>2, Zenon DEF TcbType
  \* The events: the bytes first, then the end of the stream.
  <1>6. /\ d = make_event("data", s, old, seg.len - skip) /\ d.type = "data" /\ d.conn.slot = s
        /\ E("peer_closed").type # "data" /\ E("closed").type # "data"
    BY <1>3 DEF make_event
  <1>7. d \in EventType /\ E("peer_closed") \in EventType /\ E("closed") \in EventType
    <2>1. seg.len - skip \in Int /\ 0 \in Int
      BY <1>2, SeqNumInt
    <2>2. TypeOK
      BY DEF Inv
    <2>3. d \in EventType
      BY <1>2, <1>6, <2>1, <2>2, EventTypeOK, Zenon
    <2> QED BY <1>2, <2>1, <2>2, <2>3, EventTypeOK, SeqNumsInt, Zenon
  <1>8. why \in {<<"peer_closed">>, <<"closed">>, <<>>}
    <2> HIDE DEF fin
    <2> QED OBVIOUS
  <1> HIDE DEF why, d, E
  <1>9. ends \in {<<E("peer_closed")>>, <<E("closed")>>, <<>>}
    BY <1>8
  <1> HIDE DEF ends
  <1>10. /\ ends \in Seq(EventType) /\ <<d>> \o ends \in Seq(EventType) /\ <<>> \o ends = ends
         /\ \A j \in 1 .. Len(ends) : ends[j].type # "data"
         /\ Len(<<d>> \o ends) >= 1 /\ (<<d>> \o ends)[1] = d
         /\ \A j \in 1 .. Len(<<d>> \o ends) : j # 1 => (<<d>> \o ends)[j].type # "data"
    <2>1. CASE ends = <<>>
      BY <1>7, <2>1
    <2>2. ASSUME NEW e \in EventType, e.type # "data", ends = <<e>>
          PROVE  /\ ends \in Seq(EventType) /\ <<d>> \o ends \in Seq(EventType) /\ <<>> \o ends = ends
                 /\ \A j \in 1 .. Len(ends) : ends[j].type # "data"
                 /\ Len(<<d>> \o ends) >= 1 /\ (<<d>> \o ends)[1] = d
                 /\ \A j \in 1 .. Len(<<d>> \o ends) : j # 1 => (<<d>> \o ends)[j].type # "data"
      BY <1>7, <2>2
    <2> QED BY <1>6, <1>7, <1>9, <2>1, <2>2, Zenon
  <1>11. events \in Seq(EventType)
    BY Zenon DEF Inv, TypeOK, PollType
  \* The FIN closes the receiving side.
  <1>12. fin => ~CanReceive(s)'
    <2>1. fin => st \in {"close_wait", "closing", "closed"}
      <3> HIDE DEF fin
      <3> QED BY <1>4
    <2>2. state'[s] = st
      BY <1>2, <1>5, Zenon
    <2> HIDE DEF st, fin
    <2>3. fin => state'[s] \notin {"established", "fin_wait_1", "fin_wait_2"}
      BY <2>1, <2>2
    <2> QED BY <2>3, Zenon DEF CanReceive
  <1>13. CanReceive(s)
    BY <1>1, Zenon
  <1>14. tcb'[s].rcv_nxt_local = new
    BY <1>2, <1>5, Zenon
  <1>15. 0 \in {0, 1} /\ 1 \in {0, 1} /\ 0 # 1 /\ 0 \in 0 .. Half /\ Half = SeqSize \div 2 /\ Half \in Nat
    BY HalfFact DEF Half
  <1> HIDE DEF fin
  <1>16. CASE fresh
    <2> DEFINE n == seg.len - skip
    <2>1. n \in 1 .. Half /\ end = SeqAdd(old, n)
      BY <1>3, <1>16, Zenon
    <2>2. events' = events \o (<<d>> \o ends) /\ new = IF fin THEN SeqAdd(end, 1) ELSE end
      BY <1>1, <1>16, Zenon
    <2>3. /\ \A t : t # s => PushedData(t) = {}
          /\ \E i \in PushedData(s) : PushedData(s) = {i} /\ events'[i] = d
      <3> DEFINE both == <<d>> \o ends
      <3>1. /\ both \in Seq(EventType) /\ Len(both) >= 1 /\ both[1] = d
            /\ \A j \in 1 .. Len(both) : j # 1 => both[j].type # "data"
        BY <1>10, Zenon
      <3>2. both[1].type = "data" /\ both[1].conn.slot = s /\ events' = events \o both
        BY <1>6, <2>2, <3>1, Zenon
      <3> HIDE DEF both
      <3>3. /\ \A t : t # s => PushedData(t) = {}
            /\ \E i \in PushedData(s) : PushedData(s) = {i} /\ events'[i] = both[1]
        BY <1>11, <3>1, <3>2, OneDataPushed, Zenon
      <3> QED BY <3>1, <3>3, Zenon
    <2> HIDE DEF n, new, end
    <2>4. /\ n \in Nat /\ n <= Half /\ n # 0 /\ n \in 0 .. Half /\ n + 0 = n
          /\ n + 0 > 0 /\ n + 1 > 0
      BY <1>15, <2>1
    <2>5. tcb'[s].rcv_nxt_local = SeqAdd(old, n + (IF fin THEN 1 ELSE 0))
      <3>1. SeqAdd(SeqAdd(old, n), 1) = SeqAdd(old, n + 1)
        BY <1>2, <2>4, SeqAddSucc, Zenon
      <3> QED BY <1>14, <2>1, <2>2, <2>4, <3>1, Zenon
    <2>6. Takes(s, n, IF fin THEN 1 ELSE 0)
      <3>1. d = make_event("data", s, old, n)
        BY <1>6, Zenon DEF n
      <3>2. CASE fin
        BY <1>12, <1>13, <2>3, <2>4, <2>5, <3>1, <3>2, Zenon DEF Takes
      <3>3. CASE ~fin
        BY <1>13, <1>15, <2>3, <2>4, <2>5, <3>1, <3>3, Zenon DEF Takes
      <3> QED BY <3>2, <3>3, Zenon
    <2>7. (IF fin THEN 1 ELSE 0) \in {0, 1}
      BY <1>15, Zenon
    <2> QED BY <1>2, <1>4, <1>5, <1>15, <2>3, <2>4, <2>6, <2>7, Zenon
  <1>17. CASE ~fresh
    <2>1. events' = events \o ends /\ new = IF fin THEN SeqAdd(old, 1) ELSE old
      BY <1>1, <1>10, <1>17, Zenon
    <2>2. \A t : PushedData(t) = {}
      BY <1>10, <1>11, <2>1, NoDataPushed, Zenon
    <2> HIDE DEF new
    <2>3. 0 + 1 = 1 /\ 0 + 0 = 0 /\ ~(0 > 0)
      OBVIOUS
    <2>4. SeqAdd(old, 0) = old
      BY <1>2, SeqAddZero, Zenon
    <2>5. CASE fin
      <3>1. Takes(s, 0, 1)
        BY <1>12, <1>13, <1>14, <2>1, <2>2, <2>3, <2>5, Zenon DEF Takes
      <3> QED BY <1>2, <1>4, <1>5, <1>15, <2>2, <3>1, Zenon
    <2>6. CASE ~fin
      <3>1. Takes(s, 0, 0)
        BY <1>14, <1>15, <2>1, <2>2, <2>3, <2>4, <2>6, Zenon DEF Takes
      <3> QED BY <1>2, <1>4, <1>5, <1>15, <2>2, <3>1, Zenon
    <2> QED BY <2>5, <2>6, Zenon
  <1> QED BY <1>16, <1>17, Zenon

\* open() takes a free slot.
LEMMA OpenTakes ==
  ASSUME Inv, NEW seg \in Segments, NEW iss \in Iss, Open(seg, iss)
  PROVE  \E t \in Slots : /\ state[t] = "free" /\ UNCHANGED <<events, rcv_nxt>>
                          /\ \A s \in Slots : s # t => tcb'[s] = tcb[s] /\ state'[s] = state[s]
                          /\ rx_pc # "open" /\ rx_pc' = "open" /\ rx'.idx = t /\ "rcv_nxt" \in opening'
  <1>1. PICK t : t = back(free_slots)
    BY Zenon
  <1>2. /\ rx_pc = "process" /\ free_slots # <<>> /\ state' = [state EXCEPT ![t] = "syn_received"]
        /\ rx' = [rx EXCEPT !.idx = t] /\ opening' = OpenStores /\ rx_pc' = "open"
        /\ UNCHANGED <<events, rcv_nxt>> /\ \E c : tcb' = [tcb EXCEPT ![t] = c]
    BY <1>1, Zenon DEF Open, Receiving, inVars, evVars
  <1>3. free_slots \in Seq(Slots) /\ IsInjective(free_slots) /\ rx \in RxType
        /\ state \in [Slots -> TcpStates] /\ tcb \in [Slots -> TcbType]
    BY DEF Inv, TypeOK, ListType, SlotsAccounted, PollType, ConnType
  <1>4. t \in Slots /\ t \in Range(free_slots)
    BY <1>1, <1>2, <1>3, FrontList, Zenon
  <1>5. state[t] = "free"
    BY <1>4, Zenon DEF Inv, SlotsAccounted
  <1>6. \A s \in Slots : s # t => tcb'[s] = tcb[s] /\ state'[s] = state[s]
    BY <1>2, <1>3, Zenon
  <1>7. rx'.idx = t
    BY <1>2, <1>3, Zenon DEF RxType
  <1>8. "rcv_nxt" \in opening' /\ "process" # "open"
    BY <1>2, Zenon DEF OpenStores
  <1> QED BY <1>2, <1>4, <1>5, <1>6, <1>7, <1>8, Zenon

\* What a step of open() after that does.
LEMMA OpenGoesOn ==
  ASSUME Inv, OpenPublish \/ \E f \in opening : OpenStore(f)
  PROVE  /\ UNCHANGED <<state, tcb, events>> /\ rx_pc = "open" /\ rx.idx \in Slots
         /\ \/ rx_pc' = "open" /\ UNCHANGED rx
               /\ \/ rcv_nxt' = [rcv_nxt EXCEPT ![rx.idx] = tcb[rx.idx].rcv_nxt_local]
                  \/ UNCHANGED rcv_nxt /\ ("rcv_nxt" \in opening => "rcv_nxt" \in opening')
            \/ rx_pc' # "open" /\ UNCHANGED rcv_nxt /\ opening = {}
  <1>1. CASE OpenPublish
    <2>1. /\ UNCHANGED <<state, tcb, events, rcv_nxt>> /\ rx_pc = "open" /\ opening = {} /\ rx_pc' = "process"
      BY <1>1, Zenon DEF OpenPublish, NextPacket, connVars, inVars
    <2> QED BY <2>1, Zenon DEF Inv, TypeOK, PollType
  <1>2. ASSUME NEW f \in opening, OpenStore(f)
        PROVE  /\ UNCHANGED <<state, tcb, events>> /\ rx_pc = "open" /\ rx_pc' = "open" /\ UNCHANGED rx
               /\ \/ rcv_nxt' = [rcv_nxt EXCEPT ![rx.idx] = tcb[rx.idx].rcv_nxt_local]
                  \/ UNCHANGED rcv_nxt /\ ("rcv_nxt" \in opening => "rcv_nxt" \in opening')
    BY <1>2, Zenon DEF OpenStore, connVars, evVars
  <1> QED BY <1>1, <1>2, Zenon DEF Inv, TypeOK, PollType

\* Every step keeps RcvInv.
LEMMA NextReceived == Inv /\ RcvInv /\ [Next]_vars => RcvInv'
  <1> SUFFICES ASSUME Inv, RcvInv, [Next]_vars PROVE RcvInv'
    OBVIOUS
  <1>1. rcv_nxt \in [Slots -> SeqNums] /\ tcb \in [Slots -> TcbType]
    BY Zenon DEF Inv, TypeOK, SharedType, ConnType
  <1>2. CASE NoDelivery
    BY <1>2, NoDeliveryKeeps
  <1>3. CASE DataDelivered
    <2>1. PICK v : /\ tcb' = [tcb EXCEPT ![rx.idx].rcv_nxt_local = v] /\ rcv_nxt' = [rcv_nxt EXCEPT ![rx.idx] = v]
                   /\ rx_pc = "data" /\ rx_pc' = "process"
      BY <1>3, Zenon DEF DataDelivered, NextPacket
    <2>2. PICK t \in Slots : t = rx.idx
      BY <2>1, Zenon DEF Inv, TypeOK, PollType
    <2>3. \A s \in Slots : state[s] = "free" => state'[s] = "free"
      <3>1. \E st : state' = [state EXCEPT ![t] = st]
        BY <1>3, <2>2, Zenon DEF DataDelivered
      <3>2. state[t] # "free" /\ state \in [Slots -> TcpStates]
        BY <1>3, <2>2, DataTaken, Zenon DEF Inv, TypeOK, ConnType
      <3> QED BY <3>1, <3>2, Zenon
    <2>4. ASSUME NEW s \in Slots, InUse(s)' PROVE rcv_nxt'[s] = tcb'[s].rcv_nxt_local
      <3>1. CASE s = t
        <4>1. tcb[t] \in TcbType
          BY <1>1, Zenon
        <4> QED BY <1>1, <2>1, <2>2, <3>1, <4>1, Zenon DEF TcbType
      <3>2. CASE s # t
        <4>1. InUse(s)
          BY <2>1, <2>3, <2>4, Zenon DEF InUse
        <4> QED BY <1>1, <2>1, <2>2, <3>2, <4>1, Zenon DEF RcvInv, AckNumberPublished
      <3> QED BY <3>1, <3>2, Zenon
    <2> QED BY <2>1, <2>4, Zenon DEF RcvInv, AckNumberPublished
  <1>4. ASSUME NEW seg \in Segments, NEW iss \in Iss, Open(seg, iss) PROVE RcvInv'
    <2>1. PICK t \in Slots : /\ state[t] = "free" /\ UNCHANGED <<events, rcv_nxt>>
                             /\ \A s \in Slots : s # t => tcb'[s] = tcb[s] /\ state'[s] = state[s]
                             /\ rx_pc # "open" /\ rx_pc' = "open" /\ rx'.idx = t /\ "rcv_nxt" \in opening'
      BY <1>4, OpenTakes, Zenon
    <2>2. ASSUME NEW s \in Slots, InUse(s)' PROVE rcv_nxt'[s] = tcb'[s].rcv_nxt_local
      <3>1. s # t /\ InUse(s)
        BY <2>1, <2>2, Zenon DEF InUse
      <3> QED BY <2>1, <3>1, Zenon DEF RcvInv, AckNumberPublished
    <2> QED BY <2>1, <2>2, Zenon DEF RcvInv, AckNumberPublished
  <1>5. CASE OpenPublish \/ \E f \in opening : OpenStore(f)
    <2>1. PICK t \in Slots : t = rx.idx
      BY <1>5, OpenGoesOn, Zenon
    <2>2. /\ UNCHANGED <<state, tcb>> /\ rx_pc = "open"
          /\ \/ rx_pc' = "open" /\ rx'.idx = t
                /\ \/ rcv_nxt' = [rcv_nxt EXCEPT ![t] = tcb[t].rcv_nxt_local]
                   \/ UNCHANGED rcv_nxt /\ ("rcv_nxt" \in opening => "rcv_nxt" \in opening')
             \/ rx_pc' # "open" /\ UNCHANGED rcv_nxt /\ opening = {}
      BY <1>5, <2>1, OpenGoesOn, Zenon
    <2>3. ASSUME NEW s \in Slots, InUse(s)' PROVE rcv_nxt'[s] = tcb'[s].rcv_nxt_local
      <3>1. CASE s # t
        <4>1. InUse(s)
          BY <2>1, <2>2, <2>3, <3>1, Zenon DEF InUse
        <4> QED BY <1>1, <2>2, <3>1, <4>1, Zenon DEF RcvInv, AckNumberPublished
      <3>2. CASE s = t
        <4>1. rx_pc' # "open" /\ UNCHANGED rcv_nxt /\ opening = {}
          BY <2>2, <2>3, <3>2, Zenon DEF InUse
        <4> QED BY <2>1, <2>2, <3>2, <4>1, Zenon DEF RcvInv
      <3> QED BY <3>1, <3>2, Zenon
    <2>4. rx_pc' = "open" /\ "rcv_nxt" \notin opening' => rcv_nxt'[rx'.idx] = tcb'[rx'.idx].rcv_nxt_local
      BY <1>1, <2>1, <2>2, Zenon DEF RcvInv
    <2> QED BY <2>3, <2>4, Zenon DEF RcvInv, AckNumberPublished
  <1> QED BY <1>2, <1>3, <1>4, <1>5, OtherSteps, Zenon

\* The sender acknowledges exactly what was delivered: rcv_nxt, which it loads while the
\* inbound thread runs on, is for every published connection the number the inbound
\* thread has come to.
THEOREM AckNumberPublishedHolds == Spec => []AckNumberPublished
  <1>1. Init => RcvInv
    <2> SUFFICES ASSUME Init PROVE RcvInv
      OBVIOUS
    <2>1. state = [s \in Slots |-> "free"] /\ rx_pc = "idle"
      BY DEF Init, StackInit
    <2> QED BY <2>1 DEF RcvInv, AckNumberPublished, InUse
  <1>2. RcvInv => AckNumberPublished
    BY DEF RcvInv
  <1> QED BY <1>1, <1>2, NextReceived, InvHolds, PTL DEF Spec

\* Whatever segments come, the data events of a connection are its bytes, in order, without
\* a gap and without a byte twice, and none comes after the peer's FIN: process_data trims
\* what overlaps and drops what is ahead.
THEOREM DeliveredInOrderHolds == Spec => DeliveredInOrder
  <1> DEFINE Step == \A s \in Slots : IF state[s] = "free" THEN PushedData(s) = {}
                       ELSE \E n \in 0 .. (SeqSize \div 2), fin \in {0, 1} : Takes(s, n, fin)
  <1>1. Inv /\ [Next]_vars => Step
    <2> SUFFICES ASSUME Inv, [Next]_vars, NEW s \in Slots
                 PROVE  IF state[s] = "free" THEN PushedData(s) = {}
                        ELSE \E n \in 0 .. (SeqSize \div 2), fin \in {0, 1} : Takes(s, n, fin)
      BY Zenon
    <2>1. CASE NoDelivery
      BY <2>1, NothingTaken, Zenon DEF NoDelivery
    <2>2. CASE DataDelivered
      <3>1. PICK t \in Slots : t = rx.idx
        BY <2>2, Zenon DEF DataDelivered, Inv, TypeOK, PollType
      <3>2. /\ state[t] # "free"
            /\ \E n \in 0 .. (SeqSize \div 2), fin \in {0, 1} : Takes(t, n, fin)
            /\ \A r \in Slots : r # t => PushedData(r) = {} /\ tcb'[r] = tcb[r]
        BY <2>2, <3>1, DataTaken, Zenon
      <3> QED BY <3>2, NothingTaken, Zenon
    <2>3. CASE OpenPublish \/ \E f \in opening : OpenStore(f)
      <3>1. UNCHANGED <<tcb, events>>
        BY <2>3, OpenGoesOn, Zenon
      <3>2. PushedData(s) = {}
        BY <3>1, SameEvents, Zenon
      <3> QED BY <3>1, <3>2, NothingTaken, Zenon
    <2>4. ASSUME NEW seg \in Segments, NEW iss \in Iss, Open(seg, iss)
          PROVE  PushedData(s) = {} /\ (state[s] # "free" => tcb'[s] = tcb[s])
      <3>1. UNCHANGED events /\ (state[s] # "free" => tcb'[s] = tcb[s])
        BY <2>4, OpenTakes, Zenon
      <3> QED BY <3>1, SameEvents, Zenon
    <2> QED BY <2>1, <2>2, <2>3, <2>4, OtherSteps, NothingTaken, Zenon
  <1>2. Inv /\ [Next]_vars => [Step]_vars
    BY <1>1
  <1> HIDE DEF Step
  <1>3. Spec => [][Step]_vars
    BY <1>2, InvHolds, PTL DEF Spec
  <1> QED BY <1>3, Zenon DEF DeliveredInOrder, Step
=============================================================================
