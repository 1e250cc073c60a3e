---------------------------- MODULE TcpStackTypes ---------------------------
(***************************************************************************)
(* Type correctness of TcpStack for any number of slots, keys, segments,   *)
(* burst size and width of sequence numbers and generations.               *)
(***************************************************************************)
EXTENDS TcpStack, TLAPS

\* The obligations are small but many: the back ends get more time than by default.
USE SMTT(30), ZenonT(30)

-----------------------------------------------------------------------------
\* The vectors of slot numbers that tcp_receiver keeps: push_back, pop_back, walking from
\* the front, and the swap-with-last removal of reap_released, on lists without repetitions.

\* push_back of a slot that is not on the list.
LEMMA AppendList ==
  ASSUME NEW S, NEW q \in Seq(S), NEW x \in S
  PROVE  /\ Append(q, x) \in Seq(S)
         /\ Range(Append(q, x)) = Range(q) \cup {x}
         /\ IsInjective(q) /\ x \notin Range(q) => IsInjective(Append(q, x))
  <1>1. Append(q, x) \in Seq(S) /\ Len(Append(q, x)) = Len(q) + 1 /\ Len(q) \in Nat
    OBVIOUS
  <1>2. \A i \in 1 .. Len(q) : Append(q, x)[i] = q[i]
    OBVIOUS
  <1>3. Append(q, x)[Len(q) + 1] = x
    OBVIOUS
  <1>4. DOMAIN q = 1 .. Len(q) /\ DOMAIN Append(q, x) = 1 .. (Len(q) + 1)
    BY <1>1
  <1>5. Range(Append(q, x)) = Range(q) \cup {x}
    <2>1. \A y : y \in Range(Append(q, x)) => y \in Range(q) \cup {x}
      BY <1>1, <1>2, <1>3, <1>4 DEF Range
    <2>2. \A y : y \in Range(q) \cup {x} => y \in Range(Append(q, x))
      BY <1>1, <1>2, <1>3, <1>4 DEF Range
    <2> QED BY <2>1, <2>2
  <1>6. ASSUME IsInjective(q), x \notin Range(q)
        PROVE  IsInjective(Append(q, x))
    BY <1>1, <1>2, <1>3, <1>4, <1>6 DEF Range, IsInjective
  <1> QED BY <1>1, <1>5, <1>6, Zenon

\* pop_back.
LEMMA FrontList ==
  ASSUME NEW S, NEW q \in Seq(S), q # <<>>, IsInjective(q)
  PROVE  /\ back(q) \in S /\ back(q) \in Range(q)
         /\ pop_back(q) \in Seq(S) /\ IsInjective(pop_back(q))
         /\ Range(pop_back(q)) = Range(q) \ {back(q)}
  <1>1. Len(q) \in Nat \ {0} /\ DOMAIN q = 1 .. Len(q)
    OBVIOUS
  <1>2. pop_back(q) \in Seq(S) /\ Len(pop_back(q)) = Len(q) - 1
    BY <1>1 DEF pop_back
  <1>3. DOMAIN pop_back(q) = 1 .. (Len(q) - 1) /\ \A i \in 1 .. (Len(q) - 1) : pop_back(q)[i] = q[i]
    BY <1>1, <1>2 DEF pop_back
  <1>4. back(q) = q[Len(q)] /\ back(q) \in S /\ back(q) \in Range(q)
    BY <1>1 DEF back, Range
  <1>5. IsInjective(pop_back(q))
    BY <1>1, <1>3 DEF IsInjective
  <1>6. \A y : y \in Range(pop_back(q)) => y \in Range(q) \ {back(q)}
    BY <1>1, <1>3, <1>4 DEF Range, IsInjective
  <1>7. \A y : y \in Range(q) \ {back(q)} => y \in Range(pop_back(q))
    BY <1>1, <1>3, <1>4 DEF Range
  <1> QED BY <1>2, <1>4, <1>5, <1>6, <1>7

\* The walk of finalize() from the front.
LEMMA TailList ==
  ASSUME NEW S, NEW q \in Seq(S), q # <<>>, IsInjective(q)
  PROVE  /\ Head(q) \in S /\ Head(q) \in Range(q)
         /\ Tail(q) \in Seq(S) /\ IsInjective(Tail(q))
         /\ Range(Tail(q)) = Range(q) \ {Head(q)}
  <1>1. Len(q) \in Nat \ {0} /\ DOMAIN q = 1 .. Len(q)
    OBVIOUS
  <1>2. Tail(q) \in Seq(S) /\ Len(Tail(q)) = Len(q) - 1
    BY <1>1
  <1>3. DOMAIN Tail(q) = 1 .. (Len(q) - 1) /\ \A i \in 1 .. (Len(q) - 1) : Tail(q)[i] = q[i + 1]
    BY <1>1, <1>2
  <1>4. Head(q) = q[1] /\ Head(q) \in S /\ Head(q) \in Range(q)
    BY <1>1 DEF Range
  <1>5. IsInjective(Tail(q))
    BY <1>1, <1>3 DEF IsInjective
  <1>6. \A y : y \in Range(Tail(q)) => y \in Range(q) \ {Head(q)}
    BY <1>1, <1>3, <1>4 DEF Range, IsInjective
  <1>7. ASSUME NEW y \in Range(q), y # Head(q)
        PROVE  y \in Range(Tail(q))
    <2>1. PICK i \in 1 .. Len(q) : q[i] = y
      BY <1>1 DEF Range
    <2>2. i # 1 /\ i - 1 \in 1 .. (Len(q) - 1) /\ (i - 1) + 1 = i
      BY <1>1, <1>4, <1>7, <2>1
    <2>3. Tail(q)[i - 1] = y
      BY <1>3, <2>1, <2>2
    <2> QED BY <1>3, <2>2, <2>3 DEF Range
  <1> QED BY <1>2, <1>4, <1>5, <1>6, <1>7

\* reap_released: the last entry moves into the place of the i-th, which is removed.
LEMMA RemoveList ==
  ASSUME NEW S, NEW q \in Seq(S), NEW i \in 1 .. Len(q), IsInjective(q)
  PROVE  LET r == pop_back([q EXCEPT ![i] = back(q)])
         IN  /\ r \in Seq(S) /\ IsInjective(r) /\ Range(r) = Range(q) \ {q[i]}
             /\ q[i] \in S /\ q[i] \in Range(q)
  <1> DEFINE p == [q EXCEPT ![i] = back(q)]
             r == pop_back(p)
             n == Len(q)
  <1>1. n \in Nat \ {0} /\ DOMAIN q = 1 .. n /\ i \in 1 .. n
    OBVIOUS
  <1>2. back(q) = q[n] /\ q[n] \in S
    BY <1>1 DEF back
  <1>3. p \in Seq(S) /\ Len(p) = n
    BY <1>1, <1>2
  <1>4. r \in Seq(S) /\ DOMAIN r = 1 .. (n - 1) /\ \A j \in 1 .. (n - 1) : r[j] = p[j]
    BY <1>1, <1>3 DEF pop_back
  <1>p. \A j \in 1 .. n : p[j] = IF j = i THEN q[n] ELSE q[j]
    BY <1>1, <1>2
  <1> HIDE DEF r, p, n
  <1>5. \A j \in 1 .. (n - 1) : r[j] = IF j = i THEN q[n] ELSE q[j]
    BY <1>1, <1>4, <1>p
  <1>6. IsInjective(r)
    BY <1>1, <1>4, <1>5 DEF IsInjective
  <1>7. \A y : y \in Range(r) => y \in Range(q) \ {q[i]}
    BY <1>1, <1>4, <1>5 DEF Range, IsInjective
  <1>8. ASSUME NEW y \in Range(q), y # q[i]
        PROVE  y \in Range(r)
    <2>1. PICK j \in 1 .. n : q[j] = y /\ j # i
      BY <1>1, <1>8 DEF Range
    <2>2. CASE j = n
      <3>1. i \in 1 .. (n - 1)
        BY <1>1, <2>1, <2>2
      <3>2. r[i] = y
        BY <1>5, <2>1, <2>2, <3>1
      <3> QED BY <1>4, <3>1, <3>2 DEF Range
    <2>3. CASE j # n
      <3>1. j \in 1 .. (n - 1)
        BY <1>1, <2>1, <2>3
      <3>2. r[j] = y
        BY <1>5, <2>1, <3>1
      <3> QED BY <1>4, <3>1, <3>2 DEF Range
    <2> QED BY <2>2, <2>3
  <1>9. q[i] \in S /\ q[i] \in Range(q)
    BY <1>1 DEF Range
  <1> QED BY <1>4, <1>6, <1>7, <1>8, <1>9, Zenon DEF r, p

-----------------------------------------------------------------------------
\* Types

\* Sequence numbers stay in their width.
LEMMA SeqTypes ==
  ASSUME NEW a \in Int, NEW b \in Int
  PROVE  SeqAdd(a, b) \in SeqNums /\ SeqSub(a, b) \in SeqNums
  BY SeqSizeAssumption DEF SeqAdd, SeqSub, SeqNums

\* Sequence numbers (uint32_t) are natural numbers, and zero is one of them.
LEMMA SeqNumsInt == SeqNums \subseteq Nat /\ 0 \in SeqNums
  BY SeqSizeAssumption DEF SeqNums

\* A sequence number is an integer, in the form the provers instantiate.
LEMMA SeqNumInt == \A a \in SeqNums : a \in Int
  BY SeqSizeAssumption DEF SeqNums

\* The number after a sequence number is one: iss + 1, seq + 1, the FIN.
LEMMA SeqNextType == \A a \in SeqNums : SeqAdd(a, 1) \in SeqNums
  BY SeqTypes, SeqNumsInt

\* Generations stay in their width, and open() never gives out generation 0.
LEMMA GenerationTypes ==
  ASSUME NEW g \in Generations
  PROVE  NextGeneration(g) \in Generations /\ NextGeneration(g) # 0
  BY SizeAssumption DEF Generations, NextGeneration

\* The locals between packets and between calls.
LEMMA LocalTypes ==
  /\ NoRx \in RxType /\ NoCall \in TxType
  /\ \A m \in Nat : [NoRx EXCEPT !.n = m] \in RxType
  <1>1. NoRx \in RxType
    BY SizeAssumption DEF NoRx, RxType, npos, OutFlags
  <1>2. 0 \in Slots /\ 0 \in Generations
    BY SizeAssumption DEF Slots, Generations
  <1>3. <<>> \in Seq(SeqNums)
    OBVIOUS
  <1>4. NoCall \in TxType
    BY <1>2, <1>3, SeqNumsInt DEF NoCall, TxType, ConnIds, OutFlags
  <1>5. \A m \in Nat : [NoRx EXCEPT !.n = m] \in RxType
    BY <1>1 DEF RxType
  <1> QED BY <1>1, <1>4, <1>5

\* What a step leaves alone keeps its type.
LEMMA TypeFrame ==
  ASSUME TypeOK
  PROVE  /\ UNCHANGED connVars => ConnType'
         /\ UNCHANGED <<inVars, snd_nxt, out_flags>> => SharedType'
         /\ UNCHANGED <<flows, free_slots, awaiting_release, ack_list, finalize_list>> => ListType'
         /\ UNCHANGED rxVars => PollType'
         /\ UNCHANGED txVars => CallType'
         /\ UNCHANGED appVars => AppType'
  <1>1. UNCHANGED connVars => ConnType'
    BY DEF TypeOK, ConnType, connVars
  <1>2. UNCHANGED <<inVars, snd_nxt, out_flags>> => SharedType'
    BY DEF TypeOK, SharedType, inVars
  <1>3. UNCHANGED <<flows, free_slots, awaiting_release, ack_list, finalize_list>> => ListType'
    BY DEF TypeOK, ListType
  <1>4. UNCHANGED rxVars => PollType'
    BY DEF TypeOK, PollType, rxVars, evVars
  <1>5. UNCHANGED txVars => CallType'
    BY DEF TypeOK, CallType, txVars
  <1>6. UNCHANGED appVars => AppType'
    BY DEF TypeOK, AppType, appVars
  <1> QED BY <1>1, <1>2, <1>3, <1>4, <1>5, <1>6

\* The slot of a flow that was found.
LEMMA FlowSlot ==
  ASSUME TypeOK, NEW seg \in Segments, Matches(seg)
  PROVE  flows[seg.key] \in Slots
  BY SegmentAssumption DEF TypeOK, ListType, Matches, SegmentType

\* An event of a slot.
LEMMA EventTypeOK ==
  ASSUME TypeOK, NEW s \in Slots, NEW from \in SeqNums, NEW len \in Int,
         NEW type \in {"accepted", "data", "peer_closed", "closed", "reset"}
  PROVE  make_event(type, s, from, len) \in EventType
  BY DEF TypeOK, SharedType, make_event, EventType, ConnIds

-----------------------------------------------------------------------------
\* process_ack() and process_data()

\* The sequence numbers process_data works with.
LEMMA DataTypes ==
  ASSUME TypeOK, DataDelivered
  PROVE  /\ rx.idx \in Slots /\ rx.seg \in Segments
         /\ tcb[rx.idx].rcv_nxt_local \in SeqNums /\ rx.seg.seq \in SeqNums /\ rx.seg.len \in Nat
         /\ SeqAdd(rx.seg.seq, rx.seg.len) \in SeqNums
         /\ SeqSub(tcb[rx.idx].rcv_nxt_local, rx.seg.seq) \in SeqNums
  <1>1. rx.idx \in Slots /\ rx.seg \in Segments
    BY Zenon DEF DataDelivered, TypeOK, PollType
  <1>2. rx.seg \in SegmentType /\ tcb[rx.idx] \in TcbType
    BY <1>1, SegmentAssumption DEF TypeOK, ConnType
  <1>3. /\ tcb[rx.idx].rcv_nxt_local \in SeqNums /\ rx.seg.seq \in SeqNums
        /\ rx.seg.len \in Nat
    BY <1>2 DEF TcbType, SegmentType
  <1>4. tcb[rx.idx].rcv_nxt_local \in Int /\ rx.seg.seq \in Int /\ rx.seg.len \in Int
    BY <1>3, SeqNumInt
  <1> QED BY <1>1, <1>3, <1>4, SeqTypes

\* The events process_data pushes are about its own slot.
LEMMA DataEvents ==
  ASSUME TypeOK, DataDelivered
  PROVE  \E new \in Seq(EventType), types \in {<<"peer_closed">>, <<"closed">>, <<>>} :
           /\ Emit(rx.idx, new, types)
           /\ Len(new) <= 2
           /\ \A i \in DOMAIN new :
                new[i].conn = [slot |-> rx.idx, generation |-> generation[rx.idx]]
  <1> DEFINE s == rx.idx
             seg == rx.seg
             end == SeqAdd(seg.seq, seg.len)
             fresh == seq_gt(end, tcb[s].rcv_nxt_local)
             skip == SeqSub(tcb[s].rcv_nxt_local, seg.seq)
             upto == IF fresh THEN end ELSE tcb[s].rcv_nxt_local
             fin == has(seg, "FIN") /\ end = upto
             d == make_event("data", s, SeqAdd(seg.seq, skip), seg.len - skip)
             E(type) == make_event(type, s, 0, 0)
             data == IF fresh THEN <<d>> ELSE <<>>
             why == CASE fin /\ state[s] = "established" -> <<"peer_closed">>
                      [] fin /\ state[s] = "fin_wait_2" -> <<"closed">>
                      [] OTHER -> <<>>
             ends == [i \in DOMAIN why |-> E(why[i])]
             id == [slot |-> s, generation |-> generation[s]]
  <1>1. Emit(s, data \o ends, why)
    BY Zenon DEF DataDelivered, Trim
  <1>2. s \in Slots /\ seg.seq \in Int /\ skip \in Int /\ seg.len \in Int
    <2>1. s \in Slots /\ seg.seq \in SeqNums /\ skip \in SeqNums /\ seg.len \in Nat
      BY DataTypes
    <2> HIDE DEF skip, seg
    <2> QED BY <2>1, SeqNumInt
  <1>3. d \in EventType /\ d.conn = id
    <2>1. SeqAdd(seg.seq, skip) \in SeqNums /\ seg.len - skip \in Int
      BY <1>2, SeqTypes
    <2>2. d \in EventType
      BY <1>2, <2>1, EventTypeOK
    <2> QED BY <2>2, Zenon DEF make_event
  <1>4. /\ E("peer_closed") \in EventType /\ E("peer_closed").conn = id
        /\ E("closed") \in EventType /\ E("closed").conn = id
    <2>1. E("peer_closed") \in EventType /\ E("closed") \in EventType
      BY <1>2, EventTypeOK, SeqNumsInt
    <2> QED BY <2>1 DEF make_event
  <1>5. why \in {<<"peer_closed">>, <<"closed">>, <<>>}
    <2> HIDE DEF fin
    <2> QED OBVIOUS
  <1>6. data \in {<<d>>, <<>>}
    BY DEF data
  <1> HIDE DEF data, why, d, E, id
  <1>7. ends \in {<<E("peer_closed")>>, <<E("closed")>>, <<>>}
    BY <1>5
  <1> HIDE DEF ends
  <1>8. data \o ends \in Seq(EventType)
    <2>1. /\ <<d>> \in Seq(EventType) /\ <<>> \in Seq(EventType)
          /\ <<E("peer_closed")>> \in Seq(EventType) /\ <<E("closed")>> \in Seq(EventType)
      BY <1>3, <1>4
    <2>2. data \in Seq(EventType)
      BY <1>6, <2>1, Zenon
    <2>3. ends \in Seq(EventType)
      BY <1>7, <2>1, Zenon
    <2> QED BY <2>2, <2>3
  <1>9. ASSUME NEW i \in DOMAIN (data \o ends)
        PROVE  (data \o ends)[i].conn = id
    BY <1>3, <1>4, <1>6, <1>7
  <1>10. Len(data \o ends) <= 2
    BY <1>6, <1>7
  <1> QED BY <1>1, <1>5, <1>8, <1>9, <1>10, Zenon DEF id

-----------------------------------------------------------------------------
\* The sender

\* window_space is a number of bytes.
LEMMA WindowSpaceType ==
  ASSUME NEW w \in WindowType, NEW nxt \in SeqNums
  PROVE  window_space(w, nxt) \in Nat
  <1> DEFINE edge == SeqAdd(w.una, w.wnd)
             space == SeqSub(edge, nxt)
  <1>1. w.una \in Int /\ w.wnd \in Int /\ nxt \in Int
    BY SeqNumInt DEF WindowType
  <1>2. edge \in SeqNums
    BY <1>1, SeqTypes
  <1>3. edge \in Int
    BY <1>2, SeqNumInt
  <1> HIDE DEF edge
  <1>4. space \in SeqNums
    BY <1>1, <1>3, SeqTypes
  <1>5. space \in Nat
    BY <1>4 DEF SeqNums
  <1> HIDE DEF space
  <1> QED BY <1>5 DEF window_space, space, edge

-----------------------------------------------------------------------------
\* The theorem

\* A sender call is about an id the application holds (it is not forgotten meanwhile):
\* what keeps closed_ids within held when close() returns.
CallHeld == tx_pc # "idle" => tx.conn \in held

TypeInv == TypeOK /\ CallHeld

\* The states the constructors leave are typed.
LEMMA InitType == Init => TypeInv
  <1> SUFFICES ASSUME Init PROVE TypeInv
    OBVIOUS
  <1> USE DEF Init, StackInit
  <1>1. ConnType
    BY SeqNumsInt DEF ConnType, TcpStates, NoTcb, TcbType
  <1>2. SharedType
    BY SeqNumsInt, SizeAssumption
    DEF SharedType, Generations, pack_window, WindowType, OutFlags
  <1>3. ListType
    <2>1. free_slots \in Seq(Slots)
      BY SizeAssumption DEF Slots
    <2> QED BY <2>1 DEF ListType, npos
  <1>4. PollType
    BY LocalTypes DEF PollType, RxPoints
  <1>5. CallType /\ AppType /\ CallHeld
    BY LocalTypes DEF CallType, AppType, CallHeld, TxPoints
  <1> QED BY <1>1, <1>2, <1>3, <1>4, <1>5 DEF TypeInv, TypeOK

\* Every step of either thread, of the network and of the application keeps the types.
LEMMA NextType == TypeInv /\ Next => TypeOK'
  \* The poll loop moves on to the next packet.
  <1>NextPacketType.
    ASSUME TypeOK, NextPacket, events' \in Seq(EventType), UNCHANGED opening
    PROVE  PollType'
    <2> USE <1>NextPacketType
    <2>1. rx.n \in Nat
      BY DEF TypeOK, PollType, RxType
    <2>2. rx' \in RxType /\ rx_pc' = "process"
      BY <2>1, LocalTypes DEF NextPacket
    <2> QED BY <2>2 DEF TypeOK, PollType, RxPoints
  \* sync_out_flags and the state changes of process_segment.
  <1>SyncType.
    ASSUME TypeOK, NEW s \in Slots
    PROVE  sync_out_flags(s) \in TcpStates
    BY <1>SyncType DEF TypeOK, ConnType, sync_out_flags, TcpStates
  \* queue_ack and schedule_finalize keep their lists and flags typed.
  <1>QueueAckType.
    ASSUME TypeOK, NEW s \in Slots, queue_ack(s)
    PROVE  ack_pending' \in [Slots -> BOOLEAN] /\ ack_list' \in Seq(Slots)
    BY <1>QueueAckType DEF TypeOK, ConnType, ListType, queue_ack
  \* schedule_finalize() keeps its list and flag typed.
  <1>ScheduleFinalizeType.
    ASSUME TypeOK, NEW s \in Slots, schedule_finalize(s)
    PROVE  finalize_pending' \in [Slots -> BOOLEAN] /\ finalize_list' \in Seq(Slots)
    BY <1>ScheduleFinalizeType DEF TypeOK, ConnType, ListType, schedule_finalize
  \* release_slot() keeps the state, the flags and the free list typed.
  <1>ReleaseSlotType.
    ASSUME TypeOK, NEW s \in Slots, release_slot(s), UNCHANGED tcb
    PROVE  ConnType' /\ free_slots' \in Seq(Slots)
    BY <1>ReleaseSlotType DEF TypeOK, ConnType, ListType, release_slot, TcpStates
  \* events.push_back keeps the event list typed.
  <1>EmitType.
    ASSUME TypeOK, NEW s \in Slots, NEW new \in Seq(EventType), NEW types, Emit(s, new, types)
    PROVE  events' \in Seq(EventType)
    BY <1>EmitType DEF TypeOK, PollType, Emit
  \* poll() starts: reap_released begins at the first entry.
  <1>PollStartType.
    ASSUME TypeOK, PollStart \/ ReapDone \/ EndBurst
    PROVE  TypeOK'
    <2> USE <1>PollStartType
    <2>1. /\ UNCHANGED <<connVars, inVars, outVars, listVars, evVars, opening, txVars, appVars>>
          /\ rx' = NoRx /\ rx_pc' \in {"reap", "process", "acks"}
      BY DEF PollStart, ReapDone, EndBurst
    <2>2. PollType'
      BY <2>1, LocalTypes DEF TypeOK, PollType, evVars, RxPoints
    <2> QED BY <2>1, <2>2, TypeFrame DEF TypeOK, listVars, outVars
  \* A round of reap_released keeps the lists typed: swap with the last, then pop.
  <1>ReapReleasedType.
    ASSUME TypeOK, ReapReleased
    PROVE  TypeOK'
    <2> USE <1>ReapReleasedType
    <2> DEFINE idx == awaiting_release[rx.i]
    <2>1. /\ rx_pc = "reap" /\ rx.i <= Len(awaiting_release)
          /\ UNCHANGED <<tcb, inVars, outVars, flows, ack_list, finalize_list, rx_pc, evVars,
                         opening, txVars, appVars>>
      BY DEF ReapReleased
    <2>2. rx.i \in 1 .. Len(awaiting_release) /\ awaiting_release \in Seq(Slots)
      BY <2>1 DEF TypeOK, PollType, ListType, RxType
    <2>3. idx \in Slots
      BY <2>2
    <2>4. CASE /\ release_slot(idx)
               /\ awaiting_release' =
                    pop_back([awaiting_release EXCEPT ![rx.i] = back(awaiting_release)])
               /\ rx' = rx
      <3>1. ConnType' /\ free_slots' \in Seq(Slots)
        BY <2>1, <2>3, <2>4, <1>ReleaseSlotType
      <3>2. awaiting_release' \in Seq(Slots)
        BY <2>2, <2>4 DEF pop_back, back
      <3>3. ListType'
        BY <2>1, <3>1, <3>2 DEF TypeOK, ListType
      <3>4. PollType'
        BY <2>1, <2>4, TypeFrame DEF rxVars
      <3> QED BY <2>1, <3>1, <3>3, <3>4, TypeFrame DEF TypeOK, outVars
    <2>5. CASE /\ rx' = [rx EXCEPT !.i = @ + 1]
               /\ UNCHANGED <<state, ack_pending, finalize_pending, free_slots, awaiting_release>>
      <3>1. rx' \in RxType
        BY <2>5 DEF TypeOK, PollType, RxType
      <3>2. PollType'
        BY <2>1, <3>1, Zenon DEF TypeOK, PollType, evVars
      <3> QED BY <2>1, <2>5, <3>2, TypeFrame DEF TypeOK, outVars, connVars
    <2> QED BY <2>4, <2>5 DEF ReapReleased
  \* A packet that only changes the control queue.
  <1>ReceiveOtherType.
    ASSUME TypeOK, NextPacket,
           UNCHANGED <<connVars, inVars, outVars, flows, free_slots, awaiting_release,
                       ack_list, finalize_list, evVars, opening, txVars, appVars>>
    PROVE  TypeOK'
    <2> USE <1>ReceiveOtherType
    <2>1. events' \in Seq(EventType)
      BY DEF TypeOK, PollType, evVars
    <2>2. PollType'
      BY <2>1, <1>NextPacketType
    <2> QED BY <2>2, TypeFrame DEF TypeOK, outVars
  \* open() writes a typed control block into the slot it takes.
  <1>OpenType.
    ASSUME TypeOK, NEW seg \in Segments, NEW iss \in Iss, Open(seg, iss)
    PROVE  TypeOK'
    <2> USE <1>OpenType
    <2> DEFINE idx == back(free_slots)
    <2>1. /\ free_slots # <<>> /\ free_slots' = pop_back(free_slots)
          /\ rx' = [rx EXCEPT !.idx = idx] /\ rx_pc' = "open" /\ opening' = OpenStores
          /\ UNCHANGED <<inVars, outVars, flows, awaiting_release, ack_list, finalize_list,
                         evVars, txVars, appVars>>
      BY DEF Open
    <2>2. idx \in Slots /\ pop_back(free_slots) \in Seq(Slots)
      BY <2>1 DEF TypeOK, ListType, pop_back, back
    <2>3. ListType'
      BY <2>1, <2>2 DEF TypeOK, ListType
    <2>4. PollType'
      BY <2>1, <2>2, Zenon DEF TypeOK, PollType, RxType, RxPoints, evVars
    <2>5. ConnType'
      <3> DEFINE c == [key |-> seg.key, send_mss |-> IF seg.mss < Mss THEN seg.mss ELSE Mss,
                       iss |-> iss, irs |-> seg.seq, rcv_nxt_local |-> SeqAdd(seg.seq, 1),
                       snd_una |-> iss, snd_wnd |-> seg.window,
                       snd_wl1 |-> seg.seq, snd_wl2 |-> 0]
      <3>1. seg \in SegmentType /\ iss \in SeqNums
        BY SegmentAssumption
      <3>2. SeqAdd(seg.seq, 1) \in SeqNums
        BY <3>1, SeqNextType DEF SegmentType
      <3>3. c \in TcbType
        BY <3>1, <3>2, SeqNumsInt, SizeAssumption DEF TcbType, SegmentType
      <3>4. /\ tcb' = [tcb EXCEPT ![idx] = c]
            /\ state' = [state EXCEPT ![idx] = "syn_received"]
            /\ ack_pending' = [ack_pending EXCEPT ![idx] = FALSE]
            /\ finalize_pending' = [finalize_pending EXCEPT ![idx] = FALSE]
        BY DEF Open
      <3> HIDE DEF c
      <3> QED BY <2>2, <3>3, <3>4 DEF TypeOK, ConnType, TcpStates
    <2> QED BY <2>1, <2>3, <2>4, <2>5, TypeFrame DEF TypeOK, outVars
  \* Each relaxed store of open() writes a value of its type.
  <1>OpenStoreType.
    ASSUME TypeOK, NEW f \in opening, OpenStore(f)
    PROVE  TypeOK'
    <2> USE <1>OpenStoreType
    <2> DEFINE s == rx.idx
    <2>1. /\ rx_pc = "open" /\ opening' = opening \ {f}
          /\ UNCHANGED <<connVars, out_flags, listVars, rx_pc, rx, evVars, txVars, appVars>>
      BY DEF OpenStore
    <2>2. s \in Slots /\ tcb[s] \in TcbType
      BY <2>1 DEF TypeOK, PollType, ConnType
    <2>3. SharedType'
      <3>1. NextGeneration(generation[s]) \in Generations
        BY <2>2, GenerationTypes DEF TypeOK, SharedType
      <3>2. tcb[s].rcv_nxt_local \in SeqNums /\ SeqAdd(tcb[s].iss, 1) \in SeqNums
        BY <2>2, SeqNextType DEF TcbType
      <3>3. pack_window(tcb[s].snd_una, tcb[s].snd_wnd) \in WindowType
        BY <2>2, Zenon DEF TcbType, pack_window, WindowType
      <3>4. generation' \in [Slots -> Generations] /\ terminated' \in [Slots -> BOOLEAN]
        BY <2>2, <3>1, Zenon DEF TypeOK, SharedType, OpenStore
      <3>5. rcv_nxt' \in [Slots -> SeqNums] /\ snd_nxt' \in [Slots -> SeqNums]
        BY <2>2, <3>2, Zenon DEF TypeOK, SharedType, OpenStore
      <3>6. send_window' \in [Slots -> WindowType]
        BY <2>2, <3>3 DEF TypeOK, SharedType, OpenStore
      <3> QED BY <2>1, <3>4, <3>5, <3>6 DEF TypeOK, SharedType
    <2>4. PollType'
      BY <2>1 DEF TypeOK, PollType, evVars
    <2> QED BY <2>1, <2>3, <2>4, TypeFrame, Zenon DEF TypeOK, listVars
  \* The release store of out_flags and the insertion of the flow are typed.
  <1>OpenPublishType.
    ASSUME TypeOK, OpenPublish
    PROVE  TypeOK'
    <2> USE <1>OpenPublishType
    <2>1. /\ rx_pc = "open" /\ NextPacket
          /\ out_flags' = [out_flags EXCEPT ![rx.idx] = {}]
          /\ flows' = [flows EXCEPT ![tcb[rx.idx].key] = rx.idx]
          /\ UNCHANGED <<connVars, inVars, snd_nxt, free_slots, awaiting_release,
                         ack_list, finalize_list, events, opening, txVars, appVars>>
      BY DEF OpenPublish
    <2>2. rx.idx \in Slots
      BY <2>1, Zenon DEF TypeOK, PollType
    <2>3. SharedType'
      BY <2>1, Zenon DEF TypeOK, SharedType, inVars
    <2>4. ListType'
      BY <2>1, <2>2, Zenon DEF TypeOK, ListType
    <2>5. PollType'
      BY <2>1, <1>NextPacketType, Zenon DEF TypeOK, PollType
    <2> QED BY <2>1, <2>3, <2>4, <2>5, TypeFrame, Zenon DEF TypeOK
  \* A reset of a handshake recycles the slot or changes nothing.
  <1>HandshakeResetType.
    ASSUME TypeOK, NEW seg \in Segments, HandshakeReset(seg)
    PROVE  TypeOK'
    <2> USE <1>HandshakeResetType
    <2> DEFINE s == flows[seg.key]
    <2>1. /\ Matches(seg) /\ NextPacket
          /\ UNCHANGED <<tcb, inVars, outVars, awaiting_release, ack_list, finalize_list,
                         evVars, opening, txVars, appVars>>
      BY Zenon DEF HandshakeReset
    <2>2. s \in Slots
      BY <2>1, FlowSlot
    <2>3. PollType'
      <3>1. events' \in Seq(EventType)
        BY <2>1 DEF TypeOK, PollType, evVars
      <3> QED BY <2>1, <3>1, <1>NextPacketType
    <2>4. CASE flows' = [flows EXCEPT ![tcb[s].key] = npos] /\ release_slot(s)
      <3>1. ConnType' /\ free_slots' \in Seq(Slots)
        BY <2>1, <2>2, <2>4, <1>ReleaseSlotType, Zenon
      <3>2. ListType'
        BY <2>1, <2>4, <3>1, Zenon DEF TypeOK, ListType
      <3> QED BY <2>1, <2>3, <3>1, <3>2, TypeFrame DEF TypeOK, outVars
    <2>5. CASE UNCHANGED <<flows, state, ack_pending, finalize_pending, free_slots>>
      BY <2>1, <2>3, <2>5, TypeFrame, Zenon DEF TypeOK, outVars, connVars
    <2> QED BY <2>4, <2>5, Zenon DEF HandshakeReset
  \* The final ACK of a handshake.
  <1>HandshakeAckType.
    ASSUME TypeOK, NEW seg \in Segments, HandshakeAck(seg)
    PROVE  TypeOK'
    <2> USE <1>HandshakeAckType
    <2> DEFINE s == flows[seg.key]
    <2>1. /\ Matches(seg)
          /\ tcb' = [tcb EXCEPT ![s].snd_una = seg.ack, ![s].snd_wnd = seg.window,
                                ![s].snd_wl1 = seg.seq, ![s].snd_wl2 = seg.ack]
          /\ send_window' = [send_window EXCEPT ![s] = pack_window(seg.ack, seg.window)]
          /\ state' = [state EXCEPT ![s] = "established"]
          /\ Emit(s, <<make_event("accepted", s, 0, 0)>>, <<"accepted">>)
          /\ rx_pc' = "data" /\ rx' = [rx EXCEPT !.idx = s, !.seg = seg]
          /\ UNCHANGED <<ack_pending, finalize_pending, generation, rcv_nxt, terminated, outVars,
                         listVars, opening, txVars, appVars>>
      BY Zenon DEF HandshakeAck
    <2>2. s \in Slots /\ seg \in SegmentType
      BY <2>1, FlowSlot, SegmentAssumption
    <2>3. tcb' \in [Slots -> TcbType]
      <3>1. tcb \in [Slots -> TcbType] /\ tcb[s] \in TcbType
        BY <2>2 DEF TypeOK, ConnType
      <3>2. seg.ack \in SeqNums /\ seg.seq \in SeqNums /\ seg.window \in Nat
        BY <2>2 DEF SegmentType
      <3>3. [tcb[s] EXCEPT !.snd_una = seg.ack, !.snd_wnd = seg.window,
                           !.snd_wl1 = seg.seq, !.snd_wl2 = seg.ack] \in TcbType
        BY <3>1, <3>2, Zenon DEF TcbType
      <3> QED BY <2>1, <3>1, <3>3, Zenon
    <2>4. ConnType'
      BY <2>1, <2>3, Zenon DEF TypeOK, ConnType, TcpStates
    <2>5. SharedType'
      BY <2>1, <2>2, Zenon DEF TypeOK, SharedType, outVars, pack_window, WindowType, SegmentType
    <2>6. PollType'
      <3>1. make_event("accepted", s, 0, 0) \in EventType
        BY <2>2, EventTypeOK, SeqNumsInt
      <3>2. <<make_event("accepted", s, 0, 0)>> \in Seq(EventType)
        BY <3>1
      <3>3. events' \in Seq(EventType)
        BY <2>1, <2>2, <3>2, <1>EmitType, Zenon
      <3>4. rx' \in RxType /\ rx'.idx \in Slots /\ rx'.seg \in Segments
        BY <2>1, <2>2, Zenon DEF TypeOK, PollType, RxType
      <3> QED BY <2>1, <3>3, <3>4, Zenon DEF TypeOK, PollType, RxPoints
    <2> QED BY <2>1, <2>4, <2>5, <2>6, TypeFrame DEF TypeOK, listVars
  \* An RST in a synchronized state.
  <1>SegmentResetType.
    ASSUME TypeOK, NEW seg \in Segments, SegmentReset(seg)
    PROVE  TypeOK'
    <2> USE <1>SegmentResetType
    <2> DEFINE s == flows[seg.key]
    <2>1. /\ Matches(seg) /\ NextPacket
          /\ UNCHANGED <<tcb, generation, rcv_nxt, send_window, outVars, flows, free_slots,
                         awaiting_release, ack_list, opening, txVars, appVars>>
      BY Zenon DEF SegmentReset
    <2>2. s \in Slots /\ sync_out_flags(s) \in TcpStates
      BY <2>1, FlowSlot, <1>SyncType, Zenon
    <2>3. CASE /\ state' = [state EXCEPT ![s] = "closed"]
               /\ terminated' = [terminated EXCEPT ![s] = TRUE]
               /\ ack_pending' = [ack_pending EXCEPT ![s] = FALSE]
               /\ Emit(s, <<make_event("reset", s, 0, 0)>>, <<"reset">>)
               /\ schedule_finalize(s)
      <3>1. finalize_pending' \in [Slots -> BOOLEAN] /\ finalize_list' \in Seq(Slots)
        BY <2>2, <2>3, <1>ScheduleFinalizeType, Zenon
      <3>2. make_event("reset", s, 0, 0) \in EventType
        BY <2>2, EventTypeOK, SeqNumsInt
      <3>3. <<make_event("reset", s, 0, 0)>> \in Seq(EventType)
        BY <3>2
      <3>4. events' \in Seq(EventType)
        BY <2>2, <2>3, <3>3, <1>EmitType, Zenon
      <3>5. PollType'
        BY <2>1, <3>4, <1>NextPacketType
      <3>6. ConnType'
        BY <2>1, <2>3, <3>1, Zenon DEF TypeOK, ConnType, TcpStates
      <3>7. SharedType'
        BY <2>1, <2>3, Zenon DEF TypeOK, SharedType, outVars
      <3>8. ListType'
        BY <2>1, <3>1 DEF TypeOK, ListType
      <3> QED BY <2>1, <3>5, <3>6, <3>7, <3>8, TypeFrame DEF TypeOK
    <2>4. CASE /\ state' = [state EXCEPT ![s] = sync_out_flags(s)]
               /\ UNCHANGED <<terminated, ack_pending, evVars, finalize_pending, finalize_list>>
      <3>1. events' \in Seq(EventType)
        BY <2>4, Zenon DEF TypeOK, PollType, evVars
      <3>2. PollType'
        BY <2>1, <3>1, <1>NextPacketType
      <3>3. ConnType'
        BY <2>1, <2>2, <2>4, Zenon DEF TypeOK, ConnType
      <3> QED BY <2>1, <2>4, <3>2, <3>3, TypeFrame, Zenon DEF TypeOK, inVars, outVars
    <2> QED BY <2>3, <2>4, Zenon DEF SegmentReset
  \* A segment that is not for process_ack.
  <1>SegmentNotAckType.
    ASSUME TypeOK, NEW seg \in Segments, SegmentNotAck(seg)
    PROVE  TypeOK'
    <2> USE <1>SegmentNotAckType
    <2> DEFINE s == flows[seg.key]
    <2>1. /\ Matches(seg) /\ NextPacket
          /\ queue_ack(s) \/ UNCHANGED <<ack_pending, ack_list>>
          /\ state' = [state EXCEPT ![s] = sync_out_flags(s)]
          /\ UNCHANGED <<tcb, finalize_pending, inVars, outVars, flows, free_slots,
                         awaiting_release, finalize_list, evVars, opening, txVars, appVars>>
      BY Zenon DEF SegmentNotAck
    <2>2. s \in Slots /\ sync_out_flags(s) \in TcpStates
      BY <2>1, FlowSlot, <1>SyncType, Zenon
    <2>3. ack_pending' \in [Slots -> BOOLEAN] /\ ack_list' \in Seq(Slots)
      BY <2>1, <2>2, <1>QueueAckType DEF TypeOK, ConnType, ListType
    <2>4. ConnType' /\ ListType'
      BY <2>1, <2>2, <2>3, Zenon DEF TypeOK, ConnType, ListType
    <2>5. events' \in Seq(EventType)
      BY <2>1, Zenon DEF TypeOK, PollType, evVars
    <2>6. PollType'
      BY <2>1, <2>5, <1>NextPacketType, Zenon
    <2> QED BY <2>1, <2>4, <2>6, TypeFrame DEF TypeOK, outVars
  \* A segment for process_ack.
  <1>SegmentAckType.
    ASSUME TypeOK, NEW seg \in Segments, SegmentAck(seg)
    PROVE  TypeOK'
    <2> USE <1>SegmentAckType
    <2> DEFINE s == flows[seg.key]
    <2>1. /\ Matches(seg)
          /\ state' = [state EXCEPT ![s] = sync_out_flags(s)]
          /\ rx_pc' = "flags" /\ rx' = [rx EXCEPT !.idx = s, !.seg = seg]
          /\ UNCHANGED <<tcb, ack_pending, finalize_pending, inVars, outVars, listVars,
                         evVars, opening, txVars, appVars>>
      BY DEF SegmentAck
    <2>2. s \in Slots /\ sync_out_flags(s) \in TcpStates
      BY <2>1, FlowSlot, <1>SyncType
    <2>3. ConnType'
      BY <2>1, <2>2 DEF TypeOK, ConnType
    <2>4. rx' \in RxType /\ rx'.idx \in Slots /\ rx'.seg \in Segments
      BY <2>1, <2>2, Zenon DEF TypeOK, PollType, RxType
    <2>5. PollType'
      BY <2>1, <2>4 DEF TypeOK, PollType, RxPoints, evVars
    <2> QED BY <2>1, <2>3, <2>5, TypeFrame DEF TypeOK, outVars, listVars
  \* The connection's send side after an ACK.
  <1>AckedTcbType.
    ASSUME NEW c \in TcbType, NEW seg \in SegmentType
    PROVE  AckedTcb(c, seg) \in TcbType
    <2> USE <1>AckedTcbType
    <2> DEFINE una == IF seq_gt(seg.ack, c.snd_una) THEN seg.ack ELSE c.snd_una
               acked == [c EXCEPT !.snd_una = una]
    <2>1. acked \in TcbType
      BY DEF TcbType, SegmentType
    <2>2. [acked EXCEPT !.snd_wnd = seg.window, !.snd_wl1 = seg.seq, !.snd_wl2 = seg.ack] \in TcbType
      BY Zenon DEF TcbType, SegmentType
    <2> HIDE DEF acked
    <2> QED BY <2>1, <2>2 DEF AckedTcb, acked
  \* process_ack loads out_flags, or drops an ACK of something never sent.
  <1>AckLoadType.
    ASSUME TypeOK, AckLoadFlags \/ AckBeyond
    PROVE  TypeOK'
    <2> USE <1>AckLoadType
    <2>1. rx.idx \in Slots
      BY DEF TypeOK, PollType, AckLoadFlags, AckBeyond
    <2>2. CASE AckLoadFlags
      <3>1. /\ rx_pc = "flags" /\ rx_pc' = "ack"
            /\ rx' = [rx EXCEPT !.out = out_flags[rx.idx]]
            /\ UNCHANGED <<connVars, inVars, outVars, listVars, evVars, opening, txVars, appVars>>
        BY <2>2 DEF AckLoadFlags
      <3>2. out_flags[rx.idx] \subseteq OutFlags
        BY <2>1 DEF TypeOK, SharedType
      <3>3. rx' \in RxType /\ rx'.idx = rx.idx /\ rx'.seg = rx.seg
        BY <3>1, <3>2 DEF TypeOK, PollType, RxType
      <3>4. PollType'
        BY <2>1, <3>1, <3>3 DEF TypeOK, PollType, RxPoints, evVars
      <3> QED BY <3>1, <3>4, TypeFrame DEF TypeOK, outVars, listVars
    <2>3. CASE AckBeyond
      <3>1. /\ NextPacket /\ queue_ack(rx.idx)
            /\ UNCHANGED <<state, tcb, finalize_pending, inVars, outVars, flows, free_slots,
                           awaiting_release, finalize_list, evVars, opening, txVars, appVars>>
        BY <2>3, Zenon DEF AckBeyond
      <3>2. ack_pending' \in [Slots -> BOOLEAN] /\ ack_list' \in Seq(Slots)
        BY <2>1, <3>1, <1>QueueAckType
      <3>3. ConnType' /\ ListType'
        BY <3>1, <3>2 DEF TypeOK, ConnType, ListType
      <3>4. events' \in Seq(EventType)
        BY <3>1 DEF TypeOK, PollType, evVars
      <3>5. PollType'
        BY <3>1, <3>4, <1>NextPacketType
      <3> QED BY <3>1, <3>3, <3>5, TypeFrame, Zenon DEF TypeOK, outVars
    <2> QED BY <2>2, <2>3
  \* process_ack proper.
  <1>AckProcessedType.
    ASSUME TypeOK, AckProcessed
    PROVE  TypeOK'
    <2> USE <1>AckProcessedType
    <2> DEFINE s == rx.idx
               c == AckedTcb(tcb[s], rx.seg)
    <2>1. /\ rx_pc = "ack"
          /\ tcb' = [tcb EXCEPT ![s] = c]
          /\ send_window' = [send_window EXCEPT ![s] = pack_window(c.snd_una, c.snd_wnd)]
          /\ UNCHANGED <<ack_pending, generation, rcv_nxt, outVars, flows, free_slots,
                         awaiting_release, ack_list, opening, txVars, appVars>>
      BY Zenon DEF AckProcessed
    <2>2. s \in Slots /\ rx.seg \in Segments
      BY <2>1 DEF TypeOK, PollType
    <2>3. c \in TcbType
      BY <2>2, <1>AckedTcbType, SegmentAssumption DEF TypeOK, ConnType
    <2> HIDE DEF c
    <2>4. tcb' \in [Slots -> TcbType]
      BY <2>1, <2>3, Zenon DEF TypeOK, ConnType
    <2>5. send_window' \in [Slots -> WindowType]
      <3>1. pack_window(c.snd_una, c.snd_wnd) \in WindowType
        BY <2>3, Zenon DEF TcbType, pack_window, WindowType
      <3> QED BY <2>1, <3>1, Zenon DEF TypeOK, SharedType
    <2>6. CASE /\ state' = [state EXCEPT ![s] = "closed"]
               /\ terminated' = [terminated EXCEPT ![s] = TRUE]
               /\ Emit(s, <<make_event("closed", s, 0, 0)>>, <<"closed">>)
               /\ schedule_finalize(s)
               /\ NextPacket
      <3>1. finalize_pending' \in [Slots -> BOOLEAN] /\ finalize_list' \in Seq(Slots)
        BY <2>2, <2>6, <1>ScheduleFinalizeType
      <3>2. make_event("closed", s, 0, 0) \in EventType
        BY <2>2, EventTypeOK, SeqNumsInt
      <3>3. <<make_event("closed", s, 0, 0)>> \in Seq(EventType)
        BY <3>2
      <3>4. events' \in Seq(EventType)
        BY <2>2, <2>6, <3>3, <1>EmitType, Zenon
      <3>5. PollType'
        BY <2>1, <2>6, <3>4, <1>NextPacketType
      <3>6. ConnType'
        BY <2>1, <2>4, <2>6, <3>1, Zenon DEF TypeOK, ConnType, TcpStates
      <3>7. SharedType'
        BY <2>1, <2>5, <2>6, Zenon DEF TypeOK, SharedType, outVars
      <3>8. ListType'
        BY <2>1, <3>1, Zenon DEF TypeOK, ListType
      <3> QED BY <2>1, <3>5, <3>6, <3>7, <3>8, TypeFrame DEF TypeOK
    <2>7. CASE /\ state' = IF FinAcked(rx.seg) /\ state[s] = "fin_wait_1"
                           THEN [state EXCEPT ![s] = "fin_wait_2"] ELSE state
               /\ rx_pc' = "data"
               /\ UNCHANGED <<terminated, evVars, finalize_pending, finalize_list, rx>>
      <3>1. state' \in [Slots -> TcpStates]
        BY <2>7, Zenon DEF TypeOK, ConnType, TcpStates
      <3>2. ConnType'
        BY <2>1, <2>4, <2>7, <3>1, Zenon DEF TypeOK, ConnType
      <3>3. SharedType'
        BY <2>1, <2>5, <2>7, Zenon DEF TypeOK, SharedType, outVars
      <3>4. PollType'
        BY <2>1, <2>2, <2>7, Zenon DEF TypeOK, PollType, RxPoints, evVars
      <3> QED BY <2>1, <2>7, <3>2, <3>3, <3>4, TypeFrame DEF TypeOK
    <2> QED BY <2>6, <2>7, Zenon DEF AckProcessed
  \* process_data has nothing to deliver.
  <1>DataNotDeliveredType.
    ASSUME TypeOK, DataNotDelivered
    PROVE  TypeOK'
    <2> USE <1>DataNotDeliveredType
    <2>1. /\ rx_pc = "data" /\ NextPacket
          /\ queue_ack(rx.idx) \/ UNCHANGED <<ack_pending, ack_list>>
          /\ UNCHANGED <<state, tcb, finalize_pending, inVars, outVars, flows, free_slots,
                         awaiting_release, finalize_list, evVars, opening, txVars, appVars>>
      BY Zenon DEF DataNotDelivered
    <2>2. rx.idx \in Slots
      BY <2>1, Zenon DEF TypeOK, PollType
    <2>3. ack_pending' \in [Slots -> BOOLEAN] /\ ack_list' \in Seq(Slots)
      BY <2>1, <2>2, <1>QueueAckType, Zenon DEF TypeOK, ConnType, ListType
    <2>4. ConnType' /\ ListType'
      BY <2>1, <2>3, Zenon DEF TypeOK, ConnType, ListType
    <2>5. events' \in Seq(EventType)
      BY <2>1 DEF TypeOK, PollType, evVars
    <2>6. PollType'
      BY <2>1, <2>5, <1>NextPacketType
    <2> QED BY <2>1, <2>4, <2>6, TypeFrame DEF TypeOK, outVars
  \* process_data delivers bytes, a FIN or both.
  <1>DataDeliveredType.
    ASSUME TypeOK, DataDelivered
    PROVE  TypeOK'
    <2> USE <1>DataDeliveredType
    <2> DEFINE s == rx.idx
               seg == rx.seg
               old == tcb[s].rcv_nxt_local
               end == SeqAdd(seg.seq, seg.len)
               fresh == seq_gt(end, old)
               upto == IF fresh THEN end ELSE old
               fin == has(seg, "FIN") /\ end = upto
               new == IF fin THEN SeqAdd(upto, 1) ELSE upto
    <2>1. /\ NextPacket /\ queue_ack(s)
          /\ tcb' = [tcb EXCEPT ![s].rcv_nxt_local = new]
          /\ rcv_nxt' = [rcv_nxt EXCEPT ![s] = new]
          /\ UNCHANGED <<generation, send_window, outVars, flows, free_slots, awaiting_release,
                         opening, txVars, appVars>>
      BY Zenon DEF DataDelivered
    <2>2. s \in Slots
      BY DataTypes
    <2>3. new \in SeqNums
      <3>1. upto \in SeqNums
        BY DataTypes
      <3> HIDE DEF upto, fin
      <3> QED BY <3>1, SeqNextType, Zenon
    <2> HIDE DEF new, fin
    <2>4. PollType'
      <3>1. events' \in Seq(EventType)
        BY <2>2, DataEvents, <1>EmitType
      <3> QED BY <2>1, <3>1, <1>NextPacketType, Zenon
    <2>5. ack_pending' \in [Slots -> BOOLEAN] /\ ack_list' \in Seq(Slots)
      BY <2>1, <2>2, <1>QueueAckType
    <2>6. /\ finalize_pending' \in [Slots -> BOOLEAN] /\ finalize_list' \in Seq(Slots)
          /\ terminated' \in [Slots -> BOOLEAN]
      <3>1. \/ schedule_finalize(s) /\ terminated' = [terminated EXCEPT ![s] = TRUE]
            \/ UNCHANGED <<finalize_pending, finalize_list, terminated>>
        BY Zenon DEF DataDelivered
      <3> QED BY <2>2, <3>1, <1>ScheduleFinalizeType, Zenon DEF TypeOK, ConnType, ListType, SharedType
    <2>7. state' \in [Slots -> TcpStates]
      <3>1. \E st \in TcpStates : state' = [state EXCEPT ![s] = st]
        <4>1. state' = [state EXCEPT ![s] = CASE fin /\ state[s] = "established" -> "close_wait"
                                              [] fin /\ state[s] = "fin_wait_1" -> "closing"
                                              [] fin /\ state[s] = "fin_wait_2" -> "closed"
                                              [] OTHER -> state[s]]
          BY Zenon DEF DataDelivered, fin
        <4> QED BY <2>2, <4>1, Zenon DEF TypeOK, ConnType, TcpStates
      <3> QED BY <3>1, Zenon DEF TypeOK, ConnType
    <2>8. tcb' \in [Slots -> TcbType]
      <3>1. \A t \in Slots : tcb'[t] \in TcbType
        BY <2>1, <2>3 DEF TypeOK, ConnType, TcbType
      <3> QED BY <2>1, <3>1, Zenon DEF TypeOK, ConnType
    <2>9. ConnType'
      BY <2>5, <2>6, <2>7, <2>8 DEF ConnType
    <2>10. SharedType'
      BY <2>1, <2>3, <2>6, Zenon DEF TypeOK, SharedType, outVars
    <2>11. ListType'
      BY <2>1, <2>5, <2>6 DEF TypeOK, ListType
    <2> QED BY <2>1, <2>4, <2>9, <2>10, <2>11, TypeFrame DEF TypeOK
  \* flush_acks and flush_control.
  <1>FlushType.
    ASSUME TypeOK, FlushAck \/ (\E sent \in 0 .. Len(control) : FlushControl(sent))
    PROVE  TypeOK'
    <2> USE <1>FlushType
    <2>1. CASE FlushAck
      <3>1. /\ ack_list # <<>> /\ ack_list' = Tail(ack_list)
            /\ ack_pending' = [ack_pending EXCEPT ![Head(ack_list)] = FALSE]
            /\ UNCHANGED <<state, tcb, finalize_pending, inVars, outVars, flows, free_slots,
                           awaiting_release, finalize_list, rxVars, txVars, appVars>>
        BY <2>1 DEF FlushAck
      <3>2. ConnType' /\ ListType'
        BY <3>1 DEF TypeOK, ConnType, ListType
      <3> QED BY <3>1, <3>2, TypeFrame, Zenon DEF TypeOK, outVars
    <2>2. CASE \E sent \in 0 .. Len(control) : FlushControl(sent)
      <3>1. /\ rx_pc' = "finalize"
            /\ UNCHANGED <<connVars, inVars, outVars, flows, free_slots, awaiting_release, ack_list,
                           finalize_list, rx, evVars, opening, txVars, appVars>>
        BY <2>2 DEF FlushControl
      <3>2. PollType'
        BY <3>1 DEF TypeOK, PollType, RxPoints, evVars
      <3> QED BY <3>1, <3>2, TypeFrame DEF TypeOK, outVars
    <2> QED BY <2>1, <2>2, Zenon
  \* finalize.
  <1>FinalizeType.
    ASSUME TypeOK, Finalize
    PROVE  TypeOK'
    <2> USE <1>FinalizeType
    <2> DEFINE s == Head(finalize_list)
    <2>1. /\ finalize_list # <<>> /\ finalize_list' = Tail(finalize_list)
          /\ flows' = [flows EXCEPT ![tcb[s].key] = npos]
          /\ UNCHANGED <<tcb, inVars, outVars, ack_list, rxVars, txVars, appVars>>
      BY DEF Finalize
    <2>2. s \in Slots /\ finalize_list' \in Seq(Slots)
      BY <2>1 DEF TypeOK, ListType
    <2>3. ConnType' /\ free_slots' \in Seq(Slots) /\ awaiting_release' \in Seq(Slots)
      <3>1. CASE release_slot(s) /\ UNCHANGED awaiting_release
        BY <2>1, <2>2, <3>1, <1>ReleaseSlotType, Zenon DEF TypeOK, ListType
      <3>2. CASE /\ awaiting_release' = Append(awaiting_release, s)
                 /\ finalize_pending' = [finalize_pending EXCEPT ![s] = FALSE]
                 /\ UNCHANGED <<state, ack_pending, free_slots>>
        BY <2>1, <2>2, <3>2 DEF TypeOK, ListType, ConnType
      <3> QED BY <3>1, <3>2 DEF Finalize
    <2>4. ListType'
      BY <2>1, <2>2, <2>3, Zenon DEF TypeOK, ListType
    <2> QED BY <2>1, <2>3, <2>4, TypeFrame, Zenon DEF TypeOK, outVars
  \* poll() returns.
  <1>PollReturnType.
    ASSUME TypeOK, PollReturn
    PROVE  TypeOK'
    <2> USE <1>PollReturnType
    <2>1. /\ held' = held \cup {e.conn : e \in {f \in Range(events) : f.type = "accepted"}}
          /\ events' = <<>> /\ rx_pc' = "idle" /\ rx' = NoRx
          /\ UNCHANGED <<connVars, inVars, outVars, listVars, opening, txVars, closed_ids>>
      BY DEF PollReturn
    <2>2. PollType'
      BY <2>1, LocalTypes DEF TypeOK, PollType, RxPoints
    <2>3. ASSUME NEW e \in Range(events) PROVE e.conn \in ConnIds
      <3>1. PICK i \in DOMAIN events : e = events[i]
        BY DEF Range
      <3>2. events \in Seq(EventType)
        BY DEF TypeOK, PollType
      <3>3. e \in EventType
        BY <3>1, <3>2
      <3> QED BY <3>3 DEF EventType
    <2>4. AppType'
      BY <2>1, <2>3 DEF TypeOK, AppType
    <2> QED BY <2>1, <2>2, <2>4, TypeFrame, Zenon DEF TypeOK, outVars, listVars
  \* A sender step that writes none of the shared fields.
  <1>CallFrame.
    ASSUME TypeOK, CallType',
           UNCHANGED <<connVars, inVars, snd_nxt, out_flags, listVars, rxVars, appVars>>
    PROVE  TypeOK'
    BY <1>CallFrame, TypeFrame DEF TypeOK, listVars
  \* A call returns.
  <1>ReturnType.
    ASSUME Return
    PROVE  CallType'
    BY <1>ReturnType, LocalTypes DEF Return, CallType, TxPoints
  \* lookup().
  <1>LookupType.
    ASSUME TypeOK, LookupGeneration \/ LookupFlags \/ LookupRecheck
    PROVE  TypeOK'
    <2> USE <1>LookupType
    <2>1. UNCHANGED <<connVars, inVars, snd_nxt, out_flags, listVars, rxVars, appVars>>
      BY DEF LookupGeneration, LookupFlags, LookupRecheck, outVars
    <2>2. LookupNull => CallType'
      BY <1>ReturnType DEF LookupNull, TypeOK, CallType, TxPoints
    <2>3. CASE LookupGeneration
      <3>1. CallType'
        BY <2>2, <2>3 DEF LookupGeneration, TypeOK, CallType, TxPoints
      <3> QED BY <2>1, <3>1, <1>CallFrame, Zenon
    <2>4. CASE LookupFlags
      <3>1. tx.conn.slot \in Slots
        BY DEF TypeOK, CallType, TxType, ConnIds
      <3>2. out_flags[tx.conn.slot] \subseteq OutFlags
        BY <3>1 DEF TypeOK, SharedType
      <3>3. CallType'
        BY <2>4, <3>2, Zenon DEF LookupFlags, TypeOK, CallType, TxPoints, TxType
      <3> QED BY <2>1, <3>3, <1>CallFrame
    <2>5. CASE LookupRecheck
      <3>1. CallType'
        BY <2>2, <2>5, Zenon DEF LookupRecheck, TypeOK, CallType, TxPoints
      <3> QED BY <2>1, <3>1, <1>CallFrame
    <2> QED BY <2>3, <2>4, <2>5
  \* Offsets into the bytes of a send() are natural numbers.
  <1>SegEndType.
    ASSUME TypeOK, NEW n \in Nat
    PROVE  SegEnd(n) \in Nat
    <2> USE <1>SegEndType
    <2>1. tx.done \in Nat /\ tx.limit \in Nat /\ tx.conn.slot \in Slots
      BY DEF TypeOK, CallType, TxType, ConnIds
    <2>2. tcb[tx.conn.slot].send_mss \in Nat
      BY <2>1, Zenon DEF TypeOK, ConnType, TcbType
    <2>3. n * tcb[tx.conn.slot].send_mss \in Nat
      BY <2>2
    <2> QED BY <2>1, <2>3 DEF SegEnd
  \* sendable(), send_space() and the steps of send() that only read.
  <1>SendReadType.
    ASSUME TypeOK, Sendable \/ SendLimit \/ SendLoadAck
    PROVE  TypeOK'
    <2> USE <1>SendReadType
    <2>1. UNCHANGED <<connVars, inVars, snd_nxt, out_flags, listVars, rxVars, appVars>>
      BY DEF Sendable, SendLimit, SendLoadAck, outVars
    <2>2. tx.conn.slot \in Slots /\ tx.bytes \in Nat
      BY DEF TypeOK, CallType, TxType, ConnIds
    <2>3. CASE Sendable
      <3>1. CallType'
        BY <2>3, <1>ReturnType, Zenon DEF Sendable, TypeOK, CallType, TxPoints, TxType
      <3> QED BY <2>1, <3>1, <1>CallFrame
    <2>4. CASE SendLimit
      <3> DEFINE space == window_space(send_window[tx.conn.slot], snd_nxt[tx.conn.slot])
                 limit == IF tx.bytes < space THEN tx.bytes ELSE space
      <3>1. space \in Nat /\ snd_nxt[tx.conn.slot] \in SeqNums
        BY <2>2, WindowSpaceType, Zenon DEF TypeOK, SharedType
      <3>2. limit \in Nat
        BY <2>2, <3>1
      <3> HIDE DEF limit
      <3>3. \/ Return
            \/ /\ tx' = [tx EXCEPT !.base = snd_nxt[tx.conn.slot], !.limit = limit]
               /\ tx_pc' = "rcv_nxt"
        BY <2>4 DEF SendLimit, limit
      <3>4. CallType'
        BY <3>1, <3>2, <3>3, <1>ReturnType, Zenon DEF TypeOK, CallType, TxPoints, TxType
      <3> QED BY <2>1, <3>4, <1>CallFrame
    <2>5. CASE SendLoadAck
      <3>1. rcv_nxt[tx.conn.slot] \in SeqNums
        BY <2>2 DEF TypeOK, SharedType
      <3>2. CallType'
        BY <2>5, <3>1 DEF SendLoadAck, TypeOK, CallType, TxPoints, TxType
      <3> QED BY <2>1, <3>2, <1>CallFrame
    <2> QED BY <2>3, <2>4, <2>5
  \* The steps of send() that build and transmit.
  <1>SendWriteType.
    ASSUME TypeOK, \/ \E n \in 0 .. MaxBurst : SendBuild(n)
                   \/ \E sent \in 0 .. MaxBurst : SendBurst(sent)
                   \/ SendPullBack
    PROVE  TypeOK'
    <2> USE <1>SendWriteType
    <2>1. UNCHANGED <<connVars, inVars, out_flags, listVars, rxVars, appVars>>
      BY Zenon DEF SendBuild, SendBurst, SendPullBack, outVars
    <2>2. tx.conn.slot \in Slots /\ tx.base \in Int /\ tx.done \in Int
      BY SeqNumInt DEF TypeOK, CallType, TxType, ConnIds
    <2>3. ASSUME NEW x \in Int, snd_nxt' = [snd_nxt EXCEPT ![tx.conn.slot] = SeqAdd(tx.base, x)]
          PROVE  SharedType'
      <3>1. SeqAdd(tx.base, x) \in SeqNums
        BY <2>2, SeqTypes
      <3> QED BY <2>1, <2>3, <3>1, Zenon DEF TypeOK, SharedType, inVars
    <2>4. ASSUME NEW n \in 0 .. MaxBurst, SendBuild(n)
          PROVE  TypeOK'
      <3>0. n \in Nat
        BY SizeAssumption
      <3>1. SegEnd(n) \in Nat
        BY <3>0, <1>SegEndType
      <3>a. SegEnd(n) \in Int
        BY <3>1
      <3>2. CASE Return /\ UNCHANGED snd_nxt
        BY <2>1, <3>2, <1>ReturnType, <1>CallFrame, Zenon
      <3>3. CASE /\ tx' = [tx EXCEPT !.n = n, !.off = SegEnd(n)]
                 /\ tx_pc' = "burst"
                 /\ snd_nxt' = [snd_nxt EXCEPT ![tx.conn.slot] = SeqAdd(tx.base, SegEnd(n))]
        <4>1. SharedType'
          BY <2>3, <3>a, <3>3, Zenon
        <4>2. CallType'
          BY <3>0, <3>1, <3>3, Zenon DEF TypeOK, CallType, TxPoints, TxType
        <4> QED BY <2>1, <4>1, <4>2, TypeFrame DEF TypeOK, listVars
      <3> QED BY <2>4, <3>2, <3>3, Zenon DEF SendBuild
    <2>5. ASSUME NEW sent \in 0 .. MaxBurst, SendBurst(sent)
          PROVE  TypeOK'
      <3>1. sent \in Nat /\ SegEnd(sent) \in Nat
        BY <1>SegEndType, SizeAssumption
      <3>2. UNCHANGED snd_nxt
        BY <2>5 DEF SendBurst
      <3>3. \/ tx_pc' = "pull_back" /\ tx' = [tx EXCEPT !.done = SegEnd(sent)]
            \/ tx_pc' = "build" /\ tx' = [tx EXCEPT !.done = tx.off]
            \/ Return
        BY <2>5 DEF SendBurst
      <3>4. CallType'
        BY <3>1, <3>3, <1>ReturnType, Zenon DEF TypeOK, CallType, TxPoints, TxType
      <3> QED BY <2>1, <3>2, <3>4, <1>CallFrame
    <2>6. CASE SendPullBack
      <3>1. SharedType' /\ CallType'
        BY <2>2, <2>3, <2>6, <1>ReturnType, Zenon DEF SendPullBack
      <3> QED BY <2>1, <3>1, TypeFrame, Zenon DEF TypeOK, listVars
    <2> QED BY <2>4, <2>5, <2>6
  \* close() up to its FIN.
  <1>CloseType.
    ASSUME TypeOK, CloseCheck \/ CloseCountFin \/ CloseFlagFin \/ CloseGiveUp
    PROVE  TypeOK'
    <2> USE <1>CloseType
    <2>1. UNCHANGED <<connVars, inVars, listVars, rxVars, appVars>>
      BY DEF CloseCheck, CloseCountFin, CloseFlagFin, CloseGiveUp
    <2>2. tx.conn.slot \in Slots
      BY DEF TypeOK, CallType, TxType, ConnIds
    <2>3. CASE CloseCheck \/ CloseGiveUp
      <3>1. CallType' /\ UNCHANGED <<snd_nxt, out_flags>>
        BY <2>3, Zenon DEF CloseCheck, CloseGiveUp, TypeOK, CallType, TxPoints, outVars
      <3> QED BY <2>1, <3>1, <1>CallFrame, Zenon
    <2>4. CASE CloseCountFin
      <3>1. snd_nxt[tx.conn.slot] \in SeqNums
        BY <2>2 DEF TypeOK, SharedType
      <3>2. SeqAdd(snd_nxt[tx.conn.slot], 1) \in SeqNums
        BY <3>1, SeqNextType
      <3>3. CallType'
        BY <2>4, <3>1, Zenon DEF CloseCountFin, TypeOK, CallType, TxPoints, TxType
      <3>4. SharedType'
        BY <2>1, <2>4, <3>2, Zenon DEF CloseCountFin, TypeOK, SharedType, inVars
      <3> QED BY <2>1, <3>3, <3>4, TypeFrame DEF TypeOK, listVars
    <2>5. CASE CloseFlagFin
      <3>1. CallType'
        BY <2>5, Zenon DEF CloseFlagFin, TypeOK, CallType, TxPoints
      <3>2. SharedType'
        BY <2>1, <2>2, <2>5 DEF CloseFlagFin, TypeOK, SharedType, inVars, OutFlags
      <3> QED BY <2>1, <3>1, <3>2, TypeFrame DEF TypeOK, listVars
    <2> QED BY <2>3, <2>4, <2>5
  \* The FIN and its retries.
  <1>CloseFinType.
    ASSUME TypeOK, CloseSendFin \/ (\E built \in BOOLEAN : CloseRetry(built))
    PROVE  TypeOK'
    <2> USE <1>CloseFinType
    <2>1. /\ UNCHANGED <<connVars, inVars, snd_nxt, out_flags, listVars, rxVars, appVars>>
          /\ tx_pc' \in {"fin", "release"}
      BY Zenon DEF CloseSendFin, CloseRetry, outVars
    <2>2. FinAck \in Seq(SeqNums)
      <3>1. tx.conn.slot \in Slots /\ tx.fin \in Seq(SeqNums)
        BY DEF TypeOK, CallType, TxType, ConnIds
      <3>2. rcv_nxt[tx.conn.slot] \in SeqNums
        BY <3>1 DEF TypeOK, SharedType
      <3> QED BY <3>1, <3>2 DEF FinAck
    <2>3. \/ tx' = [tx EXCEPT !.fin = FinAck]
          \/ tx' = [tx EXCEPT !.attempt = @ + 1, !.fin = FinAck]
          \/ tx' = [tx EXCEPT !.attempt = @ + 1, !.fin = tx.fin]
      BY Zenon DEF CloseSendFin, CloseRetry
    <2>4. tx' \in TxType
      <3>1. tx \in TxType /\ tx.attempt + 1 \in Nat
        BY DEF TypeOK, CallType, TxType
      <3>2. CASE tx' = [tx EXCEPT !.fin = FinAck]
        BY <2>2, <3>1, <3>2, Zenon DEF TxType
      <3>3. CASE tx' = [tx EXCEPT !.attempt = @ + 1, !.fin = FinAck]
        BY <2>2, <3>1, <3>3, Zenon DEF TxType
      <3>4. CASE tx' = [tx EXCEPT !.attempt = @ + 1, !.fin = tx.fin]
        BY <3>1, <3>4, Zenon DEF TxType
      <3> QED BY <2>3, <3>2, <3>3, <3>4, Zenon
    <2>5. CallType'
      BY <2>1, <2>4, Zenon DEF CallType, TxPoints
    <2> QED BY <2>1, <2>5, <1>CallFrame
  \* The end of close().
  <1>CloseReleaseType.
    ASSUME TypeOK, CloseRelease, tx.conn \in held
    PROVE  TypeOK'
    <2> USE <1>CloseReleaseType
    <2>1. /\ out_flags' = [out_flags EXCEPT ![tx.conn.slot] = @ \cup {"released"}]
          /\ closed_ids' = closed_ids \cup {tx.conn} /\ Return
          /\ UNCHANGED <<connVars, inVars, snd_nxt, listVars, rxVars, held>>
      BY DEF CloseRelease
    <2>2. SharedType'
      BY <2>1, Zenon DEF TypeOK, SharedType, inVars, OutFlags
    <2>3. AppType'
      BY <2>1 DEF TypeOK, AppType
    <2> QED BY <2>1, <2>2, <2>3, <1>ReturnType, TypeFrame, Zenon DEF TypeOK, listVars
  \* The application calls, or forgets an id.
  <1>ApplicationType.
    ASSUME TypeOK, Application
    PROVE  TypeOK'
    <2> USE <1>ApplicationType
    <2>1. PICK id \in held : \/ \E bytes \in 1 .. MaxSend : Call("send", id, bytes)
                             \/ Call("send_space", id, 0)
                             \/ Call("close", id, 0)
                             \/ Forget(id)
      BY DEF Application
    <2>2. id \in ConnIds
      BY DEF TypeOK, AppType
    <2>3. ASSUME NEW op \in {"send", "send_space", "close"}, NEW bytes \in Nat, Call(op, id, bytes)
          PROVE  TypeOK'
      <3>1. /\ tx_pc' = "generation"
            /\ tx' = [NoCall EXCEPT !.op = op, !.conn = id, !.bytes = bytes]
            /\ UNCHANGED <<connVars, inVars, snd_nxt, out_flags, listVars, rxVars, appVars>>
        BY <2>3 DEF Call, outVars
      <3>2. CallType'
        BY <2>2, <3>1, LocalTypes, Zenon DEF CallType, TxPoints, TxType
      <3> QED BY <3>1, <3>2, <1>CallFrame
    <2>4. CASE Forget(id)
      <3>1. /\ held' = held \ {id} /\ closed_ids' = closed_ids \ {id}
            /\ UNCHANGED <<connVars, inVars, outVars, listVars, rxVars, txVars>>
        BY <2>4 DEF Forget
      <3>2. AppType'
        BY <3>1 DEF TypeOK, AppType
      <3> QED BY <3>1, <3>2, TypeFrame, Zenon DEF TypeOK, listVars, outVars
    <2> QED BY <2>1, <2>3, <2>4, SizeAssumption
  <1> SUFFICES ASSUME TypeInv, Next PROVE TypeOK'
    OBVIOUS
  <1> USE DEF TypeInv
  <1>1. CASE Receive
    <2>1. CASE ReceiveArp
      BY <2>1, <1>ReceiveOtherType, Zenon DEF ReceiveArp
    <2>2. ASSUME NEW seg \in Segments, ReceiveUnknown(seg) PROVE TypeOK'
      BY <2>2, <1>ReceiveOtherType DEF ReceiveUnknown
    <2>3. ASSUME NEW seg \in Segments, ProcessSegment(seg) PROVE TypeOK'
      <3>1. CASE SegmentIgnored(seg)
        BY <3>1, <1>ReceiveOtherType, Zenon DEF SegmentIgnored, listVars
      <3>2. CASE HandshakePending(seg)
        BY <3>2, <1>ReceiveOtherType, Zenon DEF HandshakePending
      <3> QED BY <2>3, <3>1, <3>2, <1>HandshakeResetType, <1>HandshakeAckType, <1>SegmentResetType,
                 <1>SegmentNotAckType, <1>SegmentAckType DEF ProcessSegment
    <2>4. ASSUME NEW seg \in Segments, NEW iss \in Iss, Open(seg, iss) PROVE TypeOK'
      BY <2>4, <1>OpenType
    <2> QED BY <1>1, <2>1, <2>2, <2>3, <2>4 DEF Receive
  <1>2. CASE Inbound
    BY Zenon, <1>2, <1>PollStartType, <1>ReapReleasedType, <1>OpenStoreType, <1>OpenPublishType, <1>AckLoadType,
       <1>AckProcessedType, <1>DataNotDeliveredType, <1>DataDeliveredType, <1>FlushType, <1>FinalizeType,
       <1>PollReturnType DEF Inbound
  <1>3. CASE Outbound
    <2>1. CloseRelease => tx.conn \in held
      BY DEF CallHeld, CloseRelease
    <2> QED BY Zenon, <1>3, <2>1, <1>LookupType, <1>SendReadType, <1>SendWriteType, <1>CloseType, <1>CloseFinType,
               <1>CloseReleaseType DEF Outbound
  <1>4. CASE Application
    BY <1>4, <1>ApplicationType
  <1> QED BY <1>1, <1>2, <1>3, <1>4 DEF Next

\* A call keeps its id, and the application does not forget the id of a call in progress.
LEMMA NextCallHeld == TypeInv /\ Next => CallHeld'
  \* The inbound thread leaves the sender's locals alone.
  <1>InboundTx. ASSUME Receive \/ Inbound PROVE UNCHANGED txVars /\ held \subseteq held'
    <2> USE <1>InboundTx
    <2>1. CASE Receive
      <3>1. ASSUME NEW seg, ProcessSegment(seg) PROVE UNCHANGED <<txVars, appVars>>
        <4>1. SegmentIgnored(seg) \/ HandshakePending(seg) => UNCHANGED <<txVars, appVars>>
          BY Zenon DEF SegmentIgnored, HandshakePending
        <4>2. HandshakeReset(seg) \/ HandshakeAck(seg) => UNCHANGED <<txVars, appVars>>
          BY Zenon DEF HandshakeReset, HandshakeAck
        <4>3. SegmentReset(seg) \/ SegmentNotAck(seg) => UNCHANGED <<txVars, appVars>>
          BY Zenon DEF SegmentReset, SegmentNotAck
        <4>4. SegmentAck(seg) => UNCHANGED <<txVars, appVars>>
          BY DEF SegmentAck
        <4> QED BY <3>1, <4>1, <4>2, <4>3, <4>4 DEF ProcessSegment
      <3>2. ASSUME NEW seg, NEW iss, ReceiveArp \/ ReceiveUnknown(seg) \/ Open(seg, iss)
            PROVE  UNCHANGED <<txVars, appVars>>
        BY <3>2 DEF ReceiveArp, ReceiveUnknown, Open
      <3> QED BY <2>1, <3>1, <3>2 DEF Receive, appVars
    <2>2. CASE Inbound
      <3>1. PollStart \/ ReapReleased \/ ReapDone \/ OpenPublish => UNCHANGED <<txVars, appVars>>
        BY DEF PollStart, ReapReleased, ReapDone, OpenPublish
      <3>2. ASSUME NEW f, OpenStore(f) PROVE UNCHANGED <<txVars, appVars>>
        BY <3>2, Zenon DEF OpenStore
      <3>3. AckLoadFlags \/ AckBeyond \/ AckProcessed => UNCHANGED <<txVars, appVars>>
        BY DEF AckLoadFlags, AckBeyond, AckProcessed
      <3>4. DataNotDelivered \/ DataDelivered => UNCHANGED <<txVars, appVars>>
        BY Zenon DEF DataNotDelivered, DataDelivered
      <3>5. EndBurst \/ FlushAck \/ Finalize => UNCHANGED <<txVars, appVars>>
        BY Zenon DEF EndBurst, FlushAck, Finalize
      <3>6. ASSUME NEW sent, FlushControl(sent) PROVE UNCHANGED <<txVars, appVars>>
        BY <3>6 DEF FlushControl
      <3>7. PollReturn => UNCHANGED txVars /\ held \subseteq held'
        BY DEF PollReturn
      <3> QED BY <2>2, <3>1, <3>2, <3>3, <3>4, <3>5, <3>6, <3>7 DEF Inbound, appVars
    <2> QED BY <2>1, <2>2, Zenon
  <1> SUFFICES ASSUME TypeInv, Next PROVE CallHeld'
    OBVIOUS
  <1> USE DEF TypeInv, CallHeld
  <1>1. CASE Receive \/ Inbound
    BY <1>1, <1>InboundTx DEF txVars
  <1>3. CASE Outbound
    <2>1. tx_pc # "idle" /\ held' = held
      BY <1>3, Zenon DEF Outbound, LookupGeneration, LookupFlags, LookupRecheck, Sendable, SendLimit,
         SendLoadAck, SendBuild, SendBurst, SendPullBack, CloseCheck, CloseCountFin,
         CloseFlagFin, CloseSendFin, CloseRetry, CloseGiveUp, CloseRelease, appVars
    <2>2. tx_pc' = "idle" \/ tx'.conn = tx.conn
      <3>1. tx \in TxType
        BY DEF TypeOK, CallType
      <3> QED BY <1>3, <3>1, Zenon DEF TxType, Outbound, LookupGeneration, LookupFlags, LookupRecheck,
         LookupNull, Return, Sendable, SendLimit, SendLoadAck, SendBuild, SendBurst,
         SendPullBack, CloseCheck, CloseCountFin, CloseFlagFin, CloseSendFin, CloseRetry,
         CloseGiveUp, CloseRelease
    <2> QED BY <2>1, <2>2
  <1>4. CASE Application
    <2>1. ASSUME NEW id \in held, NEW op, NEW bytes, Call(op, id, bytes) PROVE CallHeld'
      BY <2>1 DEF Call, NoCall, appVars
    <2>2. ASSUME NEW id \in held, Forget(id) PROVE CallHeld'
      BY <2>2 DEF Forget, txVars
    <2> QED BY <1>4, <2>1, <2>2 DEF Application
  <1> QED BY <1>1, <1>3, <1>4 DEF Next

\* Every behaviour of the endpoint keeps TypeOK: slot indices, ids, generations and
\* sequence numbers stay in range whatever the interleaving of poll() with the sender.
THEOREM TypeCorrect == Spec => []TypeOK
  <1>1. TypeInv /\ [Next]_vars => TypeInv'
    <2>1. TypeInv /\ Next => TypeInv'
      BY NextType, NextCallHeld DEF TypeInv
    <2>2. TypeInv /\ UNCHANGED vars => TypeInv'
      <3> SUFFICES ASSUME TypeInv, UNCHANGED vars PROVE TypeInv'
        OBVIOUS
      <3>1. TypeOK'
        BY TypeFrame DEF TypeInv, TypeOK, vars, outVars, listVars
      <3> QED BY <3>1 DEF TypeInv, CallHeld, vars, txVars, appVars
    <2> QED BY <2>1, <2>2
  <1>2. TypeInv => TypeOK
    BY DEF TypeInv
  <1> QED BY InitType, <1>1, <1>2, PTL DEF Spec
=============================================================================
