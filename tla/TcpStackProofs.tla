--------------------------- MODULE TcpStackProofs ---------------------------
(***************************************************************************)
(* The safety of slot recycling in TcpStack, for any number of slots, keys *)
(* and segments: no slot is leaked or freed twice, and the outbound thread *)
(* never works on a slot that inbound has recycled.                        *)
(*                                                                         *)
(* Inv is inductive.  An inbound step is a Quiet step, or it recycles a    *)
(* slot nobody can hold (Recycles), or it is part of open(), or it is the  *)
(* return of poll(); the lemmas follow that classification.                *)
(*                                                                         *)
(* On top of it: no connection and no id has generation 0 (GenInv).        *)
(* And snd_nxt is never behind what the NIC has taken, and says            *)
(* exactly where that ends between the calls of a sender.  WireInv relates *)
(* the two at every point of send() and close().                           *)
(***************************************************************************)
EXTENDS TcpStackTypes

\* The obligations are small but many: the back ends get more time than by default.
USE SMTT(30), ZenonT(30)

Inv == /\ TypeOK
       /\ SlotsAccounted
       /\ IdsTrackSlots
       /\ SlotNotRecycled
       /\ StaleIdNeverResolves
       /\ NoNullDereference

-----------------------------------------------------------------------------
\* Accounting of slots

\* The lists and the states they must agree with.
acctVars == <<state, finalize_pending, free_slots, awaiting_release, finalize_list>>

\* A step that touches none of them.
LEMMA AccountedFrame ==
  ASSUME SlotsAccounted, UNCHANGED acctVars
  PROVE  SlotsAccounted'
  BY Zenon DEF SlotsAccounted, acctVars

-----------------------------------------------------------------------------
\* Ids and slots

\* The slot has a connection the application was, or will be, told of.
Live(s) == state[s] \notin {"free", "syn_received"}

IdInv == IdsTrackSlots /\ SlotNotRecycled /\ StaleIdNeverResolves /\ NoNullDereference

\* What open() publishes, and what outbound and the application have.
idVars == <<generation, out_flags, opening, txVars, appVars>>

\* The events after a step are those before it, or about live slots.
EventsGrow ==
  \A i \in DOMAIN events' :
    \/ i \in DOMAIN events /\ events'[i] = events[i]
    \/ \E s \in Slots : /\ events'[i].conn = [slot |-> s, generation |-> generation[s]]
                        /\ Live(s)'

\* A step that recycles nothing: connections only move between live states.
Quiet ==
  /\ UNCHANGED idVars /\ EventsGrow
  /\ \A s \in Slots : Live(s) => Live(s)'
  /\ rx_pc # "open" /\ rx_pc' # "open"
  /\ rx_pc' \in {"idle", "reap"} => events' = <<>>
  /\ rx_pc = "finalize" => rx_pc' = "finalize"

\* A step that recycles slot s: a handshake that was reset, or a released slot.
Recycles(s) ==
  /\ UNCHANGED <<idVars, events>>
  /\ state' = [state EXCEPT ![s] = "free"]
  /\ rx_pc # "open" /\ rx_pc' # "open"
  /\ rx_pc = "finalize" => rx_pc' = "finalize"
  /\ rx_pc' \in {"idle", "reap"} => rx_pc \in {"idle", "reap"}
  /\ \/ state[s] = "syn_received" /\ rx_pc # "finalize"
     \/ "released" \in out_flags[s] /\ rx_pc \in {"reap", "finalize"}

\* The slots that ids name.
LEMMA IdSlots ==
  ASSUME TypeOK
  PROVE  /\ tx.conn.slot \in Slots
         /\ \A id \in held : id.slot \in Slots
         /\ \A i \in DOMAIN events : events[i].conn \in ConnIds /\ events[i].conn.slot \in Slots
  <1>1. tx.conn.slot \in Slots
    BY DEF TypeOK, CallType, TxType, ConnIds
  <1>2. \A id \in held : id.slot \in Slots
    BY DEF TypeOK, AppType, ConnIds
  <1>3. ASSUME NEW i \in DOMAIN events
        PROVE  events[i].conn \in ConnIds /\ events[i].conn.slot \in Slots
    <2>1. events[i] \in EventType
      BY DEF TypeOK, PollType
    <2> QED BY <2>1 DEF EventType, ConnIds
  <1> QED BY <1>1, <1>2, <1>3

-----------------------------------------------------------------------------
\* open() and the return of poll()

-----------------------------------------------------------------------------
\* The other steps of poll() are Quiet or recycle a slot nobody holds

\* What an inbound step of either kind comes to.
InboundGood == SlotsAccounted' /\ (Quiet \/ \E s \in Slots : Recycles(s))

\* sync_out_flags of a synchronized connection.
LEMMA SyncLive ==
  ASSUME NEW s, sync_out_flags(s) \in Synchronized
  PROVE  state[s] \notin {"free", "syn_received", "closed"}
  BY DEF sync_out_flags, Synchronized

-----------------------------------------------------------------------------
\* The sender

\* What the sender's steps leave alone, but for the flags of its slot and its own locals.
senderFrame == <<state, finalize_pending, free_slots, awaiting_release, finalize_list,
                 generation, rx_pc, rx, events, opening, held>>

\* A step of a call in progress that keeps its id, its flags and the slot.
CallGoesOn ==
  /\ UNCHANGED <<senderFrame, closed_ids>>
  /\ \A s \in Slots : "released" \in out_flags'[s] <=> "released" \in out_flags[s]
  /\ tx_pc # "idle"
  /\ \/ /\ tx_pc' \notin {"idle", "recheck", "fault"}
        /\ tx'.conn = tx.conn
        /\ (Holding' => Holding)
     \/ Return

\* The outbound thread and the application write none of the receiver's state.
LEMMA SenderFrame ==
  ASSUME Outbound \/ Application
  PROVE  UNCHANGED <<connVars, listVars, rxVars>>
  <1>1. CASE Application
    BY <1>1, Zenon DEF Application, Call, Forget
  <1>2. CASE Outbound
    BY <1>2, Zenon DEF Outbound, LookupGeneration, LookupFlags, LookupRecheck, Sendable, SendLimit,
       SendLoadAck, SendBuild, SendBurst, SendPullBack, CloseCheck, CloseCountFin,
       CloseFlagFin, CloseSendFin, CloseRetry, CloseGiveUp, CloseRelease
  <1> QED BY <1>1, <1>2

-----------------------------------------------------------------------------
\* The theorems

\* At construction every slot is free and nobody holds an id.
LEMMA InitInv == Init => Inv
  <1> SUFFICES ASSUME Init PROVE Inv
    OBVIOUS
  <1>1. TypeOK
    BY InitType DEF TypeInv
  <1>2. SlotsAccounted
    <2> USE DEF Init, StackInit
    <2>1. /\ DOMAIN free_slots = 1 .. MaxConnections
          /\ \A i \in 1 .. MaxConnections : free_slots[i] = MaxConnections - i
      OBVIOUS
    <2>2. IsInjective(free_slots)
      BY <2>1, SizeAssumption DEF IsInjective
    <2>3. ASSUME NEW s \in Slots PROVE s \in Range(free_slots)
      <3>1. MaxConnections - s \in 1 .. MaxConnections
            /\ MaxConnections - (MaxConnections - s) = s
        BY SizeAssumption DEF Slots
      <3> QED BY <2>1, <3>1 DEF Range
    <2>4. /\ IsInjective(awaiting_release) /\ IsInjective(finalize_list)
          /\ Range(awaiting_release) = {} /\ Range(finalize_list) = {}
      BY DEF IsInjective, Range
    <2> QED BY <2>2, <2>3, <2>4 DEF SlotsAccounted
  <1>3. /\ tx_pc = "idle" /\ tx.pass = 1
        /\ rx_pc = "idle" /\ events = <<>> /\ held = {}
    BY DEF Init, StackInit, NoCall
  <1>4. IdsTrackSlots
    <2>1. HeldIdsReleased
      BY <1>3 DEF HeldIdsReleased
    <2>2. EventIdsCurrent
      BY <1>3 DEF EventIdsCurrent
    <2>3. OpenFresh /\ CallHoldsId
      BY <1>3 DEF OpenFresh, CallHoldsId
    <2> QED BY <2>1, <2>2, <2>3 DEF IdsTrackSlots
  <1>5. SlotNotRecycled /\ StaleIdNeverResolves /\ NoNullDereference
    BY <1>3 DEF SlotNotRecycled, StaleIdNeverResolves, NoNullDereference, Holding
  <1> QED BY <1>1, <1>2, <1>4, <1>5 DEF Inv

\* Every step of either thread keeps Inv.
LEMMA NextInv == Inv /\ Next => Inv'
  \* A connection moves between states other than free and closed.
  <1>AccountedMove.
    ASSUME TypeOK, SlotsAccounted, NEW s \in Slots, NEW st,
           state[s] \notin {"free", "closed"}, st \notin {"free", "closed"},
           state' = [state EXCEPT ![s] = st],
           UNCHANGED <<finalize_pending, free_slots, awaiting_release, finalize_list>>
    PROVE  SlotsAccounted'
    <2> USE <1>AccountedMove
    <2>1. \A t \in Slots : state'[t] = IF t = s THEN st ELSE state[t]
      BY DEF TypeOK, ConnType
    <2> QED BY <2>1 DEF SlotsAccounted
  \* terminate(): the connection is closed and queued for finalize(), once.
  <1>AccountedClose.
    ASSUME TypeOK, SlotsAccounted, NEW s \in Slots, state[s] \notin {"free", "closed"},
           state' = [state EXCEPT ![s] = "closed"], schedule_finalize(s),
           UNCHANGED <<free_slots, awaiting_release>>
    PROVE  SlotsAccounted'
    <2> USE <1>AccountedClose
    <2>1. \A t \in Slots : state'[t] = IF t = s THEN "closed" ELSE state[t]
      BY DEF TypeOK, ConnType
    <2>2. s \notin Range(finalize_list) /\ ~finalize_pending[s] /\ s \notin Range(awaiting_release)
      BY DEF SlotsAccounted
    <2>3. finalize_list' = Append(finalize_list, s) /\ finalize_list \in Seq(Slots)
      BY <2>2 DEF schedule_finalize, TypeOK, ListType
    <2>4. Range(finalize_list') = Range(finalize_list) \cup {s} /\ IsInjective(finalize_list')
      BY <2>2, <2>3, AppendList DEF SlotsAccounted
    <2>5. \A t \in Slots : finalize_pending'[t] = IF t = s THEN TRUE ELSE finalize_pending[t]
      BY DEF TypeOK, ConnType, schedule_finalize
    <2>6. ASSUME NEW t \in Slots
          PROVE  /\ (state'[t] = "free") <=> t \in Range(free_slots')
                 /\ (state'[t] = "closed")
                      <=> t \in Range(awaiting_release') \cup Range(finalize_list')
                 /\ finalize_pending'[t] <=> t \in Range(finalize_list')
                 /\ ~(t \in Range(awaiting_release') /\ t \in Range(finalize_list'))
      <3>1. CASE t = s
        <4>1. s \notin Range(free_slots)
          BY DEF SlotsAccounted
        <4>2. finalize_pending'[s]
          BY <2>5, Zenon
        <4> QED BY <2>1, <2>2, <2>4, <3>1, <4>1, <4>2
      <3>2. CASE t # s
        BY <2>1, <2>4, <2>5, <3>2, Zenon DEF SlotsAccounted
      <3> QED BY <3>1, <3>2
    <2> QED BY <2>4, <2>6 DEF SlotsAccounted
  \* open() takes the last free slot.
  <1>AccountedOpen.
    ASSUME TypeOK, SlotsAccounted, free_slots # <<>>, free_slots' = pop_back(free_slots),
           state' = [state EXCEPT ![back(free_slots)] = "syn_received"],
           finalize_pending' = [finalize_pending EXCEPT ![back(free_slots)] = FALSE],
           UNCHANGED <<awaiting_release, finalize_list>>
    PROVE  /\ SlotsAccounted'
           /\ back(free_slots) \in Slots /\ state[back(free_slots)] = "free"
    <2> USE <1>AccountedOpen
    <2> DEFINE s == back(free_slots)
    <2>1. free_slots \in Seq(Slots) /\ IsInjective(free_slots)
      BY DEF TypeOK, ListType, SlotsAccounted
    <2>2. /\ s \in Slots /\ s \in Range(free_slots)
          /\ IsInjective(free_slots') /\ Range(free_slots') = Range(free_slots) \ {s}
      BY <2>1, FrontList
    <2> HIDE DEF s
    <2>3. state[s] = "free"
      BY <2>2 DEF SlotsAccounted
    <2>4. \A t \in Slots : state'[t] = IF t = s THEN "syn_received" ELSE state[t]
      BY DEF TypeOK, ConnType, s
    <2>5. \A t \in Slots : finalize_pending'[t] = IF t = s THEN FALSE ELSE finalize_pending[t]
      BY DEF TypeOK, ConnType, s
    <2>6. SlotsAccounted'
      BY <2>2, <2>3, <2>4, <2>5 DEF SlotsAccounted
    <2> QED BY <2>2, <2>3, <2>6 DEF s
  \* release_slot() of a slot that leaves the two other lists, if it was on one.
  <1>AccountedRelease.
    ASSUME TypeOK, SlotsAccounted, NEW s \in Slots, state[s] # "free", release_slot(s),
           IsInjective(awaiting_release'), Range(awaiting_release') = Range(awaiting_release) \ {s},
           IsInjective(finalize_list'), Range(finalize_list') = Range(finalize_list) \ {s}
    PROVE  SlotsAccounted'
    <2> USE <1>AccountedRelease
    <2>1. \A t \in Slots : state'[t] = IF t = s THEN "free" ELSE state[t]
      BY DEF TypeOK, ConnType, release_slot
    <2>2. \A t \in Slots : finalize_pending'[t] = IF t = s THEN FALSE ELSE finalize_pending[t]
      BY DEF TypeOK, ConnType, release_slot
    <2>3. s \notin Range(free_slots)
      BY DEF SlotsAccounted
    <2>4. free_slots' = Append(free_slots, s) /\ free_slots \in Seq(Slots)
      BY DEF release_slot, TypeOK, ListType
    <2>5. Range(free_slots') = Range(free_slots) \cup {s} /\ IsInjective(free_slots')
      BY <2>3, <2>4, AppendList DEF SlotsAccounted
    <2> QED BY <2>1, <2>2, <2>3, <2>5, Zenon DEF SlotsAccounted
  \* finalize() of a slot that close() has not released yet.
  <1>AccountedAwait.
    ASSUME TypeOK, SlotsAccounted, finalize_list # <<>>, finalize_list' = Tail(finalize_list),
           awaiting_release' = Append(awaiting_release, Head(finalize_list)),
           finalize_pending' = [finalize_pending EXCEPT ![Head(finalize_list)] = FALSE],
           UNCHANGED <<state, free_slots>>
    PROVE  SlotsAccounted'
    <2> USE <1>AccountedAwait
    <2> DEFINE s == Head(finalize_list)
    <2>1. /\ finalize_list \in Seq(Slots) /\ IsInjective(finalize_list)
          /\ awaiting_release \in Seq(Slots) /\ IsInjective(awaiting_release)
      BY DEF TypeOK, ListType, SlotsAccounted
    <2>2. /\ s \in Slots /\ s \in Range(finalize_list)
          /\ IsInjective(finalize_list') /\ Range(finalize_list') = Range(finalize_list) \ {s}
      BY <2>1, TailList
    <2> HIDE DEF s
    <2>3. s \notin Range(awaiting_release)
      BY <2>2 DEF SlotsAccounted
    <2>4. /\ IsInjective(awaiting_release')
          /\ Range(awaiting_release') = Range(awaiting_release) \cup {s}
      BY <2>1, <2>2, <2>3, AppendList DEF s
    <2>5. \A t \in Slots : finalize_pending'[t] = IF t = s THEN FALSE ELSE finalize_pending[t]
      BY DEF TypeOK, ConnType, s
    <2> QED BY <2>2, <2>3, <2>4, <2>5, Zenon DEF SlotsAccounted
  \* The events a handler pushes are about its own, live slot.
  <1>EmitGrows.
    ASSUME TypeOK, NEW s \in Slots, NEW new \in Seq(EventType), NEW types, Emit(s, new, types),
           \A i \in DOMAIN new : new[i].conn = [slot |-> s, generation |-> generation[s]],
           Live(s)'
    PROVE  EventsGrow
    <2> USE <1>EmitGrows
    <2>1. events' = events \o new /\ events \in Seq(EventType)
      BY DEF Emit, TypeOK, PollType
    <2>2. ASSUME NEW i \in DOMAIN events'
          PROVE  \/ i \in DOMAIN events /\ events'[i] = events[i]
                 \/ \E j \in DOMAIN new : events'[i] = new[j]
      <3>1. CASE i <= Len(events)
        BY <2>1, <3>1
      <3>2. CASE i > Len(events)
        <4>1. i - Len(events) \in DOMAIN new /\ events'[i] = new[i - Len(events)]
          BY <2>1, <3>2
        <4> QED BY <4>1
      <3>3. i \in Nat /\ Len(events) \in Nat
        BY <2>1
      <3> QED BY <3>1, <3>2, <3>3
    <2> QED BY <2>2 DEF EventsGrow
  \* A Quiet step keeps ids and slots in agreement.
  <1>QuietIds.
    ASSUME TypeOK, IdInv, Quiet
    PROVE  IdInv'
    <2> USE <1>QuietIds
    <2> USE DEF IdInv, IdsTrackSlots
    <2>1. /\ UNCHANGED <<generation, out_flags, opening, tx_pc, tx, held, closed_ids>>
          /\ \A s \in Slots : Live(s) => Live(s)'
      BY DEF Quiet, idVars, txVars, appVars
    <2>2. HeldIdsReleased'
      <3> SUFFICES ASSUME NEW id \in held, generation[id.slot] = id.generation,
                          state'[id.slot] \in {"free", "syn_received"} \/ id \in closed_ids
                   PROVE  "released" \in out_flags[id.slot]
        BY <2>1 DEF HeldIdsReleased, Live
      <3>1. id.slot \in Slots
        BY IdSlots
      <3> QED BY <2>1, <3>1 DEF HeldIdsReleased, Live
    <2>3. EventIdsCurrent'
      <3>1. ASSUME NEW i \in DOMAIN events'
            PROVE  /\ generation[events'[i].conn.slot] = events'[i].conn.generation
                   /\ state'[events'[i].conn.slot] \in {"free", "syn_received"}
                        => rx_pc' = "finalize" /\ "released" \in out_flags[events'[i].conn.slot]
        <4>1. CASE i \in DOMAIN events /\ events'[i] = events[i]
          <5> DEFINE t == events[i].conn.slot
          <5>1. t \in Slots /\ generation[t] = events[i].conn.generation
            BY <4>1, IdSlots DEF EventIdsCurrent
          <5>2. ~Live(t) => rx_pc = "finalize" /\ "released" \in out_flags[t]
            BY <4>1 DEF EventIdsCurrent, Live
          <5>3. state'[t] \in {"free", "syn_received"}
                  => rx_pc' = "finalize" /\ "released" \in out_flags[t]
            BY <2>1, <5>1, <5>2 DEF Quiet, Live
          <5> QED BY <4>1, <5>1, <5>3
        <4>2. CASE \E s \in Slots : /\ events'[i].conn = [slot |-> s, generation |-> generation[s]]
                                    /\ Live(s)'
          <5>1. PICK s \in Slots : /\ events'[i].conn = [slot |-> s, generation |-> generation[s]]
                                   /\ Live(s)'
            BY <4>2
          <5>2. events'[i].conn.slot = s /\ events'[i].conn.generation = generation[s]
            BY <5>1
          <5> QED BY <5>1, <5>2 DEF Live
        <4> QED BY <4>1, <4>2 DEF Quiet, EventsGrow
      <3>2. rx_pc' \in {"idle", "reap"} => events' = <<>>
        BY DEF Quiet
      <3> QED BY <2>1, <3>1, <3>2, Zenon DEF EventIdsCurrent, Live
    <2>4. OpenFresh'
      BY DEF OpenFresh, Quiet
    <2>5. CallHoldsId'
      BY <2>1 DEF CallHoldsId
    <2>6. SlotNotRecycled'
      BY <2>1, IdSlots DEF SlotNotRecycled, Holding, Live
    <2>7. StaleIdNeverResolves' /\ NoNullDereference'
      BY <2>1 DEF StaleIdNeverResolves, NoNullDereference, Holding
    <2> QED BY <2>2, <2>3, <2>4, <2>5, <2>6, <2>7
  \* So does recycling a slot: the outbound thread cannot be holding it.
  <1>RecyclesIds.
    ASSUME TypeOK, IdInv, NEW s \in Slots, Recycles(s)
    PROVE  IdInv'
    <2> USE <1>RecyclesIds
    <2> USE DEF IdInv, IdsTrackSlots
    <2>1. /\ UNCHANGED <<generation, out_flags, opening, tx_pc, tx, held, closed_ids, events>>
          /\ \A t \in Slots : state'[t] = IF t = s THEN "free" ELSE state[t]
      BY DEF Recycles, idVars, txVars, appVars, TypeOK, ConnType
    <2>2. ~Live(s) \/ "released" \in out_flags[s]
      BY Zenon DEF Recycles, Live
    <2>3. HeldIdsReleased'
      <3> SUFFICES ASSUME NEW id \in held, generation[id.slot] = id.generation,
                          state'[id.slot] \in {"free", "syn_received"} \/ id \in closed_ids
                   PROVE  "released" \in out_flags[id.slot]
        BY <2>1 DEF HeldIdsReleased, Live
      <3>1. id.slot \in Slots
        BY IdSlots
      <3>2. ~Live(id.slot) => "released" \in out_flags[id.slot]
        BY DEF HeldIdsReleased, Live
      <3>3. id \in closed_ids => "released" \in out_flags[id.slot]
        BY DEF HeldIdsReleased
      <3> QED BY <2>1, <2>2, <3>1, <3>2, <3>3 DEF Live
    <2>4. EventIdsCurrent'
      <3>1. ASSUME NEW i \in DOMAIN events
            PROVE  /\ generation[events[i].conn.slot] = events[i].conn.generation
                   /\ state'[events[i].conn.slot] \in {"free", "syn_received"}
                        => rx_pc' = "finalize" /\ "released" \in out_flags[events[i].conn.slot]
        <4> DEFINE t == events[i].conn.slot
        <4>1. t \in Slots /\ generation[t] = events[i].conn.generation
          BY IdSlots DEF EventIdsCurrent
        <4>2. ~Live(t) => rx_pc = "finalize" /\ "released" \in out_flags[t]
          BY DEF EventIdsCurrent, Live
        <4>3. CASE t = s
          <5>1. rx_pc # "reap"
            <6>1. rx_pc = "reap" => events = <<>>
              BY Zenon DEF EventIdsCurrent
            <6> QED BY <6>1, SMT
          <5> QED BY <4>1, <4>2, <4>3, <5>1 DEF Recycles, Live
        <4>4. CASE t # s
          BY <2>1, <4>1, <4>2, <4>4, Zenon DEF Live, Recycles
        <4> QED BY <4>3, <4>4
      <3>2. rx_pc' \in {"idle", "reap"} => events' = <<>>
        BY <2>1 DEF Recycles, EventIdsCurrent
      <3> QED BY <2>1, <3>1, <3>2, Zenon DEF EventIdsCurrent, Live
    <2>5. OpenFresh'
      BY DEF OpenFresh, Recycles
    <2>6. CallHoldsId'
      BY <2>1 DEF CallHoldsId
    <2>7. SlotNotRecycled'
      BY <2>1, <2>2, IdSlots DEF SlotNotRecycled, Holding, Live
    <2>8. StaleIdNeverResolves' /\ NoNullDereference'
      BY <2>1 DEF StaleIdNeverResolves, NoNullDereference, Holding
    <2> QED BY <2>3, <2>4, <2>5, <2>6, <2>7, <2>8, Zenon
  \* Taking a free slot: whoever still holds an id of it has released it.
  <1>OpenInv.
    ASSUME Inv, NEW seg \in Segments, NEW iss \in Iss, Open(seg, iss)
    PROVE  SlotsAccounted' /\ IdInv'
    <2> USE <1>OpenInv
    <2> USE DEF Inv, IdInv, IdsTrackSlots
    <2> DEFINE s == back(free_slots)
    <2>1. /\ rx_pc = "process" /\ free_slots # <<>> /\ free_slots' = pop_back(free_slots)
          /\ [slot |-> s, generation |-> NextGeneration(generation[s])] \notin held
          /\ state' = [state EXCEPT ![s] = "syn_received"]
          /\ finalize_pending' = [finalize_pending EXCEPT ![s] = FALSE]
          /\ rx' = [rx EXCEPT !.idx = s] /\ opening' = OpenStores /\ rx_pc' = "open"
          /\ UNCHANGED <<generation, out_flags, awaiting_release, finalize_list,
                         events, tx_pc, tx, held, closed_ids>>
      BY DEF Open, Receiving, inVars, outVars, evVars, txVars, appVars
    <2>2. SlotsAccounted' /\ s \in Slots /\ state[s] = "free"
      BY <2>1, <1>AccountedOpen
    <2> HIDE DEF s
    <2>3. /\ \A t \in Slots : state'[t] = IF t = s THEN "syn_received" ELSE state[t]
          /\ \A t \in Slots : state'[t] \in {"free", "syn_received"}
                                <=> state[t] \in {"free", "syn_received"}
      BY <2>1, <2>2 DEF TypeOK, ConnType
    <2>4. HeldIdsReleased'
      BY <2>1, <2>3, IdSlots DEF HeldIdsReleased
    <2>5. EventIdsCurrent'
      BY <2>1, <2>3, IdSlots DEF EventIdsCurrent
    <2>6. OpenFresh'
      <3>1. rx'.idx = s /\ "generation" \in opening'
        BY <2>1 DEF TypeOK, PollType, RxType, OpenStores
      <3> QED BY <2>1, <2>2, <2>3, <3>1 DEF OpenFresh
    <2>7. CallHoldsId' /\ StaleIdNeverResolves' /\ NoNullDereference'
      BY <2>1 DEF CallHoldsId, StaleIdNeverResolves, NoNullDereference, Holding
    <2>8. SlotNotRecycled'
      BY <2>1, <2>3, IdSlots DEF SlotNotRecycled, Holding
    <2> QED BY <2>2, <2>4, <2>5, <2>6, <2>7, <2>8
  \* The relaxed stores of open(): nobody has an id of the new generation.
  <1>OpenStoreInv.
    ASSUME Inv, NEW f \in opening, OpenStore(f)
    PROVE  SlotsAccounted' /\ IdInv'
    <2> USE <1>OpenStoreInv
    <2> USE DEF Inv, IdInv, IdsTrackSlots
    <2> DEFINE s == rx.idx
               next == NextGeneration(generation[s])
    <2>1. /\ rx_pc = "open" /\ opening' = opening \ {f}
          /\ UNCHANGED <<state, finalize_pending, free_slots, awaiting_release, finalize_list,
                         out_flags, rx_pc, rx, events, tx_pc, tx, held, closed_ids>>
          /\ generation' = IF f = "generation" THEN [generation EXCEPT ![s] = next]
                                               ELSE generation
      BY Zenon DEF OpenStore, connVars, listVars, evVars, txVars, appVars
    <2>2. s \in Slots /\ state[s] = "syn_received"
      BY <2>1 DEF TypeOK, PollType, OpenFresh
    <2>3. \A t \in Slots : t # s \/ f # "generation" => generation'[t] = generation[t]
      BY <2>1, Zenon DEF TypeOK, SharedType
    <2>4. f = "generation" => generation'[s] = next /\ [slot |-> s, generation |-> next] \notin held
      BY <2>1, <2>2 DEF OpenFresh, TypeOK, SharedType
    <2> HIDE DEF next
    <2>5. SlotsAccounted'
      BY <2>1, AccountedFrame DEF acctVars
    <2>6. HeldIdsReleased'
      <3> SUFFICES ASSUME NEW id \in held, generation'[id.slot] = id.generation
                   PROVE  generation[id.slot] = id.generation
        BY <2>1 DEF HeldIdsReleased
      <3>1. id.slot \in Slots /\ id = [slot |-> id.slot, generation |-> id.generation]
        BY Zenon DEF TypeOK, AppType, ConnIds
      <3> QED BY <2>3, <2>4, <3>1, Zenon
    <2>7. EventIdsCurrent'
      <3>1. \A i \in DOMAIN events : events[i].conn.slot \in Slots /\ events[i].conn.slot # s
        BY <2>1, <2>2, IdSlots DEF EventIdsCurrent
      <3> QED BY <2>1, <2>3, <3>1 DEF EventIdsCurrent
    <2>8. OpenFresh'
      <3>1. CASE f = "generation"
        BY <2>1, <2>2, <2>4, <3>1 DEF OpenFresh
      <3>2. CASE f # "generation"
        BY <2>1, <2>2, <2>3, <3>2, Zenon DEF OpenFresh
      <3> QED BY <3>1, <3>2
    <2>9. CallHoldsId' /\ StaleIdNeverResolves' /\ NoNullDereference'
      BY <2>1, Zenon DEF CallHoldsId, StaleIdNeverResolves, NoNullDereference, Holding
    <2>10. SlotNotRecycled'
      BY <2>1, <2>2, <2>3, IdSlots DEF SlotNotRecycled, Holding
    <2> QED BY <2>5, <2>6, <2>7, <2>8, <2>9, <2>10, Zenon
  \* The release store of out_flags comes after the generation's: no held id is current.
  <1>OpenPublishInv.
    ASSUME Inv, OpenPublish
    PROVE  SlotsAccounted' /\ IdInv'
    <2> USE <1>OpenPublishInv
    <2> USE DEF Inv, IdInv, IdsTrackSlots
    <2> DEFINE s == rx.idx
    <2>1. /\ rx_pc = "open" /\ opening = {} /\ rx_pc' = "process"
          /\ out_flags' = [out_flags EXCEPT ![s] = {}]
          /\ UNCHANGED <<state, finalize_pending, generation, free_slots, awaiting_release,
                         finalize_list, events, tx_pc, tx, held, closed_ids>>
      BY DEF OpenPublish, NextPacket, connVars, inVars, txVars, appVars
    <2>2. /\ s \in Slots /\ state[s] = "syn_received"
          /\ [slot |-> s, generation |-> generation[s]] \notin held
      BY <2>1, Zenon DEF TypeOK, PollType, OpenFresh
    <2>3. \A t \in Slots : out_flags'[t] = IF t = s THEN {} ELSE out_flags[t]
      BY <2>1 DEF TypeOK, SharedType
    <2>4. SlotsAccounted'
      BY <2>1, AccountedFrame DEF acctVars
    <2>5. HeldIdsReleased'
      <3> SUFFICES ASSUME NEW id \in held, generation[id.slot] = id.generation
                   PROVE  out_flags'[id.slot] = out_flags[id.slot]
        BY <2>1 DEF HeldIdsReleased
      <3>1. id.slot \in Slots /\ id = [slot |-> id.slot, generation |-> id.generation]
        BY Zenon DEF TypeOK, AppType, ConnIds
      <3> QED BY <2>2, <2>3, <3>1
    <2>6. EventIdsCurrent'
      <3>1. \A i \in DOMAIN events : events[i].conn.slot \in Slots /\ events[i].conn.slot # s
        BY <2>1, <2>2, IdSlots, Zenon DEF EventIdsCurrent
      <3> QED BY <2>1, <2>3, <3>1, Zenon DEF EventIdsCurrent
    <2>7. OpenFresh'
      BY <2>1, Zenon DEF OpenFresh
    <2>8. CallHoldsId'
      BY <2>1, <2>3, IdSlots DEF CallHoldsId
    <2>9. StaleIdNeverResolves' /\ NoNullDereference'
      BY <2>1, Zenon DEF StaleIdNeverResolves, NoNullDereference, Holding
    <2>10. SlotNotRecycled'
      BY <2>1, <2>3, IdSlots DEF SlotNotRecycled, Holding
    <2> QED BY <2>4, <2>5, <2>6, <2>7, <2>8, <2>9, <2>10
  \* The ids poll() returns are those of slots accepted during it.
  <1>PollReturnInv.
    ASSUME Inv, PollReturn
    PROVE  SlotsAccounted' /\ IdInv'
    <2> USE <1>PollReturnInv
    <2> USE DEF Inv, IdInv, IdsTrackSlots
    <2>1. /\ rx_pc = "finalize" /\ rx_pc' = "idle" /\ events' = <<>>
          /\ held' = held \cup {e.conn : e \in {f \in Range(events) : f.type = "accepted"}}
          /\ UNCHANGED <<state, finalize_pending, free_slots, awaiting_release, finalize_list,
                         generation, out_flags, tx_pc, tx, closed_ids>>
      BY DEF PollReturn, connVars, inVars, outVars, listVars, txVars
    <2>2. SlotsAccounted'
      BY <2>1, AccountedFrame DEF acctVars
    <2>3. HeldIdsReleased'
      <3> SUFFICES ASSUME NEW id \in held', generation[id.slot] = id.generation,
                          state[id.slot] \in {"free", "syn_received"} \/ id \in closed_ids
                   PROVE  "released" \in out_flags[id.slot]
        BY <2>1 DEF HeldIdsReleased
      <3>1. CASE id \in held
        BY <3>1 DEF HeldIdsReleased
      <3>2. CASE id \notin held
        <4>1. PICK e \in Range(events) : id = e.conn
          BY <2>1, <3>2
        <4>2. PICK i \in DOMAIN events : e = events[i]
          BY DEF Range
        <4>3. id \notin closed_ids
          BY <3>2, Zenon DEF TypeOK, AppType
        <4> QED BY <4>1, <4>2, <4>3, Zenon DEF EventIdsCurrent
      <3> QED BY <3>1, <3>2, Zenon
    <2>4. EventIdsCurrent' /\ OpenFresh'
      BY <2>1 DEF EventIdsCurrent, OpenFresh
    <2>5. CallHoldsId' /\ StaleIdNeverResolves' /\ NoNullDereference' /\ SlotNotRecycled'
      BY <2>1, Zenon DEF CallHoldsId, StaleIdNeverResolves, NoNullDereference, SlotNotRecycled, Holding
    <2> QED BY <2>2, <2>3, <2>4, <2>5, Zenon
  \* The events stay as they are.
  <1>EventsSame. ASSUME UNCHANGED events PROVE EventsGrow
    BY <1>EventsSame DEF EventsGrow
  \* A step that changes no connection's state and pushes no event.
  <1>StillGood.
    ASSUME Inv, UNCHANGED <<acctVars, idVars, events>>, rx_pc # "open", rx_pc' # "open",
           rx_pc' \in {"idle", "reap"} => rx_pc \in {"idle", "reap"},
           rx_pc = "finalize" => rx_pc' = "finalize"
    PROVE  InboundGood
    <2> USE <1>StillGood
    <2>1. SlotsAccounted'
      BY AccountedFrame, Zenon DEF Inv
    <2>2. Quiet
      BY <1>EventsSame DEF Quiet, Live, acctVars, Inv, IdsTrackSlots, EventIdsCurrent
    <2> QED BY <2>1, <2>2 DEF InboundGood
  \* Control segments, the ACK list and the program points.
  <1>PlainGood.
    ASSUME Inv, \/ PollStart \/ ReapDone \/ ReceiveArp \/ EndBurst \/ FlushAck
                \/ AckLoadFlags \/ AckBeyond \/ DataNotDelivered
                \/ \E sent \in 0 .. Len(control) : FlushControl(sent)
    PROVE  InboundGood
    <2> USE <1>PlainGood
    <2> USE DEF acctVars, idVars, connVars, inVars, outVars, listVars, evVars, txVars, appVars
    <2>1. CASE PollStart \/ ReapDone \/ EndBurst \/ AckLoadFlags
      BY <2>1, <1>StillGood, Zenon DEF PollStart, ReapDone, EndBurst, AckLoadFlags
    <2>2. CASE ReceiveArp \/ AckBeyond \/ DataNotDelivered
      BY <2>2, <1>StillGood, Zenon DEF ReceiveArp, AckBeyond, DataNotDelivered, NextPacket, Receiving
    <2>3. CASE FlushAck \/ \E sent \in 0 .. Len(control) : FlushControl(sent)
      BY <2>3, <1>StillGood, Zenon DEF FlushAck, FlushControl, rxVars
    <2> QED BY <2>1, <2>2, <2>3, Zenon
  \* Segments that match no connection, or change nothing of the one they match.
  <1>PlainSegmentGood.
    ASSUME Inv, NEW seg \in Segments,
           ReceiveUnknown(seg) \/ SegmentIgnored(seg) \/ HandshakePending(seg)
    PROVE  InboundGood
    BY <1>PlainSegmentGood, <1>StillGood DEF ReceiveUnknown, SegmentIgnored, HandshakePending, NextPacket, Matches,
       Receiving, acctVars, idVars, connVars, inVars, outVars, listVars, evVars, txVars, appVars
  \* reap_released: only a slot that close() has released is recycled.
  <1>ReapGood.
    ASSUME Inv, ReapReleased
    PROVE  InboundGood
    <2> USE <1>ReapGood
    <2> DEFINE s == awaiting_release[rx.i]
               r == pop_back([awaiting_release EXCEPT ![rx.i] = back(awaiting_release)])
    <2>1. /\ rx_pc = "reap" /\ rx.i <= Len(awaiting_release)
          /\ UNCHANGED <<finalize_list, rx_pc, events, idVars>>
      BY DEF ReapReleased, inVars, outVars, evVars, idVars
    <2>2. /\ rx.i \in 1 .. Len(awaiting_release) /\ awaiting_release \in Seq(Slots)
          /\ IsInjective(awaiting_release)
      <3>1. rx \in RxType /\ awaiting_release \in Seq(Slots) /\ IsInjective(awaiting_release)
        BY Zenon DEF Inv, TypeOK, PollType, ListType, SlotsAccounted
      <3>2. rx.i \in Nat \ {0}
        BY <3>1, Zenon DEF RxType
      <3>3. rx.i <= Len(awaiting_release)
        BY <2>1, Zenon
      <3>4. Len(awaiting_release) \in Nat
        BY <3>1
      <3>5. rx.i \in 1 .. Len(awaiting_release)
        BY <3>2, <3>3, <3>4
      <3> QED BY <3>1, <3>5, Zenon
    <2>3. CASE "released" \in out_flags[s] /\ release_slot(s) /\ awaiting_release' = r
      <3>1. /\ IsInjective(r) /\ Range(r) = Range(awaiting_release) \ {s}
            /\ s \in Slots /\ s \in Range(awaiting_release)
        BY <2>2, RemoveList, Zenon
      <3> HIDE DEF r, s
      <3>2. state[s] = "closed" /\ s \notin Range(finalize_list)
        BY <3>1, Zenon DEF Inv, SlotsAccounted
      <3>3. IsInjective(finalize_list') /\ Range(finalize_list') = Range(finalize_list) \ {s}
        BY <2>1, <3>2, Zenon DEF Inv, SlotsAccounted
      <3>4. SlotsAccounted'
        BY <2>3, <3>1, <3>2, <3>3, <1>AccountedRelease, Zenon DEF Inv
      <3>5. Recycles(s)
        BY <2>1, <2>3, Zenon DEF Recycles, release_slot
      <3> QED BY <3>1, <3>4, <3>5 DEF InboundGood
    <2>4. CASE UNCHANGED <<state, ack_pending, finalize_pending, free_slots, awaiting_release>>
      BY <2>1, <2>4, <1>StillGood, Zenon DEF acctVars
    <2> QED BY <2>3, <2>4 DEF ReapReleased
  \* A reset of a handshake: the slot was never accepted, so nobody has an id of it.
  <1>HandshakeResetGood.
    ASSUME Inv, NEW seg \in Segments, HandshakeReset(seg)
    PROVE  InboundGood
    <2> USE <1>HandshakeResetGood
    <2> DEFINE s == flows[seg.key]
    <2>1. /\ Matches(seg) /\ rx_pc = "process" /\ rx_pc' = "process"
          /\ sync_out_flags(s) = "syn_received"
          /\ UNCHANGED <<awaiting_release, finalize_list, events, idVars>>
      BY DEF HandshakeReset, NextPacket, Matches, Receiving, inVars, outVars, evVars, idVars
    <2>2. s \in Slots
      BY <2>1, FlowSlot, Zenon DEF Inv
    <2>3. state[s] = "syn_received"
      BY <2>1 DEF sync_out_flags
    <2>4. CASE release_slot(s)
      <3>1. s \notin Range(awaiting_release) /\ s \notin Range(finalize_list)
        BY <2>2, <2>3, Zenon DEF Inv, SlotsAccounted
      <3>2. SlotsAccounted'
        <4>1. /\ IsInjective(awaiting_release')
              /\ Range(awaiting_release') = Range(awaiting_release) \ {s}
              /\ IsInjective(finalize_list') /\ Range(finalize_list') = Range(finalize_list) \ {s}
          BY <2>1, <3>1, Zenon DEF Inv, SlotsAccounted
        <4> QED BY <2>2, <2>3, <2>4, <4>1, <1>AccountedRelease, Zenon DEF Inv
      <3>3. Recycles(s)
        BY <2>1, <2>3, <2>4, Zenon DEF Recycles, release_slot
      <3> QED BY <2>2, <3>2, <3>3, Zenon DEF InboundGood
    <2>5. CASE UNCHANGED <<flows, state, ack_pending, finalize_pending, free_slots>>
      BY <2>1, <2>5, <1>StillGood DEF acctVars
    <2> QED BY <2>4, <2>5, Zenon DEF HandshakeReset
  \* finalize: a slot is recycled, or waits for close().
  <1>FinalizeGood.
    ASSUME Inv, Finalize
    PROVE  InboundGood
    <2> USE <1>FinalizeGood
    <2> DEFINE s == Head(finalize_list)
    <2>1. /\ rx_pc = "finalize" /\ finalize_list # <<>> /\ finalize_list' = Tail(finalize_list)
          /\ UNCHANGED <<rx_pc, events, idVars>>
      BY Zenon DEF Finalize, inVars, outVars, rxVars, evVars, idVars
    <2>2. finalize_list \in Seq(Slots) /\ IsInjective(finalize_list)
      BY DEF Inv, TypeOK, ListType, SlotsAccounted
    <2>3. /\ s \in Slots /\ s \in Range(finalize_list)
          /\ IsInjective(finalize_list') /\ Range(finalize_list') = Range(finalize_list) \ {s}
      BY <2>1, <2>2, TailList
    <2>4. CASE /\ "released" \in out_flags[s] /\ release_slot(s)
               /\ UNCHANGED awaiting_release
      <3> HIDE DEF s
      <3>1. state[s] = "closed" /\ s \notin Range(awaiting_release)
        BY <2>3, Zenon DEF Inv, SlotsAccounted
      <3>2. /\ IsInjective(awaiting_release')
            /\ Range(awaiting_release') = Range(awaiting_release) \ {s}
        BY <2>4, <3>1, Zenon DEF Inv, SlotsAccounted
      <3>3. SlotsAccounted'
        BY <2>3, <2>4, <3>1, <3>2, <1>AccountedRelease DEF Inv
      <3>4. Recycles(s)
        BY <2>1, <2>4 DEF Recycles, release_slot
      <3> QED BY <2>3, <3>3, <3>4, Zenon DEF InboundGood
    <2>5. CASE /\ awaiting_release' = Append(awaiting_release, s)
               /\ finalize_pending' = [finalize_pending EXCEPT ![s] = FALSE]
               /\ UNCHANGED <<state, ack_pending, free_slots>>
      <3>1. SlotsAccounted'
        BY <2>1, <2>5, <1>AccountedAwait DEF Inv
      <3>2. Quiet
        BY <2>1, <2>5, <1>EventsSame DEF Quiet, Live
      <3> QED BY <3>1, <3>2 DEF InboundGood
    <2> QED BY <2>4, <2>5, Zenon DEF Finalize
  \* A connection moves to another live state, or stays.
  <1>MoveGood.
    ASSUME Inv, NEW s \in Slots, NEW st, state[s] \notin {"free", "closed"},
           st \notin {"free", "syn_received", "closed"}, state' = [state EXCEPT ![s] = st],
           UNCHANGED <<finalize_pending, free_slots, awaiting_release, finalize_list, idVars>>,
           EventsGrow, rx_pc \in {"process", "ack", "data"}, rx_pc' \in {"process", "flags", "data"}
    PROVE  InboundGood
    <2> USE <1>MoveGood
    <2>1. SlotsAccounted'
      BY <1>AccountedMove, Zenon DEF Inv
    <2>2. \A t \in Slots : Live(t) => Live(t)'
      BY DEF Live, Inv, TypeOK, ConnType
    <2>3. Quiet
      BY <2>2 DEF Quiet
    <2> QED BY <2>1, <2>3 DEF InboundGood
  \* A connection ends.
  <1>CloseGood.
    ASSUME Inv, NEW s \in Slots, state[s] \notin {"free", "closed"},
           state' = [state EXCEPT ![s] = "closed"], schedule_finalize(s),
           UNCHANGED <<free_slots, awaiting_release, idVars>>,
           EventsGrow, rx_pc \in {"process", "ack", "data"}, rx_pc' = "process"
    PROVE  InboundGood
    <2> USE <1>CloseGood
    <2>1. SlotsAccounted'
      BY <1>AccountedClose, Zenon DEF Inv
    <2>2. \A t \in Slots : Live(t) => Live(t)'
      BY DEF Live, Inv, TypeOK, ConnType
    <2>3. Quiet
      BY <2>2 DEF Quiet
    <2> QED BY <2>1, <2>3 DEF InboundGood
  \* One event, about the handler's slot.
  <1>EmitOneGrows.
    ASSUME Inv, NEW s \in Slots, Live(s)', NEW types,
           NEW type \in {"accepted", "data", "peer_closed", "closed", "reset"},
           Emit(s, <<make_event(type, s, 0, 0)>>, types)
    PROVE  EventsGrow
    <2> USE <1>EmitOneGrows
    <2> DEFINE e == make_event(type, s, 0, 0)
    <2>1. e \in EventType
      BY EventTypeOK, SeqNumsInt DEF Inv
    <2>2. e.conn = [slot |-> s, generation |-> generation[s]]
      BY DEF make_event
    <2> HIDE DEF e
    <2>3. <<e>> \in Seq(EventType) /\ \A i \in DOMAIN <<e>> : <<e>>[i] = e
      BY <2>1
    <2>4. Emit(s, <<e>>, types)
      BY DEF e
    <2> QED BY <2>2, <2>3, <2>4, <1>EmitGrows, Zenon DEF Inv
  \* The handshake completes.
  <1>HandshakeAckGood.
    ASSUME Inv, NEW seg \in Segments, HandshakeAck(seg)
    PROVE  InboundGood
    <2> USE <1>HandshakeAckGood
    <2> DEFINE s == flows[seg.key]
    <2>1. /\ Matches(seg) /\ sync_out_flags(s) = "syn_received"
          /\ rx_pc = "process" /\ rx_pc' = "data"
          /\ state' = [state EXCEPT ![s] = "established"]
          /\ Emit(s, <<make_event("accepted", s, 0, 0)>>, <<"accepted">>)
          /\ UNCHANGED <<finalize_pending, free_slots, awaiting_release, finalize_list, idVars>>
      BY Zenon DEF HandshakeAck, Matches, Receiving, outVars, listVars, idVars
    <2>2. s \in Slots /\ state[s] = "syn_received"
      BY <2>1, FlowSlot DEF Inv, sync_out_flags
    <2> HIDE DEF s
    <2>3. state'[s] = "established"
      BY <2>1, <2>2 DEF Inv, TypeOK, ConnType
    <2>4. EventsGrow
      <3>1. \A t \in Slots : state'[t] = "established" => Live(t)'
        BY DEF Live
      <3>2. PICK t \in Slots : t = s
        BY <2>2
      <3>3. Live(t)' /\ Emit(t, <<make_event("accepted", t, 0, 0)>>, <<"accepted">>)
        BY <2>1, <2>3, <3>1, <3>2
      <3> QED BY <3>3, <1>EmitOneGrows, Zenon
    <2> QED BY <2>1, <2>2, <2>4, <1>MoveGood, Zenon
  \* A reset of an accepted connection.
  <1>SegmentResetGood.
    ASSUME Inv, NEW seg \in Segments, SegmentReset(seg)
    PROVE  InboundGood
    <2> USE <1>SegmentResetGood
    <2>1. PICK s \in Slots : s = flows[seg.key]
      BY FlowSlot, Zenon DEF SegmentReset, Inv
    <2>2. /\ sync_out_flags(s) \in Synchronized /\ rx_pc = "process" /\ rx_pc' = "process"
          /\ UNCHANGED <<free_slots, awaiting_release, idVars>>
      BY <2>1 DEF SegmentReset, NextPacket, Matches, Receiving, outVars, idVars
    <2>3. state[s] \notin {"free", "syn_received", "closed"}
      BY <2>2, SyncLive
    <2>4. CASE /\ state' = [state EXCEPT ![s] = "closed"] /\ schedule_finalize(s)
               /\ Emit(s, <<make_event("reset", s, 0, 0)>>, <<"reset">>)
      <3>1. Live(s)'
        BY <2>4 DEF Live, Inv, TypeOK, ConnType
      <3>2. EventsGrow
        BY <2>4, <3>1, <1>EmitOneGrows, Zenon
      <3> QED BY <2>2, <2>3, <2>4, <3>2, <1>CloseGood, Zenon
    <2>5. CASE /\ state' = [state EXCEPT ![s] = sync_out_flags(s)]
               /\ UNCHANGED <<evVars, finalize_pending, finalize_list>>
      <3>1. EventsGrow
        BY <2>5, <1>EventsSame DEF evVars
      <3> QED BY <2>2, <2>3, <2>5, <3>1, <1>MoveGood, Zenon DEF Synchronized
    <2> QED BY <2>1, <2>4, <2>5, Zenon DEF SegmentReset
  \* The other segments of an accepted connection.
  <1>SegmentGood.
    ASSUME Inv, NEW seg \in Segments, SegmentNotAck(seg) \/ SegmentAck(seg)
    PROVE  InboundGood
    <2> USE <1>SegmentGood
    <2>1. PICK s \in Slots : s = flows[seg.key]
      BY FlowSlot DEF SegmentNotAck, SegmentAck, Inv
    <2>2. /\ sync_out_flags(s) \in Synchronized
          /\ rx_pc = "process" /\ rx_pc' \in {"process", "flags"}
          /\ state' = [state EXCEPT ![s] = sync_out_flags(s)]
          /\ UNCHANGED <<finalize_pending, free_slots, awaiting_release, finalize_list, events,
                         idVars>>
      BY <2>1 DEF SegmentNotAck, SegmentAck, NextPacket, Matches, Receiving, inVars, outVars,
         listVars, evVars, idVars
    <2>3. state[s] \notin {"free", "syn_received", "closed"}
      BY <2>2, SyncLive
    <2>4. EventsGrow
      BY <2>2, <1>EventsSame
    <2> QED BY <2>2, <2>3, <2>4, <1>MoveGood, Zenon DEF Synchronized
  \* process_ack.
  <1>AckProcessedGood.
    ASSUME Inv, AckProcessed
    PROVE  InboundGood
    <2> USE <1>AckProcessedGood
    <2>1. PICK s \in Slots : s = rx.idx
      BY Zenon DEF AckProcessed, Inv, TypeOK, PollType
    <2>2. rx_pc = "ack" /\ UNCHANGED <<free_slots, awaiting_release, idVars>>
      BY Zenon DEF AckProcessed, outVars, idVars
    <2>3. CASE /\ state[s] \in {"closing", "last_ack"}
               /\ state' = [state EXCEPT ![s] = "closed"] /\ schedule_finalize(s)
               /\ Emit(s, <<make_event("closed", s, 0, 0)>>, <<"closed">>)
               /\ NextPacket
      <3>1. Live(s)'
        BY <2>3 DEF Live, Inv, TypeOK, ConnType
      <3>2. EventsGrow
        BY <2>3, <3>1, <1>EmitOneGrows, Zenon
      <3> QED BY <2>2, <2>3, <3>2, <1>CloseGood, Zenon DEF NextPacket
    <2>4. CASE /\ state' = IF FinAcked(rx.seg) /\ state[s] = "fin_wait_1"
                           THEN [state EXCEPT ![s] = "fin_wait_2"] ELSE state
               /\ rx_pc' = "data"
               /\ UNCHANGED <<evVars, finalize_pending, finalize_list>>
      <3>1. EventsGrow
        BY <2>4, <1>EventsSame DEF evVars
      <3>2. CASE state' = state
        BY <2>2, <2>4, <3>2, <1>StillGood DEF acctVars, evVars
      <3>3. CASE state[s] = "fin_wait_1" /\ state' = [state EXCEPT ![s] = "fin_wait_2"]
        BY <2>2, <2>4, <3>1, <3>3, <1>MoveGood, Zenon
      <3> QED BY <2>4, <3>2, <3>3
    <2> QED BY <2>1, <2>3, <2>4, Zenon DEF AckProcessed
  \* process_data.
  <1>DataDeliveredGood.
    ASSUME Inv, DataDelivered
    PROVE  InboundGood
    <2> USE <1>DataDeliveredGood
    <2>1. PICK s \in Slots : s = rx.idx
      BY DataTypes DEF Inv
    <2> DEFINE old == tcb[s].rcv_nxt_local
               end == SeqAdd(rx.seg.seq, rx.seg.len)
               fin == has(rx.seg, "FIN") /\ end = (IF seq_gt(end, old) THEN end ELSE old)
               st == CASE fin /\ state[s] = "established" -> "close_wait"
                       [] fin /\ state[s] = "fin_wait_1" -> "closing"
                       [] fin /\ state[s] = "fin_wait_2" -> "closed"
                       [] OTHER -> state[s]
    <2>2. /\ rx_pc = "data" /\ rx_pc' = "process"
          /\ state[s] \in {"established", "fin_wait_1", "fin_wait_2"}
          /\ state' = [state EXCEPT ![s] = st]
          /\ IF fin /\ state[s] = "fin_wait_2" THEN schedule_finalize(s)
             ELSE UNCHANGED <<finalize_pending, finalize_list>>
          /\ UNCHANGED <<free_slots, awaiting_release, idVars>>
      BY <2>1, Zenon DEF DataDelivered, CanReceive, NextPacket, outVars, idVars
    <2> HIDE DEF fin
    <2>3. st \notin {"free", "syn_received"} /\ (st = "closed" <=> fin /\ state[s] = "fin_wait_2")
      BY <2>2, Zenon
    <2> HIDE DEF st
    <2>4. EventsGrow
      <3>1. Live(s)'
        BY <2>2, <2>3, Zenon DEF Live, Inv, TypeOK, ConnType
      <3>2. PICK new \in Seq(EventType), types \in {<<"peer_closed">>, <<"closed">>, <<>>} :
              /\ Emit(s, new, types)
              /\ \A i \in DOMAIN new : new[i].conn = [slot |-> s, generation |-> generation[s]]
        BY <2>1, DataEvents DEF Inv
      <3> QED BY <3>1, <3>2, <1>EmitGrows DEF Inv
    <2>5. CASE fin /\ state[s] = "fin_wait_2"
      BY <2>2, <2>3, <2>4, <2>5, <1>CloseGood, Zenon
    <2>6. CASE ~(fin /\ state[s] = "fin_wait_2")
      BY <2>2, <2>3, <2>4, <2>6, <1>MoveGood, Zenon
    <2> QED BY <2>5, <2>6, Zenon
  \* A call that has returned holds no slot.
  <1>ReturnedIds.
    ASSUME Return
    PROVE  CallHoldsId' /\ SlotNotRecycled' /\ StaleIdNeverResolves' /\ NoNullDereference'
    <2> USE <1>ReturnedIds
    <2>1. tx_pc' = "idle" /\ tx'.pass = 1
      BY DEF Return, NoCall
    <2>2. ~Holding'
      BY <2>1 DEF Holding
    <2>3. CallHoldsId'
      BY <2>1 DEF CallHoldsId
    <2> QED BY <2>1, <2>2, <2>3, Zenon DEF SlotNotRecycled, StaleIdNeverResolves, NoNullDereference
  \* Such a step keeps ids and slots in agreement.
  <1>CallGoesOnIds.
    ASSUME TypeOK, IdInv, CallGoesOn
    PROVE  IdInv'
    <2> USE <1>CallGoesOnIds
    <2> USE DEF IdInv, IdsTrackSlots
    <2>1. /\ UNCHANGED <<senderFrame, closed_ids>>
          /\ \A s \in Slots : "released" \in out_flags'[s] <=> "released" \in out_flags[s]
          /\ tx_pc # "idle"
      BY DEF CallGoesOn
    <2>2. HeldIdsReleased'
      BY <2>1, IdSlots, Zenon DEF HeldIdsReleased, senderFrame
    <2>3. EventIdsCurrent'
      BY <2>1, IdSlots, Zenon DEF EventIdsCurrent, senderFrame
    <2>4. OpenFresh'
      BY <2>1, Zenon DEF OpenFresh, senderFrame
    <2>5. CASE Return
      BY <2>2, <2>3, <2>4, <2>5, <1>ReturnedIds
    <2>6. CASE /\ tx_pc' \notin {"idle", "recheck", "fault"}
               /\ tx'.conn = tx.conn
               /\ (Holding' => Holding)
      <3>1. CallHoldsId' /\ NoNullDereference'
        BY <2>1, <2>6, Zenon DEF CallHoldsId, NoNullDereference, senderFrame
      <3>2. SlotNotRecycled'
        BY <2>1, <2>6, IdSlots, Zenon DEF SlotNotRecycled, senderFrame
      <3>3. StaleIdNeverResolves'
        BY <2>1, <2>6 DEF StaleIdNeverResolves
      <3> QED BY <2>2, <2>3, <2>4, <3>1, <3>2, <3>3
    <2> QED BY <2>5, <2>6, Zenon DEF CallGoesOn
  \* The sender never touches the accounting of slots.
  <1>SenderAccounted.
    ASSUME SlotsAccounted, Outbound \/ Application
    PROVE  SlotsAccounted'
    BY <1>SenderAccounted, SenderFrame, AccountedFrame DEF connVars, listVars, acctVars
  \* sendable(), send_space(), send() and close() up to the release only go on.
  <1>GoesOn.
    ASSUME Inv, \/ Sendable \/ SendLimit \/ SendLoadAck
                \/ \E n \in 0 .. MaxBurst : SendBuild(n)
                \/ \E sent \in 0 .. MaxBurst : SendBurst(sent)
                \/ SendPullBack
                \/ CloseCheck \/ CloseCountFin \/ CloseFlagFin \/ CloseSendFin
                \/ \E built \in BOOLEAN : CloseRetry(built)
                \/ CloseGiveUp
    PROVE  CallGoesOn
    <2> USE <1>GoesOn
    <2> USE DEF Holding
    <2>0. tx \in TxType
      BY DEF Inv, TypeOK, CallType
    <2>1. UNCHANGED <<senderFrame, closed_ids>>
      BY Zenon DEF Sendable, SendLimit, SendLoadAck, SendBuild, SendBurst, SendPullBack, CloseCheck,
         CloseCountFin, CloseFlagFin, CloseSendFin, CloseRetry, CloseGiveUp,
         senderFrame, connVars, inVars, listVars, rxVars, evVars, appVars
    <2>2. \A s \in Slots : "released" \in out_flags'[s] <=> "released" \in out_flags[s]
      <3>1. CASE CloseFlagFin
        BY <3>1 DEF CloseFlagFin, Inv, TypeOK, SharedType
      <3>2. CASE ~CloseFlagFin
        BY <3>2, Zenon DEF Sendable, SendLimit, SendLoadAck, SendBuild, SendBurst, SendPullBack,
           CloseCheck, CloseCountFin, CloseSendFin, CloseRetry, CloseGiveUp, outVars
      <3> QED BY <3>1, <3>2, Zenon
    <2>3. CASE Sendable \/ SendLimit \/ SendLoadAck
      BY <2>0, <2>1, <2>2, <2>3, Zenon DEF CallGoesOn, Sendable, SendLimit, SendLoadAck, TxType
    <2>4. ASSUME NEW n, SendBuild(n) PROVE CallGoesOn
      BY <2>0, <2>1, <2>2, <2>4, Zenon DEF CallGoesOn, SendBuild, TxType
    <2>5. ASSUME NEW sent, SendBurst(sent) PROVE CallGoesOn
      BY <2>0, <2>1, <2>2, <2>5, Zenon DEF CallGoesOn, SendBurst, TxType
    <2>6. CASE SendPullBack \/ CloseCheck \/ CloseCountFin \/ CloseFlagFin \/ CloseGiveUp
      BY <2>0, <2>1, <2>2, <2>6 DEF CallGoesOn, SendPullBack, CloseCheck, CloseCountFin,
         CloseFlagFin, CloseGiveUp, TxType
    <2>7. CASE CloseSendFin
      BY <2>0, <2>1, <2>2, <2>7 DEF CallGoesOn, CloseSendFin, TxType
    <2>8. ASSUME NEW built, CloseRetry(built) PROVE CallGoesOn
      BY <2>0, <2>1, <2>2, <2>8, Zenon DEF CallGoesOn, CloseRetry, TxType
    <2> QED BY <2>3, <2>4, <2>5, <2>6, <2>7, <2>8
  \* The generation check of lookup(): after sendable() it cannot fail.
  <1>LookupGenerationIds.
    ASSUME Inv, LookupGeneration
    PROVE  IdInv'
    <2> USE <1>LookupGenerationIds
    <2>1. /\ tx_pc = "generation"
          /\ UNCHANGED <<senderFrame, closed_ids, out_flags>>
      BY DEF LookupGeneration, senderFrame, connVars, inVars, outVars, listVars, rxVars, evVars,
         appVars
    <2>2. tx.pass = 2 => generation[tx.conn.slot] = tx.conn.generation
      BY DEF Inv, SlotNotRecycled, Holding
    <2>3. (tx_pc' = "out_flags" /\ tx' = tx) \/ Return
      BY <2>2 DEF LookupGeneration, LookupNull
    <2>4. CallGoesOn
      BY <2>1, <2>3 DEF CallGoesOn, Holding
    <2> QED BY <2>4, <1>CallGoesOnIds, Zenon DEF Inv, IdInv
  \* The load of out_flags.
  <1>LookupFlagsIds.
    ASSUME Inv, LookupFlags
    PROVE  IdInv'
    <2> USE <1>LookupFlagsIds
    <2> USE DEF Inv, IdInv, IdsTrackSlots
    <2>1. /\ tx_pc = "out_flags" /\ tx_pc' = "recheck"
          /\ tx' = [tx EXCEPT !.out = out_flags[tx.conn.slot]]
          /\ UNCHANGED <<senderFrame, closed_ids, out_flags>>
      BY DEF LookupFlags, senderFrame, connVars, inVars, outVars, listVars, rxVars, evVars, appVars
    <2>2. /\ tx'.conn = tx.conn /\ tx'.pass = tx.pass /\ tx'.out = out_flags[tx.conn.slot]
      BY <2>1 DEF TypeOK, CallType, TxType
    <2>3. HeldIdsReleased' /\ EventIdsCurrent' /\ OpenFresh'
      BY <2>1 DEF HeldIdsReleased, EventIdsCurrent, OpenFresh, senderFrame
    <2>4. SlotNotRecycled' /\ StaleIdNeverResolves' /\ NoNullDereference'
      BY <2>1, <2>2 DEF SlotNotRecycled, StaleIdNeverResolves, NoNullDereference, Holding,
         senderFrame
    <2>5. CallHoldsId'
      BY <2>1, <2>2 DEF CallHoldsId, SlotNotRecycled, Holding, senderFrame
    <2> QED BY <2>3, <2>4, <2>5
  \* The re-check of lookup(): a current id whose slot was not released is of a live slot.
  <1>LookupRecheckIds.
    ASSUME Inv, LookupRecheck
    PROVE  IdInv'
    <2> USE <1>LookupRecheckIds
    <2> USE DEF Inv, IdInv, IdsTrackSlots
    <2> DEFINE s == tx.conn.slot
    <2>1. tx_pc = "recheck" /\ UNCHANGED <<senderFrame, closed_ids, out_flags>>
      BY DEF LookupRecheck, senderFrame, connVars, inVars, outVars, listVars, rxVars, evVars,
         appVars
    <2>2. CASE generation[s] # tx.conn.generation \/ "released" \in tx.out
      <3>1. tx.pass # 2
        BY <2>1, <2>2, Zenon DEF SlotNotRecycled, Holding, CallHoldsId
      <3>2. CallGoesOn
        BY <2>1, <2>2, <3>1, Zenon DEF LookupRecheck, LookupNull, CallGoesOn
      <3> QED BY <3>2, <1>CallGoesOnIds, Zenon
    <2>3. CASE generation[s] = tx.conn.generation /\ "released" \notin tx.out
      <3>1. /\ tx_pc' \in {"close", "sendable", "limit"} /\ tx' = tx
        BY <2>3, Zenon DEF LookupRecheck
      <3>2. tx.conn \in held /\ "released" \notin out_flags[s]
        BY <2>1, <2>3 DEF CallHoldsId
      <3>3. state[s] \notin {"free", "syn_received"} /\ tx.conn \notin closed_ids
        BY <2>3, <3>2 DEF HeldIdsReleased
      <3>4. HeldIdsReleased' /\ EventIdsCurrent' /\ OpenFresh'
        BY <2>1, Zenon DEF HeldIdsReleased, EventIdsCurrent, OpenFresh, senderFrame
      <3>5. SlotNotRecycled' /\ StaleIdNeverResolves' /\ NoNullDereference'
        BY <2>1, <2>3, <3>1, <3>2, <3>3, Zenon DEF SlotNotRecycled, StaleIdNeverResolves,
           NoNullDereference, Holding, senderFrame
      <3>6. CallHoldsId'
        BY <2>1, <3>1, <3>2 DEF CallHoldsId, senderFrame
      <3> QED BY <3>4, <3>5, <3>6
    <2> QED BY <2>2, <2>3, Zenon
  \* The release of the slot.
  <1>CloseReleaseIds.
    ASSUME Inv, CloseRelease
    PROVE  IdInv'
    <2> USE <1>CloseReleaseIds
    <2> USE DEF Inv, IdInv, IdsTrackSlots
    <2> DEFINE s == tx.conn.slot
    <2>1. /\ tx_pc = "release" /\ Return
          /\ out_flags' = [out_flags EXCEPT ![s] = @ \cup {"released"}]
          /\ closed_ids' = closed_ids \cup {tx.conn}
          /\ UNCHANGED senderFrame
      BY DEF CloseRelease, senderFrame, connVars, inVars, listVars, rxVars, evVars
    <2>2. \A t \in Slots : out_flags'[t] = IF t = s THEN out_flags[t] \cup {"released"}
                                                    ELSE out_flags[t]
      BY <2>1, Zenon DEF TypeOK, SharedType
    <2>3. s \in Slots
      BY IdSlots
    <2>4. HeldIdsReleased'
      <3> SUFFICES ASSUME NEW id \in held, generation[id.slot] = id.generation,
                          \/ state[id.slot] \in {"free", "syn_received"}
                          \/ id \in closed_ids \cup {tx.conn}
                   PROVE  "released" \in out_flags'[id.slot]
        BY <2>1, Zenon DEF HeldIdsReleased, senderFrame
      <3>1. CASE id = tx.conn
        BY <2>2, <2>3, <3>1, Zenon
      <3>2. CASE id # tx.conn
        <4>1. "released" \in out_flags[id.slot]
          BY <3>2 DEF HeldIdsReleased
        <4> QED BY <2>2, <4>1, IdSlots, Zenon
      <3> QED BY <3>1, <3>2
    <2>5. EventIdsCurrent'
      <3>1. \A t \in Slots : out_flags[t] \subseteq out_flags'[t]
        BY <2>2, Zenon
      <3>2. \A i \in DOMAIN events : events[i].conn.slot \in Slots
        BY IdSlots, Zenon
      <3>3. UNCHANGED <<events, generation, state, rx_pc>>
        BY <2>1 DEF senderFrame
      <3> QED BY <3>1, <3>2, <3>3, Zenon DEF EventIdsCurrent
    <2>6. OpenFresh'
      BY <2>1, Zenon DEF OpenFresh, senderFrame
    <2>7. /\ CallHoldsId' /\ SlotNotRecycled' /\ StaleIdNeverResolves' /\ NoNullDereference'
      BY <2>1, <1>ReturnedIds
    <2> QED BY <2>4, <2>5, <2>6, <2>7, Zenon
  \* Calls start without holding a slot; an id is not forgotten under a call.
  <1>ApplicationIds.
    ASSUME Inv, Application
    PROVE  IdInv'
    <2> USE <1>ApplicationIds
    <2>0. /\ HeldIdsReleased /\ EventIdsCurrent /\ OpenFresh /\ CallHoldsId
          /\ SlotNotRecycled /\ StaleIdNeverResolves /\ NoNullDereference
      BY DEF Inv, IdsTrackSlots
    <2>1. ASSUME NEW id \in held, NEW op, NEW bytes, Call(op, id, bytes)
          PROVE  IdInv'
      <3>1. /\ tx_pc' = "generation" /\ tx'.conn = id /\ tx'.pass = 1
            /\ UNCHANGED <<senderFrame, closed_ids, out_flags>>
        BY <2>1 DEF Call, NoCall, senderFrame, connVars, inVars, outVars, listVars, rxVars,
           evVars, appVars
      <3>2. HeldIdsReleased' /\ EventIdsCurrent' /\ OpenFresh'
        BY <2>0, <3>1, Zenon DEF HeldIdsReleased, EventIdsCurrent, OpenFresh, senderFrame
      <3>3. CallHoldsId'
        BY <3>1, Zenon DEF CallHoldsId, senderFrame
      <3>4. SlotNotRecycled' /\ StaleIdNeverResolves' /\ NoNullDereference'
        BY <3>1 DEF SlotNotRecycled, StaleIdNeverResolves, NoNullDereference, Holding
      <3> QED BY <3>2, <3>3, <3>4 DEF IdInv, IdsTrackSlots
    <2>2. ASSUME NEW id \in held, Forget(id)
          PROVE  IdInv'
      <3>1. /\ tx_pc = "idle" \/ tx.conn # id
            /\ held' = held \ {id} /\ closed_ids' = closed_ids \ {id}
            /\ UNCHANGED <<state, generation, out_flags, opening, rx_pc, rx, events, tx_pc, tx>>
        BY <2>2, Zenon DEF Forget, connVars, inVars, outVars, rxVars, evVars, txVars
      <3>2. HeldIdsReleased'
        BY <2>0, <3>1, Zenon DEF HeldIdsReleased
      <3>3. EventIdsCurrent' /\ OpenFresh'
        BY <2>0, <3>1, Zenon DEF EventIdsCurrent, OpenFresh
      <3>4. CallHoldsId'
        BY <2>0, <3>1 DEF CallHoldsId
      <3>5. SlotNotRecycled' /\ StaleIdNeverResolves' /\ NoNullDereference'
        BY <2>0, <3>1, Zenon DEF SlotNotRecycled, StaleIdNeverResolves, NoNullDereference, Holding
      <3> QED BY <3>2, <3>3, <3>4, <3>5 DEF IdInv, IdsTrackSlots
    <2> QED BY <2>1, <2>2 DEF Application
  <1> SUFFICES ASSUME Inv, Next PROVE Inv'
    OBVIOUS
  <1>1. TypeOK'
    <2>1. TypeInv
      BY DEF Inv, IdsTrackSlots, CallHoldsId, TypeInv, CallHeld
    <2> QED BY <2>1, NextType
  <1>2. ASSUME InboundGood PROVE SlotsAccounted' /\ IdInv'
    BY <1>2, <1>QuietIds, <1>RecyclesIds DEF InboundGood, Inv, IdInv
  <1>3. CASE Receive
    <2>1. ASSUME NEW seg \in Segments, ProcessSegment(seg) PROVE InboundGood
      BY Zenon, <2>1, <1>PlainSegmentGood, <1>HandshakeResetGood, <1>HandshakeAckGood, <1>SegmentResetGood,
         <1>SegmentGood DEF ProcessSegment
    <2>2. SlotsAccounted' /\ IdInv'
      BY <1>2, <1>3, <2>1, <1>PlainGood, <1>PlainSegmentGood, <1>OpenInv DEF Receive
    <2> QED BY <1>1, <2>2 DEF Inv, IdInv
  <1>4. CASE Inbound
    <2>1. SlotsAccounted' /\ IdInv'
      BY Zenon, <1>2, <1>4, <1>PlainGood, <1>ReapGood, <1>OpenStoreInv, <1>OpenPublishInv, <1>AckProcessedGood,
         <1>DataDeliveredGood, <1>FinalizeGood, <1>PollReturnInv DEF Inbound
    <2> QED BY <1>1, <2>1 DEF Inv, IdInv
  <1>5. CASE Outbound
    <2>1. IdInv'
      BY <1>5, <1>GoesOn, <1>CallGoesOnIds, <1>LookupGenerationIds, <1>LookupFlagsIds, <1>LookupRecheckIds,
         <1>CloseReleaseIds DEF Outbound, Inv, IdInv
    <2> QED BY <1>1, <1>5, <2>1, <1>SenderAccounted, Zenon DEF Inv, IdInv
  <1>6. CASE Application
    BY <1>1, <1>6, <1>ApplicationIds, <1>SenderAccounted, Zenon DEF Inv, IdInv
  <1> QED BY <1>3, <1>4, <1>5, <1>6 DEF Next

\* A step that changes nothing.
LEMMA StutterInv == ASSUME Inv, UNCHANGED vars PROVE Inv'
  <1> USE DEF vars, connVars, inVars, outVars, listVars, rxVars, evVars, txVars, appVars
  <1>1. TypeOK'
    BY TypeFrame DEF Inv, TypeOK
  <1>2. SlotsAccounted'
    BY AccountedFrame DEF Inv, acctVars
  <1>3. HeldIdsReleased' /\ EventIdsCurrent' /\ OpenFresh' /\ CallHoldsId'
    BY Zenon DEF Inv, IdsTrackSlots, HeldIdsReleased, EventIdsCurrent, OpenFresh, CallHoldsId
  <1>4. SlotNotRecycled' /\ StaleIdNeverResolves' /\ NoNullDereference'
    BY Zenon DEF Inv, SlotNotRecycled, StaleIdNeverResolves, NoNullDereference, Holding
  <1> QED BY <1>1, <1>2, <1>3, <1>4, Zenon DEF Inv, IdsTrackSlots

\* Inv holds of every behaviour of the endpoint.
THEOREM InvHolds == Spec => []Inv
  <1>1. Inv /\ [Next]_vars => Inv'
    BY NextInv, StutterInv
  <1> QED BY InitInv, <1>1, PTL DEF Spec

\* The free list, awaiting_release and finalize_list account for every slot exactly once.
THEOREM SlotsAccountedHolds == Spec => []SlotsAccounted
  <1>1. Inv => SlotsAccounted
    BY DEF Inv
  <1> QED BY InvHolds, <1>1, PTL

\* The outbound thread never works on a slot inbound has recycled: the protocol of
\* lookup(), open() and out_flags is safe for any number of connections.
THEOREM SlotNotRecycledHolds == Spec => []SlotNotRecycled
  <1>1. Inv => SlotNotRecycled
    BY DEF Inv
  <1> QED BY InvHolds, <1>1, PTL

\* An id that was close()d never resolves again.
THEOREM StaleIdNeverResolvesHolds == Spec => []StaleIdNeverResolves
  <1>1. Inv => StaleIdNeverResolves
    BY DEF Inv
  <1> QED BY InvHolds, <1>1, PTL

\* The unchecked second lookup of send() and send_space() never returns null.
THEOREM NoNullDereferenceHolds == Spec => []NoNullDereference
  <1>1. Inv => NoNullDereference
    BY DEF Inv
  <1> QED BY InvHolds, <1>1, PTL

\* Ids, events and slots agree: what the three results above rest on.
THEOREM IdsTrackSlotsHolds == Spec => []IdsTrackSlots
  <1>1. Inv => IdsTrackSlots
    BY DEF Inv
  <1> QED BY InvHolds, <1>1, PTL

-----------------------------------------------------------------------------
\* Generations

\* A published connection has a generation other than 0, and so has one whose generation
\* open() has stored; the events and the ids they become carry such generations.
GenInv ==
  /\ \A s \in Slots : InUse(s) => generation[s] # 0
  /\ rx_pc = "open" /\ "generation" \notin opening => generation[rx.idx] # 0
  /\ \A i \in DOMAIN events : events[i].conn.generation # 0
  /\ \A id \in held : id.generation # 0

\* No slot comes into use, and open() is not at work.
NoneOpens ==
  /\ generation' = generation /\ held' = held /\ rx_pc # "open" /\ rx_pc' # "open"
  /\ events' = events \/ rx_pc' # "finalize"
  /\ \A s \in Slots : state'[s] # "free" => state[s] # "free"

\* Every step keeps to generations other than 0.
LEMMA NextGenerations == Inv /\ Inv' /\ GenInv /\ [Next]_vars => GenInv'
  \* The events, once the slots are known to be in order: those pushed are about slots in
  \* use, and nothing is pushed once slots are being recycled.
  <1>Events.
    ASSUME Inv', GenInv, events' = events \/ rx_pc' # "finalize",
           \A s \in Slots : InUse(s)' => generation'[s] # 0
    PROVE  \A i \in DOMAIN events' : events'[i].conn.generation # 0
    <2> USE <1>Events
    <2> SUFFICES ASSUME NEW i \in DOMAIN events' PROVE events'[i].conn.generation # 0
      OBVIOUS
    <2> DEFINE s == events'[i].conn.slot
    <2>1. CASE events' = events
      BY <2>1, Zenon DEF GenInv
    <2>2. CASE rx_pc' # "finalize"
      <3>1. events'[i] \in EventType
        BY DEF Inv, TypeOK, PollType
      <3>2. s \in Slots
        BY <3>1 DEF EventType, ConnIds
      <3>3. generation'[s] = events'[i].conn.generation /\ state'[s] \notin {"free", "syn_received"}
        BY <2>2, Zenon DEF Inv, IdsTrackSlots, EventIdsCurrent
      <3>4. rx_pc' = "open" => state'[rx'.idx] = "syn_received"
        BY Zenon DEF Inv, IdsTrackSlots, OpenFresh
      <3>5. \A t \in Slots : state'[t] \notin {"free", "syn_received"} => InUse(t)'
        BY <3>4, Zenon DEF InUse
      <3> HIDE DEF s
      <3> QED BY <3>2, <3>3, <3>5
    <2> QED BY <2>1, <2>2
  <1>None.
    ASSUME Inv', GenInv, NoneOpens
    PROVE  GenInv'
    <2> USE <1>None
    <2>1. \A s \in Slots : InUse(s)' => generation'[s] # 0
      BY Zenon DEF GenInv, NoneOpens, InUse
    <2>2. \A i \in DOMAIN events' : events'[i].conn.generation # 0
      BY <2>1, <1>Events, Zenon DEF NoneOpens
    <2> QED BY <2>1, <2>2, Zenon DEF GenInv, NoneOpens
  \* Steps that change no state.
  <1>Plain.
    ASSUME \/ PollStart \/ ReapDone \/ ReceiveArp
           \/ \E seg \in Segments : ReceiveUnknown(seg) \/ SegmentIgnored(seg) \/ HandshakePending(seg)
           \/ AckLoadFlags \/ AckBeyond \/ DataNotDelivered \/ EndBurst \/ FlushAck
           \/ \E sent \in 0 .. Len(control) : FlushControl(sent)
    PROVE  NoneOpens
    <2> USE <1>Plain
    <2>1. UNCHANGED <<inVars, state, events, held>>
      BY Zenon DEF PollStart, ReapDone, ReceiveArp, ReceiveUnknown, SegmentIgnored, HandshakePending,
         AckLoadFlags, AckBeyond, DataNotDelivered, EndBurst, FlushAck, FlushControl,
         connVars, rxVars, evVars, appVars
    <2>2. rx_pc # "open" /\ rx_pc' # "open"
      BY DEF PollStart, ReapDone, ReceiveArp, ReceiveUnknown, SegmentIgnored, HandshakePending,
         AckLoadFlags, AckBeyond, DataNotDelivered, EndBurst, FlushAck, FlushControl,
         Receiving, Matches, NextPacket, rxVars
    <2> QED BY <2>1, <2>2, Zenon DEF NoneOpens, inVars
  \* A slot that is recycled.
  <1>Release.
    ASSUME TypeOK, ReapReleased \/ (\E seg \in Segments : HandshakeReset(seg)) \/ Finalize
    PROVE  NoneOpens
    <2> USE <1>Release
    <2>1. UNCHANGED <<inVars, events, held>>
      BY Zenon DEF ReapReleased, HandshakeReset, Finalize, rxVars, evVars, appVars
    <2>2. rx_pc # "open" /\ rx_pc' # "open"
      BY DEF ReapReleased, HandshakeReset, Finalize, Receiving, Matches, NextPacket, rxVars
    <2>3. state' = state \/ \E t : state' = [state EXCEPT ![t] = "free"]
      BY Zenon DEF ReapReleased, HandshakeReset, Finalize, release_slot
    <2>4. \A s \in Slots : state'[s] # "free" => state[s] # "free"
      BY <2>3, Zenon DEF TypeOK, ConnType
    <2> QED BY <2>1, <2>2, <2>4, Zenon DEF NoneOpens, inVars
  \* The segments of a connection.
  <1>Segment.
    ASSUME TypeOK, NEW seg \in Segments,
           HandshakeAck(seg) \/ SegmentReset(seg) \/ SegmentNotAck(seg) \/ SegmentAck(seg)
    PROVE  NoneOpens
    <2> USE <1>Segment
    <2> DEFINE s == flows[seg.key]
    <2>1. UNCHANGED <<generation, held>>
      BY Zenon DEF HandshakeAck, SegmentReset, SegmentNotAck, SegmentAck, inVars, appVars
    <2>2. rx_pc # "open" /\ rx_pc' \notin {"open", "finalize"}
      BY Zenon DEF HandshakeAck, SegmentReset, SegmentNotAck, SegmentAck, Matches, Receiving, NextPacket
    <2>3. sync_out_flags(s) # "free"
      BY Zenon DEF HandshakeAck, SegmentReset, SegmentNotAck, SegmentAck, Synchronized
    <2>4. state[s] # "free"
      BY <2>3, Zenon DEF sync_out_flags
    <2>5. \E st : state' = [state EXCEPT ![s] = st]
      <3>1. CASE HandshakeAck(seg) BY <3>1, Zenon DEF HandshakeAck
      <3>2. CASE SegmentReset(seg) BY <3>2, Zenon DEF SegmentReset
      <3>3. CASE SegmentNotAck(seg) BY <3>3, Zenon DEF SegmentNotAck
      <3>4. CASE SegmentAck(seg) BY <3>4, Zenon DEF SegmentAck
      <3> QED BY <3>1, <3>2, <3>3, <3>4
    <2>6. \A t \in Slots : state'[t] # "free" => state[t] # "free"
      BY <2>4, <2>5, Zenon DEF TypeOK, ConnType
    <2> QED BY <2>1, <2>2, <2>6, Zenon DEF NoneOpens
  \* The two steps of a segment that is taken.
  <1>AckData.
    ASSUME TypeOK, AckProcessed \/ DataDelivered
    PROVE  NoneOpens
    <2> USE <1>AckData
    <2> DEFINE s == rx.idx
    <2>1. UNCHANGED <<generation, held>>
      BY Zenon DEF AckProcessed, DataDelivered, appVars
    <2>2. rx_pc # "open" /\ rx_pc' \notin {"open", "finalize"}
      BY Zenon DEF AckProcessed, DataDelivered, NextPacket
    <2>3. state' = state \/ (state[s] # "free" /\ \E st : state' = [state EXCEPT ![s] = st])
      <3>1. CASE AckProcessed
        <4>1. \/ state[s] \in {"closing", "last_ack", "fin_wait_1"} /\ \E st : state' = [state EXCEPT ![s] = st]
              \/ state' = state
          BY <3>1, Zenon DEF AckProcessed
        <4> QED BY <4>1
      <3>2. CASE DataDelivered
        <4>1. CanReceive(s) /\ \E st : state' = [state EXCEPT ![s] = st]
          BY <3>2, Zenon DEF DataDelivered
        <4> QED BY <4>1, Zenon DEF CanReceive
      <3> QED BY <3>1, <3>2
    <2>4. \A t \in Slots : state'[t] # "free" => state[t] # "free"
      BY <2>3, Zenon DEF TypeOK, ConnType
    <2> QED BY <2>1, <2>2, <2>4, Zenon DEF NoneOpens
  \* open() takes a slot, stores the next generation, and publishes the slot.
  <1>Open.
    ASSUME Inv, Inv', GenInv, NEW seg \in Segments, NEW iss \in Iss, Open(seg, iss)
    PROVE  GenInv'
    <2> USE <1>Open
    <2> DEFINE idx == back(free_slots)
    <2>1. /\ rx_pc = "process" /\ rx_pc' = "open" /\ opening' = OpenStores
          /\ state' = [state EXCEPT ![idx] = "syn_received"]
          /\ rx' = [rx EXCEPT !.idx = idx]
          /\ UNCHANGED <<generation, events, held>>
      BY Zenon DEF Open, Receiving, inVars, evVars, appVars
    <2>2. rx'.idx = idx
      BY <2>1 DEF Inv, TypeOK, PollType, RxType
    <2> HIDE DEF idx
    <2>3. \A t \in Slots \ {idx} : state'[t] = state[t]
      BY <2>1, Zenon DEF Inv, TypeOK, ConnType
    <2>4. \A t \in Slots : InUse(t)' => InUse(t)
      BY <2>1, <2>2, <2>3, Zenon DEF InUse
    <2>5. "generation" \in opening'
      BY <2>1 DEF OpenStores
    <2> QED BY <2>1, <2>4, <2>5, Zenon DEF GenInv
  <1>Store.
    ASSUME Inv, Inv', GenInv, NEW f \in opening, OpenStore(f)
    PROVE  GenInv'
    <2> USE <1>Store
    <2> DEFINE s == rx.idx
               g == NextGeneration(generation[s])
    <2>1. /\ rx_pc = "open" /\ opening' = opening \ {f}
          /\ generation' = IF f = "generation" THEN [generation EXCEPT ![s] = g] ELSE generation
          /\ UNCHANGED <<state, rx_pc, rx, events, held>>
      BY Zenon DEF OpenStore, connVars, evVars, appVars
    <2>2. s \in Slots /\ generation[s] \in Generations
      BY <2>1, Zenon DEF Inv, TypeOK, PollType, SharedType
    <2>3. g # 0
      BY <2>2, GenerationTypes
    <2> HIDE DEF g
    <2>4. /\ \A t \in Slots \ {s} : generation'[t] = generation[t]
          /\ f = "generation" => generation'[s] = g
      BY <2>1, <2>2, Zenon DEF Inv, TypeOK, SharedType
    <2>5. \A t \in Slots : InUse(t)' => t # s /\ InUse(t)
      BY <2>1, Zenon DEF InUse
    <2>6. "generation" \notin opening' => generation'[s] # 0
      BY <2>1, <2>3, <2>4, Zenon DEF GenInv
    <2> QED BY <2>1, <2>4, <2>5, <2>6, Zenon DEF GenInv
  <1>Publish.
    ASSUME Inv, Inv', GenInv, OpenPublish
    PROVE  GenInv'
    <2> USE <1>Publish
    <2>1. /\ rx_pc = "open" /\ opening = {} /\ rx_pc' = "process"
          /\ UNCHANGED <<state, generation, events, held>>
      BY Zenon DEF OpenPublish, NextPacket, connVars, inVars, appVars
    <2>2. generation[rx.idx] # 0
      BY <2>1, Zenon DEF GenInv
    <2>3. \A t \in Slots : InUse(t)' => InUse(t) \/ t = rx.idx
      BY <2>1, Zenon DEF InUse
    <2>4. rx_pc' # "open"
      BY <2>1
    <2> QED BY <2>1, <2>2, <2>3, <2>4, Zenon DEF GenInv
  \* The application gets its ids from the events.
  <1>Return.
    ASSUME GenInv, PollReturn
    PROVE  GenInv'
    <2> USE <1>Return
    <2>1. /\ held' = held \cup {e.conn : e \in {f \in Range(events) : f.type = "accepted"}}
          /\ events' = <<>> /\ rx_pc = "finalize" /\ rx_pc' = "idle"
          /\ UNCHANGED <<state, generation>>
      BY Zenon DEF PollReturn, connVars, inVars
    <2>2. \A e \in Range(events) : \E i \in DOMAIN events : e = events[i]
      BY Zenon DEF Range
    <2>3. \A id \in held' : id.generation # 0
      <3> SUFFICES ASSUME NEW id \in held', id \notin held PROVE id.generation # 0
        BY Zenon DEF GenInv
      <3>1. PICK e \in Range(events) : id = e.conn
        BY <2>1, Zenon
      <3> QED BY <2>2, <3>1, Zenon DEF GenInv
    <2>4. \A t \in Slots : InUse(t)' => InUse(t)
      BY <2>1 DEF InUse
    <2> QED BY <2>1, <2>3, <2>4 DEF GenInv
  \* A step of the other thread, or none.
  <1>Still.
    ASSUME GenInv, UNCHANGED <<generation, state, rx_pc, rx, events, opening>>, held' \subseteq held
    PROVE  GenInv'
    BY <1>Still, Zenon DEF GenInv, InUse
  <1> SUFFICES ASSUME Inv, Inv', GenInv, [Next]_vars PROVE GenInv'
    BY Zenon
  <1>1. CASE UNCHANGED vars
    BY <1>1, <1>Still DEF vars, connVars, inVars, rxVars, evVars, appVars
  <1>2. CASE Receive
    <2>1. CASE \E seg \in Segments, iss \in Iss : Open(seg, iss)
      BY <2>1, <1>Open
    <2>2. CASE ReceiveArp \/ \E seg \in Segments : ReceiveUnknown(seg) \/ ProcessSegment(seg)
      <3>1. NoneOpens
        BY <2>2, <1>Plain, <1>Release, <1>Segment, Zenon DEF ProcessSegment, Inv
      <3> QED BY <3>1, <1>None
    <2> QED BY <1>2, <2>1, <2>2, Zenon DEF Receive
  <1>3. CASE Inbound
    <2>1. CASE \E f \in opening : OpenStore(f)
      BY <2>1, <1>Store
    <2>2. CASE OpenPublish \/ PollReturn
      BY <2>2, <1>Publish, <1>Return
    <2>3. CASE Inbound /\ ~OpenPublish /\ ~PollReturn /\ ~\E f \in opening : OpenStore(f)
      <3>1. NoneOpens
        BY <2>3, <1>Plain, <1>Release, <1>AckData, Zenon DEF Inbound, Inv
      <3> QED BY <3>1, <1>None
    <2> QED BY <1>3, <2>1, <2>2, <2>3
  <1>4. CASE Outbound \/ Application
    <2>1. UNCHANGED <<state, rx_pc, rx, events, opening>>
      BY <1>4, SenderFrame, Zenon DEF connVars, rxVars, evVars
    <2>2. UNCHANGED generation /\ held' \subseteq held
      <3>1. CASE Application
        BY <3>1, Zenon DEF Application, Call, Forget, inVars, appVars
      <3>2. CASE Outbound
        BY <3>2, Zenon DEF Outbound, LookupGeneration, LookupFlags, LookupRecheck, Sendable, SendLimit,
           SendLoadAck, SendBuild, SendBurst, SendPullBack, CloseCheck, CloseCountFin,
           CloseFlagFin, CloseSendFin, CloseRetry, CloseGiveUp, CloseRelease, inVars, appVars
      <3> QED BY <1>4, <3>1, <3>2
    <2> QED BY <2>1, <2>2, <1>Still
  <1> QED BY <1>1, <1>2, <1>3, <1>4 DEF Next

\* However often a slot is reused and its generation wraps, no connection and no id the
\* application was given has generation 0.
THEOREM GenerationsFromOneHolds == Spec => []GenerationsFromOne
  <1>1. Init => GenInv
    BY DEF Init, StackInit, GenInv, InUse
  <1>2. GenInv => GenerationsFromOne
    BY DEF GenInv, GenerationsFromOne
  <1> QED BY <1>1, <1>2, InvHolds, NextGenerations, PTL DEF Spec

-----------------------------------------------------------------------------
\* snd_nxt and the wire

Half == SeqSize \div 2

\* Where snd_nxt is published ahead of the wire.
AheadAt == {"burst", "pull_back", "flag_fin"}

\* snd_nxt is the end of what was sent, or counts a FIN that was not.
Settled(s) ==
  \/ snd_nxt[s] = wire_end[s]
  \/ "fin_sent" \in out_flags[s] /\ snd_nxt[s] = SeqAdd(wire_end[s], 1)

SlotsSettled ==
  \A s \in Slots : InUse(s) /\ ~(tx.conn.slot = s /\ tx_pc \in AheadAt) => Settled(s)

\* open() stores one number for both.
OpenWire == rx_pc = "open" /\ "snd_nxt" \notin opening => snd_nxt[rx.idx] = wire_end[rx.idx]

\* Past sendable(), and until close() says so, the FIN is not sent.
NotFinished ==
  \/ tx_pc \in {"limit", "rcv_nxt", "build", "burst", "pull_back", "count_fin", "flag_fin"}
  \/ tx.pass = 2
  => "fin_sent" \notin out_flags[tx.conn.slot]

\* The offsets of the call in progress, against snd_nxt and the wire.
CallWire ==
  LET s == tx.conn.slot
  IN  /\ tx_pc = "sendable" \/ tx.pass = 2 => tx.op # "close"
      /\ tx_pc \in {"close", "count_fin", "flag_fin", "fin", "release"} => tx.pass = 1
      /\ tx_pc \notin {"build", "burst", "pull_back"} => tx.done = 0
      /\ tx_pc \in {"rcv_nxt", "build"} => snd_nxt[s] = SeqAdd(tx.base, tx.done)
      /\ tx_pc \in {"rcv_nxt", "build", "burst"} => tx.done < tx.limit /\ tx.limit < Half
      /\ tx_pc \in {"burst", "pull_back"} =>
           /\ tx.done <= tx.off /\ tx.off < Half
           /\ snd_nxt[s] = SeqAdd(tx.base, tx.off) /\ wire_end[s] = SeqAdd(tx.base, tx.done)
      /\ tx_pc = "burst" => tx.off = SegEnd(tx.n)
      /\ tx_pc \in {"flag_fin", "fin"} =>
           snd_nxt[s] = SeqAdd(tx.base, 1) /\ wire_end[s] = tx.base

WireInv == /\ wire_end \in [Slots -> SeqNums]
           /\ SlotsSettled /\ OpenWire /\ NotFinished /\ CallWire

-----------------------------------------------------------------------------
\* Sequence numbers

\* Remainders of numbers less than one turn away.
LEMMA ModOnce ==
  ASSUME NEW M \in Nat \ {0}, NEW x \in Int
  PROVE  /\ x \in 0 .. (M - 1) => x % M = x
         /\ x \in M .. (2 * M - 1) => x % M = x - M
         /\ x \in (-M) .. (-1) => x % M = x + M
  OBVIOUS

\* Half of the sequence space.
LEMMA HalfFact == Half \in Nat /\ 2 * Half = SeqSize /\ Half >= 2
  BY SeqSizeAssumption DEF Half

\* Adding nothing.
LEMMA SeqAddZero == \A a \in SeqNums : SeqAdd(a, 0) = a
  <1> SUFFICES ASSUME NEW a \in SeqNums PROVE SeqAdd(a, 0) = a
    OBVIOUS
  <1>1. SeqSize \in Nat \ {0} /\ a \in Int /\ a \in 0 .. (SeqSize - 1) /\ a + 0 = a
    BY SeqSizeAssumption DEF SeqNums
  <1>2. a % SeqSize = a
    BY <1>1, ModOnce, Zenon
  <1> QED BY <1>1, <1>2 DEF SeqAdd

\* An offset of at most the whole sequence space wraps once.
LEMMA SeqAddOnce ==
  ASSUME NEW a \in SeqNums, NEW i \in Nat, i <= SeqSize
  PROVE  SeqAdd(a, i) = IF a + i < SeqSize THEN a + i ELSE a + i - SeqSize
  <1> DEFINE x == a + i
  <1>1. SeqSize \in Nat \ {0} /\ x \in Int /\ x >= 0 /\ x <= 2 * SeqSize - 1
    BY SeqSizeAssumption DEF SeqNums
  <1>2. SeqAdd(a, i) = x % SeqSize
    BY DEF SeqAdd
  <1>a. x = a + i
    OBVIOUS
  <1> HIDE DEF x
  <1>3. x % SeqSize = IF x < SeqSize THEN x ELSE x - SeqSize
    BY <1>1, ModOnce
  <1> QED BY <1>1, <1>2, <1>3, <1>a, SeqNumInt, SeqSizeAssumption

\* Offsets of less than half the sequence space keep their order: the comparison
\* through the sign of the difference is right for them.
LEMMA SeqOrder ==
  ASSUME NEW a \in SeqNums, NEW i \in Nat, NEW j \in Nat, i <= j, j < Half
  PROVE  seq_leq(SeqAdd(a, i), SeqAdd(a, j))
  <1>1. /\ SeqSize \in Nat \ {0} /\ a \in Int /\ a >= 0 /\ a < SeqSize
        /\ Half \in Nat /\ 2 * Half = SeqSize
    BY SeqSizeAssumption, HalfFact DEF SeqNums
  <1> DEFINE p == SeqAdd(a, i)
             q == SeqAdd(a, j)
  <1>2. i <= SeqSize /\ j <= SeqSize
    BY <1>1
  <1>3. p = IF a + i < SeqSize THEN a + i ELSE a + i - SeqSize
    BY <1>2, SeqAddOnce
  <1>4. q = IF a + j < SeqSize THEN a + j ELSE a + j - SeqSize
    BY <1>2, SeqAddOnce
  <1> HIDE DEF p, q
  <1>5. p - q \in Int /\ (p - q = i - j \/ p - q = i - j + SeqSize)
    BY <1>1, <1>3, <1>4
  <1>6. CASE i = j
    BY <1>3, <1>4, <1>6 DEF seq_leq, p, q
  <1>7. CASE i < j
    <2>1. CASE p - q = i - j
      <3>1. p - q \in (-SeqSize) .. (-1)
        BY <1>1, <1>5, <1>7, <2>1
      <3>2. (p - q) % SeqSize = p - q + SeqSize
        BY <1>1, <1>5, <3>1, ModOnce
      <3>3. (p - q) % SeqSize >= Half
        BY <1>1, <1>7, <2>1, <3>2
      <3> QED BY <3>3 DEF seq_leq, seq_lt, SeqSub, Half, p, q
    <2>2. CASE p - q = i - j + SeqSize
      <3>1. p - q \in 0 .. (SeqSize - 1)
        BY <1>1, <1>5, <1>7, <2>2
      <3>2. (p - q) % SeqSize = p - q
        BY <1>1, <1>5, <3>1, ModOnce, Zenon
      <3>3. (p - q) % SeqSize >= Half
        BY <1>1, <1>7, <2>2, <3>2
      <3> QED BY <3>3 DEF seq_leq, seq_lt, SeqSub, Half, p, q
    <2> QED BY <1>5, <2>1, <2>2
  <1> QED BY <1>6, <1>7

\* window_space is less than half the sequence space.
LEMMA WindowSpaceHalf ==
  ASSUME NEW w, NEW nxt
  PROVE  window_space(w, nxt) < Half
  <1> DEFINE space == SeqSub(SeqAdd(w.una, w.wnd), nxt)
  <1>1. window_space(w, nxt) = IF space < Half THEN space ELSE 0
    BY DEF window_space, Half
  <1> HIDE DEF space
  <1> QED BY <1>1, HalfFact

\* The segments of a burst follow each other.
LEMMA SegEnds ==
  ASSUME TypeOK, NEW i \in Nat, NEW j \in Nat, i <= j
  PROVE  /\ SegEnd(i) \in Nat /\ SegEnd(i) <= SegEnd(j) /\ SegEnd(j) <= tx.limit
         /\ tx.done <= tx.limit => tx.done <= SegEnd(i)
         /\ tx.done < tx.limit => SegEnd(0) = tx.done
  <1>1. tx.done \in Nat /\ tx.limit \in Nat /\ tx.conn.slot \in Slots
    BY DEF TypeOK, CallType, TxType, ConnIds
  <1> DEFINE m == tcb[tx.conn.slot].send_mss
  <1>2. m \in Nat
    BY <1>1 DEF TypeOK, ConnType, TcbType
  <1> HIDE DEF m
  <1>3. i * m \in Nat /\ j * m \in Nat /\ 0 * m = 0
    BY <1>2
  <1>4. i * m <= j * m
    <2>1. PICK k \in Nat : j = i + k
      BY j - i \in Nat
    <2>2. j * m = i * m + k * m /\ k * m \in Nat
      BY <1>2, <2>1
    <2> QED BY <1>3, <2>2
  <1>5. \A n \in Nat : SegEnd(n) = IF tx.done + n * m < tx.limit THEN tx.done + n * m ELSE tx.limit
    BY Zenon DEF SegEnd, m
  <1> QED BY <1>1, <1>3, <1>4, <1>5
-----------------------------------------------------------------------------
\* The inbound thread

\* The inbound thread leaves the send side alone and begins no connection.
SendSame ==
  /\ UNCHANGED <<outVars, txVars>> /\ rx_pc # "open" /\ rx_pc' # "open"
  /\ \A s \in Slots : /\ state'[s] # "free" => state[s] # "free"
                      /\ tcb'[s].send_mss = tcb[s].send_mss

-----------------------------------------------------------------------------
\* The outbound thread

\* Steps of a call that read.
Reads ==
  \/ LookupGeneration \/ LookupFlags \/ LookupRecheck \/ Sendable \/ SendLimit \/ SendLoadAck
  \/ CloseCheck \/ (\E built \in BOOLEAN : CloseRetry(built)) \/ CloseGiveUp
  \/ \E op, id, bytes : Call(op, id, bytes)

\* The slot is settled after the step.
SettledNext(s) ==
  \/ snd_nxt'[s] = wire_end'[s]
  \/ "fin_sent" \in out_flags'[s] /\ snd_nxt'[s] = SeqAdd(wire_end'[s], 1)

-----------------------------------------------------------------------------
\* Every step of both threads.
LEMMA NextWires == Inv /\ WireInv /\ [Next]_vars => WireInv'
  \* Then nothing changes for WireInv.
  <1>SendSameWire.
    ASSUME TypeOK, WireInv, SendSame
    PROVE  WireInv'
    <2> USE <1>SendSameWire
    <2>1. UNCHANGED <<snd_nxt, out_flags, wire_end, tx_pc, tx>>
      BY Zenon DEF SendSame, outVars, txVars
    <2>2. tx.conn.slot \in Slots
      BY DEF TypeOK, CallType, TxType, ConnIds
    <2>3. SlotsSettled'
      BY <2>1, Zenon DEF SendSame, WireInv, SlotsSettled, InUse, Settled
    <2>4. OpenWire' /\ NotFinished'
      BY <2>1, Zenon DEF SendSame, WireInv, OpenWire, NotFinished
    <2>5. \A n : SegEnd(n)' = SegEnd(n)
      BY <2>1, <2>2 DEF SendSame, SegEnd
    <2>6. CallWire'
      BY <2>1, <2>5, Zenon DEF WireInv, CallWire
    <2> QED BY <2>1, <2>3, <2>4, <2>6 DEF WireInv
  \* Steps that change neither state nor tcb.
  <1>PlainSame.
    ASSUME \/ PollStart \/ ReapDone \/ ReceiveArp
           \/ \E seg \in Segments : ReceiveUnknown(seg) \/ SegmentIgnored(seg) \/ HandshakePending(seg)
           \/ AckLoadFlags \/ AckBeyond \/ DataNotDelivered \/ EndBurst \/ FlushAck
           \/ (\E sent \in 0 .. Len(control) : FlushControl(sent)) \/ PollReturn
    PROVE  SendSame
    <2> USE <1>PlainSame
    <2>1. UNCHANGED <<outVars, txVars, state, tcb>>
      BY Zenon DEF PollStart, ReapDone, ReceiveArp, ReceiveUnknown, SegmentIgnored, HandshakePending,
         AckLoadFlags, AckBeyond, DataNotDelivered, EndBurst, FlushAck, FlushControl, PollReturn,
         connVars
    <2>2. rx_pc # "open" /\ rx_pc' # "open"
      BY DEF PollStart, ReapDone, ReceiveArp, ReceiveUnknown, SegmentIgnored, HandshakePending,
         AckLoadFlags, AckBeyond, DataNotDelivered, EndBurst, FlushAck, FlushControl, PollReturn,
         Receiving, Matches, NextPacket, rxVars
    <2> QED BY <2>1, <2>2, Zenon DEF SendSame
  \* A slot that is recycled.
  <1>ReleaseSame.
    ASSUME TypeOK, ReapReleased \/ (\E seg \in Segments : HandshakeReset(seg)) \/ Finalize
    PROVE  SendSame
    <2> USE <1>ReleaseSame
    <2>1. UNCHANGED <<outVars, txVars, tcb>>
      BY Zenon DEF ReapReleased, HandshakeReset, Finalize
    <2>2. rx_pc # "open" /\ rx_pc' # "open"
      BY DEF ReapReleased, HandshakeReset, Finalize, Receiving, Matches, NextPacket, rxVars
    <2>3. state' = state \/ \E t : state' = [state EXCEPT ![t] = "free"]
      BY Zenon DEF ReapReleased, HandshakeReset, Finalize, release_slot
    <2>4. \A s \in Slots : state'[s] # "free" => state[s] # "free"
      BY <2>3, Zenon DEF TypeOK, ConnType
    <2> QED BY <2>1, <2>2, <2>4 DEF SendSame
  \* The state of a connection in use moves on.
  <1>MoveSame.
    ASSUME TypeOK, NEW t \in Slots, state[t] # "free", UNCHANGED <<outVars, txVars>>,
           rx_pc # "open", rx_pc' # "open",
           \A s \in Slots \ {t} : state'[s] = state[s],
           \A s \in Slots : tcb'[s].send_mss = tcb[s].send_mss
    PROVE  SendSame
    BY <1>MoveSame, Zenon DEF SendSame
  \* The segments of a connection.
  <1>SegmentSame.
    ASSUME Inv, NEW seg \in Segments,
           HandshakeAck(seg) \/ SegmentReset(seg) \/ SegmentNotAck(seg) \/ SegmentAck(seg)
    PROVE  SendSame
    <2> USE <1>SegmentSame
    <2> DEFINE s == flows[seg.key]
    <2>1. s \in Slots
      BY FlowSlot, Zenon DEF Inv, HandshakeAck, SegmentReset, SegmentNotAck, SegmentAck
    <2>2. UNCHANGED <<outVars, txVars>>
      BY Zenon DEF HandshakeAck, SegmentReset, SegmentNotAck, SegmentAck
    <2>3. rx_pc # "open" /\ rx_pc' # "open"
      BY Zenon DEF HandshakeAck, SegmentReset, SegmentNotAck, SegmentAck, Matches, Receiving, NextPacket
    <2>4. sync_out_flags(s) # "free"
      BY Zenon DEF HandshakeAck, SegmentReset, SegmentNotAck, SegmentAck, Synchronized
    <2>5. state[s] # "free"
      BY <2>4, Zenon DEF sync_out_flags
    <2>6. \E st : state' = [state EXCEPT ![s] = st]
      <3>1. CASE HandshakeAck(seg) BY <3>1, Zenon DEF HandshakeAck
      <3>2. CASE SegmentReset(seg) BY <3>2, Zenon DEF SegmentReset
      <3>3. CASE SegmentNotAck(seg) BY <3>3, Zenon DEF SegmentNotAck
      <3>4. CASE SegmentAck(seg) BY <3>4, Zenon DEF SegmentAck
      <3> QED BY <3>1, <3>2, <3>3, <3>4
    <2>7. \A t \in Slots \ {s} : state'[t] = state[t]
      BY <2>6, Zenon DEF Inv, TypeOK, ConnType
    <2>8. \A t \in Slots : tcb'[t].send_mss = tcb[t].send_mss
      <3>1. CASE HandshakeAck(seg)
        <4>1. tcb' = [tcb EXCEPT ![s].snd_una = seg.ack, ![s].snd_wnd = seg.window,
                                 ![s].snd_wl1 = seg.seq, ![s].snd_wl2 = seg.ack]
          BY <3>1, Zenon DEF HandshakeAck
        <4>2. tcb \in [Slots -> TcbType]
          BY DEF Inv, TypeOK, ConnType
        <4> QED BY <2>1, <4>1, <4>2 DEF TcbType
      <3>2. CASE SegmentReset(seg) \/ SegmentNotAck(seg) \/ SegmentAck(seg)
        BY <3>2, Zenon DEF SegmentReset, SegmentNotAck, SegmentAck
      <3> QED BY <3>1, <3>2, Zenon
    <2> QED BY <2>1, <2>2, <2>3, <2>5, <2>7, <2>8, <1>MoveSame DEF Inv
  \* The two steps of a segment that is taken.
  <1>AckDataSame.
    ASSUME Inv, AckProcessed \/ DataDelivered
    PROVE  SendSame
    <2> USE <1>AckDataSame
    <2> DEFINE s == rx.idx
    <2>1. s \in Slots
      BY Zenon DEF Inv, TypeOK, PollType, AckProcessed, DataDelivered
    <2>2. UNCHANGED <<outVars, txVars>>
      BY Zenon DEF AckProcessed, DataDelivered
    <2>3. rx_pc # "open" /\ rx_pc' # "open"
      BY Zenon DEF AckProcessed, DataDelivered, NextPacket
    <2>4. state' = state \/ (state[s] # "free" /\ \E st : state' = [state EXCEPT ![s] = st])
      <3>1. CASE AckProcessed
        <4>1. \/ state[s] \in {"closing", "last_ack", "fin_wait_1"} /\ \E st : state' = [state EXCEPT ![s] = st]
              \/ state' = state
          BY <3>1, Zenon DEF AckProcessed
        <4> QED BY <4>1
      <3>2. CASE DataDelivered
        <4>1. CanReceive(s) /\ \E st : state' = [state EXCEPT ![s] = st]
          BY <3>2, Zenon DEF DataDelivered
        <4> QED BY <4>1, Zenon DEF CanReceive
      <3> QED BY <3>1, <3>2
    <2>5. \A t \in Slots : state'[t] # "free" => state[t] # "free"
      BY <2>4, Zenon DEF Inv, TypeOK, ConnType
    <2>6. \A t \in Slots : tcb'[t].send_mss = tcb[t].send_mss
      <3>1. CASE AckProcessed
        <4>1. tcb' = [tcb EXCEPT ![s] = AckedTcb(tcb[s], rx.seg)]
          BY <3>1, Zenon DEF AckProcessed
        <4>2. AckedTcb(tcb[s], rx.seg).send_mss = tcb[s].send_mss
          BY <2>1 DEF AckedTcb, Inv, TypeOK, ConnType, TcbType
        <4> QED BY <2>1, <4>1, <4>2, Zenon DEF Inv, TypeOK, ConnType
      <3>2. CASE DataDelivered
        <4>1. \E x : tcb' = [tcb EXCEPT ![s].rcv_nxt_local = x]
          BY <3>2, Zenon DEF DataDelivered
        <4> QED BY <2>1, <4>1 DEF Inv, TypeOK, ConnType, TcbType
      <3> QED BY <3>1, <3>2, Zenon
    <2> QED BY <2>2, <2>3, <2>5, <2>6 DEF SendSame
  \* The slot the outbound thread works on is not one that open() is at.
  <1>HeldElsewhere.
    ASSUME Inv, Holding
    PROVE  /\ tx.conn.slot \in Slots /\ state[tx.conn.slot] # "free" /\ InUse(tx.conn.slot)
           /\ rx_pc = "open" => tx.conn.slot # rx.idx
    <2> USE <1>HeldElsewhere
    <2>1. tx.conn.slot \in Slots /\ state[tx.conn.slot] \notin {"free", "syn_received"}
      BY Zenon DEF Inv, TypeOK, CallType, TxType, ConnIds, SlotNotRecycled
    <2>2. rx_pc = "open" => state[rx.idx] = "syn_received"
      BY Zenon DEF Inv, IdsTrackSlots, OpenFresh
    <2> QED BY <2>1, <2>2, Zenon DEF InUse
  \* The points at which the call's offsets mean something.
  <1>CallPoints.
    tx_pc \in {"rcv_nxt", "build", "burst", "pull_back", "flag_fin", "fin"} => Holding
    BY DEF Holding
  \* open() takes a free slot.
  <1>OpenWires.
    ASSUME Inv, WireInv, NEW seg \in Segments, NEW iss \in Iss, Open(seg, iss)
    PROVE  WireInv'
    <2> USE <1>OpenWires
    <2> DEFINE idx == back(free_slots)
    <2>1. /\ rx_pc = "process" /\ rx_pc' = "open" /\ opening' = OpenStores
          /\ \E r : tcb' = [tcb EXCEPT ![idx] = r]
          /\ state' = [state EXCEPT ![idx] = "syn_received"]
          /\ rx' = [rx EXCEPT !.idx = idx]
          /\ UNCHANGED <<snd_nxt, out_flags, wire_end, tx_pc, tx>> /\ free_slots # <<>>
      BY Zenon DEF Open, Receiving, outVars, txVars
    <2>2. rx'.idx = idx
      BY <2>1 DEF Inv, TypeOK, PollType, RxType
    <2>3. idx \in Slots /\ state[idx] = "free"
      BY <2>1, FrontList DEF Inv, TypeOK, ListType, SlotsAccounted
    <2> HIDE DEF idx
    <2>4. \A t \in Slots \ {idx} : state'[t] = state[t] /\ tcb'[t] = tcb[t]
      BY <2>1 DEF Inv, TypeOK, ConnType
    <2>5. SlotsSettled'
      BY <2>1, <2>2, <2>4 DEF WireInv, SlotsSettled, InUse, Settled
    <2>6. OpenWire' /\ NotFinished'
      BY <2>1 DEF WireInv, OpenWire, NotFinished, OpenStores
    <2>7. tx_pc = "burst" => tx.conn.slot \in Slots \ {idx}
      BY <2>3, <1>CallPoints, <1>HeldElsewhere, Zenon
    <2>8. tx_pc = "burst" => \A n : SegEnd(n)' = SegEnd(n)
      BY <2>1, <2>4, <2>7 DEF SegEnd
    <2>9. CallWire'
      BY <2>1, <2>8 DEF WireInv, CallWire
    <2> QED BY <2>1, <2>5, <2>6, <2>9 DEF WireInv
  \* Its stores become visible.
  <1>OpenStoreWires.
    ASSUME Inv, WireInv, NEW f \in opening, OpenStore(f)
    PROVE  WireInv'
    <2> USE <1>OpenStoreWires
    <2> DEFINE s == rx.idx
               v == SeqAdd(tcb[s].iss, 1)
    <2>1. /\ rx_pc = "open" /\ opening' = opening \ {f}
          /\ snd_nxt' = IF f = "snd_nxt" THEN [snd_nxt EXCEPT ![s] = v] ELSE snd_nxt
          /\ wire_end' = IF f = "snd_nxt" THEN [wire_end EXCEPT ![s] = v] ELSE wire_end
          /\ UNCHANGED <<state, tcb, out_flags, rx_pc, rx, tx_pc, tx>>
      BY Zenon DEF OpenStore, connVars, txVars
    <2>2. s \in Slots /\ tcb[s].iss \in SeqNums
      BY <2>1, Zenon DEF Inv, TypeOK, PollType, ConnType, TcbType
    <2>3. v \in SeqNums
      BY <2>2, SeqNextType
    <2> HIDE DEF v
    <2>4. /\ wire_end' \in [Slots -> SeqNums]
          /\ \A t \in Slots \ {s} : snd_nxt'[t] = snd_nxt[t] /\ wire_end'[t] = wire_end[t]
          /\ f = "snd_nxt" => snd_nxt'[s] = v /\ wire_end'[s] = v
      BY <2>1, <2>2, <2>3, Zenon DEF WireInv, Inv, TypeOK, SharedType
    <2>5. SlotsSettled'
      BY <2>1, <2>4, Zenon DEF WireInv, SlotsSettled, InUse, Settled
    <2>6. OpenWire'
      BY <2>1, <2>4, Zenon DEF WireInv, OpenWire
    <2>7. NotFinished'
      BY <2>1, Zenon DEF WireInv, NotFinished
    <2>8. Holding => tx.conn.slot \in Slots \ {s}
      BY <2>1, <1>HeldElsewhere, Zenon
    <2>9. \A n : SegEnd(n)' = SegEnd(n)
      BY <2>1 DEF SegEnd
    <2>10. CallWire'
      BY <2>1, <2>4, <2>8, <2>9, <1>CallPoints, Zenon DEF WireInv, CallWire
    <2> QED BY <2>4, <2>5, <2>6, <2>7, <2>10, Zenon DEF WireInv
  \* The slot is in use once all of them are.
  <1>OpenPublishWires.
    ASSUME Inv, WireInv, OpenPublish
    PROVE  WireInv'
    <2> USE <1>OpenPublishWires
    <2>1. /\ rx_pc = "open" /\ opening = {} /\ rx_pc' = "process"
          /\ out_flags' = [out_flags EXCEPT ![rx.idx] = {}]
          /\ UNCHANGED <<state, tcb, snd_nxt, wire_end, tx_pc, tx>>
      BY Zenon DEF OpenPublish, NextPacket, connVars, txVars
    <2>2. rx.idx \in Slots /\ snd_nxt[rx.idx] = wire_end[rx.idx]
      BY <2>1, Zenon DEF Inv, TypeOK, PollType, WireInv, OpenWire
    <2>3. \A t \in Slots : out_flags'[t] = IF t = rx.idx THEN {} ELSE out_flags[t]
      BY <2>1, Zenon DEF Inv, TypeOK, SharedType
    <2>4. SlotsSettled'
      BY <2>1, <2>2, <2>3, Zenon DEF WireInv, SlotsSettled, InUse, Settled
    <2>5. OpenWire'
      BY <2>1 DEF OpenWire
    <2>6. tx.conn.slot \in Slots
      BY Zenon DEF Inv, TypeOK, CallType, TxType, ConnIds
    <2>7. NotFinished'
      <3>1. "fin_sent" \in out_flags'[tx.conn.slot] => "fin_sent" \in out_flags[tx.conn.slot]
        BY <2>3, <2>6
      <3> QED BY <2>1, <3>1, Zenon DEF WireInv, NotFinished
    <2>8. \A n : SegEnd(n)' = SegEnd(n)
      BY <2>1 DEF SegEnd
    <2>9. CallWire'
      BY <2>1, <2>8, Zenon DEF WireInv, CallWire
    <2> QED BY <2>1, <2>4, <2>5, <2>7, <2>9 DEF WireInv
  \* A step that touches nothing WireInv speaks of.
  <1>StillWires.
    ASSUME WireInv, UNCHANGED <<outVars, state, tcb, rx_pc, rx, opening, txVars>>
    PROVE  WireInv'
    <2> USE <1>StillWires
    <2>1. SlotsSettled' /\ OpenWire' /\ NotFinished'
      BY Zenon DEF WireInv, SlotsSettled, OpenWire, NotFinished, InUse, Settled, outVars, txVars
    <2>2. \A n : SegEnd(n)' = SegEnd(n)
      BY DEF SegEnd, txVars
    <2>3. CallWire'
      BY <2>2, Zenon DEF WireInv, CallWire, outVars, txVars
    <2> QED BY <2>1, <2>3 DEF WireInv, outVars
  \* The slots and open() do not notice.
  <1>ReadsSettled.
    ASSUME WireInv, Reads
    PROVE  /\ UNCHANGED <<outVars, state, tcb, rx_pc, rx, opening>>
           /\ tx_pc \notin AheadAt /\ tx_pc' \notin AheadAt
           /\ wire_end' \in [Slots -> SeqNums] /\ SlotsSettled' /\ OpenWire'
    <2> USE <1>ReadsSettled
    <2>1. UNCHANGED <<outVars, state, tcb, rx_pc, rx, opening>>
      BY Zenon DEF Reads, LookupGeneration, LookupFlags, LookupRecheck, Sendable, SendLimit, SendLoadAck,
         CloseCheck, CloseRetry, CloseGiveUp, Call, connVars, rxVars
    <2>2. tx_pc \notin AheadAt /\ tx_pc' \notin AheadAt
      BY Zenon DEF Reads, LookupGeneration, LookupFlags, LookupRecheck, Sendable, SendLimit, SendLoadAck,
         CloseCheck, CloseRetry, CloseGiveUp, Call, LookupNull, Return, AheadAt
    <2>3. SlotsSettled' /\ OpenWire'
      BY <2>1, <2>2, Zenon DEF WireInv, SlotsSettled, OpenWire, InUse, Settled, outVars
    <2> QED BY <2>1, <2>2, <2>3 DEF WireInv, outVars
  \* A call that returns leaves nothing to say of its offsets.
  <1>ReturnWires. ASSUME Return PROVE NotFinished' /\ CallWire'
    <2>1. tx_pc' = "idle" /\ tx'.pass = 1 /\ tx'.pass # 2 /\ tx'.done = 0
      BY <1>ReturnWires DEF Return, NoCall
    <2> QED BY <2>1, Zenon DEF NotFinished, CallWire
  \* The lookups and a new call.
  <1>LookupWires.
    ASSUME Inv, WireInv,
           LookupGeneration \/ LookupFlags \/ LookupRecheck \/ \E op, id, bytes : Call(op, id, bytes)
    PROVE  WireInv'
    <2> USE <1>LookupWires
    <2>1. /\ UNCHANGED <<outVars, state, tcb, rx_pc, rx, opening>>
          /\ wire_end' \in [Slots -> SeqNums] /\ SlotsSettled' /\ OpenWire'
      BY <1>ReadsSettled DEF Reads
    <2>2. CASE Return
      BY <2>1, <2>2, <1>ReturnWires DEF WireInv
    <2>6. tx.pass \in {1, 2}
      BY Zenon DEF Inv, TypeOK, CallType, TxType
    <2>3. CASE /\ tx_pc \in {"generation", "out_flags", "recheck"}
               /\ tx_pc' \in {"out_flags", "recheck", "sendable", "close", "limit", "fault"}
               /\ tx_pc' = "limit" => tx.pass = 2
               /\ tx_pc' = "sendable" => tx.op # "close"
               /\ tx_pc' = "close" => tx.op = "close"
               /\ tx' = [tx EXCEPT !.out = tx'.out]
      <3>1. tx'.op = tx.op /\ tx'.conn = tx.conn /\ tx'.pass = tx.pass /\ tx'.done = tx.done
        BY <2>3 DEF Inv, TypeOK, CallType, TxType
      <3>2. NotFinished' /\ CallWire'
        BY <2>1, <2>3, <2>6, <3>1 DEF WireInv, NotFinished, CallWire, outVars
      <3> QED BY <2>1, <3>2 DEF WireInv
    <2>4. CASE \E op, id, bytes : Call(op, id, bytes)
      <3>1. tx_pc' = "generation" /\ tx'.pass = 1 /\ tx'.done = 0
        BY <2>4, Zenon DEF Call, NoCall
      <3>2. NotFinished' /\ CallWire'
        BY <3>1 DEF NotFinished, CallWire
      <3> QED BY <2>1, <3>2 DEF WireInv
    <2>5. tx = [tx EXCEPT !.out = tx.out]
      BY DEF Inv, TypeOK, CallType, TxType
    <2>7. CASE LookupGeneration
      BY <2>2, <2>3, <2>5, <2>7 DEF LookupGeneration, LookupNull
    <2>8. CASE LookupFlags
      <3>1. tx'.out = out_flags[tx.conn.slot]
        BY <2>8 DEF LookupFlags, Inv, TypeOK, CallType, TxType
      <3> QED BY <2>3, <2>8, <3>1 DEF LookupFlags
    <2>9. CASE LookupRecheck
      BY <2>2, <2>3, <2>5, <2>6, <2>9 DEF LookupRecheck, LookupNull
    <2> QED BY <2>4, <2>7, <2>8, <2>9, Zenon
  \* sendable() and the steps of close() that read.
  <1>CheckWires.
    ASSUME Inv, WireInv, Sendable \/ CloseCheck \/ (\E built \in BOOLEAN : CloseRetry(built)) \/ CloseGiveUp
    PROVE  WireInv'
    <2> USE <1>CheckWires
    <2>1. /\ UNCHANGED <<outVars, state, tcb, rx_pc, rx, opening>>
          /\ wire_end' \in [Slots -> SeqNums] /\ SlotsSettled' /\ OpenWire'
      BY <1>ReadsSettled DEF Reads
    <2>2. CASE Sendable
      <3>1. CASE Return
        BY <2>1, <3>1, <1>ReturnWires DEF WireInv
      <3>2. CASE /\ "fin_sent" \notin out_flags[tx.conn.slot]
                 /\ tx_pc' = "generation" /\ tx' = [tx EXCEPT !.pass = 2]
        <4>1. tx'.op = tx.op /\ tx'.conn = tx.conn /\ tx'.done = tx.done
          BY <3>2 DEF Inv, TypeOK, CallType, TxType
        <4>2. NotFinished' /\ CallWire'
          BY <2>1, <2>2, <3>2, <4>1 DEF WireInv, NotFinished, CallWire, outVars, Sendable
        <4> QED BY <2>1, <4>2 DEF WireInv
      <3> QED BY <2>2, <3>1, <3>2 DEF Sendable
    <2>3. CASE CloseCheck
      <3>1. NotFinished' /\ CallWire'
        BY <2>1, <2>3, Zenon DEF CloseCheck, WireInv, NotFinished, CallWire, outVars
      <3> QED BY <2>1, <3>1 DEF WireInv
    <2>4. CASE CloseGiveUp
      <3>1. NotFinished' /\ CallWire'
        BY <2>1, <2>4, Zenon DEF CloseGiveUp, WireInv, NotFinished, CallWire, outVars
      <3> QED BY <2>1, <3>1 DEF WireInv
    <2>5. CASE \E built \in BOOLEAN : CloseRetry(built)
      <3>1. tx_pc = "fin" /\ tx_pc' = "fin" /\ \E a, f : tx' = [tx EXCEPT !.attempt = a, !.fin = f]
        BY <2>5, Zenon DEF CloseRetry
      <3>2. tx'.op = tx.op /\ tx'.conn = tx.conn /\ tx'.done = tx.done /\ tx'.pass = tx.pass /\ tx'.base = tx.base
        BY <3>1 DEF Inv, TypeOK, CallType, TxType
      <3>3. NotFinished' /\ CallWire'
        BY <2>1, <3>1, <3>2 DEF WireInv, NotFinished, CallWire, outVars
      <3> QED BY <2>1, <3>3 DEF WireInv
    <2> QED BY <2>2, <2>3, <2>4, <2>5, Zenon
  \* The connection of a call is settled, where snd_nxt is not ahead of the wire.
  <1>HeldSettled.
    ASSUME Inv, WireInv, Holding, tx_pc \notin AheadAt
    PROVE  /\ tx.conn.slot \in Slots /\ Settled(tx.conn.slot)
           /\ "fin_sent" \notin out_flags[tx.conn.slot]
                => snd_nxt[tx.conn.slot] = wire_end[tx.conn.slot]
    BY <1>HeldSettled, <1>HeldElsewhere, Zenon DEF WireInv, SlotsSettled, Settled
  \* send() begins at snd_nxt, with less than half the sequence space to fill.
  <1>LimitWires.
    ASSUME Inv, WireInv, SendLimit \/ SendLoadAck
    PROVE  WireInv'
    <2> USE <1>LimitWires
    <2>1. /\ UNCHANGED <<outVars, state, tcb, rx_pc, rx, opening>>
          /\ wire_end' \in [Slots -> SeqNums] /\ SlotsSettled' /\ OpenWire'
      BY <1>ReadsSettled, Zenon DEF Reads
    <2>2. tx.conn.slot \in Slots /\ snd_nxt[tx.conn.slot] \in SeqNums /\ tx.bytes \in Nat
      BY DEF Inv, TypeOK, CallType, TxType, ConnIds, SharedType
    <2>3. CASE SendLimit
      <3> DEFINE s == tx.conn.slot
                 space == window_space(send_window[s], snd_nxt[s])
                 limit == IF tx.bytes < space THEN tx.bytes ELSE space
      <3>1. CASE Return
        BY <2>1, <3>1, <1>ReturnWires, Zenon DEF WireInv
      <3>2. CASE /\ limit # 0 /\ tx' = [tx EXCEPT !.base = snd_nxt[s], !.limit = limit]
                 /\ tx_pc' = "rcv_nxt"
        <4>1. space \in Nat /\ space < Half
          BY <2>2, WindowSpaceType, WindowSpaceHalf DEF Inv, TypeOK, SharedType
        <4>2. limit \in Nat /\ limit < Half
          <5> HIDE DEF space
          <5> QED BY <2>2, <4>1, HalfFact
        <4> HIDE DEF limit
        <4>3. limit > 0
          BY <3>2, <4>2
        <4>4. /\ tx'.op = tx.op /\ tx'.conn = tx.conn /\ tx'.done = tx.done /\ tx'.pass = tx.pass
              /\ tx'.base = snd_nxt[s] /\ tx'.limit = limit
          BY <3>2 DEF Inv, TypeOK, CallType, TxType
        <4>5. tx_pc = "limit" /\ tx.done = 0
          BY <2>3, Zenon DEF SendLimit, WireInv, CallWire
        <4>6. SeqAdd(snd_nxt[s], 0) = snd_nxt[s]
          BY <2>2, SeqAddZero, Zenon
        <4>7. NotFinished'
          BY <2>1, <4>4, <4>5 DEF WireInv, NotFinished, outVars
        <4>8. CallWire'
          BY <2>1, <3>2, <4>2, <4>3, <4>4, <4>5, <4>6, Zenon DEF WireInv, CallWire, outVars
        <4> QED BY <2>1, <4>7, <4>8, Zenon DEF WireInv
      <3> QED BY <2>3, <3>1, <3>2, Zenon DEF SendLimit
    <2>4. CASE SendLoadAck
      <3>1. tx_pc = "rcv_nxt" /\ tx_pc' = "build" /\ \E a : tx' = [tx EXCEPT !.ack = a]
        BY <2>4, Zenon DEF SendLoadAck
      <3>2. /\ tx'.op = tx.op /\ tx'.conn = tx.conn /\ tx'.done = tx.done /\ tx'.pass = tx.pass
            /\ tx'.base = tx.base /\ tx'.limit = tx.limit
        BY <3>1 DEF Inv, TypeOK, CallType, TxType
      <3>3. NotFinished' /\ CallWire'
        BY <2>1, <3>1, <3>2 DEF WireInv, NotFinished, CallWire, outVars
      <3> QED BY <2>1, <3>3 DEF WireInv
    <2> QED BY <2>3, <2>4, Zenon
  \* A step of a call that writes to its slot: the other slots do not notice.
  <1>WritesSettled.
    ASSUME Inv, WireInv, Holding, UNCHANGED <<state, rx_pc, rx, opening>>,
           \A t \in Slots \ {tx.conn.slot} :
             snd_nxt'[t] = snd_nxt[t] /\ wire_end'[t] = wire_end[t] /\ out_flags'[t] = out_flags[t],
           tx_pc' \in AheadAt => tx'.conn.slot = tx.conn.slot,
           tx_pc' \notin AheadAt => SettledNext(tx.conn.slot)
    PROVE  SlotsSettled' /\ OpenWire'
    <2> USE <1>WritesSettled
    <2>1. /\ tx.conn.slot \in Slots /\ rx_pc = "open" => tx.conn.slot # rx.idx
      BY <1>HeldElsewhere, Zenon
    <2>2. \A t \in Slots : InUse(t)' <=> InUse(t)
      BY Zenon DEF InUse
    <2>3. \A t \in Slots : /\ Settled(t)' <=> SettledNext(t)
                           /\ t # tx.conn.slot /\ Settled(t) => SettledNext(t)
      BY Zenon DEF Settled, SettledNext
    <2>4. SlotsSettled'
      <3> SUFFICES ASSUME NEW t \in Slots, InUse(t), ~(tx'.conn.slot = t /\ tx_pc' \in AheadAt)
                   PROVE  SettledNext(t)
        BY <2>2, <2>3, Zenon DEF SlotsSettled
      <3>1. CASE t = tx.conn.slot
        BY <3>1, Zenon
      <3>2. CASE t # tx.conn.slot
        BY <2>3, <3>2, Zenon DEF WireInv, SlotsSettled
      <3> QED BY <3>1, <3>2, Zenon
    <2>5. OpenWire'
      BY <2>1, Zenon DEF WireInv, OpenWire, Inv, TypeOK, PollType
    <2> QED BY <2>4, <2>5, Zenon
  \* snd_nxt is published ahead of the burst that was built.
  <1>BuildWires.
    ASSUME Inv, WireInv, NEW n \in 0 .. MaxBurst, SendBuild(n)
    PROVE  WireInv'
    <2> USE <1>BuildWires
    <2> DEFINE s == tx.conn.slot
               e == SegEnd(n)
    <2>1. /\ tx_pc = "build" /\ UNCHANGED <<state, tcb, rx_pc, rx, opening, out_flags, wire_end>>
          /\ \/ Return /\ UNCHANGED snd_nxt
             \/ /\ tx' = [tx EXCEPT !.n = n, !.off = e] /\ tx_pc' = "burst"
                /\ snd_nxt' = [snd_nxt EXCEPT ![s] = SeqAdd(tx.base, e)]
      BY DEF SendBuild, connVars, rxVars
    <2>2. Holding /\ tx_pc \notin AheadAt
      BY <2>1 DEF Holding, AheadAt
    <2>3. s \in Slots /\ Settled(s) /\ "fin_sent" \notin out_flags[s]
      BY <2>1, <2>2, <1>HeldSettled DEF WireInv, NotFinished
    <2>4. wire_end[s] = SeqAdd(tx.base, tx.done) /\ tx.done < tx.limit /\ tx.limit < Half
      BY <2>1, <2>2, <2>3, <1>HeldSettled DEF WireInv, CallWire
    <2>5. CASE Return /\ UNCHANGED snd_nxt
      <3>1. SlotsSettled' /\ OpenWire'
        <4>1. SettledNext(s) /\ tx_pc' \notin AheadAt
          BY <2>1, <2>3, <2>5 DEF Settled, SettledNext, Return, AheadAt
        <4> QED BY <2>1, <2>2, <2>5, <4>1, <1>WritesSettled
      <3> QED BY <2>1, <2>5, <3>1, <1>ReturnWires DEF WireInv
    <2>6. CASE /\ tx' = [tx EXCEPT !.n = n, !.off = e] /\ tx_pc' = "burst"
               /\ snd_nxt' = [snd_nxt EXCEPT ![s] = SeqAdd(tx.base, e)]
      <3>1. /\ tx'.op = tx.op /\ tx'.conn = tx.conn /\ tx'.done = tx.done /\ tx'.pass = tx.pass /\ tx'.base = tx.base
            /\ tx'.limit = tx.limit /\ tx'.n = n /\ tx'.off = e
        BY <2>6 DEF Inv, TypeOK, CallType, TxType
      <3>2. n \in Nat /\ tx.done \in Nat /\ tx.limit \in Nat
        BY SizeAssumption DEF Inv, TypeOK, CallType, TxType
      <3>3. e \in Nat /\ tx.done <= e /\ e <= tx.limit
        <4>1. tx.done <= tx.limit
          BY <2>4, <3>2
        <4> QED BY <3>2, <4>1, SegEnds DEF Inv
      <3>4. e < Half
        BY <2>4, <3>2, <3>3, HalfFact
      <3>5. SegEnd(tx.n)' = e
        BY <2>1, <3>1 DEF SegEnd
      <3> HIDE DEF e
      <3>6. /\ snd_nxt'[s] = SeqAdd(tx.base, e)
            /\ \A t \in Slots \ {s} : snd_nxt'[t] = snd_nxt[t]
        BY <2>3, <2>6 DEF Inv, TypeOK, SharedType
      <3>7. SlotsSettled' /\ OpenWire'
        BY <2>1, <2>2, <2>6, <3>1, <3>6, <1>WritesSettled DEF AheadAt
      <3>8. NotFinished'
        BY <2>1, <2>3, <3>1 DEF NotFinished
      <3>9. CallWire'
        BY <2>1, <2>4, <2>6, <3>1, <3>3, <3>4, <3>5, <3>6, Zenon DEF WireInv, CallWire
      <3> QED BY <2>1, <3>7, <3>8, <3>9 DEF WireInv
    <2> QED BY <2>1, <2>5, <2>6
  \* The NIC takes some of the burst.
  <1>BurstWires.
    ASSUME Inv, WireInv, NEW sent \in 0 .. MaxBurst, SendBurst(sent)
    PROVE  WireInv'
    <2> USE <1>BurstWires
    <2> DEFINE s == tx.conn.slot
               e == SegEnd(sent)
    <2>1. /\ tx_pc = "burst" /\ UNCHANGED <<state, tcb, rx_pc, rx, opening, out_flags, snd_nxt>>
          /\ sent \in 0 .. tx.n
          /\ wire_end' = IF sent = 0 THEN wire_end ELSE [wire_end EXCEPT ![s] = SeqAdd(tx.base, e)]
          /\ \/ sent < tx.n /\ tx_pc' = "pull_back" /\ tx' = [tx EXCEPT !.done = e]
             \/ sent = tx.n /\ tx.off < tx.limit /\ tx_pc' = "build" /\ tx' = [tx EXCEPT !.done = tx.off]
             \/ sent = tx.n /\ Return
      <3>1. \/ sent < tx.n /\ tx_pc' = "pull_back" /\ tx' = [tx EXCEPT !.done = e]
            \/ sent = tx.n /\ tx.off < tx.limit /\ tx_pc' = "build" /\ tx' = [tx EXCEPT !.done = tx.off]
            \/ ~(sent < tx.n) /\ Return
        BY DEF SendBurst
      <3>2. sent \in 0 .. tx.n /\ tx.n \in Nat
        BY DEF SendBurst, Inv, TypeOK, CallType, TxType
      <3>3. ~(sent < tx.n) => sent = tx.n
        BY <3>2
      <3> QED BY <3>1, <3>2, <3>3 DEF SendBurst, connVars, rxVars
    <2>2. Holding
      BY <2>1 DEF Holding
    <2>3. s \in Slots /\ "fin_sent" \notin out_flags[s]
      BY <2>1, <2>2, <1>HeldElsewhere DEF WireInv, NotFinished
    <2>4. /\ tx.done < tx.limit /\ tx.limit < Half /\ tx.off = SegEnd(tx.n)
          /\ tx.done <= tx.off /\ tx.off < Half
          /\ snd_nxt[s] = SeqAdd(tx.base, tx.off) /\ wire_end[s] = SeqAdd(tx.base, tx.done)
      BY <2>1 DEF WireInv, CallWire
    <2>5. /\ sent \in Nat /\ tx.n \in Nat /\ tx.done \in Nat /\ tx.limit \in Nat /\ sent <= tx.n
          /\ tx.off \in Nat /\ tx.base \in SeqNums
      BY <2>1 DEF Inv, TypeOK, CallType, TxType
    <2>6. e \in Nat /\ tx.done <= e /\ e <= tx.off /\ (sent = 0 => e = tx.done)
      <3>1. tx.done <= tx.limit
        BY <2>4, <2>5
      <3> QED BY <2>4, <2>5, <3>1, SegEnds, Zenon DEF Inv
    <2>7. sent = tx.n => e = tx.off
      BY <2>4
    <2>8. SeqAdd(tx.base, e) \in SeqNums
      <3>1. tx.base \in Int /\ e \in Int
        BY <2>5, <2>6, SeqNumInt
      <3> QED BY <3>1, SeqTypes
    <2> HIDE DEF e
    <2>9. /\ wire_end' \in [Slots -> SeqNums] /\ wire_end'[s] = SeqAdd(tx.base, e)
          /\ \A t \in Slots \ {s} : wire_end'[t] = wire_end[t]
      BY <2>1, <2>3, <2>4, <2>6, <2>8, Zenon DEF WireInv
    <2>10. CASE sent < tx.n /\ tx_pc' = "pull_back" /\ tx' = [tx EXCEPT !.done = e]
      <3>1. /\ tx'.op = tx.op /\ tx'.conn = tx.conn /\ tx'.done = e /\ tx'.pass = tx.pass /\ tx'.base = tx.base
            /\ tx'.off = tx.off
        BY <2>10 DEF Inv, TypeOK, CallType, TxType
      <3>2. SlotsSettled' /\ OpenWire'
        BY <2>1, <2>2, <2>9, <2>10, <3>1, <1>WritesSettled DEF AheadAt
      <3>3. NotFinished'
        BY <2>1, <2>3, <3>1 DEF NotFinished
      <3>4. CallWire'
        BY <2>1, <2>4, <2>6, <2>9, <2>10, <3>1, Zenon DEF WireInv, CallWire
      <3> QED BY <2>9, <3>2, <3>3, <3>4 DEF WireInv
    <2>11. ASSUME sent = tx.n, tx_pc' \in {"build", "idle"}
           PROVE  SlotsSettled' /\ OpenWire' /\ snd_nxt'[s] = wire_end'[s]
      <3>1. snd_nxt'[s] = wire_end'[s]
        BY <2>1, <2>4, <2>7, <2>9, <2>11, Zenon
      <3>2. SettledNext(s) /\ tx_pc' \notin AheadAt
        BY <2>11, <3>1 DEF SettledNext, AheadAt
      <3> QED BY <2>1, <2>2, <2>9, <3>1, <3>2, <1>WritesSettled
    <2>12. CASE /\ sent = tx.n /\ tx.off < tx.limit /\ tx_pc' = "build"
                /\ tx' = [tx EXCEPT !.done = tx.off]
      <3>1. /\ tx'.op = tx.op /\ tx'.conn = tx.conn /\ tx'.done = tx.off /\ tx'.pass = tx.pass /\ tx'.base = tx.base
            /\ tx'.limit = tx.limit
        BY <2>12 DEF Inv, TypeOK, CallType, TxType
      <3>2. SlotsSettled' /\ OpenWire'
        BY <2>11, <2>12
      <3>3. NotFinished'
        BY <2>1, <2>3, <3>1, Zenon DEF NotFinished
      <3>4. CallWire'
        BY <2>1, <2>4, <2>12, <3>1 DEF WireInv, CallWire
      <3> QED BY <2>9, <3>2, <3>3, <3>4 DEF WireInv
    <2>13. CASE sent = tx.n /\ Return
      BY <2>9, <2>11, <2>13, <1>ReturnWires, Zenon DEF Return, WireInv
    <2> QED BY <2>1, <2>10, <2>12, <2>13
  \* What the NIC did not take is taken back.
  <1>PullBackWires.
    ASSUME Inv, WireInv, SendPullBack
    PROVE  WireInv'
    <2> USE <1>PullBackWires
    <2> DEFINE s == tx.conn.slot
    <2>1. /\ tx_pc = "pull_back" /\ Return
          /\ UNCHANGED <<state, tcb, rx_pc, rx, opening, out_flags, wire_end>>
          /\ snd_nxt' = [snd_nxt EXCEPT ![s] = SeqAdd(tx.base, tx.done)]
      BY DEF SendPullBack, connVars, rxVars
    <2>2. Holding
      BY <2>1 DEF Holding
    <2>3. s \in Slots /\ wire_end[s] = SeqAdd(tx.base, tx.done)
      BY <2>1, <2>2, <1>HeldElsewhere, Zenon DEF WireInv, CallWire
    <2>4. snd_nxt'[s] = wire_end'[s] /\ \A t \in Slots \ {s} : snd_nxt'[t] = snd_nxt[t]
      BY <2>1, <2>3, Zenon DEF Inv, TypeOK, SharedType
    <2>5. SettledNext(s) /\ tx_pc' \notin AheadAt
      BY <2>1, <2>4 DEF SettledNext, Return, AheadAt
    <2>6. SlotsSettled' /\ OpenWire'
      BY <2>1, <2>2, <2>4, <2>5, <1>WritesSettled, Zenon
    <2> QED BY <2>1, <2>6, <1>ReturnWires, Zenon DEF WireInv
  \* close() counts the FIN, says so, and sends it.
  <1>CloseWires.
    ASSUME Inv, WireInv, CloseCountFin \/ CloseFlagFin \/ CloseSendFin
    PROVE  WireInv'
    <2> USE <1>CloseWires
    <2> DEFINE s == tx.conn.slot
    <2>1. UNCHANGED <<state, tcb, rx_pc, rx, opening>>
      BY DEF CloseCountFin, CloseFlagFin, CloseSendFin, connVars, rxVars
    <2>2. Holding
      BY DEF CloseCountFin, CloseFlagFin, CloseSendFin, Holding
    <2>3. s \in Slots /\ tx.pass \in {1, 2} /\ tx.base \in SeqNums
      BY DEF Inv, TypeOK, CallType, TxType, ConnIds
    <2>4. CASE CloseCountFin
      <3>1. /\ tx_pc = "count_fin" /\ tx_pc' = "flag_fin" /\ tx' = [tx EXCEPT !.base = snd_nxt[s]]
            /\ snd_nxt' = [snd_nxt EXCEPT ![s] = SeqAdd(@, 1)] /\ UNCHANGED <<out_flags, wire_end>>
        BY <2>4, Zenon DEF CloseCountFin
      <3>2. "fin_sent" \notin out_flags[s] /\ snd_nxt[s] = wire_end[s]
        <4>1. tx_pc \notin AheadAt /\ "fin_sent" \notin out_flags[s]
          BY <3>1 DEF AheadAt, WireInv, NotFinished
        <4> QED BY <2>2, <4>1, <1>HeldSettled
      <3>3. tx'.op = tx.op /\ tx'.conn = tx.conn /\ tx'.done = tx.done /\ tx'.pass = tx.pass /\ tx'.base = snd_nxt[s]
        BY <3>1 DEF Inv, TypeOK, CallType, TxType
      <3>4. /\ snd_nxt'[s] = SeqAdd(snd_nxt[s], 1)
            /\ \A t \in Slots \ {s} : snd_nxt'[t] = snd_nxt[t]
        BY <2>3, <3>1 DEF Inv, TypeOK, SharedType
      <3>5. SlotsSettled' /\ OpenWire'
        BY <2>1, <2>2, <3>1, <3>3, <3>4, <1>WritesSettled, Zenon DEF AheadAt
      <3>6. NotFinished' /\ CallWire'
        BY <3>1, <3>2, <3>3, <3>4, Zenon DEF WireInv, NotFinished, CallWire
      <3> QED BY <3>1, <3>5, <3>6 DEF WireInv
    <2>5. CASE CloseFlagFin
      <3>1. /\ tx_pc = "flag_fin" /\ tx_pc' = "fin" /\ tx' = tx /\ UNCHANGED <<snd_nxt, wire_end>>
            /\ out_flags' = [out_flags EXCEPT ![s] = @ \cup {"fin_sent"}]
        BY <2>5 DEF CloseFlagFin
      <3>2. snd_nxt[s] = SeqAdd(tx.base, 1) /\ wire_end[s] = tx.base /\ tx.done = 0
        BY <3>1, Zenon DEF WireInv, CallWire
      <3>3. /\ "fin_sent" \in out_flags'[s]
            /\ \A t \in Slots \ {s} : out_flags'[t] = out_flags[t]
        BY <2>3, <3>1 DEF Inv, TypeOK, SharedType
      <3>4. SettledNext(s)
        BY <3>1, <3>2, <3>3, Zenon DEF SettledNext
      <3>5. SlotsSettled' /\ OpenWire'
        BY <2>1, <2>2, <3>1, <3>3, <3>4, <1>WritesSettled, Zenon
      <3>6. tx.pass = 1
        BY <3>1, Zenon DEF WireInv, CallWire
      <3>7. NotFinished' /\ CallWire'
        <4>1. /\ tx_pc' = "fin" /\ tx' = tx /\ tx.pass = 1 /\ tx.done = 0
              /\ snd_nxt'[s] = SeqAdd(tx.base, 1) /\ wire_end'[s] = tx.base
          BY <3>1, <3>2, <3>6, Zenon
        <4>2. tx'.pass # 2
          BY <4>1
        <4> QED BY <4>1, <4>2, Zenon DEF NotFinished, CallWire
      <3> QED BY <3>1, <3>5, <3>7, Zenon DEF WireInv
    <2>6. CASE CloseSendFin
      <3>1. /\ tx_pc = "fin" /\ tx_pc' = "release" /\ tx' = [tx EXCEPT !.fin = FinAck]
            /\ UNCHANGED <<snd_nxt, out_flags>>
            /\ wire_end' = [wire_end EXCEPT ![s] = SeqAdd(tx.base, 1)]
        BY <2>6 DEF CloseSendFin
      <3>2. snd_nxt[s] = SeqAdd(tx.base, 1) /\ tx.done = 0
        BY <3>1 DEF WireInv, CallWire
      <3>3. tx'.op = tx.op /\ tx'.conn = tx.conn /\ tx'.done = tx.done /\ tx'.pass = tx.pass
        BY <3>1 DEF Inv, TypeOK, CallType, TxType
      <3>4. SeqAdd(tx.base, 1) \in SeqNums
        BY <2>3, SeqNextType
      <3>5. /\ wire_end' \in [Slots -> SeqNums] /\ wire_end'[s] = snd_nxt'[s]
            /\ \A t \in Slots \ {s} : wire_end'[t] = wire_end[t]
        BY <2>3, <3>1, <3>2, <3>4, Zenon DEF WireInv
      <3>6. SlotsSettled' /\ OpenWire'
        BY <2>1, <2>2, <3>1, <3>5, <1>WritesSettled, Zenon DEF AheadAt, SettledNext
      <3>7. NotFinished' /\ CallWire'
        BY <3>1, <3>2, <3>3, Zenon DEF WireInv, NotFinished, CallWire
      <3> QED BY <3>5, <3>6, <3>7, Zenon DEF WireInv
    <2> QED BY <2>4, <2>5, <2>6
  \* The last store of close().
  <1>ReleaseWires.
    ASSUME Inv, WireInv, CloseRelease
    PROVE  WireInv'
    <2> USE <1>ReleaseWires
    <2> DEFINE s == tx.conn.slot
    <2>1. /\ tx_pc = "release" /\ Return
          /\ UNCHANGED <<state, tcb, rx_pc, rx, opening, snd_nxt, wire_end>>
          /\ out_flags' = [out_flags EXCEPT ![s] = @ \cup {"released"}]
      BY Zenon DEF CloseRelease, connVars, rxVars
    <2>2. Holding /\ tx_pc \notin AheadAt /\ tx_pc' \notin AheadAt
      BY <2>1, Zenon DEF Holding, AheadAt, Return
    <2>3. s \in Slots /\ Settled(s)
      BY <2>2, <1>HeldSettled, Zenon
    <2>4. /\ "fin_sent" \in out_flags'[s] <=> "fin_sent" \in out_flags[s]
          /\ \A t \in Slots \ {s} : out_flags'[t] = out_flags[t]
      BY <2>1, <2>3 DEF Inv, TypeOK, SharedType
    <2>5. SettledNext(s)
      BY <2>1, <2>3, <2>4, Zenon DEF Settled, SettledNext
    <2>6. SlotsSettled' /\ OpenWire'
      BY <2>1, <2>2, <2>4, <2>5, <1>WritesSettled, Zenon
    <2> QED BY <2>1, <2>6, <1>ReturnWires, Zenon DEF WireInv
  <1> SUFFICES ASSUME Inv, WireInv, [Next]_vars PROVE WireInv'
    BY Zenon
  <1>1. CASE UNCHANGED vars
    BY <1>1, <1>StillWires DEF vars, connVars, rxVars
  <1>2. CASE Receive
    <2>1. CASE \E seg \in Segments, iss \in Iss : Open(seg, iss)
      BY <2>1, <1>OpenWires
    <2>2. CASE ReceiveArp \/ \E seg \in Segments : ReceiveUnknown(seg) \/ ProcessSegment(seg)
      <3>1. SendSame
        BY <2>2, <1>PlainSame, <1>ReleaseSame, <1>SegmentSame, Zenon DEF ProcessSegment, Inv
      <3> QED BY <3>1, <1>SendSameWire DEF Inv
    <2> QED BY <1>2, <2>1, <2>2, Zenon DEF Receive
  <1>3. CASE Inbound
    <2>1. CASE \E f \in opening : OpenStore(f)
      BY <2>1, <1>OpenStoreWires
    <2>2. CASE OpenPublish
      BY <2>2, <1>OpenPublishWires
    <2>3. CASE Inbound /\ ~OpenPublish /\ ~\E f \in opening : OpenStore(f)
      <3>1. SendSame
        BY <2>3, <1>PlainSame, <1>ReleaseSame, <1>AckDataSame, Zenon DEF Inbound, Inv
      <3> QED BY <3>1, <1>SendSameWire DEF Inv
    <2> QED BY <1>3, <2>1, <2>2, <2>3
  <1>4. CASE Outbound
    BY <1>4, <1>LookupWires, <1>CheckWires, <1>LimitWires, <1>BuildWires, <1>BurstWires, <1>PullBackWires,
       <1>CloseWires, <1>ReleaseWires, Zenon DEF Outbound
  <1>5. CASE Application
    <2>1. CASE \E id : Forget(id)
      BY <2>1, <1>StillWires DEF Forget, connVars, rxVars
    <2>2. CASE \E op, id, bytes : Call(op, id, bytes)
      BY <2>2, <1>LookupWires, Zenon
    <2> QED BY <1>5, <2>1, <2>2, Zenon DEF Application
  <1> QED BY <1>1, <1>2, <1>3, <1>4, <1>5 DEF Next

\* Nothing is in use, sent or being sent at first.
LEMMA InitWires == Init => WireInv
  <1> SUFFICES ASSUME Init PROVE WireInv
    OBVIOUS
  <1>1. 0 \in SeqNums
    BY SeqNumsInt
  <1>2. SlotsSettled /\ OpenWire
    BY Zenon DEF Init, StackInit, SlotsSettled, InUse, OpenWire
  <1>3. NotFinished /\ CallWire
    <2>1. tx_pc = "idle" /\ tx.pass = 1 /\ tx.pass # 2 /\ tx.done = 0
      <3>1. tx_pc = "idle" /\ tx = NoCall
        BY Zenon DEF Init, StackInit
      <3> QED BY <3>1 DEF NoCall
    <2> QED BY <2>1, Zenon DEF NotFinished, CallWire
  <1> QED BY <1>1, <1>2, <1>3 DEF Init, StackInit, WireInv

\* The inductive invariant of the send side.
THEOREM WireHolds == Spec => [](Inv /\ WireInv)
  <1> QED BY InvHolds, InitWires, NextWires, PTL DEF Spec

\* The inbound thread never takes an acknowledgement of bytes on the wire for one of
\* something never sent.
THEOREM SndNxtCoversWireHolds == Spec => []SndNxtCoversWire
  <1>1. ASSUME Inv, WireInv
        PROVE  SndNxtCoversWire
    <2> SUFFICES ASSUME NEW s \in Slots, InUse(s)
                 PROVE  seq_leq(wire_end[s], snd_nxt[s])
      BY Zenon DEF SndNxtCoversWire
    <2>1. wire_end[s] \in SeqNums /\ 1 < Half /\ 0 < Half
      BY <1>1, HalfFact DEF WireInv
    <2>2. seq_leq(wire_end[s], SeqAdd(wire_end[s], 1))
      <3>1. seq_leq(SeqAdd(wire_end[s], 0), SeqAdd(wire_end[s], 1))
        BY <2>1, SeqOrder
      <3> QED BY <2>1, <3>1, SeqAddZero
    <2>3. CASE Settled(s)
      BY <2>2, <2>3 DEF Settled, seq_leq
    <2>4. CASE tx.conn.slot = s /\ tx_pc = "flag_fin"
      BY <1>1, <2>2, <2>4, Zenon DEF WireInv, CallWire
    <2>5. CASE tx.conn.slot = s /\ tx_pc \in {"burst", "pull_back"}
      <3>1. /\ tx.done <= tx.off /\ tx.off < Half /\ snd_nxt[s] = SeqAdd(tx.base, tx.off)
            /\ wire_end[s] = SeqAdd(tx.base, tx.done)
        BY <1>1, <2>5, Zenon DEF WireInv, CallWire
      <3>2. tx.done \in Nat /\ tx.off \in Nat /\ tx.base \in SeqNums
        BY <1>1 DEF Inv, TypeOK, CallType, TxType
      <3> QED BY <3>1, <3>2, SeqOrder, Zenon
    <2> QED BY <1>1, <2>3, <2>4, <2>5, Zenon DEF WireInv, SlotsSettled, AheadAt
  <1> QED BY <1>1, WireHolds, PTL

\* Whatever part of each burst the NIC takes, snd_nxt is back at the end of it when
\* send() returns.
THEOREM SndNxtExactHolds == Spec => []SndNxtExactBetweenCalls
  <1>1. WireInv => SndNxtExactBetweenCalls
    BY Zenon DEF WireInv, SlotsSettled, Settled, AheadAt, SndNxtExactBetweenCalls
  <1> QED BY <1>1, WireHolds, PTL
=============================================================================
