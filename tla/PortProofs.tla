----------------------------- MODULE PortProofs -----------------------------
(***************************************************************************)
(* For any number of port objects, devices and queues: a running device    *)
(* has one owner, and no queue is handed out twice.  For any number of     *)
(* mbufs, packets and bursts beside them: every mbuf has one holder, and   *)
(* no burst outgrows its storage.                                          *)
(***************************************************************************)
EXTENDS Packets, TLAPS

\* handed, for the device of an owner, is what the owner has marked as claimed; only an
\* owner has queues to hand out.
ClaimsMatchHanded ==
  \A o \in Objects :
    /\ ~owns_device[o] => queues[o] = {}
    /\ owns_device[o] =>
         \A q \in Queues : handed[port_id[o]][q] = IF q \in claimed[o] THEN 1 ELSE 0

\* Everything before an owner's cursor is claimed.
CursorPastClaimed ==
  \A o \in Objects, k \in Kinds : \A i \in Ids(k) :
    owns_device[o] /\ i < cursor[o][k] => <<k, i>> \in claimed[o]

Inv == TypeOK /\ OneOwner /\ ClaimsMatchHanded /\ CursorPastClaimed

\* Nothing is constructed at first.
LEMMA InitInv == Init => Inv
  BY NQueuesAssumption DEF Init, Inv, TypeOK, OneOwner, ClaimsMatchHanded, CursorPastClaimed,
     Queues, Kinds, Ids, Count

\* The constructor, the two moves, the destructor and the two claim forms keep Inv.
LEMMA ConstructInv ==
  ASSUME Inv, NEW o \in Objects, NEW d \in Devices, Construct(o, d)
  PROVE  Inv'
  <1>1. TypeOK'
    BY NQueuesAssumption, Zenon DEF Inv, TypeOK, Construct, Queues, Kinds, Ids, Count
  <1>2. OneOwner'
    BY DEF Inv, TypeOK, OneOwner, Construct
  <1>3. ClaimsMatchHanded'
    BY DEF Inv, TypeOK, OneOwner, ClaimsMatchHanded, Construct
  <1>4. CursorPastClaimed'
    BY NQueuesAssumption DEF Inv, TypeOK, CursorPastClaimed, Construct, Ids, Count
  <1> QED BY <1>1, <1>2, <1>3, <1>4 DEF Inv

\* The move constructor hands device, queues and claims to the new object.
LEMMA MoveConstructInv ==
  ASSUME Inv, NEW o \in Objects, NEW from \in Objects, MoveConstruct(o, from)
  PROVE  Inv'
  <1>1. TypeOK'
    BY Zenon DEF Inv, TypeOK, MoveConstruct, Take
  <1>2. OneOwner'
    BY DEF Inv, TypeOK, OneOwner, MoveConstruct, Take
  <1>3. ClaimsMatchHanded'
    BY DEF Inv, TypeOK, OneOwner, ClaimsMatchHanded, MoveConstruct, Take
  <1>4. CursorPastClaimed'
    BY DEF Inv, TypeOK, CursorPastClaimed, MoveConstruct, Take
  <1> QED BY <1>1, <1>2, <1>3, <1>4 DEF Inv

\* Move assignment closes the device of the target and takes over the source.
LEMMA MoveAssignInv ==
  ASSUME Inv, NEW o \in Objects, NEW from \in Objects, MoveAssign(o, from)
  PROVE  Inv'
  <1>1. TypeOK'
    BY Zenon DEF Inv, TypeOK, MoveAssign, Take, Closed
  <1>2. OneOwner'
    <2>1. /\ o \in alive /\ from \in alive /\ o # from /\ alive' = alive
          /\ port_id' = [port_id EXCEPT ![o] = port_id[from]]
          /\ owns_device' = [owns_device EXCEPT ![o] = owns_device[from], ![from] = FALSE]
          /\ started' = IF owns_device[o] THEN started \ {port_id[o]} ELSE started
      BY DEF MoveAssign, Take, Closed
    <2>2. ASSUME NEW d \in started'
          PROVE  \E p \in alive' : owns_device'[p] /\ port_id'[p] = d
      <3>1. PICK p \in alive : owns_device[p] /\ port_id[p] = d
        BY <2>1, <2>2 DEF Inv, OneOwner
      <3>2. p # o
        BY <2>1, <2>2, <3>1
      <3>3. CASE p = from
        BY <2>1, <3>1, <3>3 DEF Inv, TypeOK
      <3>4. CASE p # from
        BY <2>1, <3>1, <3>2, <3>4 DEF Inv, TypeOK
      <3> QED BY <3>3, <3>4
    <2>3. ASSUME NEW p \in Objects, owns_device'[p]
          PROVE  p \in alive' /\ port_id'[p] \in started'
      BY <2>1, <2>3 DEF Inv, TypeOK, OneOwner
    <2>4. ASSUME NEW p \in Objects, NEW q \in Objects, owns_device'[p], owns_device'[q],
                 port_id'[p] = port_id'[q]
          PROVE  p = q
      BY <2>1, <2>4 DEF Inv, TypeOK, OneOwner
    <2> QED BY <2>2, <2>3, <2>4 DEF OneOwner
  <1>3. ClaimsMatchHanded'
    BY DEF Inv, TypeOK, OneOwner, ClaimsMatchHanded, MoveAssign, Take, Closed
  <1>4. CursorPastClaimed'
    BY DEF Inv, TypeOK, CursorPastClaimed, MoveAssign, Take
  <1> QED BY <1>1, <1>2, <1>3, <1>4 DEF Inv

\* The destructor closes the device only of its owner.
LEMMA DestroyInv ==
  ASSUME Inv, NEW o \in Objects, Destroy(o)
  PROVE  Inv'
  <1>1. TypeOK'
    BY DEF Inv, TypeOK, Destroy, Closed
  <1>2. OneOwner'
    BY DEF Inv, TypeOK, OneOwner, Destroy, Closed
  <1>3. ClaimsMatchHanded'
    BY DEF Inv, TypeOK, OneOwner, ClaimsMatchHanded, Destroy, Closed
  <1>4. CursorPastClaimed'
    BY DEF Inv, TypeOK, CursorPastClaimed, Destroy
  <1> QED BY <1>1, <1>2, <1>3, <1>4 DEF Inv

\* Handing out an unclaimed queue keeps the claims and the counts in step.
LEMMA HandMatches ==
  ASSUME Inv, NEW o \in Objects, NEW q \in Queues, q \in queues[o], q \notin claimed[o],
         Hand(o, q), UNCHANGED <<alive, port_id, owns_device, queues, started>>
  PROVE  ClaimsMatchHanded' /\ claimed' \in [Objects -> SUBSET Queues]
         /\ handed' \in [Devices -> [Queues -> Nat]] /\ OneOwner'
  <1>1. owns_device[o]
    BY DEF Inv, ClaimsMatchHanded
  <1>2. claimed' \in [Objects -> SUBSET Queues] /\ handed' \in [Devices -> [Queues -> Nat]]
    BY DEF Inv, TypeOK, Hand
  <1>3. OneOwner'
    BY DEF Inv, OneOwner
  <1>4. ASSUME NEW p \in Objects
        PROVE  /\ ~owns_device'[p] => queues'[p] = {}
               /\ owns_device'[p] =>
                    \A r \in Queues : handed'[port_id'[p]][r] = IF r \in claimed'[p] THEN 1 ELSE 0
    <2>1. CASE p = o
      BY <1>1, <2>1 DEF Inv, TypeOK, Hand, ClaimsMatchHanded
    <2>2. CASE p # o
      BY <1>1, <2>2 DEF Inv, TypeOK, OneOwner, Hand, ClaimsMatchHanded
    <2> QED BY <2>1, <2>2
  <1> QED BY <1>2, <1>3, <1>4 DEF ClaimsMatchHanded

\* claim_by_id hands out a queue nobody has.
LEMMA ClaimByIdInv ==
  ASSUME Inv, NEW o \in Objects, NEW q \in Queues, claim_by_id(o, q)
  PROVE  Inv'
  <1>1. /\ q \in queues[o] /\ q \notin claimed[o] /\ Hand(o, q)
        /\ UNCHANGED <<alive, port_id, owns_device, queues, started>> /\ UNCHANGED cursor
    BY DEF claim_by_id
  <1>2. ClaimsMatchHanded' /\ OneOwner' /\ TypeOK'
    BY <1>1, HandMatches DEF Inv, TypeOK
  <1>3. CursorPastClaimed'
    BY <1>1 DEF Inv, TypeOK, CursorPastClaimed, Hand
  <1> QED BY <1>2, <1>3 DEF Inv

\* claim_next hands out a queue nobody has and passes over none that is left.
LEMMA ClaimNextInv ==
  ASSUME Inv, NEW o \in Objects, NEW k \in Kinds, claim_next(o, k)
  PROVE  Inv'
  <1>1. cursor[o][k] \in Nat
    BY DEF Inv, TypeOK
  <1>2. PICK c \in cursor[o][k] .. (cursor[o][k] + Count(k)) :
          /\ \A i \in cursor[o][k] .. (c - 1) : <<k, i>> \in queues[o] /\ <<k, i>> \in claimed[o]
          /\ <<k, c>> \in queues[o] => <<k, c>> \notin claimed[o]
          /\ IF <<k, c>> \in queues[o]
             THEN Hand(o, <<k, c>>) /\ cursor' = [cursor EXCEPT ![o][k] = c + 1]
             ELSE cursor' = [cursor EXCEPT ![o][k] = c] /\ UNCHANGED <<claimed, handed>>
    BY DEF claim_next
  <1>3. c \in Nat
    BY <1>1, NQueuesAssumption DEF Count
  <1>4. UNCHANGED <<alive, port_id, owns_device, queues, started>>
    BY DEF claim_next
  <1>5. ASSUME NEW i \in Ids(k), i < c, owns_device[o]
        PROVE  <<k, i>> \in claimed[o]
    <2>1. CASE i < cursor[o][k]
      BY <1>5, <2>1 DEF Inv, CursorPastClaimed
    <2>2. CASE ~(i < cursor[o][k])
      BY <1>1, <1>2, <1>3, <1>5, <2>2 DEF Ids, Count
    <2> QED BY <2>1, <2>2
  <1>6. CASE <<k, c>> \in queues[o]
    <2>1. <<k, c>> \in Queues
      BY <1>6 DEF Inv, TypeOK
    <2>2. Hand(o, <<k, c>>) /\ <<k, c>> \notin claimed[o]
          /\ cursor' = [cursor EXCEPT ![o][k] = c + 1]
      BY <1>2, <1>6
    <2>3. ClaimsMatchHanded' /\ OneOwner' /\ TypeOK'
      BY <1>3, <1>4, <1>6, <2>1, <2>2, HandMatches DEF Inv, TypeOK
    <2>4. CursorPastClaimed'
      <3>1. claimed' = [claimed EXCEPT ![o] = @ \cup {<<k, c>>}]
        BY <2>2 DEF Hand
      <3>2. ASSUME NEW p \in Objects, NEW l \in Kinds, NEW i \in Ids(l),
                   owns_device'[p], i < cursor'[p][l]
            PROVE  <<l, i>> \in claimed'[p]
        <4>1. CASE p = o /\ l = k
          <5>1. i < c + 1
            BY <2>2, <3>2, <4>1 DEF Inv, TypeOK
          <5>2. i < c \/ i = c
            BY <1>3, <5>1 DEF Ids, Count
          <5> QED BY <1>4, <1>5, <3>1, <3>2, <4>1, <5>2 DEF Inv, TypeOK
        <4>2. CASE ~(p = o /\ l = k)
          <5>1. i < cursor[p][l]
            BY <2>2, <3>2, <4>2 DEF Inv, TypeOK
          <5> QED BY <1>4, <3>1, <3>2, <5>1 DEF Inv, TypeOK, CursorPastClaimed
        <4> QED BY <4>1, <4>2
      <3> QED BY <3>2 DEF CursorPastClaimed
    <2> QED BY <2>3, <2>4 DEF Inv
  <1>7. CASE <<k, c>> \notin queues[o]
    <2>1. cursor' = [cursor EXCEPT ![o][k] = c] /\ UNCHANGED <<claimed, handed>>
      BY <1>2, <1>7
    <2>2. TypeOK' /\ OneOwner' /\ ClaimsMatchHanded'
      BY <1>3, <1>4, <2>1 DEF Inv, TypeOK, OneOwner, ClaimsMatchHanded
    <2>3. CursorPastClaimed'
      BY <1>4, <1>5, <2>1 DEF Inv, TypeOK, CursorPastClaimed
    <2> QED BY <2>2, <2>3 DEF Inv
  <1> QED BY <1>6, <1>7

\* Inv is an invariant of every program of ports and packets.
THEOREM InvHolds == PacketsSpec => []Inv
  <1>1. ASSUME Inv, [Next]_vars
        PROVE  Inv'
    <2>1. CASE UNCHANGED vars
      BY <1>1, <2>1 DEF vars, Inv, TypeOK, OneOwner, ClaimsMatchHanded, CursorPastClaimed
    <2>2. CASE Next
      BY <1>1, <2>2, ConstructInv, MoveConstructInv, MoveAssignInv, DestroyInv,
         ClaimNextInv, ClaimByIdInv DEF Next
    <2> QED BY <1>1, <2>1, <2>2
  <1>2. PacketsInit => Init
    BY DEF PacketsInit
  <1>3. [PacketsNext]_allVars => [Next]_vars
    BY DEF PacketsNext, PortStep, allVars
  <1> QED BY InitInv, <1>1, <1>2, <1>3, PTL DEF PacketsSpec

\* A running device always has exactly one owner (the moves and the destructor).
THEOREM OneOwnerHolds == PacketsSpec => []OneOwner
  <1>1. Inv => OneOwner
    BY DEF Inv
  <1> QED BY <1>1, InvHolds, PTL

\* No mix of claim_*_queue(), claim_*_queue(id) and moves hands a queue out twice.
THEOREM HandedOnceHolds == PacketsSpec => []HandedOnce
  <1>1. Inv => HandedOnce
    BY DEF Inv, TypeOK, OneOwner, ClaimsMatchHanded, HandedOnce
  <1> QED BY <1>1, InvHolds, PTL

\* claim_next passes over no queue that was not handed out.
THEOREM NothingSkippedHolds == PacketsSpec => []NothingSkipped
  <1>1. Inv => NothingSkipped
    BY DEF Inv, ClaimsMatchHanded, CursorPastClaimed, NothingSkipped, Queues
  <1> QED BY <1>1, InvHolds, PTL
-----------------------------------------------------------------------------
(***************************************************************************)
(* Packets, bursts and rings                                               *)
(***************************************************************************)

BufType ==
  /\ held \in [Batches -> Seq(Maybe)] /\ free \in [Mbufs -> Nat]
  /\ rx_ring \in [Devices -> SUBSET Mbufs] /\ tx_ring \in [Devices -> SUBSET Mbufs]
  /\ started \subseteq Devices

InPackets(m) == \E b \in Batches : \E i \in DOMAIN held[b] : held[b][i] = m
InRx(m) == \E d \in Devices : m \in rx_ring[d]
InTx(m) == \E d \in Devices : m \in tx_ring[d]

\* m is in one packet at most, in one ring at most, not in both, and in the pool exactly
\* when it is in neither.
Apart(m) ==
  /\ \A b, c \in Batches : \A i \in DOMAIN held[b], j \in DOMAIN held[c] :
       held[b][i] = m /\ held[c][j] = m => b = c /\ i = j
  /\ \A d, e \in Devices : m \in rx_ring[d] /\ m \in rx_ring[e] => d = e
  /\ \A d, e \in Devices : m \in tx_ring[d] /\ m \in tx_ring[e] => d = e
  /\ ~(InPackets(m) /\ InRx(m)) /\ ~(InPackets(m) /\ InTx(m)) /\ ~(InRx(m) /\ InTx(m))
  /\ free[m] = IF InPackets(m) \/ InRx(m) \/ InTx(m) THEN 0 ELSE 1

HolderInv == BufType /\ (\A m \in Mbufs : Apart(m)) /\ BurstFits

\* The last two lines of Apart.
Placed(m) ==
  /\ ~(InPackets(m) /\ InRx(m)) /\ ~(InPackets(m) /\ InTx(m)) /\ ~(InRx(m) /\ InTx(m))
  /\ free[m] = IF InPackets(m) \/ InRx(m) \/ InTx(m) THEN 0 ELSE 1

\* What there is to show where packets stay as they are.
LEMMA StillApart ==
  ASSUME NEW m \in Mbufs, Apart(m), held' = held, Placed(m)',
         \A d, e \in Devices : m \in rx_ring'[d] /\ m \in rx_ring'[e] => d = e,
         \A d, e \in Devices : m \in tx_ring'[d] /\ m \in tx_ring'[e] => d = e
  PROVE  Apart(m)'
  <1>1. \A b, c \in Batches : \A i \in DOMAIN held[b], j \in DOMAIN held[c] :
          held[b][i] = m /\ held[c][j] = m => b = c /\ i = j
    BY Zenon DEF Apart
  <1>2. \A b, c \in Batches : \A i \in DOMAIN held'[b], j \in DOMAIN held'[c] :
          held'[b][i] = m /\ held'[c][j] = m => b = c /\ i = j
    BY <1>1
  <1> QED BY <1>2, Zenon DEF Apart, Placed

\* Nothing is allocated at first.
LEMMA InitHolder == PacketsInit => HolderInv
  <1> SUFFICES ASSUME PacketsInit PROVE HolderInv
    OBVIOUS
  <1>1. \A b \in Batches : held[b] = IF b \in Locals THEN <<NullPtr>> ELSE <<>>
    BY DEF PacketsInit
  <1>2. <<NullPtr>> \in Seq(Maybe) /\ <<>> \in Seq(Maybe)
    BY DEF Maybe
  <1>3. BufType
    BY <1>2 DEF PacketsInit, Init, BufType
  <1>4. ASSUME NEW m \in Mbufs PROVE Apart(m)
    <2>1. ~InPackets(m)
      BY <1>1, PacketsAssumption DEF InPackets
    <2>2. ~InRx(m) /\ ~InTx(m) /\ free[m] = 1
      BY DEF PacketsInit, InRx, InTx
    <2> QED BY <2>1, <2>2 DEF Apart, InPackets, InRx, InTx
  <1>5. BurstFits
    BY <1>1, PacketsAssumption DEF BurstFits, Batches
  <1> QED BY <1>3, <1>4, <1>5 DEF HolderInv

\* What the destructors of a sequence of packets free.
LEMMA OwnedAre ==
  ASSUME NEW q, NEW m \in Mbufs
  PROVE  m \in Owned(q) <=> \E i \in DOMAIN q : q[i] = m
  BY PacketsAssumption DEF Owned

\* Batch b is assigned the packets q, and frees those it had.  The new ones hold mbufs of
\* the pool or of an RX ring, each once.
Replaces(b, q) ==
  /\ held' = [held EXCEPT ![b] = q] /\ (b \in Bursts => Len(q) <= MaxSize)
  /\ \A i, j \in DOMAIN q : q[i] = q[j] /\ q[i] # NullPtr => i = j
  /\ free' \in [Mbufs -> Nat] /\ rx_ring' \in [Devices -> SUBSET Mbufs]
  /\ tx_ring' = tx_ring /\ started' = started
  /\ \A m \in Mbufs :
       /\ (\E i \in DOMAIN q : q[i] = m) =>
             ~InPackets(m) /\ ~InTx(m) /\ \A d \in Devices : m \notin rx_ring'[d]
       /\ free'[m] = IF \E i \in DOMAIN q : q[i] = m THEN 0
                     ELSE IF m \in Owned(held[b]) THEN 1 ELSE free[m]
       /\ (\A i \in DOMAIN q : q[i] # m) =>
             \A d \in Devices : m \in rx_ring'[d] <=> m \in rx_ring[d]

\* Such a step keeps every mbuf with one holder.
LEMMA Replaced ==
  ASSUME HolderInv, NEW b \in Batches, NEW q \in Seq(Maybe), Replaces(b, q)
  PROVE  HolderInv'
  <1> USE DEF Replaces
  <1>1. /\ held \in [Batches -> Seq(Maybe)] /\ held'[b] = q
        /\ \A c \in Batches \ {b} : held'[c] = held[c]
    BY DEF HolderInv, BufType
  <1>2. BufType'
    BY DEF HolderInv, BufType
  <1>3. BurstFits'
    BY <1>1 DEF HolderInv, BurstFits, Batches
  <1>4. ASSUME NEW m \in Mbufs PROVE Apart(m)'
    <2>1. Apart(m) /\ m # NullPtr
      BY PacketsAssumption, Zenon DEF HolderInv
    <2>2. CASE \E i \in DOMAIN q : q[i] = m
      <3>1. InPackets(m)' /\ ~InTx(m)' /\ ~InRx(m)' /\ free'[m] = 0
        BY <1>1, <2>2 DEF InPackets, InTx, InRx
      <3>2. \A c \in Batches : \A i \in DOMAIN held'[c] : held'[c][i] = m => c = b
        BY <1>1, <2>2 DEF InPackets
      <3> QED BY <1>1, <2>1, <3>1, <3>2 DEF Apart, InRx, InTx
    <2>3. CASE \A i \in DOMAIN q : q[i] # m
      <3>1. /\ \A d \in Devices : m \in rx_ring'[d] <=> m \in rx_ring[d]
            /\ InRx(m)' <=> InRx(m)
            /\ InTx(m)' <=> InTx(m)
        BY <2>3, Zenon DEF InRx, InTx
      <3>2. \A c \in Batches : \A i \in DOMAIN held'[c] :
              held'[c][i] = m => c # b /\ i \in DOMAIN held[c] /\ held[c][i] = m
        BY <1>1, <2>3
      <3>3. m \in Owned(held[b]) <=> \E i \in DOMAIN held[b] : held[b][i] = m
        BY OwnedAre
      <3>4. InPackets(m)' <=> InPackets(m) /\ m \notin Owned(held[b])
        <4>1. ASSUME InPackets(m)' PROVE InPackets(m) /\ m \notin Owned(held[b])
          BY <2>1, <3>2, <3>3, <4>1 DEF InPackets, Apart
        <4>2. ASSUME InPackets(m), m \notin Owned(held[b]) PROVE InPackets(m)'
          BY <1>1, <3>3, <4>2 DEF InPackets
        <4> QED BY <4>1, <4>2, Zenon
      <3>5. m \in Owned(held[b]) => InPackets(m)
        BY <3>3 DEF InPackets
      <3>6. free'[m] = IF m \in Owned(held[b]) THEN 1 ELSE free[m]
        BY <2>3, Zenon
      <3>7. \A c, e \in Batches : \A i \in DOMAIN held'[c], j \in DOMAIN held'[e] :
              held'[c][i] = m /\ held'[e][j] = m => c = e /\ i = j
        BY <2>1, <3>2 DEF Apart
      <3>8. /\ \A d, e \in Devices : m \in rx_ring'[d] /\ m \in rx_ring'[e] => d = e
            /\ \A d, e \in Devices : m \in tx_ring'[d] /\ m \in tx_ring'[e] => d = e
        BY <2>1, <3>1, Zenon DEF Apart
      <3>9. free'[m] = IF InPackets(m)' \/ InRx(m)' \/ InTx(m)' THEN 0 ELSE 1
        BY <2>1, <3>1, <3>4, <3>5, <3>6 DEF Apart
      <3> QED BY <2>1, <3>1, <3>4, <3>7, <3>8, <3>9, Zenon DEF Apart
    <2> QED BY <2>2, <2>3
  <1> QED BY <1>2, <1>3, <1>4 DEF HolderInv
\* Packets change hands within the program, and those of F are freed.
Rearranges(F) ==
  /\ held' \in [Batches -> Seq(Maybe)] /\ BurstFits' /\ free' = Freed(F)
  /\ rx_ring' = rx_ring /\ tx_ring' = tx_ring /\ started' = started
  /\ \A m \in Mbufs : /\ m \in F => InPackets(m)
                      /\ InPackets(m)' <=> InPackets(m) /\ m \notin F
                      /\ \A b, c \in Batches : \A i \in DOMAIN held'[b], j \in DOMAIN held'[c] :
                           held'[b][i] = m /\ held'[c][j] = m => b = c /\ i = j

\* Such a step keeps every mbuf with one holder.
LEMMA Rearranged ==
  ASSUME HolderInv, NEW F, Rearranges(F)
  PROVE  HolderInv'
  <1> USE DEF Rearranges
  <1>1. \A m \in Mbufs : free'[m] = IF m \in F THEN free[m] + 1 ELSE free[m]
    BY DEF Freed
  <1>2. BufType'
    BY DEF HolderInv, BufType, Freed
  <1>3. ASSUME NEW m \in Mbufs PROVE Apart(m)'
    <2>1. Apart(m) /\ (InRx(m)' <=> InRx(m)) /\ (InTx(m)' <=> InTx(m))
      BY Zenon DEF HolderInv, InRx, InTx
    <2>2. free'[m] = IF InPackets(m)' \/ InRx(m)' \/ InTx(m)' THEN 0 ELSE 1
      BY <1>1, <2>1 DEF Apart
    <2> QED BY <2>1, <2>2 DEF Apart
  <1> QED BY <1>2, <1>3, Zenon DEF HolderInv

\* pool.get().
LEMMA GetHolder ==
  ASSUME HolderInv, NEW v \in Locals, Get(v), UNCHANGED started
  PROVE  HolderInv'
  <1>1. PICK n \in Maybe :
          /\ n # NullPtr => free[n] > 0
          /\ held' = [held EXCEPT ![v] = <<n>>]
          /\ free' = [k \in Mbufs |-> Freed(Owned(held[v]))[k] - (IF k = n THEN 1 ELSE 0)]
          /\ UNCHANGED <<rx_ring, tx_ring>>
    BY Zenon DEF Get
  <1>2. /\ v \in Batches /\ v \notin Bursts /\ <<n>> \in Seq(Maybe) /\ DOMAIN <<n>> = {1}
        /\ <<n>>[1] = n
    BY PacketsAssumption DEF Batches
  <1>3. ASSUME NEW m \in Mbufs, m = n
        PROVE  ~InPackets(m) /\ ~InTx(m) /\ ~InRx(m) /\ free[m] = 1 /\ m \notin Owned(held[v])
    <2>1. Apart(m) /\ free[m] > 0
      BY <1>1, <1>3, PacketsAssumption DEF HolderInv
    <2>2. ~InPackets(m) /\ ~InTx(m) /\ ~InRx(m) /\ free[m] = 1
      BY <2>1 DEF Apart
    <2> QED BY <1>2, <2>2, OwnedAre DEF InPackets
  <1>4. ASSUME NEW m \in Mbufs
        PROVE  free'[m] = IF m = n THEN 0 ELSE IF m \in Owned(held[v]) THEN 1 ELSE free[m]
    <2>1. free'[m] = Freed(Owned(held[v]))[m] - (IF m = n THEN 1 ELSE 0)
      BY <1>1
    <2>2. Freed(Owned(held[v]))[m] = IF m \in Owned(held[v]) THEN free[m] + 1 ELSE free[m]
      BY DEF Freed
    <2>3. m \in Owned(held[v]) => InPackets(m)
      BY <1>2, OwnedAre DEF InPackets
    <2>4. free[m] \in Nat /\ (InPackets(m) => free[m] = 0)
      BY DEF HolderInv, BufType, Apart
    <2> QED BY <1>3, <2>1, <2>2, <2>3, <2>4
  <1>5. free' \in [Mbufs -> Nat]
    BY <1>1, <1>4 DEF HolderInv, BufType
  <1> DEFINE q == <<n>>
  <1>6. /\ \A m \in Mbufs : (\E i \in DOMAIN q : q[i] = m) <=> m = n
        /\ q \in Seq(Maybe) /\ held' = [held EXCEPT ![v] = q]
        /\ \A i, j \in DOMAIN q : i = j
    BY <1>1, <1>2
  <1>7. rx_ring' \in [Devices -> SUBSET Mbufs]
    BY <1>1 DEF HolderInv, BufType
  <1> HIDE DEF q
  <1>8. \A m \in Mbufs :
          /\ (\E i \in DOMAIN q : q[i] = m) =>
                ~InPackets(m) /\ ~InTx(m) /\ \A e \in Devices : m \notin rx_ring'[e]
          /\ free'[m] = IF \E i \in DOMAIN q : q[i] = m THEN 0
                        ELSE IF m \in Owned(held[v]) THEN 1 ELSE free[m]
          /\ (\A i \in DOMAIN q : q[i] # m) =>
                \A d \in Devices : m \in rx_ring'[d] <=> m \in rx_ring[d]
    BY <1>1, <1>3, <1>4, <1>6, Zenon DEF InRx
  <1>9. /\ v \in Batches /\ (v \in Bursts => Len(q) <= MaxSize) /\ UNCHANGED <<tx_ring, started>>
        /\ \A i, j \in DOMAIN q : q[i] = q[j] /\ q[i] # NullPtr => i = j
    BY <1>1, <1>2, <1>6, Zenon
  <1>10. Replaces(v, q)
    BY <1>5, <1>6, <1>7, <1>8, <1>9 DEF Replaces
  <1> QED BY <1>6, <1>9, <1>10, Replaced, Zenon

\* A batch goes out of scope.
LEMMA DestroyHolder ==
  ASSUME HolderInv, NEW b \in Batches, DestroyBatch(b), UNCHANGED started
  PROVE  HolderInv'
  <1> DEFINE q == IF b \in Locals THEN <<NullPtr>> ELSE <<>>
  <1>1. /\ q \in Seq(Maybe) /\ \A i \in DOMAIN q : q[i] = NullPtr /\ i = 1
        /\ b \in Bursts => Len(q) <= MaxSize
    <2>1. CASE b \in Locals
      BY <2>1, PacketsAssumption DEF Maybe
    <2>2. CASE b \notin Locals
      BY <2>2, PacketsAssumption
    <2> QED BY <2>1, <2>2
  <1>2. \A m \in Mbufs : \A i \in DOMAIN q : q[i] # m
    BY <1>1, PacketsAssumption
  <1>3. held' = [held EXCEPT ![b] = q] /\ UNCHANGED <<rx_ring, tx_ring>>
    BY DEF DestroyBatch
  <1>4. ASSUME NEW m \in Mbufs
        PROVE  free'[m] = IF m \in Owned(held[b]) THEN 1 ELSE free[m]
    <2>1. m \in Owned(held[b]) => InPackets(m)
      BY OwnedAre DEF InPackets
    <2> QED BY <2>1 DEF DestroyBatch, Freed, HolderInv, BufType, Apart
  <1>5. free' \in [Mbufs -> Nat] /\ rx_ring' \in [Devices -> SUBSET Mbufs]
    BY <1>3 DEF HolderInv, BufType, DestroyBatch, Freed
  <1> HIDE DEF q
  <1>6. Replaces(b, q)
    BY <1>1, <1>2, <1>3, <1>4, <1>5 DEF Replaces
  <1> QED BY <1>1, <1>6, Replaced

\* receive_burst: the mbufs leave the ring.
LEMMA ReceiveHolder ==
  ASSUME HolderInv, NEW d \in Devices, NEW b \in Bursts, receive_burst(d, b, MaxAsked),
         UNCHANGED started
  PROVE  HolderInv'
  <1>0. PICK n \in 0 .. Capped(MaxAsked) : \E raw \in [1 .. n -> rx_ring[d]] :
          /\ \A i, j \in 1 .. n : raw[i] = raw[j] => i = j
          /\ rx_ring' = [rx_ring EXCEPT ![d] = @ \ Owned(raw)]
          /\ free' = Freed(Owned(held[b]))
          /\ held' = [held EXCEPT ![b] = raw]
          /\ UNCHANGED tx_ring
    BY Zenon DEF receive_burst
  <1>1. PICK raw \in [1 .. n -> rx_ring[d]] :
          /\ \A i, j \in 1 .. n : raw[i] = raw[j] => i = j
          /\ rx_ring' = [rx_ring EXCEPT ![d] = @ \ Owned(raw)]
          /\ free' = Freed(Owned(held[b]))
          /\ held' = [held EXCEPT ![b] = raw]
          /\ UNCHANGED tx_ring
    BY <1>0, Zenon
  <1>2. n \in Nat /\ n <= MaxSize
    BY PacketsAssumption DEF Capped
  <1>3. raw \in Seq(Maybe) /\ Len(raw) = n /\ DOMAIN raw = 1 .. n /\ b \in Batches
    BY <1>2 DEF HolderInv, BufType, Maybe, Batches
  <1>4. \A e \in Devices : rx_ring'[e] = IF e = d THEN rx_ring[d] \ Owned(raw) ELSE rx_ring[e]
    BY <1>1, Zenon DEF HolderInv, BufType
  <1>5. ASSUME NEW m \in Mbufs, \E i \in DOMAIN raw : raw[i] = m
        PROVE  ~InPackets(m) /\ ~InTx(m) /\ ~InRx(m)' /\ free[m] = 0 /\ m \notin Owned(held[b])
    <2>1. m \in rx_ring[d] /\ InRx(m) /\ Apart(m) /\ m \in Owned(raw)
      BY <1>3, <1>5, OwnedAre DEF InRx, HolderInv
    <2>2. ~InPackets(m) /\ ~InTx(m) /\ free[m] = 0
      BY <2>1, Zenon DEF Apart
    <2>3. ~InRx(m)'
      BY <1>4, <2>1, Zenon DEF Apart, InRx
    <2>4. m \notin Owned(held[b])
      BY <1>3, <2>2, OwnedAre DEF InPackets
    <2> QED BY <2>2, <2>3, <2>4
  <1>6. ASSUME NEW m \in Mbufs
        PROVE  free'[m] = IF \E i \in DOMAIN raw : raw[i] = m THEN 0
                          ELSE IF m \in Owned(held[b]) THEN 1 ELSE free[m]
    <2>1. m \in Owned(held[b]) => InPackets(m)
      BY <1>3, OwnedAre DEF InPackets
    <2>2. free[m] \in Nat /\ (InPackets(m) => free[m] = 0)
      BY DEF HolderInv, BufType, Apart
    <2>3. free'[m] = IF m \in Owned(held[b]) THEN free[m] + 1 ELSE free[m]
      BY <1>1 DEF Freed
    <2> QED BY <1>5, <2>1, <2>2, <2>3
  <1>7. ASSUME NEW m \in Mbufs, \A i \in DOMAIN raw : raw[i] # m
        PROVE  \A e \in Devices : m \in rx_ring'[e] <=> m \in rx_ring[e]
    BY <1>4, <1>7, OwnedAre
  <1>8. free' \in [Mbufs -> Nat] /\ rx_ring' \in [Devices -> SUBSET Mbufs]
    BY <1>1 DEF HolderInv, BufType, Freed
  <1>9. \A m \in Mbufs :
          /\ (\E i \in DOMAIN raw : raw[i] = m) =>
                ~InPackets(m) /\ ~InTx(m) /\ \A e \in Devices : m \notin rx_ring'[e]
          /\ free'[m] = IF \E i \in DOMAIN raw : raw[i] = m THEN 0
                        ELSE IF m \in Owned(held[b]) THEN 1 ELSE free[m]
          /\ (\A i \in DOMAIN raw : raw[i] # m) =>
                \A e \in Devices : m \in rx_ring'[e] <=> m \in rx_ring[e]
    BY <1>5, <1>6, <1>7 DEF InRx
  <1>10. \A i, j \in DOMAIN raw : raw[i] = raw[j] /\ raw[i] # NullPtr => i = j
    BY <1>1, <1>3
  <1>11. /\ held' = [held EXCEPT ![b] = raw] /\ (b \in Bursts => Len(raw) <= MaxSize)
         /\ UNCHANGED <<tx_ring, started>>
    BY <1>1, <1>2, <1>3, Zenon
  <1>12. Replaces(b, raw)
    BY <1>8, <1>9, <1>10, <1>11 DEF Replaces
  <1> QED BY <1>3, <1>12, Replaced
\* Overwriting one packet of a sequence.
LEMMA Overwritten ==
  ASSUME NEW S, NEW q \in Seq(S), NEW i \in DOMAIN q, NEW x \in S
  PROVE  /\ [q EXCEPT ![i] = x] \in Seq(S) /\ Len([q EXCEPT ![i] = x]) = Len(q)
         /\ DOMAIN [q EXCEPT ![i] = x] = DOMAIN q
  OBVIOUS

\* packet's operator=.
LEMMA MovePacketHolder ==
  ASSUME HolderInv, NEW b \in Batches, NEW c \in Batches, NEW i \in DOMAIN held[b],
         NEW j \in DOMAIN held[c], MovePacket(b, i, c, j), UNCHANGED started
  PROVE  HolderInv'
  <1> DEFINE F == {held[b][i]} \ {NullPtr}
  <1>1. /\ b # c \/ i # j
        /\ free' = Freed(F) /\ UNCHANGED <<rx_ring, tx_ring, started>>
        /\ held' = [[held EXCEPT ![b][i] = held[c][j]] EXCEPT ![c][j] = NullPtr]
    BY DEF MovePacket
  <1>2. held \in [Batches -> Seq(Maybe)] /\ NullPtr \in Maybe
    BY Zenon DEF HolderInv, BufType, Maybe
  <1>3. ASSUME NEW e \in Batches
        PROVE  /\ held'[e] \in Seq(Maybe) /\ Len(held'[e]) = Len(held[e])
               /\ DOMAIN held'[e] = DOMAIN held[e]
               /\ \A k \in DOMAIN held[e] :
                    held'[e][k] = IF e = c /\ k = j THEN NullPtr
                                  ELSE IF e = b /\ k = i THEN held[c][j] ELSE held[e][k]
    <2> DEFINE mid == [held EXCEPT ![b][i] = held[c][j]]
    <2>1. held[e] \in Seq(Maybe) /\ held[c][j] \in Maybe /\ held[b] \in Seq(Maybe)
      BY <1>2
    <2>2. mid = [held EXCEPT ![b] = [held[b] EXCEPT ![i] = held[c][j]]]
      OBVIOUS
    <2>3. mid \in [Batches -> Seq(Maybe)]
      BY <1>2, <2>1, <2>2
    <2>4. /\ Len(mid[e]) = Len(held[e]) /\ DOMAIN mid[e] = DOMAIN held[e]
          /\ \A k \in DOMAIN held[e] :
               mid[e][k] = IF e = b /\ k = i THEN held[c][j] ELSE held[e][k]
      <3>1. CASE e = b
        <4>1. mid[e] = [held[b] EXCEPT ![i] = held[c][j]]
          BY <1>2, <2>2, <3>1
        <4> QED BY <2>1, <3>1, <4>1
      <3>2. CASE e # b
        <4>1. mid[e] = held[e]
          BY <1>2, <2>2, <3>2
        <4> QED BY <3>2, <4>1
      <3> QED BY <3>1, <3>2
    <2>5. mid[c] \in Seq(Maybe) /\ mid[e] \in Seq(Maybe) /\ DOMAIN mid = Batches
      BY <2>3
    <2>6. held' = [mid EXCEPT ![c] = [mid[c] EXCEPT ![j] = NullPtr]]
      BY <1>1, Zenon
    <2> HIDE DEF mid
    <2>7. CASE e = c
      <3>1. held'[e] = [mid[e] EXCEPT ![j] = NullPtr]
        BY <2>5, <2>6, <2>7
      <3>2. held'[e] \in Seq(Maybe) /\ Len(held'[e]) = Len(mid[e]) /\ DOMAIN held'[e] = DOMAIN mid[e]
        <4>1. j \in DOMAIN mid[e]
          BY <2>4, <2>7
        <4> QED BY <1>2, <2>5, <3>1, <4>1, Overwritten
      <3>3. \A k \in DOMAIN mid[e] : held'[e][k] = IF k = j THEN NullPtr ELSE mid[e][k]
        BY <2>5, <3>1
      <3> QED BY <2>4, <2>7, <3>2, <3>3
    <2>8. CASE e # c
      <3>1. held'[e] = mid[e]
        BY <2>5, <2>6, <2>8
      <3> QED BY <2>4, <2>5, <2>8, <3>1
    <2> QED BY <2>7, <2>8
  <1>4. held' \in [Batches -> Seq(Maybe)]
    BY <1>1, <1>2, <1>3, Zenon
  <1>5. BurstFits'
    BY <1>3, Zenon DEF HolderInv, BurstFits, Batches
  <1>6. ASSUME NEW m \in Mbufs
        PROVE  /\ m \in F <=> held[b][i] = m
               /\ \A d, e \in Batches : \A k \in DOMAIN held'[d], l \in DOMAIN held'[e] :
                    held'[d][k] = m /\ held'[e][l] = m => d = e /\ k = l
    <2>1. Apart(m) /\ m # NullPtr
      BY PacketsAssumption DEF HolderInv
    <2>2. m \in F <=> held[b][i] = m
      BY <2>1
    <2>3. ASSUME NEW e \in Batches, NEW k \in DOMAIN held'[e], held'[e][k] = m
          PROVE  /\ (e = b /\ k = i /\ held[c][j] = m) \/ (held[e][k] = m /\ held[c][j] # m)
                 /\ k \in DOMAIN held[e]
      BY <1>3, <2>1, <2>3 DEF Apart
    <2> QED BY <1>3, <2>1, <2>2, <2>3 DEF Apart
  <1>7. ASSUME NEW m \in Mbufs
        PROVE  InPackets(m)' <=> InPackets(m) /\ m \notin F
    <2>1. Apart(m) /\ m # NullPtr
      BY PacketsAssumption DEF HolderInv
    <2>2. ASSUME NEW e \in Batches, NEW k \in DOMAIN held'[e], held'[e][k] = m
          PROVE  InPackets(m) /\ m \notin F
      <3>1. k \in DOMAIN held[e] /\ ~(e = c /\ k = j)
        BY <1>3, <2>1, <2>2
      <3>2. CASE e = b /\ k = i
        <4>1. held[c][j] = m
          BY <1>3, <2>2, <3>1, <3>2, Zenon
        <4>2. held[b][i] # m
          BY <1>1, <2>1, <4>1, Zenon DEF Apart
        <4> QED BY <1>6, <4>1, <4>2 DEF InPackets
      <3>3. CASE ~(e = b /\ k = i)
        <4>1. held[e][k] = m
          BY <1>3, <2>2, <3>1, <3>3, Zenon
        <4>2. held[b][i] # m
          BY <2>1, <3>1, <3>3, <4>1 DEF Apart
        <4> QED BY <1>6, <3>1, <4>1, <4>2, Zenon DEF InPackets
      <3> QED BY <3>2, <3>3
    <2>3. ASSUME NEW e \in Batches, NEW k \in DOMAIN held[e], held[e][k] = m, m \notin F
          PROVE  InPackets(m)'
      <3>1. CASE e = c /\ k = j
        <4>0. ~(b = c /\ i = j)
          BY <1>1
        <4>1. i \in DOMAIN held'[b] /\ held'[b][i] = held[c][j]
          BY <1>3, <4>0
        <4> QED BY <2>3, <3>1, <4>1 DEF InPackets
      <3>2. CASE ~(e = c /\ k = j)
        <4>1. ~(e = b /\ k = i)
          BY <1>6, <2>3
        <4>2. k \in DOMAIN held'[e] /\ held'[e][k] = m
          BY <1>3, <2>3, <3>2, <4>1
        <4> QED BY <4>2 DEF InPackets
      <3> QED BY <3>1, <3>2
    <2> QED BY <2>2, <2>3, Zenon DEF InPackets
  <1>8. \A m \in Mbufs : m \in F => InPackets(m)
    BY <1>6, Zenon DEF InPackets
  <1> HIDE DEF F
  <1>9. Rearranges(F)
    BY <1>1, <1>4, <1>5, <1>6, <1>7, <1>8, Zenon DEF Rearranges
  <1> QED BY <1>9, Rearranged

\* packet_burst's operator=.
LEMMA MoveBurstHolder ==
  ASSUME HolderInv, NEW b \in Bursts, NEW c \in Bursts, MoveBurst(b, c), UNCHANGED started
  PROVE  HolderInv'
  <1> DEFINE F == Owned(held[b])
  <1>1. /\ b # c /\ b \in Batches /\ c \in Batches
        /\ free' = Freed(F) /\ UNCHANGED <<rx_ring, tx_ring, started>>
        /\ held' = [held EXCEPT ![b] = held[c], ![c] = [i \in DOMAIN held[c] |-> NullPtr]]
    BY DEF MoveBurst, Batches
  <1>2. held \in [Batches -> Seq(Maybe)] /\ NullPtr \in Maybe
    BY DEF HolderInv, BufType, Maybe
  <1>3. /\ held'[b] = held[c] /\ held'[c] = [i \in DOMAIN held[c] |-> NullPtr]
        /\ \A e \in Batches \ {b, c} : held'[e] = held[e]
    BY <1>1, <1>2
  <1>4. [i \in DOMAIN held[c] |-> NullPtr] \in Seq(Maybe) /\ Len(held'[c]) = Len(held[c])
    BY <1>1, <1>2, <1>3
  <1>5. held' \in [Batches -> Seq(Maybe)]
    BY <1>1, <1>2, <1>4
  <1>6. BurstFits'
    BY <1>3, <1>4 DEF HolderInv, BurstFits, Batches
  <1>7. ASSUME NEW m \in Mbufs, NEW e \in Batches, NEW k \in DOMAIN held'[e], held'[e][k] = m
        PROVE  \/ e = b /\ k \in DOMAIN held[c] /\ held[c][k] = m
               \/ e \notin {b, c} /\ k \in DOMAIN held[e] /\ held[e][k] = m
    BY <1>3, <1>7, PacketsAssumption
  <1>8. ASSUME NEW m \in Mbufs, NEW d \in Batches, NEW e \in Batches,
               NEW k \in DOMAIN held'[d], NEW l \in DOMAIN held'[e],
               held'[d][k] = m, held'[e][l] = m
        PROVE  d = e /\ k = l
    <2>1. Apart(m)
      BY Zenon DEF HolderInv
    <2>2. \/ d = b /\ k \in DOMAIN held[c] /\ held[c][k] = m
          \/ d \notin {b, c} /\ k \in DOMAIN held[d] /\ held[d][k] = m
      BY <1>7, <1>8
    <2>3. \/ e = b /\ l \in DOMAIN held[c] /\ held[c][l] = m
          \/ e \notin {b, c} /\ l \in DOMAIN held[e] /\ held[e][l] = m
      BY <1>7, <1>8
    <2> QED BY <1>1, <2>1, <2>2, <2>3 DEF Apart
  <1>9. ASSUME NEW m \in Mbufs
        PROVE  /\ m \in F => InPackets(m)
               /\ InPackets(m)' <=> InPackets(m) /\ m \notin F
    <2>1. Apart(m) /\ (m \in F <=> \E i \in DOMAIN held[b] : held[b][i] = m)
      BY OwnedAre DEF HolderInv
    <2>2. m \in F => InPackets(m)
      BY <1>1, <2>1 DEF InPackets
    <2>3. ASSUME NEW e \in Batches, NEW k \in DOMAIN held'[e], held'[e][k] = m
          PROVE  InPackets(m) /\ m \notin F
      <3>1. \/ e = b /\ k \in DOMAIN held[c] /\ held[c][k] = m
            \/ e \notin {b, c} /\ k \in DOMAIN held[e] /\ held[e][k] = m
        BY <1>7, <2>3
      <3>2. InPackets(m)
        BY <1>1, <3>1 DEF InPackets
      <3>3. m \notin F
        BY <1>1, <2>1, <3>1 DEF Apart
      <3> QED BY <3>2, <3>3
    <2>4. ASSUME NEW e \in Batches, NEW k \in DOMAIN held[e], held[e][k] = m, m \notin F
          PROVE  InPackets(m)'
      <3>1. e # b
        BY <2>1, <2>4
      <3>2. CASE e = c
        BY <1>1, <1>3, <2>4, <3>2, Zenon DEF InPackets
      <3>3. CASE e # c
        BY <1>3, <2>4, <3>1, <3>3, Zenon DEF InPackets
      <3> QED BY <3>2, <3>3
    <2> QED BY <2>2, <2>3, <2>4 DEF InPackets
  <1> HIDE DEF F
  <1>10. Rearranges(F)
    BY <1>1, <1>5, <1>6, <1>8, <1>9 DEF Rearranges
  <1> QED BY <1>10, Rearranged
\* send_burst: the accepted packets are in the TX ring and no longer in the batch.
LEMMA SendHolder ==
  ASSUME HolderInv, NEW d \in Devices, NEW b \in Batches, NEW first \in DOMAIN held[b],
         send_burst(d, b, first), UNCHANGED started
  PROVE  HolderInv'
  <1>1. PICK n \in 0 .. (Len(held[b]) + 1 - first) :
          LET sent == first .. (first + n - 1)
          IN  /\ tx_ring' = [tx_ring EXCEPT ![d] = @ \cup {held[b][i] : i \in sent}]
              /\ held' = [held EXCEPT ![b] = [i \in DOMAIN @ |-> IF i \in sent THEN NullPtr ELSE @[i]]]
    BY Zenon DEF send_burst
  <1> DEFINE sent == first .. (first + n - 1)
             q == [i \in DOMAIN held[b] |-> IF i \in sent THEN NullPtr ELSE held[b][i]]
  <1>2. /\ tx_ring' = [tx_ring EXCEPT ![d] = @ \cup {held[b][i] : i \in sent}]
        /\ held' = [held EXCEPT ![b] = q] /\ UNCHANGED <<free, rx_ring, started>>
        /\ \A i \in first .. Len(held[b]) : held[b][i] # NullPtr
    BY <1>1, Zenon DEF send_burst
  <1>3. held \in [Batches -> Seq(Maybe)] /\ held[b] \in Seq(Maybe) /\ NullPtr \in Maybe
    BY DEF HolderInv, BufType, Maybe
  <1>4. /\ Len(held[b]) \in Nat /\ DOMAIN held[b] = 1 .. Len(held[b]) /\ first \in Nat
        /\ first >= 1
    BY <1>3
  <1>5. sent \subseteq first .. Len(held[b]) /\ sent \subseteq DOMAIN held[b]
    BY <1>4
  <1>6. /\ q \in Seq(Maybe) /\ Len(q) = Len(held[b]) /\ DOMAIN q = DOMAIN held[b]
        /\ \A i \in DOMAIN q : q[i] = IF i \in sent THEN NullPtr ELSE held[b][i]
    BY <1>3
  <1>7. \A i \in sent : held[b][i] \in Mbufs
    BY <1>2, <1>3, <1>5 DEF Maybe
  <1> HIDE DEF q, sent
  <1>8. /\ held' \in [Batches -> Seq(Maybe)] /\ held'[b] = q
        /\ \A c \in Batches \ {b} : held'[c] = held[c]
    BY <1>2, <1>3, <1>6, Zenon
  <1>9. /\ tx_ring' \in [Devices -> SUBSET Mbufs]
        /\ \A m \in Mbufs : m \in tx_ring'[d] <=> m \in tx_ring[d] \/ \E i \in sent : held[b][i] = m
        /\ \A e \in Devices \ {d} : tx_ring'[e] = tx_ring[e]
    <2>1. tx_ring \in [Devices -> SUBSET Mbufs]
      BY DEF HolderInv, BufType
    <2> QED BY <1>2, <1>7, <2>1
  <1>10. BufType'
    BY <1>2, <1>8, <1>9 DEF HolderInv, BufType
  <1>11. BurstFits'
    BY <1>6, <1>8, Zenon DEF HolderInv, BurstFits, Batches
  <1>12. ASSUME NEW m \in Mbufs PROVE Apart(m)'
    <2>1. Apart(m) /\ m # NullPtr /\ (InRx(m)' <=> InRx(m))
      BY <1>2, PacketsAssumption DEF HolderInv, InRx
    <2>2. \A c \in Batches : \A i \in DOMAIN held'[c] :
            held'[c][i] = m => i \in DOMAIN held[c] /\ held[c][i] = m /\ (c = b => i \notin sent)
      BY <1>6, <1>8, <2>1, Zenon
    <2>3. \A c, e \in Batches : \A i \in DOMAIN held'[c], j \in DOMAIN held'[e] :
            held'[c][i] = m /\ held'[e][j] = m => c = e /\ i = j
      <3>1. \A c, e \in Batches : \A i \in DOMAIN held[c], j \in DOMAIN held[e] :
              held[c][i] = m /\ held[e][j] = m => c = e /\ i = j
        BY <2>1, Zenon DEF Apart
      <3>2. ASSUME NEW c \in Batches, NEW e \in Batches,
                   NEW i \in DOMAIN held'[c], NEW j \in DOMAIN held'[e], held'[c][i] = m, held'[e][j] = m
            PROVE  c = e /\ i = j
        <4>1. i \in DOMAIN held[c] /\ held[c][i] = m /\ j \in DOMAIN held[e] /\ held[e][j] = m
          BY <2>2, <3>2, Zenon
        <4> QED BY <3>1, <4>1, Zenon
      <3> QED BY <3>2, Zenon
    <2>4. \A c, e \in Devices : m \in rx_ring'[c] /\ m \in rx_ring'[e] => c = e
      BY <1>2, <2>1 DEF Apart
    <2>5. CASE \E i \in sent : held[b][i] = m
      <3>1. InPackets(m) /\ InTx(m)'
        BY <1>5, <1>9, <2>5 DEF InPackets, InTx
      <3>2. ~InPackets(m)'
        <4>1. PICK i \in sent : held[b][i] = m
          BY <2>5
        <4>2. \A c \in Batches : \A j \in DOMAIN held[c] : held[c][j] = m => c = b /\ j = i
          BY <1>5, <2>1, <4>1, Zenon DEF Apart
        <4> QED BY <2>2, <4>2, Zenon DEF InPackets
      <3>3. ~InTx(m) /\ ~InRx(m) /\ free[m] = 0
        BY <2>1, <3>1, Zenon DEF Apart
      <3>4. \A c, e \in Devices : m \in tx_ring'[c] /\ m \in tx_ring'[e] => c = e
        BY <1>9, <3>3, Zenon DEF InTx
      <3> QED BY <1>2, <2>1, <2>3, <2>4, <3>1, <3>2, <3>3, <3>4, Zenon DEF Apart
    <2>6. CASE ~\E i \in sent : held[b][i] = m
      <3>1. \A e \in Devices : m \in tx_ring'[e] <=> m \in tx_ring[e]
        BY <1>9, <2>6
      <3>2. InTx(m)' <=> InTx(m)
        BY <3>1 DEF InTx
      <3>3. ASSUME NEW c \in Batches, NEW i \in DOMAIN held[c], held[c][i] = m
            PROVE  i \in DOMAIN held'[c] /\ held'[c][i] = m
        BY <1>6, <1>8, <2>6, <3>3, Zenon
      <3>4. InPackets(m)' <=> InPackets(m)
        BY <2>2, <3>3, Zenon DEF InPackets
      <3>5. \A c, e \in Devices : m \in tx_ring'[c] /\ m \in tx_ring'[e] => c = e
        BY <2>1, <3>1 DEF Apart
      <3> QED BY <1>2, <2>1, <2>3, <2>4, <3>2, <3>4, <3>5, Zenon DEF Apart
    <2> QED BY <2>5, <2>6, Zenon
  <1> QED BY <1>10, <1>11, <1>12 DEF HolderInv

\* The driver takes buffers from the pool and gives them back.
LEMMA DriverHolder ==
  ASSUME HolderInv, NEW d \in Devices, Refill(d) \/ TxDone(d), UNCHANGED started
  PROVE  HolderInv'
  <1>1. held' = held /\ BurstFits' /\ \A m \in Mbufs : InPackets(m)' <=> InPackets(m)
    BY DEF Refill, TxDone, HolderInv, BurstFits, InPackets
  <1>2. CASE Refill(d)
    <2>1. PICK x \in Mbufs : /\ free[x] > 0 /\ free' = [free EXCEPT ![x] = @ - 1]
                             /\ rx_ring' = [rx_ring EXCEPT ![d] = @ \cup {x}]
      BY <1>2, Zenon DEF Refill
    <2>2. tx_ring' = tx_ring /\ \A m \in Mbufs : InTx(m)' <=> InTx(m)
      BY <1>2, Zenon DEF Refill, InTx
    <2>3. free[x] = 1 /\ ~InPackets(x) /\ ~InRx(x) /\ ~InTx(x)
      BY <2>1 DEF HolderInv, BufType, Apart
    <2>4. BufType'
      BY <1>1, <2>1, <2>2, <2>3 DEF HolderInv, BufType
    <2>5. \A m \in Mbufs : /\ free'[m] = IF m = x THEN 0 ELSE free[m]
                           /\ m \in rx_ring'[d] <=> m \in rx_ring[d] \/ m = x
                           /\ \A e \in Devices \ {d} : rx_ring'[e] = rx_ring[e]
      BY <2>1, <2>3 DEF HolderInv, BufType
    <2>6. ASSUME NEW m \in Mbufs PROVE Apart(m)'
      <3>1. Apart(m) /\ (InRx(m)' <=> InRx(m) \/ m = x)
        BY <2>5, Zenon DEF HolderInv, InRx
      <3>2. \A c, e \in Devices : m \in rx_ring'[c] /\ m \in rx_ring'[e] => c = e
        BY <2>3, <2>5, <3>1 DEF Apart, InRx
      <3>3. Placed(m) /\ \A c, e \in Devices : m \in tx_ring'[c] /\ m \in tx_ring'[e] => c = e
        BY <2>2, <3>1, Zenon DEF Apart, Placed
      <3>4. Placed(m)'
        BY <1>1, <2>2, <2>3, <2>5, <3>1, <3>3, Zenon DEF Placed
      <3> QED BY <1>1, <3>1, <3>2, <3>3, <3>4, StillApart, Zenon
    <2> QED BY <1>1, <2>4, <2>6 DEF HolderInv
  <1>3. CASE TxDone(d)
    <2>1. PICK x \in tx_ring[d] : /\ tx_ring' = [tx_ring EXCEPT ![d] = @ \ {x}]
                                  /\ free' = Freed({x})
      BY <1>3, Zenon DEF TxDone
    <2>2. rx_ring' = rx_ring /\ \A m \in Mbufs : InRx(m)' <=> InRx(m)
      BY <1>3 DEF TxDone, InRx
    <2>3. x \in Mbufs /\ InTx(x)
      BY DEF HolderInv, BufType, InTx
    <2>4. free[x] = 0 /\ ~InPackets(x) /\ ~InRx(x)
      BY <2>3 DEF HolderInv, Apart
    <2>5. BufType'
      BY <1>1, <2>1, <2>2 DEF HolderInv, BufType, Freed
    <2>6. \A m \in Mbufs : /\ free'[m] = IF m = x THEN 1 ELSE free[m]
                           /\ m \in tx_ring'[d] <=> m \in tx_ring[d] /\ m # x
                           /\ \A e \in Devices \ {d} : tx_ring'[e] = tx_ring[e]
      BY <2>1, <2>4 DEF HolderInv, BufType, Freed
    <2>7. ASSUME NEW m \in Mbufs PROVE Apart(m)'
      <3>1. Apart(m)
        BY DEF HolderInv
      <3>2. InTx(m)' <=> InTx(m) /\ m # x
        BY <2>6, <3>1, Zenon DEF InTx, Apart
      <3>3. \A c, e \in Devices : m \in tx_ring'[c] /\ m \in tx_ring'[e] => c = e
        BY <2>6, <3>1 DEF Apart
      <3>4. Placed(m) /\ \A c, e \in Devices : m \in rx_ring'[c] /\ m \in rx_ring'[e] => c = e
        BY <2>2, <3>1, Zenon DEF Apart, Placed
      <3>5. Placed(m)'
        BY <1>1, <2>2, <2>3, <2>4, <2>6, <3>2, <3>4, Zenon DEF Placed
      <3> QED BY <1>1, <3>1, <3>3, <3>4, <3>5, StillApart, Zenon
    <2> QED BY <1>1, <2>5, <2>7 DEF HolderInv
  <1> QED BY <1>2, <1>3

\* Closing devices empties their rings into the pool.
LEMMA PortHolder ==
  ASSUME HolderInv, PortStep, started' \subseteq Devices
  PROVE  HolderInv'
  <1> DEFINE gone == started \ started'
             F == UNION {rx_ring[d] \cup tx_ring[d] : d \in gone}
  <1>1. /\ free' = Freed(F) /\ held' = held
        /\ rx_ring' = [d \in Devices |-> IF d \in gone THEN {} ELSE rx_ring[d]]
        /\ tx_ring' = [d \in Devices |-> IF d \in gone THEN {} ELSE tx_ring[d]]
    BY DEF PortStep
  <1>2. gone \subseteq Devices
    BY DEF HolderInv, BufType
  <1>3. BurstFits' /\ \A m \in Mbufs : InPackets(m)' <=> InPackets(m)
    BY <1>1 DEF HolderInv, BurstFits, InPackets
  <1>4. BufType'
    BY <1>1 DEF HolderInv, BufType, Freed
  <1>5. \A m \in Mbufs : m \in F <=> \E d \in gone : m \in rx_ring[d] \/ m \in tx_ring[d]
    OBVIOUS
  <1>6. \A m \in Mbufs : free'[m] = IF m \in F THEN free[m] + 1 ELSE free[m]
    BY <1>1 DEF Freed
  <1> HIDE DEF gone, F
  <1>7. ASSUME NEW m \in Mbufs PROVE Apart(m)'
    <2>1. Apart(m)
      BY DEF HolderInv
    <2>2. /\ \A d \in Devices : m \in rx_ring'[d] <=> m \in rx_ring[d] /\ d \notin gone
          /\ \A d \in Devices : m \in tx_ring'[d] <=> m \in tx_ring[d] /\ d \notin gone
      BY <1>1, Zenon
    <2>3. /\ \A d, e \in Devices : m \in rx_ring'[d] /\ m \in rx_ring'[e] => d = e
          /\ \A d, e \in Devices : m \in tx_ring'[d] /\ m \in tx_ring'[e] => d = e
      BY <2>1, <2>2, Zenon DEF Apart
    <2>4. (InRx(m)' => InRx(m)) /\ (InTx(m)' => InTx(m)) /\ (m \in F => InRx(m) \/ InTx(m))
      BY <1>2, <1>5, <2>2 DEF InRx, InTx
    <2>5. CASE m \in F
      <3>1. ~InRx(m)' /\ ~InTx(m)'
        <4>1. PICK d \in gone : m \in rx_ring[d] \/ m \in tx_ring[d]
          BY <1>5, <2>5
        <4>2. CASE m \in rx_ring[d]
          <5>1. InRx(m) /\ ~InTx(m) /\ \A e \in Devices : m \in rx_ring[e] => e = d
            BY <1>2, <2>1, <4>2, Zenon DEF Apart, InRx
          <5> QED BY <2>2, <2>4, <5>1, Zenon DEF InRx
        <4>3. CASE m \in tx_ring[d]
          <5>1. InTx(m) /\ ~InRx(m) /\ \A e \in Devices : m \in tx_ring[e] => e = d
            BY <1>2, <2>1, <4>3, Zenon DEF Apart, InTx
          <5> QED BY <2>2, <2>4, <5>1, Zenon DEF InTx
        <4> QED BY <4>1, <4>2, <4>3, Zenon
      <3>2. free'[m] = 1 /\ ~InPackets(m)
        BY <1>6, <2>1, <2>4, <2>5 DEF Apart
      <3>3. Placed(m)'
        BY <1>3, <3>1, <3>2, Zenon DEF Placed
      <3> QED BY <1>1, <2>1, <2>3, <3>3, StillApart, Zenon
    <2>6. CASE m \notin F
      <3>1. (InRx(m)' <=> InRx(m)) /\ (InTx(m)' <=> InTx(m)) /\ free'[m] = free[m]
        BY <1>5, <1>6, <2>2, <2>6, Zenon DEF InRx, InTx
      <3>2. Placed(m)
        BY <2>1, Zenon DEF Apart, Placed
      <3>3. Placed(m)'
        BY <1>3, <3>1, <3>2, Zenon DEF Placed
      <3> QED BY <1>1, <2>1, <2>3, <3>3, StillApart, Zenon
    <2> QED BY <2>5, <2>6
  <1> QED BY <1>3, <1>4, <1>7, Zenon DEF HolderInv

\* Every step of the program, the driver and the ports.
LEMMA NextHolder ==
  ASSUME HolderInv, [PacketsNext]_allVars, Inv'
  PROVE  HolderInv'
  <1>1. CASE UNCHANGED allVars
    BY <1>1 DEF HolderInv, BufType, Apart, InPackets, InRx, InTx, BurstFits, allVars, vars, bufVars
  <1>2. CASE PortStep
    <2>1. started' \subseteq Devices
      BY Zenon DEF Inv, TypeOK
    <2> QED BY <1>2, <2>1, PortHolder, Zenon
  <1>3. CASE PacketsNext /\ UNCHANGED vars
    <2>0. UNCHANGED started
      BY <1>3 DEF vars
    <2>1. CASE \E v \in Locals : Get(v)
      BY <2>0, <2>1, GetHolder
    <2>2. CASE \E b, c \in Batches : \E i \in DOMAIN held[b], j \in DOMAIN held[c] : MovePacket(b, i, c, j)
      BY <2>0, <2>2, MovePacketHolder
    <2>3. CASE \E b, c \in Bursts : MoveBurst(b, c)
      BY <2>0, <2>3, MoveBurstHolder
    <2>4. CASE \E b \in Batches : DestroyBatch(b)
      BY <2>0, <2>4, DestroyHolder
    <2>5. CASE \E d \in Devices, b \in Bursts : receive_burst(d, b, MaxAsked)
      BY <2>0, <2>5, ReceiveHolder
    <2>6. CASE \E d \in Devices, b \in Batches : \E i \in DOMAIN held[b] : send_burst(d, b, i)
      BY <2>0, <2>6, SendHolder
    <2>7. CASE \E d \in Devices : Refill(d) \/ TxDone(d)
      BY <2>0, <2>7, DriverHolder
    <2> QED BY <1>2, <1>3, <2>1, <2>2, <2>3, <2>4, <2>5, <2>6, <2>7 DEF PacketsNext
  <1> QED BY <1>1, <1>2, <1>3, Zenon DEF PacketsNext

\* The inductive invariant holds; the ports' own bounds the devices that can run.
THEOREM HolderHolds == PacketsSpec => []HolderInv
  BY InvHolds, InitHolder, NextHolder, PTL DEF PacketsSpec

\* What Places has in it.
LEMMA PlacesAre ==
  ASSUME NEW m, NEW p
  PROVE  p \in Places(m) <=>
           \/ \E b \in Batches : \E i \in DOMAIN held[b] : held[b][i] = m /\ p = <<"packet", b, i>>
           \/ \E d \in Devices : m \in rx_ring[d] /\ p = <<"rx", d, 0>>
           \/ \E d \in Devices : m \in tx_ring[d] /\ p = <<"tx", d, 0>>
  <1> DEFINE of(b) == {<<"packet", b, i>> : i \in {j \in DOMAIN held[b] : held[b][j] = m}}
             R == {<<"rx", d, 0>> : d \in {e \in Devices : m \in rx_ring[e]}}
             T == {<<"tx", d, 0>> : d \in {e \in Devices : m \in tx_ring[e]}}
             P == UNION {of(b) : b \in Batches}
  <1>1. Places(m) = P \cup R \cup T
    BY DEF Places
  <1>2. \A b : p \in of(b) <=> \E i \in DOMAIN held[b] : held[b][i] = m /\ p = <<"packet", b, i>>
    OBVIOUS
  <1>3. p \in R <=> \E d \in Devices : m \in rx_ring[d] /\ p = <<"rx", d, 0>>
    OBVIOUS
  <1>4. p \in T <=> \E d \in Devices : m \in tx_ring[d] /\ p = <<"tx", d, 0>>
    OBVIOUS
  <1> HIDE DEF of, R, T
  <1>5. p \in P <=> \E b \in Batches : p \in of(b)
    OBVIOUS
  <1> HIDE DEF P
  <1>6. p \in Places(m) <=> (\E b \in Batches : p \in of(b)) \/ p \in R \/ p \in T
    BY <1>1, <1>5
  <1>7. (\E b \in Batches : p \in of(b)) <=>
          \E b \in Batches : \E i \in DOMAIN held[b] : held[b][i] = m /\ p = <<"packet", b, i>>
    BY <1>2
  <1> QED BY <1>3, <1>4, <1>6, <1>7, Zenon

\* A mbuf apart is in the pool, or in one place.
LEMMA OnePlace ==
  ASSUME NEW m \in Mbufs, Apart(m)
  PROVE  \/ free[m] = 1 /\ Places(m) = {}
         \/ free[m] = 0 /\ \E p : Places(m) = {p}
  <1>1. CASE ~InPackets(m) /\ ~InRx(m) /\ ~InTx(m)
    <2>1. Places(m) = {}
      BY <1>1, PlacesAre DEF InPackets, InRx, InTx
    <2> QED BY <1>1, <2>1 DEF Apart
  <1>2. CASE InPackets(m) \/ InRx(m) \/ InTx(m)
    <2>1. ASSUME NEW p, NEW r, p \in Places(m), r \in Places(m)
          PROVE  p = r
      <3>1. CASE InPackets(m)
        BY <2>1, <3>1, PlacesAre DEF InRx, InTx, Apart
      <3>2. CASE InRx(m)
        BY <2>1, <3>2, PlacesAre DEF InPackets, InTx, Apart
      <3>3. CASE InTx(m)
        BY <2>1, <3>3, PlacesAre DEF InPackets, InRx, Apart
      <3> QED BY <1>2, <3>1, <3>2, <3>3, Zenon
    <2>2. \E p : p \in Places(m)
      <3>1. CASE InPackets(m)
        <4>1. PICK b \in Batches : \E i \in DOMAIN held[b] : held[b][i] = m
          BY <3>1, Zenon DEF InPackets
        <4>2. PICK i \in DOMAIN held[b] : held[b][i] = m
          BY <4>1
        <4>3. <<"packet", b, i>> \in Places(m)
          BY <4>2, PlacesAre, Zenon
        <4> QED BY <4>3
      <3>2. CASE InRx(m)
        <4>1. PICK d \in Devices : m \in rx_ring[d]
          BY <3>2 DEF InRx
        <4>2. <<"rx", d, 0>> \in Places(m)
          BY <4>1, PlacesAre, Zenon
        <4> QED BY <4>2
      <3>3. CASE InTx(m)
        <4>1. PICK d \in Devices : m \in tx_ring[d]
          BY <3>3 DEF InTx
        <4>2. <<"tx", d, 0>> \in Places(m)
          BY <4>1, PlacesAre, Zenon
        <4> QED BY <4>2
      <3> QED BY <1>2, <3>1, <3>2, <3>3, Zenon
    <2>3. PICK p : p \in Places(m)
      BY <2>2
    <2>4. Places(m) = {p}
      BY <2>1, <2>3
    <2>5. free[m] = 0
      BY <1>2 DEF Apart
    <2> QED BY <2>4, <2>5
  <1> QED BY <1>1, <1>2, Zenon

\* receive_burst never fills a burst past its storage, nor do moves.
THEOREM BurstFitsHolds == PacketsSpec => []BurstFits
  <1>1. HolderInv => BurstFits
    BY DEF HolderInv
  <1> QED BY <1>1, HolderHolds, PTL

INSTANCE FiniteSetTheorems

\* Every mbuf of the pool is in the pool once, in one packet, or in one ring, for every
\* number of mbufs, packets, bursts, ports and devices.
THEOREM OneHolderHolds == PacketsSpec => []OneHolder
  <1>1. ASSUME HolderInv, NEW m \in Mbufs PROVE free[m] + Cardinality(Places(m)) = 1
    <2>1. Cardinality({}) = 0 /\ \A p : Cardinality({p}) = 1
      BY FS_EmptySet, FS_Singleton
    <2>2. Apart(m)
      BY <1>1 DEF HolderInv
    <2>3. \/ free[m] = 1 /\ Places(m) = {}
          \/ free[m] = 0 /\ \E p : Places(m) = {p}
      BY <2>2, OnePlace, Zenon
    <2> QED BY <2>1, <2>3
  <1>2. HolderInv => OneHolder
    BY <1>1 DEF OneHolder
  <1> QED BY <1>2, HolderHolds, PTL
=============================================================================
