------------------------------ MODULE Packets ------------------------------
(***************************************************************************)
(* packet, packet_burst, packet_pool, rx_queue and tx_queue over the ports *)
(* of module Port: who holds each mbuf of a pool.  A mbuf is free in the   *)
(* pool, in a ring of a device, or in a packet of the program.  The        *)
(* packets are those of a batch: one packet variable, or a packet_burst    *)
(* whose size() is the length.  The pool counts how often it was given     *)
(* each mbuf, so that a mbuf freed twice shows.                            *)
(*                                                                         *)
(* Contents are left out.  The program sends only packets that are there,  *)
(* on devices that run.                                                    *)
(***************************************************************************)
EXTENDS Port, Sequences

CONSTANTS Mbufs,   \* the pool's
          NullPtr,
          Locals,  \* packet variables
          Bursts,  \* packet_burst variables
          MaxSize, \* packet_burst::max_size
          MaxAsked \* the largest max_count of a caller: the driver may return fewer

ASSUME PacketsAssumption ==
  /\ NullPtr \notin Mbufs /\ Locals \cap Bursts = {} /\ MaxSize \in Nat /\ MaxAsked \in Nat

Batches == Locals \cup Bursts
Maybe == Mbufs \cup {NullPtr}

VARIABLES held,    \* the pkt_ of every packet of every batch
          free,    \* how often each mbuf is in the pool
          rx_ring, \* mbufs of each device's RX rings
          tx_ring  \* and of its TX rings, sent or not

bufVars == <<held, free, rx_ring, tx_ring>>
allVars == <<vars, bufVars>>

PacketsInit ==
  /\ Init
  /\ held = [b \in Batches |-> IF b \in Locals THEN <<NullPtr>> ELSE <<>>]
  /\ free = [m \in Mbufs |-> 1]
  /\ rx_ring = [d \in Devices |-> {}]
  /\ tx_ring = [d \in Devices |-> {}]

\* rte_pktmbuf_free of every mbuf of the set.
Freed(ms) == [m \in Mbufs |-> IF m \in ms THEN free[m] + 1 ELSE free[m]]

\* The mbufs the destructors of a sequence of packets free.
Owned(pkts) == {pkts[i] : i \in DOMAIN pkts} \ {NullPtr}

-----------------------------------------------------------------------------
\* The program.  A batch that is assigned to, or goes out of scope, frees what it has.

\* v = pool.get(); an empty pool gives an empty packet.
Get(v) ==
  \E m \in Maybe :
    /\ IF m = NullPtr THEN \A n \in Mbufs : free[n] = 0 ELSE free[m] > 0
    /\ held' = [held EXCEPT ![v] = <<m>>]
    /\ free' = [n \in Mbufs |-> Freed(Owned(held[v]))[n] - (IF n = m THEN 1 ELSE 0)]
    /\ UNCHANGED <<rx_ring, tx_ring>>

\* packet's operator=(packet &&): packet j of batch c to packet i of batch b.  Assigning
\* a packet to itself changes nothing.
MovePacket(b, i, c, j) ==
  /\ <<b, i>> # <<c, j>>
  /\ free' = Freed({held[b][i]} \ {NullPtr})
  /\ held' = [[held EXCEPT ![b][i] = held[c][j]] EXCEPT ![c][j] = NullPtr]
  /\ UNCHANGED <<rx_ring, tx_ring>>

\* packet_burst's operator=(packet_burst &&).  The source keeps its size, with packets
\* that are empty.
MoveBurst(b, c) ==
  /\ b # c
  /\ free' = Freed(Owned(held[b]))
  /\ held' = [held EXCEPT ![b] = held[c], ![c] = [i \in DOMAIN held[c] |-> NullPtr]]
  /\ UNCHANGED <<rx_ring, tx_ring>>

\* The destructors; a variable then begins its next life.
DestroyBatch(b) ==
  /\ free' = Freed(Owned(held[b]))
  /\ held' = [held EXCEPT ![b] = IF b \in Locals THEN <<NullPtr>> ELSE <<>>]
  /\ UNCHANGED <<rx_ring, tx_ring>>

\* Mutant: max_count is taken as it is.
CappedNot(max_count) == max_count

\* What receive_burst asks the driver for.
Capped(max_count) == IF max_count > MaxSize THEN MaxSize ELSE max_count

\* b = receive_burst(max_count) on a queue of d: rte_eth_rx_burst hands over mbufs of the
\* ring, in some order.
receive_burst(d, b, max_count) ==
  /\ d \in started
  /\ \E n \in 0 .. Capped(max_count) :
     \E raw \in [1 .. n -> rx_ring[d]] :
       /\ \A i, j \in 1 .. n : raw[i] = raw[j] => i = j
       /\ rx_ring' = [rx_ring EXCEPT ![d] = @ \ Owned(raw)]
       /\ free' = Freed(Owned(held[b]))
       /\ held' = [held EXCEPT ![b] = raw]
       /\ UNCHANGED tx_ring

\* Mutant: the packets the driver accepted still own their mbufs.
send_burstUnreleased(d, b, first) ==
  /\ d \in started /\ \A i \in first .. Len(held[b]) : held[b][i] # NullPtr
  /\ \E n \in 0 .. (Len(held[b]) + 1 - first) :
       tx_ring' = [tx_ring EXCEPT ![d] = @ \cup {held[b][i] : i \in first .. (first + n - 1)}]
  /\ UNCHANGED <<held, free, rx_ring>>

\* send_burst of the packets from first on, on a queue of d: the driver accepts the first
\* n of them, whose packets are released; the rest stay the caller's.
send_burst(d, b, first) ==
  /\ d \in started /\ \A i \in first .. Len(held[b]) : held[b][i] # NullPtr
  /\ \E n \in 0 .. (Len(held[b]) + 1 - first) :
       LET sent == first .. (first + n - 1)
       IN  /\ tx_ring' = [tx_ring EXCEPT ![d] = @ \cup {held[b][i] : i \in sent}]
           /\ held' = [held EXCEPT ![b] = [i \in DOMAIN @ |-> IF i \in sent THEN NullPtr ELSE @[i]]]
  /\ UNCHANGED <<free, rx_ring>>

-----------------------------------------------------------------------------
\* The driver

\* A descriptor of an RX ring is given a buffer.
Refill(d) ==
  /\ d \in started
  /\ \E m \in Mbufs : /\ free[m] > 0
                      /\ free' = [free EXCEPT ![m] = @ - 1]
                      /\ rx_ring' = [rx_ring EXCEPT ![d] = @ \cup {m}]
  /\ UNCHANGED <<held, tx_ring>>

TxDone(d) ==
  /\ d \in started
  /\ \E m \in tx_ring[d] : /\ tx_ring' = [tx_ring EXCEPT ![d] = @ \ {m}]
                           /\ free' = Freed({m})
  /\ UNCHANGED <<held, rx_ring>>

\* A step of the ports; closing a device frees what its rings hold.
PortStep ==
  /\ Next
  /\ LET gone == started \ started'
         emptied(ring) == [d \in Devices |-> IF d \in gone THEN {} ELSE ring[d]]
     IN  /\ free' = Freed(UNION {rx_ring[d] \cup tx_ring[d] : d \in gone})
         /\ rx_ring' = emptied(rx_ring)
         /\ tx_ring' = emptied(tx_ring)
  /\ UNCHANGED held

PacketsNext ==
  \/ PortStep
  \/ /\ \/ \E v \in Locals : Get(v)
        \/ \E b, c \in Batches : \E i \in DOMAIN held[b], j \in DOMAIN held[c] : MovePacket(b, i, c, j)
        \/ \E b, c \in Bursts : MoveBurst(b, c)
        \/ \E b \in Batches : DestroyBatch(b)
        \/ \E d \in Devices, b \in Bursts : receive_burst(d, b, MaxAsked)
        \/ \E d \in Devices, b \in Batches : \E i \in DOMAIN held[b] : send_burst(d, b, i)
        \/ \E d \in Devices : Refill(d) \/ TxDone(d)
     /\ UNCHANGED vars

PacketsSpec == PacketsInit /\ [][PacketsNext]_allVars

-----------------------------------------------------------------------------
\* Properties

\* The places m is in, other than the pool.
Places(m) ==
  (UNION {{<<"packet", b, i>> : i \in {j \in DOMAIN held[b] : held[b][j] = m}} : b \in Batches})
    \cup {<<"rx", d, 0>> : d \in {e \in Devices : m \in rx_ring[e]}}
    \cup {<<"tx", d, 0>> : d \in {e \in Devices : m \in tx_ring[e]}}

\* Every mbuf has exactly one holder: no sequence of moves, bursts sent in part, batches
\* assigned over and ports closed or moved leaks a mbuf, frees one twice, or leaves one
\* with both a packet and the driver ("each packet frees itself individually",
\* src/include/packet_burst.h; "ownership passes to the driver", src/include/tx_queue.h).
OneHolder == \A m \in Mbufs : free[m] + Cardinality(Places(m)) = 1

\* A burst never outgrows the storage push_back constructs packets in without a check.
BurstFits == \A b \in Bursts : Len(held[b]) <= MaxSize
=============================================================================
