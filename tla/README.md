# A TLA+ verification of the DPDK wrapper library

These modules model the TCP endpoint of the library (`src/src/tcp_stack.cpp`), the tables
it is built on, its composition with a client over a link, the ownership rules of
`runtime`, `port`, packets and queues, and the two-thread echo server of
`src/examples/tcp_echo_server.h`. TLC checks them on small instances; TLAPS proves the
central results for every value of the constants. `PROJECT.json` lists the components,
runs, mutants, hazards, findings and theorems, and maps each definition to its lines.

```
tlc -workers 2 -config TcpTwoSlots.cfg MCTcpStack    # a model-checking run
tlapm TcpStackProofs.tla                             # a proof module
```

## 1. The system and its parts

| Part | State | Operations | Hard behaviours | Properties that matter |
|---|---|---|---|---|
| `tcp_receiver` (inbound thread) | per-slot state, sequence state, flow table, free list, `awaiting_release`, `ack_list`, `finalize_list`, control queue | `poll()`: reap, process each packet, flush ACKs, flush control, finalize | runs against the sender without locks; stores of `open()` visible in any order; several segments of a connection in one burst | a slot in use is not recycled, each slot is on one list, events come in a legal order, fixed arrays do not overflow |
| `tcp_sender` (outbound thread) | `snd_nxt`, `out_flags` | `sendable`, `send_space`, `send`, `close` | looks up a slot the other thread may be re-initialising; partial bursts; empty pool; full ring | a closed id never resolves, `snd_nxt` covers the wire |
| endpoint and client | two transmit queues, RX queue, the client's stream and window | the endpoint's steps, delivery, the client's sends, reads and repeats | the two queues overtake each other; rings lose what finds them full | bytes once and in order, the window respected, both sides close |
| `flow_table` | open-addressing array | `find`, `insert`, `erase` with backward shift | runs that cross the end of the array | behaves as a map, every loop ends |
| `neighbor_table`, `handle_arp` | open-addressing array, size | `learn`, `update_if_present`, `lookup` | full table, collisions | lookups agree with what was learned, only frames for us add |
| `runtime` | EAL ownership, ports, shared pools | construct, move, destroy, `create_pool`, `add_port` | threads racing to construct and destroy; failures on the way; order of teardown | one runtime in effect, the claim comes back, ports before pools before the EAL |
| `port` | device id, queues, claimed flags, cursors, ownership | construct, move, destroy, two claim forms | moves over a live port; the two claim forms mixed | one owner per device, no queue handed out twice or skipped |
| packets, bursts, queues | who holds each mbuf | allocate, move, destroy, receive, send | moved-from bursts; a burst sent in part | one holder per mbuf, bursts fit their storage |
| echo server | SPSC ring, overflow queue, `released_gen_`, counters | two thread bodies | a full ring against a closed window; FIN then reset; stop at any point | order and completeness of the echo, one close per connection, no mutual waiting |
| header builders, `tap_interface`, remaining examples | none or bytes | byte layout, system calls | | not modelled |

The inbound thread writes `generation`, `rcv_nxt`, `send_window` and `terminated`, which
the outbound thread reads. The outbound thread writes `snd_nxt` and `out_flags`, which
the inbound thread reads; `open()` resets these two. The application hands the ids of
accepted connections from one thread to the other. The receiver calls `handle_arp` and
the flow table. The echo server is one such application. A `runtime` owns the ports, a
port shares its pool with the program, and queues move packets between rings and bursts.

## 2. Modules

| Module | Models | Correspondence |
|---|---|---|
| `SeqSpace` | sequence arithmetic | `seq_lt` ... `seq_geq`, `pack_window`, `window_space`, modulo `SeqSize` (2^32 in the code) |
| `Vectors` | `std::vector` as the receiver uses it | `back`, `pop_back` |
| `TcpStack` | `tcp_receiver`, `tcp_sender`, `tcp_connection` | `rx_pc`, `rx`: where `poll()` is and its locals. `tx_pc`, `tx`: the same for the sender's call. One action per step between two accesses to shared memory |
| `ConnLifecycle` | what the connection table promises | abstract specification; `EchoServer` is built on it |
| `TcpLifecycle` | | the refinement mapping from `TcpStack` to `ConnLifecycle` |
| `TcpEndToEnd` | the endpoint, an application and a client over a link | extends `TcpStack`; what it transmits goes into `from_data` and `from_control`, what the client sends into `to_stack` |
| `FlowTable` | `flow_table` | one action per loop round; `map` is the reference |
| `Arp` | `neighbor_table`, `handle_arp` | one action per frame; `known` is the reference |
| `Runtime` | `runtime` and the life of ports and pools under it | the claim on `g_runtime_exists`, `rte_eal_init`, the closing of each port, `rte_eal_cleanup` and the store that gives the claim back are steps of their own |
| `Port` | `port` | one action per constructor, move, destructor and claim |
| `Packets` | `packet`, `packet_pool`, `packet_burst`, `rx_queue`, `tx_queue` | extends `Port`; `held`, `free`, `rx_ring` and `tx_ring` say where each mbuf is |
| `EchoServer` | the echo server | `in_pc` and `out_pc`: the two threads |
| `TcpStackTypes`, `TcpStackProofs`, `TcpLifecycleProofs`, `FlowTableProofs`, `ArpProofs`, `PortProofs`, `RuntimeProofs`, `EchoProofs` | | lemmas, theorems and proofs |
| `MC*` | | constants for TLC |

Points of modelling worth knowing:

* **Memory order.** The release/acquire accesses are interleaved, one a step. The relaxed
  stores of `open()` are a set `opening` from which any one may become visible next; the
  release store of `out_flags` comes after all of them, as the code's ordering
  guarantees. Where an action stores two words of one thread (the window and
  `terminated`, or `rcv_nxt` and `terminated`), the reader loads `terminated` first and
  returns when it is set, so it cannot tell the two apart.
* **Packets.** In `TcpStack` the network delivers any of `Segments` at any time: loss,
  repetition, reordering and delay need no machinery. Packets that `process()` discards
  change only a counter and are no actions. ARP frames appear as the reply they may put
  in the control queue; their effect on the neighbor table is module `Arp`.
* **The client** of `TcpEndToEnd` is external: one kernel-socket connection that streams,
  reads when it likes, never takes back window it granted, repeats what is not
  acknowledged, and judges what arrives by its sequence number. The link itself loses
  nothing, which is what the library is made for (`src/include/tcp_stack.h`); segments are
  lost where a ring is full or the pool empty.
* **Resources.** `build_segment` fails when the pool is empty: `queue_control` may always
  drop, `SendBuild` may stop at any number of segments, `CloseRetry` has both cases. A
  transmit burst is taken in part (`SendBurst`, `FlushControl`, `send_burst`).
* **The application** calls only with ids it got from `accepted`, one call at a time
  (rule 1 of `src/README.md`, "Rules"). It may call again after `close()`, which the header
  forbids and `lookup` guards against. It drops an id (`Forget`) before its generation
  comes round: with 2^32 generations nothing can tell such an id from a new one. The
  guard of `Open` says so; `EchoServer` assumes the same of `released_gen_`.
* **Teardown.** Packets of any pool may be sent on any port. `HandlesFirst` is the caller's
  duty from `src/include/packet_pool.h:19-22`: its `shared_ptr`s to pools go before the
  runtime does. The program sends nothing once a teardown has begun.
* **Construction.** The constructor of `runtime` may fail at the claim and in
  `rte_eal_init`. A `std::bad_alloc` from `build_eal_args` between the two
  (`src/src/runtime.cpp:149-154`) is not modelled; it would leave the claim taken.
* **Fault.** `tx_pc = "fault"` is the null dereference that the unchecked second
  `lookup` of `send` and `send_space` would be.
* **History variables**: `wire_end`, `seen` (`TcpStack`), `app_in`, `lost`
  (`TcpEndToEnd`), `map`, `known`, `handed`, `echoed`, `closes`.

## 3. What TLC checks

| Run | Instance | Properties | Shows |
|---|---|---|---|
| `two_slots` | two slots, two peers, three generations; 1.3 million states | `GenerationsFromOne`, `SlotNotRecycled`, `StaleIdNeverResolves`, `NoNullDereference`, `SlotsAccounted`, `FlowsExact` | lock-free recycling under every interleaving of `poll()` with sender calls and every visibility order of `open()`; generations skip 0 when they wrap |
| `data` | one connection, two packets a poll, `SeqSize` 8; 1.2 million | `AckPendingLive`, `SndNxtCoversWire`, `SndNxtExactBetweenCalls`, `LifecycleSpec`, `FinAckedTruly`, `DeliveredInOrder` | several segments of a connection in one burst; data across the wrap, partial bursts, empty pool; the endpoint implements `ConnLifecycle`; a FIN taken for acknowledged only when it is; bytes delivered in order and once, whatever arrives |
| `e2e` | endpoint sending three bytes to a client with room for two; 1.3 million | `WindowRespected` | nothing is sent past the window granted, while the queues overtake each other |
| `close` | client with two bytes and a FIN, up to two losses; 0.14 million, fair | `InOrderOnce`, `AckedIsDelivered`, `ResetOnlyWhenOver`, `ListsFit`, `ClosesCleanly`, `SlotReclaimed` | delivery once and in order, the end of a connection on both sides, the fixed arrays of `poll()` |
| `flow_table` | four keys, capacity 3, 8 cells; 0.16 million, fair | `FindIsMap`, `CallsEnd` | the table is a map; its loops end |
| `packets` | two port objects, one device, three mbufs, two bursts; 37 thousand, up to symmetry | `OneHolder`, `BurstFits`, `OneOwner`, `HandedOnce`, `NothingSkipped` | ownership of devices, queues and mbufs; `OneOwner` across several devices is left to the proof |
| `echo` | one slot, a ring of one item, a window of one byte, two bytes; 0.12 million, fair | `ClosedOnce`, `EchoedInOrder`, `EchoedBeforeClose`, `EndIsClosed`, `AllEchoed`, `StopEnds` | the echo server's two threads |
| `arp` | three neighbours, capacity 2, 4 cells, every hash; 5.6 thousand | `LookupIsKnown`, `OnlyOurPeersAdded` | the neighbor table, also when full |
| `runtime` | three runtime objects, two devices, three pools; 27 thousand | `OneRuntime`, `ClaimNotLeaked`, `EalFollowsOwner`, `PoolsFreedFirst`, `RxFromOwnPool`, `DevicesOwned` | ownership of the EAL and the order of teardown |
| `default_id`, `window_edge`, `teardown` | | `DefaultIdNeverValid`, `WindowRespected`, `TxRingsHavePools` | the findings (section 6) |

**Bounds.** `SeqSize` (sequence numbers) and `GenMod` (generations) are small so that both
wrap within a run; `MaxBurst`, `MaxSend`, `CloseRetries`, `Mss` and `ReceiveWindow` are the
code's own constants, scaled down. `OneSlotReused` and `FirstConnections` are state
constraints: in `two_slots` one slot is reused without limit and the other carries one
connection, in `data` only first connections are followed, since that run is about what
happens within one. In `TcpEndToEnd`, `PeerBytes` and `SendBytes` bound what each side sends,
`PeerBuffer` the client's receive buffer, `LinkRoom` each queue (a queue of one is full at
once, which makes losses and waiting common), `MaxLost` the number of losses. `Packets` has
`MaxSize` for the storage of a burst and `MaxAsked`, larger, for what a caller asks for.
`MaxBytes`, `MaxWindow` and `MaxBatch` of `EchoServer` are one or two, so that the ring, the
overflow queue and the window are each the bottleneck in some behaviour. A property that
needs two connections of one slot, two items in a queue or two segments in a burst sees
them. The theorems of section 4 have no bounds.

**Fairness.** The receiver polls for ever and the sender's calls have no blocking step, so
each thread is weakly fair: `WF(Deliver \/ InboundThread)`, `WF(OutboundThread)` in
`TcpEndToEnd`, with `WF(ClientRuns)` for a client that keeps repeating and reading;
`WF(Inbound)` and `WF(Outbound)` in `EchoServer`; `WF(Step)` for a loop of `FlowTable`.
`EchoServer` adds `SF(PollAck(s))`: a peer that keeps reading opens its window again and
again. `TcpStack` itself needs no fairness.

**Deadlock** is checked except in `EchoServer`, whose threads end after `stop`, and in the
runs of `TcpEndToEnd`, where polls of an empty queue are left out and an exchange that is
over leaves nothing to do.

## 4. What is proved

The assumptions are those named in the modules: `SeqSizeAssumption` (an even size, at least
4), `SizeAssumption`, `KeyAssumption`, `SegmentAssumption` (the types of the scaled
constants), `LengthAssumption` (a payload is shorter than the sequence space; the code takes
its length from IPv4's 16-bit total length), `TableAssumption` and `ArpAssumption` (at least
twice as many cells as entries, and a hash into them), `NQueuesAssumption`,
`PoolAssumption`, `PacketsAssumption`, `EchoAssumption`. None bounds the number of slots,
keys, segments, objects or devices.

**`TcpStackTypes`**: `TypeCorrect`. Types alone are inductive; no run repeats it. The module
also has the lemmas on slot lists (appending, taking off the end, removing).

**`TcpStackProofs`**: `SlotsAccountedHolds`, `SlotNotRecycledHolds`,
`StaleIdNeverResolvesHolds`, `NoNullDereferenceHolds`, and `IdsTrackSlotsHolds`, which the
others need and no run checks by itself. The invariant `Inv` is the conjunction of these properties with the types. `SlotNotRecycled` alone is not
inductive: what keeps inbound from recycling a slot that outbound has looked up is that a
held id which is current belongs to a slot whose `released` flag only the sender sets. That
takes `IdsTrackSlots`: a held id of an older generation finds its slot released or
re-opened, an id still in `events` is current and not yet held, the generation `open()` is
about to store is held by nobody, and the flags a lookup has loaded do not outlive a
release. An inbound step is then either quiet for ids, or recycles a slot nobody holds, or
is part of `open()`, or hands out events; a sender step either carries a call on or closes
an id.

`GenerationsFromOneHolds`: no connection and no id has generation 0, however often a slot is
reused. `GenInv` adds the connection half-way through `open()`, whose generation is not 0 once
stored, and the ids on their way to the application in `events`; that those are about slots
in use is again `IdsTrackSlots`.

The same module has `SndNxtCoversWireHolds` and `SndNxtExactHolds`, from `WireInv`: slots no
call works on are settled (`SlotsSettled`), a slot half-way through `open()` gets both numbers
from one value (`OpenWire`), a call past `sendable` works on a connection whose FIN is not out
(`NotFinished`), and at each program point of `send` and `close` the published number, the end
of the wire and the call's locals stand in a fixed relation (`CallWire`).

**`TcpLifecycleProofs`** has what builds on `Inv`:

* `FlowsExactHolds`. `FlowsExact` is strengthened by two facts: slots in use have a key, and
  the key of a connection half-way through `open()` is not mapped.
* `ListsFitHolds`, from `Budget`: after `n` packets of a burst, the events, control segments
  and owed ACKs take no more than `n` packets' share of the arrays, and a packet within its
  processing has so much of its share left.
* `LifecycleImplemented`, the refinement of `ConnLifecycle`. `LogInv` says which events a
  connection has reported in each of its states and when `fin_sent` is set; with it each step
  of `TcpStack` is one of `Open`, a report, a close or a recycling of the abstract
  specification, or invisible to it.
* `FinAckedTrulyHolds`, an action property. `FinInv` says that a FIN taken for acknowledged
  was sent; only `AckProcessed` can take it so (`NextFin`), and once `fin_sent` is
  stored no step moves `snd_nxt` (`StreamEnds`).
* `AckPendingLiveHolds`, from `AckInv`: which states a pending ACK may be found in.
* `DeliveredInOrderHolds`, an action property: a step delivers nothing, or in one event the
  bytes that start at `rcv_nxt_local`, which moves past them and past a FIN taken with them.
  The network may bring any segment at any time. That trimming leaves exactly those bytes is
  modular arithmetic (`FreshBytes`), and is where `LengthAssumption` is needed: a longer
  payload would look like old data. Each other step delivers nothing (`NoDelivery`).
* `AckNumberPublishedHolds`: `rcv_nxt`, which `send` and `close` put in the ACK field, is the
  number delivery has come to. `RcvInv` adds that it already is so in a slot half-way through
  `open()` once that store is visible.

**`FlowTableProofs`**: `FindIsMapHolds`, for any size, capacity and hash. `TableInv` states
that there is no empty cell between an entry's home and its place, except for the hole a
deletion is about to fill, that keys are unique and agree with the reference map, what the
loop in progress has already probed or shifted, and, by counting, that an empty cell is
left.

**`ArpProofs`**: `LookupIsKnownHolds`, `OnlyOurPeersAddedHolds`, from the analogous
`ArpInv` with the counted size.

**`PortProofs`**: `OneOwnerHolds`, `HandedOnceHolds`, `NothingSkippedHolds`. The claimed flags
are exactly what was handed out, and everything below the cursor is claimed. The three are
stated for ports as `Packets` uses them, for any number of devices. `OneHolderHolds`, `BurstFitsHolds`: `HolderInv` says that the
pool, the rings and the bursts list each mbuf once, and no two of them the same one.

**`RuntimeProofs`**: `OneRuntimeHolds`, `ClaimNotLeakedHolds`, `EalFollowsOwnerHolds`,
`PortsClosedFirstHolds`, `PoolsFreedFirstHolds` (given `HandlesFirst`),
`RxFromOwnPoolHolds`, `DevicesOwnedHolds`. `OwnerInv` ties the claim
and the EAL to the one object in effect; `BufferInv` adds which device is started for which
port, and that handles to pools outlive no runtime.

**`EchoProofs`**: `WorkHolds`, `ClosedOnceHolds`, `EchoedInOrderHolds`,
`EchoedBeforeCloseHolds`. `RingInv` says that the cells between tail and head
are filled, that producer and consumer keep out of each other's cells, and that a copy not yet
published is of the oldest piece not in the ring. `WorkInv` is about the work on its way, in the
ring, in the overflow queue and in the hands of a thread: the pieces of one connection are in
order and do not overlap, they cover exactly the bytes received and not yet echoed, what is
at the front starts where the echo stands, and a close comes last and once.

**Only model-checked.** Liveness, because fairness is outside the prover's reach:
`SlotReclaimed`, `ClosesCleanly`, `CallsEnd`, `EndIsClosed`, `AllEchoed`, `StopEnds`. Of the
safety properties, the four of `TcpEndToEnd`: `WindowRespected`, `ResetOnlyWhenOver`,
`InOrderOnce`, `AckedIsDelivered`. The first is false of an eager client (section 6), and it
and the second depend on how much the queues of the instance can delay; the other two compare
what was sent with the concatenation of the payloads of all events, a fold whose value for
every length takes an induction over data. What one step adds to that concatenation is
`DeliveredInOrder`, which is proved.

## 5. What is not modelled

* Header builders, parsers and checksums: pure byte layout. No property here tells a
  well-formed header from another; `process()` discards the malformed ones.
* `tap_interface`: system calls on a Linux interface.
* `easy_usage.cpp`, `advanced_usage.cpp` and the main program of the echo server:
  straight-line set-up. Setting `stop` is an action of `EchoServer`.
* `build_eal_args`, `set_ipv4_address`, `mac_address`, packet contents and the offsets into
  them; statistics counters, which nothing reads back.
* `tcp_stack`'s set-up (`listen()`, parameter checks, errors of a second `receiver()`): it is
  over before the threads start. `Init` is the state it leaves.
* A second connection, reordering on the wire and loss on the wire in `TcpEndToEnd`;
  `TcpStack`, where the network delivers anything, covers the endpoint's own safety there.
* Timers: the code has none, so a handshake never completed keeps its slot, and what the
  endpoint itself sends is not sent again.

## 6. Findings

* `default_id`. A slot starts with generation 0 and no flags, so `lookup` resolves a
  value-initialized `conn_id` to slot 0 until the first connection opens there.
  `src/include/tcp_stack.h:106` says such an id "is never valid".
* `window_edge`. `process_ack` advances `snd_una` on every acknowledgement but takes the
  window only from a segment that passes the WL1/WL2 test (`src/src/tcp_stack.cpp:490`). The
  acknowledgement on a repeated old segment then pairs a new `snd_una` with an old, larger
  window, and `send()` goes past the right edge the peer granted; `src/include/tcp_stack.h:73`
  and `src/README.md:260` say it stays within the window. The run `e2e` shows that it does for
  a client that repeats a segment only when nothing is under way (`Eager = FALSE`).

* `teardown`. `runtime` destroys its ports one after the other (`src/src/runtime.cpp:188`), and
  each drops its own pool. A packet allocated from one port's pool and sent on another may
  still be in that other port's TX ring when its pool goes; the driver then returns a buffer
  to freed memory. `src/README.md:8` says there is "no teardown order to remember".
  A device's receive ring only has buffers of its own port's pool (`RxFromOwnPool`).

Met on the way, and stated as assumptions of the models rather than as findings:

* With the neighbor table full, `handle_arp` answers a request whose sender it could not
  learn and reports `replied` (`src/src/arp.h:69`); nothing reads the table yet.
* `released_gen_` of the echo server keeps the last generation it closed for ever
  (`src/examples/tcp_echo_server.h:238`): a connection of the same slot with the same
  generation would not be closed. That takes 2^32 - 1 handshakes aborted on one slot.
* A pool the program keeps past its runtime is freed after `rte_eal_cleanup`
  (`src/include/packet_pool.h`): `HandlesFirst`.

## 7. What could come next

A proof of `WindowRespected` for a client that repeats only when nothing is under way, which
needs an invariant over the contents of the three queues. A client with several connections,
and loss on the wire, in `TcpEndToEnd`.
