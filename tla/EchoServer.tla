----------------------------- MODULE EchoServer -----------------------------
(***************************************************************************)
(* The echo server of src/examples/tcp_echo_server.h: an inbound thread    *)
(* that polls the stack and an outbound thread that echoes and closes,     *)
(* joined by a bounded single-producer/single-consumer ring and an         *)
(* overflow queue.  The stack is what module ConnLifecycle promises (and   *)
(* TcpStack implements), with the peer's window added: space.              *)
(*                                                                         *)
(* Payload bytes are numbered 1, 2, ... per connection.                    *)
(***************************************************************************)
EXTENDS Integers, Sequences

CONSTANTS Slots,
          Capacity,   \* of the ring: a power of two
          CounterMod, \* 2^64, the width of head_ and tail_: a multiple of Capacity
          ItemBytes,  \* sizeof(work_item::bytes)
          NQueues,    \* RX queues polled in turn
          GenMod,     \* 2^32, the width of a generation
          MaxBytes,   \* bound: bytes a peer sends on a connection
          MaxWindow,  \* bound: the peer's window
          MaxBatch    \* bound: what the stack does in one poll()

ASSUME EchoAssumption ==
  /\ Capacity \in Nat \ {0} /\ CounterMod \in Nat /\ CounterMod > Capacity
  /\ CounterMod % Capacity = 0
  /\ ItemBytes \in Nat \ {0} /\ NQueues \in Nat \ {0} /\ GenMod \in Nat /\ GenMod >= 3
  /\ MaxBytes \in Nat /\ MaxWindow \in Nat \ {0} /\ MaxBatch \in Nat \ {0}

VARIABLES
  \* the stack: ConnLifecycle's state, and per slot the generation, the bytes
  \* delivered to the server and the room in the peer's window
  in_use, log, finished, released, gen, received, space,
  \* the ring and the overflow queue
  head, tail, items, overflow,
  \* inbound thread: program point, RX queue, work done in this poll(), its events
  in_pc, queue, polled, events,
  \* outbound thread: program point, bytes of the item already sent, released_gen_
  out_pc, sent, released_gen,
  stop,
  \* history: bytes echoed on the slot's connection, close() calls for it
  echoed, closes

connVars == <<in_use, log, finished, released>>
stackVars == <<connVars, gen, received, space>>
ringVars == <<head, tail, items>>
inVars == <<in_pc, queue, polled, events>>
outVars == <<out_pc, sent, released_gen>>
history == <<echoed, closes>>
vars == <<stackVars, ringVars, overflow, inVars, outVars, stop, history>>

Conn == INSTANCE ConnLifecycle

NoItem == [what |-> "none"]

Init ==
  /\ Conn!Init
  /\ gen = [s \in Slots |-> 0] /\ received = [s \in Slots |-> 0]
  /\ space = [s \in Slots |-> 0]
  /\ head = 0 /\ tail = 0 /\ items = [i \in 0 .. (Capacity - 1) |-> NoItem]
  /\ overflow = <<>>
  /\ in_pc = "top" /\ queue = 1 /\ polled = 0 /\ events = <<>>
  /\ out_pc = "top" /\ sent = 0 /\ released_gen = [s \in Slots |-> 0]
  /\ stop = FALSE
  /\ echoed = [s \in Slots |-> <<>>] /\ closes = [s \in Slots |-> 0]

-----------------------------------------------------------------------------
\* spsc_ring

\* reserve() finds no slot: head_ is the producer's own, tail_ is loaded.
Full == (head - tail) % CounterMod = Capacity

Reserve(item) == items' = [items EXCEPT ![head % Capacity] = item]
Commit == head' = (head + 1) % CounterMod
front == items[tail % Capacity]

-----------------------------------------------------------------------------
\* The inbound thread

InboundTop ==
  /\ in_pc = "top"
  /\ in_pc' = IF stop THEN "ended" ELSE "drain"
  /\ queue' = 1
  /\ UNCHANGED <<stackVars, ringVars, overflow, polled, events, outVars, stop, history>>

\* drain_overflow: the oldest item is copied into the ring, then published.
DrainCopy ==
  /\ in_pc = "drain" /\ overflow # <<>> /\ ~Full
  /\ Reserve(Head(overflow))
  /\ in_pc' = "drain_commit"
  /\ UNCHANGED <<stackVars, head, tail, overflow, queue, polled, events, outVars,
                 stop, history>>

DrainCommit ==
  /\ in_pc = "drain_commit"
  /\ Commit
  /\ overflow' = Tail(overflow)
  /\ in_pc' = "drain"
  /\ UNCHANGED <<stackVars, tail, items, queue, polled, events, outVars, stop, history>>

DrainDone ==
  /\ in_pc = "drain" /\ (overflow = <<>> \/ Full)
  /\ in_pc' = "poll" /\ polled' = 0
  /\ UNCHANGED <<stackVars, ringVars, overflow, queue, events, outVars, stop, history>>

\* What poll() does to the connection table, and the events it returns.  No generation
\* comes round while released_gen_ still holds it.
Polling == in_pc = "poll" /\ polled < MaxBatch /\ polled' = polled + 1

NextGeneration(g) == IF (g + 1) % GenMod = 0 THEN 1 ELSE g + 1

PollBegin(s) ==
  /\ Polling /\ Conn!Begin(s)
  /\ NextGeneration(gen[s]) # released_gen[s]
  /\ gen' = [gen EXCEPT ![s] = NextGeneration(@)]
  /\ received' = [received EXCEPT ![s] = 0]
  /\ space' = [space EXCEPT ![s] = MaxWindow]
  /\ echoed' = [echoed EXCEPT ![s] = <<>>] /\ closes' = [closes EXCEPT ![s] = 0]
  /\ UNCHANGED <<ringVars, overflow, in_pc, queue, events, outVars, stop>>

Event(type, s, from, len) ==
  [type |-> type, conn |-> [slot |-> s, generation |-> gen[s]], from |-> from, len |-> len]

PollReport(s, type) ==
  /\ Polling /\ Conn!Report(s, type)
  /\ events' = Append(events, Event(type, s, 0, 0))
  /\ UNCHANGED <<gen, received, space, ringVars, overflow, in_pc, queue, outVars,
                 stop, history>>

PollData(s, n) ==
  /\ Polling /\ in_use[s] /\ log[s] = <<"accepted">>
  /\ received[s] + n <= MaxBytes
  /\ received' = [received EXCEPT ![s] = @ + n]
  /\ events' = Append(events, Event("data", s, received[s] + 1, n))
  /\ UNCHANGED <<connVars, gen, space, ringVars, overflow, in_pc, queue, outVars,
                 stop, history>>

\* An ACK opens the window.
PollAck(s) ==
  /\ Polling /\ in_use[s] /\ ~Conn!Ended(log[s]) /\ space[s] < MaxWindow
  /\ space' = [space EXCEPT ![s] = MaxWindow]
  /\ UNCHANGED <<connVars, gen, received, ringVars, overflow, in_pc, queue, events,
                 outVars, stop, history>>

PollRecycle(s) ==
  /\ Polling /\ Conn!Recycle(s)
  /\ UNCHANGED <<gen, received, space, ringVars, overflow, in_pc, queue, events,
                 outVars, stop, history>>

PollReturn ==
  /\ in_pc = "poll"
  /\ in_pc' = "handle"
  /\ UNCHANGED <<stackVars, ringVars, overflow, queue, polled, events, outVars,
                 stop, history>>

-----------------------------------------------------------------------------
\* handle(): the events of the poll, oldest first

\* accepted and closed are only counted.
HandleCounted ==
  /\ in_pc = "handle" /\ events # <<>> /\ Head(events).type \in {"accepted", "closed"}
  /\ events' = Tail(events)
  /\ UNCHANGED <<stackVars, ringVars, overflow, in_pc, queue, polled, outVars, stop, history>>

\* Bytes of a data event that fit in one work item.
Chunk(ev) == IF ev.len < ItemBytes THEN ev.len ELSE ItemBytes

WorkItem(ev) == [what |-> ev.type, conn |-> ev.conn, from |-> ev.from, len |-> Chunk(ev)]

\* The item is in: on to the event's next chunk, or to the next event.
Enqueued(ev) ==
  events' = IF Chunk(ev) < ev.len
            THEN <<[ev EXCEPT !.from = @ + Chunk(ev), !.len = @ - Chunk(ev)]>> \o Tail(events)
            ELSE Tail(events)

\* Mutant: wait for room instead of spilling over.
EnqueueBlocks ==
  /\ in_pc = "handle" /\ events # <<>>
  /\ Head(events).type \in {"data", "peer_closed", "reset"}
  /\ ~Full
  /\ Reserve(WorkItem(Head(events)))
  /\ in_pc' = "commit"
  /\ UNCHANGED <<overflow, events>>
  /\ UNCHANGED <<stackVars, head, tail, queue, polled, outVars, stop, history>>

\* Mutant: the ring is tried even while older items wait in the overflow queue.
EnqueuePastOverflow ==
  /\ in_pc = "handle" /\ events # <<>>
  /\ Head(events).type \in {"data", "peer_closed", "reset"}
  /\ LET ev == Head(events)
     IN  IF ~Full
         THEN /\ Reserve(WorkItem(ev))
              /\ in_pc' = "commit"
              /\ UNCHANGED <<overflow, events>>
         ELSE /\ overflow' = Append(overflow, WorkItem(ev))
              /\ Enqueued(ev)
              /\ UNCHANGED <<items, in_pc>>
  /\ UNCHANGED <<stackVars, head, tail, queue, polled, outVars, stop, history>>

\* enqueue: the ring when nothing waits before it and there is room, else the overflow
\* queue; the inbound thread never waits.
Enqueue ==
  /\ in_pc = "handle" /\ events # <<>>
  /\ Head(events).type \in {"data", "peer_closed", "reset"}
  /\ LET ev == Head(events)
     IN  IF overflow = <<>> /\ ~Full
         THEN /\ Reserve(WorkItem(ev))
              /\ in_pc' = "commit"
              /\ UNCHANGED <<overflow, events>>
         ELSE /\ overflow' = Append(overflow, WorkItem(ev))
              /\ Enqueued(ev)
              /\ UNCHANGED <<items, in_pc>>
  /\ UNCHANGED <<stackVars, head, tail, queue, polled, outVars, stop, history>>

EnqueueCommit ==
  /\ in_pc = "commit"
  /\ Commit
  /\ Enqueued(Head(events))
  /\ in_pc' = "handle"
  /\ UNCHANGED <<stackVars, tail, items, overflow, queue, polled, outVars, stop, history>>

\* The next RX queue, or the top of the loop.
HandleDone ==
  /\ in_pc = "handle" /\ events = <<>>
  /\ IF queue < NQueues
     THEN in_pc' = "poll" /\ queue' = queue + 1 /\ polled' = 0
     ELSE in_pc' = "top" /\ UNCHANGED <<queue, polled>>
  /\ UNCHANGED <<stackVars, ringVars, overflow, events, outVars, stop, history>>

-----------------------------------------------------------------------------
\* The outbound thread.  It works on the front item in place.

OutboundTop ==
  /\ out_pc = "top"
  /\ stop \/ head # tail
  /\ out_pc' = IF stop THEN "ended"
               ELSE IF front.what = "data" THEN "data" ELSE "close"
  /\ sent' = 0
  /\ UNCHANGED <<stackVars, ringVars, overflow, inVars, released_gen, stop, history>>

\* tcp_sender::lookup finds the connection.
Resolves(id) == gen[id.slot] = id.generation /\ ~released[id.slot]

sendable(id) == Resolves(id) /\ ~finished[id.slot] /\ ~Conn!Ended(log[id.slot])

\* Mutant: only the window ends the retry loop.
RetryingForever == sent < front.len

\* The retry loop's condition.
Retrying == sent < front.len /\ sendable(front.conn) /\ ~stop

\* A send() the window has room for; one that takes nothing is tried again.
SendData(n) ==
  LET s == front.conn.slot
  IN  /\ out_pc = "data" /\ Retrying
      /\ n <= space[s] /\ n <= front.len - sent
      /\ sent' = sent + n
      /\ space' = [space EXCEPT ![s] = @ - n]
      /\ echoed' = [echoed EXCEPT ![s] = @ \o [i \in 1 .. n |-> front.from + sent + i - 1]]
      /\ UNCHANGED <<connVars, gen, received, ringVars, overflow, inVars, out_pc,
                     released_gen, stop, closes>>

DataDone ==
  /\ out_pc = "data" /\ ~Retrying
  /\ out_pc' = "pop"
  /\ UNCHANGED <<stackVars, ringVars, overflow, inVars, sent, released_gen, stop, history>>

\* Mutant: close() for every peer_closed and every reset.
CloseAlways ==
  LET id == front.conn
  IN  /\ out_pc = "close"
      /\ closes' = [closes EXCEPT ![id.slot] = @ + IF gen[id.slot] = id.generation THEN 1 ELSE 0]
      /\ out_pc' = "finish"
      /\ UNCHANGED <<stackVars, ringVars, overflow, inVars, sent, released_gen, stop, echoed>>

\* close_once: a generation already released is not closed again.
close_once ==
  LET id == front.conn
  IN  /\ out_pc = "close"
      /\ IF released_gen[id.slot] # id.generation
         THEN /\ released_gen' = [released_gen EXCEPT ![id.slot] = id.generation]
              /\ closes' = [closes EXCEPT ![id.slot] =
                              @ + IF gen[id.slot] = id.generation THEN 1 ELSE 0]
              /\ out_pc' = "finish"
         ELSE out_pc' = "pop" /\ UNCHANGED <<released_gen, closes>>
      /\ UNCHANGED <<stackVars, ringVars, overflow, inVars, sent, stop, echoed>>

\* close() sends our FIN, unless the connection is over, and gives the slot up.
CloseFinish ==
  /\ out_pc = "finish"
  /\ out_pc' = "release"
  /\ IF sendable(front.conn) THEN Conn!Finish(front.conn.slot) ELSE UNCHANGED connVars
  /\ UNCHANGED <<gen, received, space, ringVars, overflow, inVars, sent, released_gen,
                 stop, history>>

CloseRelease ==
  /\ out_pc = "release"
  /\ out_pc' = "pop"
  /\ IF Resolves(front.conn) THEN Conn!Release(front.conn.slot) ELSE UNCHANGED connVars
  /\ UNCHANGED <<gen, received, space, ringVars, overflow, inVars, sent, released_gen,
                 stop, history>>

Pop ==
  /\ out_pc = "pop"
  /\ tail' = (tail + 1) % CounterMod
  /\ out_pc' = "top"
  /\ UNCHANGED <<stackVars, head, items, overflow, inVars, sent, released_gen, stop, history>>

\* The program is asked to end.
Stop ==
  /\ ~stop /\ stop' = TRUE
  /\ UNCHANGED <<stackVars, ringVars, overflow, inVars, outVars, history>>

-----------------------------------------------------------------------------
\* What the network brings during a poll.
Network ==
  \E s \in Slots : \/ PollBegin(s) \/ PollAck(s) \/ PollRecycle(s)
                   \/ \E type \in {"accepted", "peer_closed", "closed", "reset"} :
                        PollReport(s, type)
                   \/ \E n \in 1 .. MaxBytes : PollData(s, n)

Inbound ==
  \/ InboundTop \/ DrainCopy \/ DrainCommit \/ DrainDone \/ PollReturn
  \/ HandleCounted \/ Enqueue \/ EnqueueCommit \/ HandleDone

Outbound ==
  \/ OutboundTop \/ (\E n \in 1 .. MaxWindow : SendData(n)) \/ DataDone
  \/ close_once \/ CloseFinish \/ CloseRelease \/ Pop

Next == Network \/ Inbound \/ Outbound \/ Stop

Spec == Init /\ [][Next]_vars

\* Both threads run (one core each), and a live peer keeps acknowledging: a window that
\* is closed again and again when the stack is polled is in the end opened.
FairSpec ==
  /\ Spec /\ WF_vars(Inbound) /\ WF_vars(Outbound)
  /\ \A s \in Slots : SF_vars(PollAck(s))

-----------------------------------------------------------------------------
\* Properties

\* What is echoed on a connection is what came in on it, in order, nothing lost in
\* between, repeated or taken from another connection: ring, overflow queue and chunks
\* keep the order.
EchoedInOrder ==
  \A s \in Slots : /\ Len(echoed[s]) <= received[s]
                   /\ \A i \in 1 .. Len(echoed[s]) : echoed[s][i] = i

\* Our direction is finished after a peer_closed only when "everything the peer sent is
\* already echoed".
EchoedBeforeClose ==
  \A s \in Slots :
    finished[s] /\ log[s] = <<"accepted", "peer_closed">> => Len(echoed[s]) = received[s]

\* "close() must happen exactly once per connection": a FIN followed by a reset asks twice.
ClosedOnce == \A s \in Slots : closes[s] <= 1

\* A connection the peer has finished or reset is in the end closed, so its slot is not
\* lost: neither thread waits for ever for the other.
EndIsClosed ==
  \A s \in Slots :
    (in_use[s] /\ log[s] # <<>> /\ log[s][Len(log[s])] \in {"peer_closed", "reset"})
      ~> (released[s] \/ stop)

\* Everything received is in the end echoed, unless the connection ends.
AllEchoed ==
  \A s \in Slots :
    (Len(echoed[s]) < received[s])
      ~> (Len(echoed[s]) = received[s] \/ Conn!Ended(log[s]) \/ stop)

\* Both threads end when asked to, even in the middle of a closed window.
StopEnds == stop ~> (in_pc = "ended" /\ out_pc = "ended")
=============================================================================
