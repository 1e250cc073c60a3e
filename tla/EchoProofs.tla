----------------------------- MODULE EchoProofs -----------------------------
(***************************************************************************)
(* The echo server for any number of slots, any capacity of the ring, any  *)
(* size of a work item and any width of the counters: what is echoed is    *)
(* what came in, in order; our direction is finished after a peer_closed   *)
(* only when all of it was; and a connection is closed once.               *)
(*                                                                         *)
(* Ring, overflow queue and events of the poll are one queue of pieces.    *)
(* RingInv says what a step does to it, WorkInv what is in it.             *)
(***************************************************************************)
EXTENDS EchoServer, TLAPS

USE SMTT(30), ZenonT(30)

-----------------------------------------------------------------------------
\* The work under way, as one queue

Kinds == {"data", "peer_closed", "reset"}
Ids == [slot : Slots, generation : Nat]
Items == [what : Kinds, conn : Ids, from : Nat, len : Nat]
Reports == {"accepted", "data", "peer_closed", "closed", "reset"}
Events == [type : Reports, conn : Ids, from : Nat, len : Nat]

\* Items in the ring, and the k-th of them.
Count == (head - tail) % CounterMod
Cell(k) == items[(tail + k - 1) % Capacity]

\* All that is under way: the ring, then the overflow queue, then the events.
Size == Count + Len(overflow) + Len(events)
AsItem(ev) == [what |-> ev.type, conn |-> ev.conn, from |-> ev.from, len |-> ev.len]
Piece(k) == IF k <= Count THEN Cell(k)
            ELSE IF k <= Count + Len(overflow) THEN overflow[k - Count]
            ELSE AsItem(events[k - Count - Len(overflow)])

\* The outbound thread is at the front item.
Busy == out_pc \notin {"top", "ended"}

RingType ==
  /\ head \in 0 .. (CounterMod - 1) /\ tail \in 0 .. (CounterMod - 1)
  /\ items \in [0 .. (Capacity - 1) -> Items \cup {NoItem}]
  /\ overflow \in Seq(Items) /\ events \in Seq(Events)

\* Producer and consumer keep out of each other's cells; a copy not yet published is of
\* the oldest piece that is not in the ring.
RingInv ==
  /\ RingType
  /\ Count <= Capacity
  /\ \A k \in 1 .. Count : Cell(k) \in Items
  /\ Busy => Count >= 1
  /\ in_pc \in {"commit", "drain_commit"} => Count < Capacity
  /\ in_pc = "drain_commit" => overflow # <<>> /\ Cell(Count + 1) = Head(overflow)
  /\ in_pc = "commit" => /\ events # <<>> /\ overflow = <<>>
                         /\ Head(events).type \in Kinds /\ Cell(Count + 1) = WorkItem(Head(events))

-----------------------------------------------------------------------------
\* Bytes, counted

\* What is more than r of r + n bytes is among the n that follow r.
LEMMA NewByte ==
  ASSUME NEW a \in Nat, NEW r \in Nat, NEW n \in Nat, NEW b \in Int, b \in (a + 1) .. (r + n)
  PROVE  b \in (a + 1) .. r \/ (r + 1 <= b /\ b < (r + 1) + n)
  OBVIOUS

\* Bytes come on top of those before.
LEMMA MoreBytes ==
  ASSUME NEW r \in Nat, NEW n \in Nat
  PROVE  r + n \in Nat /\ r <= r /\ r <= r + n /\ \A a \in Nat : a <= r => a <= r + n
  OBVIOUS

\* The bytes of a new event are the last ones.
LEMMA LastBytes ==
  ASSUME NEW r \in Nat, NEW n \in Nat \ {0}
  PROVE  r + 1 >= 1 /\ n >= 1 /\ (r + 1) + n <= (r + n) + 1 /\ \A a \in Nat : a <= r => r + 1 > a
  OBVIOUS

\* Fewer are left once n more are echoed.
LEMMA FewerLeft ==
  ASSUME NEW e \in Nat, NEW n \in Nat, NEW r \in Nat
  PROVE  ((e + n) + 1) .. r \subseteq (e + 1) .. r
  OBVIOUS

\* An element of a concatenation is one of the first sequence or one of the second.
LEMMA ConcatAt ==
  ASSUME NEW a \in Seq(Nat), NEW c \in Seq(Nat)
  PROVE  /\ a \o c \in Seq(Nat) /\ Len(a \o c) = Len(a) + Len(c)
         /\ \A i \in 1 .. (Len(a) + Len(c)) :
              IF i <= Len(a) THEN i \in 1 .. Len(a) /\ (a \o c)[i] = a[i]
              ELSE /\ i - Len(a) \in 1 .. Len(c) /\ Len(a) + (i - Len(a)) = i
                   /\ (a \o c)[i] = c[i - Len(a)]
  OBVIOUS

-----------------------------------------------------------------------------
\* Counters that wrap

\* A remainder is the only one.
LEMMA ModUnique ==
  ASSUME NEW C \in Nat \ {0}, NEW q \in Int, NEW r \in 0 .. (C - 1)
  PROVE  (C * q + r) % C = r
  OBVIOUS

\* A number as quotient and remainder.
LEMMA ModForm ==
  ASSUME NEW C \in Nat \ {0}, NEW x \in Int
  PROVE  x % C \in 0 .. (C - 1) /\ \E q \in Int : x = C * q + (x % C)
  <1>1. x \div C \in Int /\ x = C * (x \div C) + (x % C) /\ x % C \in 0 .. (C - 1)
    OBVIOUS
  <1> QED BY <1>1, Zenon

\* Less than a turn further.
LEMMA ModShift ==
  ASSUME NEW C \in Nat \ {0}, NEW x \in Int, NEW d \in 0 .. C
  PROVE  (x + d) % C = IF (x % C) + d < C THEN (x % C) + d ELSE (x % C) + d - C
  <1>1. x % C \in 0 .. (C - 1)
    BY ModForm
  <1>2. PICK q \in Int : x = C * q + (x % C)
    BY ModForm, Zenon
  <1> DEFINE r == x % C
  <1>3. r = x % C
    OBVIOUS
  <1> HIDE DEF r
  <1>4. CASE r + d < C
    <2>1. x + d = C * q + (r + d) /\ r + d \in 0 .. (C - 1)
      BY <1>1, <1>2, <1>3, <1>4
    <2>2. (C * q + (r + d)) % C = r + d
      BY <2>1, ModUnique, Zenon
    <2> QED BY <1>3, <1>4, <2>1, <2>2
  <1>5. CASE ~(r + d < C)
    <2>1. C * (q + 1) = C * q + C /\ q + 1 \in Int
      OBVIOUS
    <2>2. x + d = C * (q + 1) + (r + d - C) /\ r + d - C \in 0 .. (C - 1)
      BY <1>1, <1>2, <1>3, <1>5, <2>1
    <2>3. (C * (q + 1) + (r + d - C)) % C = r + d - C
      BY <2>1, <2>2, ModUnique
    <2> QED BY <1>3, <1>5, <2>2, <2>3
  <1> QED BY <1>3, <1>4, <1>5

\* The counters' width is a multiple of the capacity: their wrap does not move the cells.
LEMMA ModWrap ==
  ASSUME NEW C \in Nat \ {0}, NEW x \in Int, NEW M \in Int, M % C = 0
  PROVE  (x + M) % C = x % C
  <1>1. x % C \in 0 .. (C - 1)
    BY ModForm
  <1>2. PICK q \in Int : x = C * q + (x % C)
    BY ModForm, Zenon
  <1>3. PICK p \in Int : M = C * p + (M % C)
    BY ModForm, Zenon
  <1>4. C * (q + p) = C * q + C * p /\ q + p \in Int /\ C * q \in Int /\ C * p \in Int
    OBVIOUS
  <1> DEFINE r == x % C
             a == C * q
             b == C * p
  <1>5. x = a + r /\ M = b /\ C * (q + p) = a + b /\ a \in Int /\ b \in Int /\ r \in Int
    BY <1>1, <1>2, <1>3, <1>4
  <1> HIDE DEF a, b, r
  <1>6. x + M = C * (q + p) + r
    BY <1>5
  <1>7. (C * (q + p) + r) % C = r
    BY <1>1, <1>4, ModUnique DEF r
  <1> QED BY <1>6, <1>7 DEF r

\* The constants as the proofs use them.
LEMMA Sizes ==
  /\ Capacity \in Nat \ {0} /\ CounterMod \in Nat \ {0} /\ Capacity < CounterMod
  /\ CounterMod % Capacity = 0
  BY EchoAssumption

\* How many items lie between two counters.
LEMMA Distance ==
  ASSUME NEW h \in 0 .. (CounterMod - 1), NEW t \in 0 .. (CounterMod - 1)
  PROVE  (h - t) % CounterMod = IF h >= t THEN h - t ELSE h - t + CounterMod
  <1>1. CounterMod \in Nat \ {0} /\ h - t \in Int
    BY Sizes
  <1>2. CASE h >= t
    <2>1. h - t \in 0 .. (CounterMod - 1) /\ h - t = CounterMod * 0 + (h - t)
      BY <1>1, <1>2
    <2> QED BY <1>1, <1>2, <2>1, ModUnique
  <1>3. CASE h < t
    <2>1. /\ h - t + CounterMod \in 0 .. (CounterMod - 1)
          /\ h - t = CounterMod * (-1) + (h - t + CounterMod)
      BY <1>1, <1>3
    <2> QED BY <1>1, <1>3, <2>1, ModUnique
  <1> QED BY <1>1, <1>2, <1>3

\* A counter moves on by one.
LEMMA Successor ==
  ASSUME NEW h \in 0 .. (CounterMod - 1)
  PROVE  /\ (h + 1) % CounterMod = IF h + 1 < CounterMod THEN h + 1 ELSE 0
         /\ (h + 1) % CounterMod \in 0 .. (CounterMod - 1)
  <1>1. CounterMod \in Nat \ {0}
    BY Sizes
  <1>2. CASE h + 1 < CounterMod
    <2>1. h + 1 \in 0 .. (CounterMod - 1) /\ h + 1 = CounterMod * 0 + (h + 1)
      BY <1>1, <1>2
    <2> QED BY <1>1, <1>2, <2>1, ModUnique
  <1>3. CASE h + 1 = CounterMod
    <2>1. 0 \in 0 .. (CounterMod - 1) /\ h + 1 = CounterMod * 1 + 0
      BY <1>1, <1>3
    <2> QED BY <1>1, <1>3, <2>1, ModUnique
  <1> QED BY <1>1, <1>2, <1>3

-----------------------------------------------------------------------------
\* The cells of the ring

\* The number of items is a number.
LEMMA CountType == ASSUME RingType PROVE Count \in 0 .. (CounterMod - 1)
  BY Sizes, Distance DEF RingType, Count

\* A turn of the counters is a number of turns of the ring.
LEMMA TurnCell == \A x \in Int : (x + CounterMod) % Capacity = x % Capacity
  <1> SUFFICES ASSUME NEW x \in Int PROVE (x + CounterMod) % Capacity = x % Capacity
    OBVIOUS
  <1>1. Capacity \in Nat \ {0} /\ CounterMod \in Int /\ CounterMod % Capacity = 0
    BY EchoAssumption
  <1> QED BY <1>1, ModWrap, Zenon

\* The cell reserve() returns is the one after the last item.
LEMMA HeadCell == ASSUME RingType PROVE head % Capacity = (tail + Count) % Capacity
  <1>1. Count = IF head >= tail THEN head - tail ELSE head - tail + CounterMod
    BY Distance DEF RingType, Count
  <1>2. tail + Count = head \/ tail + Count = head + CounterMod
    BY <1>1, Sizes DEF RingType
  <1>3. (head + CounterMod) % Capacity = head % Capacity
    <2>1. head \in Int
      BY Sizes DEF RingType
    <2> QED BY <2>1, TurnCell
  <1> QED BY <1>2, <1>3

\* Cells less than a turn apart are different.
LEMMA CellsDiffer ==
  ASSUME NEW t \in Int, NEW j \in Int, NEW k \in Int, j < k, k - j < Capacity
  PROVE  (t + j) % Capacity # (t + k) % Capacity
  <1> DEFINE x == t + j
             d == k - j
  <1>1. x \in Int /\ d \in 0 .. Capacity /\ d > 0 /\ d < Capacity /\ t + k = x + d
    BY Sizes
  <1>2. (x + d) % Capacity = IF (x % Capacity) + d < Capacity THEN (x % Capacity) + d
                             ELSE (x % Capacity) + d - Capacity
    BY <1>1, Sizes, ModShift, Zenon
  <1>3. x % Capacity \in 0 .. (Capacity - 1)
    BY <1>1, Sizes, ModForm
  <1> HIDE DEF x, d
  <1>4. (x + d) % Capacity # x % Capacity
    BY <1>1, <1>2, <1>3, Sizes
  <1> QED BY <1>1, <1>4 DEF x

\* Every cell is one of the ring.
LEMMA CellIndex == \A x \in Int : x % Capacity \in 0 .. (Capacity - 1)
  BY Sizes, ModForm

\* The item written into a reserved cell touches no other.
LEMMA Written ==
  ASSUME RingType, Count < Capacity, NEW item \in Items, Reserve(item), UNCHANGED <<head, tail>>
  PROVE  /\ Count' = Count /\ Cell(Count + 1)' = item
         /\ \A k \in 1 .. Count : Cell(k)' = Cell(k)
         /\ items' \in [0 .. (Capacity - 1) -> Items \cup {NoItem}]
  <1>1. Count' = Count /\ Count \in Nat /\ tail \in Int
    BY CountType, Sizes DEF Count, RingType
  <1>2. head % Capacity = (tail + Count) % Capacity
    BY HeadCell
  <1>3. items' = [items EXCEPT ![(tail + Count) % Capacity] = item]
    BY <1>2, Zenon DEF Reserve
  <1>4. \A x \in Int : x % Capacity \in 0 .. (Capacity - 1)
    BY CellIndex
  <1>5. ASSUME NEW k \in 1 .. Count PROVE Cell(k)' = Cell(k)
    <2>1. k - 1 \in Int /\ k - 1 < Count /\ Count - (k - 1) < Capacity /\ tail + k - 1 = tail + (k - 1)
      BY <1>1, <1>5, Sizes
    <2>2. (tail + (k - 1)) % Capacity # (tail + Count) % Capacity
      <3>1. Count \in Int
        BY <1>1
      <3> QED BY <1>1, <2>1, <3>1, CellsDiffer, Zenon
    <2>3. tail + (k - 1) \in Int
      BY <1>1, <2>1
    <2> QED BY <1>1, <1>3, <1>4, <2>1, <2>2, <2>3 DEF Cell, RingType
  <1>6. Cell(Count + 1)' = item
    <2>1. tail + (Count + 1) - 1 = tail + Count /\ tail + Count \in Int
      BY <1>1
    <2>2. items'[(tail + Count) % Capacity] = item
      BY <1>3, <1>4, <2>1 DEF RingType
    <2> QED BY <1>1, <2>1, <2>2 DEF Cell
  <1>7. items' \in [0 .. (Capacity - 1) -> Items \cup {NoItem}]
    BY <1>3, Zenon DEF RingType
  <1> QED BY <1>1, <1>5, <1>6, <1>7

\* commit() publishes one more item.
LEMMA Committed ==
  ASSUME RingType, Count < Capacity, Commit, UNCHANGED <<tail, items>>
  PROVE  Count' = Count + 1 /\ head' \in 0 .. (CounterMod - 1) /\ \A k : Cell(k)' = Cell(k)
  <1>1. head \in 0 .. (CounterMod - 1) /\ tail \in 0 .. (CounterMod - 1) /\ head' = (head + 1) % CounterMod
    BY DEF RingType, Commit
  <1>2. /\ head' = IF head + 1 < CounterMod THEN head + 1 ELSE 0
        /\ head' \in 0 .. (CounterMod - 1)
    BY <1>1, Successor
  <1>3. Count = IF head >= tail THEN head - tail ELSE head - tail + CounterMod
    BY <1>1, Distance DEF Count
  <1>4. Count' = IF head' >= tail THEN head' - tail ELSE head' - tail + CounterMod
    BY <1>1, <1>2, Distance DEF Count
  <1>5. Count' = Count + 1
    BY <1>1, <1>2, <1>3, <1>4, Sizes
  <1> QED BY <1>2, <1>5 DEF Cell

\* pop() gives the front item up.
LEMMA Popped ==
  ASSUME RingType, Count >= 1, tail' = (tail + 1) % CounterMod, UNCHANGED <<head, items>>
  PROVE  /\ Count' = Count - 1 /\ tail' \in 0 .. (CounterMod - 1)
         /\ \A k \in Nat : Cell(k)' = Cell(k + 1)
  <1>1. head \in 0 .. (CounterMod - 1) /\ tail \in 0 .. (CounterMod - 1)
    BY DEF RingType
  <1>2. /\ tail' = IF tail + 1 < CounterMod THEN tail + 1 ELSE 0
        /\ tail' \in 0 .. (CounterMod - 1)
    BY <1>1, Successor
  <1>3. Count = IF head >= tail THEN head - tail ELSE head - tail + CounterMod
    BY <1>1, Distance DEF Count
  <1>4. Count' = IF head >= tail' THEN head - tail' ELSE head - tail' + CounterMod
    BY <1>1, <1>2, Distance DEF Count
  <1>5. Count' = Count - 1
    BY <1>1, <1>2, <1>3, <1>4, Sizes
  <1>6. ASSUME NEW k \in Nat PROVE (tail' + k - 1) % Capacity = (tail + (k + 1) - 1) % Capacity
    <2>1. CASE tail + 1 < CounterMod
      <3>1. tail' + k - 1 = tail + (k + 1) - 1
        BY <1>1, <1>2, <2>1, Sizes
      <3> QED BY <3>1
    <2>2. CASE tail + 1 = CounterMod
      <3>1. tail' + k - 1 = k - 1 /\ tail + (k + 1) - 1 = (k - 1) + CounterMod /\ k - 1 \in Int
        BY <1>1, <1>2, <2>2, Sizes
      <3>2. ((k - 1) + CounterMod) % Capacity = (k - 1) % Capacity
        BY <3>1, TurnCell
      <3> QED BY <3>1, <3>2
    <2> QED BY <1>1, <2>1, <2>2, Sizes
  <1>7. \A k \in Nat : Cell(k)' = Cell(k + 1)
    BY <1>6 DEF Cell
  <1> QED BY <1>2, <1>5, <1>7

-----------------------------------------------------------------------------
\* What the steps do to the queue of pieces

SameWork == Size' = Size /\ \A k \in 1 .. Size : Piece(k)' = Piece(k)

\* A new piece at the end.
Added(p) == /\ Size' = Size + 1
            /\ \A k \in 1 .. Size' : Piece(k)' = IF k <= Size THEN Piece(k) ELSE p

\* The front is gone.
Dropped == Size' = Size - 1 /\ \A k \in 1 .. (Size - 1) : Piece(k)' = Piece(k + 1)

\* Piece m, which is no work, is gone.
Skipped(m) ==
  /\ m \in 1 .. Size /\ Piece(m).what \notin Kinds /\ Size' = Size - 1
  /\ \A k \in 1 .. (Size - 1) : Piece(k)' = IF k < m THEN Piece(k) ELSE Piece(k + 1)

\* q is the len bytes of p that begin at from.
Bytes(q, p, from, len) == q.what = p.what /\ q.conn = p.conn /\ q.from = from /\ q.len = len

\* Piece m is cut in two after its first c bytes.
Cut(m, c) ==
  /\ m \in 1 .. Size /\ c \in Nat \ {0} /\ c < Piece(m).len /\ Size' = Size + 1
  /\ Bytes(Piece(m)', Piece(m), Piece(m).from, c)
  /\ Bytes(Piece(m + 1)', Piece(m), Piece(m).from + c, Piece(m).len - c)
  /\ \A k \in 1 .. (m - 1) : Piece(k)' = Piece(k)
  /\ \A k \in (m + 2) .. (Size + 1) : Piece(k)' = Piece(k - 1)

Pieces == [what : Reports, conn : Ids, from : Nat, len : Nat]

\* The queue has a length, and pieces in it.
LEMMA PieceType ==
  ASSUME RingInv
  PROVE  /\ Size \in Nat /\ Count \in Nat /\ Count <= Size /\ Len(overflow) \in Nat /\ Len(events) \in Nat
         /\ \A k \in 1 .. Size : Piece(k) \in Pieces
  <1>1. Count \in Nat /\ Len(overflow) \in Nat /\ Len(events) \in Nat
    BY CountType, Sizes DEF RingInv, RingType
  <1>2. Size \in Nat /\ Count <= Size
    BY <1>1 DEF Size
  <1>3. ASSUME NEW k \in 1 .. Size PROVE Piece(k) \in Pieces
    <2>1. Items \subseteq Pieces
      BY DEF Items, Pieces, Kinds, Reports
    <2>2. CASE k <= Count
      BY <1>1, <1>2, <2>1, <2>2 DEF Piece, RingInv
    <2>3. CASE k > Count /\ k <= Count + Len(overflow)
      <3>1. k - Count \in 1 .. Len(overflow)
        BY <1>1, <2>3
      <3>2. overflow[k - Count] \in Items
        BY <3>1 DEF RingInv, RingType
      <3>3. Piece(k) = overflow[k - Count]
        BY <1>1, <2>3 DEF Piece
      <3> QED BY <2>1, <3>2, <3>3
    <2>4. CASE k > Count + Len(overflow)
      <3>1. k - Count - Len(overflow) \in 1 .. Len(events)
        BY <1>1, <2>4 DEF Size
      <3>2. events[k - Count - Len(overflow)] \in Events
        BY <3>1 DEF RingInv, RingType
      <3>3. Piece(k) = AsItem(events[k - Count - Len(overflow)])
        BY <1>1, <2>4 DEF Piece
      <3> QED BY <3>2, <3>3 DEF AsItem, Events, Pieces
    <2> QED BY <1>1, <2>2, <2>3, <2>4
  <1> QED BY <1>1, <1>2, <1>3

\* The front of the ring is the first piece.
LEMMA FrontPiece == ASSUME RingInv, Busy PROVE front = Piece(1) /\ 1 \in 1 .. Size /\ Count >= 1
  <1>1. Count >= 1 /\ Count \in Nat /\ Size \in Nat /\ Count <= Size
    BY PieceType DEF RingInv
  <1>2. tail + 1 - 1 = tail
    BY Sizes DEF RingInv, RingType
  <1> QED BY <1>1, <1>2 DEF front, Piece, Cell

\* The pieces when the ring, the overflow queue and the events are what they were.
LEMMA StillWork ==
  ASSUME UNCHANGED <<ringVars, overflow, events>>
  PROVE  SameWork
  BY DEF ringVars, SameWork, Size, Piece, Count, Cell

\* A copy that is not published changes nothing.
LEMMA CopyWork ==
  ASSUME RingInv, Count < Capacity, NEW item \in Items, Reserve(item),
         UNCHANGED <<head, tail, overflow, events>>
  PROVE  SameWork /\ Cell(Count + 1)' = item /\ Count' = Count
         /\ RingType' /\ \A k \in 1 .. Count : Cell(k)' = Cell(k)
  <1>1. /\ Count' = Count /\ Cell(Count + 1)' = item
        /\ \A k \in 1 .. Count : Cell(k)' = Cell(k)
        /\ items' \in [0 .. (Capacity - 1) -> Items \cup {NoItem}]
    BY Written DEF RingInv
  <1>2. RingType'
    BY <1>1 DEF RingInv, RingType
  <1>3. Size' = Size
    BY <1>1 DEF Size
  <1>4. ASSUME NEW k \in 1 .. Size PROVE Piece(k)' = Piece(k)
    BY <1>1, PieceType DEF Piece
  <1> QED BY <1>1, <1>2, <1>3, <1>4 DEF SameWork

\* The steps that leave ring, overflow queue and events alone.
StillStep ==
  \/ InboundTop \/ DrainDone \/ PollReturn \/ HandleDone
  \/ \E s \in Slots : PollBegin(s) \/ PollAck(s) \/ PollRecycle(s)
  \/ OutboundTop \/ (\E n \in 1 .. MaxWindow : SendData(n)) \/ DataDone
  \/ close_once \/ CloseFinish \/ CloseRelease \/ Stop \/ UNCHANGED vars

\* They leave the queue as it is.
LEMMA StillRing == ASSUME RingInv, StillStep PROVE RingInv' /\ SameWork
  <1>1. UNCHANGED <<ringVars, overflow, events>>
    BY Zenon DEF StillStep, InboundTop, DrainDone, PollReturn, HandleDone, PollBegin, PollAck, PollRecycle,
       OutboundTop, SendData, DataDone, close_once, CloseFinish, CloseRelease, Stop, vars, inVars
  <1>2. in_pc' = in_pc \/ in_pc' \notin {"commit", "drain_commit"}
    BY Zenon DEF StillStep, InboundTop, DrainDone, PollReturn, HandleDone, PollBegin, PollAck, PollRecycle,
       OutboundTop, SendData, DataDone, close_once, CloseFinish, CloseRelease, Stop, vars, inVars
  <1>3. Busy' => Busy \/ head # tail
    BY Zenon DEF StillStep, InboundTop, DrainDone, PollReturn, HandleDone, PollBegin, PollAck, PollRecycle,
       OutboundTop, SendData, DataDone, close_once, CloseFinish, CloseRelease, Stop, vars, outVars, Busy
  <1>4. head # tail => Count >= 1
    <2>1. Count = IF head >= tail THEN head - tail ELSE head - tail + CounterMod
      BY Distance DEF RingInv, RingType, Count
    <2> QED BY <2>1, Sizes DEF RingInv, RingType
  <1>5. RingType' /\ Count' = Count /\ \A k : Cell(k)' = Cell(k)
    BY <1>1 DEF RingInv, RingType, ringVars, Count, Cell
  <1>6. RingInv'
    <2>1. UNCHANGED <<overflow, events>>
      BY <1>1
    <2> QED BY <1>2, <1>3, <1>4, <1>5, <2>1 DEF RingInv, WorkItem, Chunk
  <1> QED BY <1>1, <1>6, StillWork

\* There is room when the ring is not full.
LEMMA Room == ASSUME RingInv, ~Full PROVE Count < Capacity
  BY CountType, Sizes DEF RingInv, RingType, Full, Count

\* The first of a sequence, and the rest.
LEMMA HeadTail ==
  ASSUME NEW S, NEW q \in Seq(S), q # <<>>
  PROVE  /\ Len(q) \in Nat \ {0} /\ Head(q) = q[1] /\ Head(q) \in S
         /\ Tail(q) \in Seq(S) /\ Len(Tail(q)) = Len(q) - 1
         /\ \A k \in 1 .. (Len(q) - 1) : Tail(q)[k] = q[k + 1]
  OBVIOUS

\* drain_overflow copies the oldest item, and publishes the copy.
LEMMA DrainRing == ASSUME RingInv, DrainCopy \/ DrainCommit PROVE RingInv' /\ SameWork
  <1>1. overflow # <<>> /\ overflow \in Seq(Items)
    BY DEF DrainCopy, DrainCommit, RingInv, RingType
  <1>2. /\ Len(overflow) \in Nat \ {0} /\ Head(overflow) = overflow[1] /\ Head(overflow) \in Items
        /\ Tail(overflow) \in Seq(Items) /\ Len(Tail(overflow)) = Len(overflow) - 1
        /\ \A k \in 1 .. (Len(overflow) - 1) : Tail(overflow)[k] = overflow[k + 1]
    BY <1>1, HeadTail
  <1>3. Count \in Nat /\ Len(events) \in Nat
    BY PieceType
  <1>4. CASE DrainCopy
    <2>1. /\ ~Full /\ Reserve(Head(overflow)) /\ in_pc' = "drain_commit"
          /\ UNCHANGED <<head, tail, overflow, events, out_pc>>
      BY <1>4, Zenon DEF DrainCopy, outVars
    <2>2. Count < Capacity
      BY <2>1, Room
    <2>3. SameWork /\ Cell(Count + 1)' = Head(overflow) /\ Count' = Count
          /\ RingType' /\ \A k \in 1 .. Count : Cell(k)' = Cell(k)
      BY <1>2, <2>1, <2>2, CopyWork
    <2>4. (Cell(Count + 1) = Head(overflow))'
      BY <2>1, <2>3
    <2>5. RingInv'
      BY <1>1, <2>1, <2>2, <2>3, <2>4 DEF RingInv, Busy
    <2> QED BY <2>3, <2>5
  <1>5. CASE DrainCommit
    <2>1. /\ Commit /\ overflow' = Tail(overflow) /\ in_pc' = "drain"
          /\ UNCHANGED <<tail, items, events, out_pc>> /\ Count < Capacity
          /\ Cell(Count + 1) = Head(overflow)
      BY <1>5, Zenon DEF DrainCommit, RingInv, outVars
    <2>2. Count' = Count + 1 /\ head' \in 0 .. (CounterMod - 1) /\ \A k : Cell(k)' = Cell(k)
      BY <2>1, Committed DEF RingInv
    <2>3. RingType'
      BY <1>2, <2>1, <2>2 DEF RingInv, RingType
    <2>4. \A k \in 1 .. (Count + 1) : Cell(k) \in Items
      BY <1>2, <1>3, <2>1 DEF RingInv
    <2>5. RingInv'
      BY <1>3, <2>1, <2>2, <2>3, <2>4, Sizes DEF RingInv, Busy
    <2>6. Size' = Size
      BY <1>2, <1>3, <2>1, <2>2 DEF Size
    <2>7. ASSUME NEW k \in 1 .. Size PROVE Piece(k)' = Piece(k)
      <3>1. CASE k <= Count
        BY <1>3, <2>2, <3>1 DEF Piece
      <3>2. CASE k = Count + 1
        <4>1. Piece(k)' = Cell(k)
          BY <1>3, <2>2, <3>2 DEF Piece
        <4>2. Piece(k) = overflow[1]
          BY <1>2, <1>3, <3>2 DEF Piece
        <4> QED BY <1>2, <2>1, <3>2, <4>1, <4>2
      <3>3. CASE k > Count + 1 /\ k <= Count + Len(overflow)
        <4>1. Piece(k)' = overflow'[k - Count']
          BY <1>2, <1>3, <2>1, <2>2, <3>3 DEF Piece
        <4>2. Piece(k) = overflow[k - Count]
          BY <1>2, <1>3, <3>3 DEF Piece
        <4>3. k - Count' \in 1 .. (Len(overflow) - 1) /\ (k - Count') + 1 = k - Count
          BY <1>2, <1>3, <2>2, <3>3
        <4> QED BY <1>2, <2>1, <4>1, <4>2, <4>3
      <3>4. CASE k > Count + Len(overflow)
        <4>1. k - Count' - Len(overflow') = k - Count - Len(overflow)
          BY <1>2, <1>3, <2>1, <2>2
        <4> QED BY <1>2, <1>3, <2>1, <2>2, <3>4, <4>1 DEF Piece
      <3> QED BY <1>2, <1>3, <3>1, <3>2, <3>3, <3>4
    <2> QED BY <2>5, <2>6, <2>7 DEF SameWork
  <1> QED BY <1>4, <1>5

\* poll() adds an event.
LEMMA PollRing ==
  ASSUME RingInv, NEW ev \in Events, events' = Append(events, ev), in_pc = "poll",
         UNCHANGED <<ringVars, overflow, in_pc, out_pc>>
  PROVE  RingInv' /\ Added(AsItem(ev))
  <1>1. events \in Seq(Events) /\ Count \in Nat /\ Len(overflow) \in Nat /\ Len(events) \in Nat
    BY PieceType DEF RingInv, RingType
  <1>2. /\ events' \in Seq(Events) /\ Len(events') = Len(events) + 1 /\ events'[Len(events) + 1] = ev
        /\ \A k \in 1 .. Len(events) : events'[k] = events[k]
    BY <1>1
  <1>3. Count' = Count /\ (\A k : Cell(k)' = Cell(k)) /\ Len(overflow') = Len(overflow)
    BY DEF ringVars, Count, Cell
  <1>4. RingInv'
    <2>1. RingType'
      BY <1>2 DEF RingInv, RingType, ringVars
    <2> QED BY <1>3, <2>1 DEF RingInv, Busy
  <1>5. Size' = Size + 1
    BY <1>1, <1>2, <1>3 DEF Size
  <1>6. ASSUME NEW k \in 1 .. Size PROVE Piece(k)' = Piece(k)
    <2>1. k > Count + Len(overflow) => k - Count - Len(overflow) \in 1 .. Len(events)
      BY <1>1 DEF Size
    <2> QED BY <1>1, <1>2, <1>3, <2>1 DEF Piece
  <1>7. ASSUME NEW k \in Nat, k = Size + 1 PROVE Piece(k)' = AsItem(ev)
    <2>1. k > Count + Len(overflow) /\ k > Count /\ k - Count - Len(overflow) = Len(events) + 1
      BY <1>1, <1>7 DEF Size
    <2> QED BY <1>1, <1>2, <1>3, <2>1 DEF Piece
  <1>8. Size \in Nat
    BY PieceType
  <1> QED BY <1>4, <1>5, <1>6, <1>7, <1>8 DEF Added

\* accepted and closed are taken from the events.
LEMMA CountedRing ==
  ASSUME RingInv, HandleCounted
  PROVE  RingInv' /\ \E m \in Nat : Skipped(m) /\ (Busy => m > 1)
  <1>1. /\ in_pc = "handle" /\ events # <<>> /\ Head(events).type \in {"accepted", "closed"}
        /\ events' = Tail(events) /\ UNCHANGED <<ringVars, overflow, in_pc, out_pc>>
    BY Zenon DEF HandleCounted, outVars
  <1>2. events \in Seq(Events) /\ Count \in Nat /\ Len(overflow) \in Nat /\ Len(events) \in Nat /\ Size \in Nat
    BY PieceType DEF RingInv, RingType
  <1>3. /\ Len(events) \in Nat \ {0} /\ Head(events) = events[1] /\ Head(events) \in Events
        /\ Tail(events) \in Seq(Events) /\ Len(Tail(events)) = Len(events) - 1
        /\ \A k \in 1 .. (Len(events) - 1) : Tail(events)[k] = events[k + 1]
    BY <1>1, <1>2, HeadTail
  <1>4. Count' = Count /\ (\A k : Cell(k)' = Cell(k)) /\ Len(overflow') = Len(overflow)
    BY <1>1 DEF ringVars, Count, Cell
  <1>5. RingInv'
    <2>1. RingType'
      BY <1>1, <1>3 DEF RingInv, RingType, ringVars
    <2> QED BY <1>1, <1>4, <2>1 DEF RingInv, Busy
  <1>6. PICK m \in Nat : m = Count + Len(overflow) + 1
    BY <1>2
  <1>7. m \in 1 .. Size /\ Size' = Size - 1
    BY <1>1, <1>2, <1>3, <1>4, <1>6 DEF Size
  <1>8. Piece(m).what \notin Kinds
    <2>1. Piece(m) = AsItem(events[1])
      <3>1. m > Count + Len(overflow) /\ m > Count /\ m - Count - Len(overflow) = 1
        BY <1>2, <1>6
      <3> QED BY <1>2, <3>1 DEF Piece
    <2> QED BY <1>1, <1>3, <2>1 DEF AsItem, Kinds
  <1>9. ASSUME NEW k \in 1 .. (Size - 1) PROVE Piece(k)' = IF k < m THEN Piece(k) ELSE Piece(k + 1)
    <2>1. CASE k < m
      BY <1>1, <1>2, <1>4, <1>6, <2>1 DEF Piece
    <2>2. CASE ~(k < m)
      <3>1. /\ k > Count + Len(overflow) /\ k > Count /\ k + 1 > Count + Len(overflow) /\ k + 1 > Count
            /\ k - Count - Len(overflow) \in 1 .. (Len(events) - 1)
            /\ (k + 1) - Count - Len(overflow) = (k - Count - Len(overflow)) + 1
        BY <1>2, <1>6, <2>2 DEF Size
      <3>2. Piece(k)' = AsItem(events'[k - Count - Len(overflow)])
        BY <1>2, <1>4, <3>1 DEF Piece
      <3>3. Piece(k + 1) = AsItem(events[(k - Count - Len(overflow)) + 1])
        BY <1>2, <3>1 DEF Piece
      <3> QED BY <1>1, <1>3, <2>2, <3>1, <3>2, <3>3
    <2> QED BY <2>1, <2>2
  <1>10. Busy => m > 1
    BY <1>2, <1>6 DEF RingInv
  <1> QED BY <1>5, <1>6, <1>7, <1>8, <1>9, <1>10 DEF Skipped

\* One more in front of a sequence.
LEMMA OneMore ==
  ASSUME NEW S, NEW x \in S, NEW q \in Seq(S)
  PROVE  /\ <<x>> \o q \in Seq(S) /\ Len(<<x>> \o q) = Len(q) + 1 /\ (<<x>> \o q)[1] = x
         /\ \A k \in 1 .. Len(q) : (<<x>> \o q)[k + 1] = q[k]
  <1>1. <<x>> \in Seq(S) /\ Len(<<x>>) = 1 /\ <<x>>[1] = x /\ Len(q) \in Nat
    OBVIOUS
  <1> QED BY <1>1

\* What is left of the events when an item was made of the first.
LEMMA EventsLeft ==
  ASSUME events \in Seq(Events), events # <<>>, Head(events).type \in Kinds, Enqueued(Head(events))
  PROVE  LET ev == Head(events) IN
         /\ ev \in Events /\ ev = events[1] /\ WorkItem(ev) \in Items
         /\ events' \in Seq(Events)
         /\ \/ /\ WorkItem(ev) = AsItem(ev) /\ Len(events') = Len(events) - 1
               /\ \A k \in 1 .. (Len(events) - 1) : events'[k] = events[k + 1]
            \/ /\ ItemBytes < ev.len /\ Len(events') = Len(events)
               /\ Bytes(WorkItem(ev), AsItem(ev), ev.from, ItemBytes)
               /\ Bytes(AsItem(events'[1]), AsItem(ev), ev.from + ItemBytes, ev.len - ItemBytes)
               /\ \A k \in 2 .. Len(events) : events'[k] = events[k]
  <1> DEFINE ev == Head(events)
  <1>1. /\ Len(events) \in Nat \ {0} /\ ev = events[1] /\ ev \in Events
        /\ Tail(events) \in Seq(Events) /\ Len(Tail(events)) = Len(events) - 1
        /\ \A k \in 1 .. (Len(events) - 1) : Tail(events)[k] = events[k + 1]
    BY HeadTail
  <1>2. ev.type \in Kinds /\ Enqueued(ev)
    OBVIOUS
  <1> HIDE DEF ev
  <1>3. ItemBytes \in Nat \ {0} /\ ev.len \in Nat /\ ev.from \in Nat /\ ev.conn \in Ids
    BY <1>1, EchoAssumption DEF Events
  <1>4. Chunk(ev) \in Nat /\ WorkItem(ev) \in Items
    BY <1>2, <1>3 DEF Chunk, WorkItem, Items
  <1>5. CASE ~(Chunk(ev) < ev.len)
    <2>1. Chunk(ev) = ev.len
      BY <1>3, <1>5 DEF Chunk
    <2>2. WorkItem(ev) = AsItem(ev)
      BY <2>1 DEF WorkItem, AsItem
    <2>3. events' = Tail(events)
      BY <1>2, <1>5 DEF Enqueued
    <2> QED BY <1>1, <1>4, <2>2, <2>3, Zenon DEF ev
  <1>6. CASE Chunk(ev) < ev.len
    <2>1. Chunk(ev) = ItemBytes /\ ItemBytes < ev.len
      BY <1>3, <1>6 DEF Chunk
    <2> DEFINE left == [ev EXCEPT !.from = @ + ItemBytes, !.len = @ - ItemBytes]
    <2>2. events' = <<left>> \o Tail(events)
      BY <1>2, <1>6, <2>1 DEF Enqueued
    <2>8. PICK f \in Nat : f = ev.from + ItemBytes
      BY <1>3
    <2>9. PICK l \in Nat : l = ev.len - ItemBytes
      BY <1>3, <2>1
    <2>3. left \in Events /\ left.type = ev.type /\ left.conn = ev.conn /\ left.from = f /\ left.len = l
      <3>1. left = [ev EXCEPT !.from = f, !.len = l]
        BY <2>8, <2>9, Zenon
      <3>2. ev \in Events
        BY <1>1
      <3> HIDE DEF left
      <3>3. left \in Events
        BY <3>1, <3>2, Zenon DEF Events
      <3>4. left.type = ev.type /\ left.conn = ev.conn /\ left.from = f /\ left.len = l
        BY <3>1, <3>2, Zenon DEF Events
      <3> QED BY <3>3, <3>4
    <2> HIDE DEF left
    <2>4. Bytes(AsItem(left), AsItem(ev), ev.from + ItemBytes, ev.len - ItemBytes)
      BY <2>3, <2>8, <2>9 DEF AsItem, Bytes
    <2>5. Bytes(WorkItem(ev), AsItem(ev), ev.from, ItemBytes)
      BY <2>1 DEF WorkItem, AsItem, Bytes
    <2>6. events' \in Seq(Events) /\ Len(events') = Len(events) /\ events'[1] = left
      BY <1>1, <2>2, <2>3, OneMore
    <2>7. ASSUME NEW k \in 2 .. Len(events) PROVE events'[k] = events[k]
      <3>1. k - 1 \in 1 .. (Len(events) - 1) /\ (k - 1) + 1 = k
        BY <1>1
      <3>2. events'[k] = Tail(events)[k - 1]
        <4>1. (<<left>> \o Tail(events))[(k - 1) + 1] = Tail(events)[k - 1]
          BY <1>1, <2>3, <3>1, OneMore
        <4> QED BY <2>2, <3>1, <4>1
      <3> QED BY <1>1, <3>1, <3>2
    <2> QED BY <1>1, <1>4, <2>1, <2>4, <2>5, <2>6, <2>7, Zenon DEF ev
  <1> QED BY <1>5, <1>6

\* An item made of the first event goes behind the B pieces before it.
MovedUp(B) ==
  /\ B = Count + Len(overflow) /\ (Count + Len(overflow))' = B + 1
  /\ \A k \in 1 .. (B + 1) : Piece(k)' = IF k <= B THEN Piece(k) ELSE WorkItem(Head(events))

\* The pieces are what they were, or the first event was cut.
LEMMA MovedOn ==
  ASSUME RingInv, events # <<>>, Head(events).type \in Kinds, Enqueued(Head(events)),
         NEW B \in Nat, MovedUp(B), Count' \in Nat, Len(overflow') \in Nat
  PROVE  events' \in Seq(Events) /\ (SameWork \/ Cut(B + 1, ItemBytes))
  <1> DEFINE ev == Head(events)
  <1>1. events \in Seq(Events) /\ Count \in Nat /\ Len(overflow) \in Nat /\ Len(events) \in Nat
    BY PieceType DEF RingInv, RingType
  <1>2. /\ ev \in Events /\ ev = events[1] /\ events' \in Seq(Events)
        /\ \/ /\ WorkItem(ev) = AsItem(ev) /\ Len(events') = Len(events) - 1
              /\ \A k \in 1 .. (Len(events) - 1) : events'[k] = events[k + 1]
           \/ /\ ItemBytes < ev.len /\ Len(events') = Len(events)
              /\ Bytes(WorkItem(ev), AsItem(ev), ev.from, ItemBytes)
              /\ Bytes(AsItem(events'[1]), AsItem(ev), ev.from + ItemBytes, ev.len - ItemBytes)
              /\ \A k \in 2 .. Len(events) : events'[k] = events[k]
    BY <1>1, EventsLeft
  <1>3. Len(events) >= 1
    BY <1>1
  <1>4. B = Count + Len(overflow) /\ (Count + Len(overflow))' = B + 1
        /\ Size = B + Len(events) /\ Size' = B + 1 + Len(events') /\ Len(events') \in Nat
    BY <1>1, <1>2 DEF MovedUp, Size
  <1>5. \A k \in 1 .. B : Piece(k)' = Piece(k)
    BY DEF MovedUp
  <1>6. Piece(B + 1)' = WorkItem(ev)
    BY DEF MovedUp
  <1>7. ASSUME NEW k \in Nat, k > B PROVE Piece(k) = AsItem(events[k - B])
    <2>1. k > Count /\ k > Count + Len(overflow) /\ k - Count - Len(overflow) = k - B
      BY <1>1, <1>4, <1>7
    <2> QED BY <1>1, <2>1 DEF Piece
  <1>8. ASSUME NEW k \in Nat, k > B + 1 PROVE Piece(k)' = AsItem(events'[k - B - 1])
    <2>1. k > Count' /\ k > Count' + Len(overflow') /\ k - Count' - Len(overflow') = k - B - 1
      BY <1>1, <1>4, <1>8
    <2> QED BY <2>1 DEF Piece
  <1>9. Piece(B + 1) = AsItem(ev)
    <2>1. (B + 1) - B = 1 /\ B + 1 > B
      OBVIOUS
    <2> QED BY <1>2, <1>7, <2>1
  <1> HIDE DEF ev
  <1>10. CASE /\ WorkItem(ev) = AsItem(ev) /\ Len(events') = Len(events) - 1
              /\ \A k \in 1 .. (Len(events) - 1) : events'[k] = events[k + 1]
    <2>1. Size' = Size
      BY <1>1, <1>4, <1>10
    <2>2. ASSUME NEW k \in 1 .. Size, k > B + 1 PROVE Piece(k)' = Piece(k)
      <3>1. k - B - 1 \in 1 .. (Len(events) - 1) /\ (k - B - 1) + 1 = k - B
        BY <1>1, <1>4, <2>2
      <3>2. events'[k - B - 1] = events[k - B]
        BY <1>10, <3>1
      <3> QED BY <1>7, <1>8, <2>2, <3>2
    <2>3. SameWork
      <3>1. Piece(B + 1)' = Piece(B + 1)
        BY <1>6, <1>9, <1>10
      <3>2. ASSUME NEW k \in 1 .. Size PROVE k \in 1 .. B \/ k = B + 1 \/ k > B + 1
        BY <1>1, <1>4
      <3> QED BY <1>5, <2>1, <2>2, <3>1, <3>2 DEF SameWork
    <2> QED BY <1>2, <2>3
  <1>11. CASE /\ ItemBytes < ev.len /\ Len(events') = Len(events)
              /\ Bytes(WorkItem(ev), AsItem(ev), ev.from, ItemBytes)
              /\ Bytes(AsItem(events'[1]), AsItem(ev), ev.from + ItemBytes, ev.len - ItemBytes)
              /\ \A k \in 2 .. Len(events) : events'[k] = events[k]
    <2>1. Size' = Size + 1 /\ B + 1 \in 1 .. Size
      BY <1>1, <1>3, <1>4, <1>11
    <2>2. ItemBytes \in Nat \ {0} /\ ItemBytes < Piece(B + 1).len
      BY <1>9, <1>11, EchoAssumption DEF AsItem
    <2>10. AsItem(ev).from = ev.from /\ AsItem(ev).len = ev.len
      BY DEF AsItem
    <2>3. Bytes(Piece(B + 1)', Piece(B + 1), Piece(B + 1).from, ItemBytes)
      BY <1>6, <1>9, <1>11, <2>10
    <2>4. Bytes(Piece((B + 1) + 1)', Piece(B + 1), Piece(B + 1).from + ItemBytes, Piece(B + 1).len - ItemBytes)
      <3>1. (B + 1) + 1 > B + 1 /\ ((B + 1) + 1) - B - 1 = 1
        OBVIOUS
      <3>2. Piece((B + 1) + 1)' = AsItem(events'[1])
        BY <1>8, <3>1
      <3> QED BY <1>9, <1>11, <2>10, <3>2
    <2>5. \A k \in 1 .. ((B + 1) - 1) : Piece(k)' = Piece(k)
      BY <1>5
    <2>6. ASSUME NEW k \in ((B + 1) + 2) .. (Size + 1) PROVE Piece(k)' = Piece(k - 1)
      <3> DEFINE n == Len(events)
      <3>1. n \in Nat /\ Size = B + n /\ k \in Int /\ k >= B + 3 /\ k <= Size + 1
        BY <1>1, <1>4
      <3> HIDE DEF n
      <3>2. k - B - 1 \in 2 .. n /\ (k - 1) - B = k - B - 1 /\ k > B + 1 /\ k - 1 > B /\ k - 1 \in Nat /\ k \in Nat
        BY <3>1
      <3>3. Piece(k)' = AsItem(events'[k - B - 1]) /\ Piece(k - 1) = AsItem(events[(k - 1) - B])
        BY <1>7, <1>8, <3>2
      <3> QED BY <1>11, <3>2, <3>3 DEF n
    <2>7. Cut(B + 1, ItemBytes)
      BY <2>1, <2>2, <2>3, <2>4, <2>5, <2>6 DEF Cut
    <2> QED BY <1>2, <2>7
  <1> QED BY <1>2, <1>10, <1>11

\* enqueue, into the ring or the overflow queue.
LEMMA EnqueueRing ==
  ASSUME RingInv, Enqueue \/ EnqueueCommit
  PROVE  RingInv' /\ (SameWork \/ \E m \in Nat, c \in Nat : Cut(m, c) /\ (Busy => m > 1))
  <1> DEFINE ev == Head(events)
  <1>1. events # <<>> /\ ev.type \in Kinds
    BY DEF Enqueue, EnqueueCommit, RingInv, Kinds
  <1>2. events \in Seq(Events) /\ overflow \in Seq(Items) /\ Count \in Nat /\ Len(overflow) \in Nat
        /\ Len(events) \in Nat /\ Size \in Nat
    BY PieceType, Zenon DEF RingInv, RingType
  <1>3. WorkItem(ev) \in Items
    <2>1. ev \in Events
      BY <1>1, <1>2, HeadTail
    <2>2. ItemBytes \in Nat
      BY EchoAssumption
    <2> QED BY <1>1, <2>1, <2>2 DEF WorkItem, Chunk, Items, Events
  <1>4. PICK B \in Nat : B = Count + Len(overflow)
    BY <1>2
  <1>5. Busy => B >= 1
    BY <1>2, <1>4 DEF RingInv
  <1>6. CASE Enqueue /\ overflow = <<>> /\ ~Full
    <2>1. Reserve(WorkItem(ev)) /\ in_pc' = "commit" /\ UNCHANGED <<overflow, events, head, tail, out_pc>>
      BY <1>6, Zenon DEF Enqueue, outVars
    <2>2. Count < Capacity
      BY <1>6, Room
    <2> HIDE DEF ev
    <2>3. SameWork /\ Cell(Count + 1)' = WorkItem(ev) /\ Count' = Count
          /\ RingType' /\ \A k \in 1 .. Count : Cell(k)' = Cell(k)
      BY <1>3, <2>1, <2>2, CopyWork
    <2>4. (Cell(Count + 1) = WorkItem(Head(events)))'
      BY <2>1, <2>3 DEF ev, WorkItem, Chunk
    <2>5. RingInv'
      BY <1>1, <1>6, <2>1, <2>2, <2>3, <2>4 DEF RingInv, Busy, ev
    <2> QED BY <2>3, <2>5
  <1>7. CASE Enqueue /\ ~(overflow = <<>> /\ ~Full)
    <2>1. /\ overflow' = Append(overflow, WorkItem(ev)) /\ Enqueued(ev) /\ in_pc = "handle"
          /\ UNCHANGED <<items, in_pc, head, tail, out_pc>>
      BY <1>7, Zenon DEF Enqueue, outVars
    <2> HIDE DEF ev
    <2>2. Count' = Count /\ \A k : Cell(k)' = Cell(k)
      BY <2>1 DEF Count, Cell
    <2>3. /\ overflow' \in Seq(Items) /\ Len(overflow') = Len(overflow) + 1
          /\ overflow'[Len(overflow) + 1] = WorkItem(ev)
          /\ \A k \in 1 .. Len(overflow) : overflow'[k] = overflow[k]
      BY <1>2, <1>3, <2>1
    <2>4. MovedUp(B)
      <3>1. ASSUME NEW k \in 1 .. (B + 1) PROVE Piece(k)' = IF k <= B THEN Piece(k) ELSE WorkItem(ev)
        <4>1. k > Count => k - Count \in 1 .. (Len(overflow) + 1)
          BY <1>2, <1>4
        <4>2. k <= Count' + Len(overflow')
          BY <1>2, <1>4, <2>2, <2>3
        <4>3. CASE k <= Count
          BY <1>2, <1>4, <2>2, <4>3 DEF Piece
        <4>4. CASE k > Count /\ k <= B
          BY <1>2, <1>4, <2>2, <2>3, <4>1, <4>2, <4>4 DEF Piece
        <4>5. CASE k > Count /\ k > B
          <5>1. k - Count = Len(overflow) + 1
            BY <1>2, <1>4, <4>5
          <5> QED BY <1>2, <2>2, <2>3, <4>2, <4>5, <5>1 DEF Piece
        <4> QED BY <1>2, <1>4, <4>3, <4>4, <4>5
      <3> QED BY <1>2, <1>4, <2>2, <2>3, <3>1 DEF MovedUp, ev
    <2>5. events' \in Seq(Events) /\ (SameWork \/ Cut(B + 1, ItemBytes))
      BY <1>1, <1>2, <2>1, <2>2, <2>3, <2>4, MovedOn DEF ev
    <2>6. RingInv'
      <3>1. RingType'
        BY <2>1, <2>3, <2>5 DEF RingInv, RingType
      <3> QED BY <2>1, <2>2, <3>1 DEF RingInv, Busy
    <2>7. B + 1 \in Nat /\ ItemBytes \in Nat /\ (Busy => B + 1 > 1)
      BY <1>5, EchoAssumption
    <2> QED BY <2>5, <2>6, <2>7
  <1>8. CASE EnqueueCommit
    <2>1. /\ Commit /\ Enqueued(ev) /\ in_pc' = "handle" /\ UNCHANGED <<tail, items, overflow, out_pc>>
          /\ Count < Capacity /\ overflow = <<>> /\ Cell(Count + 1) = WorkItem(ev)
      BY <1>8, Zenon DEF EnqueueCommit, RingInv, outVars
    <2> HIDE DEF ev
    <2>2. Count' = Count + 1 /\ head' \in 0 .. (CounterMod - 1) /\ \A k : Cell(k)' = Cell(k)
      BY <2>1, Committed DEF RingInv
    <2>3. Len(overflow) = 0 /\ Len(overflow') = 0 /\ B = Count
      BY <1>2, <1>4, <2>1
    <2>4. MovedUp(B)
      <3>1. ASSUME NEW k \in 1 .. (B + 1) PROVE Piece(k)' = IF k <= B THEN Piece(k) ELSE WorkItem(ev)
        <4>1. Piece(k)' = Cell(k)
          BY <1>2, <2>2, <2>3 DEF Piece
        <4>2. CASE k <= B
          BY <1>2, <2>3, <4>1, <4>2 DEF Piece
        <4>3. CASE k > B
          <5>1. k = Count + 1
            BY <1>2, <2>3, <4>3
          <5> QED BY <2>1, <2>3, <4>1, <4>3, <5>1
        <4> QED BY <1>2, <4>2, <4>3
      <3> QED BY <1>2, <1>4, <2>2, <2>3, <3>1 DEF MovedUp, ev
    <2>5. events' \in Seq(Events) /\ (SameWork \/ Cut(B + 1, ItemBytes))
      BY <1>1, <1>2, <2>1, <2>2, <2>3, <2>4, MovedOn DEF ev
    <2>6. \A k \in 1 .. (Count + 1) : Cell(k) \in Items
      BY <1>2, <1>3, <2>1 DEF RingInv
    <2>7. RingInv'
      <3>1. RingType'
        BY <2>1, <2>2, <2>5 DEF RingInv, RingType
      <3> QED BY <1>2, <2>1, <2>2, <2>6, <3>1, Sizes DEF RingInv, Busy
    <2>8. B + 1 \in Nat /\ ItemBytes \in Nat /\ (Busy => B + 1 > 1)
      BY <1>5, EchoAssumption
    <2> QED BY <2>5, <2>7, <2>8
  <1> QED BY <1>6, <1>7, <1>8

\* pop() takes the front piece away.
LEMMA PopRing == ASSUME RingInv, Pop PROVE RingInv' /\ Dropped
  <1>1. /\ out_pc = "pop" /\ tail' = (tail + 1) % CounterMod /\ out_pc' = "top"
        /\ UNCHANGED <<head, items, overflow, in_pc, events>>
    BY Zenon DEF Pop, inVars
  <1>2. Count >= 1 /\ Count \in Nat /\ Len(overflow) \in Nat /\ Len(events) \in Nat /\ Size \in Nat
    BY <1>1, PieceType DEF RingInv, Busy
  <1>3. Count' = Count - 1 /\ tail' \in 0 .. (CounterMod - 1) /\ \A k \in Nat : Cell(k)' = Cell(k + 1)
    BY <1>1, <1>2, Popped DEF RingInv
  <1>4. RingType'
    BY <1>1, <1>3 DEF RingInv, RingType
  <1>5. ASSUME NEW k \in 1 .. (Count - 1) PROVE Cell(k)' \in Items
    <2>1. k \in Nat /\ k + 1 \in 1 .. Count
      BY <1>2
    <2>2. Cell(k)' = Cell(k + 1)
      BY <1>3, <2>1
    <2>3. Cell(k + 1) \in Items
      BY <2>1 DEF RingInv
    <2> QED BY <2>2, <2>3
  <1>6. (Cell(Count + 1))' = Cell(Count + 1)
    <2>1. \A k \in Nat : k = Count => Cell(k)' = Cell(Count + 1)
      BY <1>3
    <2>2. PICK k \in Nat : k = Count
      BY <1>2
    <2>3. k = (Count + 1)'
      BY <1>2, <1>3, <2>2
    <2>4. Cell(k)' = (Cell(Count + 1))'
      BY <2>3 DEF Cell
    <2> QED BY <2>1, <2>2, <2>4
  <1>7. RingInv'
    <2>1. ~Busy'
      BY <1>1 DEF Busy
    <2>2. Head(overflow') = Head(overflow) /\ (WorkItem(Head(events)))' = WorkItem(Head(events))
      BY <1>1 DEF WorkItem, Chunk
    <2>3. \A k \in 1 .. Count' : Cell(k)' \in Items
      BY <1>3, <1>5
    <2>4. Count <= Capacity /\ Capacity \in Nat
      BY Sizes DEF RingInv
    <2>5. (Count <= Capacity)' /\ (in_pc \in {"commit", "drain_commit"} => Count < Capacity)'
      BY <1>1, <1>2, <1>3, <2>4
    <2>6. (in_pc = "drain_commit" => overflow # <<>> /\ Cell(Count + 1) = Head(overflow))'
      BY <1>1, <1>6, <2>2 DEF RingInv
    <2>7. (in_pc = "commit" => /\ events # <<>> /\ overflow = <<>>
                               /\ Head(events).type \in Kinds /\ Cell(Count + 1) = WorkItem(Head(events)))'
      BY <1>1, <1>6, <2>2 DEF RingInv
    <2> QED BY <1>4, <2>1, <2>3, <2>5, <2>6, <2>7 DEF RingInv
  <1>8. Size' = Size - 1
    BY <1>1, <1>2, <1>3 DEF Size
  <1>9. ASSUME NEW k \in 1 .. (Size - 1) PROVE Piece(k)' = Piece(k + 1)
    <2>1. k \in Nat /\ (k + 1) - Count = k - Count' /\ (k + 1) - Count - Len(overflow) = k - Count' - Len(overflow')
          /\ (k <= Count' <=> k + 1 <= Count) /\ (k <= Count' + Len(overflow') <=> k + 1 <= Count + Len(overflow))
      BY <1>1, <1>2, <1>3
    <2>2. CASE k + 1 <= Count
      BY <1>3, <2>1, <2>2 DEF Piece
    <2>3. CASE ~(k + 1 <= Count) /\ k + 1 <= Count + Len(overflow)
      <3>1. ~(k <= Count') /\ k <= Count' + Len(overflow')
        BY <2>1, <2>3
      <3>2. Piece(k)' = overflow'[k - Count']
        BY <3>1, Zenon DEF Piece
      <3>3. Piece(k + 1) = overflow[(k + 1) - Count]
        BY <2>3, Zenon DEF Piece
      <3> QED BY <1>1, <2>1, <3>2, <3>3
    <2>4. CASE ~(k + 1 <= Count) /\ ~(k + 1 <= Count + Len(overflow))
      <3>1. /\ Piece(k)' = AsItem(events'[k - Count' - Len(overflow')])
            /\ Piece(k + 1) = AsItem(events[(k + 1) - Count - Len(overflow)])
        BY <2>1, <2>4 DEF Piece
      <3> QED BY <1>1, <2>1, <3>1
    <2> QED BY <2>2, <2>3, <2>4
  <1> QED BY <1>7, <1>8, <1>9 DEF Dropped

-----------------------------------------------------------------------------
\* What the pieces are

WorkType ==
  /\ in_use \in [Slots -> BOOLEAN] /\ finished \in [Slots -> BOOLEAN] /\ released \in [Slots -> BOOLEAN]
  /\ log \in [Slots -> Seq(Reports)] /\ gen \in [Slots -> Nat] /\ received \in [Slots -> Nat]
  /\ released_gen \in [Slots -> Nat] /\ closes \in [Slots -> Nat] /\ echoed \in [Slots -> Seq(Nat)]
  /\ sent \in Nat /\ stop \in BOOLEAN
  /\ out_pc \in {"top", "data", "close", "finish", "release", "pop", "ended"}

\* A piece of the slot's present connection.
Current(p) == p.conn.generation = gen[p.conn.slot]

\* Bytes of the slot's connection are still echoed.
Echoing(s) ==
  /\ ~released[s] /\ ~finished[s] /\ ~Conn!Ended(log[s])
  /\ ~stop \/ out_pc \in {"data", "close", "finish", "release"}

\* A piece is of the present connection or of one closed already; what it says has happened.
PieceOK(p) ==
  LET s == p.conn.slot
  IN  /\ IF p.what = "data" THEN p.from >= 1 /\ p.len >= 1 ELSE p.len = 0
      /\ p.conn.generation \in {gen[s], released_gen[s]}
      /\ Current(p) => /\ log[s] # <<>>
                       /\ p.what = "data" => p.from + p.len <= received[s] + 1
                       /\ p.what = "peer_closed" => log[s] # <<"accepted">>
                       /\ p.what = "reset" => Conn!Ended(log[s])

\* p goes before q: nothing of an older connection, and no byte, comes after its time.
PairOK(p, q) ==
  p.conn.slot = q.conn.slot /\ Current(p) =>
    /\ Current(q)
    /\ q.what = "data" => /\ p.what \notin {"peer_closed", "reset"}
                          /\ p.what = "data" => p.from + p.len <= q.from

\* The piece is still to be echoed.
LowOK(p) ==
  Current(p) /\ p.what = "data" /\ Echoing(p.conn.slot) => p.from > Len(echoed[p.conn.slot])

\* Byte b of the slot's connection is in the piece.
Covers(p, s, b) ==
  p.conn.slot = s /\ Current(p) /\ p.what = "data" /\ p.from <= b /\ b < p.from + p.len

\* Where the outbound thread is in the front piece.
FrontOK(p) ==
  /\ out_pc = "data" => p.what = "data"
  /\ out_pc \in {"data", "pop"} /\ p.what = "data" /\ Current(p) /\ Echoing(p.conn.slot) =>
       /\ sent <= p.len /\ p.from + sent = Len(echoed[p.conn.slot]) + 1
       /\ out_pc = "pop" => sent = p.len
  /\ out_pc \in {"close", "finish", "release"} => p.what \in {"peer_closed", "reset"}
  /\ out_pc \in {"finish", "release"} => released_gen[p.conn.slot] = p.conn.generation

SlotOK(s) ==
  /\ \A i \in 1 .. Len(echoed[s]) : echoed[s][i] = i
  /\ Len(echoed[s]) <= received[s]
  /\ closes[s] <= 1
  /\ closes[s] = 1 \/ released[s] => released_gen[s] = gen[s]
  /\ ~in_use[s] => log[s] = <<>> \/ released[s]
  /\ finished[s] => log[s] # <<>> /\ log[s] # <<"accepted">>
  /\ finished[s] /\ log[s] = <<"accepted", "peer_closed">> => Len(echoed[s]) = received[s]

AllPieces == \A k \in 1 .. Size : PieceOK(Piece(k))
AllPairs == \A j, k \in 1 .. Size : j < k => PairOK(Piece(j), Piece(k))
AllLow == \A k \in 1 .. Size : (k = 1 => out_pc \notin {"data", "pop"}) => LowOK(Piece(k))
AllCovered ==
  \A s \in Slots : Echoing(s) =>
    \A b \in (Len(echoed[s]) + 1) .. received[s] : \E k \in 1 .. Size : Covers(Piece(k), s, b)
FrontInv == Busy => FrontOK(Piece(1))
SlotInv == \A s \in Slots : SlotOK(s)

WorkInv == WorkType /\ AllPieces /\ AllPairs /\ AllLow /\ AllCovered /\ FrontInv /\ SlotInv

\* The pieces keep what is said of each,
LEMMA SamePieces ==
  ASSUME RingInv, WorkInv, SameWork, UNCHANGED <<gen, received, released_gen, log>>
  PROVE  AllPieces'
  <1>1. Size' = Size /\ \A k \in 1 .. Size : Piece(k)' = Piece(k)
    BY DEF SameWork
  <1>2. ASSUME NEW k \in 1 .. Size PROVE PieceOK(Piece(k))'
    <2>1. PICK p : p = Piece(k) /\ p = Piece(k)' /\ PieceOK(p)
      BY <1>1, Zenon DEF WorkInv, AllPieces
    <2>2. PieceOK(p)'
      BY <2>1 DEF PieceOK, Current
    <2> QED BY <2>1, <2>2
  <1> QED BY <1>1, <1>2 DEF AllPieces

\* their order,
LEMMA SamePairs == ASSUME RingInv, WorkInv, SameWork, UNCHANGED gen PROVE AllPairs'
  <1>1. Size' = Size /\ \A k \in 1 .. Size : Piece(k)' = Piece(k)
    BY DEF SameWork
  <1>2. ASSUME NEW j \in 1 .. Size, NEW k \in 1 .. Size, j < k PROVE PairOK(Piece(j), Piece(k))'
    <2>1. PICK p : p = Piece(j) /\ p = Piece(j)'
      BY <1>1
    <2>2. PICK q : q = Piece(k) /\ q = Piece(k)'
      BY <1>1
    <2>3. PairOK(p, q)
      BY <1>2, <2>1, <2>2, Zenon DEF WorkInv, AllPairs
    <2>4. PairOK(p, q)'
      BY <2>3 DEF PairOK, Current
    <2> QED BY <2>1, <2>2, <2>4
  <1> QED BY <1>1, <1>2 DEF AllPairs

\* their bytes to echo,
LEMMA SameLow ==
  ASSUME RingInv, WorkInv, SameWork, UNCHANGED <<gen, echoed>>,
         \A s \in Slots : Echoing(s)' => Echoing(s),
         out_pc \in {"data", "pop"} => out_pc' \in {"data", "pop"}
  PROVE  AllLow'
  <1>1. Size' = Size /\ \A k \in 1 .. Size : Piece(k)' = Piece(k) /\ Piece(k) \in Pieces
    BY PieceType DEF SameWork
  <1>2. ASSUME NEW k \in 1 .. Size, k = 1 => out_pc' \notin {"data", "pop"} PROVE LowOK(Piece(k))'
    <2>1. PICK p \in Pieces : p = Piece(k) /\ p = Piece(k)' /\ LowOK(p)
      BY <1>1, <1>2 DEF WorkInv, AllLow
    <2>2. p.conn.slot \in Slots
      BY DEF Pieces, Ids
    <2>3. LowOK(p)'
      BY <2>1, <2>2 DEF LowOK, Current
    <2> QED BY <2>1, <2>3
  <1> QED BY <1>1, <1>2 DEF AllLow

\* and all that is to be echoed is among them.
LEMMA SameCover ==
  ASSUME RingInv, WorkInv, SameWork, UNCHANGED gen,
         \A s \in Slots : Echoing(s)' =>
           Echoing(s) /\ (Len(echoed'[s]) + 1) .. received'[s] \subseteq (Len(echoed[s]) + 1) .. received[s]
  PROVE  AllCovered'
  <1>1. Size' = Size /\ \A k \in 1 .. Size : Piece(k)' = Piece(k)
    BY DEF SameWork
  <1>2. ASSUME NEW s \in Slots, Echoing(s)', NEW b \in (Len(echoed'[s]) + 1) .. received'[s]
        PROVE  \E k \in 1 .. Size' : Covers(Piece(k), s, b)'
    <2>1. Echoing(s) /\ b \in (Len(echoed[s]) + 1) .. received[s]
      BY <1>2
    <2>2. PICK k \in 1 .. Size : Covers(Piece(k), s, b)
      BY <2>1 DEF WorkInv, AllCovered
    <2>3. PICK p : p = Piece(k) /\ p = Piece(k)'
      BY <1>1
    <2>4. Covers(p, s, b)'
      BY <2>2, <2>3 DEF Covers, Current
    <2>5. Covers(Piece(k), s, b)'
      BY <2>3, <2>4
    <2> QED BY <1>1, <2>5
  <1> QED BY <1>2 DEF AllCovered

\* A step that only ends the echoing of connections leaves the queue in order.
LEMMA Quieter ==
  ASSUME RingInv, WorkInv, SameWork, UNCHANGED <<gen, received, released_gen, log, echoed>>,
         \A s \in Slots : Echoing(s)' => Echoing(s),
         out_pc \in {"data", "pop"} => out_pc' \in {"data", "pop"}
  PROVE  AllPieces' /\ AllPairs' /\ AllLow' /\ AllCovered'
  BY SamePieces, SamePairs, SameLow, SameCover

\* p is of o: it says the same, of some or all of its bytes.
Part(p, o) ==
  /\ p.what = o.what /\ p.conn = o.conn /\ o.from <= p.from /\ p.from + p.len <= o.from + o.len
  /\ IF p.what = "data" THEN p.len >= 1 ELSE p.len = 0

\* The new pieces are parts of the old ones, f[k] the one that k is of: in order, all
\* bytes kept, and the front untouched while the outbound thread is at it.
Requeued(f) ==
  /\ f \in [1 .. Size' -> 1 .. Size]
  /\ \A k \in 1 .. Size' : Part(Piece(k)', Piece(f[k]))
  /\ \A j, k \in 1 .. Size' :
       j < k => f[j] < f[k] \/ (f[j] = f[k] /\ Piece(j)'.from + Piece(j)'.len <= Piece(k)'.from)
  /\ \A m \in 1 .. Size, b \in Nat :
       Piece(m).what = "data" /\ Piece(m).from <= b /\ b < Piece(m).from + Piece(m).len =>
         \E k \in 1 .. Size' : f[k] = m /\ Piece(k)'.from <= b /\ b < Piece(k)'.from + Piece(k)'.len
  /\ Busy => Piece(1)' = Piece(1) /\ \A k \in 1 .. Size' : f[k] = 1 => k = 1

\* Nothing but the queue and the window of a peer moves.
Aside == UNCHANGED <<connVars, gen, received, outVars, stop, history>>

\* Moving the pieces on keeps what they are.
LEMMA Requeue ==
  ASSUME RingInv, RingInv', WorkInv, Aside, NEW f, Requeued(f)
  PROVE  WorkInv'
  <1>1. /\ Size' \in Nat /\ Size \in Nat /\ \A k \in 1 .. Size : Piece(k) \in Pieces
        /\ \A k \in 1 .. Size' : Piece(k)' \in Pieces
    <2>1. RingInv' => (Size \in Nat)' /\ (\A k \in 1 .. Size : Piece(k) \in Pieces)'
      BY PieceType, PTL
    <2> QED BY <2>1, PieceType
  <1>2. UNCHANGED <<in_use, log, finished, released, gen, received, out_pc, sent, released_gen, stop, echoed, closes>>
    BY DEF Aside, connVars, outVars, history
  <1>3. \A s : Echoing(s)' <=> Echoing(s)
    BY <1>2 DEF Echoing
  <1>4. AllPieces'
    <2>1. ASSUME NEW k \in 1 .. Size' PROVE PieceOK(Piece(k))'
      <3>1. PICK o \in Pieces : o = Piece(f[k]) /\ PieceOK(o)
        BY <1>1 DEF Requeued, WorkInv, AllPieces
      <3>2. PICK p \in Pieces : p = Piece(k)'
        BY <1>1
      <3>3. Part(p, o)
        BY <3>1, <3>2 DEF Requeued
      <3>4. p.from \in Nat /\ p.len \in Nat /\ o.from \in Nat /\ o.len \in Nat /\ p.conn.slot \in Slots
        BY DEF Pieces, Ids
      <3>5. received[p.conn.slot] \in Nat
        BY <3>4 DEF WorkInv, WorkType
      <3>6. p.what = o.what /\ p.conn = o.conn /\ o.from <= p.from /\ p.from + p.len <= o.from + o.len
        BY <3>3, Zenon DEF Part
      <3>11. IF p.what = "data" THEN p.len >= 1 ELSE p.len = 0
        BY <3>3, Zenon DEF Part
      <3>12. o.what = "data" => o.from >= 1
        BY <3>1, Zenon DEF PieceOK
      <3>7. IF p.what = "data" THEN p.from >= 1 /\ p.len >= 1 ELSE p.len = 0
        BY <3>4, <3>6, <3>11, <3>12
      <3>8. o.from + o.len <= received[p.conn.slot] + 1 => p.from + p.len <= received[p.conn.slot] + 1
        BY <3>4, <3>5, <3>6
      <3>9. PieceOK(p)
        BY <3>1, <3>6, <3>7, <3>8, Zenon DEF PieceOK, Current
      <3>10. PieceOK(p)'
        BY <1>2, <3>9, Zenon DEF PieceOK, Current
      <3> QED BY <3>2, <3>10
    <2> QED BY <2>1 DEF AllPieces
  <1>5. AllPairs'
    <2>1. ASSUME NEW j \in 1 .. Size', NEW k \in 1 .. Size', j < k PROVE PairOK(Piece(j), Piece(k))'
      <3>1. PICK p \in Pieces : p = Piece(j)'
        BY <1>1
      <3>2. PICK q \in Pieces : q = Piece(k)'
        BY <1>1
      <3>3. PICK o \in Pieces : o = Piece(f[j])
        BY <1>1 DEF Requeued
      <3>4. PICK u \in Pieces : u = Piece(f[k])
        BY <1>1 DEF Requeued
      <3>5. Part(p, o) /\ Part(q, u)
        BY <3>1, <3>2, <3>3, <3>4 DEF Requeued
      <3>6. /\ p.from \in Nat /\ p.len \in Nat /\ o.from \in Nat /\ o.len \in Nat
            /\ q.from \in Nat /\ q.len \in Nat /\ u.from \in Nat /\ u.len \in Nat
        BY DEF Pieces
      <3>7. CASE f[j] < f[k]
        <4>1. PairOK(o, u)
          BY <3>3, <3>4, <3>7, Zenon DEF Requeued, WorkInv, AllPairs
        <4>2. p.what = o.what /\ p.conn = o.conn /\ p.from + p.len <= o.from + o.len
              /\ q.what = u.what /\ q.conn = u.conn /\ u.from <= q.from
          BY <3>5, Zenon DEF Part
        <4>3. o.from + o.len <= u.from => p.from + p.len <= q.from
          BY <3>6, <4>2
        <4>4. PairOK(p, q)
          BY <4>1, <4>2, <4>3, Zenon DEF PairOK, Current
        <4>5. PairOK(p, q)'
          BY <1>2, <4>4, Zenon DEF PairOK, Current
        <4> QED BY <3>1, <3>2, <4>5, Zenon
      <3>8. CASE f[j] = f[k] /\ p.from + p.len <= q.from
        <4>1. o = u
          BY <3>3, <3>4, <3>8, Zenon
        <4>2. p.what = o.what /\ p.conn = o.conn /\ q.what = o.what /\ q.conn = o.conn
          BY <3>5, <4>1, Zenon DEF Part
        <4>3. PairOK(p, q)
          <5>1. p.what = "data" => p.what \notin {"peer_closed", "reset"}
            OBVIOUS
          <5> QED BY <3>8, <4>2, <5>1, Zenon DEF PairOK, Current
        <4>4. PairOK(p, q)'
          BY <1>2, <4>3, Zenon DEF PairOK, Current
        <4> QED BY <3>1, <3>2, <4>4, Zenon
      <3> QED BY <2>1, <3>1, <3>2, <3>7, <3>8 DEF Requeued
    <2> QED BY <2>1 DEF AllPairs
  <1>6. AllLow'
    <2>1. ASSUME NEW k \in 1 .. Size', k = 1 => out_pc' \notin {"data", "pop"} PROVE LowOK(Piece(k))'
      <3>1. f[k] \in 1 .. Size /\ (f[k] = 1 => out_pc \notin {"data", "pop"})
        BY <1>2, <2>1 DEF Requeued, Busy
      <3>2. PICK o \in Pieces : o = Piece(f[k]) /\ LowOK(o)
        BY <1>1, <3>1 DEF WorkInv, AllLow
      <3>3. PICK p \in Pieces : p = Piece(k)'
        BY <1>1
      <3>4. Part(p, o)
        BY <3>2, <3>3 DEF Requeued
      <3>5. p.from \in Nat /\ o.from \in Nat /\ p.conn.slot \in Slots
        BY DEF Pieces, Ids
      <3>6. Len(echoed[p.conn.slot]) \in Nat
        BY <3>5 DEF WorkInv, WorkType
      <3>7. p.what = o.what /\ p.conn = o.conn /\ o.from <= p.from
        BY <3>4, Zenon DEF Part
      <3>8. o.from > Len(echoed[p.conn.slot]) => p.from > Len(echoed[p.conn.slot])
        BY <3>5, <3>6, <3>7
      <3>9. LowOK(p)
        BY <3>2, <3>7, <3>8, Zenon DEF LowOK, Current
      <3>10. LowOK(p)'
        BY <1>2, <1>3, <3>9, Zenon DEF LowOK, Current
      <3> QED BY <3>3, <3>10, Zenon
    <2> QED BY <2>1, Zenon DEF AllLow
  <1>7. AllCovered'
    <2>1. ASSUME NEW s \in Slots, Echoing(s)', NEW b \in (Len(echoed'[s]) + 1) .. received'[s]
          PROVE  \E k \in 1 .. Size' : Covers(Piece(k), s, b)'
      <3>1. Echoing(s) /\ b \in (Len(echoed[s]) + 1) .. received[s]
        BY <1>2, <1>3, <2>1
      <3>2. PICK m \in 1 .. Size : Covers(Piece(m), s, b)
        BY <3>1 DEF WorkInv, AllCovered
      <3>3. PICK o \in Pieces : o = Piece(m)
        BY <1>1
      <3>4. b \in Nat
        BY <3>1 DEF WorkInv, WorkType
      <3>5. PICK k \in 1 .. Size' : f[k] = m /\ Piece(k)'.from <= b /\ b < Piece(k)'.from + Piece(k)'.len
        BY <3>2, <3>4 DEF Requeued, Covers
      <3>6. PICK p \in Pieces : p = Piece(k)'
        BY <1>1
      <3>7. Part(p, o)
        BY <3>3, <3>5, <3>6, Zenon DEF Requeued
      <3>8. Covers(p, s, b)
        BY <3>2, <3>3, <3>5, <3>6, <3>7, Zenon DEF Covers, Current, Part
      <3>9. Covers(p, s, b)'
        BY <1>2, <3>8, Zenon DEF Covers, Current
      <3> QED BY <3>6, <3>9
    <2> QED BY <2>1 DEF AllCovered
  <1>8. FrontInv'
    <2>1. ASSUME Busy' PROVE FrontOK(Piece(1))'
      <3>1. Busy /\ Piece(1)' = Piece(1)
        BY <1>2, <2>1 DEF Busy, Requeued
      <3>2. PICK p : p = Piece(1) /\ FrontOK(p)
        BY <3>1, Zenon DEF WorkInv, FrontInv
      <3>3. FrontOK(p)'
        BY <1>2, <1>3, <3>2, Zenon DEF FrontOK, Current
      <3> QED BY <3>1, <3>2, <3>3
    <2> QED BY <2>1 DEF FrontInv
  <1>9. WorkType' /\ SlotInv'
    BY <1>2 DEF WorkInv, WorkType, SlotInv, SlotOK
  <1> QED BY <1>4, <1>5, <1>6, <1>7, <1>8, <1>9 DEF WorkInv

\* A piece is a part of itself.
LEMMA Whole == ASSUME RingInv, WorkInv, NEW k \in 1 .. Size PROVE Part(Piece(k), Piece(k))
  <1>1. PICK p \in Pieces : p = Piece(k)
    BY PieceType
  <1>2. PieceOK(p)
    BY <1>1 DEF WorkInv, AllPieces
  <1>3. p.from \in Nat /\ p.len \in Nat /\ IF p.what = "data" THEN p.len >= 1 ELSE p.len = 0
    BY <1>2, Zenon DEF PieceOK, Pieces
  <1>4. Part(p, p)
    BY <1>3 DEF Part
  <1> QED BY <1>1, <1>4

\* The pieces as they were.
LEMMA SameRequeued == ASSUME RingInv, WorkInv, SameWork PROVE \E f : Requeued(f)
  <1>1. Size' = Size /\ Size \in Nat /\ \A k \in 1 .. Size : Piece(k)' = Piece(k)
    BY PieceType DEF SameWork
  <1> DEFINE f == [k \in 1 .. Size |-> k]
  <1>2. f \in [1 .. Size' -> 1 .. Size] /\ \A k \in 1 .. Size : f[k] = k
    BY <1>1
  <1> HIDE DEF f
  <1>3. \A k \in 1 .. Size' : Part(Piece(k)', Piece(f[k]))
    BY <1>1, <1>2, Whole
  <1>4. \A j, k \in 1 .. Size' : j < k => f[j] < f[k]
    BY <1>1, <1>2
  <1>5. Busy => Piece(1)' = Piece(1) /\ \A k \in 1 .. Size' : f[k] = 1 => k = 1
    BY <1>1, <1>2, FrontPiece
  <1>6. ASSUME NEW m \in 1 .. Size, NEW b \in Nat, Piece(m).from <= b, b < Piece(m).from + Piece(m).len
        PROVE  \E k \in 1 .. Size' : f[k] = m /\ Piece(k)'.from <= b /\ b < Piece(k)'.from + Piece(k)'.len
    BY <1>1, <1>2, <1>6
  <1> QED BY <1>2, <1>3, <1>4, <1>5, <1>6, Zenon DEF Requeued

\* A piece that is no work goes.
LEMMA SkipRequeued ==
  ASSUME RingInv, WorkInv, NEW m \in Nat, Skipped(m), Busy => m > 1
  PROVE  \E f : Requeued(f)
  <1>1. /\ Size \in Nat /\ Size' = Size - 1 /\ m \in 1 .. Size /\ Piece(m).what # "data"
        /\ \A k \in 1 .. (Size - 1) : Piece(k)' = IF k < m THEN Piece(k) ELSE Piece(k + 1)
    BY PieceType DEF Skipped, Kinds
  <1> DEFINE f == [k \in 1 .. (Size - 1) |-> IF k < m THEN k ELSE k + 1]
  <1>2. f \in [1 .. Size' -> 1 .. Size] /\ \A k \in 1 .. (Size - 1) : f[k] = IF k < m THEN k ELSE k + 1
    BY <1>1
  <1> HIDE DEF f
  <1>3. \A k \in 1 .. (Size - 1) : Piece(k)' = Piece(f[k])
    BY <1>1, <1>2
  <1>4. \A k \in 1 .. Size' : Part(Piece(k)', Piece(f[k]))
    BY <1>1, <1>2, <1>3, Whole
  <1>5. \A j, k \in 1 .. Size' : j < k => f[j] < f[k]
    BY <1>1, <1>2
  <1>6. Busy => Piece(1)' = Piece(1) /\ \A k \in 1 .. Size' : f[k] = 1 => k = 1
    BY <1>1, <1>2
  <1>7. ASSUME NEW n \in 1 .. Size, NEW b \in Nat, Piece(n).what = "data",
               Piece(n).from <= b, b < Piece(n).from + Piece(n).len
        PROVE  \E k \in 1 .. Size' : f[k] = n /\ Piece(k)'.from <= b /\ b < Piece(k)'.from + Piece(k)'.len
    <2>1. n # m
      BY <1>1, <1>7
    <2>2. PICK k \in 1 .. (Size - 1) : f[k] = n
      <3>1. CASE n < m
        BY <1>1, <1>2, <3>1
      <3>2. CASE n > m
        <4>1. PICK k \in 1 .. (Size - 1) : ~(k < m) /\ k + 1 = n
          <5>1. n - 1 \in 1 .. (Size - 1) /\ ~(n - 1 < m) /\ (n - 1) + 1 = n
            BY <1>1, <3>2
          <5> QED BY <5>1, Zenon
        <4>2. f[k] = n
          BY <1>2, <4>1, Zenon
        <4> QED BY <4>2, Zenon
      <3> QED BY <1>1, <2>1, <3>1, <3>2
    <2> QED BY <1>1, <1>3, <1>7, <2>2
  <1>8. \A j, k \in 1 .. Size' :
          j < k => f[j] < f[k] \/ (f[j] = f[k] /\ Piece(j)'.from + Piece(j)'.len <= Piece(k)'.from)
    BY <1>5
  <1>9. Requeued(f)
    BY <1>2, <1>4, <1>6, <1>7, <1>8, Zenon DEF Requeued
  <1> QED BY <1>9

\* A piece with bytes is cut in two.
LEMMA CutRequeued ==
  ASSUME RingInv, WorkInv, NEW m \in Nat, NEW c \in Nat, Cut(m, c), Busy => m > 1
  PROVE  \E f : Requeued(f)
  <1>1. /\ Size \in Nat /\ Size' = Size + 1 /\ m \in 1 .. Size /\ c > 0 /\ c < Piece(m).len
        /\ \A k \in 1 .. (m - 1) : Piece(k)' = Piece(k)
        /\ \A k \in (m + 2) .. (Size + 1) : Piece(k)' = Piece(k - 1)
    BY PieceType DEF Cut
  <1>2. PICK o \in Pieces : o = Piece(m)
    BY <1>1, PieceType
  <1>3. o.from \in Nat /\ o.len \in Nat /\ c < o.len /\ o.what = "data"
    <2>1. PieceOK(Piece(m))
      BY <1>1 DEF WorkInv, AllPieces
    <2>2. IF o.what = "data" THEN o.len >= 1 ELSE o.len = 0
      BY <1>2, <2>1, Zenon DEF PieceOK
    <2>3. o.from \in Nat /\ o.len \in Nat
      BY DEF Pieces
    <2> QED BY <1>1, <1>2, <2>2, <2>3
  <1>5. /\ Piece(m)'.what = o.what /\ Piece(m)'.conn = o.conn /\ Piece(m)'.from = o.from /\ Piece(m)'.len = c
        /\ Piece(m + 1)'.what = o.what /\ Piece(m + 1)'.conn = o.conn
        /\ Piece(m + 1)'.from = o.from + c /\ Piece(m + 1)'.len = o.len - c
    BY <1>2, Zenon DEF Cut, Bytes
  <1> DEFINE f == [k \in 1 .. (Size + 1) |-> IF k <= m THEN k ELSE k - 1]
  <1>6. f \in [1 .. Size' -> 1 .. Size] /\ \A k \in 1 .. (Size + 1) : f[k] = IF k <= m THEN k ELSE k - 1
    BY <1>1
  <1> HIDE DEF f
  <1>7. ASSUME NEW k \in 1 .. (Size + 1), k # m, k # m + 1 PROVE Piece(k)' = Piece(f[k])
    <2>1. k \in 1 .. (m - 1) \/ k \in (m + 2) .. (Size + 1)
      BY <1>1, <1>7
    <2> QED BY <1>1, <1>6, <2>1
  <1>8. f[m] = m /\ f[m + 1] = m
    BY <1>1, <1>6
  <1>9. ASSUME NEW k \in 1 .. Size' PROVE Part(Piece(k)', Piece(f[k]))
    <2>4. /\ o.from <= o.from /\ o.from + c <= o.from + o.len /\ c >= 1
          /\ o.from <= o.from + c /\ (o.from + c) + (o.len - c) <= o.from + o.len /\ o.len - c >= 1
      <3>1. c > 0
        BY <1>1, Zenon
      <3> QED BY <1>3, <3>1
    <2>1. CASE k = m
      BY <1>2, <1>3, <1>5, <1>8, <2>1, <2>4, Zenon DEF Part
    <2>2. CASE k = m + 1
      BY <1>2, <1>3, <1>5, <1>8, <2>2, <2>4, Zenon DEF Part
    <2>3. CASE k # m /\ k # m + 1
      <3>1. f[k] \in 1 .. Size /\ k \in 1 .. (Size + 1)
        BY <1>1, <1>6
      <3>2. Part(Piece(f[k]), Piece(f[k]))
        BY <3>1, Whole
      <3> QED BY <1>7, <2>3, <3>1, <3>2
    <2> QED BY <2>1, <2>2, <2>3, Zenon
  <1>10. ASSUME NEW j \in 1 .. Size', NEW k \in 1 .. Size', j < k
         PROVE  f[j] < f[k] \/ (f[j] = f[k] /\ Piece(j)'.from + Piece(j)'.len <= Piece(k)'.from)
    <2>3. o.from + c <= o.from + c
      BY <1>3
    <2>1. CASE j = m /\ k = m + 1
      BY <1>5, <1>8, <2>1, <2>3, Zenon
    <2>2. CASE ~(j = m /\ k = m + 1)
      <3>1. /\ j \in 1 .. (Size + 1) /\ k \in 1 .. (Size + 1) /\ Size \in Nat
        BY <1>1, Zenon
      <3>2. f[j] = (IF j <= m THEN j ELSE j - 1) /\ f[k] = (IF k <= m THEN k ELSE k - 1)
        BY <1>6, <3>1, Zenon
      <3> QED BY <1>10, <2>2, <3>1, <3>2
    <2> QED BY <2>1, <2>2, Zenon
  <1>11. Busy => Piece(1)' = Piece(1) /\ \A k \in 1 .. Size' : f[k] = 1 => k = 1
    BY <1>1, <1>6
  <1>12. ASSUME NEW n \in 1 .. Size, NEW b \in Nat, Piece(n).from <= b, b < Piece(n).from + Piece(n).len
         PROVE  \E k \in 1 .. Size' : f[k] = n /\ Piece(k)'.from <= b /\ b < Piece(k)'.from + Piece(k)'.len
    <2>1. CASE n = m /\ b < o.from + c
      <3>1. m \in 1 .. Size'
        BY <1>1
      <3> QED BY <1>2, <1>5, <1>8, <1>12, <2>1, <3>1, Zenon
    <2>2. CASE n = m /\ ~(b < o.from + c)
      <3>1. (o.from + c) + (o.len - c) = o.from + o.len
        BY <1>3
      <3>2. m + 1 \in 1 .. Size' /\ f[m + 1] = n /\ o.from + c <= b /\ b < o.from + o.len
        BY <1>1, <1>2, <1>3, <1>8, <1>12, <2>2
      <3> QED BY <1>5, <3>1, <3>2
    <2>3. CASE n # m
      <3>1. PICK k \in 1 .. (Size + 1) : f[k] = n /\ k # m /\ k # m + 1
        <4>1. CASE n < m
          <5>1. n \in 1 .. (Size + 1) /\ n <= m /\ n # m /\ n # m + 1
            BY <1>1, <4>1
          <5> QED BY <1>6, <5>1, Zenon
        <4>2. CASE n > m
          <5>1. n + 1 \in 1 .. (Size + 1) /\ ~(n + 1 <= m) /\ (n + 1) - 1 = n /\ n + 1 # m /\ n + 1 # m + 1
            BY <1>1, <4>2
          <5> QED BY <1>6, <5>1
        <4> QED BY <1>1, <2>3, <4>1, <4>2
      <3>2. Piece(k)' = Piece(n)
        BY <1>7, <3>1
      <3> QED BY <1>1, <1>12, <3>1, <3>2, Zenon
    <2> QED BY <2>1, <2>2, <2>3
  <1>13. \A j, k \in 1 .. Size' :
          j < k => f[j] < f[k] \/ (f[j] = f[k] /\ Piece(j)'.from + Piece(j)'.len <= Piece(k)'.from)
    BY <1>10
  <1>14. Requeued(f)
    BY <1>6, <1>9, <1>11, <1>12, <1>13, Zenon DEF Requeued
  <1> QED BY <1>14

\* The inbound thread's own steps, and an ACK that opens a window.
QueueStep ==
  \/ InboundTop \/ DrainCopy \/ DrainCommit \/ DrainDone \/ PollReturn
  \/ HandleCounted \/ Enqueue \/ EnqueueCommit \/ HandleDone
  \/ (\E s \in Slots : PollAck(s)) \/ UNCHANGED vars

\* They only move the work on.
LEMMA QueueWork == ASSUME RingInv, WorkInv, QueueStep PROVE RingInv' /\ WorkInv'
  <1>1. Aside
    BY Zenon DEF QueueStep, InboundTop, DrainCopy, DrainCommit, DrainDone, PollReturn, HandleCounted,
       Enqueue, EnqueueCommit, HandleDone, PollAck, vars, Aside, stackVars
  <1>2. CASE StillStep \/ DrainCopy \/ DrainCommit
    <2>1. RingInv' /\ SameWork
      BY <1>2, StillRing, DrainRing
    <2>2. PICK f : Requeued(f)
      BY <2>1, SameRequeued
    <2> QED BY <1>1, <2>1, <2>2, Requeue
  <1>3. CASE HandleCounted
    <2>1. RingInv'
      BY <1>3, CountedRing
    <2>2. PICK m \in Nat : Skipped(m) /\ (Busy => m > 1)
      BY <1>3, CountedRing
    <2>3. PICK f : Requeued(f)
      BY <2>2, SkipRequeued
    <2> QED BY <1>1, <2>1, <2>3, Requeue
  <1>4. CASE Enqueue \/ EnqueueCommit
    <2>1. RingInv' /\ (SameWork \/ \E m \in Nat, c \in Nat : Cut(m, c) /\ (Busy => m > 1))
      BY <1>4, EnqueueRing
    <2>2. PICK f : Requeued(f)
      BY <2>1, SameRequeued, CutRequeued
    <2> QED BY <1>1, <2>1, <2>2, Requeue
  <1> QED BY <1>2, <1>3, <1>4 DEF QueueStep, StillStep

\* The front is the same when the work is.
LEMMA FrontSame ==
  ASSUME RingInv', SameWork, Busy'
  PROVE  /\ Piece(1)' = Piece(1) /\ 1 \in 1 .. Size /\ front' = Piece(1)
         /\ Count' >= 1 /\ Piece(1)' \in Items
  <1>1. RingInv' /\ Busy' => (front = Piece(1) /\ 1 \in 1 .. Size /\ Count >= 1)'
    BY FrontPiece, PTL
  <1>2. 1 \in 1 .. Size' /\ Size' = Size /\ \A k \in 1 .. Size : Piece(k)' = Piece(k)
    BY <1>1, Zenon DEF SameWork
  <1>3. Cell(1)' \in Items /\ Piece(1)' = Cell(1)'
    <2>1. RingInv' => (Count \in Nat)'
      BY PieceType, PTL
    <2> QED BY <1>1, <2>1 DEF RingInv, Piece
  <1> QED BY <1>1, <1>2, <1>3

\* The program is asked to end.
LEMMA StopWork == ASSUME RingInv, WorkInv, Stop PROVE RingInv' /\ WorkInv'
  <1>1. /\ stop' = TRUE
        /\ UNCHANGED <<in_use, log, finished, released, gen, received, out_pc, sent, released_gen, echoed, closes>>
    BY Zenon DEF Stop, stackVars, connVars, outVars, history
  <1>2. RingInv' /\ SameWork
    BY StillRing, Zenon DEF StillStep
  <1>3. \A s : Echoing(s)' => Echoing(s)
    BY <1>1, Zenon DEF Echoing
  <1>4. AllPieces' /\ AllPairs' /\ AllLow' /\ AllCovered'
    BY <1>1, <1>2, <1>3, Quieter
  <1>5. FrontInv'
    <2>1. ASSUME Busy' PROVE FrontOK(Piece(1))'
      <3>1. PICK p : p = Piece(1) /\ p = Piece(1)'
        BY <1>2, <2>1, FrontSame
      <3>2. FrontOK(p)
        BY <1>1, <2>1, <3>1 DEF WorkInv, FrontInv, Busy
      <3>3. FrontOK(p)'
        BY <1>1, <1>3, <3>2, Zenon DEF FrontOK, Current
      <3> QED BY <3>1, <3>3
    <2> QED BY <2>1 DEF FrontInv
  <1>6. WorkType' /\ SlotInv'
    BY <1>1 DEF WorkInv, WorkType, SlotInv, SlotOK
  <1> QED BY <1>2, <1>4, <1>5, <1>6 DEF WorkInv

\* A slot is given back.
LEMMA RecycleWork == ASSUME RingInv, WorkInv, NEW s \in Slots, PollRecycle(s) PROVE RingInv' /\ WorkInv'
  <1>1. /\ in_use' = [in_use EXCEPT ![s] = FALSE] /\ (log[s] = <<>> \/ released[s])
        /\ UNCHANGED <<log, finished, released, gen, received, out_pc, sent, released_gen, echoed, closes, stop>>
    BY Zenon DEF PollRecycle, Conn!Recycle, outVars, history
  <1>2. RingInv' /\ SameWork
    BY StillRing, Zenon DEF StillStep
  <1>3. \A t : Echoing(t)' <=> Echoing(t)
    BY <1>1, Zenon DEF Echoing
  <1>4. AllPieces' /\ AllPairs' /\ AllLow' /\ AllCovered'
    BY <1>1, <1>2, <1>3, Quieter
  <1>5. FrontInv'
    <2>1. ASSUME Busy' PROVE FrontOK(Piece(1))'
      <3>1. PICK p : p = Piece(1) /\ p = Piece(1)'
        BY <1>2, <2>1, FrontSame, Zenon
      <3>2. FrontOK(p)
        BY <1>1, <2>1, <3>1 DEF WorkInv, FrontInv, Busy
      <3>3. FrontOK(p)'
        BY <1>1, <1>3, <3>2, Zenon DEF FrontOK, Current
      <3> QED BY <3>1, <3>3
    <2> QED BY <2>1 DEF FrontInv
  <1>6. WorkType'
    BY <1>1 DEF WorkInv, WorkType
  <1>7. SlotInv'
    <2>1. ASSUME NEW t \in Slots PROVE SlotOK(t)'
      <3>1. in_use'[t] = IF t = s THEN FALSE ELSE in_use[t]
        BY <1>1 DEF WorkInv, WorkType
      <3> QED BY <1>1, <3>1, Zenon DEF WorkInv, SlotInv, SlotOK
    <2> QED BY <2>1 DEF SlotInv
  <1> QED BY <1>2, <1>4, <1>5, <1>6, <1>7 DEF WorkInv

\* The outbound thread takes the front item up: its first byte is the next to echo.
LEMMA TopWork == ASSUME RingInv, WorkInv, OutboundTop PROVE RingInv' /\ WorkInv'
  <1>1. /\ out_pc = "top" /\ sent' = 0
        /\ out_pc' = IF stop THEN "ended" ELSE IF front.what = "data" THEN "data" ELSE "close"
        /\ UNCHANGED <<in_use, log, finished, released, gen, received, released_gen, echoed, closes, stop, ringVars>>
    BY Zenon DEF OutboundTop, stackVars, connVars, history
  <1>2. RingInv' /\ SameWork
    BY StillRing DEF StillStep
  <1>3. \A s : Echoing(s)' => Echoing(s)
    BY <1>1, Zenon DEF Echoing
  <1>4. AllPieces' /\ AllPairs' /\ AllLow' /\ AllCovered'
    BY <1>1, <1>2, <1>3, Quieter
  <1>5. ASSUME Busy' PROVE FrontOK(Piece(1))'
    <2>1. /\ 1 \in 1 .. Size /\ Piece(1)' = Piece(1) /\ front = Piece(1) /\ Piece(1) \in Items
      BY <1>1, <1>2, <1>5, FrontSame DEF front, ringVars
    <2>2. PICK p \in Items : p = Piece(1) /\ p = Piece(1)'
      BY <2>1, Zenon
    <2>3. PieceOK(p) /\ LowOK(p)
      BY <1>1, <2>1, <2>2 DEF WorkInv, AllPieces, AllLow
    <2>4. ~stop /\ out_pc' = IF p.what = "data" THEN "data" ELSE "close"
      BY <1>1, <1>5, <2>1, <2>2 DEF Busy
    <2>5. p.from \in Nat /\ p.len \in Nat /\ p.conn.slot \in Slots /\ p.what \in Kinds
      BY DEF Items, Ids
    <2>6. ASSUME p.what = "data", Current(p), Echoing(p.conn.slot)
          PROVE  p.from = Len(echoed[p.conn.slot]) + 1
      <3> DEFINE s == p.conn.slot
                 n == Len(echoed[s])
      <3>1. n \in Nat /\ received[s] \in Nat
        BY <2>5 DEF WorkInv, WorkType
      <3>2. p.len >= 1 /\ p.from > n /\ p.from + p.len <= received[s] + 1
        BY <2>3, <2>6, Zenon DEF PieceOK, LowOK
      <3>3. n + 1 \in (n + 1) .. received[s]
        BY <2>5, <3>1, <3>2
      <3>4. PICK k \in 1 .. Size : Covers(Piece(k), s, n + 1)
        BY <2>5, <2>6, <3>3 DEF WorkInv, AllCovered
      <3>5. PICK q \in Pieces : q = Piece(k)
        BY PieceType, Zenon
      <3>6. q.from \in Nat /\ q.conn.slot = s /\ q.what = "data" /\ q.from <= n + 1
        BY <3>4, <3>5, Zenon DEF Covers, Pieces
      <3> HIDE DEF n, s
      <3>7. CASE k = 1
        <4>1. q = p
          BY <2>2, <3>5, <3>7, Zenon
        <4>2. p.from \in Nat /\ p.from > n /\ p.from <= n + 1
          BY <2>5, <3>2, <3>6, <4>1, Zenon
        <4>3. p.from = n + 1
          BY <3>1, <4>2
        <4> QED BY <4>3, Zenon DEF n, s
      <3>8. CASE k # 1
        <4>1. PairOK(p, q)
          BY <2>1, <2>2, <3>5, <3>8 DEF WorkInv, AllPairs
        <4>2. p.from + p.len <= q.from
          BY <2>6, <3>6, <4>1, Zenon DEF PairOK, s
        <4> QED BY <2>5, <3>1, <3>2, <3>6, <4>2
      <3> QED BY <3>7, <3>8
    <2>8. 0 <= p.len /\ p.from + 0 = p.from
      BY <2>5
    <2>9. out_pc' \in {"data", "close"} /\ (out_pc' = "data" <=> p.what = "data")
      BY <2>4
    <2>10. p.what \in {"data", "peer_closed", "reset"}
      BY <2>5, Zenon DEF Kinds
    <2>11. \A c \in {"data", "close"} : c # "pop" /\ c \notin {"finish", "release"} /\ (c = "close" => c # "data")
      OBVIOUS
    <2>7. FrontOK(p)'
      BY <1>1, <1>3, <2>6, <2>8, <2>9, <2>10, <2>11, Zenon DEF FrontOK, Current
    <2> QED BY <2>2, <2>7, Zenon
  <1>6. FrontInv'
    BY <1>5 DEF FrontInv
  <1>7. WorkType' /\ SlotInv'
    BY <1>1 DEF WorkInv, WorkType, SlotInv, SlotOK
  <1> QED BY <1>2, <1>4, <1>6, <1>7 DEF WorkInv

\* The item is echoed, or its connection is over: all of it was, if bytes still are.
LEMMA DoneWork == ASSUME RingInv, WorkInv, DataDone PROVE RingInv' /\ WorkInv'
  <1>1. /\ out_pc = "data" /\ out_pc' = "pop" /\ ~Retrying
        /\ UNCHANGED <<in_use, log, finished, released, gen, received, released_gen, echoed, closes, stop, sent>>
    BY Zenon DEF DataDone, stackVars, connVars, history
  <1>2. RingInv' /\ SameWork
    BY StillRing DEF StillStep
  <1>3. \A s : Echoing(s)' => Echoing(s) /\ ~stop
    BY <1>1, Zenon DEF Echoing
  <1>4. AllPieces' /\ AllPairs' /\ AllLow' /\ AllCovered'
    BY <1>1, <1>2, <1>3, Quieter
  <1>5. FrontOK(Piece(1))'
    <2>1. Busy /\ Busy'
      BY <1>1 DEF Busy
    <2>2. 1 \in 1 .. Size /\ Piece(1)' = Piece(1) /\ front = Piece(1)
      BY <1>2, <2>1, FrontPiece, FrontSame
    <2>3. PICK p \in Pieces : p = Piece(1) /\ p = Piece(1)' /\ front = p /\ FrontOK(p)
      BY <2>1, <2>2, PieceType DEF WorkInv, FrontInv
    <2>4. ASSUME Current(p), Echoing(p.conn.slot)' PROVE sent = p.len
      <3>1. Echoing(p.conn.slot) /\ ~stop /\ sendable(p.conn)
        BY <1>3, <2>4, Zenon DEF Echoing, sendable, Resolves, Current
      <3>2. ~(sent < p.len)
        BY <1>1, <2>3, <3>1 DEF Retrying
      <3>3. sent <= p.len
        BY <1>1, <2>3, <2>4, <3>1, Zenon DEF FrontOK
      <3>4. sent \in Nat /\ p.len \in Nat
        BY DEF WorkInv, WorkType, Pieces
      <3> QED BY <3>2, <3>3, <3>4
    <2>5. FrontOK(p)'
      BY <1>1, <1>3, <2>3, <2>4, Zenon DEF FrontOK, Current
    <2> QED BY <2>3, <2>5
  <1>6. FrontInv'
    BY <1>5, Zenon DEF FrontInv
  <1>7. WorkType' /\ SlotInv'
    BY <1>1 DEF WorkInv, WorkType, SlotInv, SlotOK
  <1> QED BY <1>2, <1>4, <1>6, <1>7 DEF WorkInv

\* close() finishes our direction: a peer_closed at the front has no byte behind it.
LEMMA FinishWork == ASSUME RingInv, WorkInv, CloseFinish PROVE RingInv' /\ WorkInv'
  <1>1. /\ out_pc = "finish" /\ out_pc' = "release"
        /\ UNCHANGED <<in_use, log, released, gen, received, released_gen, echoed, closes, stop, sent>>
        /\ \/ sendable(front.conn) /\ finished' = [finished EXCEPT ![front.conn.slot] = TRUE]
           \/ UNCHANGED finished
    BY Zenon DEF CloseFinish, Conn!Finish, connVars, history
  <1>2. RingInv' /\ SameWork
    BY StillRing DEF StillStep
  <1>3. Busy /\ Busy'
    BY <1>1 DEF Busy
  <1>4. 1 \in 1 .. Size /\ Piece(1)' = Piece(1) /\ front = Piece(1)
    BY <1>2, <1>3, FrontPiece, FrontSame
  <1>5. PICK p \in Pieces : p = Piece(1) /\ p = Piece(1)' /\ front = p /\ FrontOK(p) /\ PieceOK(p)
    BY <1>3, <1>4, PieceType DEF WorkInv, FrontInv, AllPieces
  <1>6. p.conn.slot \in Slots
    BY DEF Pieces, Ids
  <1>7. WorkType' /\ \A s \in Slots : finished[s] => finished'[s]
    BY <1>1, <1>5, <1>6, Zenon DEF WorkInv, WorkType
  <1>8. \A s \in Slots : Echoing(s)' => Echoing(s)
    BY <1>1, <1>7, Zenon DEF Echoing
  <1>9. AllPieces' /\ AllPairs' /\ AllLow' /\ AllCovered'
    BY <1>1, <1>2, <1>8, Quieter
  <1>10. FrontInv'
    <2>1. FrontOK(p)'
      BY <1>1, <1>5, Zenon DEF FrontOK
    <2> QED BY <1>5, <2>1 DEF FrontInv
  <1>11. SlotInv'
    <2>1. ASSUME NEW s \in Slots PROVE SlotOK(s)'
      <3>1. CASE s = p.conn.slot /\ sendable(p.conn)
        <4>1. Current(p) /\ Echoing(s) /\ ~Conn!Ended(log[s])
          BY <1>1, <3>1 DEF sendable, Resolves, Current, Echoing
        <4>2. p.what = "peer_closed"
          BY <1>1, <1>5, <3>1, <4>1, Zenon DEF FrontOK, PieceOK
        <4>3. log[s] # <<>> /\ log[s] # <<"accepted">>
          BY <1>5, <3>1, <4>1, <4>2, Zenon DEF PieceOK
        <4>4. Len(echoed[s]) = received[s]
          <5>1. Len(echoed[s]) \in Nat /\ received[s] \in Nat /\ Len(echoed[s]) <= received[s]
            <6>1. echoed[s] \in Seq(Nat) /\ received[s] \in Nat /\ Len(echoed[s]) <= received[s]
              BY Zenon DEF WorkInv, WorkType, SlotInv, SlotOK
            <6> QED BY <6>1
          <5>2. ASSUME Len(echoed[s]) < received[s] PROVE FALSE
            <6>1. received[s] \in (Len(echoed[s]) + 1) .. received[s]
              BY <5>1, <5>2
            <6>2. PICK k \in 1 .. Size : Covers(Piece(k), s, received[s])
              BY <4>1, <6>1 DEF WorkInv, AllCovered
            <6>3. Piece(k).conn.slot = s /\ Piece(k).what = "data" /\ k # 1
              BY <1>5, <4>2, <6>2, Zenon DEF Covers
            <6>4. PairOK(p, Piece(k))
              <7>1. 1 \in 1 .. Size /\ 1 < k
                BY <1>4, <6>3
              <7> QED BY <1>5, <7>1, Zenon DEF WorkInv, AllPairs
            <6>5. p.what \in {"peer_closed", "reset"}
              BY <4>2, Zenon
            <6> QED BY <3>1, <4>1, <6>3, <6>4, <6>5, Zenon DEF PairOK
          <5> QED BY <5>1, <5>2
        <4> QED BY <1>1, <4>3, <4>4, Zenon DEF WorkInv, SlotInv, SlotOK
      <3>2. CASE ~(s = p.conn.slot /\ sendable(p.conn))
        <4>1. finished'[s] = finished[s]
          BY <1>1, <1>5, <3>2, Zenon DEF WorkInv, WorkType
        <4> QED BY <1>1, <4>1 DEF WorkInv, SlotInv, SlotOK
      <3> QED BY <3>1, <3>2, Zenon
    <2> QED BY <2>1 DEF SlotInv
  <1> QED BY <1>2, <1>7, <1>9, <1>10, <1>11, Zenon DEF WorkInv

\* close() gives the slot up: only the generation it was called with.
LEMMA ReleaseWork == ASSUME RingInv, WorkInv, CloseRelease PROVE RingInv' /\ WorkInv'
  <1>1. /\ out_pc = "release" /\ out_pc' = "pop"
        /\ UNCHANGED <<in_use, log, finished, gen, received, released_gen, echoed, closes, stop, sent>>
        /\ \/ Resolves(front.conn) /\ released' = [released EXCEPT ![front.conn.slot] = TRUE]
           \/ UNCHANGED released
    BY Zenon DEF CloseRelease, Conn!Release, connVars, history
  <1>2. RingInv' /\ SameWork
    BY StillRing DEF StillStep
  <1>3. Busy /\ Busy'
    BY <1>1 DEF Busy
  <1>4. 1 \in 1 .. Size /\ Piece(1)' = Piece(1) /\ front = Piece(1)
    BY <1>2, <1>3, FrontPiece, FrontSame
  <1>5. PICK p \in Pieces : p = Piece(1) /\ p = Piece(1)' /\ front = p /\ FrontOK(p)
    BY <1>3, <1>4, PieceType DEF WorkInv, FrontInv
  <1>6. p.conn.slot \in Slots
    BY DEF Pieces, Ids
  <1>7. WorkType' /\ \A s \in Slots : released[s] => released'[s]
    BY <1>1, <1>5, <1>6, Zenon DEF WorkInv, WorkType
  <1>8. \A s \in Slots : Echoing(s)' => Echoing(s)
    BY <1>1, <1>7, Zenon DEF Echoing
  <1>9. AllPieces' /\ AllPairs' /\ AllLow' /\ AllCovered'
    BY <1>1, <1>2, <1>8, Quieter
  <1>10. FrontInv'
    <2>1. FrontOK(p)'
      BY <1>1, <1>5, Zenon DEF FrontOK
    <2> QED BY <1>5, <2>1 DEF FrontInv
  <1>11. SlotInv'
    <2>1. ASSUME NEW s \in Slots PROVE SlotOK(s)'
      <3>1. released'[s] => released[s] \/ released_gen[s] = gen[s]
        <4>1. CASE s = p.conn.slot
          <5>1. released_gen[s] = p.conn.generation
            BY <1>1, <1>5, <4>1, Zenon DEF FrontOK
          <5>2. Resolves(p.conn) => gen[s] = p.conn.generation
            BY <4>1 DEF Resolves
          <5> QED BY <1>1, <1>5, <5>1, <5>2
        <4>2. CASE s # p.conn.slot
          BY <1>1, <1>5, <4>2, Zenon DEF WorkInv, WorkType
        <4> QED BY <4>1, <4>2, Zenon
      <3> QED BY <1>1, <1>7, <3>1, Zenon DEF WorkInv, SlotInv, SlotOK
    <2> QED BY <2>1 DEF SlotInv
  <1> QED BY <1>2, <1>7, <1>9, <1>10, <1>11, Zenon DEF WorkInv

\* close_once: all that waits behind is of the connection that is closed now.
LEMMA CloseWork == ASSUME RingInv, WorkInv, close_once PROVE RingInv' /\ WorkInv'
  <1>1. /\ out_pc = "close"
        /\ UNCHANGED <<in_use, log, finished, released, gen, received, echoed, stop, sent>>
        /\ IF released_gen[front.conn.slot] # front.conn.generation
           THEN /\ released_gen' = [released_gen EXCEPT ![front.conn.slot] = front.conn.generation]
                /\ closes' = [closes EXCEPT ![front.conn.slot] =
                                @ + IF gen[front.conn.slot] = front.conn.generation THEN 1 ELSE 0]
                /\ out_pc' = "finish"
           ELSE out_pc' = "pop" /\ UNCHANGED <<released_gen, closes>>
    BY Zenon DEF close_once, stackVars, connVars
  <1>2. RingInv' /\ SameWork
    BY StillRing DEF StillStep
  <1>3. Busy /\ Busy'
    BY <1>1, Zenon DEF Busy
  <1>4. 1 \in 1 .. Size /\ Piece(1)' = Piece(1) /\ front = Piece(1)
    BY <1>2, <1>3, FrontPiece, FrontSame
  <1>5. PICK p \in Pieces : p = Piece(1) /\ p = Piece(1)' /\ front = p /\ FrontOK(p) /\ PieceOK(p)
    BY <1>3, <1>4, PieceType DEF WorkInv, FrontInv, AllPieces
  <1>6. p.conn.slot \in Slots /\ p.conn.generation \in Nat
    BY DEF Pieces, Ids
  <1>7. \A s \in Slots : Echoing(s)' => Echoing(s)
    BY <1>1, Zenon DEF Echoing
  <1>8. AllPairs' /\ AllLow' /\ AllCovered'
    BY <1>1, <1>2, <1>7, SamePairs, SameLow, SameCover, Zenon
  <1>9. FrontInv'
    <2>1. FrontOK(p)'
      BY <1>1, <1>5, <1>6, Zenon DEF FrontOK, WorkInv, WorkType
    <2> QED BY <1>5, <2>1 DEF FrontInv
  <1>10. CASE released_gen[p.conn.slot] # p.conn.generation
    <2>1. Current(p) /\ gen[p.conn.slot] = p.conn.generation
      BY <1>5, <1>10, Zenon DEF PieceOK, Current
    <2>2. \A s \in Slots : /\ released_gen'[s] = IF s = p.conn.slot THEN gen[s] ELSE released_gen[s]
                           /\ closes'[s] = IF s = p.conn.slot THEN closes[s] + 1 ELSE closes[s]
      <3>1. /\ released_gen' = [released_gen EXCEPT ![p.conn.slot] = gen[p.conn.slot]]
            /\ closes' = [closes EXCEPT ![p.conn.slot] = closes[p.conn.slot] + 1]
        BY <1>1, <1>5, <1>6, <1>10, <2>1, Zenon DEF WorkInv, WorkType
      <3>2. released_gen \in [Slots -> Nat] /\ closes \in [Slots -> Nat]
        BY Zenon DEF WorkInv, WorkType
      <3> QED BY <3>1, <3>2, Zenon
    <2>3. WorkType'
      <3>1. released_gen' \in [Slots -> Nat]
        BY <1>1, <1>5, <1>6, <1>10, Zenon DEF WorkInv, WorkType
      <3>2. closes' \in [Slots -> Nat]
        <4>1. closes' = [closes EXCEPT ![p.conn.slot] = closes[p.conn.slot] + 1]
          BY <1>1, <1>5, <1>6, <1>10, <2>1, Zenon DEF WorkInv, WorkType
        <4> QED BY <1>6, <4>1 DEF WorkInv, WorkType
      <3>3. out_pc' = "finish"
        BY <1>1, <1>5, <1>10, Zenon
      <3> QED BY <1>1, <3>1, <3>2, <3>3, Zenon DEF WorkInv, WorkType
    <2>4. AllPieces'
      <3>1. ASSUME NEW k \in 1 .. Size PROVE PieceOK(Piece(k))'
        <4>1. PICK q \in Pieces : q = Piece(k) /\ q = Piece(k)' /\ PieceOK(q)
          BY <1>2, PieceType DEF SameWork, WorkInv, AllPieces
        <4>2. q.conn.slot \in Slots
          BY DEF Pieces, Ids
        <4>3. q.conn.slot = p.conn.slot => Current(q)
          <5>1. CASE k = 1
            BY <1>5, <2>1, <4>1, <5>1, Zenon
          <5>2. CASE k # 1
            <6>1. PairOK(p, q)
              <7>1. 1 < k /\ 1 \in 1 .. Size
                BY <1>4, <5>2
              <7>2. PairOK(Piece(1), Piece(k))
                BY <7>1 DEF WorkInv, AllPairs
              <7> QED BY <1>5, <4>1, <7>2
            <6> QED BY <2>1, <6>1 DEF PairOK
          <5> QED BY <5>1, <5>2, Zenon
        <4>4. PieceOK(q)'
          BY <1>1, <2>2, <4>1, <4>2, <4>3, Zenon DEF PieceOK, Current
        <4> QED BY <4>1, <4>4
      <3> QED BY <1>2, <3>1 DEF AllPieces, SameWork
    <2>5. SlotInv'
      <3>1. ASSUME NEW s \in Slots PROVE SlotOK(s)'
        <4>1. closes[s] \in Nat /\ SlotOK(s)
          BY Zenon DEF WorkInv, WorkType, SlotInv
        <4>2. /\ closes[s] <= 1
              /\ closes[s] = 1 => released_gen[s] = gen[s]
              /\ released[s] => released_gen[s] = gen[s]
          BY <4>1, Zenon DEF SlotOK
        <4>3. s = p.conn.slot => closes[s] # 1
          BY <1>10, <2>1, <4>2, Zenon
        <4>4. /\ closes'[s] <= 1
              /\ closes'[s] = 1 \/ released[s] => released_gen'[s] = gen[s]
          <5>1. CASE s = p.conn.slot
            <6>1. closes[s] = 0
              BY <4>1, <4>2, <4>3, <5>1
            <6>2. closes'[s] = closes[s] + 1 /\ released_gen'[s] = gen[s]
              BY <2>2, <5>1, Zenon
            <6> QED BY <6>1, <6>2
          <5>2. CASE s # p.conn.slot
            BY <2>2, <4>2, <5>2, Zenon
          <5> QED BY <5>1, <5>2, Zenon
        <4> QED BY <1>1, <4>1, <4>4, Zenon DEF SlotOK
      <3> QED BY <3>1 DEF SlotInv
    <2> QED BY <1>2, <1>8, <1>9, <2>3, <2>4, <2>5 DEF WorkInv
  <1>11. CASE released_gen[p.conn.slot] = p.conn.generation
    <2>1. out_pc' = "pop" /\ UNCHANGED <<released_gen, closes>>
      BY <1>1, <1>5, <1>11, Zenon
    <2>2. AllPieces'
      BY <1>1, <1>2, <2>1, SamePieces, Zenon
    <2>3. WorkType' /\ SlotInv'
      BY <1>1, <2>1, Zenon DEF WorkInv, WorkType, SlotInv, SlotOK
    <2> QED BY <1>2, <1>8, <1>9, <2>2, <2>3 DEF WorkInv
  <1> QED BY <1>10, <1>11

\* send() echoes the next bytes of the front item.
LEMMA SendWork ==
  ASSUME RingInv, WorkInv, NEW n \in 1 .. MaxWindow, SendData(n)
  PROVE  RingInv' /\ WorkInv'
  <1>1. /\ out_pc = "data" /\ Retrying /\ n <= front.len - sent /\ sent' = sent + n
        /\ echoed' = [echoed EXCEPT ![front.conn.slot] = @ \o [i \in 1 .. n |-> front.from + sent + i - 1]]
        /\ UNCHANGED <<in_use, log, finished, released, gen, received, out_pc, released_gen, closes, stop>>
    BY Zenon DEF SendData, connVars
  <1>2. RingInv' /\ SameWork
    BY StillRing DEF StillStep
  <1>3. Busy /\ Busy'
    BY <1>1, Zenon DEF Busy
  <1>4. 1 \in 1 .. Size /\ Piece(1)' = Piece(1) /\ front = Piece(1)
    BY <1>2, <1>3, FrontPiece, FrontSame
  <1>5. PICK p \in Pieces : p = Piece(1) /\ p = Piece(1)' /\ front = p /\ FrontOK(p) /\ PieceOK(p)
    BY <1>3, <1>4, PieceType DEF WorkInv, FrontInv, AllPieces
  <1>6. PICK s \in Slots : s = p.conn.slot
    BY DEF Pieces, Ids
  <1>7. p.from \in Nat /\ p.len \in Nat /\ sent \in Nat /\ received[s] \in Nat /\ n \in Nat \ {0}
    BY EchoAssumption DEF Pieces, WorkInv, WorkType
  <1>8. p.what = "data" /\ Current(p) /\ Echoing(s) /\ ~finished[s]
    BY <1>1, <1>5, <1>6, Zenon DEF FrontOK, Retrying, sendable, Resolves, Current, Echoing
  <1>9. PICK e \in Nat : e = Len(echoed[s])
    BY DEF WorkInv, WorkType
  <1>10. /\ p.from + sent = e + 1 /\ p.from + p.len <= received[s] + 1 /\ n <= p.len - sent
    BY <1>1, <1>5, <1>6, <1>8, <1>9, Zenon DEF FrontOK, PieceOK
  <1>11. /\ echoed' \in [Slots -> Seq(Nat)] /\ Len(echoed'[s]) = e + n
         /\ \A i \in 1 .. (e + n) : echoed'[s][i] = i
         /\ \A t \in Slots : t # s => echoed'[t] = echoed[t]
    <2> DEFINE more == [i \in 1 .. n |-> p.from + sent + i - 1]
    <2>1. more \in Seq(Nat) /\ Len(more) = n /\ \A i \in 1 .. n : more[i] = e + i
      <3>1. \A i \in 1 .. n : p.from + sent + i - 1 = e + i /\ p.from + sent + i - 1 \in Nat
        BY <1>7, <1>10
      <3>2. more \in [1 .. n -> Nat] /\ n \in Nat
        BY <1>7, <3>1
      <3>3. \A i \in 1 .. n : more[i] = e + i
        BY <3>1
      <3> QED BY <3>2, <3>3
    <2>2. echoed' = [echoed EXCEPT ![s] = echoed[s] \o more]
      BY <1>1, <1>5, <1>6, Zenon DEF WorkInv, WorkType
    <2> HIDE DEF more
    <2>3. echoed[s] \in Seq(Nat) /\ \A i \in 1 .. e : echoed[s][i] = i
      BY <1>9, Zenon DEF WorkInv, WorkType, SlotInv, SlotOK
    <2>4. echoed'[s] = echoed[s] \o more
      BY <2>2, Zenon DEF WorkInv, WorkType
    <2>5. /\ echoed[s] \o more \in Seq(Nat) /\ Len(echoed[s] \o more) = e + n
          /\ \A i \in 1 .. (e + n) :
               IF i <= e THEN i \in 1 .. e /\ (echoed[s] \o more)[i] = echoed[s][i]
               ELSE i - e \in 1 .. n /\ e + (i - e) = i /\ (echoed[s] \o more)[i] = more[i - e]
      <3>1. /\ echoed[s] \o more \in Seq(Nat) /\ Len(echoed[s] \o more) = Len(echoed[s]) + Len(more)
            /\ \A i \in 1 .. (Len(echoed[s]) + Len(more)) :
                 IF i <= Len(echoed[s]) THEN i \in 1 .. Len(echoed[s]) /\ (echoed[s] \o more)[i] = echoed[s][i]
                 ELSE /\ i - Len(echoed[s]) \in 1 .. Len(more) /\ Len(echoed[s]) + (i - Len(echoed[s])) = i
                      /\ (echoed[s] \o more)[i] = more[i - Len(echoed[s])]
        BY <2>1, <2>3, ConcatAt, Zenon
      <3>2. e = Len(echoed[s]) /\ n = Len(more)
        BY <1>9, <2>1, Zenon
      <3> QED BY <3>1, <3>2, Zenon
    <2>6. ASSUME NEW i \in 1 .. (e + n) PROVE (echoed[s] \o more)[i] = i
      <3>1. CASE i <= e
        BY <2>3, <2>5, <3>1, Zenon
      <3>2. CASE ~(i <= e)
        BY <2>1, <2>5, <3>2, Zenon
      <3> QED BY <3>1, <3>2, Zenon
    <2>7. echoed' \in [Slots -> Seq(Nat)] /\ \A t \in Slots : t # s => echoed'[t] = echoed[t]
      BY <2>2, <2>5, Zenon DEF WorkInv, WorkType
    <2> QED BY <2>4, <2>5, <2>6, <2>7, Zenon
  <1>19. /\ sent + n \in Nat /\ sent + n <= p.len /\ p.from + (sent + n) = (e + n) + 1 /\ e + n <= received[s]
         /\ \A g \in Nat : p.from + p.len <= g => g > e + n
    <2>1. PICK b \in Nat, l \in Nat, d \in Nat, r \in Nat : b = p.from /\ l = p.len /\ d = sent /\ r = received[s]
      BY <1>7, Zenon
    <2>2. n \in Nat /\ b + d = e + 1 /\ n <= l - d /\ b + l <= r + 1
      BY <1>7, <1>10, <2>1, Zenon
    <2>3. /\ d + n \in Nat /\ d + n <= l /\ b + (d + n) = (e + n) + 1 /\ e + n <= r
          /\ \A g \in Nat : b + l <= g => g > e + n
      BY <2>2
    <2> QED BY <2>1, <2>3, Zenon
  <1>12. \A t : Echoing(t)' <=> Echoing(t)
    BY <1>1, Zenon DEF Echoing
  <1>13. AllPieces' /\ AllPairs'
    BY <1>1, <1>2, SamePieces, SamePairs, Zenon
  <1>14. AllCovered'
    <2>1. ASSUME NEW t \in Slots
          PROVE  (Len(echoed'[t]) + 1) .. received'[t] \subseteq (Len(echoed[t]) + 1) .. received[t]
      <3>1. received'[t] = received[t]
        BY <1>1, Zenon
      <3>2. CASE t = s
        <4>1. n \in Nat /\ ((e + n) + 1) .. received[s] \subseteq (e + 1) .. received[s]
          BY <1>7, FewerLeft, Zenon
        <4> QED BY <1>9, <1>11, <3>1, <3>2, <4>1, Zenon
      <3>3. CASE t # s
        BY <1>11, <3>1, <3>3, Zenon
      <3> QED BY <3>2, <3>3, Zenon
    <2> QED BY <1>1, <1>2, <1>12, <2>1, SameCover, Zenon
  <1>15. AllLow'
    <2>1. ASSUME NEW k \in 1 .. Size, k # 1 PROVE LowOK(Piece(k))'
      <3>1. PICK q \in Pieces : q = Piece(k) /\ q = Piece(k)'
        BY <1>2, PieceType DEF SameWork
      <3>2. LowOK(q)
        BY <2>1, <3>1, Zenon DEF WorkInv, AllLow
      <3>3. q.conn.slot \in Slots /\ q.from \in Nat
        BY DEF Pieces, Ids
      <3>4. PairOK(p, q)
        <4>1. 1 < k /\ 1 \in 1 .. Size
          BY <1>4, <2>1
        <4>2. PairOK(Piece(1), Piece(k))
          BY <4>1 DEF WorkInv, AllPairs
        <4> QED BY <1>5, <3>1, <4>2
      <3>5. CASE q.conn.slot # s
        <4>1. Len(echoed'[q.conn.slot]) = Len(echoed[q.conn.slot])
          BY <1>11, <3>3, <3>5, Zenon
        <4>2. LowOK(q)'
          BY <1>1, <1>12, <3>2, <4>1, Zenon DEF LowOK, Current
        <4> QED BY <3>1, <4>2, Zenon
      <3>6. CASE q.conn.slot = s
        <4>1. q.what = "data" => p.from + p.len <= q.from
          BY <1>6, <1>8, <3>4, <3>6, Zenon DEF PairOK
        <4>2. q.what = "data" => q.from > e + n
          BY <1>19, <3>3, <4>1, Zenon
        <4>3. LowOK(q)'
          BY <1>11, <3>6, <4>2, Zenon DEF LowOK
        <4> QED BY <3>1, <4>3
      <3> QED BY <3>5, <3>6
    <2> QED BY <1>1, <1>2, <2>1, Zenon DEF AllLow, SameWork
  <1>16. FrontInv'
    <2>1. FrontOK(p)'
      BY <1>1, <1>5, <1>6, <1>8, <1>11, <1>19, Zenon DEF FrontOK
    <2> QED BY <1>5, <2>1 DEF FrontInv
  <1>17. WorkType'
    BY <1>1, <1>11, <1>19, Zenon DEF WorkInv, WorkType
  <1>18. SlotInv'
    <2>1. ASSUME NEW t \in Slots PROVE SlotOK(t)'
      <3>1. CASE t = s
        BY <1>1, <1>8, <1>11, <1>19, <3>1, Zenon DEF WorkInv, SlotInv, SlotOK
      <3>2. CASE t # s
        BY <1>1, <1>11, <3>2, Zenon DEF WorkInv, SlotInv, SlotOK
      <3> QED BY <3>1, <3>2
    <2> QED BY <2>1 DEF SlotInv
  <1> QED BY <1>2, <1>13, <1>14, <1>15, <1>16, <1>17, <1>18 DEF WorkInv

\* pop() drops an item that was echoed, or whose bytes no one waits for.
LEMMA PopWork == ASSUME RingInv, WorkInv, Pop PROVE RingInv' /\ WorkInv'
  <1>1. /\ out_pc = "pop" /\ out_pc' = "top"
        /\ UNCHANGED <<in_use, log, finished, released, gen, received, sent, released_gen, echoed, closes, stop>>
    BY Zenon DEF Pop, stackVars, connVars, history
  <1>2. RingInv' /\ Dropped
    BY PopRing
  <1>3. Size \in Nat /\ Size' = Size - 1 /\ \A k \in 1 .. (Size - 1) : Piece(k)' = Piece(k + 1)
    BY <1>2, PieceType DEF Dropped
  <1>4. \A k \in 1 .. (Size - 1) : k + 1 \in 1 .. Size /\ k + 1 # 1
    BY <1>3
  <1>5. \A s : Echoing(s)' <=> Echoing(s)
    BY <1>1, Zenon DEF Echoing
  <1>6. AllPieces'
    <2>1. ASSUME NEW k \in 1 .. (Size - 1) PROVE PieceOK(Piece(k))'
      <3>1. PICK p : p = Piece(k + 1) /\ p = Piece(k)' /\ PieceOK(p)
        BY <1>3, <1>4 DEF WorkInv, AllPieces
      <3>2. PieceOK(p)'
        BY <1>1, <3>1, Zenon DEF PieceOK, Current
      <3> QED BY <3>1, <3>2
    <2> QED BY <1>3, <2>1 DEF AllPieces
  <1>7. AllPairs'
    <2>1. ASSUME NEW j \in 1 .. (Size - 1), NEW k \in 1 .. (Size - 1), j < k PROVE PairOK(Piece(j), Piece(k))'
      <3>1. PICK p : p = Piece(j + 1) /\ p = Piece(j)'
        BY <1>3
      <3>2. PICK q : q = Piece(k + 1) /\ q = Piece(k)'
        BY <1>3
      <3>3. PairOK(Piece(j + 1), Piece(k + 1))
        BY <1>4, <2>1 DEF WorkInv, AllPairs
      <3>4. PairOK(p, q)'
        BY <1>1, <3>1, <3>2, <3>3, Zenon DEF PairOK, Current
      <3> QED BY <3>1, <3>2, <3>4
    <2> QED BY <1>3, <2>1 DEF AllPairs
  <1>8. AllLow'
    <2>1. ASSUME NEW k \in 1 .. (Size - 1) PROVE LowOK(Piece(k))'
      <3>1. PICK p : p = Piece(k + 1) /\ p = Piece(k)' /\ LowOK(p)
        BY <1>3, <1>4, Zenon DEF WorkInv, AllLow
      <3>2. LowOK(p)'
        BY <1>1, <1>5, <3>1 DEF LowOK, Current
      <3> QED BY <3>1, <3>2
    <2> QED BY <1>3, <2>1 DEF AllLow
  <1>9. AllCovered'
    <2>1. ASSUME NEW s \in Slots, Echoing(s)', NEW b \in (Len(echoed'[s]) + 1) .. received'[s]
          PROVE  \E k \in 1 .. Size' : Covers(Piece(k), s, b)'
      <3>1. Echoing(s) /\ b \in (Len(echoed[s]) + 1) .. received[s]
        BY <1>1, <1>5, <2>1, Zenon
      <3>2. PICK m \in 1 .. Size : Covers(Piece(m), s, b)
        BY <3>1, Zenon DEF WorkInv, AllCovered
      <3>3. m # 1
        <4>1. SUFFICES ASSUME m = 1 PROVE FALSE
          OBVIOUS
        <4>2. PICK p \in Pieces : p = Piece(1) /\ FrontOK(p)
          BY <1>1, <4>1, PieceType, Zenon DEF WorkInv, FrontInv, Busy
        <4>3. p.conn.slot = s /\ Current(p) /\ p.what = "data" /\ b < p.from + p.len
          BY <3>2, <4>1, <4>2, Zenon DEF Covers
        <4>4. p.from + sent = Len(echoed[s]) + 1 /\ sent = p.len
          BY <1>1, <3>1, <4>2, <4>3 DEF FrontOK
        <4>5. Len(echoed[s]) \in Nat /\ received[s] \in Nat /\ p.from \in Nat /\ p.len \in Nat
          BY DEF WorkInv, WorkType, Pieces
        <4> QED BY <3>1, <4>3, <4>4, <4>5
      <3>4. PICK k \in 1 .. (Size - 1) : k + 1 = m
        <4>1. m - 1 \in 1 .. (Size - 1) /\ (m - 1) + 1 = m
          BY <1>3, <3>3
        <4> QED BY <4>1
      <3>5. PICK p : p = Piece(m) /\ p = Piece(k)'
        BY <1>3, <3>4, Zenon
      <3>6. Covers(p, s, b)'
        BY <1>1, <3>2, <3>5 DEF Covers, Current
      <3>7. Covers(Piece(k), s, b)'
        BY <3>5, <3>6
      <3> QED BY <1>3, <3>7
    <2> QED BY <2>1 DEF AllCovered
  <1>10. FrontInv'
    BY <1>1, Zenon DEF FrontInv, Busy
  <1>11. WorkType' /\ SlotInv'
    BY <1>1 DEF WorkInv, WorkType, SlotInv, SlotOK
  <1> QED BY <1>2, <1>6, <1>7, <1>8, <1>9, <1>10, <1>11 DEF WorkInv

\* A handshake begins: what is left of the slot's older connections is closed already,
\* and is not taken for the new one's.
LEMMA BeginWork == ASSUME RingInv, WorkInv, NEW s \in Slots, PollBegin(s) PROVE RingInv' /\ WorkInv'
  <1>1. /\ ~in_use[s] /\ in_use' = [in_use EXCEPT ![s] = TRUE] /\ log' = [log EXCEPT ![s] = <<>>]
        /\ finished' = [finished EXCEPT ![s] = FALSE] /\ released' = [released EXCEPT ![s] = FALSE]
        /\ gen' = [gen EXCEPT ![s] = NextGeneration(@)] /\ NextGeneration(gen[s]) # released_gen[s]
        /\ received' = [received EXCEPT ![s] = 0]
        /\ echoed' = [echoed EXCEPT ![s] = <<>>] /\ closes' = [closes EXCEPT ![s] = 0]
        /\ UNCHANGED <<out_pc, sent, released_gen, stop>>
    BY Zenon DEF PollBegin, Conn!Begin, outVars
  <1>2. RingInv' /\ SameWork
    BY StillRing DEF StillStep
  <1>3. NextGeneration(gen[s]) \in Nat
    <2>1. gen[s] \in Nat /\ gen[s] + 1 \in Nat
      BY DEF WorkInv, WorkType
    <2> QED BY <2>1 DEF NextGeneration
  <1>4. WorkType'
    <2>1. <<>> \in Seq(Reports) /\ <<>> \in Seq(Nat)
      OBVIOUS
    <2> QED BY <1>1, <1>3, <2>1, Zenon DEF WorkInv, WorkType
  <1>5. \A t \in Slots : t # s =>
          /\ in_use'[t] = in_use[t] /\ log'[t] = log[t] /\ finished'[t] = finished[t] /\ released'[t] = released[t]
          /\ gen'[t] = gen[t] /\ received'[t] = received[t] /\ echoed'[t] = echoed[t] /\ closes'[t] = closes[t]
    BY <1>1, Zenon DEF WorkInv, WorkType
  <1>6. /\ in_use'[s] = TRUE /\ log'[s] = <<>> /\ finished'[s] = FALSE /\ released'[s] = FALSE
        /\ gen'[s] # released_gen[s] /\ received'[s] = 0 /\ echoed'[s] = <<>> /\ closes'[s] = 0
    BY <1>1 DEF WorkInv, WorkType
  <1>7. ASSUME NEW k \in 1 .. Size, Piece(k).conn.slot = s PROVE Piece(k).conn.generation = released_gen[s]
    <2>1. PieceOK(Piece(k)) /\ SlotOK(s)
      BY DEF WorkInv, AllPieces, SlotInv
    <2> QED BY <1>1, <1>7, <2>1, Zenon DEF PieceOK, SlotOK, Current
  <1>8. ASSUME NEW k \in 1 .. Size
        PROVE  \E p \in Pieces : /\ p = Piece(k) /\ p = Piece(k)' /\ p.conn.slot \in Slots
                                 /\ p.conn.slot = s => p.conn.generation = released_gen[s] /\ ~Current(p)'
    <2>1. PICK p \in Pieces : p = Piece(k) /\ p = Piece(k)'
      BY <1>2, PieceType DEF SameWork
    <2>2. p.conn.slot = s => p.conn.generation = released_gen[s]
      BY <1>7, <2>1, Zenon
    <2>3. p.conn.slot = s => ~Current(p)'
      BY <1>6, <2>2, Zenon DEF Current
    <2>4. p.conn.slot \in Slots
      BY Zenon DEF Pieces, Ids
    <2> QED BY <2>1, <2>2, <2>3, <2>4, Zenon
  <1>9. \A t \in Slots : t # s => (Echoing(t)' <=> Echoing(t))
    BY <1>1, <1>5 DEF Echoing
  <1>10. Size' = Size
    BY <1>2 DEF SameWork
  <1>11. AllPieces'
    <2>1. ASSUME NEW k \in 1 .. Size PROVE PieceOK(Piece(k))'
      <3>1. PICK p \in Pieces : /\ p = Piece(k) /\ p = Piece(k)' /\ p.conn.slot \in Slots
                                /\ p.conn.slot = s => p.conn.generation = released_gen[s] /\ ~Current(p)'
        BY <1>8, Zenon
      <3>2. PieceOK(p)
        BY <3>1, Zenon DEF WorkInv, AllPieces
      <3>3. PieceOK(p)'
        <4>1. CASE p.conn.slot = s
          BY <1>1, <3>1, <3>2, <4>1, Zenon DEF PieceOK
        <4>2. CASE p.conn.slot # s
          BY <1>1, <1>5, <3>1, <3>2, <4>2, Zenon DEF PieceOK, Current
        <4> QED BY <4>1, <4>2
      <3> QED BY <3>1, <3>3, Zenon
    <2> QED BY <1>10, <2>1 DEF AllPieces
  <1>12. AllPairs'
    <2>1. ASSUME NEW j \in 1 .. Size, NEW k \in 1 .. Size, j < k PROVE PairOK(Piece(j), Piece(k))'
      <3>1. PICK p \in Pieces : /\ p = Piece(j) /\ p = Piece(j)' /\ p.conn.slot \in Slots
                                /\ p.conn.slot = s => ~Current(p)'
        BY <1>8, Zenon
      <3>2. PICK q \in Pieces : q = Piece(k) /\ q = Piece(k)'
        BY <1>8
      <3>3. PairOK(p, q)
        BY <2>1, <3>1, <3>2, Zenon DEF WorkInv, AllPairs
      <3>4. PairOK(p, q)'
        <4>1. CASE p.conn.slot = s
          BY <3>1, <4>1 DEF PairOK
        <4>2. CASE p.conn.slot # s
          BY <1>5, <3>1, <3>3, <4>2, Zenon DEF PairOK, Current
        <4> QED BY <4>1, <4>2
      <3> QED BY <3>1, <3>2, <3>4, Zenon
    <2> QED BY <1>10, <2>1 DEF AllPairs
  <1>13. AllLow'
    <2>1. ASSUME NEW k \in 1 .. Size, k = 1 => out_pc' \notin {"data", "pop"} PROVE LowOK(Piece(k))'
      <3>1. PICK p \in Pieces : /\ p = Piece(k) /\ p = Piece(k)' /\ p.conn.slot \in Slots
                                /\ p.conn.slot = s => ~Current(p)'
        BY <1>8, Zenon
      <3>2. LowOK(p)
        BY <1>1, <2>1, <3>1, Zenon DEF WorkInv, AllLow
      <3>3. LowOK(p)'
        <4>1. CASE p.conn.slot = s
          BY <3>1, <4>1 DEF LowOK
        <4>2. CASE p.conn.slot # s
          BY <1>5, <1>9, <3>1, <3>2, <4>2, Zenon DEF LowOK, Current
        <4> QED BY <4>1, <4>2
      <3> QED BY <3>1, <3>3
    <2> QED BY <1>10, <2>1 DEF AllLow
  <1>14. AllCovered'
    <2>1. ASSUME NEW t \in Slots, Echoing(t)', NEW b \in (Len(echoed'[t]) + 1) .. received'[t]
          PROVE  \E k \in 1 .. Size' : Covers(Piece(k), t, b)'
      <3>1. t # s
        <4>1. t = s => Len(echoed'[t]) = 0 /\ received'[t] = 0
          BY <1>6
        <4> QED BY <2>1, <4>1
      <3>2. Echoing(t) /\ b \in (Len(echoed[t]) + 1) .. received[t]
        BY <1>5, <1>9, <2>1, <3>1, Zenon
      <3>3. PICK k \in 1 .. Size : Covers(Piece(k), t, b)
        BY <3>2, Zenon DEF WorkInv, AllCovered
      <3>4. PICK p : p = Piece(k) /\ p = Piece(k)'
        BY <1>8
      <3>5. Covers(p, t, b)'
        BY <1>5, <3>1, <3>3, <3>4, Zenon DEF Covers, Current
      <3>6. Covers(Piece(k), t, b)'
        BY <3>4, <3>5
      <3> QED BY <1>10, <3>6
    <2> QED BY <2>1 DEF AllCovered
  <1>15. FrontInv'
    <2>1. ASSUME Busy' PROVE FrontOK(Piece(1))'
      <3>1. 1 \in 1 .. Size
        BY <1>2, <2>1, FrontSame, Zenon
      <3>2. PICK p \in Pieces : /\ p = Piece(1) /\ p = Piece(1)' /\ p.conn.slot \in Slots
                                /\ p.conn.slot = s => ~Current(p)'
        BY <1>8, <3>1
      <3>3. FrontOK(p)
        BY <1>1, <2>1, <3>2, Zenon DEF WorkInv, FrontInv, Busy
      <3>4. FrontOK(p)'
        <4>1. CASE p.conn.slot = s
          BY <1>1, <3>2, <3>3, <4>1, Zenon DEF FrontOK
        <4>2. CASE p.conn.slot # s
          BY <1>1, <1>5, <1>9, <3>2, <3>3, <4>2, Zenon DEF FrontOK, Current
        <4> QED BY <4>1, <4>2
      <3> QED BY <3>2, <3>4
    <2> QED BY <2>1 DEF FrontInv
  <1>16. SlotInv'
    <2>1. ASSUME NEW t \in Slots PROVE SlotOK(t)'
      <3>1. CASE t = s
        <4>1. Len(<<>>) = 0
          OBVIOUS
        <4> QED BY <1>6, <3>1, <4>1 DEF SlotOK
      <3>2. CASE t # s
        <4>1. SlotOK(t) /\ released_gen'[t] = released_gen[t]
          BY <1>1, Zenon DEF WorkInv, SlotInv
        <4>2. /\ in_use'[t] = in_use[t] /\ log'[t] = log[t] /\ finished'[t] = finished[t]
              /\ released'[t] = released[t] /\ gen'[t] = gen[t] /\ received'[t] = received[t]
              /\ echoed'[t] = echoed[t] /\ closes'[t] = closes[t]
          BY <1>5, <3>2, Zenon
        <4> QED BY <4>1, <4>2, Zenon DEF SlotOK
      <3> QED BY <3>1, <3>2, Zenon
    <2> QED BY <2>1 DEF SlotInv
  <1> QED BY <1>2, <1>4, <1>11, <1>12, <1>13, <1>14, <1>15, <1>16 DEF WorkInv

\* What was said of the pieces is still so.
Kept == \A p \in Pieces : PieceOK(p) => PieceOK(p)'

\* x may go behind any piece that is all right.
Behind(x) == \A p \in Pieces : PieceOK(p) => PairOK(p, x)

\* x has the bytes that are new.
Brings(x) ==
  \A s \in Slots, b \in Int :
    Echoing(s)' /\ b \in (Len(echoed[s]) + 1) .. received'[s] =>
      b \in (Len(echoed[s]) + 1) .. received[s] \/ Covers(x, s, b)

\* An event that fits behind all others joins the queue.
LEMMA Grown ==
  ASSUME RingInv, RingInv', WorkInv, NEW x \in Pieces, Added(x), Kept, Behind(x), Brings(x),
         PieceOK(x)', LowOK(x), UNCHANGED <<gen, echoed, out_pc, sent, released_gen>>,
         \A s \in Slots : Echoing(s)' => Echoing(s)
  PROVE  AllPieces' /\ AllPairs' /\ AllLow' /\ AllCovered' /\ FrontInv'
  <1>1. /\ Size \in Nat /\ Size' = Size + 1
        /\ \A k \in 1 .. Size : Piece(k) \in Pieces /\ Piece(k)' = Piece(k)
        /\ \A k \in 1 .. Size' : k \in 1 .. Size \/ Piece(k)' = x
    BY PieceType DEF Added
  <1>2. AllPieces'
    <2>1. ASSUME NEW k \in 1 .. Size' PROVE PieceOK(Piece(k))'
      <3>1. PICK p \in Pieces : p = Piece(k)' /\ PieceOK(p)'
        <4>1. CASE k \in 1 .. Size
          BY <1>1, <4>1 DEF WorkInv, AllPieces, Kept
        <4>2. CASE Piece(k)' = x
          BY <4>2
        <4> QED BY <1>1, <4>1, <4>2
      <3> QED BY <3>1
    <2> QED BY <2>1 DEF AllPieces
  <1>3. AllPairs'
    <2>1. ASSUME NEW j \in 1 .. Size', NEW k \in 1 .. Size', j < k PROVE PairOK(Piece(j), Piece(k))'
      <3>1. j \in 1 .. Size
        BY <1>1, <2>1
      <3>2. PICK p \in Pieces : p = Piece(j) /\ p = Piece(j)' /\ PieceOK(p)
        BY <1>1, <3>1 DEF WorkInv, AllPieces
      <3>3. PICK q : q = Piece(k)' /\ PairOK(p, q)
        <4>1. CASE k \in 1 .. Size
          BY <1>1, <2>1, <3>1, <3>2, <4>1, Zenon DEF WorkInv, AllPairs
        <4>2. CASE Piece(k)' = x
          BY <3>2, <4>2 DEF Behind
        <4> QED BY <1>1, <4>1, <4>2
      <3>4. PairOK(p, q)'
        BY <3>3, Zenon DEF PairOK, Current
      <3> QED BY <3>2, <3>3, <3>4
    <2> QED BY <2>1 DEF AllPairs
  <1>4. AllLow'
    <2>1. ASSUME NEW k \in 1 .. Size', k = 1 => out_pc' \notin {"data", "pop"} PROVE LowOK(Piece(k))'
      <3>1. PICK p \in Pieces : p = Piece(k)' /\ LowOK(p)
        <4>1. CASE k \in 1 .. Size
          BY <1>1, <2>1, <4>1 DEF WorkInv, AllLow
        <4>2. CASE Piece(k)' = x
          BY <4>2
        <4> QED BY <1>1, <4>1, <4>2, Zenon
      <3>2. p.conn.slot \in Slots
        BY DEF Pieces, Ids
      <3>3. LowOK(p)'
        BY <3>1, <3>2, Zenon DEF LowOK, Current
      <3> QED BY <3>1, <3>3
    <2> QED BY <2>1 DEF AllLow
  <1>5. AllCovered'
    <2>1. ASSUME NEW s \in Slots, Echoing(s)', NEW b \in (Len(echoed'[s]) + 1) .. received'[s]
          PROVE  \E k \in 1 .. Size' : Covers(Piece(k), s, b)'
      <3>1. Echoing(s) /\ b \in (Len(echoed[s]) + 1) .. received'[s] /\ b \in Int
        BY <2>1
      <3>2. CASE b \in (Len(echoed[s]) + 1) .. received[s]
        <4>1. PICK k \in 1 .. Size : Covers(Piece(k), s, b)
          BY <3>1, <3>2, Zenon DEF WorkInv, AllCovered
        <4>2. PICK p : p = Piece(k) /\ p = Piece(k)'
          BY <1>1
        <4>3. Covers(p, s, b)'
          BY <4>1, <4>2, Zenon DEF Covers, Current
        <4>4. Covers(Piece(k), s, b)' /\ k \in 1 .. Size'
          BY <1>1, <4>2, <4>3
        <4> QED BY <4>4
      <3>3. CASE Covers(x, s, b)
        <4>1. PICK k \in 1 .. Size' : k = Size + 1
          BY <1>1
        <4>2. Piece(k)' = x
          BY <1>1, <4>1
        <4>3. Covers(x, s, b)'
          BY <3>3, Zenon DEF Covers, Current
        <4>4. Covers(Piece(k), s, b)'
          BY <4>2, <4>3
        <4> QED BY <4>4, Zenon
      <3> QED BY <2>1, <3>1, <3>2, <3>3, Zenon DEF Brings
    <2> QED BY <2>1 DEF AllCovered
  <1>6. FrontInv'
    <2>1. ASSUME Busy' PROVE FrontOK(Piece(1))'
      <3>1. Busy /\ 1 \in 1 .. Size
        BY <2>1, FrontPiece, Zenon DEF Busy
      <3>2. PICK p \in Pieces : p = Piece(1) /\ p = Piece(1)' /\ FrontOK(p)
        BY <1>1, <3>1 DEF WorkInv, FrontInv
      <3>3. p.conn.slot \in Slots
        BY DEF Pieces, Ids
      <3>4. FrontOK(p)'
        BY <3>2, <3>3, Zenon DEF FrontOK, Current
      <3> QED BY <3>2, <3>4
    <2> QED BY <2>1 DEF FrontInv
  <1> QED BY <1>2, <1>3, <1>4, <1>5, <1>6, Zenon

\* The events of a connection that is not over, one longer.
LEMMA LogGrows ==
  ASSUME NEW l \in Seq(Reports), NEW type \in {"accepted", "peer_closed", "closed", "reset"}, NEW fin,
         Conn!MayFollow(type, l, fin)
  PROVE  /\ Append(l, type) \in Seq(Reports) /\ Append(l, type) # <<>> /\ ~Conn!Ended(l)
         /\ l # <<>> => Append(l, type) # <<"accepted">>
         /\ type = "reset" => Conn!Ended(Append(l, type))
         /\ type = "peer_closed" => l # <<>>
         /\ Append(l, type) = <<"accepted", "peer_closed">> => l = <<"accepted">>
  <1>1. Len(l) \in Nat /\ (l # <<>> => Len(l) >= 1) /\ Len(<<>>) = 0
    OBVIOUS
  <1>2. /\ Append(l, type) \in Seq(Reports) /\ Len(Append(l, type)) = Len(l) + 1
        /\ Append(l, type)[Len(l) + 1] = type
    BY DEF Reports
  <1>3. Append(l, type) # <<>>
    BY <1>1, <1>2
  <1>4. l # <<>> => Append(l, type) # <<"accepted">>
    <2>1. Len(<<"accepted">>) = 1
      OBVIOUS
    <2> QED BY <1>1, <1>2, <2>1
  <1>5. /\ type = "accepted" => l = <<>>
        /\ type = "peer_closed" => l = <<"accepted">>
        /\ type \in {"closed", "reset"} => ~Conn!Ended(l)
    BY Zenon DEF Conn!MayFollow
  <1>6. ~Conn!Ended(<<"accepted">>) /\ <<"accepted">> # <<>>
    BY DEF Conn!Ended
  <1>7. ~Conn!Ended(l)
    BY <1>5, <1>6 DEF Conn!Ended
  <1>8. type = "reset" => Conn!Ended(Append(l, type))
    BY <1>2, <1>3 DEF Conn!Ended
  <1>9. ASSUME Append(l, type) = <<"accepted", "peer_closed">> PROVE l = <<"accepted">>
    <2>1. Len(<<"accepted", "peer_closed">>) = 2 /\ <<"accepted", "peer_closed">>[2] = "peer_closed"
      OBVIOUS
    <2>2. Len(l) + 1 = 2
      BY <1>2, <1>9, <2>1
    <2>3. type = "peer_closed"
      BY <1>2, <1>9, <2>1, <2>2, Zenon
    <2> QED BY <1>5, <2>3
  <1> QED BY <1>2, <1>3, <1>4, <1>5, <1>6, <1>7, <1>8, <1>9, Zenon

\* An event that is not data.
LEMMA ReportWork ==
  ASSUME RingInv, WorkInv, NEW s \in Slots, NEW type \in {"accepted", "peer_closed", "closed", "reset"},
         PollReport(s, type)
  PROVE  RingInv' /\ WorkInv'
  <1>1. /\ in_pc = "poll" /\ in_use[s] /\ Conn!MayFollow(type, log[s], finished[s])
        /\ log' = [log EXCEPT ![s] = Append(@, type)] /\ events' = Append(events, Event(type, s, 0, 0))
        /\ UNCHANGED <<in_use, finished, released, gen, received, ringVars, overflow, in_pc, stop, echoed, closes,
                       out_pc, sent, released_gen>>
    BY Zenon DEF PollReport, Polling, Conn!Report, outVars, history
  <1>2. gen[s] \in Nat /\ log[s] \in Seq(Reports)
    BY DEF WorkInv, WorkType
  <1>3. PICK ev \in Events : ev = Event(type, s, 0, 0)
    BY <1>2, Zenon DEF Event, Events, Ids, Reports
  <1>4. RingInv' /\ Added(AsItem(ev))
    BY <1>1, <1>3, PollRing, Zenon
  <1>5. PICK x \in Pieces : x = AsItem(ev)
    BY Zenon DEF AsItem, Events, Pieces
  <1>6. x.what = type /\ x.what # "data" /\ x.conn.slot = s /\ x.conn.generation = gen[s] /\ x.len = 0
    BY <1>3, <1>5, Zenon DEF AsItem, Event
  <1>7. /\ log'[s] \in Seq(Reports) /\ log'[s] # <<>> /\ ~Conn!Ended(log[s])
        /\ log[s] # <<>> => log'[s] # <<"accepted">>
        /\ type = "reset" => Conn!Ended(log'[s])
        /\ type = "peer_closed" => log[s] # <<>>
        /\ log'[s] = <<"accepted", "peer_closed">> => log[s] = <<"accepted">>
    <2>1. log'[s] = Append(log[s], type)
      BY <1>1, Zenon DEF WorkInv, WorkType
    <2> QED BY <1>1, <1>2, <2>1, LogGrows, Zenon
  <1>8. \A t \in Slots : t # s => log'[t] = log[t]
    BY <1>1, Zenon DEF WorkInv, WorkType
  <1>9. WorkType'
    <2>1. log' \in [Slots -> Seq(Reports)]
      BY <1>1, <1>7 DEF WorkInv, WorkType
    <2> QED BY <1>1, <2>1, Zenon DEF WorkInv, WorkType
  <1>10. Kept
    <2>1. ASSUME NEW p \in Pieces, PieceOK(p) PROVE PieceOK(p)'
      <3>1. p.conn.slot \in Slots
        BY DEF Pieces, Ids
      <3> QED BY <1>1, <1>7, <1>8, <2>1, <3>1, Zenon DEF PieceOK, Current
    <2> QED BY <2>1 DEF Kept
  <1>11. PieceOK(x)'
    BY <1>1, <1>6, <1>7, Zenon DEF PieceOK, Current
  <1>12. Behind(x) /\ LowOK(x)
    BY <1>6, Zenon DEF Behind, PairOK, LowOK, Current
  <1>13. Brings(x)
    BY <1>1, Zenon DEF Brings
  <1>14. \A t \in Slots : Echoing(t)' => Echoing(t)
    BY <1>1, <1>7, <1>8, Zenon DEF Echoing
  <1>15. AllPieces' /\ AllPairs' /\ AllLow' /\ AllCovered' /\ FrontInv'
    BY <1>1, <1>4, <1>5, <1>10, <1>11, <1>12, <1>13, <1>14, Grown, Zenon
  <1>16. SlotInv'
    <2>1. ASSUME NEW t \in Slots PROVE SlotOK(t)'
      <3>1. SlotOK(t)
        BY DEF WorkInv, SlotInv
      <3>2. CASE t = s
        BY <1>1, <1>7, <3>1, <3>2, Zenon DEF SlotOK
      <3>3. CASE t # s
        BY <1>1, <1>8, <3>1, <3>3, Zenon DEF SlotOK
      <3> QED BY <3>2, <3>3
    <2> QED BY <2>1 DEF SlotInv
  <1> QED BY <1>4, <1>9, <1>15, <1>16 DEF WorkInv

\* Data arrives: the bytes after those received.
LEMMA DataWork ==
  ASSUME RingInv, WorkInv, NEW s \in Slots, NEW n \in 1 .. MaxBytes, PollData(s, n)
  PROVE  RingInv' /\ WorkInv'
  <1>1. /\ in_pc = "poll" /\ in_use[s] /\ log[s] = <<"accepted">>
        /\ received' = [received EXCEPT ![s] = @ + n] /\ events' = Append(events, Event("data", s, received[s] + 1, n))
        /\ UNCHANGED <<in_use, log, finished, released, gen, ringVars, overflow, in_pc, stop, echoed, closes,
                       out_pc, sent, released_gen>>
    BY Zenon DEF PollData, Polling, connVars, outVars, history
  <1>2. gen[s] \in Nat /\ received[s] \in Nat /\ n \in Nat \ {0}
    BY EchoAssumption DEF WorkInv, WorkType
  <1>3. PICK ev \in Events : ev = Event("data", s, received[s] + 1, n)
    <2>1. received[s] + 1 \in Nat /\ n \in Nat /\ [slot |-> s, generation |-> gen[s]] \in Ids
      BY <1>2 DEF Ids
    <2>2. "data" \in Reports
      BY Zenon DEF Reports
    <2>3. Event("data", s, received[s] + 1, n) \in Events
      BY <2>1, <2>2, Zenon DEF Event, Events
    <2> QED BY <2>3, Zenon
  <1>4. RingInv' /\ Added(AsItem(ev))
    BY <1>1, <1>3, PollRing, Zenon
  <1>5. PICK x \in Pieces : x = AsItem(ev)
    BY Zenon DEF AsItem, Events, Pieces
  <1>6. /\ x.what = "data" /\ x.conn.slot = s /\ x.conn.generation = gen[s]
        /\ x.from = received[s] + 1 /\ x.len = n
    BY <1>3, <1>5, Zenon DEF AsItem, Event
  <1>7. /\ received'[s] = received[s] + n /\ \A t \in Slots : t # s => received'[t] = received[t]
        /\ received' \in [Slots -> Nat] /\ n \in Nat
        /\ received[s] <= received'[s] /\ \A a \in Nat : a <= received[s] => a <= received'[s]
    <2>1. n \in Nat
      BY <1>2, Zenon
    <2>2. /\ received[s] + n \in Nat /\ received[s] <= received[s] + n
          /\ \A a \in Nat : a <= received[s] => a <= received[s] + n
      BY <1>2, <2>1, MoreBytes, Zenon
    <2>3. received'[s] = received[s] + n
      BY <1>1, Zenon DEF WorkInv, WorkType
    <2> QED BY <1>1, <2>1, <2>2, <2>3, Zenon DEF WorkInv, WorkType
  <1>8. WorkType'
    BY <1>1, <1>7, Zenon DEF WorkInv, WorkType
  <1>9. log[s] # <<>> /\ ~Conn!Ended(log[s])
    <2>1. log[s] = <<"accepted">>
      BY <1>1, Zenon
    <2> QED BY <2>1 DEF Conn!Ended
  <1>10. Kept
    <2>1. ASSUME NEW p \in Pieces, PieceOK(p) PROVE PieceOK(p)'
      <3>1. p.conn.slot \in Slots /\ p.from \in Nat /\ p.len \in Nat
        BY DEF Pieces, Ids
      <3>2. received[p.conn.slot] \in Nat /\ received'[p.conn.slot] \in Nat
            /\ received[p.conn.slot] <= received'[p.conn.slot]
        <4>1. received[p.conn.slot] \in Nat
          BY <3>1, Zenon DEF WorkInv, WorkType
        <4>2. CASE p.conn.slot = s
          BY <1>7, <4>1, <4>2, Zenon
        <4>3. CASE p.conn.slot # s
          BY <1>7, <3>1, <4>1, <4>3, MoreBytes, Zenon
        <4> QED BY <4>1, <4>2, <4>3, Zenon
      <3>3. p.from + p.len <= received[p.conn.slot] + 1 => p.from + p.len <= received'[p.conn.slot] + 1
        BY <3>1, <3>2
      <3> QED BY <1>1, <2>1, <3>3, Zenon DEF PieceOK, Current
    <2> QED BY <2>1 DEF Kept
  <1>11. PieceOK(x)'
    <2>1. x.from >= 1 /\ x.len >= 1 /\ x.from + x.len <= received'[s] + 1
      BY <1>2, <1>6, <1>7, LastBytes, Zenon
    <2> QED BY <1>1, <1>6, <1>9, <2>1, Zenon DEF PieceOK, Current
  <1>12. Behind(x)
    <2>1. ASSUME NEW p \in Pieces, PieceOK(p) PROVE PairOK(p, x)
      BY <1>1, <1>6, <1>9, <2>1, Zenon DEF PieceOK, PairOK, Current
    <2> QED BY <2>1 DEF Behind
  <1>13. LowOK(x)
    <2>1. Len(echoed[s]) \in Nat /\ Len(echoed[s]) <= received[s]
      BY DEF WorkInv, WorkType, SlotInv, SlotOK
    <2> QED BY <1>2, <1>6, <2>1, LastBytes, Zenon DEF LowOK
  <1>14. Brings(x)
    <2>1. ASSUME NEW t \in Slots, NEW b \in Int, b \in (Len(echoed[t]) + 1) .. received'[t]
          PROVE  b \in (Len(echoed[t]) + 1) .. received[t] \/ Covers(x, t, b)
      <3>1. CASE t # s
        BY <1>7, <2>1, <3>1, Zenon
      <3>2. CASE t = s
        <4>1. Len(echoed[s]) \in Nat
          BY DEF WorkInv, WorkType
        <4>2. b \in (Len(echoed[s]) + 1) .. (received[s] + n)
          BY <1>7, <2>1, <3>2, Zenon
        <4>3. b \in (Len(echoed[s]) + 1) .. received[s] \/ (received[s] + 1 <= b /\ b < (received[s] + 1) + n)
          BY <1>2, <1>7, <4>1, <4>2, NewByte, Zenon
        <4> QED BY <1>6, <3>2, <4>3, Zenon DEF Covers, Current
      <3> QED BY <3>1, <3>2, Zenon
    <2> QED BY <2>1, Zenon DEF Brings
  <1>15. \A t \in Slots : Echoing(t)' => Echoing(t)
    BY <1>1 DEF Echoing
  <1>16. AllPieces' /\ AllPairs' /\ AllLow' /\ AllCovered' /\ FrontInv'
    BY <1>1, <1>4, <1>5, <1>10, <1>11, <1>12, <1>13, <1>14, <1>15, Grown, Zenon
  <1>17. SlotInv'
    <2>1. ASSUME NEW t \in Slots PROVE SlotOK(t)'
      <3>1. SlotOK(t) /\ Len(echoed[t]) \in Nat
        BY DEF WorkInv, WorkType, SlotInv
      <3>2. CASE t = s
        <4>1. Len(echoed[t]) <= received'[t]
          BY <1>7, <3>1, <3>2, Zenon DEF SlotOK
        <4>2. ~finished[t]
          BY <1>1, <3>1, <3>2, Zenon DEF SlotOK
        <4> QED BY <1>1, <3>1, <4>1, <4>2, Zenon DEF SlotOK
      <3>3. CASE t # s
        BY <1>1, <1>7, <3>1, <3>3, Zenon DEF SlotOK
      <3> QED BY <3>2, <3>3
    <2> QED BY <2>1 DEF SlotInv
  <1> QED BY <1>4, <1>8, <1>16, <1>17 DEF WorkInv

-----------------------------------------------------------------------------
\* What holds throughout

\* Nothing is under way at the start.
LEMMA InitWork == ASSUME Init PROVE RingInv /\ WorkInv
  <1>1. /\ head = 0 /\ tail = 0 /\ overflow = <<>> /\ events = <<>> /\ in_pc = "top" /\ out_pc = "top"
        /\ items = [i \in 0 .. (Capacity - 1) |-> NoItem] /\ sent = 0 /\ stop = FALSE
    BY Zenon DEF Init
  <1>2. Count = 0 /\ Size = 0
    <2>1. (0 - 0) % CounterMod = 0
      BY Sizes
    <2>2. Len(overflow) = 0 /\ Len(events) = 0
      BY <1>1
    <2> QED BY <1>1, <2>1, <2>2 DEF Count, Size
  <1>3. RingInv
    <2>1. RingType
      BY <1>1, Sizes DEF RingType
    <2> QED BY <1>1, <1>2, <2>1, Sizes DEF RingInv, Busy
  <1>4. WorkType
    <2>1. /\ in_use \in [Slots -> BOOLEAN] /\ finished \in [Slots -> BOOLEAN] /\ released \in [Slots -> BOOLEAN]
          /\ log \in [Slots -> Seq(Reports)]
      <3>1. <<>> \in Seq(Reports)
        OBVIOUS
      <3> QED BY <3>1, Zenon DEF Init, Conn!Init
    <2>2. /\ gen \in [Slots -> Nat] /\ received \in [Slots -> Nat] /\ released_gen \in [Slots -> Nat]
          /\ closes \in [Slots -> Nat] /\ echoed \in [Slots -> Seq(Nat)]
      BY DEF Init
    <2> QED BY <1>1, <2>1, <2>2, Zenon DEF WorkType
  <1>5. AllPieces /\ AllPairs /\ AllLow
    BY <1>2 DEF AllPieces, AllPairs, AllLow
  <1>6. ASSUME NEW s \in Slots
        PROVE  /\ echoed[s] = <<>> /\ received[s] = 0 /\ closes[s] = 0 /\ ~released[s] /\ ~in_use[s]
               /\ log[s] = <<>> /\ ~finished[s]
    BY Zenon DEF Init, Conn!Init
  <1>7. AllCovered
    <2>1. ASSUME NEW s \in Slots PROVE (Len(echoed[s]) + 1) .. received[s] = {}
      <3>1. Len(echoed[s]) = 0 /\ received[s] = 0
        BY <1>6
      <3> QED BY <3>1
    <2> QED BY <2>1, Zenon DEF AllCovered
  <1>8. FrontInv
    BY <1>1 DEF FrontInv, Busy
  <1>9. SlotInv
    <2>1. ASSUME NEW s \in Slots PROVE SlotOK(s)
      <3>1. Len(echoed[s]) <= received[s] /\ 1 .. Len(echoed[s]) = {} /\ closes[s] <= 1 /\ closes[s] # 1
        <4>1. echoed[s] = <<>> /\ received[s] = 0 /\ closes[s] = 0
          BY <1>6, Zenon
        <4> QED BY <4>1
      <3> QED BY <1>6, <3>1, Zenon DEF SlotOK
    <2> QED BY <2>1, Zenon DEF SlotInv
  <1> QED BY <1>3, <1>4, <1>5, <1>7, <1>8, <1>9 DEF WorkInv

\* Every step of the two threads and of the network keeps the work in order.
LEMMA NextWork == ASSUME RingInv, WorkInv, [Next]_vars PROVE RingInv' /\ WorkInv'
  <1>1. CASE QueueStep
    BY <1>1, QueueWork
  <1>2. CASE \E s \in Slots : PollBegin(s) \/ PollRecycle(s)
    BY <1>2, BeginWork, RecycleWork
  <1>3. CASE \E s \in Slots, type \in {"accepted", "peer_closed", "closed", "reset"} : PollReport(s, type)
    BY <1>3, ReportWork
  <1>4. CASE \E s \in Slots, n \in 1 .. MaxBytes : PollData(s, n)
    BY <1>4, DataWork
  <1>5. CASE \E n \in 1 .. MaxWindow : SendData(n)
    BY <1>5, SendWork
  <1>6. CASE OutboundTop \/ DataDone \/ close_once \/ CloseFinish \/ CloseRelease \/ Pop \/ Stop
    BY <1>6, TopWork, DoneWork, CloseWork, FinishWork, ReleaseWork, PopWork, StopWork
  <1> QED BY <1>1, <1>2, <1>3, <1>4, <1>5, <1>6, Zenon DEF Next, Network, Inbound, Outbound, QueueStep

\* The ring of items between the two threads never gives a cell to both, and what is in
\* it, behind it in the overflow queue and in the batch of events makes up, in order, what
\* is still to be echoed.
THEOREM WorkHolds == Spec => [](RingInv /\ WorkInv)
  <1>1. Init => RingInv /\ WorkInv
    BY InitWork
  <1>2. RingInv /\ WorkInv /\ [Next]_vars => (RingInv /\ WorkInv)'
    BY NextWork
  <1> QED BY <1>1, <1>2, PTL DEF Spec

\* close_once asks at most once for each connection (echo_server.cpp, close_once): when a
\* FIN is followed by a reset, the generation kept in released_gen_ stops the second call.
THEOREM ClosedOnceHolds == Spec => []ClosedOnce
  <1>1. RingInv /\ WorkInv => ClosedOnce
    BY Zenon DEF WorkInv, SlotInv, SlotOK, ClosedOnce
  <1> QED BY <1>1, WorkHolds, PTL

\* What is echoed is, byte by byte, a prefix of what was received on that connection, for
\* any ring, batch, window and number of connections.
THEOREM EchoedInOrderHolds == Spec => []EchoedInOrder
  <1>1. RingInv /\ WorkInv => EchoedInOrder
    BY Zenon DEF WorkInv, SlotInv, SlotOK, EchoedInOrder
  <1> QED BY <1>1, WorkHolds, PTL

\* Our direction is finished after the peer's FIN only when everything the peer sent is
\* echoed: the FIN's item is behind all the data in the queue.
THEOREM EchoedBeforeCloseHolds == Spec => []EchoedBeforeClose
  <1>1. RingInv /\ WorkInv => EchoedBeforeClose
    BY Zenon DEF WorkInv, SlotInv, SlotOK, EchoedBeforeClose
  <1> QED BY <1>1, WorkHolds, PTL
=============================================================================
