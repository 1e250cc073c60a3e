-------------------------- MODULE FlowTableProofs --------------------------
(***************************************************************************)
(* For any table size, any hash function, any keys and any sequence of     *)
(* calls: find() returns what the map has, so backward-shift deletion      *)
(* never strands an entry, across the end of the array included.           *)
(***************************************************************************)
EXTENDS FlowTable, FiniteSetTheorems, TLAPS

\* Cell c is met on the way from a to b, b itself excluded.
Between(a, c, b) == IF a <= b THEN a <= c /\ c < b ELSE a <= c \/ c < b

\* While erase() shifts, the hole is no entry and the key being erased no key.
LiveCells == Cells \ (IF pc = "shift" THEN {i} ELSE {})
Stored == {k \in Keys : map[k] # npos}
LiveKeys == Stored \ (IF pc = "shift" THEN {key} ELSE {})

\* No empty cell between an entry's home cell and the entry.
NoGap ==
  \A c, b \in Cells :
    entries[c].key # 0 /\ Between(home[entries[c].key], b, c) => entries[b].key # 0

Unique ==
  \A c, d \in LiveCells : entries[c].key # 0 /\ entries[c].key = entries[d].key => c = d

Exact ==
  /\ \A c \in LiveCells :
       entries[c].key # 0 => entries[c].key \in LiveKeys /\ map[entries[c].key] = entries[c].value
  /\ \A k \in LiveKeys : \E c \in LiveCells : entries[c].key = k

\* A probe has passed over entries of other keys only.
Probed ==
  pc \in {"find", "insert", "erase"} =>
    \A b \in Cells : Between(home[key], b, i) => entries[b].key \notin {0, key}

\* From the hole to j the run has no gap, and no entry in it was hashed to the hole or
\* before it.
Shifted ==
  pc = "shift" =>
    /\ i # j
    /\ \A b \in Cells : Between(i, b, j) => entries[b].key # 0
    /\ \A c \in Cells : Between(i, c, j) /\ c # i => ~Between(home[entries[c].key], i, c)

\* There is always an empty cell.
Room ==
  /\ IsFiniteSet(Stored) /\ Cardinality(Stored) <= Capacity
  /\ pc = "insert" => key \in Stored \/ Cardinality(Stored) < Capacity
  /\ \E e \in Cells : entries[e].key = 0

TableInv ==
  TypeOK /\ NoGap /\ Unique /\ Exact /\ Probed /\ Shifted /\ Room /\ FindIsMap

-----------------------------------------------------------------------------
\* The circular order of cells

\* The table has at least two cells.
LEMMA SizeFact == Size \in Nat /\ Size >= 2
  BY TableAssumption

\* (i + 1) & mask_ is another cell, and the one after i.
LEMMA NextCellFacts ==
  ASSUME NEW c \in Cells
  PROVE  /\ NextCell(c) \in Cells /\ NextCell(c) # c
         /\ \A b \in Cells : Between(c, b, NextCell(c)) => b = c
         /\ \A a, b \in Cells : Between(a, b, NextCell(c)) => Between(a, b, c) \/ b = c
  BY SizeFact DEF Cells, NextCell, Between

\* Nothing lies between a cell and itself.
LEMMA BetweenSelf ==
  ASSUME NEW a \in Cells, NEW b \in Cells
  PROVE  ~Between(a, b, a)
  BY SizeFact DEF Cells, Between

\* Of two cells one comes first.
LEMMA BetweenTotal ==
  ASSUME NEW a \in Cells, NEW c \in Cells, NEW d \in Cells, c # d
  PROVE  Between(a, c, d) \/ Between(a, d, c)
  BY SizeFact DEF Cells, Between

\* A walk that is about to come back to its first cell has met all others.
LEMMA FullCircle ==
  ASSUME NEW a \in Cells, NEW c \in Cells, NextCell(c) = a, NEW e \in Cells
  PROVE  Between(a, e, c) \/ e = c
  BY SizeFact DEF Cells, NextCell, Between

\* What stays decides: an entry that stays was hashed behind the hole, one that moves
\* was hashed to the hole or before it.
LEMMA StaysFacts ==
  ASSUME NEW a \in Cells, NEW c \in Cells, a # c, home[entries[c].key] \in Cells
  PROVE  /\ stays(a, c) => ~Between(home[entries[c].key], a, c)
         /\ ~stays(a, c) => \A b \in Cells : Between(home[entries[c].key], b, a)
                                               => Between(home[entries[c].key], b, c)
  BY SizeFact DEF Cells, stays, Between

\* A probe over the hole to an entry behind the run meets the empty cell that ends it.
LEMMA BehindRun ==
  ASSUME NEW a \in Cells, NEW e \in Cells, NEW c \in Cells, NEW h \in Cells,
         a # e, c # e, ~Between(a, c, e), Between(h, a, c)
  PROVE  Between(h, e, c)
  BY SizeFact DEF Cells, Between

-----------------------------------------------------------------------------
\* Every step keeps the invariant

\* A table of unique keys, no more than Capacity of them, has an empty cell: all others
\* would share Size > Capacity cells.
LEMMA EmptyCell ==
  ASSUME NEW S, IsFiniteSet(S), Cardinality(S) <= Capacity, NEW f \in [Cells -> S \cup {0}],
         \A c, d \in Cells : f[c] # 0 /\ f[c] = f[d] => c = d
  PROVE  \E e \in Cells : f[e] = 0
<1> SUFFICES ASSUME \A e \in Cells : f[e] # 0 PROVE FALSE
  OBVIOUS
<1>1. IsFiniteSet(Cells) /\ Cardinality(Cells) = Size
  BY SizeFact, FS_Interval DEF Cells
<1>2. f \in [Cells -> S]
  OBVIOUS
<1>3. Cardinality(S) \in Nat
  BY FS_CardinalityType
<1>4. Cardinality(Cells) > Cardinality(S)
  BY <1>1, <1>3, TableAssumption
<1>5. \E c, d \in Cells : c # d /\ f[c] = f[d]
  BY <1>1, <1>2, <1>4, FS_PigeonHole
<1> QED
  BY <1>5

\* The constructor's table.
LEMMA InitInv == Init => TableInv
<1> SUFFICES ASSUME Init PROVE TableInv
  OBVIOUS
<1> USE DEF Init
<1>1. TypeOK
  BY SizeFact, TableAssumption DEF TypeOK, Cells, Empty
<1>2. \A c \in Cells : entries[c].key = 0
  BY DEF Empty
<1>3. Stored = {}
  BY DEF Stored
<1>4. NoGap /\ Unique /\ Exact /\ Probed /\ Shifted /\ FindIsMap
  BY <1>2, <1>3 DEF NoGap, Unique, Exact, Probed, Shifted, FindIsMap, LiveCells, LiveKeys
<1>5. IsFiniteSet(Stored) /\ Cardinality(Stored) = 0 /\ 0 \in Cells
  BY <1>3, FS_EmptySet, SizeFact DEF Cells
<1>6. Room
  BY <1>2, <1>5, TableAssumption DEF Room
<1> QED
  BY <1>1, <1>4, <1>6 DEF TableInv

\* A call begins at its key's home cell: it has passed over nothing yet.
LEMMA CallInv == TableInv /\ Call => TableInv'
<1> SUFFICES ASSUME TableInv, NEW call \in {"find", "erase", "insert"}, NEW k \in Keys,
                    NEW v \in Values \cup {0}, Begin(call, k, v),
                    call = "insert" => InsertAllowed(k) /\ v \in Values
             PROVE  TableInv'
  BY DEF Call
<1> USE DEF Begin
<1>1. TypeOK'
  BY DEF TableInv, TypeOK
<1>2. LiveCells' = LiveCells /\ Stored' = Stored /\ LiveKeys' = LiveKeys
  BY DEF LiveCells, LiveKeys, Stored
<1>3. NoGap' /\ Unique' /\ Exact' /\ Shifted' /\ FindIsMap'
  BY <1>2 DEF TableInv, NoGap, Unique, Exact, Shifted, FindIsMap
<1>4. Probed'
  <2>1. home[k] \in Cells /\ i' = home[k] /\ key' = k /\ home' = home
    BY DEF TableInv, TypeOK
  <2> QED
    BY <2>1, BetweenSelf DEF Probed
<1>5. Room'
  BY <1>2 DEF TableInv, Room, InsertAllowed, Stored
<1> QED
  BY <1>1, <1>3, <1>4, <1>5 DEF TableInv

\* The loops walk on over entries of other keys.
LEMMA ProbeInv == TableInv /\ Probe => TableInv'
<1> SUFFICES ASSUME TableInv, Probe PROVE TableInv'
  OBVIOUS
<1> USE DEF Probe
<1>1. TypeOK'
  BY NextCellFacts DEF TableInv, TypeOK
<1>2. LiveCells' = LiveCells /\ Stored' = Stored /\ LiveKeys' = LiveKeys
  BY DEF LiveCells, LiveKeys, Stored
<1>3. NoGap' /\ Unique' /\ Exact' /\ Shifted' /\ FindIsMap' /\ Room'
  BY <1>2 DEF TableInv, NoGap, Unique, Exact, Shifted, FindIsMap, Room
<1>4. Probed'
  <2>1. i \in Cells /\ home[key] \in Cells
    BY DEF TableInv, TypeOK
  <2>2. \A b \in Cells : Between(home[key], b, NextCell(i)) => Between(home[key], b, i) \/ b = i
    BY <2>1, NextCellFacts
  <2> QED
    BY <2>2 DEF TableInv, Probed
<1> QED
  BY <1>1, <1>3, <1>4 DEF TableInv

\* The probe of a key that meets an empty cell: the key is not in the table.
LEMMA ProbeEndsAbsent ==
  ASSUME TableInv, pc \in {"find", "insert", "erase"}, entries[i].key = 0
  PROVE  key \notin Stored
<1> SUFFICES ASSUME key \in Stored PROVE FALSE
  OBVIOUS
<1>1. i \in Cells /\ key \in Keys /\ home[key] \in Cells /\ 0 \notin Keys
  BY TableAssumption DEF TableInv, TypeOK
<1>2. PICK c \in Cells : entries[c].key = key
  BY DEF TableInv, Exact, LiveKeys, LiveCells
<1>3. Between(home[key], c, i) \/ Between(home[key], i, c)
  BY <1>1, <1>2, BetweenTotal
<1>4. ~Between(home[key], c, i)
  BY <1>2 DEF TableInv, Probed
<1>5. ~Between(home[key], i, c)
  BY <1>1, <1>2 DEF TableInv, NoGap
<1> QED
  BY <1>3, <1>4, <1>5

\* find() returns the value of the entry it met, or npos.
LEMMA FindInv == TableInv /\ Find => TableInv'
<1> SUFFICES ASSUME TableInv, Find PROVE TableInv'
  OBVIOUS
<1> USE DEF Find
<1>1. i \in Cells /\ key \in Keys /\ 0 \notin Keys /\ npos \notin Values
  BY TableAssumption DEF TableInv, TypeOK
<1>2. result' = map[key]
  <2>1. CASE entries[i].key = key
    <3>1. i \in LiveCells /\ entries[i].key # 0
      BY <2>1, <1>1 DEF LiveCells
    <3> QED
      BY <2>1, <3>1 DEF TableInv, Exact
  <2>2. CASE entries[i].key = 0
    BY <2>2, <1>1, ProbeEndsAbsent DEF Stored
  <2> QED
    BY <2>1, <2>2
<1>3. TypeOK'
  BY <1>1, <1>2 DEF TableInv, TypeOK
<1>4. LiveCells' = LiveCells /\ Stored' = Stored /\ LiveKeys' = LiveKeys
  BY DEF LiveCells, LiveKeys, Stored
<1>5. NoGap' /\ Unique' /\ Exact' /\ Shifted' /\ Probed' /\ Room' /\ FindIsMap'
  BY <1>2, <1>4 DEF TableInv, NoGap, Unique, Exact, Shifted, Probed, FindIsMap, Room
<1> QED
  BY <1>3, <1>5 DEF TableInv

\* A call returns that has changed nothing.
LEMMA ReturnInv == TableInv /\ (FindReturn \/ EraseAbsent) => TableInv'
<1> SUFFICES ASSUME TableInv, FindReturn \/ EraseAbsent PROVE TableInv'
  OBVIOUS
<1> USE DEF FindReturn, EraseAbsent, Return
<1>1. TypeOK'
  BY SizeFact DEF TableInv, TypeOK, Cells
<1>2. LiveCells' = LiveCells /\ Stored' = Stored /\ LiveKeys' = LiveKeys
  BY DEF LiveCells, LiveKeys, Stored
<1>3. NoGap' /\ Unique' /\ Exact' /\ Shifted' /\ Probed' /\ FindIsMap'
  BY <1>2 DEF TableInv, NoGap, Unique, Exact, Shifted, Probed, FindIsMap
<1>4. Room'
  BY <1>2 DEF TableInv, Room
<1> QED
  BY <1>1, <1>3, <1>4 DEF TableInv

\* insert() puts the key in the first cell its probe finds empty, or over its old entry.
LEMMA InsertInv == TableInv /\ Insert => TableInv'
<1> SUFFICES ASSUME TableInv, Insert PROVE TableInv'
  OBVIOUS
<1> USE DEF Insert, Return
<1>1. /\ i \in Cells /\ key \in Keys /\ 0 \notin Keys
      /\ value \in Values /\ npos \notin Values /\ value # npos
      /\ pc = "insert" /\ pc' = "idle" /\ home' = home
      /\ entries \in [Cells -> [key : Keys \cup {0}, value : Values \cup {0}]]
  BY TableAssumption DEF TableInv, TypeOK
<1>2. /\ entries'[i].key = key /\ entries'[i].value = value
      /\ \A c \in Cells : c # i => entries'[c] = entries[c]
  BY <1>1
<1>3. TypeOK'
  BY <1>1, SizeFact DEF TableInv, TypeOK, Cells
<1>4. LiveCells = Cells /\ LiveCells' = Cells /\ LiveKeys = Stored /\ LiveKeys' = Stored'
  BY <1>1 DEF LiveCells, LiveKeys
<1>5. /\ Stored' = Stored \cup {key} /\ map'[key] = value
      /\ \A k \in Keys : k # key => map'[k] = map[k]
  BY <1>1 DEF TableInv, TypeOK, Stored
<1>6. ASSUME NEW d \in Cells, entries[d].key = key PROVE d = i
  <2>1. d \in LiveCells /\ i \in LiveCells /\ entries[d].key # 0
    BY <1>1, <1>4, <1>6
  <2>2. key \in Stored
    BY <1>4, <1>6, <2>1 DEF TableInv, Exact
  <2>3. entries[i].key = key
    BY <1>1, <2>2, ProbeEndsAbsent
  <2> QED
    BY <1>6, <2>1, <2>3 DEF TableInv, Unique
<1>7. NoGap'
  <2> SUFFICES ASSUME NEW c \in Cells, NEW b \in Cells, entries'[c].key # 0,
                      Between(home[entries'[c].key], b, c)
               PROVE  entries'[b].key # 0
    BY <1>1 DEF NoGap
  <2>1. CASE b = i
    BY <2>1, <1>1, <1>2
  <2>2. CASE b # i /\ c = i
    BY <2>2, <1>1, <1>2 DEF TableInv, Probed
  <2>3. CASE b # i /\ c # i
    BY <2>3, <1>2 DEF TableInv, NoGap
  <2> QED
    BY <2>1, <2>2, <2>3
<1>8. Unique'
  <2> SUFFICES ASSUME NEW c \in Cells, NEW d \in Cells, entries'[c].key # 0,
                      entries'[c].key = entries'[d].key
               PROVE  c = d
    BY <1>4 DEF Unique
  <2>1. CASE c = i \/ d = i
    BY <2>1, <1>2, <1>6
  <2>2. CASE c # i /\ d # i
    BY <2>2, <1>2, <1>4 DEF TableInv, Unique
  <2> QED
    BY <2>1, <2>2
<1>9. Exact'
  <2>1. ASSUME NEW c \in Cells, entries'[c].key # 0
        PROVE  entries'[c].key \in Stored' /\ map'[entries'[c].key] = entries'[c].value
    <3>1. CASE c = i
      BY <3>1, <1>2, <1>5
    <3>2. CASE c # i
      <4>1. entries[c].key \in Stored /\ map[entries[c].key] = entries[c].value
        BY <3>2, <2>1, <1>2, <1>4 DEF TableInv, Exact
      <4>2. entries[c].key # key /\ entries[c].key \in Keys
        BY <3>2, <4>1, <1>6 DEF Stored
      <4> QED
        BY <3>2, <4>1, <4>2, <1>2, <1>5
    <3> QED
      BY <3>1, <3>2
  <2>2. ASSUME NEW k \in Stored' PROVE \E c \in Cells : entries'[c].key = k
    <3>1. CASE k = key
      BY <3>1, <1>1, <1>2
    <3>2. CASE k # key
      <4>1. PICK c \in Cells : entries[c].key = k
        BY <3>2, <1>4, <1>5 DEF TableInv, Exact
      <4>2. c # i
        <5> SUFFICES ASSUME c = i PROVE FALSE
          OBVIOUS
        <5>1. entries[i].key = k /\ k # 0
          BY <4>1, <1>1, <1>5, <3>2 DEF Stored
        <5> QED
          BY <5>1, <3>2
      <4> QED
        BY <4>1, <4>2, <1>2
    <3> QED
      BY <3>1, <3>2
  <2> QED
    BY <2>1, <2>2, <1>4 DEF Exact
<1>10. Room'
  <2>1. /\ IsFiniteSet(Stored) /\ Cardinality(Stored) \in Nat
        /\ Cardinality(Stored) <= Capacity /\ Capacity \in Nat
        /\ key \in Stored \/ Cardinality(Stored) < Capacity
    BY <1>1, FS_CardinalityType, TableAssumption DEF TableInv, Room
  <2>2. IsFiniteSet(Stored') /\ Cardinality(Stored') <= Capacity
    BY <2>1, <1>5, FS_AddElement
  <2> DEFINE f == [c \in Cells |-> entries'[c].key]
  <2>3. f \in [Cells -> Stored' \cup {0}]
    BY <1>9, <1>4 DEF Exact
  <2>4. \A c, d \in Cells : f[c] # 0 /\ f[c] = f[d] => c = d
    BY <1>8, <1>4 DEF Unique
  <2> HIDE DEF f
  <2>5. \E e \in Cells : f[e] = 0
    BY <2>2, <2>3, <2>4, EmptyCell
  <2>6. \E e \in Cells : entries'[e].key = 0
    BY <2>5 DEF f
  <2> QED
    BY <2>2, <2>6, <1>1 DEF Room
<1>11. Probed' /\ Shifted' /\ FindIsMap'
  BY <1>1 DEF Probed, Shifted, FindIsMap
<1> QED
  BY <1>3, <1>7, <1>8, <1>9, <1>10, <1>11 DEF TableInv

\* erase() has found the entry, which becomes the hole.
LEMMA EraseFoundInv == TableInv /\ EraseFound => TableInv'
<1> SUFFICES ASSUME TableInv, EraseFound PROVE TableInv'
  OBVIOUS
<1> USE DEF EraseFound
<1>1. i \in Cells /\ key \in Keys /\ 0 \notin Keys /\ pc = "erase" /\ pc' = "shift"
  BY TableAssumption DEF TableInv, TypeOK
<1>2. TypeOK'
  BY <1>1, NextCellFacts DEF TableInv, TypeOK
<1>3. /\ LiveCells = Cells /\ LiveCells' = Cells \ {i} /\ Stored' = Stored
      /\ LiveKeys = Stored /\ LiveKeys' = Stored \ {key}
  BY <1>1 DEF LiveCells, LiveKeys, Stored
<1>4. NoGap' /\ Unique' /\ Probed' /\ FindIsMap' /\ Room'
  BY <1>1, <1>3 DEF TableInv, NoGap, Unique, Probed, FindIsMap, Room
<1>5. \A c \in Cells : c # i => entries[c].key # key
  BY <1>1, <1>3 DEF TableInv, Unique
<1>6. Exact'
  BY <1>3, <1>5 DEF TableInv, Exact
<1>7. Shifted'
  <2>1. j' # i /\ \A b \in Cells : Between(i, b, j') => b = i
    BY <1>1, NextCellFacts
  <2> QED
    BY <2>1, <1>1 DEF Shifted
<1> QED
  BY <1>2, <1>4, <1>6, <1>7 DEF TableInv

\* The walk goes on past entry j, with the hole where it is.
LEMMA ShiftStaysInv == TableInv /\ Shift /\ stays(i, j) => TableInv'
<1> SUFFICES ASSUME TableInv, Shift, stays(i, j) PROVE TableInv'
  OBVIOUS
<1> USE DEF Shift
<1>1. /\ i \in Cells /\ j \in Cells /\ i # j /\ entries[j].key # 0
      /\ entries' = entries /\ i' = i /\ j' = NextCell(j) /\ pc = "shift" /\ pc' = "shift"
      /\ home[entries[j].key] \in Cells
  BY DEF TableInv, TypeOK, Shifted
<1>2. TypeOK'
  BY <1>1, NextCellFacts DEF TableInv, TypeOK
<1>3. LiveCells' = LiveCells /\ Stored' = Stored /\ LiveKeys' = LiveKeys
  BY <1>1 DEF LiveCells, LiveKeys, Stored
<1>4. NoGap' /\ Unique' /\ Exact' /\ Probed' /\ FindIsMap' /\ Room'
  BY <1>1, <1>3 DEF TableInv, NoGap, Unique, Exact, Probed, FindIsMap, Room
<1>5. NextCell(j) # i
  <2> SUFFICES ASSUME NextCell(j) = i PROVE FALSE
    OBVIOUS
  <2>1. PICK e \in Cells : entries[e].key = 0
    BY DEF TableInv, Room
  <2>2. Between(i, e, j) \/ e = j
    BY <1>1, FullCircle
  <2> QED
    BY <2>1, <2>2, <1>1 DEF TableInv, Shifted
<1>6. \A b \in Cells : Between(i, b, j') => Between(i, b, j) \/ b = j
  BY <1>1, NextCellFacts
<1>7. ~Between(home[entries[j].key], i, j)
  BY <1>1, StaysFacts
<1>8. Shifted'
  BY <1>1, <1>5, <1>6, <1>7 DEF TableInv, Shifted
<1> QED
  BY <1>2, <1>4, <1>8 DEF TableInv

\* Entry j moves into the hole, and its cell is the hole now.
LEMMA ShiftMovesInv == TableInv /\ Shift /\ ~stays(i, j) => TableInv'
<1> SUFFICES ASSUME TableInv, Shift, ~stays(i, j) PROVE TableInv'
  OBVIOUS
<1> USE DEF Shift
<1>1. /\ i \in Cells /\ j \in Cells /\ i # j /\ entries[j].key # 0
      /\ i' = j /\ j' = NextCell(j) /\ pc = "shift" /\ pc' = "shift" /\ home' = home
      /\ home[entries[j].key] \in Cells
      /\ entries \in [Cells -> [key : Keys \cup {0}, value : Values \cup {0}]]
  BY DEF TableInv, TypeOK, Shifted
<1>2. entries'[i] = entries[j] /\ \A c \in Cells : c # i => entries'[c] = entries[c]
  BY <1>1
<1>3. TypeOK'
  BY <1>1, NextCellFacts DEF TableInv, TypeOK
<1>4. /\ LiveCells = Cells \ {i} /\ LiveCells' = Cells \ {j}
      /\ Stored' = Stored /\ LiveKeys' = LiveKeys
  BY <1>1 DEF LiveCells, LiveKeys, Stored
<1>5. NoGap'
  <2> SUFFICES ASSUME NEW c \in Cells, NEW b \in Cells, entries'[c].key # 0,
                      Between(home[entries'[c].key], b, c)
               PROVE  entries'[b].key # 0
    BY <1>1 DEF NoGap
  <2>1. CASE b = i
    BY <2>1, <1>1, <1>2
  <2>2. CASE b # i /\ c = i
    <3>1. Between(home[entries[j].key], b, j)
      BY <2>2, <1>1, <1>2, StaysFacts
    <3> QED
      BY <3>1, <2>2, <1>1, <1>2 DEF TableInv, NoGap
  <2>3. CASE b # i /\ c # i
    BY <2>3, <1>2 DEF TableInv, NoGap
  <2> QED
    BY <2>1, <2>2, <2>3
<1>6. Unique'
  BY <1>1, <1>2, <1>4 DEF TableInv, Unique
<1>7. Exact'
  <2>1. ASSUME NEW c \in LiveCells', entries'[c].key # 0
        PROVE  entries'[c].key \in LiveKeys /\ map[entries'[c].key] = entries'[c].value
    <3>1. CASE c = i
      BY <3>1, <1>1, <1>2, <1>4 DEF TableInv, Exact
    <3>2. CASE c # i
      BY <2>1, <3>2, <1>2, <1>4 DEF TableInv, Exact
    <3> QED
      BY <3>1, <3>2
  <2>2. ASSUME NEW k \in LiveKeys PROVE \E c \in LiveCells' : entries'[c].key = k
    <3>1. PICK c \in LiveCells : entries[c].key = k
      BY DEF TableInv, Exact
    <3>2. CASE c = j
      BY <3>1, <3>2, <1>1, <1>2, <1>4
    <3>3. CASE c # j
      BY <3>1, <3>3, <1>2, <1>4
    <3> QED
      BY <3>2, <3>3
  <2> QED
    BY <2>1, <2>2, <1>4 DEF Exact
<1>8. Shifted'
  <2>1. j # j' /\ \A b \in Cells : Between(j, b, j') => b = j
    BY <1>1, NextCellFacts
  <2> QED
    BY <2>1, <1>1, <1>2 DEF Shifted
<1>9. Room'
  <2>1. PICK e \in Cells : entries[e].key = 0
    BY DEF TableInv, Room
  <2>2. Between(i, i, j)
    BY <1>1, SizeFact DEF Between, Cells
  <2>3. e # i
    BY <1>1, <2>1, <2>2 DEF TableInv, Shifted
  <2> QED
    BY <1>1, <1>2, <1>4, <2>1, <2>3 DEF TableInv, Room
<1>10. Probed' /\ FindIsMap'
  BY <1>1 DEF Probed, FindIsMap
<1> QED
  BY <1>3, <1>5, <1>6, <1>7, <1>8, <1>9, <1>10 DEF TableInv

\* The run ends at j and the hole is emptied: nothing behind it was reached over it.
LEMMA ShiftDoneInv == TableInv /\ ShiftDone => TableInv'
<1> SUFFICES ASSUME TableInv, ShiftDone PROVE TableInv'
  OBVIOUS
<1> USE DEF ShiftDone, Return
<1>1. /\ i \in Cells /\ j \in Cells /\ i # j /\ entries[j].key = 0 /\ key \in Keys
      /\ pc = "shift" /\ pc' = "idle" /\ home' = home
      /\ home \in [Keys -> Cells]
      /\ entries \in [Cells -> [key : Keys \cup {0}, value : Values \cup {0}]]
  BY DEF TableInv, TypeOK, Shifted
<1>2. entries'[i].key = 0 /\ \A c \in Cells : c # i => entries'[c] = entries[c]
  BY <1>1 DEF Empty
<1>3. TypeOK'
  BY <1>1, SizeFact DEF TableInv, TypeOK, Cells, Empty
<1>4. /\ LiveCells = Cells \ {i} /\ LiveCells' = Cells
      /\ LiveKeys = Stored \ {key} /\ LiveKeys' = Stored'
      /\ Stored' = Stored \ {key} /\ \A k \in Keys : k # key => map'[k] = map[k]
  BY <1>1 DEF LiveCells, LiveKeys, Stored, TableInv, TypeOK
<1>5. NoGap'
  <2> SUFFICES ASSUME NEW c \in Cells, NEW b \in Cells, entries'[c].key # 0,
                      Between(home[entries'[c].key], b, c)
               PROVE  entries'[b].key # 0
    BY <1>1 DEF NoGap
  <2> DEFINE h == home[entries[c].key]
  <2>1. c # i /\ entries'[c] = entries[c] /\ entries[c].key # 0 /\ c # j
    BY <1>1, <1>2
  <2>2. Between(h, b, c) /\ h \in Cells
    BY <2>1, <1>1
  <2>3. CASE b # i
    BY <2>1, <2>2, <2>3, <1>2 DEF TableInv, NoGap
  <2>4. CASE b = i
    <3>1. ~Between(i, c, j)
      BY <2>1, <2>2, <2>4, <1>1 DEF TableInv, Shifted
    <3>2. Between(h, j, c)
      BY <2>1, <2>2, <2>4, <3>1, <1>1, BehindRun
    <3> QED
      BY <2>1, <3>2, <1>1 DEF TableInv, NoGap
  <2> QED
    BY <2>3, <2>4
<1>6. Unique'
  BY <1>2, <1>4 DEF TableInv, Unique
<1>7. Exact'
  <2>1. ASSUME NEW c \in Cells, entries'[c].key # 0
        PROVE  entries'[c].key \in Stored' /\ map'[entries'[c].key] = entries'[c].value
    <3>1. c # i /\ entries'[c] = entries[c]
      BY <2>1, <1>2
    <3>2. entries[c].key \in Stored \ {key} /\ map[entries[c].key] = entries[c].value
      BY <2>1, <3>1, <1>4 DEF TableInv, Exact
    <3>3. entries[c].key \in Keys
      BY <3>2 DEF Stored
    <3> QED
      BY <3>1, <3>2, <3>3, <1>4
  <2>2. ASSUME NEW k \in Stored' PROVE \E c \in Cells : entries'[c].key = k
    BY <1>2, <1>4 DEF TableInv, Exact
  <2> QED
    BY <2>1, <2>2, <1>4 DEF Exact
<1>8. Room'
  <2>1. IsFiniteSet(Stored) /\ Cardinality(Stored) <= Capacity
    BY DEF TableInv, Room
  <2>2. IsFiniteSet(Stored') /\ Cardinality(Stored') <= Cardinality(Stored)
    BY <2>1, <1>4, FS_Subset
  <2>3. Cardinality(Stored) \in Nat /\ Cardinality(Stored') \in Nat /\ Capacity \in Nat
    BY <2>1, <2>2, FS_CardinalityType, TableAssumption
  <2>4. Cardinality(Stored') <= Capacity
    BY <2>1, <2>2, <2>3
  <2> QED
    BY <2>2, <2>4, <1>1, <1>2 DEF Room
<1>9. Probed' /\ Shifted' /\ FindIsMap'
  BY <1>1 DEF Probed, Shifted, FindIsMap
<1> QED
  BY <1>3, <1>5, <1>6, <1>7, <1>8, <1>9 DEF TableInv

\* A step that changes nothing.
LEMMA StutterInv == TableInv /\ UNCHANGED vars => TableInv'
<1> SUFFICES ASSUME TableInv, UNCHANGED vars PROVE TableInv'
  OBVIOUS
<1> USE DEF vars
<1>1. LiveCells' = LiveCells /\ Stored' = Stored /\ LiveKeys' = LiveKeys
  BY DEF LiveCells, LiveKeys, Stored
<1>2. TypeOK' /\ NoGap' /\ Unique' /\ Exact'
  BY <1>1 DEF TableInv, TypeOK, NoGap, Unique, Exact
<1>3. Probed' /\ Shifted' /\ Room' /\ FindIsMap'
  BY <1>1 DEF TableInv, Probed, Shifted, Room, FindIsMap
<1> QED
  BY <1>2, <1>3 DEF TableInv

\* The invariant holds throughout: entries are where their probes find them.
THEOREM TableInvHolds == Spec => []TableInv
<1>1. TableInv /\ [Next]_vars => TableInv'
  BY CallInv, ProbeInv, FindInv, ReturnInv, InsertInv, EraseFoundInv, ShiftStaysInv,
     ShiftMovesInv, ShiftDoneInv, StutterInv DEF Next, Step
<1> QED
  BY <1>1, InitInv, PTL DEF Spec

\* find() returns what the last insert() of its key stored, and npos after erase(), for
\* any keys, hash function, capacity and table size.
THEOREM FindIsMapHolds == Spec => []FindIsMap
<1>1. TableInv => FindIsMap
  BY DEF TableInv
<1> QED
  BY <1>1, TableInvHolds, PTL
=============================================================================
