------------------------------ MODULE FlowTable -----------------------------
(***************************************************************************)
(* flow_table of src/src/tcp_stack.cpp: open addressing with linear        *)
(* probing and backward-shift deletion, one step per round of each loop,   *)
(* against the map it stands for (the variable map, a history of the       *)
(* completed calls).  The multiplicative hash is any function home.        *)
(***************************************************************************)
EXTENDS Integers, FiniteSets

CONSTANTS Keys,     \* flow keys; 0 marks an empty entry
          Values,   \* slot numbers
          npos,     \* "not found", not a value
          Capacity, \* most keys the caller has in the table: max_connections
          Size,     \* entries_.size(): at least twice the capacity
          Homes     \* the hash functions to consider

Cells == 0 .. (Size - 1)

ASSUME TableAssumption ==
  /\ Capacity \in Nat \ {0} /\ Size \in Nat /\ Size >= 2 * Capacity
  /\ 0 \notin Keys /\ npos \notin Values
  /\ Homes \subseteq [Keys -> Cells]

VARIABLES entries, home,
          pc,        \* the loop being run, or idle
          i, j,      \* its indices
          key, value, \* the call's arguments
          result,    \* what find() returns
          map

vars == <<entries, home, pc, i, j, key, value, result, map>>

Empty == [key |-> 0, value |-> 0]

Init ==
  /\ entries = [c \in Cells |-> Empty]
  /\ home \in Homes
  /\ pc = "idle" /\ i = 0 /\ j = 0
  /\ key = 0 /\ value = 0
  /\ result = npos
  /\ map = [k \in Keys |-> npos]

\* Mutant: probing stops at the end of the array.
NextCellStops(c) == IF c = Size - 1 THEN c ELSE c + 1

\* (i + 1) & mask_
NextCell(c) == IF c = Size - 1 THEN 0 ELSE c + 1

Begin(call, k, v) ==
  /\ pc = "idle"
  /\ pc' = call /\ key' = k /\ value' = v /\ i' = home[k]
  /\ UNCHANGED <<entries, home, j, result, map>>

\* The call returns and its locals are gone.
Return == pc' = "idle" /\ i' = 0 /\ j' = 0 /\ key' = 0 /\ value' = 0

\* open() inserts a key it did not find, while it has a free slot.
InsertAllowed(k) ==
  map[k] # npos \/ Cardinality({q \in Keys : map[q] # npos}) < Capacity

Call ==
  \E k \in Keys : \/ Begin("find", k, 0)
                  \/ Begin("erase", k, 0)
                  \/ InsertAllowed(k) /\ \E v \in Values : Begin("insert", k, v)

\* The loops of all three calls walk on past entries of other keys.
Probe ==
  /\ pc \in {"find", "insert", "erase"}
  /\ entries[i].key \notin {0, key}
  /\ i' = NextCell(i)
  /\ UNCHANGED <<entries, home, pc, j, key, value, result, map>>

Find ==
  /\ pc = "find" /\ entries[i].key \in {0, key}
  /\ result' = IF entries[i].key = key THEN entries[i].value ELSE npos
  /\ pc' = "found"
  /\ UNCHANGED <<entries, home, i, j, key, value, map>>

FindReturn ==
  /\ pc = "found"
  /\ Return /\ result' = npos
  /\ UNCHANGED <<entries, home, map>>

Insert ==
  /\ pc = "insert" /\ entries[i].key \in {0, key}
  /\ entries' = [entries EXCEPT ![i] = [key |-> key, value |-> value]]
  /\ map' = [map EXCEPT ![key] = value]
  /\ Return
  /\ UNCHANGED <<home, result>>

EraseAbsent ==
  /\ pc = "erase" /\ entries[i].key = 0
  /\ Return
  /\ UNCHANGED <<entries, home, result, map>>

EraseFound ==
  /\ pc = "erase" /\ entries[i].key = key
  /\ j' = NextCell(i)
  /\ pc' = "shift"
  /\ UNCHANGED <<entries, home, i, key, value, result, map>>

\* Mutant: the wrapped case is treated like the other one.
staysNoWrap(hole, from) ==
  LET h == home[entries[from].key] IN hole < h /\ h <= from

\* Moving entry from into the hole would put it before its home cell.
stays(hole, from) ==
  LET h == home[entries[from].key]
  IN  IF hole <= from THEN hole < h /\ h <= from ELSE hole < h \/ h <= from

\* Backward shift: later entries of the run move into the hole.
Shift ==
  /\ pc = "shift" /\ entries[j].key # 0
  /\ IF stays(i, j)
     THEN UNCHANGED <<entries, i>>
     ELSE entries' = [entries EXCEPT ![i] = entries[j]] /\ i' = j
  /\ j' = NextCell(j)
  /\ UNCHANGED <<home, pc, key, value, result, map>>

ShiftDone ==
  /\ pc = "shift" /\ entries[j].key = 0
  /\ entries' = [entries EXCEPT ![i] = Empty]
  /\ map' = [map EXCEPT ![key] = npos]
  /\ Return
  /\ UNCHANGED <<home, result>>

Step == Probe \/ Find \/ FindReturn \/ Insert \/ EraseAbsent \/ EraseFound \/ Shift \/ ShiftDone

Next == Call \/ Step

Spec == Init /\ [][Next]_vars

\* A call, once made, runs.
FairSpec == Spec /\ WF_vars(Step)

-----------------------------------------------------------------------------
\* Properties

TypeOK ==
  /\ entries \in [Cells -> [key : Keys \cup {0}, value : Values \cup {0}]]
  /\ home \in [Keys -> Cells]
  /\ pc \in {"idle", "find", "found", "insert", "erase", "shift"}
  /\ i \in Cells /\ j \in Cells
  /\ key \in Keys \cup {0} /\ value \in Values \cup {0}
  /\ result \in Values \cup {npos}
  /\ map \in [Keys -> Values \cup {npos}]
  /\ pc # "idle" => key \in Keys
  /\ pc = "insert" => value \in Values

\* find() returns what the last insert() of the key stored, and npos after an erase():
\* no shift strands an entry behind an empty cell.
FindIsMap == pc = "found" => result = map[key]

\* Every call ends: half of the table stays empty, so each probe meets an empty cell.
CallsEnd == (pc # "idle") ~> (pc = "idle")
=============================================================================
