----------------------------- MODULE ArpProofs -----------------------------
(***************************************************************************)
(* For any addresses, hash function, capacity and table size: lookups      *)
(* agree with what was learned, and only frames for us add a neighbour.    *)
(***************************************************************************)
EXTENDS Arp, FiniteSetTheorems, WellFoundedInduction, TLAPS

Learned == {ip \in Ips : known[ip] # none}

TypeInv ==
  /\ slots \in [Cells -> [ip : Ips \cup {0}, mac : Macs \cup {none}]]
  /\ hash \in [Ips -> Cells]
  /\ known \in [Ips -> Macs \cup {none}]

\* No empty cell on the way from an address's first cell to its entry.
NoGap ==
  \A c, b \in Cells :
    slots[c].ip # 0 /\ Steps(slots[c].ip, b) < Steps(slots[c].ip, c) => slots[b].ip # 0

Unique == \A c, d \in Cells : slots[c].ip # 0 /\ slots[c].ip = slots[d].ip => c = d

Exact ==
  /\ \A c \in Cells :
       slots[c].ip # 0 => slots[c].ip \in Learned /\ known[slots[c].ip] = slots[c].mac
  /\ \A ip \in Learned : \E c \in Cells : slots[c].ip = ip

\* size_ counts the addresses learned.
Counted == IsFiniteSet(Learned) /\ size = Cardinality(Learned) /\ size <= Capacity

ArpInv == TypeInv /\ NoGap /\ Unique /\ Exact /\ Counted

-----------------------------------------------------------------------------
\* The table has at least two cells.
LEMMA SizeFact == Size \in Nat /\ Size >= 2
  BY ArpAssumption

\* The probe numbers the cells.
LEMMA StepsFacts ==
  ASSUME TypeInv, NEW ip \in Ips
  PROVE  \A c, d \in Cells : Steps(ip, c) \in Nat /\ (Steps(ip, c) = Steps(ip, d) => c = d)
<1>1. hash[ip] \in Cells
  BY DEF TypeInv
<1> QED
  BY <1>1, SizeFact DEF Cells, Steps

\* "size_ <= capacity_ < slots_.size(), so at least one slot is always empty"
\* (src/src/arp.cpp).
LEMMA EmptySlotLeft ==
  ASSUME ArpInv
  PROVE  \E e \in Cells : slots[e].ip = 0
<1> SUFFICES ASSUME \A e \in Cells : slots[e].ip # 0 PROVE FALSE
  OBVIOUS
<1> DEFINE f == [c \in Cells |-> slots[c].ip]
<1>1. IsFiniteSet(Cells) /\ Cardinality(Cells) = Size
  BY SizeFact, FS_Interval DEF Cells
<1>2. f \in [Cells -> Learned]
  BY DEF ArpInv, Exact
<1>3. IsFiniteSet(Learned) /\ Cardinality(Learned) \in Nat /\ Cardinality(Learned) <= Capacity
  BY FS_CardinalityType DEF ArpInv, Counted
<1>4. Cardinality(Cells) > Cardinality(Learned)
  BY <1>1, <1>3, ArpAssumption
<1>5. \A c, d \in Cells : f[c] = f[d] => c = d
  BY DEF ArpInv, Unique
<1> HIDE DEF f
<1>6. \E c, d \in Cells : c # d /\ f[c] = f[d]
  BY <1>1, <1>2, <1>3, <1>4, FS_PigeonHole
<1> QED
  BY <1>5, <1>6

\* find_slot(ip) is a cell with the address or an empty one, and the first such.
LEMMA FindSlot ==
  ASSUME ArpInv, NEW ip \in Ips
  PROVE  /\ find_slot(ip) \in Cells /\ slots[find_slot(ip)].ip \in {ip, 0}
         /\ \A b \in Cells : Steps(ip, b) < Steps(ip, find_slot(ip)) => slots[b].ip \notin {ip, 0}
<1> DEFINE hits == {c \in Cells : slots[c].ip \in {ip, 0}}
           T == {Steps(ip, c) : c \in hits}
           R == {ss \in Nat \X Nat : ss[1] < ss[2]}
<1>1. hits # {} /\ hits \subseteq Cells
  BY EmptySlotLeft
<1>2. \A c \in Cells : Steps(ip, c) \in Nat
  BY StepsFacts DEF ArpInv
<1>3. T \subseteq Nat /\ T # {}
  BY <1>1, <1>2
<1>4. IsWellFoundedOn(R, Nat)
  BY NatLessThanWellFounded DEF OpToRel
<1>5. \A x, y \in Nat : <<y, x>> \in R <=> y < x
  OBVIOUS
<1> HIDE DEF R, T
<1>6. PICK x \in T : \A y \in T : <<y, x>> \notin R
  BY <1>3, <1>4, WFMin
<1>7. \A y \in T : x <= y
  <2> TAKE y \in T
  <2>1. x \in Nat /\ y \in Nat
    BY <1>3
  <2>2. ~(y < x)
    BY <2>1, <1>5, <1>6
  <2> QED
    BY <2>1, <2>2
<1>8. \E c \in hits : \A b \in hits : Steps(ip, c) <= Steps(ip, b)
  BY <1>6, <1>7 DEF T
<1>9. find_slot(ip) \in hits /\ \A b \in hits : Steps(ip, find_slot(ip)) <= Steps(ip, b)
  BY <1>8 DEF find_slot
<1> QED
  BY <1>1, <1>2, <1>9

\* find_slot meets an entry exactly for the addresses learned.
LEMMA FoundIsLearned ==
  ASSUME ArpInv, NEW ip \in Ips
  PROVE  IF ip \in Learned THEN slots[find_slot(ip)].ip = ip
                           ELSE slots[find_slot(ip)].ip = 0
<1> DEFINE f == find_slot(ip)
<1>1. f \in Cells /\ slots[f].ip \in {ip, 0} /\ 0 \notin Ips
  BY FindSlot, ArpAssumption
<1>2. CASE ip \notin Learned
  BY <1>1, <1>2 DEF ArpInv, Exact
<1>3. CASE ip \in Learned
  <2> SUFFICES ASSUME slots[f].ip = 0 PROVE FALSE
    BY <1>1, <1>3
  <2>1. PICK c \in Cells : slots[c].ip = ip
    BY <1>3 DEF ArpInv, Exact
  <2>2. c # f /\ Steps(ip, c) \in Nat /\ Steps(ip, f) \in Nat /\ Steps(ip, c) # Steps(ip, f)
    BY <1>1, <2>1, StepsFacts DEF ArpInv
  <2>3. ~(Steps(ip, c) < Steps(ip, f))
    BY <2>1, FindSlot
  <2>4. ~(Steps(ip, f) < Steps(ip, c))
    BY <1>1, <2>1 DEF ArpInv, NoGap
  <2> HIDE DEF f
  <2> QED
    BY <2>2, <2>3, <2>4
<1> QED
  BY <1>2, <1>3

-----------------------------------------------------------------------------
\* The constructor's table.
LEMMA InitInv == Init => ArpInv
<1> SUFFICES ASSUME Init PROVE ArpInv
  OBVIOUS
<1> USE DEF Init
<1>1. TypeInv /\ (\A c \in Cells : slots[c].ip = 0) /\ Learned = {}
  BY ArpAssumption DEF TypeInv, EmptySlot, Learned
<1>2. NoGap /\ Unique /\ Exact
  BY <1>1 DEF NoGap, Unique, Exact
<1>3. IsFiniteSet(Learned) /\ Cardinality(Learned) = 0
  BY <1>1, FS_EmptySet
<1> QED
  BY <1>1, <1>2, <1>3, ArpAssumption DEF ArpInv, Counted

\* Writing an address, old or new, into the cell find_slot gives it keeps every entry
\* where its probe finds it.
LEMMA WriteInv ==
  ASSUME ArpInv, NEW ip \in Ips, NEW mac \in Macs, Write(find_slot(ip), ip, mac),
         hash' = hash,
         IF ip \in Learned THEN size' = size ELSE size' = size + 1 /\ size < Capacity
  PROVE  ArpInv'
<1> DEFINE f == find_slot(ip)
<1>1. /\ f \in Cells /\ slots[f].ip \in {ip, 0} /\ ip # 0 /\ mac # none /\ none \notin Macs
      /\ \A b \in Cells : Steps(ip, b) < Steps(ip, f) => slots[b].ip \notin {ip, 0}
  BY FindSlot, ArpAssumption
<1>2. /\ slots' = [slots EXCEPT ![f] = [ip |-> ip, mac |-> mac]]
      /\ known' = [known EXCEPT ![ip] = mac]
  BY DEF Write
<1>3. \A d \in Cells : slots[d].ip = ip => d = f
  <2> SUFFICES ASSUME NEW d \in Cells, slots[d].ip = ip PROVE d = f
    OBVIOUS
  <2>1. ip \in Learned
    BY <1>1 DEF ArpInv, Exact
  <2>2. slots[f].ip = ip
    BY <2>1, FoundIsLearned
  <2> HIDE DEF f
  <2> QED
    BY <1>1, <2>2 DEF ArpInv, Unique
<1> HIDE DEF f
<1>4. TypeInv'
  BY <1>1, <1>2 DEF ArpInv, TypeInv
<1>5. /\ slots'[f].ip = ip /\ slots'[f].mac = mac /\ known'[ip] = mac
      /\ \A c \in Cells : c # f => slots'[c] = slots[c]
      /\ \A q \in Ips : q # ip => known'[q] = known[q]
      /\ Learned' = Learned \cup {ip}
  BY <1>1, <1>2 DEF ArpInv, TypeInv, Learned
<1>6. \A q, c : Steps(q, c)' = Steps(q, c)
  BY DEF Steps
<1>7. NoGap'
  <2> SUFFICES ASSUME NEW c \in Cells, NEW b \in Cells, slots'[c].ip # 0,
                      Steps(slots'[c].ip, b) < Steps(slots'[c].ip, c)
               PROVE  slots'[b].ip # 0
    BY <1>6 DEF NoGap, Steps
  <2>1. CASE b = f
    BY <2>1, <1>1, <1>5
  <2>2. CASE b # f /\ c = f
    BY <2>2, <1>1, <1>5
  <2>3. CASE b # f /\ c # f
    BY <2>3, <1>5 DEF ArpInv, NoGap
  <2> QED
    BY <2>1, <2>2, <2>3
<1>8. Unique'
  <2> SUFFICES ASSUME NEW c \in Cells, NEW d \in Cells, slots'[c].ip # 0,
                      slots'[c].ip = slots'[d].ip
               PROVE  c = d
    BY DEF Unique
  <2>1. CASE c = f \/ d = f
    BY <2>1, <1>3, <1>5
  <2>2. CASE c # f /\ d # f
    BY <2>2, <1>5 DEF ArpInv, Unique
  <2> QED
    BY <2>1, <2>2
<1>9. Exact'
  <2>1. ASSUME NEW c \in Cells, slots'[c].ip # 0
        PROVE  slots'[c].ip \in Learned' /\ known'[slots'[c].ip] = slots'[c].mac
    <3>1. CASE c = f
      BY <3>1, <1>5
    <3>2. CASE c # f
      <4>1. slots[c].ip \in Learned /\ known[slots[c].ip] = slots[c].mac
        BY <2>1, <3>2, <1>5 DEF ArpInv, Exact
      <4>2. slots[c].ip # ip /\ slots[c].ip \in Ips
        BY <3>2, <4>1, <1>3 DEF Learned
      <4> QED
        BY <3>2, <4>1, <4>2, <1>5
    <3> QED
      BY <3>1, <3>2
  <2>2. ASSUME NEW q \in Learned' PROVE \E c \in Cells : slots'[c].ip = q
    <3>1. CASE q = ip
      BY <3>1, <1>1, <1>5
    <3>2. CASE q # ip
      <4>1. PICK c \in Cells : slots[c].ip = q
        BY <3>2, <1>5 DEF ArpInv, Exact
      <4>2. q # 0
        BY <3>2, <1>5, ArpAssumption DEF Learned
      <4>3. c # f
        BY <1>1, <4>1, <4>2, <3>2
      <4> QED
        BY <4>1, <4>3, <1>5
    <3> QED
      BY <3>1, <3>2
  <2> QED
    BY <2>1, <2>2 DEF Exact
<1>10. Counted'
  <2>1. IsFiniteSet(Learned) /\ size = Cardinality(Learned) /\ size \in Nat /\ size <= Capacity
    BY FS_CardinalityType DEF ArpInv, Counted
  <2>2. /\ IsFiniteSet(Learned')
        /\ Cardinality(Learned') = IF ip \in Learned THEN Cardinality(Learned)
                                                     ELSE Cardinality(Learned) + 1
    BY <2>1, <1>5, FS_AddElement
  <2> QED
    BY <2>1, <2>2, ArpAssumption DEF Counted
<1> QED
  BY <1>4, <1>7, <1>8, <1>9, <1>10 DEF ArpInv

\* A frame that changes nothing of the table.
LEMMA SameInv == ArpInv /\ UNCHANGED <<slots, size, hash, known>> => ArpInv'
<1> SUFFICES ASSUME ArpInv, UNCHANGED <<slots, size, hash, known>> PROVE ArpInv'
  OBVIOUS
<1>1. Learned' = Learned
  BY DEF Learned
<1> QED
  BY <1>1 DEF ArpInv, TypeInv, NoGap, Unique, Exact, Counted, Steps

\* What one frame does: nothing to the table, or one write of its sender, which is new
\* only when the frame is for us.
LEMMA FrameCases ==
  ASSUME ArpInv, NEW for_us \in BOOLEAN, NEW request \in BOOLEAN, NEW built \in BOOLEAN,
         NEW sip \in Ips \cup {0}, NEW sha \in Macs, handle_arp(for_us, request, sip, sha, built)
  PROVE  \/ UNCHANGED <<slots, size, hash, known>>
         \/ /\ sip \in Ips /\ hash' = hash /\ Write(find_slot(sip), sip, sha)
            /\ IF sip \in Learned THEN size' = size
               ELSE size' = size + 1 /\ size < Capacity /\ for_us
<1>1. hash' = hash
  BY DEF handle_arp
<1>2. CASE sip = 0
  BY <1>1, <1>2 DEF handle_arp, learn, Learns, update_if_present, Present
<1>3. CASE sip # 0
  <2>1. sip \in Ips /\ sip # 0 /\ (IF sip \in Learned THEN slots[find_slot(sip)].ip = sip
                                      ELSE slots[find_slot(sip)].ip = 0)
    BY <1>3, FoundIsLearned
  <2>2. CASE for_us
    BY <1>1, <2>1, <2>2 DEF handle_arp, learn, Learns
  <2>3. CASE ~for_us
    BY <1>1, <2>1, <2>3 DEF handle_arp, update_if_present, Present
  <2> QED
    BY <2>2, <2>3
<1> QED
  BY <1>2, <1>3

\* The invariant holds throughout: entries are where their probes find them, and there is
\* always an empty cell to end a probe.
THEOREM ArpInvHolds == Spec => []ArpInv
<1>1. ASSUME ArpInv, [Next]_vars PROVE ArpInv'
  <2>1. ASSUME NEW for_us \in BOOLEAN, NEW request \in BOOLEAN, NEW built \in BOOLEAN,
               NEW sip \in Ips \cup {0}, NEW sha \in Macs,
               handle_arp(for_us, request, sip, sha, built)
        PROVE  ArpInv'
    <3>1. CASE UNCHANGED <<slots, size, hash, known>>
      BY <1>1, <3>1, SameInv
    <3>2. CASE /\ sip \in Ips /\ hash' = hash /\ Write(find_slot(sip), sip, sha)
               /\ IF sip \in Learned THEN size' = size ELSE size' = size + 1 /\ size < Capacity
      BY <1>1, <3>2, WriteInv
    <3> QED
      BY <1>1, <2>1, <3>1, <3>2, FrameCases
  <2>2. ASSUME NEW kind \in {"not_arp", "ignored"}, handle_arpOther(kind) PROVE ArpInv'
    BY <1>1, <2>2, SameInv DEF handle_arpOther
  <2>3. CASE UNCHANGED vars
    BY <1>1, <2>3, SameInv DEF vars
  <2> QED
    BY <1>1, <2>1, <2>2, <2>3 DEF Next
<1> QED
  BY <1>1, InitInv, PTL DEF Spec

\* lookup() returns the address last learned, for any hash and however many addresses
\* collide, up to a full table and beyond.
THEOREM LookupIsKnownHolds == Spec => []LookupIsKnown
<1>1. ASSUME ArpInv PROVE LookupIsKnown
  <2> SUFFICES ASSUME NEW ip \in Ips PROVE lookup(ip) = known[ip]
    BY DEF LookupIsKnown
  <2>1. find_slot(ip) \in Cells /\ ip # 0 /\ 0 # ip
    BY <1>1, FindSlot, ArpAssumption
  <2>2. CASE ip \in Learned
    <3>1. slots[find_slot(ip)].ip = ip
      BY <1>1, <2>2, FoundIsLearned
    <3>2. known[ip] = slots[find_slot(ip)].mac
      BY <1>1, <2>1, <3>1 DEF ArpInv, Exact
    <3> QED
      BY <3>1, <3>2 DEF lookup
  <2>3. CASE ip \notin Learned
    <3>1. slots[find_slot(ip)].ip = 0
      BY <1>1, <2>3, FoundIsLearned
    <3> QED
      BY <2>1, <2>3, <3>1 DEF lookup, Learned
  <2> QED
    BY <2>2, <2>3
<1> QED
  BY <1>1, ArpInvHolds, PTL

\* A neighbour is added only by a frame for us, and none is dropped.
THEOREM OnlyOurPeersAddedHolds == Spec => OnlyOurPeersAdded
<1> DEFINE Kept == \A ip \in Ips : known[ip] # none => known'[ip] # none
           Asked == \A ip \in Ips : known[ip] = none /\ known'[ip] # none =>
                      \E request, built \in BOOLEAN, sha \in Macs :
                        handle_arp(TRUE, request, ip, sha, built)
<1>1. ASSUME ArpInv, Next PROVE Kept /\ Asked
  <2>1. ASSUME NEW kind \in {"not_arp", "ignored"}, handle_arpOther(kind) PROVE Kept /\ Asked
    BY <2>1 DEF handle_arpOther
  <2>2. ASSUME NEW for_us \in BOOLEAN, NEW request \in BOOLEAN, NEW built \in BOOLEAN,
               NEW sip \in Ips \cup {0}, NEW sha \in Macs,
               handle_arp(for_us, request, sip, sha, built)
        PROVE  Kept /\ Asked
    <3>1. CASE UNCHANGED <<slots, size, hash, known>>
      BY <3>1
    <3>2. CASE /\ sip \in Ips /\ Write(find_slot(sip), sip, sha)
               /\ IF sip \in Learned THEN TRUE ELSE for_us
      <4>1. known' = [known EXCEPT ![sip] = sha] /\ sha # none /\ known \in [Ips -> Macs \cup {none}]
        BY <1>1, <3>2, ArpAssumption DEF Write, ArpInv, TypeInv
      <4>2. Kept
        BY <4>1
      <4>3. ASSUME NEW ip \in Ips, known[ip] = none, known'[ip] # none
            PROVE  ip = sip /\ for_us
        BY <4>1, <4>3, <3>2 DEF Learned
      <4>4. ASSUME NEW ip \in Ips, known[ip] = none, known'[ip] # none
            PROVE  handle_arp(TRUE, request, ip, sha, built)
        <5>1. ip = sip /\ for_us = TRUE
          BY <4>3, <4>4
        <5> QED
          BY <5>1, <2>2
      <4>5. Asked
        BY <4>4
      <4> QED
        BY <4>2, <4>5
    <3>3. \/ UNCHANGED <<slots, size, hash, known>>
          \/ /\ sip \in Ips /\ Write(find_slot(sip), sip, sha)
             /\ IF sip \in Learned THEN TRUE ELSE for_us
      BY <1>1, <2>2, FrameCases
    <3> HIDE DEF Kept, Asked
    <3> QED
      BY <3>1, <3>2, <3>3
  <2> QED
    BY <1>1, <2>1, <2>2 DEF Next
<1>2. ArpInv /\ [Next]_vars => [Kept /\ Asked]_vars
  BY <1>1
<1> QED
  BY <1>2, ArpInvHolds, PTL DEF Spec, OnlyOurPeersAdded
=============================================================================
