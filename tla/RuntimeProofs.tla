--------------------------- MODULE RuntimeProofs ----------------------------
(***************************************************************************)
(* For any number of runtime objects, devices and pools: at most one       *)
(* runtime is in effect, the EAL goes down last, and a port's RX queues    *)
(* draw from its own pool.                                                 *)
(***************************************************************************)
EXTENDS Runtime, TLAPS

Lives == {"absent", "claimed", "alive", "clearing", "cleaned"}

\* The part of the state that says who has the EAL.
OwnerType ==
  /\ g_runtime_exists \in BOOLEAN /\ eal \in {"up", "down"}
  /\ life \in [Runtimes -> Lives] /\ owns_eal \in [Runtimes -> BOOLEAN]
  /\ ports \in [Runtimes -> Seq(PortType)] /\ then \in [Runtimes -> Runtimes]

\* An object that tears the EAL down owns it; one that has ports owns the EAL and has not
\* cleaned it up; an assignment in progress has a source that is alive.
OwnerShape ==
  \A r \in Runtimes :
    /\ owns_eal[r] => life[r] \in {"alive", "clearing", "cleaned"}
    /\ life[r] \in {"clearing", "cleaned"} => owns_eal[r]
    /\ ports[r] # <<>> => owns_eal[r] /\ life[r] # "cleaned"
    /\ then[r] # r => life[then[r]] = "alive" /\ life[r] \in {"clearing", "cleaned"}

OwnerInv == OwnerType /\ OwnerShape /\ OneRuntime /\ ClaimNotLeaked /\ EalFollowsOwner

\* No runtime exists at first.
LEMMA InitOwner == Init => OwnerInv
  <1> SUFFICES ASSUME Init PROVE OwnerInv
    OBVIOUS
  <1> USE DEF Init
  <1>1. OwnerType
    <2>1. <<>> \in Seq(PortType)
      OBVIOUS
    <2>2. ports \in [Runtimes -> Seq(PortType)]
      BY <2>1
    <2> QED BY <2>2 DEF OwnerType, Lives
  <1>5. OwnerShape
    BY DEF OwnerShape
  <1>2. \A r \in Runtimes : ~InEffect(r) /\ ~owns_eal[r]
    BY DEF InEffect
  <1>3. OneRuntime /\ EalFollowsOwner
    BY <1>2 DEF OneRuntime, EalFollowsOwner
  <1>4. ClaimNotLeaked
    BY <1>2, Zenon DEF ClaimNotLeaked
  <1> QED BY <1>1, <1>3, <1>4, <1>5 DEF OwnerInv

\* Every step other than these leaves the owner alone, and gives ports only to a usable
\* runtime or takes them away.
LEMMA SameOwner ==
  ASSUME OwnerInv, ports' \in [Runtimes -> Seq(PortType)],
         UNCHANGED <<ealVars, life, owns_eal, then>>,
         \A r \in Runtimes : ports'[r] # <<>> => ports[r] # <<>> \/ Usable(r)
  PROVE  OwnerInv'
  BY DEF OwnerInv, OwnerType, OwnerShape, OneRuntime, ClaimNotLeaked, EalFollowsOwner,
     InEffect, Lives, ealVars, Usable

\* The constructor's claim and its two outcomes.
LEMMA ConstructorOwner ==
  ASSUME OwnerInv, NEW r \in Runtimes, ClaimRuntime(r) \/ EalInit(r) \/ EalInitFails(r)
  PROVE  OwnerInv'
  <1> USE DEF OwnerInv
  <1>1. CASE ClaimRuntime(r)
    <2> USE <1>1 DEF ClaimRuntime
    <2>1. OwnerType'
      BY DEF OwnerType, Lives
    <2>2. OwnerShape'
      BY DEF OwnerType, OwnerShape, OneRuntime, InEffect, Lives
    <2>3. OneRuntime'
      BY DEF OwnerType, OwnerShape, OneRuntime, ClaimNotLeaked, EalFollowsOwner, InEffect, Lives
    <2>4. ClaimNotLeaked'
      BY DEF OwnerType, OwnerShape, OneRuntime, ClaimNotLeaked, InEffect, Lives
    <2>5. EalFollowsOwner'
      BY DEF OwnerType, OwnerShape, OneRuntime, EalFollowsOwner, InEffect, Lives
    <2> QED BY <2>1, <2>2, <2>3, <2>4, <2>5
  <1>2. CASE EalInit(r)
    <2> USE <1>2 DEF EalInit
    <2>1. OwnerType'
      BY DEF OwnerType, Lives
    <2>2. OwnerShape'
      BY DEF OwnerType, OwnerShape, OneRuntime, InEffect, Lives
    <2>3. OneRuntime'
      BY DEF OwnerType, OwnerShape, OneRuntime, ClaimNotLeaked, EalFollowsOwner, InEffect, Lives
    <2>4. ClaimNotLeaked'
      BY DEF OwnerType, OwnerShape, OneRuntime, ClaimNotLeaked, InEffect, Lives
    <2>5. EalFollowsOwner'
      BY DEF OwnerType, OwnerShape, OneRuntime, EalFollowsOwner, InEffect, Lives
    <2> QED BY <2>1, <2>2, <2>3, <2>4, <2>5
  <1>3. CASE EalInitFails(r)
    <2> USE <1>3 DEF EalInitFails
    <2>1. OwnerType'
      BY DEF OwnerType, Lives
    <2>2. OwnerShape'
      BY DEF OwnerType, OwnerShape, OneRuntime, InEffect, Lives
    <2>3. OneRuntime'
      BY DEF OwnerType, OwnerShape, OneRuntime, ClaimNotLeaked, EalFollowsOwner, InEffect, Lives
    <2>4. ClaimNotLeaked'
      BY DEF OwnerType, OwnerShape, OneRuntime, ClaimNotLeaked, InEffect, Lives
    <2>5. EalFollowsOwner'
      BY DEF OwnerType, OwnerShape, OneRuntime, EalFollowsOwner, InEffect, Lives
    <2> QED BY <2>1, <2>2, <2>3, <2>4, <2>5
  <1> QED BY <1>1, <1>2, <1>3

\* What a move leaves in each object.
LEMMA TakeOverEach ==
  ASSUME OwnerType, NEW r \in Runtimes, NEW from \in Runtimes, r # from, TakeOver(r, from)
  PROVE  /\ owns_eal' \in [Runtimes -> BOOLEAN] /\ ports' \in [Runtimes -> Seq(PortType)]
         /\ owns_eal'[r] = owns_eal[from] /\ owns_eal'[from] = FALSE
         /\ ports'[r] = ports[from] /\ ports'[from] = <<>>
         /\ \A q \in Runtimes \ {r, from} : owns_eal'[q] = owns_eal[q] /\ ports'[q] = ports[q]
  <1>1. owns_eal \in [Runtimes -> BOOLEAN] /\ ports \in [Runtimes -> Seq(PortType)]
    BY DEF OwnerType
  <1>2. <<>> \in Seq(PortType)
    OBVIOUS
  <1>3. /\ owns_eal' = [owns_eal EXCEPT ![r] = owns_eal[from], ![from] = FALSE]
        /\ ports' = [ports EXCEPT ![r] = ports[from], ![from] = <<>>]
    BY DEF TakeOver
  <1>4. ports' \in [Runtimes -> Seq(PortType)] /\ ports'[r] = ports[from] /\ ports'[from] = <<>>
        /\ \A q \in Runtimes \ {r, from} : ports'[q] = ports[q]
    BY <1>1, <1>2, <1>3
  <1>5. owns_eal' \in [Runtimes -> BOOLEAN] /\ owns_eal'[r] = owns_eal[from]
        /\ owns_eal'[from] = FALSE
        /\ \A q \in Runtimes \ {r, from} : owns_eal'[q] = owns_eal[q]
    BY <1>1, <1>3
  <1> QED BY <1>4, <1>5

\* A move hands the EAL, the ports and nothing else over.
LEMMA MoveOwner ==
  ASSUME OwnerInv, NEW r \in Runtimes, NEW from \in Runtimes,
         MoveConstruct(r, from) \/ MoveAssign(r, from)
  PROVE  OwnerInv'
  <1>1. /\ OwnerType /\ OwnerShape /\ OneRuntime /\ ClaimNotLeaked /\ EalFollowsOwner
        /\ r # from /\ TakeOver(r, from) /\ UNCHANGED <<g_runtime_exists, eal, then>>
        /\ life[from] = "alive" /\ life[r] \in {"absent", "alive"} /\ ~owns_eal[r]
        /\ life' = [life EXCEPT ![r] = "alive"]
    BY DEF OwnerInv, OwnerType, OwnerShape, MoveConstruct, MoveAssign, ealVars
  <1>2. /\ owns_eal' \in [Runtimes -> BOOLEAN] /\ ports' \in [Runtimes -> Seq(PortType)]
        /\ owns_eal'[r] = owns_eal[from] /\ owns_eal'[from] = FALSE
        /\ ports'[r] = ports[from] /\ ports'[from] = <<>>
        /\ \A q \in Runtimes \ {r, from} : owns_eal'[q] = owns_eal[q] /\ ports'[q] = ports[q]
    BY <1>1, TakeOverEach
  <1>3. OwnerType'
    BY <1>1, <1>2 DEF OwnerType, Lives
  <1>4. OwnerShape'
    <2>1. then[r] = r
      BY <1>1 DEF OwnerShape
    <2> SUFFICES ASSUME NEW q \in Runtimes
                 PROVE  /\ owns_eal'[q] => life'[q] \in {"alive", "clearing", "cleaned"}
                        /\ life'[q] \in {"clearing", "cleaned"} => owns_eal'[q]
                        /\ ports'[q] # <<>> => owns_eal'[q] /\ life'[q] # "cleaned"
                        /\ then'[q] # q => life'[then'[q]] = "alive"
                                            /\ life'[q] \in {"clearing", "cleaned"}
      BY DEF OwnerShape
    <2>2. CASE q = r
      BY <1>1, <1>2, <2>1, <2>2 DEF OwnerType, OwnerShape
    <2>3. CASE q = from
      BY <1>1, <1>2, <2>3 DEF OwnerType, OwnerShape
    <2>4. CASE q \in Runtimes \ {r, from}
      BY <1>1, <1>2, <2>4 DEF OwnerType, OwnerShape
    <2> QED BY <2>2, <2>3, <2>4
  <1>5. /\ InEffect(r)' <=> InEffect(from)
        /\ ~InEffect(from)' /\ ~InEffect(r)
        /\ \A q \in Runtimes \ {r, from} : InEffect(q)' <=> InEffect(q)
    BY <1>1, <1>2 DEF OwnerType, InEffect, Lives
  <1>6. OneRuntime'
    BY <1>1, <1>5 DEF OwnerType, OneRuntime
  <1>7. ClaimNotLeaked'
    BY <1>1, <1>5, Zenon DEF ClaimNotLeaked
  <1>8. EalFollowsOwner'
    BY <1>1, <1>2 DEF OwnerType, EalFollowsOwner
  <1> QED BY <1>3, <1>4, <1>6, <1>7, <1>8 DEF OwnerInv

\* The beginning of a teardown and the destructor of a moved-from object.
LEMMA DestroyOwner ==
  ASSUME OwnerInv, NEW r \in Runtimes, NEW from \in Runtimes,
         BeginTeardown(r, from) \/ DestroyMovedFrom(r)
  PROVE  OwnerInv'
  <1> USE DEF OwnerInv
  <1>1. CASE BeginTeardown(r, from)
    <2> USE <1>1 DEF BeginTeardown, Usable, ealVars
    <2>1. OwnerType'
      BY DEF OwnerType, Lives
    <2>2. OwnerShape'
      BY DEF OwnerType, OwnerShape, OneRuntime, InEffect, Lives
    <2>3. OneRuntime'
      BY DEF OwnerType, OwnerShape, OneRuntime, ClaimNotLeaked, EalFollowsOwner, InEffect, Lives
    <2>4. ClaimNotLeaked'
      BY DEF OwnerType, OwnerShape, OneRuntime, ClaimNotLeaked, InEffect, Lives
    <2>5. EalFollowsOwner'
      BY DEF OwnerType, OwnerShape, OneRuntime, EalFollowsOwner, InEffect, Lives
    <2> QED BY <2>1, <2>2, <2>3, <2>4, <2>5
  <1>2. CASE DestroyMovedFrom(r)
    <2> USE <1>2 DEF DestroyMovedFrom, ealVars
    <2>1. OwnerType'
      BY DEF OwnerType, Lives
    <2>2. OwnerShape'
      BY DEF OwnerType, OwnerShape, OneRuntime, InEffect, Lives
    <2>3. OneRuntime'
      BY DEF OwnerType, OwnerShape, OneRuntime, ClaimNotLeaked, EalFollowsOwner, InEffect, Lives
    <2>4. ClaimNotLeaked'
      BY DEF OwnerType, OwnerShape, OneRuntime, ClaimNotLeaked, InEffect, Lives
    <2>5. EalFollowsOwner'
      BY DEF OwnerType, OwnerShape, OneRuntime, EalFollowsOwner, InEffect, Lives
    <2> QED BY <2>1, <2>2, <2>3, <2>4, <2>5
  <1> QED BY <1>1, <1>2

\* rte_eal_cleanup and the end of a teardown: the claim is given back when the EAL is down.
LEMMA TeardownOwner ==
  ASSUME OwnerInv, NEW r \in Runtimes, EalCleanup(r) \/ GiveBack(r)
  PROVE  OwnerInv'
  <1> USE DEF OwnerInv
  <1>1. CASE EalCleanup(r)
    <2> USE <1>1 DEF EalCleanup
    <2>1. OwnerType'
      BY DEF OwnerType, Lives
    <2>2. OwnerShape'
      BY DEF OwnerType, OwnerShape, OneRuntime, InEffect, Lives
    <2>3. OneRuntime'
      BY DEF OwnerType, OwnerShape, OneRuntime, ClaimNotLeaked, EalFollowsOwner, InEffect, Lives
    <2>4. ClaimNotLeaked'
      BY DEF OwnerType, OwnerShape, OneRuntime, ClaimNotLeaked, InEffect, Lives
    <2>5. EalFollowsOwner'
      BY DEF OwnerType, OwnerShape, OneRuntime, EalFollowsOwner, InEffect, Lives
    <2> QED BY <2>1, <2>2, <2>3, <2>4, <2>5
  <1>2. CASE GiveBack(r)
    <2> USE <1>2 DEF GiveBack
    <2>1. /\ life[r] = "cleaned" /\ owns_eal[r] /\ ports[r] = <<>> /\ eal = "down"
          /\ \A q \in Runtimes \ {r} : ~InEffect(q) /\ ports[q] = <<>> /\ then[q] = q
      BY DEF OwnerType, OwnerShape, OneRuntime, EalFollowsOwner, InEffect, Lives
    <2>2. /\ owns_eal' \in [Runtimes -> BOOLEAN] /\ ports' \in [Runtimes -> Seq(PortType)]
          /\ \A q \in Runtimes : ~owns_eal'[q] /\ ports'[q] = <<>>
      <3>1. CASE then[r] = r
        BY <2>1, <3>1 DEF OwnerType, InEffect
      <3>2. CASE then[r] # r
        <4>1. then[r] \in Runtimes /\ TakeOver(r, then[r])
          BY <3>2 DEF OwnerType
        <4>2. /\ owns_eal' \in [Runtimes -> BOOLEAN] /\ ports' \in [Runtimes -> Seq(PortType)]
              /\ owns_eal'[r] = owns_eal[then[r]] /\ owns_eal'[then[r]] = FALSE
              /\ ports'[r] = ports[then[r]] /\ ports'[then[r]] = <<>>
              /\ \A q \in Runtimes \ {r, then[r]} : owns_eal'[q] = owns_eal[q] /\ ports'[q] = ports[q]
          BY <3>2, <4>1, TakeOverEach
        <4> QED BY <2>1, <3>2, <4>1, <4>2 DEF InEffect
      <3> QED BY <3>1, <3>2
    <2>3. /\ life' \in [Runtimes -> Lives] /\ life'[r] \in {"absent", "alive"}
          /\ \A q \in Runtimes \ {r} : life'[q] = life[q]
      BY DEF OwnerType, Lives
    <2>4. \A q \in Runtimes : then'[q] = q
      BY <2>1 DEF OwnerType
    <2>5. OwnerType'
      BY <2>2, <2>3, Zenon DEF OwnerType
    <2>6. \A q \in Runtimes : ~InEffect(q)'
      BY <2>1, <2>2, <2>3 DEF InEffect
    <2>7. OwnerShape'
      BY <2>2, <2>4, <2>6 DEF OwnerShape, InEffect
    <2>8. OneRuntime' /\ ClaimNotLeaked'
      BY <2>6, Zenon DEF OneRuntime, ClaimNotLeaked, InEffect
    <2>9. EalFollowsOwner'
      BY <2>1, <2>2 DEF EalFollowsOwner
    <2> QED BY <2>5, <2>7, <2>8, <2>9
  <1> QED BY <1>1, <1>2

-----------------------------------------------------------------------------
(***************************************************************************)
(* Devices and pools                                                       *)
(***************************************************************************)

BufferType ==
  /\ device \in [Devices -> {"absent", "probed", "started", "closed"}]
  /\ rx_pool \in [Devices -> Pools \cup {NoPool}] /\ tx_ring \in [Devices -> SUBSET Pools]
  /\ pools \in SUBSET Pools /\ handles \in SUBSET Pools

\* q is one of the ports of ps.
IsPort(q, ps) == \E r \in Runtimes : \E i \in DOMAIN ps[r] : ps[r][i] = q

\* A started device has its port in some deque, with the pool of its RX queues; other
\* devices have empty rings.
StartedShape ==
  \A d \in Devices :
    /\ device[d] = "started" => IsPort([dev |-> d, pool |-> rx_pool[d]], ports)
    /\ device[d] # "started" => tx_ring[d] = {}

\* A program that drops its pools first has none once no runtime is usable.
HandlesShape == HandlesFirst /\ handles # {} => \E r \in Runtimes : Usable(r)

BufferInv ==
  /\ OwnerInv /\ BufferType /\ StartedShape /\ HandlesShape
  /\ pools = PortPools(ports) \cup handles

\* The pools of the ports.
LEMMA PortPoolsAre ==
  ASSUME NEW ps
  PROVE  \A p : p \in PortPools(ps) <=> \E q : IsPort(q, ps) /\ q.pool = p
  BY DEF PortPools, IsPort

\* Appending a port to a deque adds it, and removing the front one takes only it away.
LEMMA AppendPort ==
  ASSUME NEW ps \in [Runtimes -> Seq(PortType)], NEW r \in Runtimes, NEW x \in PortType,
         NEW q
  PROVE  IsPort(q, [ps EXCEPT ![r] = Append(@, x)]) <=> IsPort(q, ps) \/ q = x
  <1> DEFINE new == [ps EXCEPT ![r] = Append(@, x)]
  <1>1. /\ ps[r] \in Seq(PortType) /\ Len(ps[r]) \in Nat /\ DOMAIN ps[r] = 1 .. Len(ps[r])
        /\ new[r] = Append(ps[r], x) /\ \A t \in Runtimes \ {r} : new[t] = ps[t]
    OBVIOUS
  <1>2. /\ DOMAIN new[r] = 1 .. (Len(ps[r]) + 1) /\ new[r][Len(ps[r]) + 1] = x
        /\ \A i \in 1 .. Len(ps[r]) : new[r][i] = ps[r][i]
    BY <1>1
  <1>3. ASSUME IsPort(q, new) PROVE IsPort(q, ps) \/ q = x
    <2>1. PICK t \in Runtimes : \E i \in DOMAIN new[t] : new[t][i] = q
      BY <1>3 DEF IsPort
    <2>2. PICK i \in DOMAIN new[t] : new[t][i] = q
      BY <2>1
    <2> QED BY <1>1, <1>2, <2>2 DEF IsPort
  <1>4. ASSUME IsPort(q, ps) PROVE IsPort(q, new)
    <2>1. PICK t \in Runtimes : \E i \in DOMAIN ps[t] : ps[t][i] = q
      BY <1>4 DEF IsPort
    <2>2. PICK i \in DOMAIN ps[t] : ps[t][i] = q
      BY <2>1
    <2>3. i \in DOMAIN new[t] /\ new[t][i] = q
      BY <1>1, <1>2, <2>2
    <2> QED BY <2>3 DEF IsPort
  <1>5. IsPort(x, new)
    <2>1. Len(ps[r]) + 1 \in DOMAIN new[r]
      BY <1>1, <1>2
    <2> QED BY <1>2, <2>1 DEF IsPort
  <1> QED BY <1>3, <1>4, <1>5

\* The same for the front of a deque.
LEMMA TailPort ==
  ASSUME NEW ps \in [Runtimes -> Seq(PortType)], NEW r \in Runtimes, ps[r] # <<>>, NEW q
  PROVE  /\ Head(ps[r]) \in PortType
         /\ [ps EXCEPT ![r] = Tail(@)] \in [Runtimes -> Seq(PortType)]
         /\ IsPort(q, ps) <=> IsPort(q, [ps EXCEPT ![r] = Tail(@)]) \/ q = Head(ps[r])
  <1> DEFINE new == [ps EXCEPT ![r] = Tail(@)]
  <1>1. /\ ps[r] \in Seq(PortType) /\ Len(ps[r]) \in Nat \ {0} /\ DOMAIN ps[r] = 1 .. Len(ps[r])
        /\ new[r] = Tail(ps[r]) /\ \A t \in Runtimes \ {r} : new[t] = ps[t]
    OBVIOUS
  <1>2. /\ Tail(ps[r]) \in Seq(PortType) /\ DOMAIN new[r] = 1 .. (Len(ps[r]) - 1)
        /\ Head(ps[r]) = ps[r][1] /\ 1 \in DOMAIN ps[r]
        /\ \A i \in 1 .. (Len(ps[r]) - 1) : new[r][i] = ps[r][i + 1]
    BY <1>1
  <1>3. Head(ps[r]) \in PortType
    BY <1>1, <1>2
  <1>4. new \in [Runtimes -> Seq(PortType)]
    BY <1>2
  <1>5. ASSUME IsPort(q, new) PROVE IsPort(q, ps)
    <2>1. PICK t \in Runtimes : \E i \in DOMAIN new[t] : new[t][i] = q
      BY <1>5 DEF IsPort
    <2>2. PICK i \in DOMAIN new[t] : new[t][i] = q
      BY <2>1
    <2>3. CASE t = r
      <3>1. i + 1 \in DOMAIN ps[r] /\ ps[r][i + 1] = q
        BY <1>1, <1>2, <2>2, <2>3
      <3> QED BY <3>1 DEF IsPort
    <2>4. CASE t # r
      BY <1>1, <2>2, <2>4 DEF IsPort
    <2> QED BY <2>3, <2>4
  <1>6. ASSUME IsPort(q, ps), q # Head(ps[r]) PROVE IsPort(q, new)
    <2>1. PICK t \in Runtimes : \E i \in DOMAIN ps[t] : ps[t][i] = q
      BY <1>6 DEF IsPort
    <2>2. PICK i \in DOMAIN ps[t] : ps[t][i] = q
      BY <2>1
    <2>3. CASE t = r
      <3>1. i - 1 \in DOMAIN new[r] /\ new[r][i - 1] = q
        BY <1>1, <1>2, <1>6, <2>2, <2>3
      <3> QED BY <3>1 DEF IsPort
    <2>4. CASE t # r
      BY <1>1, <2>2, <2>4 DEF IsPort
    <2> QED BY <2>3, <2>4
  <1>7. IsPort(Head(ps[r]), ps)
    BY <1>2 DEF IsPort
  <1> QED BY <1>3, <1>4, <1>5, <1>6, <1>7

\* Only an object in effect has ports.
LEMMA PortsInEffect ==
  ASSUME OwnerInv, NEW q, IsPort(q, ports)
  PROVE  \E r \in Runtimes : owns_eal[r] /\ life[r] # "cleaned" /\ ports[r] # <<>>
  <1>1. PICK r \in Runtimes : \E i \in DOMAIN ports[r] : ports[r][i] = q
    BY DEF IsPort
  <1>2. ports[r] # <<>>
    BY <1>1
  <1> QED BY <1>2 DEF OwnerInv, OwnerShape

\* A step that keeps the set of ports and leaves devices and pools alone.
LEMMA SamePorts ==
  ASSUME BufferInv, OwnerInv', \A q : IsPort(q, ports') <=> IsPort(q, ports),
         UNCHANGED <<devVars, poolVars>>,
         \A r \in Runtimes : Usable(r) /\ HandlesFirst /\ handles # {} => \E t \in Runtimes : Usable(t)'
  PROVE  BufferInv'
  <1>1. \A p : p \in PortPools(ports') <=> \E q : IsPort(q, ports') /\ q.pool = p
    BY PortPoolsAre
  <1>2. \A p : p \in PortPools(ports) <=> \E q : IsPort(q, ports) /\ q.pool = p
    BY PortPoolsAre
  <1>3. PortPools(ports') = PortPools(ports)
    BY <1>1, <1>2
  <1>4. BufferType' /\ pools' = PortPools(ports') \cup handles'
    BY <1>3 DEF BufferInv, BufferType, devVars, poolVars
  <1>5. StartedShape'
    BY DEF BufferInv, StartedShape, devVars
  <1>6. HandlesShape'
    BY DEF BufferInv, HandlesShape, poolVars
  <1> QED BY <1>4, <1>5, <1>6, Zenon DEF BufferInv

\* The constructor up to its claim, or failing; the beginning of a teardown; the
\* destructor of a moved-from object.
LEMMA QuietBuffers ==
  ASSUME BufferInv, NEW r \in Runtimes, NEW from \in Runtimes,
         \/ ClaimRuntime(r) \/ EalInitFails(r) \/ BeginTeardown(r, from) \/ DestroyMovedFrom(r)
  PROVE  BufferInv'
  <1>1. OwnerInv'
    BY ConstructorOwner, DestroyOwner DEF BufferInv
  <1>2. UNCHANGED <<ports, devVars, poolVars>>
    BY DEF ClaimRuntime, EalInitFails, BeginTeardown, DestroyMovedFrom
  <1>3. ASSUME NEW t \in Runtimes, Usable(t), HandlesFirst, handles # {}
        PROVE  Usable(t)'
    <2>1. ~BeginTeardown(r, from)
      BY <1>3 DEF BeginTeardown
    <2> QED BY <1>3, <2>1 DEF BufferInv, OwnerInv, OwnerType, Usable, ClaimRuntime, EalInitFails,
               DestroyMovedFrom
  <1>4. \A q : IsPort(q, ports') <=> IsPort(q, ports)
    BY <1>2
  <1> QED BY <1>1, <1>2, <1>3, <1>4, SamePorts

\* A move keeps the ports.
LEMMA MoveBuffers ==
  ASSUME BufferInv, NEW r \in Runtimes, NEW from \in Runtimes,
         MoveConstruct(r, from) \/ MoveAssign(r, from)
  PROVE  BufferInv'
  <1>1. OwnerInv' /\ OwnerInv
    BY MoveOwner DEF BufferInv
  <1>2. /\ OwnerType /\ r # from /\ TakeOver(r, from) /\ UNCHANGED <<devVars, poolVars>>
        /\ life[from] = "alive" /\ ports[r] = <<>> /\ ~owns_eal[r]
        /\ life' = [life EXCEPT ![r] = "alive"]
    BY <1>1 DEF OwnerInv, OwnerType, OwnerShape, MoveConstruct, MoveAssign
  <1>3. /\ owns_eal'[r] = owns_eal[from] /\ ports'[r] = ports[from] /\ ports'[from] = <<>>
        /\ \A q \in Runtimes \ {r, from} : owns_eal'[q] = owns_eal[q] /\ ports'[q] = ports[q]
    BY <1>2, TakeOverEach
  <1>4. ASSUME NEW q PROVE IsPort(q, ports') <=> IsPort(q, ports)
    <2>1. \A t \in Runtimes : \A i \in DOMAIN ports'[t] : ports'[t][i] = q => IsPort(q, ports)
      BY <1>2, <1>3 DEF IsPort
    <2>2. \A t \in Runtimes : \A i \in DOMAIN ports[t] : ports[t][i] = q => IsPort(q, ports')
      BY <1>2, <1>3 DEF IsPort
    <2> QED BY <2>1, <2>2 DEF IsPort
  <1>5. \A t \in Runtimes : Usable(t) => \E u \in Runtimes : Usable(u)'
    BY <1>2, <1>3 DEF Usable, OwnerType
  <1> QED BY <1>1, <1>2, <1>4, <1>5, SamePorts

\* rte_eal_init finds no port and no started device.
LEMMA EalInitBuffers ==
  ASSUME BufferInv, NEW r \in Runtimes, EalInit(r)
  PROVE  BufferInv'
  <1>1. OwnerInv' /\ OwnerInv /\ UNCHANGED <<ports, rx_pool, tx_ring, poolVars>>
        /\ device' = [d \in Devices |-> "probed"] /\ Usable(r)'
    BY ConstructorOwner DEF BufferInv, EalInit, Usable, OwnerInv, OwnerType
  <1>2. \A d \in Devices : device[d] # "started"
    <2> SUFFICES ASSUME NEW d \in Devices, device[d] = "started" PROVE FALSE
      OBVIOUS
    <2>1. \E t \in Runtimes : owns_eal[t] /\ life[t] # "cleaned" /\ ports[t] # <<>>
      BY PortsInEffect DEF BufferInv, StartedShape
    <2> QED BY <1>1, <2>1 DEF OwnerInv, OwnerShape, OneRuntime, InEffect, EalInit
  <1>3. BufferType' /\ pools' = PortPools(ports') \cup handles'
    BY <1>1 DEF BufferInv, BufferType, poolVars
  <1>4. StartedShape'
    BY <1>1, <1>2 DEF BufferInv, StartedShape
  <1>5. HandlesShape'
    BY <1>1 DEF HandlesShape
  <1> QED BY <1>1, <1>3, <1>4, <1>5 DEF BufferInv

\* A step of the program that changes only its handles and the pools with them.
LEMMA HandleBuffers ==
  ASSUME BufferInv, UNCHANGED <<ealVars, objVars, devVars>>,
         pools' = PortPools(ports) \cup handles',
         handles' \in SUBSET Pools, pools' \in SUBSET Pools,
         HandlesFirst /\ handles' # {} => \E t \in Runtimes : Usable(t)
  PROVE  BufferInv'
  <1>1. OwnerInv'
    BY SameOwner DEF BufferInv, OwnerInv, OwnerType, objVars
  <1>2. StartedShape' /\ BufferType'
    BY DEF BufferInv, BufferType, StartedShape, devVars, objVars
  <1>3. HandlesShape'
    BY DEF HandlesShape, Usable, objVars
  <1> QED BY <1>1, <1>2, <1>3 DEF BufferInv, objVars

\* create_pool.
LEMMA CreatePoolBuffers ==
  ASSUME BufferInv, NEW r \in Runtimes, NEW p \in Pools, create_pool(r, p)
  PROVE  BufferInv'
  <1>1. pools' = PortPools(ports) \cup handles'
    BY DEF BufferInv, create_pool
  <1>2. handles' \in SUBSET Pools /\ pools' \in SUBSET Pools
    BY DEF BufferInv, BufferType, create_pool
  <1> QED BY <1>1, <1>2, HandleBuffers DEF create_pool

\* The end of a handle of the program.
LEMMA DropHandleBuffers ==
  ASSUME BufferInv, NEW p \in Pools, DropHandle(p)
  PROVE  BufferInv'
  <1>1. pools' = PortPools(ports) \cup handles'
    BY DEF BufferInv, DropHandle, Unreferenced
  <1>2. handles' \in SUBSET Pools /\ pools' \in SUBSET Pools
    BY DEF BufferInv, BufferType, DropHandle
  <1>3. HandlesFirst /\ handles' # {} => \E t \in Runtimes : Usable(t)
    BY DEF BufferInv, HandlesShape, DropHandle
  <1> QED BY <1>1, <1>2, <1>3, HandleBuffers DEF DropHandle

\* get_pool.
LEMMA GetPoolBuffers ==
  ASSUME BufferInv, NEW r \in Runtimes, NEW i \in DOMAIN ports[r], get_pool(r, i)
  PROVE  BufferInv'
  <1>1. ports[r][i].pool \in PortPools(ports)
    BY DEF PortPools
  <1>2. pools' = PortPools(ports) \cup handles'
    BY <1>1 DEF BufferInv, get_pool
  <1>3. handles' \in SUBSET Pools /\ pools' \in SUBSET Pools
    BY <1>1 DEF BufferInv, BufferType, get_pool
  <1> QED BY <1>2, <1>3, HandleBuffers DEF get_pool

\* add_port.
LEMMA AddPortBuffers ==
  ASSUME BufferInv, NEW r \in Runtimes, NEW d \in Devices, NEW p \in Pools, add_port(r, d, p)
  PROVE  BufferInv'
  <1> DEFINE x == [dev |-> d, pool |-> p]
  <1>1. /\ OwnerInv /\ OwnerType /\ Usable(r) /\ x \in PortType
        /\ ports' = [ports EXCEPT ![r] = Append(@, x)]
        /\ UNCHANGED <<ealVars, life, owns_eal, then, tx_ring, handles>>
    BY DEF BufferInv, OwnerInv, add_port, PortType
  <1>2. ports' \in [Runtimes -> Seq(PortType)] /\ \A t \in Runtimes \ {r} : ports'[t] = ports[t]
    BY <1>1 DEF OwnerType
  <1>3. OwnerInv'
    BY <1>1, <1>2, SameOwner
  <1>0. x.pool = p /\ x = [dev |-> d, pool |-> p]
    OBVIOUS
  <1> HIDE DEF x
  <1>4. ASSUME NEW q PROVE IsPort(q, ports') <=> IsPort(q, ports) \/ q = x
    <2>1. ports \in [Runtimes -> Seq(PortType)] /\ x \in PortType
      BY <1>1 DEF OwnerType
    <2>2. IsPort(q, [ports EXCEPT ![r] = Append(@, x)]) <=> IsPort(q, ports) \/ q = x
      BY <2>1, AppendPort
    <2> QED BY <1>1, <2>2
  <1>5. \A y : y \in PortPools(ports') <=> y \in PortPools(ports) \/ y = p
    BY <1>4, <1>0, PortPoolsAre
  <1>6. pools' = PortPools(ports') \cup handles'
    BY <1>1, <1>5 DEF BufferInv, add_port
  <1>7. BufferType'
    BY <1>1 DEF BufferInv, BufferType, add_port
  <1>8. StartedShape'
    <2>1. \A e \in Devices : /\ device'[e] = (IF e = d THEN "started" ELSE device[e])
                             /\ rx_pool'[e] = (IF e = d THEN p ELSE rx_pool[e])
      BY DEF BufferInv, BufferType, add_port
    <2>2. tx_ring[d] = {}
      BY DEF BufferInv, StartedShape, add_port
    <2> QED BY <1>1, <1>4, <1>0, <2>1, <2>2 DEF BufferInv, StartedShape
  <1>9. HandlesShape'
    BY <1>1 DEF HandlesShape, Usable
  <1> QED BY <1>3, <1>6, <1>7, <1>8, <1>9 DEF BufferInv

\* A port's constructor that throws, and packets sent and done with.
LEMMA DeviceBuffers ==
  ASSUME BufferInv, NEW r \in Runtimes, NEW d \in Devices, NEW p \in Pools,
         NEW set_up \in BOOLEAN,
         AddPortThrows(r, d, p, set_up) \/ Send(d, p) \/ TxDone(d, p)
  PROVE  BufferInv'
  <1>1. OwnerInv /\ OwnerInv' /\ UNCHANGED <<ealVars, objVars, poolVars, device>>
    BY SameOwner DEF BufferInv, OwnerInv, OwnerType, AddPortThrows, Send, TxDone, objVars
  <1>2. BufferType'
    BY <1>1 DEF BufferInv, BufferType, AddPortThrows, Send, TxDone, poolVars
  <1>3. StartedShape'
    <2>1. CASE AddPortThrows(r, d, p, set_up)
      <3>1. \A e \in Devices : device[e] = "started" => rx_pool'[e] = rx_pool[e]
        BY <2>1 DEF BufferInv, BufferType, AddPortThrows
      <3>2. UNCHANGED <<ports, tx_ring, device>>
        BY <2>1 DEF AddPortThrows, objVars
      <3>3. \A e \in Devices : device[e] # "started" => tx_ring[e] = {}
        BY DEF BufferInv, StartedShape
      <3> QED BY <3>1, <3>2, <3>3 DEF BufferInv, StartedShape
    <2>2. CASE Send(d, p)
      <3>1. /\ UNCHANGED <<ports, rx_pool, device>> /\ device[d] = "started"
            /\ tx_ring'[d] = tx_ring[d] \cup {p}
            /\ \A e \in Devices \ {d} : tx_ring'[e] = tx_ring[e]
        BY <2>2 DEF BufferInv, BufferType, Send, objVars
      <3> QED BY <3>1 DEF BufferInv, StartedShape
    <2>3. CASE TxDone(d, p)
      <3>1. /\ UNCHANGED <<ports, rx_pool, device>> /\ device[d] = "started"
            /\ tx_ring'[d] = tx_ring[d] \ {p}
            /\ \A e \in Devices \ {d} : tx_ring'[e] = tx_ring[e]
        BY <2>3 DEF BufferInv, BufferType, TxDone, objVars
      <3> QED BY <3>1 DEF BufferInv, StartedShape
    <2> QED BY <2>1, <2>2, <2>3
  <1>4. HandlesShape' /\ pools' = PortPools(ports') \cup handles'
    BY <1>1 DEF BufferInv, HandlesShape, Usable, objVars, poolVars
  <1> QED BY <1>1, <1>2, <1>3, <1>4 DEF BufferInv

\* ports_.clear() takes the front port with its device, and its pool when nobody else
\* refers to it.
LEMMA ClearPortBuffers ==
  ASSUME BufferInv, NEW r \in Runtimes, ClearPort(r)
  PROVE  BufferInv'
  <1> DEFINE x == Head(ports[r])
             rest == [ports EXCEPT ![r] = Tail(@)]
  <1>1. /\ OwnerInv /\ OwnerType /\ ports[r] # <<>> /\ ports' = rest
        /\ UNCHANGED <<ealVars, life, owns_eal, then, handles>>
        /\ device' = [device EXCEPT ![x.dev] = "closed"]
        /\ rx_pool' = [rx_pool EXCEPT ![x.dev] = NoPool]
        /\ tx_ring' = [tx_ring EXCEPT ![x.dev] = {}]
        /\ pools' = pools \ Unreferenced(x.pool, rest, handles)
    BY DEF BufferInv, OwnerInv, ClearPort
  <1>2. x \in PortType /\ ports' \in [Runtimes -> Seq(PortType)]
    BY <1>1, TailPort DEF OwnerType
  <1>3. \A q : IsPort(q, ports) <=> IsPort(q, ports') \/ q = x
    BY <1>1, TailPort DEF OwnerType
  <1>4. \A t \in Runtimes : ports'[t] # <<>> => ports[t] # <<>>
    BY <1>1 DEF OwnerType
  <1>5. OwnerInv'
    BY <1>1, <1>2, <1>4, SameOwner
  <1>6. \A y : y \in PortPools(ports) <=> y \in PortPools(ports') \/ y = x.pool
    BY <1>3, PortPoolsAre
  <1> HIDE DEF x
  <1>7. pools' = PortPools(ports') \cup handles'
    BY <1>1, <1>6 DEF BufferInv, Unreferenced
  <1>8. x.dev \in Devices
    BY <1>2 DEF PortType
  <1>9. BufferType'
    BY <1>1, <1>8 DEF BufferInv, BufferType
  <1>10. StartedShape'
    <2>1. \A e \in Devices : /\ device'[e] = (IF e = x.dev THEN "closed" ELSE device[e])
                             /\ tx_ring'[e] = (IF e = x.dev THEN {} ELSE tx_ring[e])
      BY <1>1 DEF BufferInv, BufferType
    <2>2. \A e \in Devices \ {x.dev} : [dev |-> e, pool |-> rx_pool[e]] # x
      OBVIOUS
    <2>3. \A e \in Devices \ {x.dev} : rx_pool'[e] = rx_pool[e]
      BY <1>1 DEF BufferInv, BufferType
    <2> QED BY <1>3, <2>1, <2>2, <2>3 DEF BufferInv, StartedShape
  <1>11. HandlesShape'
    BY <1>1 DEF BufferInv, HandlesShape, Usable
  <1> QED BY <1>5, <1>7, <1>9, <1>10, <1>11 DEF BufferInv

\* rte_eal_cleanup and the end of a teardown find no port and no started device.
LEMMA TeardownBuffers ==
  ASSUME BufferInv, NEW r \in Runtimes, EalCleanup(r) \/ GiveBack(r)
  PROVE  BufferInv'
  <1>1. OwnerInv /\ OwnerInv' /\ UNCHANGED <<tx_ring, poolVars>> /\ eal' = "down"
    BY TeardownOwner DEF BufferInv, EalCleanup, GiveBack, devVars, OwnerInv, EalFollowsOwner,
       OwnerType, OwnerShape, OneRuntime, InEffect
  <1>2. life[r] \in {"clearing", "cleaned"} /\ owns_eal[r] /\ ports[r] = <<>>
    BY <1>1 DEF EalCleanup, GiveBack, OwnerInv, OwnerShape
  <1>3. \A q : ~IsPort(q, ports)
    BY <1>1, <1>2, PortsInEffect DEF OwnerInv, OneRuntime, InEffect
  <1>4. \A t \in Runtimes : ports'[t] = <<>>
    BY <1>1 DEF OwnerInv, OwnerShape, EalFollowsOwner
  <1>5. \A q : ~IsPort(q, ports')
    BY <1>4 DEF IsPort
  <1>6. \A y : y \notin PortPools(ports) /\ y \notin PortPools(ports')
    BY <1>3, <1>5, PortPoolsAre
  <1>7. pools' = PortPools(ports') \cup handles'
    BY <1>1, <1>6 DEF BufferInv, poolVars
  <1>8. \A d \in Devices : device[d] # "started" /\ tx_ring[d] = {}
    BY <1>3 DEF BufferInv, StartedShape
  <1>9. /\ device' \in [Devices -> {"absent", "probed", "started", "closed"}]
        /\ rx_pool' \in [Devices -> Pools \cup {NoPool}]
        /\ \A d \in Devices : device'[d] # "started"
    BY <1>8 DEF BufferInv, BufferType, EalCleanup, GiveBack, devVars
  <1>10. BufferType' /\ StartedShape'
    BY <1>1, <1>8, <1>9 DEF BufferInv, BufferType, StartedShape, poolVars
  <1>11. \A t \in Runtimes : ~Usable(t)
    BY <1>1, <1>2 DEF Usable, OwnerInv, OneRuntime, InEffect
  <1>12. HandlesShape'
    BY <1>1, <1>11 DEF BufferInv, HandlesShape, poolVars
  <1> QED BY <1>1, <1>7, <1>10, <1>12 DEF BufferInv

-----------------------------------------------------------------------------
\* BufferInv holds of a process without a runtime.
LEMMA InitBuffers == Init => BufferInv
  <1> SUFFICES ASSUME Init PROVE BufferInv
    OBVIOUS
  <1>1. OwnerInv
    BY InitOwner
  <1>2. BufferType /\ StartedShape /\ HandlesShape
    BY DEF Init, BufferType, StartedShape, HandlesShape
  <1>3. PortPools(ports) = {}
    BY DEF Init, PortPools
  <1> QED BY <1>1, <1>2, <1>3 DEF Init, BufferInv

\* Every step preserves BufferInv.
LEMMA NextBuffers == BufferInv /\ [Next]_vars => BufferInv'
  <1> SUFFICES ASSUME BufferInv, [Next]_vars PROVE BufferInv'
    OBVIOUS
  <1>1. ASSUME NEW r \in Runtimes, NEW from \in Runtimes,
               \/ ClaimRuntime(r) \/ EalInitFails(r) \/ BeginTeardown(r, from)
               \/ DestroyMovedFrom(r)
        PROVE  BufferInv'
    BY <1>1, QuietBuffers
  <1>2. ASSUME NEW r \in Runtimes, EalInit(r) PROVE BufferInv'
    BY <1>2, EalInitBuffers
  <1>3. ASSUME NEW r \in Runtimes, NEW p \in CustomPools, create_pool(r, p) PROVE BufferInv'
    BY <1>3, CreatePoolBuffers DEF Pools
  <1>4. ASSUME NEW r \in Runtimes, NEW i \in DOMAIN ports[r], get_pool(r, i) PROVE BufferInv'
    BY <1>4, GetPoolBuffers
  <1>5. ASSUME NEW r \in Runtimes, NEW d \in Devices, NEW p \in Pools, add_port(r, d, p)
        PROVE  BufferInv'
    BY <1>5, AddPortBuffers
  <1>6. ASSUME NEW r \in Runtimes, NEW d \in Devices, NEW p \in Pools, NEW set_up \in BOOLEAN,
               AddPortThrows(r, d, p, set_up)
        PROVE  BufferInv'
    BY <1>6, DeviceBuffers
  <1>7. ASSUME NEW r \in Runtimes, NEW from \in Runtimes,
               MoveConstruct(r, from) \/ MoveAssign(r, from)
        PROVE  BufferInv'
    BY <1>7, MoveBuffers
  <1>8. ASSUME NEW r \in Runtimes, ClearPort(r) PROVE BufferInv'
    BY <1>8, ClearPortBuffers
  <1>9. ASSUME NEW r \in Runtimes, EalCleanup(r) \/ GiveBack(r) PROVE BufferInv'
    BY <1>9, TeardownBuffers
  <1>10. ASSUME NEW p \in Pools, DropHandle(p) PROVE BufferInv'
    BY <1>10, DropHandleBuffers
  <1>11. ASSUME NEW d \in Devices, NEW p \in Pools, Send(d, p) \/ TxDone(d, p)
         PROVE  BufferInv'
    <2>1. PICK r \in Runtimes : TRUE
      BY <1>11, PortsInEffect DEF BufferInv, StartedShape, Send, TxDone
    <2> QED BY <1>11, <2>1, DeviceBuffers
  <1>12. ASSUME UNCHANGED vars PROVE BufferInv'
    <2>1. OwnerInv'
      BY <1>12, SameOwner DEF BufferInv, OwnerInv, OwnerType, vars, objVars
    <2> QED BY <1>12, <2>1, SamePorts DEF vars, objVars, Usable
  <1>13. CASE Next
    BY <1>13, <1>1, <1>2, <1>3, <1>4, <1>5, <1>6, <1>7, <1>8, <1>9, <1>10, <1>11, Zenon DEF Next
  <1> QED BY <1>12, <1>13

\* In every behaviour BufferInv holds.
THEOREM BufferInvHolds == Spec => []BufferInv
  BY InitBuffers, NextBuffers, PTL DEF Spec

\* However many runtime objects are constructed, moved and destroyed by however many
\* threads, at most one is in effect, and rte_eal_init is only called with the EAL down.
THEOREM OneRuntimeHolds == Spec => []OneRuntime
  <1>1. BufferInv => OneRuntime
    BY DEF BufferInv, OwnerInv
  <1> QED BY <1>1, BufferInvHolds, PTL

\* No path through constructors, moves and destructors leaves g_runtime_exists set without
\* a runtime in effect, or clear with one.
THEOREM ClaimNotLeakedHolds == Spec => []ClaimNotLeaked
  <1>1. BufferInv => ClaimNotLeaked
    BY DEF BufferInv, OwnerInv
  <1> QED BY <1>1, BufferInvHolds, PTL

\* The EAL is up exactly while an object will clean it up.
THEOREM EalFollowsOwnerHolds == Spec => []EalFollowsOwner
  <1>1. BufferInv => EalFollowsOwner
    BY DEF BufferInv, OwnerInv
  <1> QED BY <1>1, BufferInvHolds, PTL

\* rte_eal_cleanup comes after the last port was closed.
THEOREM PortsClosedFirstHolds == Spec => []PortsClosedFirst
  <1>1. BufferInv => PortsClosedFirst
    BY DEF BufferInv, OwnerInv, OwnerShape, EalFollowsOwner, PortsClosedFirst
  <1> QED BY <1>1, BufferInvHolds, PTL

\* rte_eal_cleanup comes after the last mempool was freed, if the program drops its
\* shared_ptrs before the runtime goes.
THEOREM PoolsFreedFirstHolds == HandlesFirst => (Spec => []PoolsFreedFirst)
  <1> SUFFICES ASSUME HandlesFirst PROVE Spec => []PoolsFreedFirst
    OBVIOUS
  <1>1. BufferInv => PoolsFreedFirst
    <2> SUFFICES ASSUME BufferInv, eal = "down" PROVE pools = {}
      BY DEF PoolsFreedFirst
    <2>1. \A q : ~IsPort(q, ports)
      BY PortsInEffect DEF BufferInv, OwnerInv, OwnerShape, EalFollowsOwner
    <2>2. \A y : y \notin PortPools(ports)
      BY <2>1, PortPoolsAre
    <2>3. handles = {}
      BY DEF BufferInv, HandlesShape, Usable, OwnerInv, EalFollowsOwner
    <2> QED BY <2>2, <2>3 DEF BufferInv
  <1> QED BY <1>1, BufferInvHolds, PTL

-----------------------------------------------------------------------------
(***************************************************************************)
(* Each started device is in one deque, once                               *)
(***************************************************************************)

\* A step that keeps the deques and which devices are started.
LEMMA SameDevices ==
  ASSUME DevicesOwned, UNCHANGED <<ports, device>>
  PROVE  DevicesOwned'
  BY DEF DevicesOwned

\* Without ports and started devices.
LEMMA NoDevices ==
  ASSUME \A r \in Runtimes : ports[r] = <<>>, \A d \in Devices : device[d] # "started"
  PROVE  DevicesOwned
  BY DEF DevicesOwned

\* Steps that begin or end the life of the EAL find no port.
LEMMA EalDevices ==
  ASSUME BufferInv, BufferInv', DevicesOwned, NEW r \in Runtimes,
         EalInit(r) \/ EalCleanup(r) \/ GiveBack(r)
  PROVE  DevicesOwned'
  <1>1. \A q : ~IsPort(q, ports)
    BY PortsInEffect DEF BufferInv, OwnerInv, OwnerShape, OneRuntime, InEffect, EalInit, EalCleanup, GiveBack
  <1>2. \A t \in Runtimes : ports[t] = <<>>
    <2> SUFFICES ASSUME NEW t \in Runtimes, ports[t] # <<>> PROVE FALSE
      OBVIOUS
    <2>1. 1 \in DOMAIN ports[t]
      BY DEF BufferInv, OwnerInv, OwnerType
    <2> QED BY <1>1, <2>1 DEF IsPort
  <1>3. \A d \in Devices : device[d] # "started"
    BY <1>2 DEF DevicesOwned
  <1>4. \A d \in Devices : device'[d] # "started"
    BY <1>3 DEF EalInit, EalCleanup, GiveBack, devVars
  <1>5. \A t \in Runtimes : ports'[t] = <<>>
    <2>1. CASE ports' = ports
      BY <1>2, <2>1
    <2>2. CASE TakeOver(r, then[r])
      <3>1. then[r] \in Runtimes /\ ports \in [Runtimes -> Seq(PortType)]
        BY DEF BufferInv, OwnerInv, OwnerType
      <3>2. ports' = [ports EXCEPT ![r] = ports[then[r]], ![then[r]] = <<>>]
        BY <2>2 DEF TakeOver
      <3> QED BY <1>2, <3>1, <3>2
    <2> QED BY <2>1, <2>2 DEF EalInit, EalCleanup, GiveBack
  <1> QED BY <1>4, <1>5 DEF DevicesOwned

\* A move renames the deque.
LEMMA MoveDevices ==
  ASSUME BufferInv, DevicesOwned, NEW r \in Runtimes, NEW from \in Runtimes,
         MoveConstruct(r, from) \/ MoveAssign(r, from)
  PROVE  DevicesOwned'
  <1>1. /\ OwnerType /\ r # from /\ TakeOver(r, from) /\ device' = device /\ ports[r] = <<>>
    BY DEF BufferInv, OwnerInv, OwnerType, OwnerShape, MoveConstruct, MoveAssign, devVars
  <1>2. /\ ports'[r] = ports[from] /\ ports'[from] = <<>>
        /\ \A q \in Runtimes \ {r, from} : ports'[q] = ports[q]
    BY <1>1, TakeOverEach
  <1> QED BY <1>1, <1>2 DEF DevicesOwned

\* add_port: the device was not started, so no deque has it.
LEMMA AddPortDevices ==
  ASSUME BufferInv, DevicesOwned, NEW r \in Runtimes, NEW d \in Devices, NEW p \in Pools,
         add_port(r, d, p)
  PROVE  DevicesOwned'
  <1> DEFINE x == [dev |-> d, pool |-> p]
             n == Len(ports[r])
  <1>1. /\ ports \in [Runtimes -> Seq(PortType)] /\ x \in PortType /\ x.dev = d
        /\ device[d] = "probed" /\ ports' = [ports EXCEPT ![r] = Append(@, x)]
        /\ \A e \in Devices : device'[e] = (IF e = d THEN "started" ELSE device[e])
    BY DEF BufferInv, BufferType, OwnerInv, OwnerType, add_port, PortType
  <1>2. /\ n \in Nat /\ DOMAIN ports[r] = 1 .. n /\ ports'[r] = Append(ports[r], x)
        /\ \A t \in Runtimes \ {r} : ports'[t] = ports[t]
    BY <1>1
  <1>3. /\ DOMAIN ports'[r] = 1 .. (n + 1) /\ ports'[r][n + 1].dev = d
        /\ \A i \in 1 .. n : ports'[r][i] = ports[r][i]
    BY <1>1, <1>2
  <1>4. \A t \in Runtimes : \A i \in DOMAIN ports[t] : ports[t][i].dev # d
    BY <1>1 DEF DevicesOwned
  <1> HIDE DEF x, n
  <1>5. \A t \in Runtimes : \A i \in DOMAIN ports'[t] :
          \/ t = r /\ i = n + 1
          \/ i \in DOMAIN ports[t] /\ ports'[t][i] = ports[t][i]
    BY <1>2, <1>3
  <1>6. \A t \in Runtimes : \A i \in DOMAIN ports[t] : i \in DOMAIN ports'[t] /\ ports'[t][i] = ports[t][i]
    BY <1>2, <1>3
  <1>7. n + 1 \in DOMAIN ports'[r]
    BY <1>2, <1>3
  <1>8. \A e \in Devices :
          device'[e] = "started" <=> \E t \in Runtimes : \E i \in DOMAIN ports'[t] : ports'[t][i].dev = e
    BY <1>1, <1>3, <1>5, <1>6, <1>7 DEF DevicesOwned
  <1>9. \A t, q \in Runtimes : \A i \in DOMAIN ports'[t], j \in DOMAIN ports'[q] :
          ports'[t][i].dev = ports'[q][j].dev => t = q /\ i = j
    BY <1>3, <1>4, <1>5 DEF DevicesOwned
  <1> QED BY <1>8, <1>9 DEF DevicesOwned

\* ports_.clear(): the device that is closed was in the deque once.
LEMMA ClearPortDevices ==
  ASSUME BufferInv, DevicesOwned, NEW r \in Runtimes, ClearPort(r)
  PROVE  DevicesOwned'
  <1> DEFINE n == Len(ports[r])
             e0 == Head(ports[r]).dev
  <1>1. /\ ports \in [Runtimes -> Seq(PortType)] /\ ports[r] # <<>>
        /\ ports' = [ports EXCEPT ![r] = Tail(@)] /\ device' = [device EXCEPT ![e0] = "closed"]
    BY DEF BufferInv, OwnerInv, OwnerType, ClearPort
  <1>2. /\ n \in Nat \ {0} /\ DOMAIN ports[r] = 1 .. n /\ ports'[r] = Tail(ports[r])
        /\ \A t \in Runtimes \ {r} : ports'[t] = ports[t]
    BY <1>1
  <1>3. /\ DOMAIN ports'[r] = 1 .. (n - 1) /\ e0 = ports[r][1].dev /\ 1 \in DOMAIN ports[r]
        /\ \A i \in 1 .. (n - 1) : ports'[r][i] = ports[r][i + 1]
    BY <1>1, <1>2
  <1>4. \A d \in Devices : device'[d] = (IF d = e0 THEN "closed" ELSE device[d])
    BY <1>1 DEF BufferInv, BufferType
  <1> HIDE DEF n, e0
  <1> DEFINE Old(t, i) == IF t = r THEN i + 1 ELSE i
  <1>5. \A t \in Runtimes : \A i \in DOMAIN ports'[t] :
          Old(t, i) \in DOMAIN ports[t] /\ ports'[t][i] = ports[t][Old(t, i)]
    <2> SUFFICES ASSUME NEW t \in Runtimes, NEW i \in DOMAIN ports'[t]
                 PROVE  Old(t, i) \in DOMAIN ports[t] /\ ports'[t][i] = ports[t][Old(t, i)]
      OBVIOUS
    <2>1. CASE t = r
      <3>1. i \in 1 .. (n - 1) /\ Old(t, i) = i + 1
        BY <1>3, <2>1
      <3>2. i + 1 \in 1 .. n
        BY <1>2, <3>1
      <3> QED BY <1>2, <1>3, <2>1, <3>1, <3>2
    <2> QED BY <1>2, <2>1
  <1>6. \A t \in Runtimes : \A i \in DOMAIN ports[t] :
          \/ t = r /\ i = 1
          \/ \E j \in DOMAIN ports'[t] : ports'[t][j] = ports[t][i]
    <2> SUFFICES ASSUME NEW t \in Runtimes, NEW i \in DOMAIN ports[t], ~(t = r /\ i = 1)
                 PROVE  \E j \in DOMAIN ports'[t] : ports'[t][j] = ports[t][i]
      OBVIOUS
    <2>1. CASE t = r
      <3>1. i - 1 \in DOMAIN ports'[r] /\ ports'[r][i - 1] = ports[r][i]
        BY <1>2, <1>3, <2>1
      <3> QED BY <2>1, <3>1
    <2> QED BY <1>2, <2>1
  <1>7. \A t \in Runtimes : \A i \in DOMAIN ports'[t] : ports'[t][i].dev # e0
    <2> SUFFICES ASSUME NEW t \in Runtimes, NEW i \in DOMAIN ports'[t], ports'[t][i].dev = e0
                 PROVE  FALSE
      OBVIOUS
    <2>1. Old(t, i) \in DOMAIN ports[t] /\ ports[t][Old(t, i)].dev = e0
      BY <1>5
    <2>2. t = r /\ Old(t, i) = 1
      BY <1>3, <2>1 DEF DevicesOwned
    <2>3. i \in 1 .. (n - 1) /\ i + 1 = 1
      BY <1>3, <2>2
    <2> QED BY <1>2, <2>3
  <1>8. \A d \in Devices :
          device'[d] = "started" <=> \E t \in Runtimes : \E i \in DOMAIN ports'[t] : ports'[t][i].dev = d
    <2> HIDE DEF Old
    <2> QED BY <1>3, <1>4, <1>5, <1>6, <1>7 DEF DevicesOwned
  <1>9. ASSUME NEW t \in Runtimes, NEW q \in Runtimes, NEW i \in DOMAIN ports'[t],
               NEW j \in DOMAIN ports'[q], ports'[t][i].dev = ports'[q][j].dev
        PROVE  t = q /\ i = j
    <2>1. t = q /\ Old(t, i) = Old(q, j)
      <3> HIDE DEF Old
      <3> QED BY <1>5, <1>9 DEF DevicesOwned
    <2>2. i \in Int /\ j \in Int
      BY <1>1, <1>2, <1>3
    <2> QED BY <2>1, <2>2
  <1> QED BY <1>8, <1>9 DEF DevicesOwned

\* Every step preserves DevicesOwned.
LEMMA NextDevices == BufferInv /\ BufferInv' /\ DevicesOwned /\ [Next]_vars => DevicesOwned'
  <1> SUFFICES ASSUME BufferInv, BufferInv', DevicesOwned, [Next]_vars PROVE DevicesOwned'
    OBVIOUS
  <1>1. ASSUME NEW r \in Runtimes, NEW from \in Runtimes,
               \/ ClaimRuntime(r) \/ EalInitFails(r) \/ BeginTeardown(r, from)
               \/ DestroyMovedFrom(r)
        PROVE  DevicesOwned'
    BY <1>1, SameDevices DEF ClaimRuntime, EalInitFails, BeginTeardown, DestroyMovedFrom, devVars
  <1>2. ASSUME NEW r \in Runtimes, EalInit(r) \/ EalCleanup(r) \/ GiveBack(r) PROVE DevicesOwned'
    BY <1>2, EalDevices
  <1>3. ASSUME NEW r \in Runtimes, NEW p \in CustomPools, create_pool(r, p) PROVE DevicesOwned'
    BY <1>3, SameDevices DEF create_pool, objVars, devVars
  <1>4. ASSUME NEW r \in Runtimes, NEW i \in DOMAIN ports[r], get_pool(r, i) PROVE DevicesOwned'
    BY <1>4, SameDevices DEF get_pool, objVars, devVars
  <1>5. ASSUME NEW r \in Runtimes, NEW d \in Devices, NEW p \in Pools, add_port(r, d, p)
        PROVE  DevicesOwned'
    BY <1>5, AddPortDevices
  <1>6. ASSUME NEW r \in Runtimes, NEW d \in Devices, NEW p \in Pools, NEW set_up \in BOOLEAN,
               AddPortThrows(r, d, p, set_up)
        PROVE  DevicesOwned'
    BY <1>6, SameDevices DEF AddPortThrows, objVars
  <1>7. ASSUME NEW r \in Runtimes, NEW from \in Runtimes,
               MoveConstruct(r, from) \/ MoveAssign(r, from)
        PROVE  DevicesOwned'
    BY <1>7, MoveDevices
  <1>8. ASSUME NEW r \in Runtimes, ClearPort(r) PROVE DevicesOwned'
    BY <1>8, ClearPortDevices
  <1>9. ASSUME NEW p \in Pools, DropHandle(p) PROVE DevicesOwned'
    BY <1>9, SameDevices DEF DropHandle, objVars, devVars
  <1>10. ASSUME NEW d \in Devices, NEW p \in Pools, Send(d, p) \/ TxDone(d, p)
         PROVE  DevicesOwned'
    BY <1>10, SameDevices DEF Send, TxDone, objVars
  <1>11. ASSUME UNCHANGED vars PROVE DevicesOwned'
    BY <1>11, SameDevices DEF vars, objVars, devVars
  <1>12. CASE Next
    BY <1>12, <1>1, <1>2, <1>3, <1>4, <1>5, <1>6, <1>7, <1>8, <1>9, <1>10, Zenon DEF Next
  <1> QED BY <1>11, <1>12

\* Through failed constructors, moves of the runtime and teardown, every started device is
\* in one deque, once: it is closed, and closed once.
THEOREM DevicesOwnedHolds == Spec => []DevicesOwned
  <1>1. Init => DevicesOwned
    BY NoDevices DEF Init
  <1> QED BY <1>1, NextDevices, BufferInvHolds, PTL DEF Spec

\* Whichever attempts to add a device failed, with whatever pools, and however the runtime
\* is moved and torn down: a port's RX queues draw from its own pool, and a pool exists
\* exactly while a port or the program refers to it.
THEOREM RxFromOwnPoolHolds == Spec => []RxFromOwnPool
  <1>1. BufferInv /\ DevicesOwned => RxFromOwnPool
    <2> SUFFICES ASSUME BufferInv, DevicesOwned, NEW r \in Runtimes, NEW i \in DOMAIN ports[r]
                 PROVE  rx_pool[ports[r][i].dev] = ports[r][i].pool
      BY DEF RxFromOwnPool, BufferInv
    <2> DEFINE d == ports[r][i].dev
               q == [dev |-> d, pool |-> rx_pool[d]]
    <2>1. ports[r] \in Seq(PortType) /\ ports[r][i] \in PortType
      BY DEF BufferInv, OwnerInv, OwnerType
    <2>2. d \in Devices
      BY <2>1 DEF PortType
    <2>3. IsPort(q, ports)
      BY <2>2 DEF DevicesOwned, BufferInv, StartedShape
    <2>4. PICK t \in Runtimes : \E j \in DOMAIN ports[t] : ports[t][j] = q
      BY <2>3 DEF IsPort
    <2>5. PICK j \in DOMAIN ports[t] : ports[t][j] = q
      BY <2>4
    <2>6. t = r /\ j = i
      BY <2>2, <2>5 DEF DevicesOwned
    <2>7. ports[r][i].pool = q.pool
      BY <2>5, <2>6
    <2> QED BY <2>7
  <1> QED BY <1>1, BufferInvHolds, DevicesOwnedHolds, PTL
=============================================================================
