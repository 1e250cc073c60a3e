------------------------------ MODULE Runtime -------------------------------
(***************************************************************************)
(* runtime objects of src/src/runtime.cpp: which of them owns the EAL, the *)
(* ports in its deque, the pools those ports and the program share, and    *)
(* the order of teardown.  The claim on g_runtime_exists, rte_eal_init,    *)
(* the closing of each port, rte_eal_cleanup and the store that gives the  *)
(* claim back are steps of their own, so that threads constructing and     *)
(* destroying runtimes interleave.                                         *)
(*                                                                         *)
(* A port is its device and the pool it shares (module Port has the rest). *)
(* EAL options are left to EAL.  Pools stand for their names: the default  *)
(* pool of a device is named after it.                                     *)
(***************************************************************************)
EXTENDS Sequences, Integers

CONSTANTS Runtimes,     \* runtime variables of the program
          Devices,      \* DPDK port ids
          CustomPools,  \* names given to create_pool
          NoPool,
          HandlesFirst  \* the program drops its pools before the runtime goes

ASSUME PoolAssumption == NoPool \notin Devices \cup CustomPools

Pools == Devices \cup CustomPools
PortType == [dev : Devices, pool : Pools]

VARIABLES g_runtime_exists,
          eal,      \* up from rte_eal_init to rte_eal_cleanup
          life,     \* where each runtime object is in its life
          owns_eal, \* owns_eal_
          ports,    \* ports_
          then,     \* what operator= takes over when its teardown is done
          device,   \* each device: absent, probed, started, or closed for good
          rx_pool,  \* the pool its RX queues were set up with
          tx_ring,  \* pools with buffers in its TX rings
          pools,    \* mempools that exist
          handles   \* pools the program has a shared_ptr to

ealVars == <<g_runtime_exists, eal>>
objVars == <<life, owns_eal, ports, then>>
devVars == <<device, rx_pool, tx_ring>>
poolVars == <<pools, handles>>
vars == <<ealVars, objVars, devVars, poolVars>>

Init ==
  /\ g_runtime_exists = FALSE /\ eal = "down"
  /\ life = [r \in Runtimes |-> "absent"]
  /\ owns_eal = [r \in Runtimes |-> FALSE]
  /\ ports = [r \in Runtimes |-> <<>>]
  /\ then = [r \in Runtimes |-> r]
  /\ device = [d \in Devices |-> "absent"]
  /\ rx_pool = [d \in Devices |-> NoPool]
  /\ tx_ring = [d \in Devices |-> {}]
  /\ pools = {} /\ handles = {}

-----------------------------------------------------------------------------
\* The constructor

\* compare_exchange_strong on g_runtime_exists; a second runtime throws.
ClaimRuntime(r) ==
  /\ life[r] = "absent" /\ ~g_runtime_exists
  /\ g_runtime_exists' = TRUE
  /\ life' = [life EXCEPT ![r] = "claimed"]
  /\ UNCHANGED <<eal, owns_eal, ports, then, devVars, poolVars>>

\* rte_eal_init probes the devices.
EalInit(r) ==
  /\ life[r] = "claimed"
  /\ eal' = "up"
  /\ life' = [life EXCEPT ![r] = "alive"]
  /\ owns_eal' = [owns_eal EXCEPT ![r] = TRUE]
  /\ device' = [d \in Devices |-> "probed"]
  /\ UNCHANGED <<g_runtime_exists, ports, then, rx_pool, tx_ring, poolVars>>

\* Mutant: the failed constructor keeps the claim.
EalInitFailsClaimed(r) ==
  /\ life[r] = "claimed"
  /\ life' = [life EXCEPT ![r] = "absent"]
  /\ UNCHANGED <<ealVars, owns_eal, ports, then, devVars, poolVars>>

\* rte_eal_init failed: the claim is given back and the constructor throws.
EalInitFails(r) ==
  /\ life[r] = "claimed"
  /\ g_runtime_exists' = FALSE
  /\ life' = [life EXCEPT ![r] = "absent"]
  /\ UNCHANGED <<eal, owns_eal, ports, then, devVars, poolVars>>

-----------------------------------------------------------------------------
\* Pools and ports.  The program uses the runtime that owns the EAL, not a moved-from
\* one.

Usable(r) == life[r] = "alive" /\ owns_eal[r]

\* The pools a port of some runtime has a reference to.
PortPools(ps) == UNION {{ps[r][i].pool : i \in DOMAIN ps[r]} : r \in Runtimes}

\* What remains to be freed of p when ps are the ports and hs the program's handles.
Unreferenced(p, ps, hs) == {p} \ (PortPools(ps) \cup hs)

\* create_pool(): a name in use makes rte_pktmbuf_pool_create fail, which throws.
create_pool(r, p) ==
  /\ Usable(r) /\ p \notin pools
  /\ pools' = pools \cup {p} /\ handles' = handles \cup {p}
  /\ UNCHANGED <<ealVars, objVars, devVars>>

\* port::get_pool of the i-th port.
get_pool(r, i) ==
  /\ Usable(r) /\ i \in DOMAIN ports[r]
  /\ handles' = handles \cup {ports[r][i].pool}
  /\ UNCHANGED <<ealVars, objVars, devVars, pools>>

\* The last reference to a pool frees its mempool.
DropHandle(p) ==
  /\ p \in handles
  /\ handles' = handles \ {p}
  /\ pools' = pools \ Unreferenced(p, ports, handles \ {p})
  /\ UNCHANGED <<ealVars, objVars, devVars>>

\* The pool add_port gives the port's constructor: the caller's, or for p = d a new one
\* from make_default_pool.
PoolFor(d, p) == p \in handles \/ (p = d /\ d \notin pools)

\* Mutant: RX queues that an earlier attempt set up are not set up again.
AddPortKeepsQueues(r, d, p) ==
  /\ Usable(r) /\ device[d] = "probed" /\ PoolFor(d, p)
  /\ pools' = pools \cup {p}
  /\ device' = [device EXCEPT ![d] = "started"]
  /\ rx_pool' = [rx_pool EXCEPT ![d] = IF @ = NoPool THEN p ELSE @]
  /\ ports' = [ports EXCEPT ![r] = Append(@, [dev |-> d, pool |-> p])]
  /\ UNCHANGED <<ealVars, life, owns_eal, then, tx_ring, handles>>

\* Mutant: the local port still owns the device after its move, and closes it.
AddPortClosesDevice(r, d, p) ==
  /\ Usable(r) /\ device[d] = "probed" /\ PoolFor(d, p)
  /\ pools' = pools \cup {p}
  /\ device' = [device EXCEPT ![d] = "closed"]
  /\ ports' = [ports EXCEPT ![r] = Append(@, [dev |-> d, pool |-> p])]
  /\ UNCHANGED <<ealVars, life, owns_eal, then, rx_pool, tx_ring, handles>>

\* add_port(): the constructed port is moved to the end of the deque.
add_port(r, d, p) ==
  /\ Usable(r) /\ device[d] = "probed" /\ PoolFor(d, p)
  /\ pools' = pools \cup {p}
  /\ device' = [device EXCEPT ![d] = "started"]
  /\ rx_pool' = [rx_pool EXCEPT ![d] = p]
  /\ ports' = [ports EXCEPT ![r] = Append(@, [dev |-> d, pool |-> p])]
  /\ UNCHANGED <<ealVars, life, owns_eal, then, tx_ring, handles>>

\* port's constructor throws, before or after it set RX queues up.  No destructor runs:
\* the device keeps those queues, while the constructor's reference to their pool goes.
AddPortThrows(r, d, p, rx_set_up) ==
  /\ Usable(r) /\ device[d] \in {"probed", "started"} /\ PoolFor(d, p)
  /\ device[d] = "started" => ~rx_set_up
  /\ rx_pool' = IF rx_set_up THEN [rx_pool EXCEPT ![d] = p] ELSE rx_pool
  /\ UNCHANGED <<ealVars, objVars, device, tx_ring, poolVars>>

\* A packet is sent on d, whatever pool its buffer is from; the driver frees it some time
\* later.  (The program sends nothing once the runtime is being torn down.)
Send(d, p) ==
  /\ \E r \in Runtimes : Usable(r)
  /\ device[d] = "started" /\ p \in pools /\ p \notin tx_ring[d]
  /\ tx_ring' = [tx_ring EXCEPT ![d] = @ \cup {p}]
  /\ UNCHANGED <<ealVars, objVars, device, rx_pool, poolVars>>

TxDone(d, p) ==
  /\ device[d] = "started" /\ p \in tx_ring[d]
  /\ tx_ring' = [tx_ring EXCEPT ![d] = @ \ {p}]
  /\ UNCHANGED <<ealVars, objVars, device, rx_pool, poolVars>>

-----------------------------------------------------------------------------
\* Moves and the destructor

\* The members move to r; the source keeps an empty deque.
TakeOver(r, from) ==
  /\ owns_eal' = [owns_eal EXCEPT ![r] = owns_eal[from], ![from] = FALSE]
  /\ ports' = [ports EXCEPT ![r] = ports[from], ![from] = <<>>]

MoveConstruct(r, from) ==
  /\ life[r] = "absent" /\ life[from] = "alive"
  /\ life' = [life EXCEPT ![r] = "alive"]
  /\ TakeOver(r, from)
  /\ UNCHANGED <<ealVars, then, devVars, poolVars>>

\* operator= of an object that does not own the EAL.
MoveAssign(r, from) ==
  /\ r # from /\ life[r] = "alive" /\ life[from] = "alive" /\ ~owns_eal[r]
  /\ TakeOver(r, from)
  /\ UNCHANGED <<ealVars, life, then, devVars, poolVars>>

\* The destructor of an object that does not own the EAL has nothing to do.  (No object
\* goes while an assignment from it is in progress.)
DestroyMovedFrom(r) ==
  /\ life[r] = "alive" /\ ~owns_eal[r]
  /\ \A q \in Runtimes : then[q] = r => q = r
  /\ life' = [life EXCEPT ![r] = "absent"]
  /\ UNCHANGED <<ealVars, owns_eal, ports, then, devVars, poolVars>>

\* The destructor (from = r) or operator= of the owner of the EAL begins.
BeginTeardown(r, from) ==
  /\ Usable(r) /\ life[from] = "alive"
  /\ HandlesFirst => handles = {}
  /\ life' = [life EXCEPT ![r] = "clearing"]
  /\ then' = [then EXCEPT ![r] = from]
  /\ UNCHANGED <<ealVars, owns_eal, ports, devVars, poolVars>>

\* ports_.clear(), one port, front first: the device is stopped and closed, which frees
\* what its rings hold, and then the port's reference to its pool goes.
ClearPort(r) ==
  /\ life[r] = "clearing" /\ ports[r] # <<>>
  /\ LET p == Head(ports[r])
         rest == [ports EXCEPT ![r] = Tail(@)]
     IN  /\ device' = [device EXCEPT ![p.dev] = "closed"]
         /\ rx_pool' = [rx_pool EXCEPT ![p.dev] = NoPool]
         /\ tx_ring' = [tx_ring EXCEPT ![p.dev] = {}]
         /\ ports' = rest
         /\ pools' = pools \ Unreferenced(p.pool, rest, handles)
  /\ UNCHANGED <<ealVars, life, owns_eal, then, handles>>

\* Mutant: the claim is given back before rte_eal_cleanup.
EalCleanupUnclaimed(r) ==
  /\ life[r] = "clearing" /\ ports[r] = <<>>
  /\ g_runtime_exists' = FALSE
  /\ life' = [life EXCEPT ![r] = "cleaned"]
  /\ UNCHANGED <<eal, owns_eal, ports, then, devVars, poolVars>>

\* Mutant: the ports are left to the deque's own destructor.
EalCleanupFirst(r) ==
  /\ life[r] = "clearing"
  /\ eal' = "down"
  /\ life' = [life EXCEPT ![r] = "cleaned"]
  /\ UNCHANGED <<g_runtime_exists, owns_eal, ports, then, devVars, poolVars>>

EalCleanup(r) ==
  /\ life[r] = "clearing" /\ ports[r] = <<>>
  /\ eal' = "down"
  /\ device' = [d \in Devices |-> "absent"]
  /\ rx_pool' = [d \in Devices |-> NoPool]
  /\ life' = [life EXCEPT ![r] = "cleaned"]
  /\ UNCHANGED <<g_runtime_exists, owns_eal, ports, then, tx_ring, poolVars>>

\* Mutant: the moved-to object keeps believing that it owns the EAL.
GiveBackKeepsOwner(r) ==
  /\ life[r] = "cleaned"
  /\ g_runtime_exists' = FALSE
  /\ life' = [life EXCEPT ![r] = IF then[r] = r THEN "absent" ELSE "alive"]
  /\ UNCHANGED <<eal, owns_eal, ports, then, devVars, poolVars>>

\* g_runtime_exists.store(false); the destructor ends, operator= takes the other's members.
GiveBack(r) ==
  /\ life[r] = "cleaned"
  /\ g_runtime_exists' = FALSE
  /\ IF then[r] = r
     THEN /\ life' = [life EXCEPT ![r] = "absent"]
          /\ owns_eal' = [owns_eal EXCEPT ![r] = FALSE]
          /\ UNCHANGED ports
     ELSE /\ life' = [life EXCEPT ![r] = "alive"]
          /\ TakeOver(r, then[r])
  /\ then' = [then EXCEPT ![r] = r]
  /\ UNCHANGED <<eal, devVars, poolVars>>

Next ==
  \/ \E r \in Runtimes :
       \/ ClaimRuntime(r) \/ EalInit(r) \/ EalInitFails(r)
       \/ \E p \in CustomPools : create_pool(r, p)
       \/ \E i \in DOMAIN ports[r] : get_pool(r, i)
       \/ \E d \in Devices, p \in Pools :
            add_port(r, d, p) \/ \E set_up \in BOOLEAN : AddPortThrows(r, d, p, set_up)
       \/ \E from \in Runtimes : \/ MoveConstruct(r, from) \/ MoveAssign(r, from)
                                 \/ BeginTeardown(r, from)
       \/ DestroyMovedFrom(r) \/ ClearPort(r) \/ EalCleanup(r) \/ GiveBack(r)
  \/ \E p \in Pools : DropHandle(p)
  \/ \E d \in Devices, p \in Pools : Send(d, p) \/ TxDone(d, p)

Spec == Init /\ [][Next]_vars

-----------------------------------------------------------------------------
\* Properties

TypeOK ==
  /\ g_runtime_exists \in BOOLEAN /\ eal \in {"up", "down"}
  /\ life \in [Runtimes -> {"absent", "claimed", "alive", "clearing", "cleaned"}]
  /\ owns_eal \in [Runtimes -> BOOLEAN]
  /\ ports \in [Runtimes -> Seq(PortType)]
  /\ then \in [Runtimes -> Runtimes]
  /\ device \in [Devices -> {"absent", "probed", "started", "closed"}]
  /\ rx_pool \in [Devices -> Pools \cup {NoPool}]
  /\ tx_ring \in [Devices -> SUBSET Pools]
  /\ pools \subseteq Pools /\ handles \subseteq pools

\* r has claimed the EAL and not given it back.
InEffect(r) == life[r] \in {"claimed", "clearing", "cleaned"} \/ owns_eal[r]

\* "Exactly one runtime may exist per process at a time" (src/include/runtime.h), through
\* moves and with threads racing to construct and to destroy: nobody calls rte_eal_init
\* before the previous owner's rte_eal_cleanup has returned.
OneRuntime ==
  /\ \A r, q \in Runtimes : InEffect(r) /\ InEffect(q) => r = q
  /\ \A r \in Runtimes : life[r] = "claimed" => eal = "down"

\* The flag is set exactly while some runtime is in effect: a constructor that throws, a
\* move or a teardown never locks the process out of a new one.
ClaimNotLeaked == g_runtime_exists <=> \E r \in Runtimes : InEffect(r)

\* The EAL is up exactly while an object will clean it up.
EalFollowsOwner ==
  eal = "up" <=> \E r \in Runtimes : owns_eal[r] /\ life[r] \in {"alive", "clearing"}

\* "Ports (and the packet_pool each one owns) must be torn down before the EAL is"
\* (src/src/runtime.cpp): with the EAL down no port is left to close.
PortsClosedFirst == eal = "down" => \A r \in Runtimes : ports[r] = <<>>

\* What is left of "making sure every pool is freed before the EAL is torn down"
\* (src/include/packet_pool.h): the runtime frees the pools of its ports, and a pool the
\* program has a shared_ptr to goes in time only if the program drops it first, which is
\* "the caller's own scoping responsibility" there and HandlesFirst here.
PoolsFreedFirst == eal = "down" => pools = {}

\* A port owns "the packet_pool those RX queues pull from" (src/include/port.h): a mempool
\* exists exactly while a port or the program refers to it, and a port's RX queues are set
\* up with its own pool, never with that of an earlier add_port that threw half-way.
RxFromOwnPool ==
  /\ pools = PortPools(ports) \cup handles
  /\ \A r \in Runtimes : \A i \in DOMAIN ports[r] : rx_pool[ports[r][i].dev] = ports[r][i].pool

\* "no teardown order to remember" (src/README.md): the pools that buffers in the TX rings
\* of a running device go back to still exist.  They do not: ports_.clear() frees the pool
\* of one port while the next one still has its buffers.
TxRingsHavePools == \A d \in Devices : device[d] = "started" => tx_ring[d] \subseteq pools

\* A started device is in exactly one deque, once: it is closed, and closed once.
DevicesOwned ==
  /\ \A d \in Devices :
       device[d] = "started" <=> \E r \in Runtimes : \E i \in DOMAIN ports[r] : ports[r][i].dev = d
  /\ \A r, q \in Runtimes : \A i \in DOMAIN ports[r], j \in DOMAIN ports[q] :
       ports[r][i].dev = ports[q][j].dev => r = q /\ i = j
=============================================================================
