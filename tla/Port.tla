-------------------------------- MODULE Port --------------------------------
(***************************************************************************)
(* port objects of src/src/port.cpp: which object owns the device it       *)
(* configured, across moves and destruction, and which queues the two      *)
(* claim forms have handed out.  Moving leaves the source without queues   *)
(* and without the device; handed counts, per device, how often each queue *)
(* was handed out since the device was started.                            *)
(***************************************************************************)
EXTENDS Integers, FiniteSets

CONSTANTS Objects, \* port variables of the program
          Devices, \* DPDK port ids
          NRx, NTx \* queues configured of each kind

ASSUME NQueuesAssumption == NRx \in Nat /\ NTx \in Nat

Kinds == {"rx", "tx"}
Count(k) == IF k = "rx" THEN NRx ELSE NTx
Ids(k) == 0 .. (Count(k) - 1)
Queues == UNION {{k} \X Ids(k) : k \in Kinds}

VARIABLES alive,   \* objects constructed and not destroyed
          port_id, owns_device,
          queues,  \* rx_queues_ and tx_queues_
          claimed, \* rx_claimed_ and tx_claimed_
          cursor,  \* next_rx_claim_ and next_tx_claim_
          started, \* devices configured and running
          handed

vars == <<alive, port_id, owns_device, queues, claimed, cursor, started, handed>>

Init ==
  /\ alive = {} /\ started = {}
  /\ port_id \in [Objects -> Devices]
  /\ owns_device = [o \in Objects |-> FALSE]
  /\ queues = [o \in Objects |-> {}]
  /\ claimed = [o \in Objects |-> {}]
  /\ cursor = [o \in Objects |-> [k \in Kinds |-> 0]]
  /\ handed = [d \in Devices |-> [q \in Queues |-> 0]]

-----------------------------------------------------------------------------
\* The constructor that configures and starts a device.  Configuring a running one
\* fails; a failure at any step leaves no object.  A closed device can be attached
\* again under its id, which is then valid once more.
Construct(o, d) ==
  /\ o \notin alive /\ d \notin started
  /\ alive' = alive \cup {o}
  /\ port_id' = [port_id EXCEPT ![o] = d]
  /\ owns_device' = [owns_device EXCEPT ![o] = TRUE]
  /\ queues' = [queues EXCEPT ![o] = Queues]
  /\ claimed' = [claimed EXCEPT ![o] = {}]
  /\ cursor' = [cursor EXCEPT ![o] = [k \in Kinds |-> 0]]
  /\ started' = started \cup {d}
  /\ handed' = [handed EXCEPT ![d] = [q \in Queues |-> 0]]

\* rte_eth_dev_stop and rte_eth_dev_close, if o owns its device.
Closed(o) == IF owns_device[o] THEN started \ {port_id[o]} ELSE started

\* Mutant: the source still believes it owns the device.
TakeKeepsOwner(o, from) ==
  /\ port_id' = [port_id EXCEPT ![o] = port_id[from]]
  /\ owns_device' = [owns_device EXCEPT ![o] = owns_device[from]]
  /\ queues' = [queues EXCEPT ![o] = queues[from], ![from] = {}]
  /\ claimed' = [claimed EXCEPT ![o] = claimed[from], ![from] = {}]
  /\ cursor' = [cursor EXCEPT ![o] = cursor[from]]

\* Every member moves from one object to the other; the source keeps its port id and
\* cursors.
Take(o, from) ==
  /\ port_id' = [port_id EXCEPT ![o] = port_id[from]]
  /\ owns_device' = [owns_device EXCEPT ![o] = owns_device[from], ![from] = FALSE]
  /\ queues' = [queues EXCEPT ![o] = queues[from], ![from] = {}]
  /\ claimed' = [claimed EXCEPT ![o] = claimed[from], ![from] = {}]
  /\ cursor' = [cursor EXCEPT ![o] = cursor[from]]

MoveConstruct(o, from) ==
  /\ o \notin alive /\ from \in alive
  /\ alive' = alive \cup {o}
  /\ Take(o, from)
  /\ UNCHANGED <<started, handed>>

MoveAssign(o, from) ==
  /\ o \in alive /\ from \in alive /\ o # from
  /\ started' = Closed(o)
  /\ Take(o, from)
  /\ UNCHANGED <<alive, handed>>

Destroy(o) ==
  /\ o \in alive
  /\ alive' = alive \ {o}
  /\ started' = Closed(o)
  /\ owns_device' = [owns_device EXCEPT ![o] = FALSE]
  /\ queues' = [queues EXCEPT ![o] = {}]
  /\ claimed' = [claimed EXCEPT ![o] = {}]
  /\ cursor' = [cursor EXCEPT ![o] = [k \in Kinds |-> 0]]
  /\ UNCHANGED <<port_id, handed>>

-----------------------------------------------------------------------------
\* Queue q of o is handed to the caller.
Hand(o, q) ==
  /\ claimed' = [claimed EXCEPT ![o] = @ \cup {q}]
  /\ handed' = [handed EXCEPT ![port_id[o]][q] = @ + 1]

\* Mutant: ids claimed by number are not skipped.
claim_nextIgnoresIds(o, k) ==
  /\ o \in alive
  /\ LET c == cursor[o][k]
     IN  IF <<k, c>> \in queues[o]
         THEN Hand(o, <<k, c>>) /\ cursor' = [cursor EXCEPT ![o][k] = c + 1]
         ELSE UNCHANGED <<claimed, handed, cursor>>
  /\ UNCHANGED <<alive, port_id, owns_device, queues, started>>

\* claim_next: the cursor moves past what was claimed by id; the queue it then stands
\* on is handed out, unless it is past the last one.
claim_next(o, k) ==
  /\ o \in alive
  /\ \E c \in cursor[o][k] .. (cursor[o][k] + Count(k)) :
       /\ \A i \in cursor[o][k] .. (c - 1) : <<k, i>> \in queues[o] /\ <<k, i>> \in claimed[o]
       /\ <<k, c>> \in queues[o] => <<k, c>> \notin claimed[o]
       /\ IF <<k, c>> \in queues[o]
          THEN Hand(o, <<k, c>>) /\ cursor' = [cursor EXCEPT ![o][k] = c + 1]
          ELSE cursor' = [cursor EXCEPT ![o][k] = c] /\ UNCHANGED <<claimed, handed>>
  /\ UNCHANGED <<alive, port_id, owns_device, queues, started>>

\* Mutant: claiming by id also advances the cursor.
claim_by_idMovesCursor(o, q) ==
  /\ o \in alive /\ q \in queues[o] /\ q \notin claimed[o]
  /\ Hand(o, q)
  /\ cursor' = [cursor EXCEPT ![o][q[1]] = q[2] + 1]
  /\ UNCHANGED <<alive, port_id, owns_device, queues, started>>

\* claim_by_id: an unknown id throws and a claimed one gives nullptr; neither changes
\* anything.
claim_by_id(o, q) ==
  /\ o \in alive /\ q \in queues[o] /\ q \notin claimed[o]
  /\ Hand(o, q)
  /\ UNCHANGED <<alive, port_id, owns_device, queues, cursor, started>>

Next ==
  \E o \in Objects :
    \/ \E d \in Devices : Construct(o, d)
    \/ \E from \in Objects : MoveConstruct(o, from) \/ MoveAssign(o, from)
    \/ Destroy(o)
    \/ \E k \in Kinds : claim_next(o, k)
    \/ \E q \in Queues : claim_by_id(o, q)

Spec == Init /\ [][Next]_vars

-----------------------------------------------------------------------------
\* Properties

TypeOK ==
  /\ alive \in SUBSET Objects /\ started \in SUBSET Devices
  /\ port_id \in [Objects -> Devices]
  /\ owns_device \in [Objects -> BOOLEAN]
  /\ queues \in [Objects -> {Queues, {}}]
  /\ claimed \in [Objects -> SUBSET Queues]
  /\ cursor \in [Objects -> [Kinds -> Nat]]
  /\ handed \in [Devices -> [Queues -> Nat]]

\* Every running device is owned by exactly one object, which will close it: moving a
\* port neither leaks its device nor lets two destructors close it.
OneOwner ==
  /\ \A d \in started : \E o \in alive : owns_device[o] /\ port_id[o] = d
  /\ \A o \in Objects : owns_device[o] => o \in alive /\ port_id[o] \in started
  /\ \A o, p \in Objects :
       owns_device[o] /\ owns_device[p] /\ port_id[o] = port_id[p] => o = p

\* "mixing the two never hands the same queue out twice" (src/include/port.h), moves of
\* the port object included.
HandedOnce == \A d \in started, q \in Queues : handed[d][q] <= 1

\* claim_next passes over no queue that was not handed out, so it gives an empty pointer
\* only "once every configured queue has been claimed".
NothingSkipped ==
  \A o \in Objects, k \in Kinds : \A i \in Ids(k) :
    owns_device[o] /\ i < cursor[o][k] => handed[port_id[o]][<<k, i>>] = 1
=============================================================================
