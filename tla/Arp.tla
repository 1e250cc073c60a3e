--------------------------------- MODULE Arp --------------------------------
(***************************************************************************)
(* ARP of src/src/arp.cpp: the fixed-capacity neighbor table (linear       *)
(* probing, nothing is ever removed) and handle_arp, which feeds it and    *)
(* answers requests.  Reads of the table are find_slot and lookup; known   *)
(* is a history of what was last learned for each address.                 *)
(***************************************************************************)
EXTENDS Integers, FiniteSets

CONSTANTS Ips,      \* neighbours' addresses; 0 is 0.0.0.0
          Macs,
          Capacity,
          Size,     \* slots_.size(): more than the capacity
          Homes,    \* the hash functions to consider
          none      \* no address learned, not a MAC

Cells == 0 .. (Size - 1)

ASSUME ArpAssumption ==
  /\ Capacity \in Nat \ {0} /\ Size \in Nat /\ Size >= 2 * Capacity
  /\ 0 \notin Ips /\ none \notin Macs
  /\ Homes \subseteq [Ips -> Cells]

VARIABLES slots, size, hash,
          result, \* of the last handle_arp: arp_result, and whether reply was filled in
          known

vars == <<slots, size, hash, result, known>>

EmptySlot == [ip |-> 0, mac |-> none]

Init ==
  /\ slots = [c \in Cells |-> EmptySlot] /\ size = 0
  /\ hash \in Homes
  /\ result = [arp |-> "not_arp", reply |-> FALSE]
  /\ known = [ip \in Ips |-> none]

-----------------------------------------------------------------------------
\* How many steps of the probe lead from the address's first cell to c.
Steps(ip, c) == IF hash[ip] <= c THEN c - hash[ip] ELSE c - hash[ip] + Size

\* Mutant: the probe stops at the first occupied cell too.
find_slotNoProbe(ip) == hash[ip]

\* The first cell of the probe that has the address or is empty.
find_slot(ip) ==
  LET hits == {c \in Cells : slots[c].ip \in {ip, 0}}
  IN  CHOOSE c \in hits : \A b \in hits : Steps(ip, c) <= Steps(ip, b)

lookup(ip) ==
  LET e == slots[find_slot(ip)] IN IF e.ip = ip THEN e.mac ELSE none

Write(c, ip, mac) ==
  /\ slots' = [slots EXCEPT ![c] = [ip |-> ip, mac |-> mac]]
  /\ known' = [known EXCEPT ![ip] = mac]

Present(ip) == ip # 0 /\ slots[find_slot(ip)].ip = ip

\* learn() returns true: 0.0.0.0 is never learned, and a full table learns nothing new.
Learns(ip) == ip # 0 /\ (slots[find_slot(ip)].ip = 0 => size < Capacity)

\* Insert or overwrite.
learn(ip, mac) ==
  IF Learns(ip)
  THEN /\ Write(find_slot(ip), ip, mac)
       /\ size' = IF slots[find_slot(ip)].ip = 0 THEN size + 1 ELSE size
  ELSE UNCHANGED <<slots, size, known>>

\* Mutant: an unknown sender is added whoever was asked for.
update_if_presentAdds(ip, mac) == learn(ip, mac)

\* Overwrite only.
update_if_present(ip, mac) ==
  /\ UNCHANGED size
  /\ IF Present(ip) THEN Write(find_slot(ip), ip, mac) ELSE UNCHANGED <<slots, known>>

-----------------------------------------------------------------------------
\* Not an ARP frame, or not a well-formed IPv4-over-Ethernet one.
handle_arpOther(kind) ==
  /\ result' = [arp |-> kind, reply |-> FALSE]
  /\ UNCHANGED <<slots, size, hash, known>>

\* A well-formed frame from sip/sha.  A request for our address is answered if the
\* pool has a packet for it (built).
handle_arp(for_us, request, sip, sha, built) ==
  /\ IF for_us THEN learn(sip, sha) ELSE update_if_present(sip, sha)
  /\ LET learned == IF for_us THEN Learns(sip) ELSE Present(sip)
         reply == for_us /\ request /\ built
     IN  result' = [arp |-> IF reply THEN "replied"
                            ELSE IF learned \/ (for_us /\ request) THEN "learned" ELSE "ignored",
                    reply |-> reply]
  /\ UNCHANGED hash

Next ==
  \/ \E kind \in {"not_arp", "ignored"} : handle_arpOther(kind)
  \/ \E for_us, request, built \in BOOLEAN, sip \in Ips \cup {0}, sha \in Macs :
       handle_arp(for_us, request, sip, sha, built)

Spec == Init /\ [][Next]_vars

-----------------------------------------------------------------------------
\* Properties

\* lookup() returns the address last learned, whatever else collided with it.
LookupIsKnown == \A ip \in Ips : lookup(ip) = known[ip]

\* RFC 826's merge: a new neighbour comes from a frame that asked for or answered us, and
\* a known one is never dropped.
OnlyOurPeersAdded ==
  [][/\ \A ip \in Ips : known[ip] # none => known'[ip] # none
     /\ \A ip \in Ips : known[ip] = none /\ known'[ip] # none =>
          \E request, built \in BOOLEAN, sha \in Macs : handle_arp(TRUE, request, ip, sha, built)]_vars
=============================================================================
