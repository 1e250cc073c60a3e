----------------------------- MODULE MCTcpStack -----------------------------
(***************************************************************************)
(* Segments for TLC.  Peers start at sequence number 0 and the endpoint at *)
(* the largest one, so that its first byte is number 0: the send side      *)
(* wraps during the handshake.                                             *)
(***************************************************************************)
EXTENDS TcpLifecycle

MCIss == {SeqSize - 1}

Seg(k, flags, seq, ack, window, len) ==
  [key |-> k, flags |-> flags, seq |-> seq, ack |-> ack, window |-> window,
   len |-> len, mss |-> 1]

\* For two slots at a time, without FINs: the first peer opens and resets connections,
\* inside and outside the receive window, the second opens one and stays.
ResetSegments ==
  (UNION {{Seg(k, {"SYN"}, 0, 0, 1, 0), Seg(k, {"ACK"}, 1, 0, 1, 0)} : k \in Keys})
  \cup {Seg(1, {"RST"}, seq, 0, 0, 0) : seq \in {1, 3}}

\* One connection exchanging data: overlapping, repeated, missing and unacceptable bytes,
\* a FIN with or without payload, ACKs of nothing, of data, of our FIN and of something
\* never sent, an open and a closed window, a reset.
DataSegments ==
  {Seg(1, {"SYN"}, 0, 0, 2, 0), Seg(1, {"RST"}, 1, 0, 0, 0), Seg(1, {}, 1, 0, 0, 1)}
  \cup {Seg(1, {"ACK"}, 1, 0, 2, len) : len \in 0 .. 2}
  \cup {Seg(1, {"ACK"}, 2, 1, 0, 1)}
  \cup {Seg(1, {"FIN", "ACK"}, 1, 0, 2, 1), Seg(1, {"FIN", "ACK"}, 2, 2, 2, 0)}

\* The application also holds a value-initialized conn_id.
DefaultId == [slot |-> 0, generation |-> 0]
DefaultIdSpec == StackInit /\ held = {DefaultId} /\ closed_ids = {} /\ [][Next]_vars

\* "Generations start at 1: a value-initialized conn_id is never valid"
\* (src/include/tcp_stack.h): no lookup of one succeeds.
DefaultIdNeverValid == Holding => tx.conn # DefaultId

\* Bound: the slots' first connections only.
FirstConnections == \A s \in Slots : generation[s] <= 1

\* Bound: slot 0 is used again and again, the others for one connection.
OneSlotReused == \A s \in Slots \ {0} : generation[s] <= 1
=============================================================================
