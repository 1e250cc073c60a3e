--------------------------- MODULE ConnLifecycle ----------------------------
(***************************************************************************)
(* What the connection table promises the application, slot by slot: a     *)
(* slot is used by one connection at a time; its events come as accepted,  *)
(* perhaps peer_closed, then closed or reset and nothing more; closed      *)
(* comes only after close() finished our direction; and an accepted        *)
(* connection's slot is reused only when it is over and was released by    *)
(* close() (src/include/tcp_stack.h, tcp_event_type and close()).          *)
(***************************************************************************)
EXTENDS Sequences

CONSTANT Slots

VARIABLES in_use,   \* the slot has a connection
          log,      \* its events other than data, oldest first
          finished, \* close() has finished our direction
          released  \* close() has returned

vars == <<in_use, log, finished, released>>

Init ==
  /\ in_use = [s \in Slots |-> FALSE]
  /\ log = [s \in Slots |-> <<>>]
  /\ finished = [s \in Slots |-> FALSE]
  /\ released = [s \in Slots |-> FALSE]

Ended(l) == l # <<>> /\ l[Len(l)] \in {"closed", "reset"}

\* A handshake begins in an unused slot.
Begin(s) ==
  /\ ~in_use[s]
  /\ in_use' = [in_use EXCEPT ![s] = TRUE]
  /\ log' = [log EXCEPT ![s] = <<>>]
  /\ finished' = [finished EXCEPT ![s] = FALSE]
  /\ released' = [released EXCEPT ![s] = FALSE]

\* The event e may follow the events of l.
MayFollow(e, l, fin) ==
  CASE e = "accepted" -> l = <<>>
    [] e = "peer_closed" -> l = <<"accepted">>
    [] e = "closed" -> l # <<>> /\ ~Ended(l) /\ fin
    [] e = "reset" -> l # <<>> /\ ~Ended(l)

Report(s, e) ==
  /\ in_use[s] /\ MayFollow(e, log[s], finished[s])
  /\ log' = [log EXCEPT ![s] = Append(@, e)]
  /\ UNCHANGED <<in_use, finished, released>>

\* close() finishes our direction, then gives the slot up.
Finish(s) ==
  /\ in_use[s] /\ log[s] # <<>> /\ ~released[s]
  /\ finished' = [finished EXCEPT ![s] = TRUE]
  /\ UNCHANGED <<in_use, log, released>>

Release(s) ==
  /\ in_use[s] /\ log[s] # <<>> /\ ~released[s]
  /\ released' = [released EXCEPT ![s] = TRUE]
  /\ UNCHANGED <<in_use, log, finished>>

\* A connection never accepted goes at once, an accepted one when both sides are done.
Recycle(s) ==
  /\ in_use[s]
  /\ log[s] = <<>> \/ (Ended(log[s]) /\ released[s])
  /\ in_use' = [in_use EXCEPT ![s] = FALSE]
  /\ UNCHANGED <<log, finished, released>>

Next ==
  \E s \in Slots :
    \/ Begin(s) \/ Finish(s) \/ Release(s) \/ Recycle(s)
    \/ \E e \in {"accepted", "peer_closed", "closed", "reset"} : Report(s, e)

Spec == Init /\ [][Next]_vars
=============================================================================
