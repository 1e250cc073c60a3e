---------------------------- MODULE TcpLifecycle ----------------------------
(***************************************************************************)
(* The TCP endpoint implements the life cycle it promises the application. *)
(***************************************************************************)
EXTENDS TcpStack

\* The table implements the life cycle it promises the application.
Lifecycle == INSTANCE ConnLifecycle
  WITH in_use <- [s \in Slots |-> InUse(s)], log <- seen,
       finished <- [s \in Slots |-> "fin_sent" \in out_flags[s]],
       released <- [s \in Slots |-> "released" \in out_flags[s]]
LifecycleSpec == Lifecycle!Spec
=============================================================================
