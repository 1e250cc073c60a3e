------------------------------ MODULE Vectors -------------------------------
(***************************************************************************)
(* The std::vector operations the slot lists are built from.               *)
(***************************************************************************)
EXTENDS Sequences, Integers, Functions

back(q) == q[Len(q)]
pop_back(q) == SubSeq(q, 1, Len(q) - 1)
=============================================================================
