------------------------------ MODULE SeqSpace ------------------------------
(***************************************************************************)
(* Sequence-space arithmetic of src/src/tcp_connection.h: unsigned         *)
(* integers of a fixed width, compared through the sign of their           *)
(* difference.  SeqSize is 2^32 in the code.                                *)
(***************************************************************************)
EXTENDS Integers

CONSTANT SeqSize

ASSUME SeqSizeAssumption == SeqSize \in Nat /\ SeqSize >= 4 /\ SeqSize % 2 = 0

SeqNums == 0 .. (SeqSize - 1)

\* uint32_t addition and subtraction
SeqAdd(a, b) == (a + b) % SeqSize
SeqSub(a, b) == (a - b) % SeqSize

\* static_cast<int32_t>(a - b) < 0: the top bit of the difference is set
seq_lt(a, b) == SeqSub(a, b) >= SeqSize \div 2
seq_leq(a, b) == a = b \/ seq_lt(a, b)
seq_gt(a, b) == seq_lt(b, a)
seq_geq(a, b) == seq_leq(b, a)

\* {snd_una, window} packed into one 64-bit word: one value, never torn.
pack_window(una, wnd) == [una |-> una, wnd |-> wnd]

\* Mutant: the bytes under way are not counted.
window_spaceUnsent(window, nxt) == window.wnd

\* Bytes the peer's window still has room for; 0 when snd_nxt has passed the
\* right edge (the signed difference is not positive).
window_space(window, nxt) ==
  LET space == SeqSub(SeqAdd(window.una, window.wnd), nxt)
  IN  IF space < SeqSize \div 2 THEN space ELSE 0
=============================================================================
