----------------------------- MODULE MCPackets -----------------------------
EXTENDS Packets, TLC
\* Objects, devices, mbufs and variables are only told apart by their names.
Symmetry == Permutations(Objects) \cup Permutations(Devices) \cup Permutations(Mbufs)
              \cup Permutations(Bursts)
=============================================================================
