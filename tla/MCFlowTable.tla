---------------------------- MODULE MCFlowTable -----------------------------
EXTENDS FlowTable

\* Hash functions into the cells around the wrap, where runs collide and cross the end.
\* Keys are interchangeable: of the functions that differ by a renaming of keys one is
\* enough.
HomesAtWrap ==
  {h \in [Keys -> {0, 1, Size - 2, Size - 1}] : \A k, l \in Keys : k < l => h[k] <= h[l]}
=============================================================================
