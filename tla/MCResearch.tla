----------------------------- MODULE MCResearch -----------------------------
(* Two requests at a time over two sessions, under a limit of one question *)
(* or none at all, and a month that ends.                                  *)
EXTENDS Research, TLC

CONSTANTS t1, t2, s1, s2

MCTxs      == {t1, t2}
MCSessions == {s1, s2}
MCLimits   == {0, 1}

\* Requests are interchangeable, and so are sessions.
Symmetry == Permutations(MCTxs) \cup Permutations(MCSessions)

=============================================================================
