----------------------------- MODULE MCHearings -----------------------------
(***************************************************************************)
(* Three hearing ids, so that a hearing, its follow-up and another meet,   *)
(* and two requests at a time.  One assignment row: the scan treats every  *)
(* row as it does the first.                                               *)
(***************************************************************************)
EXTENDS Hearings, TLC

CONSTANTS h1, h2, h3, l1, l2, a1, t1, t2

MCHearingIds == {h1, h2, h3}
TwoLawyers   == {l1, l2}
OneRow       == {a1}
TwoRequests  == {t1, t2}
AheadAndDay  == <<1, 0>>

\* Ids, lawyers and requests are interchangeable.
Symmetry == Permutations(MCHearingIds) \cup Permutations(TwoLawyers)
            \cup Permutations(TwoRequests)

=============================================================================
