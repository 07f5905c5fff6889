---------------------------- MODULE MCTestCache -----------------------------
(* Small instances of TestCache for TLC.                                   *)
EXTENDS TestCache, TLC

CONSTANTS p1, p2, u1, u2

TwoProblems == {p1, p2}
OneProblem == {p1}
TwoCallers == {u1, u2}

\* One entry for each problem in the map and one for each call.
FourEntries == 1..4

\* Every suite fits into a budget of 2, those of p1 and p2 together do not,
\* and an edit changes the size.
Sizes == [x \in Problems \X (0..MaxEdits) |-> IF x[1] = p1 THEN 1 + (x[2] % 2) ELSE 2 - (x[2] % 2)]
CallerSymmetry == Permutations(Callers)
=============================================================================
