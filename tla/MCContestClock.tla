--------------------------- MODULE MCContestClock ---------------------------
(* Small instances of ContestClock for TLC.                                *)
EXTENDS ContestClock, TLC

CONSTANTS o1, o2, r1

OneOrganizer == {o1}
TwoOrganizers == {o1, o2}
OneRefresher == {r1}
NoRefresher == {}
OrganizerSymmetry == Permutations(Organizers)
=============================================================================
