---------------------------- MODULE MCJudgeQueue ----------------------------
(* Instances of JudgeQueue for TLC.                                        *)
EXTENDS JudgeQueue, TLC

CONSTANTS w1, w2        \* model values

MCWorkers  == {w1, w2}
MCOneWorker == {w1}
MCSymmetry == Permutations(MCWorkers)

\* Two submissions of one team for one problem.
OneTeamTeams   == {"t1"}
OneTeamOf      == [s \in Submissions |-> "t1"]
OneProblems    == {"p1"}
OneProblemOf   == [s \in Submissions |-> "p1"]

\* An insertion right after the previous one, or when the team penalty is over.
MCGaps == {0, 2}
MCLaterGap == {2}
=============================================================================
