-------------------------- MODULE MCRunnerLimiter ---------------------------
(* A small instance of RunnerLimiter for TLC.                              *)
EXTENDS RunnerLimiter, TLC

CONSTANTS r1, r2, r3, s1, s2

ThreeRuns == {r1, r2, r3}
TwoSubmits == {s1, s2}
=============================================================================
