-------------------------- MODULE JudgeQueueProofs --------------------------
(***************************************************************************)
(* Proofs about JudgeQueue for any number of submissions, teams, problems  *)
(* and workers.                                                            *)
(***************************************************************************)
EXTENDS JudgeQueue, TLAPS

-----------------------------------------------------------------------------
(* Types.                                                                  *)

\* Every outcome of an evaluation has a verdict and a score in range, and its
\* state is final.
LEMMA OutcomeType ==
    ASSUME NEW r \in Outcomes
    PROVE  /\ r.verdict \in Verdicts
           /\ r.score \in 0..MaxScore
           /\ submissionStatus(r.verdict, r.score) \in {"passed", "failed"}
  BY ConstantsAssumption, SMT DEF Outcomes, Verdicts, submissionStatus

\* Giving one worker a well-typed local state keeps the workers well typed.
LEMMA WorkerUpdate ==
    ASSUME WorkersTypeOK, NEW w \in Workers, NEW r \in WorkerStates,
           r.pc # "idle" => r.sub \in Submissions,
           r.pc = "completing" => r.outcome \in Outcomes,
           worker' = [worker EXCEPT ![w] = r]
    PROVE  WorkersTypeOK'
  BY DEF WorkersTypeOK

\* A worker that goes back to its loop is well typed.
LEMMA IdleType ==
    /\ IdleWorker \in WorkerStates
    /\ IdleWorker.pc = "idle"
  BY DEF IdleWorker, WorkerStates

\* Retrying the completing transaction or giving up keeps the types.
LEMMA RetryType ==
    ASSUME WorkersTypeOK, NEW w \in Workers, worker[w].pc = "completing", RetryOrGiveUp(w)
    PROVE  WorkersTypeOK'
<1> DEFINE retried == [worker[w] EXCEPT !.tries = @ + 1]
<1>1. retried \in WorkerStates /\ retried.pc = "completing"
      /\ retried.sub \in Submissions /\ retried.outcome \in Outcomes
  BY DEF WorkersTypeOK, WorkerStates
<1>2. \/ worker' = [worker EXCEPT ![w] = retried]
      \/ worker' = [worker EXCEPT ![w] = IdleWorker]
  BY DEF RetryOrGiveUp, WorkersTypeOK
<1> QED
  BY <1>1, <1>2, IdleType, WorkerUpdate

\* Workers' local states stay well typed in every step.
LEMMA WorkersTypeStep ==
    ASSUME WorkersTypeOK, TableTypeOK, Next
    PROVE  WorkersTypeOK'
<1> USE ConstantsAssumption
<1>1. ASSUME UNCHANGED worker
      PROVE  WorkersTypeOK'
  BY <1>1 DEF WorkersTypeOK
<1>2. ASSUME NEW w \in Workers, SelectSubmission(w)
      PROVE  WorkersTypeOK'
  <2>1. PICK s \in Submissions :
           worker' = [worker EXCEPT ![w] = [IdleWorker EXCEPT !.pc = "selected", !.sub = s]]
    BY <1>2 DEF SelectSubmission, Claimable
  <2> DEFINE r == [IdleWorker EXCEPT !.pc = "selected", !.sub = s]
  <2>2. r \in WorkerStates /\ r.pc = "selected" /\ r.sub \in Submissions
    BY DEF IdleWorker, WorkerStates
  <2> QED
    BY <2>1, <2>2, WorkerUpdate
<1>3. ASSUME NEW w \in Workers, CommitClaim(w)
      PROVE  WorkersTypeOK'
  <2> DEFINE s == worker[w].sub
             r == [IdleWorker EXCEPT !.pc = "evaluating", !.sub = s,
                                     !.claim = FreshClaim, !.epoch = epoch[s]]
  <2>1. s \in Submissions
    BY <1>3 DEF CommitClaim, WorkersTypeOK
  <2>2. r \in WorkerStates /\ r.pc = "evaluating" /\ r.sub \in Submissions
    BY <2>1 DEF IdleWorker, WorkerStates, FreshClaim, TableTypeOK
  <2>3. \/ worker' = [worker EXCEPT ![w] = r]
        \/ worker' = [worker EXCEPT ![w] = IdleWorker]
    BY <1>3 DEF CommitClaim
  <2> QED
    BY <2>2, <2>3, IdleType, WorkerUpdate
<1>4. ASSUME NEW w \in Workers,
             AbortClaim(w) \/ AbandonEvaluation(w) \/ CompleteAfterLoss(w) \/ Crash(w)
      PROVE  WorkersTypeOK'
  BY <1>4, IdleType, WorkerUpdate
     DEF AbortClaim, AbandonEvaluation, CompleteAfterLoss, Crash
<1>5. ASSUME NEW w \in Workers, Evaluate(w)
      PROVE  WorkersTypeOK'
  <2>1. PICK o \in Outcomes :
           worker' = [worker EXCEPT ![w] = [worker[w] EXCEPT !.pc = "completing", !.outcome = o]]
    BY <1>5 DEF Evaluate, WorkersTypeOK
  <2> DEFINE r == [worker[w] EXCEPT !.pc = "completing", !.outcome = o]
  <2>2. r \in WorkerStates /\ r.sub \in Submissions /\ r.outcome \in Outcomes
    BY <1>5, ZenonT(40) DEF WorkersTypeOK, WorkerStates, Evaluate
  <2> QED
    BY <2>1, <2>2, WorkerUpdate
<1>6. ASSUME NEW w \in Workers, CompleteSubmission(w) \/ CompleteFails(w)
      PROVE  WorkersTypeOK'
  BY <1>6, IdleType, WorkerUpdate, RetryType DEF CompleteSubmission, CompleteFails
<1> QED
  BY <1>1, <1>2, <1>3, <1>4, <1>5, <1>6
     DEF Next, ContestantStep, WorkerStep, LeaseStep, OrganizerStep,
         CheckSubmission, InsertSubmission, RejectDuplicate, RenewLease, TickLease,
         ReclaimExpiredLeases, FailSubmissions, RejudgeRows, RejudgeSubmission,
         RejudgeProblemSubmissions, CancelSubmission, UnstickTeamSubmissions, ReviewSubmission

\* The table's columns stay well typed in every step.
LEMMA TableTypeStep ==
    ASSUME TableTypeOK, WorkersTypeOK, Next
    PROVE  TableTypeOK'
<1> USE ConstantsAssumption
<1>1. ASSUME NEW s \in Submissions,
             CheckSubmission(s) \/ InsertSubmission(s) \/ RejectDuplicate(s)
      PROVE  TableTypeOK'
  BY <1>1 DEF TableTypeOK, CheckSubmission, InsertSubmission, RejectDuplicate, RowStates,
              queueCols, resultCols
<1>2. ASSUME UNCHANGED <<tableVars, nextClaim, clock, epoch>>
      PROVE  TableTypeOK'
  BY <1>2 DEF TableTypeOK, tableVars, queueCols, resultCols
<1>3. ASSUME NEW w \in Workers, CommitClaim(w)
      PROVE  TableTypeOK'
  <2>1. worker[w].sub \in Submissions
    BY <1>3 DEF CommitClaim, WorkersTypeOK
  <2> QED
    BY <1>3, <2>1 DEF TableTypeOK, CommitClaim, FreshClaim, RowStates, resultCols
<1>4. ASSUME NEW w \in Workers, RenewLease(w)
      PROVE  TableTypeOK'
  <2>1. worker[w].sub \in Submissions
    BY <1>4 DEF RenewLease, Judging, WorkersTypeOK
  <2> QED
    BY <1>4, <2>1 DEF TableTypeOK, RenewLease, resultCols
<1>5. ASSUME NEW w \in Workers, CompleteSubmission(w)
      PROVE  TableTypeOK'
  <2> DEFINE s == worker[w].sub
             r == worker[w].outcome
  <2>1. s \in Submissions /\ r \in Outcomes /\ worker[w].epoch \in Nat
    BY <1>5 DEF WorkersTypeOK, CompleteSubmission, WorkerStates
  <2>2. /\ r.verdict \in Verdicts
        /\ r.score \in 0..MaxScore
        /\ submissionStatus(r.verdict, r.score) \in {"passed", "failed"}
    BY <2>1, OutcomeType
  <2> QED
    BY <1>5, <2>1, <2>2 DEF TableTypeOK, CompleteSubmission, RowStates, recomputeProblemScore
<1>6. ASSUME NEW s \in Submissions, TickLease(s)
      PROVE  TableTypeOK'
  BY <1>6 DEF TableTypeOK, TickLease, resultCols
<1>7. ASSUME NEW S, NEW R, FailSubmissions(S, R)
      PROVE  TableTypeOK'
  <2>1. isRejudge' \in [Submissions -> BOOLEAN]
    BY <1>7 DEF TableTypeOK, FailSubmissions
  <2>2. finished' \in [Submissions -> BOOLEAN]
    BY <1>7 DEF TableTypeOK, FailSubmissions
  <2>3. /\ state' \in [Submissions -> RowStates \cup {"absent", "checked"}]
        /\ verdict' \in [Submissions -> Verdicts \cup {None}]
    BY <1>7 DEF TableTypeOK, FailSubmissions, RowStates, Verdicts
  <2>4. score' \in [Submissions -> 0..MaxScore] /\ rowPoints' \in [Submissions -> 0..MaxScore]
    BY <1>7 DEF TableTypeOK, FailSubmissions
  <2>5. /\ claimedBy' \in [Submissions -> Nat \cup {None}]
        /\ lease' \in [Submissions -> 0..LeaseTTL]
        /\ attempts' \in [Submissions -> Nat]
    BY <1>7 DEF TableTypeOK, FailSubmissions
  <2>6. epoch' \in [Submissions -> Nat] /\ resultEpoch' \in [Submissions -> Nat]
    BY <1>7 DEF TableTypeOK, FailSubmissions
  <2>7. DOMAIN problemScores' = Pairs /\ UNCHANGED <<review, createdAt, nextClaim, clock>>
    BY <1>7 DEF FailSubmissions, recomputeProblemScore
  <2> QED
    BY <2>1, <2>2, <2>3, <2>4, <2>5, <2>6, <2>7 DEF TableTypeOK
<1>8. ASSUME NEW S, RejudgeRows(S)
      PROVE  TableTypeOK'
  <2>1. isRejudge' \in [Submissions -> BOOLEAN]
    BY <1>8 DEF TableTypeOK, RejudgeRows
  <2>2. finished' \in [Submissions -> BOOLEAN]
    BY <1>8 DEF TableTypeOK, RejudgeRows
  <2>3. /\ state' \in [Submissions -> RowStates \cup {"absent", "checked"}]
        /\ verdict' \in [Submissions -> Verdicts \cup {None}]
    BY <1>8 DEF TableTypeOK, RejudgeRows, RowStates, Verdicts
  <2>4. score' \in [Submissions -> 0..MaxScore] /\ rowPoints' \in [Submissions -> 0..MaxScore]
    BY <1>8 DEF TableTypeOK, RejudgeRows
  <2>5. /\ claimedBy' \in [Submissions -> Nat \cup {None}]
        /\ lease' \in [Submissions -> 0..LeaseTTL]
        /\ attempts' \in [Submissions -> Nat]
    BY <1>8 DEF TableTypeOK, RejudgeRows
  <2>6. epoch' \in [Submissions -> Nat] /\ resultEpoch' \in [Submissions -> Nat]
    BY <1>8 DEF TableTypeOK, RejudgeRows
  <2>7. DOMAIN problemScores' = Pairs /\ UNCHANGED <<review, createdAt, nextClaim, clock>>
    BY <1>8 DEF RejudgeRows, recomputeProblemScore
  <2> QED
    BY <2>1, <2>2, <2>3, <2>4, <2>5, <2>6, <2>7 DEF TableTypeOK
<1>9. ASSUME NEW s \in Submissions, NEW d \in {"accepted", "rejected"}, ReviewSubmission(s, d)
      PROVE  TableTypeOK'
  BY <1>9 DEF TableTypeOK, ReviewSubmission, recomputeProblemScore, queueCols, resultCols
<1> QED
  BY <1>1, <1>2, <1>3, <1>4, <1>5, <1>6, <1>7, <1>8, <1>9
     DEF Next, ContestantStep, WorkerStep, LeaseStep, OrganizerStep,
         SelectSubmission, AbortClaim, AbandonEvaluation, Evaluate, CompleteAfterLoss,
         CompleteFails, Crash, ReclaimExpiredLeases, RejudgeSubmission,
         RejudgeProblemSubmissions, CancelSubmission, UnstickTeamSubmissions

\* Initially everything has its type.
LEMMA TypeInit == Init => TypeOK
  BY ConstantsAssumption, IdleType
     DEF Init, TypeOK, TableTypeOK, WorkersTypeOK, RowStates

\* Type correctness of the queue, for every instance.
THEOREM TypeCorrect == Spec => []TypeOK
<1>1. ASSUME TypeOK, [Next]_vars
      PROVE  TypeOK'
  <2>1. CASE Next
    BY <1>1, <2>1, TableTypeStep, WorkersTypeStep DEF TypeOK
  <2>2. CASE UNCHANGED vars
    BY <1>1, <2>2 DEF TypeOK, TableTypeOK, WorkersTypeOK, vars, tableVars, queueCols, resultCols
  <2> QED
    BY <1>1, <2>1, <2>2
<1> QED
  BY <1>1, TypeInit, PTL DEF Spec

-----------------------------------------------------------------------------
(* The inductive invariant: besides the properties themselves, who may     *)
(* hold which lock and which claim.                                        *)

\* A claim transaction holds the lock on a queued row, and holds it alone.
LocksHeld ==
    /\ \A w \in Workers : worker[w].pc = "selected" => state[worker[w].sub] = "queued"
    /\ \A v, w \in Workers :
          (/\ worker[v].pc = "selected" /\ worker[w].pc = "selected"
           /\ worker[v].sub = worker[w].sub) => v = w

\* Claim ids come from the past, and no two workers judge under the same one.
ClaimsUnique ==
    /\ \A w \in Workers : Judging(w) => worker[w].claim < nextClaim
    /\ \A s \in Submissions : claimedBy[s] \in Nat => claimedBy[s] < nextClaim
    /\ \A v, w \in Workers :
          (Judging(v) /\ Judging(w) /\ worker[v].claim = worker[w].claim) => v = w

\* A worker whose claim the row still shows is judging for the latest rejudge.
ClaimsCurrent ==
    \A w \in Workers : (Judging(w) /\ claimedBy[worker[w].sub] = worker[w].claim)
                          => worker[w].epoch = epoch[worker[w].sub]

\* No claim has been spent on a submission that is not in the table.
UnclaimedRows == \A s \in Submissions : ~Exists(s) => attempts[s] = 0

QueueInv ==
    /\ TypeOK
    /\ LocksHeld
    /\ ClaimsUnique
    /\ ClaimsCurrent
    /\ UnclaimedRows
    /\ PoisonPillCap
    /\ FreshVerdict
    /\ OneFreshActive
    /\ ResultConsistent
    /\ ScoreboardExact

\* The invariant holds of the empty queue.
LEMMA QueueInvInit == Init => QueueInv
<1> SUFFICES ASSUME Init
             PROVE  QueueInv
  OBVIOUS
<1> USE ConstantsAssumption
<1>1. LocksHeld /\ ClaimsUnique /\ ClaimsCurrent
  BY DEF Init, LocksHeld, ClaimsUnique, ClaimsCurrent, Judging, IdleWorker
<1>2. UnclaimedRows /\ PoisonPillCap /\ FreshVerdict /\ OneFreshActive /\ ResultConsistent
  BY DEF Init, UnclaimedRows, PoisonPillCap, FreshVerdict, OneFreshActive, ResultConsistent,
         Terminal, Pending, Exists, RowStates
<1>3. ASSUME NEW k \in Pairs
      PROVE  ScoreRow(k) = NoScore
  <2>1. Eligible(k) = {}
    BY DEF Init, Eligible
  <2>2. DOMAIN RankKeys(k) = {}
    BY <2>1 DEF RankKeys
  <2> QED
    BY <2>2 DEF ScoreRow, TopRow
<1>4. ScoreboardExact
  BY <1>3 DEF Init, ScoreboardExact
<1> QED
  BY <1>1, <1>2, <1>4, TypeInit DEF QueueInv

-----------------------------------------------------------------------------
(* Each part of the invariant, step by step.                               *)

\* What the reaper, a cancellation and an unstick have in common: S are failed
\* and R requeued, and no row of them is locked by a claim.
FailStep(S, R) ==
    /\ S \subseteq Submissions /\ R \subseteq Submissions
    /\ \A s \in S : Pending(s) /\ ~Locked(s)
    /\ \A s \in R : state[s] = "running" /\ attempts[s] < MaxAttempts
    /\ FailSubmissions(S, R)

\* What the two rejudge commands have in common.
RejudgeStep(S) ==
    /\ S \subseteq Submissions
    /\ \A s \in S : Exists(s) /\ ~Locked(s)
    /\ RejudgeRows(S)

\* The commands of the reaper and the organizers are steps of these two kinds.
LEMMA StepCases ==
    ASSUME QueueInv, Next
    PROVE  \/ ContestantStep
           \/ WorkerStep
           \/ \E s \in Submissions : TickLease(s)
           \/ \E S, R : FailStep(S, R)
           \/ \E S : RejudgeStep(S)
           \/ \E s \in Submissions : \E d \in {"accepted", "rejected"} : ReviewSubmission(s, d)
<1> USE DEF QueueInv, TypeOK
<1>1. ASSUME ReclaimExpiredLeases
      PROVE  FailStep(GivenUp, Expired \ GivenUp)
  <2>1. \A s \in Submissions : state[s] = "running" => ~Locked(s)
    BY DEF LocksHeld, Locked
  <2> QED
    BY <1>1, <2>1, ConstantsAssumption
       DEF ReclaimExpiredLeases, FailStep, Expired, GivenUp, Pending, TableTypeOK
<1>2. ASSUME NEW s \in Submissions, CancelSubmission(s)
      PROVE  FailStep({s}, {})
  BY <1>2 DEF CancelSubmission, FailStep
<1>3. ASSUME NEW t \in Teams, UnstickTeamSubmissions(t)
      PROVE  \E S : FailStep(S, {})
  <2> DEFINE S == {s \in Submissions : TeamOf[s] = t /\ Pending(s)}
  <2>1. FailStep(S, {})
    BY <1>3 DEF UnstickTeamSubmissions, FailStep
  <2> QED
    BY <2>1
<1>4. ASSUME NEW s \in Submissions, RejudgeSubmission(s)
      PROVE  RejudgeStep({s})
  BY <1>4 DEF RejudgeSubmission, RejudgeStep
<1>5. ASSUME NEW p \in Problems, RejudgeProblemSubmissions(p)
      PROVE  \E S : RejudgeStep(S)
  <2> DEFINE S == {s \in Submissions : ProblemOf[s] = p /\ Terminal(s)}
  <2>1. \A s \in S : Exists(s) /\ ~Locked(s)
    BY DEF LocksHeld, Locked, Terminal, Exists, RowStates
  <2>2. RejudgeStep(S)
    BY <1>5, <2>1 DEF RejudgeProblemSubmissions, RejudgeStep
  <2> QED
    BY <2>2
<1> QED
  BY <1>1, <1>2, <1>3, <1>4, <1>5 DEF Next, LeaseStep, OrganizerStep

\* A row can be locked only while it is queued, and only by one claim.
LEMMA LocksStep ==
    ASSUME QueueInv, Next
    PROVE  LocksHeld'
<1> USE DEF QueueInv, TypeOK, LocksHeld
<1>1. ASSUME NEW s \in Submissions,
             CheckSubmission(s) \/ InsertSubmission(s) \/ RejectDuplicate(s)
      PROVE  LocksHeld'
  BY <1>1 DEF CheckSubmission, InsertSubmission, RejectDuplicate, TableTypeOK, WorkersTypeOK
<1>2. ASSUME NEW w \in Workers, SelectSubmission(w)
      PROVE  LocksHeld'
  <2>1. PICK s \in Submissions :
           /\ state[s] = "queued" /\ ~Locked(s)
           /\ worker' = [worker EXCEPT ![w] = [IdleWorker EXCEPT !.pc = "selected", !.sub = s]]
    BY <1>2 DEF SelectSubmission, Claimable
  <2> QED
    BY <1>2, <2>1, ZenonT(40) DEF SelectSubmission, IdleWorker, Locked, WorkersTypeOK, tableVars
<1>3. ASSUME NEW w \in Workers, CommitClaim(w)
      PROVE  LocksHeld'
  BY <1>3 DEF CommitClaim, IdleWorker, TableTypeOK, WorkersTypeOK
<1>4. ASSUME NEW w \in Workers,
             AbortClaim(w) \/ AbandonEvaluation(w) \/ CompleteAfterLoss(w) \/ Crash(w)
      PROVE  LocksHeld'
  BY <1>4 DEF AbortClaim, AbandonEvaluation, CompleteAfterLoss, Crash, IdleWorker,
              WorkersTypeOK, tableVars
<1>5. ASSUME NEW w \in Workers, RenewLease(w)
      PROVE  LocksHeld'
  BY <1>5 DEF RenewLease
<1>6. ASSUME NEW w \in Workers, Evaluate(w) \/ CompleteFails(w)
      PROVE  LocksHeld'
  BY <1>6 DEF Evaluate, CompleteFails, RetryOrGiveUp, IdleWorker, WorkersTypeOK, WorkerStates, tableVars
<1>7. ASSUME NEW w \in Workers, CompleteSubmission(w)
      PROVE  LocksHeld'
  <2>1. \A v \in Workers : worker'[v].pc = "selected" => worker'[v] = worker[v]
    BY <1>7 DEF CompleteSubmission, RetryOrGiveUp, IdleWorker, WorkersTypeOK, WorkerStates
  <2>2. \A r \in Submissions : state[r] = "queued" => state'[r] = "queued"
    BY <1>7 DEF CompleteSubmission, HoldsLease, TableTypeOK
  <2> QED
    BY <2>1, <2>2 DEF WorkersTypeOK
<1>8. ASSUME NEW s \in Submissions, TickLease(s)
      PROVE  LocksHeld'
  BY <1>8 DEF TickLease
<1>9. ASSUME NEW S, NEW R, FailStep(S, R)
      PROVE  LocksHeld'
  <2>1. \A s \in Submissions : state[s] = "queued" /\ Locked(s) => state'[s] = "queued"
    BY <1>9 DEF FailStep, FailSubmissions
  <2>2. UNCHANGED worker
    BY <1>9 DEF FailStep, FailSubmissions
  <2> QED
    BY <2>1, <2>2 DEF Locked, WorkersTypeOK
<1>10. ASSUME NEW S, RejudgeStep(S)
       PROVE  LocksHeld'
  BY <1>10 DEF RejudgeStep, RejudgeRows, WorkersTypeOK
<1>11. ASSUME NEW s \in Submissions, NEW d, ReviewSubmission(s, d)
       PROVE  LocksHeld'
  BY <1>11 DEF ReviewSubmission
<1> QED
  BY <1>1, <1>2, <1>3, <1>4, <1>5, <1>6, <1>7, <1>8, <1>9, <1>10, <1>11, StepCases
     DEF ContestantStep, WorkerStep

\* Claim ids stay unique: each claim takes a fresh one, and nothing else
\* changes who judges under which id, or hands an id to another row.
LEMMA ClaimsStep ==
    ASSUME QueueInv, Next
    PROVE  ClaimsUnique' /\ ClaimsCurrent'
<1> USE ConstantsAssumption DEF QueueInv, TypeOK
<1>1. ASSUME \A v \in Workers : Judging(v)' =>
                 /\ Judging(v)
                 /\ worker'[v].claim = worker[v].claim
                 /\ worker'[v].sub = worker[v].sub
                 /\ worker'[v].epoch = worker[v].epoch,
             \A s \in Submissions :
                 claimedBy'[s] = None \/ (claimedBy'[s] = claimedBy[s] /\ epoch'[s] = epoch[s]),
             UNCHANGED nextClaim
      PROVE  ClaimsUnique' /\ ClaimsCurrent'
  <2>1. ClaimsUnique'
    BY <1>1 DEF ClaimsUnique, TableTypeOK
  <2>2. ASSUME NEW v \in Workers, Judging(v)', claimedBy'[worker'[v].sub] = worker'[v].claim
        PROVE  worker'[v].epoch = epoch'[worker'[v].sub]
    <3>1. worker[v].sub \in Submissions /\ worker[v].claim \in Nat
      BY <1>1, <2>2 DEF Judging, WorkersTypeOK, WorkerStates
    <3> QED
      BY <1>1, <2>2, <3>1 DEF ClaimsCurrent
  <2> QED
    BY <2>1, <2>2 DEF ClaimsCurrent
<1>2. ASSUME NEW s \in Submissions,
             CheckSubmission(s) \/ InsertSubmission(s) \/ RejectDuplicate(s) \/ TickLease(s)
      PROVE  ClaimsUnique' /\ ClaimsCurrent'
  BY <1>1, <1>2 DEF CheckSubmission, InsertSubmission, RejectDuplicate, TickLease, Judging, queueCols
<1>3. ASSUME NEW w \in Workers,
             \/ SelectSubmission(w) \/ AbortClaim(w) \/ AbandonEvaluation(w)
             \/ CompleteAfterLoss(w) \/ Crash(w)
      PROVE  ClaimsUnique' /\ ClaimsCurrent'
  <2>1. \A v \in Workers : Judging(v)' => worker'[v] = worker[v]
    <3>1. CASE SelectSubmission(w)
      <4>1. PICK s \in Submissions :
               worker' = [worker EXCEPT ![w] = [IdleWorker EXCEPT !.pc = "selected", !.sub = s]]
        BY <3>1 DEF SelectSubmission, Claimable
      <4> QED
        BY <4>1 DEF IdleWorker, Judging, WorkersTypeOK
    <3>2. CASE worker' = [worker EXCEPT ![w] = IdleWorker]
      BY <3>2 DEF IdleWorker, Judging, WorkersTypeOK
    <3> QED
      BY <1>3, <3>1, <3>2 DEF AbortClaim, AbandonEvaluation, CompleteAfterLoss, Crash
  <2>2. UNCHANGED <<claimedBy, epoch, nextClaim>>
    BY <1>3 DEF SelectSubmission, AbortClaim, AbandonEvaluation, CompleteAfterLoss, Crash,
                tableVars, queueCols
  <2> QED
    BY <1>1, <2>1, <2>2 DEF Judging
<1>4. ASSUME NEW w \in Workers, CommitClaim(w)
      PROVE  ClaimsUnique' /\ ClaimsCurrent'
  <2> DEFINE s == worker[w].sub
  <2>1. s \in Submissions
    BY <1>4 DEF CommitClaim, WorkersTypeOK
  <2>2. /\ claimedBy' = [claimedBy EXCEPT ![s] = nextClaim]
        /\ nextClaim' = nextClaim + 1
        /\ UNCHANGED epoch
    BY <1>4 DEF CommitClaim, FreshClaim
  <2>3. \A v \in Workers \ {w} : worker'[v] = worker[v]
    BY <1>4 DEF CommitClaim, WorkersTypeOK
  <2>4. Judging(w)' => /\ worker'[w].claim = nextClaim
                       /\ worker'[w].sub = s
                       /\ worker'[w].epoch = epoch[s]
    BY <1>4 DEF CommitClaim, FreshClaim, IdleWorker, Judging, WorkersTypeOK
  <2>5. ClaimsUnique'
    BY <2>1, <2>2, <2>3, <2>4 DEF ClaimsUnique, Judging, TableTypeOK, WorkersTypeOK, WorkerStates
  <2>6. ASSUME NEW v \in Workers, Judging(v)', claimedBy'[worker'[v].sub] = worker'[v].claim
        PROVE  worker'[v].epoch = epoch'[worker'[v].sub]
    <3>1. CASE v = w
      BY <2>2, <2>4, <2>6, <3>1
    <3>2. CASE v # w
      <4>1. /\ worker'[v] = worker[v] /\ Judging(v)
            /\ worker[v].sub \in Submissions /\ worker[v].claim < nextClaim
            /\ worker[v].claim \in Nat
        BY <2>3, <2>6, <3>2 DEF Judging, ClaimsUnique, WorkersTypeOK, WorkerStates
      <4>2. claimedBy[worker[v].sub] = worker[v].claim
        BY <2>1, <2>2, <2>6, <4>1 DEF TableTypeOK
      <4> QED
        BY <2>2, <4>1, <4>2 DEF ClaimsCurrent
    <3> QED
      BY <3>1, <3>2
  <2> QED
    BY <2>5, <2>6 DEF ClaimsCurrent
<1>5. ASSUME NEW w \in Workers, RenewLease(w)
      PROVE  ClaimsUnique' /\ ClaimsCurrent'
  BY <1>1, <1>5 DEF RenewLease, Judging
<1>6. ASSUME NEW w \in Workers, Evaluate(w) \/ CompleteFails(w)
      PROVE  ClaimsUnique' /\ ClaimsCurrent'
  <2>1. \A v \in Workers : Judging(v)' =>
            /\ Judging(v)
            /\ worker'[v].claim = worker[v].claim
            /\ worker'[v].sub = worker[v].sub
            /\ worker'[v].epoch = worker[v].epoch
    BY <1>6 DEF Evaluate, CompleteFails, RetryOrGiveUp, IdleWorker, Judging, WorkersTypeOK, WorkerStates
  <2> QED
    BY <1>1, <1>6, <2>1 DEF Evaluate, CompleteFails, tableVars, queueCols
<1>7. ASSUME NEW w \in Workers, CompleteSubmission(w)
      PROVE  ClaimsUnique' /\ ClaimsCurrent'
  <2>1. \A v \in Workers : Judging(v)' =>
            /\ Judging(v)
            /\ worker'[v].claim = worker[v].claim
            /\ worker'[v].sub = worker[v].sub
            /\ worker'[v].epoch = worker[v].epoch
    BY <1>7 DEF CompleteSubmission, RetryOrGiveUp, IdleWorker, Judging, WorkersTypeOK, WorkerStates
  <2> QED
    BY <1>1, <1>7, <2>1 DEF CompleteSubmission
<1>8. ASSUME NEW S, NEW R, FailStep(S, R)
      PROVE  ClaimsUnique' /\ ClaimsCurrent'
  BY <1>1, <1>8 DEF FailStep, FailSubmissions, Judging, TableTypeOK
<1>9. ASSUME NEW S, RejudgeStep(S)
      PROVE  ClaimsUnique' /\ ClaimsCurrent'
  BY <1>1, <1>9 DEF RejudgeStep, RejudgeRows, Judging, TableTypeOK
<1>10. ASSUME NEW s \in Submissions, NEW d, ReviewSubmission(s, d)
       PROVE  ClaimsUnique' /\ ClaimsCurrent'
  BY <1>1, <1>10 DEF ReviewSubmission, Judging, queueCols
<1> QED
  BY <1>2, <1>3, <1>4, <1>5, <1>6, <1>7, <1>8, <1>9, <1>10, StepCases
     DEF ContestantStep, WorkerStep

\* The reaper gives up in time: a claim is only ever taken from a queued row,
\* and a row goes back to the queue with an attempt left or with none made.
LEMMA AttemptsStep ==
    ASSUME QueueInv, Next
    PROVE  UnclaimedRows' /\ PoisonPillCap'
<1> USE ConstantsAssumption DEF QueueInv, TypeOK, UnclaimedRows, PoisonPillCap, Exists, RowStates
<1>1. ASSUME NEW s \in Submissions,
             CheckSubmission(s) \/ InsertSubmission(s) \/ RejectDuplicate(s) \/ TickLease(s)
      PROVE  UnclaimedRows' /\ PoisonPillCap'
  BY <1>1 DEF CheckSubmission, InsertSubmission, RejectDuplicate, TickLease, TableTypeOK, queueCols
<1>2. ASSUME UNCHANGED <<state, attempts>>
      PROVE  UnclaimedRows' /\ PoisonPillCap'
  BY <1>2
<1>3. ASSUME NEW w \in Workers, CommitClaim(w)
      PROVE  UnclaimedRows' /\ PoisonPillCap'
  <2>1. worker[w].sub \in Submissions /\ state[worker[w].sub] = "queued"
    BY <1>3 DEF CommitClaim, LocksHeld, WorkersTypeOK
  <2> QED
    BY <1>3, <2>1 DEF CommitClaim, TableTypeOK
<1>4. ASSUME NEW w \in Workers, CompleteSubmission(w)
      PROVE  UnclaimedRows' /\ PoisonPillCap'
  <2>1. \A s \in Submissions : state'[s] = state[s] \/ state'[s] \in {"passed", "failed"}
    BY <1>4 DEF CompleteSubmission, submissionStatus, TableTypeOK
  <2>2. UNCHANGED attempts
    BY <1>4 DEF CompleteSubmission
  <2> QED
    BY <2>1, <2>2
<1>5. ASSUME NEW S, NEW R, FailStep(S, R)
      PROVE  UnclaimedRows' /\ PoisonPillCap'
  BY <1>5 DEF FailStep, FailSubmissions, TableTypeOK
<1>6. ASSUME NEW S, RejudgeStep(S)
      PROVE  UnclaimedRows' /\ PoisonPillCap'
  BY <1>6 DEF RejudgeStep, RejudgeRows, TableTypeOK
<1> QED
  BY <1>1, <1>2, <1>3, <1>4, <1>5, <1>6, StepCases
     DEF ContestantStep, WorkerStep, SelectSubmission, AbortClaim, RenewLease,
         AbandonEvaluation, Evaluate, CompleteAfterLoss, CompleteFails, Crash,
         ReviewSubmission, tableVars, queueCols

\* A step of a worker other than the claim and the completion leaves the table alone.
LEMMA WorkerStepCases ==
    ASSUME WorkerStep
    PROVE  \/ \E w \in Workers : CommitClaim(w) \/ RenewLease(w) \/ CompleteSubmission(w)
           \/ UNCHANGED <<tableVars, nextClaim, clock, epoch>>
  BY DEF WorkerStep, SelectSubmission, AbortClaim, AbandonEvaluation, Evaluate,
         CompleteAfterLoss, CompleteFails, Crash

\* Only the holder of the current claim can finish a row, and it judged for the
\* latest rejudge.
LEMMA FreshVerdictStep ==
    ASSUME QueueInv, Next
    PROVE  FreshVerdict'
<1> USE DEF QueueInv, TypeOK, FreshVerdict, Terminal
<1>1. ASSUME NEW s \in Submissions,
             CheckSubmission(s) \/ InsertSubmission(s) \/ RejectDuplicate(s) \/ TickLease(s)
      PROVE  FreshVerdict'
  BY <1>1 DEF CheckSubmission, InsertSubmission, RejectDuplicate, TickLease, TableTypeOK, resultCols
<1>2. ASSUME UNCHANGED <<state, resultEpoch, epoch>>
      PROVE  FreshVerdict'
  BY <1>2
<1>3. ASSUME NEW w \in Workers, CommitClaim(w)
      PROVE  FreshVerdict'
  BY <1>3 DEF CommitClaim, TableTypeOK, resultCols
<1>4. ASSUME NEW w \in Workers, CompleteSubmission(w)
      PROVE  FreshVerdict'
  <2> DEFINE s == worker[w].sub
  <2>1. s \in Submissions /\ Judging(w) /\ claimedBy[s] = worker[w].claim
    BY <1>4 DEF CompleteSubmission, HoldsLease, Judging, WorkersTypeOK
  <2>2. worker[w].epoch = epoch[s]
    BY <2>1 DEF ClaimsCurrent
  <2>3. /\ resultEpoch' = [resultEpoch EXCEPT ![s] = worker[w].epoch]
        /\ UNCHANGED epoch
        /\ \A r \in Submissions \ {s} : state'[r] = state[r]
    BY <1>4 DEF CompleteSubmission, TableTypeOK
  <2> QED
    BY <2>1, <2>2, <2>3 DEF TableTypeOK
<1>5. ASSUME NEW S, NEW R, FailStep(S, R)
      PROVE  FreshVerdict'
  BY <1>5 DEF FailStep, FailSubmissions, TableTypeOK
<1>6. ASSUME NEW S, RejudgeStep(S)
      PROVE  FreshVerdict'
  BY <1>6 DEF RejudgeStep, RejudgeRows, TableTypeOK
<1> QED
  BY <1>1, <1>2, <1>3, <1>4, <1>5, <1>6, StepCases, WorkerStepCases
     DEF ContestantStep, RenewLease, ReviewSubmission, tableVars, resultCols

\* Only InsertSubmission adds a pending submission that is not a rejudge, and
\* the unique index has the last word.
LEMMA OneFreshActiveStep ==
    ASSUME QueueInv, Next
    PROVE  OneFreshActive'
<1> USE DEF QueueInv, TypeOK
<1> DEFINE Fresh(s) == Pending(s) /\ ~isRejudge[s]
<1>1. ASSUME \A s \in Submissions : Fresh(s)' => Fresh(s)
      PROVE  OneFreshActive'
  BY <1>1 DEF OneFreshActive, PairOf
<1>2. ASSUME NEW s \in Submissions, CheckSubmission(s) \/ RejectDuplicate(s) \/ TickLease(s)
      PROVE  OneFreshActive'
  BY <1>1, <1>2 DEF CheckSubmission, RejectDuplicate, TickLease, Pending, TableTypeOK, queueCols
<1>3. ASSUME NEW s \in Submissions, InsertSubmission(s)
      PROVE  OneFreshActive'
  <2>1. \A r \in Submissions \ {s} : Fresh(r)' => Fresh(r) /\ PairOf(r) # PairOf(s)
    BY <1>3 DEF InsertSubmission, HasActiveSubmission, Pending, TableTypeOK, queueCols
  <2> QED
    BY <2>1 DEF OneFreshActive, PairOf
<1>4. ASSUME UNCHANGED <<state, isRejudge>>
      PROVE  OneFreshActive'
  BY <1>1, <1>4 DEF Pending
<1>5. ASSUME NEW w \in Workers, CommitClaim(w)
      PROVE  OneFreshActive'
  <2>1. worker[w].sub \in Submissions /\ state[worker[w].sub] = "queued"
    BY <1>5 DEF CommitClaim, LocksHeld, WorkersTypeOK
  <2> QED
    BY <1>1, <1>5, <2>1 DEF CommitClaim, Pending, TableTypeOK
<1>6. ASSUME NEW w \in Workers, CompleteSubmission(w)
      PROVE  OneFreshActive'
  <2>1. \A s \in Submissions : Pending(s)' => Pending(s) /\ isRejudge'[s] = isRejudge[s]
    BY <1>6 DEF CompleteSubmission, submissionStatus, Pending, TableTypeOK
  <2> QED
    BY <1>1, <2>1
<1>7. ASSUME NEW S, NEW R, FailStep(S, R)
      PROVE  OneFreshActive'
  <2>1. \A s \in Submissions : Pending(s)' => Pending(s) /\ isRejudge'[s] = isRejudge[s]
    BY <1>7 DEF FailStep, FailSubmissions, Pending, TableTypeOK
  <2> QED
    BY <1>1, <2>1
<1>8. ASSUME NEW S, RejudgeStep(S)
      PROVE  OneFreshActive'
  <2>1. \A s \in Submissions : \/ isRejudge'[s]
                               \/ state'[s] = state[s] /\ isRejudge'[s] = isRejudge[s]
    BY <1>8 DEF RejudgeStep, RejudgeRows, TableTypeOK
  <2> QED
    BY <1>1, <2>1 DEF Pending
<1> QED
  BY <1>2, <1>3, <1>4, <1>5, <1>6, <1>7, <1>8, StepCases, WorkerStepCases
     DEF ContestantStep, RenewLease, ReviewSubmission, tableVars, queueCols

\* Score, test rows, verdict and finishing time are written and cleared together.
LEMMA ResultConsistentStep ==
    ASSUME QueueInv, Next
    PROVE  ResultConsistent'
<1> USE ConstantsAssumption DEF QueueInv, TypeOK, ResultConsistent, Terminal
<1>1. ASSUME NEW s \in Submissions,
             CheckSubmission(s) \/ InsertSubmission(s) \/ RejectDuplicate(s) \/ TickLease(s)
      PROVE  ResultConsistent'
  BY <1>1 DEF CheckSubmission, InsertSubmission, RejectDuplicate, TickLease, TableTypeOK, resultCols
<1>2. ASSUME UNCHANGED <<state, resultCols>>
      PROVE  ResultConsistent'
  BY <1>2 DEF resultCols
<1>3. ASSUME NEW w \in Workers, CommitClaim(w)
      PROVE  ResultConsistent'
  <2>1. worker[w].sub \in Submissions /\ state[worker[w].sub] = "queued"
    BY <1>3 DEF CommitClaim, LocksHeld, WorkersTypeOK
  <2> QED
    BY <1>3, <2>1 DEF CommitClaim, TableTypeOK, resultCols
<1>4. ASSUME NEW w \in Workers, CompleteSubmission(w)
      PROVE  ResultConsistent'
  <2> DEFINE s == worker[w].sub
             r == worker[w].outcome
  <2>1. s \in Submissions /\ r \in Outcomes
    BY <1>4 DEF CompleteSubmission, WorkersTypeOK
  <2>2. r.verdict # None /\ submissionStatus(r.verdict, r.score) \in {"passed", "failed"}
    BY <2>1, OutcomeType, NullIsNoVerdict
  <2> QED
    BY <1>4, <2>1, <2>2 DEF CompleteSubmission, TableTypeOK
<1>5. ASSUME NEW S, NEW R, FailStep(S, R)
      PROVE  ResultConsistent'
  BY <1>5, NullIsNoVerdict DEF FailStep, FailSubmissions, TableTypeOK, Verdicts
<1>6. ASSUME NEW S, RejudgeStep(S)
      PROVE  ResultConsistent'
  BY <1>6 DEF RejudgeStep, RejudgeRows, TableTypeOK
<1> QED
  BY <1>1, <1>2, <1>3, <1>4, <1>5, <1>6, StepCases, WorkerStepCases
     DEF ContestantStep, RenewLease, ReviewSubmission, tableVars

-----------------------------------------------------------------------------
(* The scoreboard.                                                         *)

\* The ranking of a team on a problem depends on its passed submissions only.
LEMMA KeysUnchanged ==
    ASSUME NEW k,
           \A s \in Submissions : PairOf(s) = k =>
               /\ state'[s] = "passed" <=> state[s] = "passed"
               /\ state[s] = "passed" => /\ review'[s] = review[s]
                                         /\ finished'[s] = finished[s]
                                         /\ score'[s] = score[s]
                                         /\ createdAt'[s] = createdAt[s]
    PROVE  RankKeys(k)' = RankKeys(k)
<1>1. Eligible(k)' = Eligible(k)
  BY DEF Eligible, PairOf
<1>2. \A s \in Eligible(k) : score'[s] = score[s] /\ createdAt'[s] = createdAt[s]
  BY DEF Eligible
<1> QED
  BY <1>1, <1>2 DEF RankKeys

\* Recomputing the pairs K keeps the scoreboard exact when no other pair's
\* ranking has changed.
LEMMA ScoreStep ==
    ASSUME ScoreboardExact, NEW K, recomputeProblemScore(K),
           \A k \in Pairs \ K : RankKeys(k)' = RankKeys(k)
    PROVE  ScoreboardExact'
<1>1. \A k \in Pairs \ K : ScoreRow(k)' = ScoreRow(k)
  BY DEF ScoreRow
<1>2. \A k \in Pairs : problemScores'[k] = ScoreRow(k)'
  BY <1>1 DEF ScoreboardExact, recomputeProblemScore
<1> QED
  BY <1>2 DEF ScoreboardExact, recomputeProblemScore

\* A step that leaves problem_scores and all rankings alone keeps it exact.
LEMMA ScoreStutter ==
    ASSUME ScoreboardExact, UNCHANGED problemScores,
           \A k \in Pairs : RankKeys(k)' = RankKeys(k)
    PROVE  ScoreboardExact'
<1>1. \A k \in Pairs : ScoreRow(k)' = ScoreRow(k)
  BY DEF ScoreRow
<1> QED
  BY <1>1 DEF ScoreboardExact

\* Every transaction that changes a ranking recomputes that pair.
LEMMA ScoreboardStep ==
    ASSUME QueueInv, Next
    PROVE  ScoreboardExact'
<1> USE DEF QueueInv, TypeOK
<1>1. ASSUME NEW s \in Submissions, CheckSubmission(s) \/ InsertSubmission(s) \/ RejectDuplicate(s)
      PROVE  ScoreboardExact'
  <2>1. UNCHANGED <<review, finished, score, problemScores>>
    BY <1>1 DEF CheckSubmission, InsertSubmission, RejectDuplicate, resultCols
  <2>2. \A r \in Submissions : /\ state'[r] = "passed" <=> state[r] = "passed"
                               /\ state[r] = "passed" => createdAt'[r] = createdAt[r]
    BY <1>1 DEF CheckSubmission, InsertSubmission, RejectDuplicate, TableTypeOK
  <2>3. \A k \in Pairs : RankKeys(k)' = RankKeys(k)
    BY <2>1, <2>2, KeysUnchanged
  <2> QED
    BY <2>1, <2>3, ScoreStutter
<1>2. ASSUME UNCHANGED <<state, review, finished, score, createdAt, problemScores>>
      PROVE  ScoreboardExact'
  BY <1>2, KeysUnchanged, ScoreStutter
<1>3. ASSUME NEW w \in Workers, CommitClaim(w)
      PROVE  ScoreboardExact'
  <2>1. worker[w].sub \in Submissions /\ state[worker[w].sub] = "queued"
    BY <1>3 DEF CommitClaim, LocksHeld, WorkersTypeOK
  <2>2. UNCHANGED <<review, finished, score, createdAt, problemScores>>
    BY <1>3 DEF CommitClaim, resultCols
  <2>3. \A r \in Submissions : state'[r] = "passed" <=> state[r] = "passed"
    BY <1>3, <2>1 DEF CommitClaim, TableTypeOK
  <2> QED
    BY <2>2, <2>3, KeysUnchanged, ScoreStutter
<1>4. ASSUME NEW w \in Workers, CompleteSubmission(w)
      PROVE  ScoreboardExact'
  <2> DEFINE s == worker[w].sub
  <2>1. s \in Submissions /\ recomputeProblemScore({PairOf(s)})
    BY <1>4 DEF CompleteSubmission, WorkersTypeOK
  <2>2. \A r \in Submissions : PairOf(r) # PairOf(s) =>
           /\ state'[r] = state[r] /\ review'[r] = review[r] /\ finished'[r] = finished[r]
           /\ score'[r] = score[r] /\ createdAt'[r] = createdAt[r]
    BY <1>4 DEF CompleteSubmission, TableTypeOK
  <2> QED
    BY <2>1, <2>2, KeysUnchanged, ScoreStep
<1>5. ASSUME NEW S, NEW R, FailStep(S, R)
      PROVE  ScoreboardExact'
  <2> DEFINE K == {PairOf(s) : s \in S}
  <2>1. recomputeProblemScore(K)
    BY <1>5 DEF FailStep, FailSubmissions
  <2>2. \A r \in Submissions : PairOf(r) \notin K =>
           /\ state'[r] = "passed" <=> state[r] = "passed"
           /\ review'[r] = review[r] /\ finished'[r] = finished[r]
           /\ score'[r] = score[r] /\ createdAt'[r] = createdAt[r]
    BY <1>5 DEF FailStep, FailSubmissions, TableTypeOK
  <2> QED
    BY <2>1, <2>2, KeysUnchanged, ScoreStep
<1>6. ASSUME NEW S, RejudgeStep(S)
      PROVE  ScoreboardExact'
  <2> DEFINE K == {PairOf(s) : s \in S}
  <2>1. recomputeProblemScore(K)
    BY <1>6 DEF RejudgeStep, RejudgeRows
  <2>2. \A r \in Submissions : PairOf(r) \notin K =>
           /\ state'[r] = state[r] /\ review'[r] = review[r] /\ finished'[r] = finished[r]
           /\ score'[r] = score[r] /\ createdAt'[r] = createdAt[r]
    BY <1>6 DEF RejudgeStep, RejudgeRows, TableTypeOK
  <2> QED
    BY <2>1, <2>2, KeysUnchanged, ScoreStep
<1>7. ASSUME NEW s \in Submissions, NEW d, ReviewSubmission(s, d)
      PROVE  ScoreboardExact'
  <2>1. recomputeProblemScore({PairOf(s)})
    BY <1>7 DEF ReviewSubmission
  <2>2. \A r \in Submissions : PairOf(r) # PairOf(s) =>
           /\ state'[r] = state[r] /\ review'[r] = review[r] /\ finished'[r] = finished[r]
           /\ score'[r] = score[r] /\ createdAt'[r] = createdAt[r]
    BY <1>7 DEF ReviewSubmission, TableTypeOK, resultCols
  <2> QED
    BY <2>1, <2>2, KeysUnchanged, ScoreStep
<1>8. ASSUME NEW w \in Workers, RenewLease(w)
      PROVE  ScoreboardExact'
  BY <1>2, <1>8 DEF RenewLease, resultCols
<1>9. ASSUME NEW s \in Submissions, TickLease(s)
      PROVE  ScoreboardExact'
  BY <1>2, <1>9 DEF TickLease, resultCols
<1>10. ASSUME UNCHANGED <<tableVars, nextClaim, clock, epoch>>
       PROVE  ScoreboardExact'
  BY <1>2, <1>10 DEF tableVars, resultCols
<1> QED
  BY <1>1, <1>3, <1>4, <1>5, <1>6, <1>7, <1>8, <1>9, <1>10, StepCases, WorkerStepCases
     DEF ContestantStep

-----------------------------------------------------------------------------
(* The theorems.                                                           *)

\* The inductive step.
LEMMA QueueInvStep == QueueInv /\ [Next]_vars => QueueInv'
<1> SUFFICES ASSUME QueueInv, [Next]_vars
             PROVE  QueueInv'
  OBVIOUS
<1>1. CASE Next
  <2>1. TypeOK'
    BY <1>1, TableTypeStep, WorkersTypeStep DEF QueueInv, TypeOK
  <2> QED
    BY <1>1, <2>1, LocksStep, ClaimsStep, AttemptsStep, FreshVerdictStep, OneFreshActiveStep,
       ResultConsistentStep, ScoreboardStep
       DEF QueueInv
<1>2. CASE UNCHANGED vars
  <2> USE <1>2 DEF QueueInv, vars, tableVars, queueCols, resultCols
  <2>1. TypeOK'
    BY DEF TypeOK, TableTypeOK, WorkersTypeOK
  <2>2. LocksHeld' /\ ClaimsUnique' /\ ClaimsCurrent'
    BY DEF LocksHeld, ClaimsUnique, ClaimsCurrent, Judging
  <2>3. UnclaimedRows' /\ PoisonPillCap' /\ FreshVerdict' /\ OneFreshActive' /\ ResultConsistent'
    BY DEF UnclaimedRows, PoisonPillCap, FreshVerdict, OneFreshActive, ResultConsistent,
           Exists, Terminal, Pending, PairOf
  <2>4. ScoreboardExact'
    BY KeysUnchanged, ScoreStutter
  <2> QED
    BY <2>1, <2>2, <2>3, <2>4 DEF QueueInv
<1> QED
  BY <1>1, <1>2

\* The queue keeps its invariant.
THEOREM QueueInvariant == Spec => []QueueInv
  BY QueueInvInit, QueueInvStep, PTL DEF Spec

\* The leaderboard's table always equals what its defining query returns.
THEOREM ScoreboardCorrect == Spec => []ScoreboardExact
<1>1. QueueInv => ScoreboardExact
  BY DEF QueueInv
<1> QED
  BY <1>1, QueueInvariant, PTL

\* No submission is claimed more than MaxAttempts times between rejudges.
THEOREM PoisonPillCorrect == Spec => []PoisonPillCap
<1>1. QueueInv => PoisonPillCap
  BY DEF QueueInv
<1> QED
  BY <1>1, QueueInvariant, PTL

\* No verdict older than the latest rejudge is ever stored.
THEOREM FreshVerdictCorrect == Spec => []FreshVerdict
<1>1. QueueInv => FreshVerdict
  BY DEF QueueInv
<1> QED
  BY <1>1, QueueInvariant, PTL

\* At most one worker holds the lease of a submission.
THEOREM LeaseExclusive == Spec => []OneLeaseHolder
<1>1. QueueInv => OneLeaseHolder
  BY DEF QueueInv, ClaimsUnique, OneLeaseHolder, HoldsLease
<1> QED
  BY <1>1, QueueInvariant, PTL

\* A team has at most one pending submission of its own per problem.
THEOREM FreshActiveUnique == Spec => []OneFreshActive
<1>1. QueueInv => OneFreshActive
  BY DEF QueueInv
<1> QED
  BY <1>1, QueueInvariant, PTL

\* The result columns and the stored test rows agree.
THEOREM ResultsConsistent == Spec => []ResultConsistent
<1>1. QueueInv => ResultConsistent
  BY DEF QueueInv
<1> QED
  BY <1>1, QueueInvariant, PTL

\* A final result changes only when a rejudge puts the row back in the queue.
THEOREM ResultsSettle == Spec => ResultSettled
<1> DEFINE Settled == \A s \in Submissions : Terminal(s) =>
              \/ <<state[s], verdict[s], score[s], rowPoints[s]>>' =
                    <<state[s], verdict[s], score[s], rowPoints[s]>>
              \/ state'[s] = "queued" /\ isRejudge'[s]
<1>1. ASSUME QueueInv, Next
      PROVE  Settled
  <2> USE DEF QueueInv, TypeOK, Terminal
  <2>1. ASSUME NEW s \in Submissions, CheckSubmission(s) \/ InsertSubmission(s) \/ RejectDuplicate(s)
        PROVE  Settled
    BY <1>1, <2>1 DEF CheckSubmission, InsertSubmission, RejectDuplicate, TableTypeOK, resultCols
  <2>2. ASSUME UNCHANGED <<state, resultCols>>
        PROVE  Settled
    BY <2>2 DEF resultCols
  <2>3. ASSUME NEW w \in Workers, CommitClaim(w)
        PROVE  Settled
    <3>1. worker[w].sub \in Submissions /\ state[worker[w].sub] = "queued"
      BY <1>1, <2>3 DEF CommitClaim, LocksHeld, WorkersTypeOK
    <3> QED
      BY <1>1, <2>3, <3>1 DEF CommitClaim, TableTypeOK, resultCols
  <2>4. ASSUME NEW w \in Workers, CompleteSubmission(w)
        PROVE  Settled
    <3>1. state[worker[w].sub] = "running"
      BY <2>4 DEF CompleteSubmission, HoldsLease
    <3> QED
      BY <1>1, <2>4, <3>1 DEF CompleteSubmission, TableTypeOK
  <2>5. ASSUME NEW S, NEW R, FailStep(S, R)
        PROVE  Settled
    <3>1. \A s \in Submissions : Terminal(s) => s \notin S /\ s \notin R
      BY <2>5 DEF FailStep, Pending
    <3>2. \A s \in Submissions : s \notin S /\ s \notin R =>
             /\ state'[s] = state[s] /\ verdict'[s] = verdict[s]
             /\ score'[s] = score[s] /\ rowPoints'[s] = rowPoints[s]
      BY <2>5 DEF FailStep, FailSubmissions
    <3> QED
      BY <3>1, <3>2
  <2>6. ASSUME NEW S, RejudgeStep(S)
        PROVE  Settled
    BY <1>1, <2>6 DEF RejudgeStep, RejudgeRows, TableTypeOK
  <2>7. ASSUME UNCHANGED <<tableVars, nextClaim, clock, epoch>>
        PROVE  Settled
    BY <2>2, <2>7 DEF tableVars
  <2>8. ASSUME NEW w \in Workers, RenewLease(w)
        PROVE  Settled
    BY <2>2, <2>8 DEF RenewLease
  <2>9. ASSUME NEW s \in Submissions, NEW d, TickLease(s) \/ ReviewSubmission(s, d)
        PROVE  Settled
    BY <2>2, <2>9 DEF TickLease, ReviewSubmission
  <2> HIDE DEF Settled
  <2> QED
    BY <1>1, <2>1, <2>3, <2>4, <2>5, <2>6, <2>7, <2>8, <2>9, StepCases, WorkerStepCases
       DEF ContestantStep
<1>2. QueueInv /\ [Next]_vars => [Settled]_vars
  BY <1>1
<1> QED
  BY <1>2, QueueInvariant, PTL DEF Spec, ResultSettled
=============================================================================
