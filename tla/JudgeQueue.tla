----------------------------- MODULE JudgeQueue -----------------------------
(***************************************************************************)
(* The PostgreSQL submission queue of the judge and everything that writes *)
(* to it: contestants' requests, judge workers with their leases, the      *)
(* lease reaper and the organizers' rejudge / cancel / review commands     *)
(* (backend/internal/judge: repository.go, queue.go, engine.go, reaper.go, *)
(* admin.go).  Every database transaction is one action, except the claim, *)
(* whose row lock is visible to the others (FOR UPDATE SKIP LOCKED).       *)
(* A lease is modelled by the time left on it, so that NOW() need not be.  *)
(***************************************************************************)
EXTENDS Naturals, FiniteSets

CONSTANTS
    Submissions,    \* ids of the submissions that may be made (naturals: SQL orders by id)
    Teams, Problems,
    TeamOf,         \* [Submissions -> Teams], the row's team_id
    ProblemOf,      \* [Submissions -> Problems], the row's problem_id
    Workers,        \* judge worker goroutines of all processes
    None,           \* SQL NULL
    MaxScore,       \* points a full solution earns
    MaxAttempts,    \* claims after which an expired submission is given up
    LeaseTTL,       \* LeaseDuration, in ticks
    CommitTries,    \* how often CompleteSubmission tries its transaction
    TeamPenalty,    \* seconds a team waits for each further pending submission
    Gaps,           \* seconds that may pass between two insertions
    MaxClaims,      \* bound: claims per behaviour
    MaxRejudges     \* bound: rejudges per submission

ASSUME ConstantsAssumption ==
    /\ Submissions \subseteq Nat
    /\ TeamOf \in [Submissions -> Teams]
    /\ ProblemOf \in [Submissions -> Problems]
    /\ None \notin Nat
    /\ MaxScore \in Nat
    /\ MaxAttempts \in Nat \ {0}
    /\ LeaseTTL \in Nat \ {0}
    /\ CommitTries \in Nat \ {0}
    /\ TeamPenalty \in Nat
    /\ Gaps \subseteq Nat
    /\ MaxClaims \in Nat
    /\ MaxRejudges \in Nat

VARIABLES
    \* the submissions table, one function per column
    state,          \* "absent": no row; "checked": a request passed its checks, no row yet
    verdict, score, attempts, claimedBy, lease, isRejudge, review, finished, createdAt,
    rowPoints,      \* SUM(points) over the submission's rows of submission_tests
    problemScores,  \* the problem_scores table, by <<team, problem>>
    worker,         \* each worker goroutine's local state
    nextClaim,      \* the next claim id (workerID ":" uuid): fresh at every claim
    clock,          \* time of the latest insertion
    \* history, read by properties only
    epoch,          \* how often a rejudge has asked for a new verdict
    resultEpoch     \* the epoch whose evaluation, or cancellation, gave the stored result

queueCols  == <<attempts, claimedBy, lease, isRejudge>>
resultCols == <<verdict, score, rowPoints, finished, resultEpoch>>
tableVars  == <<state, queueCols, resultCols, review, createdAt, problemScores>>
vars == <<tableVars, worker, nextClaim, clock, epoch>>

-----------------------------------------------------------------------------
RowStates == {"queued", "running", "passed", "failed"}
Verdicts  == {"AC", "WA", "IE"}    \* "WA" stands for every fault of the contestant's
Pairs     == Teams \X Problems
PairOf(s) == <<TeamOf[s], ProblemOf[s]>>

ASSUME NullIsNoVerdict == None \notin Verdicts

Exists(s)   == state[s] \in RowStates
Pending(s)  == state[s] \in {"queued", "running"}
Terminal(s) == state[s] \in {"passed", "failed"}

\* Result of an evaluation: accepted with all points, or any other verdict with the
\* points of the tests that passed (a sandbox failure keeps the points earned so far).
Outcomes == [verdict : {"AC"}, score : {MaxScore}]
              \cup [verdict : {"WA", "IE"}, score : 0..MaxScore]

\* Mutant: partial credit gets a state of its own.
submissionStatusPartial(v, points) ==
    CASE v = "AC" -> "passed" [] v # "AC" /\ points = 0 -> "failed" [] OTHER -> "partial"

submissionStatus(v, points) == IF v # "AC" /\ points = 0 THEN "failed" ELSE "passed"

IdleWorker == [pc |-> "idle", sub |-> None, claim |-> 0,
               outcome |-> None, tries |-> 0, epoch |-> 0]

-----------------------------------------------------------------------------
(* recomputeProblemScore: the row of problem_scores for a team and problem *)
(* as its INSERT ... SELECT ... ORDER BY score DESC, created_at, id builds *)
(* it from the submissions table.                                          *)

Eligible(k) == {s \in Submissions : /\ PairOf(s) = k
                                    /\ state[s] = "passed"
                                    /\ review[s] = "accepted"
                                    /\ finished[s]}

RankKeys(k) == [s \in Eligible(k) |-> [score |-> score[s], at |-> createdAt[s]]]

RanksBefore(a, x, b, y) ==
    \/ x.score > y.score
    \/ x.score = y.score /\ x.at < y.at
    \/ x.score = y.score /\ x.at = y.at /\ a < b

NoScore == [sub |-> None, score |-> 0]

TopRow(keys) ==
    IF DOMAIN keys = {} THEN NoScore
    ELSE LET best == CHOOSE a \in DOMAIN keys :
                        \A b \in DOMAIN keys \ {a} : RanksBefore(a, keys[a], b, keys[b])
         IN  [sub |-> best, score |-> keys[best].score]

ScoreRow(k) == TopRow(RankKeys(k))

\* Mutant: only ever raises the stored score, as UPDATE ... SET score = MAX(...) would.
raiseProblemScore(K) ==
    problemScores' = [k \in Pairs |->
        IF k \in K /\ ScoreRow(k)'.score >= problemScores[k].score
        THEN ScoreRow(k)' ELSE problemScores[k]]

\* Reads the table as the transaction leaves it, hence the primes.
recomputeProblemScore(K) ==
    problemScores' = [k \in Pairs |-> IF k \in K THEN ScoreRow(k)' ELSE problemScores[k]]

-----------------------------------------------------------------------------
Init ==
    /\ state = [s \in Submissions |-> "absent"]
    /\ verdict = [s \in Submissions |-> None]
    /\ score = [s \in Submissions |-> 0]
    /\ attempts = [s \in Submissions |-> 0]
    /\ claimedBy = [s \in Submissions |-> None]
    /\ lease = [s \in Submissions |-> 0]
    /\ isRejudge = [s \in Submissions |-> FALSE]
    /\ review = [s \in Submissions |-> "accepted"]
    /\ finished = [s \in Submissions |-> FALSE]
    /\ createdAt = [s \in Submissions |-> 0]
    /\ rowPoints = [s \in Submissions |-> 0]
    /\ problemScores = [k \in Pairs |-> NoScore]
    /\ worker = [w \in Workers |-> IdleWorker]
    /\ nextClaim = 1
    /\ clock = 0
    /\ epoch = [s \in Submissions |-> 0]
    /\ resultEpoch = [s \in Submissions |-> 0]

-----------------------------------------------------------------------------
(* Contestants: CreateSubmission.                                          *)

\* Mutant: the check and the index cover queued rows only.
HasQueuedSubmission(k) ==
    \E s \in Submissions : PairOf(s) = k /\ state[s] = "queued" /\ ~isRejudge[s]

HasActiveSubmission(k) == \E s \in Submissions : PairOf(s) = k /\ Pending(s) /\ ~isRejudge[s]

\* The checks before the INSERT, on an earlier snapshot.  The cooldown may let
\* the request pass or not, depending on time this model does not measure.
CheckSubmission(s) ==
    /\ state[s] = "absent"
    /\ ~HasActiveSubmission(PairOf(s))
    /\ state' = [state EXCEPT ![s] = "checked"]
    /\ UNCHANGED <<queueCols, resultCols, review, createdAt, problemScores, worker,
                   nextClaim, clock, epoch>>

\* The INSERT succeeds ...
InsertSubmission(s) ==
    /\ state[s] = "checked"
    /\ ~HasActiveSubmission(PairOf(s))      \* idx_submissions_active_team_problem
    /\ \E g \in Gaps : /\ clock' = clock + g
                       /\ createdAt' = [createdAt EXCEPT ![s] = clock + g]
    /\ state' = [state EXCEPT ![s] = "queued"]
    /\ UNCHANGED <<queueCols, resultCols, review, problemScores, worker, nextClaim, epoch>>

\* ... or trips the partial unique index (SQLSTATE 23505) and answers 409.
RejectDuplicate(s) ==
    /\ state[s] = "checked"
    /\ HasActiveSubmission(PairOf(s))
    /\ state' = [state EXCEPT ![s] = "absent"]
    /\ UNCHANGED <<queueCols, resultCols, review, createdAt, problemScores, worker,
                   nextClaim, clock, epoch>>

-----------------------------------------------------------------------------
(* Workers: workerLoop, ClaimNextSubmission and processSubmission.         *)

\* s is locked FOR UPDATE by a claim that has not committed.
Locked(s) == \E w \in Workers : worker[w].pc = "selected" /\ worker[w].sub = s

PendingCount(t) == Cardinality({s \in Submissions : TeamOf[s] = t /\ Pending(s)})

\* ORDER BY (pending_count - 1) * 10 - age: NOW() is the same for all rows.
Priority(s) == (PendingCount(TeamOf[s]) - 1) * TeamPenalty + createdAt[s]

\* Rows the claim's SELECT sees: SKIP LOCKED passes over the others.
Claimable == {s \in Submissions : state[s] = "queued" /\ ~Locked(s)}

SelectSubmission(w) ==
    /\ worker[w].pc = "idle"
    /\ \E s \in Claimable :
          /\ \A r \in Claimable : Priority(s) <= Priority(r)
          /\ worker' = [worker EXCEPT ![w] = [IdleWorker EXCEPT !.pc = "selected", !.sub = s]]
    /\ UNCHANGED <<tableVars, nextClaim, clock, epoch>>

\* Mutant: the worker's name without the uuid, equal in every process.
WorkerName == 1

FreshClaim == nextClaim

\* The claim's UPDATE and COMMIT.  An error on the way back leaves the row
\* claimed by nobody who knows of it.
CommitClaim(w) ==
    LET s == worker[w].sub IN
    /\ worker[w].pc = "selected"
    /\ nextClaim <= MaxClaims
    /\ state' = [state EXCEPT ![s] = "running"]
    /\ claimedBy' = [claimedBy EXCEPT ![s] = FreshClaim]
    /\ lease' = [lease EXCEPT ![s] = LeaseTTL]
    /\ attempts' = [attempts EXCEPT ![s] = @ + 1]
    /\ nextClaim' = nextClaim + 1
    /\ \E acknowledged \in BOOLEAN :
          worker' = [worker EXCEPT ![w] =
              IF acknowledged
              THEN [IdleWorker EXCEPT !.pc = "evaluating", !.sub = s,
                                      !.claim = FreshClaim, !.epoch = epoch[s]]
              ELSE IdleWorker]
    /\ UNCHANGED <<isRejudge, resultCols, review, createdAt, problemScores, clock, epoch>>

\* The claim transaction fails and rolls back.
AbortClaim(w) ==
    /\ worker[w].pc = "selected"
    /\ worker' = [worker EXCEPT ![w] = IdleWorker]
    /\ UNCHANGED <<tableVars, nextClaim, clock, epoch>>

\* Mutant: the WHERE does not ask whose claim it is.
SomebodyHoldsLease(w) == state[worker[w].sub] = "running" /\ lease[worker[w].sub] > 0

\* The WHERE of RenewLease and of the completing UPDATE.
HoldsLease(w) ==
    LET s == worker[w].sub IN
    claimedBy[s] = worker[w].claim /\ state[s] = "running" /\ lease[s] > 0

\* From the claim until processSubmission returns, the heartbeat runs.
Judging(w) == worker[w].pc \in {"evaluating", "completing"}

\* heartbeatLease: the lease is extended ...
RenewLease(w) ==
    /\ Judging(w)
    /\ HoldsLease(w)
    /\ lease' = [lease EXCEPT ![worker[w].sub] = LeaseTTL]
    /\ UNCHANGED <<state, attempts, claimedBy, isRejudge, resultCols, review, createdAt,
                   problemScores, worker, nextClaim, clock, epoch>>

\* ... or found lost, which cancels the evaluation; its result is dropped.
AbandonEvaluation(w) ==
    /\ worker[w].pc = "evaluating"
    /\ ~HoldsLease(w)
    /\ worker' = [worker EXCEPT ![w] = IdleWorker]
    /\ UNCHANGED <<tableVars, nextClaim, clock, epoch>>

\* evaluate returns and its context is not cancelled.
Evaluate(w) ==
    /\ worker[w].pc = "evaluating"
    /\ \E r \in Outcomes :
          worker' = [worker EXCEPT ![w].pc = "completing", ![w].outcome = r]
    /\ UNCHANGED <<tableVars, nextClaim, clock, epoch>>

\* The loop of CompleteSubmission after an error other than ErrLeaseLost.
RetryOrGiveUp(w) ==
    \/ /\ worker[w].tries + 1 < CommitTries
       /\ worker' = [worker EXCEPT ![w].tries = @ + 1]
    \/ /\ worker[w].tries + 1 >= CommitTries
       /\ worker' = [worker EXCEPT ![w] = IdleWorker]

\* completeSubmissionTx commits; the worker may not hear of it and retry.
CompleteSubmission(w) ==
    LET s == worker[w].sub
        r == worker[w].outcome
    IN
    /\ worker[w].pc = "completing"
    /\ HoldsLease(w)
    /\ state' = [state EXCEPT ![s] = submissionStatus(r.verdict, r.score)]
    /\ verdict' = [verdict EXCEPT ![s] = r.verdict]
    /\ score' = [score EXCEPT ![s] = r.score]
    /\ finished' = [finished EXCEPT ![s] = TRUE]
    /\ isRejudge' = [isRejudge EXCEPT ![s] = FALSE]
    /\ rowPoints' = [rowPoints EXCEPT ![s] = r.score]
    /\ resultEpoch' = [resultEpoch EXCEPT ![s] = worker[w].epoch]
    /\ \/ worker' = [worker EXCEPT ![w] = IdleWorker]
       \/ RetryOrGiveUp(w)
    /\ UNCHANGED <<attempts, claimedBy, lease, review, createdAt, nextClaim, clock, epoch>>
    /\ recomputeProblemScore({PairOf(s)})

\* ErrLeaseLost: the transaction changes nothing and the result is dropped.
CompleteAfterLoss(w) ==
    /\ worker[w].pc = "completing"
    /\ ~HoldsLease(w)
    /\ worker' = [worker EXCEPT ![w] = IdleWorker]
    /\ UNCHANGED <<tableVars, nextClaim, clock, epoch>>

\* The transaction fails without committing.
CompleteFails(w) ==
    /\ worker[w].pc = "completing"
    /\ RetryOrGiveUp(w)
    /\ UNCHANGED <<tableVars, nextClaim, clock, epoch>>

\* The worker's process dies or shuts down; another starts in its place.
Crash(w) ==
    /\ worker[w].pc # "idle"
    /\ worker' = [worker EXCEPT ![w] = IdleWorker]
    /\ UNCHANGED <<tableVars, nextClaim, clock, epoch>>

-----------------------------------------------------------------------------
(* Time and the lease reaper.                                              *)

TickLease(s) ==
    /\ state[s] = "running"
    /\ lease[s] > 0
    /\ lease' = [lease EXCEPT ![s] = @ - 1]
    /\ UNCHANGED <<state, attempts, claimedBy, isRejudge, resultCols, review, createdAt,
                   problemScores, worker, nextClaim, clock, epoch>>

\* Mutant: the reaper does not ask for running rows.
LeaseOver == {s \in Submissions : Exists(s) /\ lease[s] = 0}

Expired == {s \in Submissions : state[s] = "running" /\ lease[s] = 0}

\* reconcileSubmissionChanges for the changed rows S, with the columns that
\* CancelSubmission, UnstickTeamSubmissions and the reaper set alike.
FailSubmissions(S, requeued) ==
    LET changed == S \cup requeued
        Set(f, T, v) == [s \in Submissions |-> IF s \in T THEN v ELSE f[s]]
    IN
    /\ state' = [s \in Submissions |-> IF s \in S THEN "failed"
                                       ELSE IF s \in requeued THEN "queued" ELSE state[s]]
    /\ claimedBy' = Set(claimedBy, changed, None)
    /\ lease' = Set(lease, changed, 0)
    /\ verdict' = Set(verdict, S, "IE")
    /\ score' = Set(score, S, 0)
    /\ finished' = Set(finished, S, TRUE)
    /\ isRejudge' = Set(isRejudge, S, FALSE)
    /\ rowPoints' = Set(rowPoints, S, 0)
    /\ resultEpoch' = [s \in Submissions |-> IF s \in S THEN epoch[s] ELSE resultEpoch[s]]
    /\ UNCHANGED <<attempts, review, createdAt, worker, nextClaim, clock, epoch>>
    /\ recomputeProblemScore({PairOf(s) : s \in S})

\* Mutant: one attempt too many.
GivenUpLate == {s \in Expired : attempts[s] > MaxAttempts}

GivenUp == {s \in Expired : attempts[s] >= MaxAttempts}

\* Mutant: the reaper requeues but never gives up.
RequeueExpiredLeases ==
    /\ Expired \ GivenUp # {}
    /\ FailSubmissions({}, Expired \ GivenUp)

ReclaimExpiredLeases ==
    /\ Expired # {}
    /\ FailSubmissions(GivenUp, Expired \ GivenUp)

-----------------------------------------------------------------------------
(* Organizers.  A row locked by a claim makes the statement wait for it.   *)

RejudgeRows(S) ==
    LET Reset(f, v) == [s \in Submissions |-> IF s \in S THEN v ELSE f[s]] IN
    /\ state' = Reset(state, "queued")
    /\ verdict' = Reset(verdict, None)
    /\ score' = Reset(score, 0)
    /\ claimedBy' = Reset(claimedBy, None)
    /\ lease' = Reset(lease, 0)
    /\ finished' = Reset(finished, FALSE)
    /\ attempts' = Reset(attempts, 0)
    /\ isRejudge' = Reset(isRejudge, TRUE)
    /\ rowPoints' = Reset(rowPoints, 0)
    /\ epoch' = [s \in Submissions |-> IF s \in S THEN epoch[s] + 1 ELSE epoch[s]]
    /\ UNCHANGED <<review, createdAt, resultEpoch, worker, nextClaim, clock>>
    /\ recomputeProblemScore({PairOf(s) : s \in S})

\* In whatever state the submission is.
RejudgeSubmission(s) ==
    /\ Exists(s) /\ ~Locked(s)
    /\ epoch[s] < MaxRejudges
    /\ RejudgeRows({s})

RejudgeProblemSubmissions(p) ==
    LET S == {s \in Submissions : ProblemOf[s] = p /\ Terminal(s)} IN
    /\ S # {}
    /\ \A s \in S : epoch[s] < MaxRejudges
    /\ RejudgeRows(S)

\* Mutant: cancels a submission whatever its state.
CancelAnySubmission(s) ==
    /\ Exists(s) /\ ~Locked(s)
    /\ FailSubmissions({s}, {})

CancelSubmission(s) ==
    /\ Pending(s) /\ ~Locked(s)
    /\ FailSubmissions({s}, {})

UnstickTeamSubmissions(t) ==
    LET S == {s \in Submissions : TeamOf[s] = t /\ Pending(s)} IN
    /\ S # {}
    /\ \A s \in S : ~Locked(s)
    /\ FailSubmissions(S, {})

ReviewSubmission(s, decision) ==
    /\ Exists(s) /\ ~Locked(s)
    /\ review' = [review EXCEPT ![s] = decision]
    /\ UNCHANGED <<state, queueCols, resultCols, createdAt, worker, nextClaim, clock, epoch>>
    /\ recomputeProblemScore({PairOf(s)})

-----------------------------------------------------------------------------
ContestantStep == \E s \in Submissions :
    CheckSubmission(s) \/ InsertSubmission(s) \/ RejectDuplicate(s)

WorkerStep == \E w \in Workers :
    \/ SelectSubmission(w) \/ CommitClaim(w) \/ AbortClaim(w)
    \/ RenewLease(w) \/ AbandonEvaluation(w) \/ Evaluate(w)
    \/ CompleteSubmission(w) \/ CompleteAfterLoss(w) \/ CompleteFails(w)
    \/ Crash(w)

LeaseStep == ReclaimExpiredLeases \/ \E s \in Submissions : TickLease(s)

OrganizerStep ==
    \/ \E s \in Submissions :
          \/ RejudgeSubmission(s)
          \/ CancelSubmission(s)
          \/ \E decision \in {"accepted", "rejected"} : ReviewSubmission(s, decision)
    \/ \E p \in Problems : RejudgeProblemSubmissions(p)
    \/ \E t \in Teams : UnstickTeamSubmissions(t)

Next == ContestantStep \/ WorkerStep \/ LeaseStep \/ OrganizerStep

Spec == Init /\ [][Next]_vars

\* The workers' loops, the reaper's ticker and time go on; a database that
\* is asked again and again eventually commits a claim.  Crashes, errors,
\* contestants and organizers are not forced to do anything.
Fairness ==
    /\ WF_vars(ReclaimExpiredLeases)
    /\ \A s \in Submissions : WF_vars(TickLease(s))
    /\ WF_vars(\E w \in Workers : SelectSubmission(w))
    /\ SF_vars(\E w \in Workers : CommitClaim(w))
    /\ \A w \in Workers : /\ WF_vars(Evaluate(w) \/ AbandonEvaluation(w))
                          /\ WF_vars(CompleteSubmission(w) \/ CompleteAfterLoss(w) \/ CompleteFails(w))

FairSpec == Spec /\ Fairness
-----------------------------------------------------------------------------
(* What the queue promises.                                                *)

WorkerStates ==
    [pc : {"idle", "selected", "evaluating", "completing"},
     sub : Submissions \cup {None}, claim : Nat,
     outcome : Outcomes \cup {None}, tries : Nat, epoch : Nat]

TableTypeOK ==
    /\ state \in [Submissions -> RowStates \cup {"absent", "checked"}]
    /\ verdict \in [Submissions -> Verdicts \cup {None}]
    /\ score \in [Submissions -> 0..MaxScore]
    /\ attempts \in [Submissions -> Nat]
    /\ claimedBy \in [Submissions -> Nat \cup {None}]
    /\ lease \in [Submissions -> 0..LeaseTTL]
    /\ isRejudge \in [Submissions -> BOOLEAN]
    /\ review \in [Submissions -> {"accepted", "rejected"}]
    /\ finished \in [Submissions -> BOOLEAN]
    /\ createdAt \in [Submissions -> Nat]
    /\ rowPoints \in [Submissions -> 0..MaxScore]
    /\ DOMAIN problemScores = Pairs
    /\ nextClaim \in Nat
    /\ clock \in Nat
    /\ epoch \in [Submissions -> Nat]
    /\ resultEpoch \in [Submissions -> Nat]

WorkersTypeOK ==
    /\ worker \in [Workers -> WorkerStates]
    /\ \A w \in Workers :
          /\ worker[w].pc # "idle" => worker[w].sub \in Submissions
          /\ worker[w].pc = "completing" => worker[w].outcome \in Outcomes

\* The columns, tables and goroutine states have their types; a worker that
\* is not idle works on a submission, and one that completes has a result.
TypeOK == TableTypeOK /\ WorkersTypeOK

\* problem_scores always holds what its defining query would return: no
\* completion, reaping, rejudge, cancellation or review leaves the leaderboard
\* crediting a result that is gone, rejected or no longer the best.
ScoreboardExact == problemScores = [k \in Pairs |-> ScoreRow(k)]

\* The poison-pill cap: a submission whose workers keep dying is never claimed
\* more than MaxAttempts times between two rejudges, however claims, crashes
\* and the reaper interleave.
PoisonPillCap ==
    \A s \in Submissions : /\ attempts[s] <= MaxAttempts
                           /\ state[s] = "queued" => attempts[s] < MaxAttempts

\* A stored result answers the latest rejudge: a worker that was evaluating
\* when an organizer asked for a new verdict, or whose lease was taken over,
\* cannot record what it found (the claim id in completeSubmissionTx's WHERE).
FreshVerdict == \A s \in Submissions : Terminal(s) => resultEpoch[s] = epoch[s]

\* At most one worker can renew or complete a submission at any time, even
\* though several may still be evaluating it.
OneLeaseHolder ==
    \A v, w \in Workers :
       (/\ Judging(v) /\ HoldsLease(v)
        /\ Judging(w) /\ HoldsLease(w)
        /\ worker[v].sub = worker[w].sub) => v = w

\* A team never has two pending submissions of its own for one problem: the
\* unique index backs up the check CreateSubmission made on an older snapshot.
OneFreshActive ==
    \A r, s \in Submissions :
       (/\ PairOf(r) = PairOf(s)
        /\ Pending(r) /\ ~isRejudge[r]
        /\ Pending(s) /\ ~isRejudge[s]) => r = s

\* The result columns and the rows of submission_tests tell one story: the
\* points of the tests add up to the score, a row is finished exactly when its
\* state is final, and only then has it a verdict.
ResultConsistent ==
    \A s \in Submissions :
       /\ rowPoints[s] = score[s]
       /\ finished[s] <=> Terminal(s)
       /\ verdict[s] # None <=> Terminal(s)

\* A final result is settled: it stays as it is until a rejudge puts the row
\* back in the queue.  No late worker, reaper or cancellation overwrites it.
ResultSettled ==
    [][\A s \in Submissions : Terminal(s) =>
          \/ <<state[s], verdict[s], score[s], rowPoints[s]>>' =
                <<state[s], verdict[s], score[s], rowPoints[s]>>
          \/ state'[s] = "queued" /\ isRejudge'[s]]_vars

\* Every submission in the queue gets a final result although workers crash,
\* transactions fail and claims are lost.
EverySubmissionFinishes == \A s \in Submissions : Pending(s) ~> Terminal(s)
=============================================================================
