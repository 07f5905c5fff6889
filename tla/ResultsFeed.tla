----------------------------- MODULE ResultsFeed -----------------------------
(***************************************************************************)
(* How a contestant's page learns what became of a submission.  The judge  *)
(* broadcasts progress and verdicts into a bounded channel per stream      *)
(* (backend/internal/judge/broadcaster.go); the page reads the stream,     *)
(* polls while the stream is down, and restores its list of active         *)
(* submissions when it is mounted or unlocked (submissions-provider.tsx).  *)
(* Nothing is replayed: what is broadcast while no stream is open is gone. *)
(*                                                                         *)
(* All submissions are of one contestant for one problem.  Attempt k of a  *)
(* submission is claimed at time Started(k) and finished at Finished(k),   *)
(* which is the order of the timestamps the page compares; 0 is a          *)
(* timestamp that is absent.                                               *)
(***************************************************************************)
EXTENDS Naturals, Sequences, FiniteSets

CONSTANTS
  Subs,         \* submission ids (numbers, so that they can be sorted)
  MaxTries,     \* bound on the attempts of each submission, rejudges included
  Start,        \* the submissions tables the page may be opened on
  MaxTests,     \* progress reports of an attempt
  ChanCap,      \* capacity of the channel of a stream (64 in the code)
  LatestCap,    \* results the page remembers (256 in the code)
  PollPeriod,   \* a multiple of every length of the list of active ids
  MaxLost,      \* bound on broadcasts that never reach the stream's node, and failed polls
  MaxReviews,   \* bound on reviews by organizers
  MaxLocks      \* bound on lockings of the portal by the proctor gate

VARIABLES
  row,          \* the submissions table
  zombies,      \* attempts whose worker lost its lease and still reports
  chan,         \* the channel of the open stream, oldest first
  lost,         \* broadcasts and polls lost so far
  reviews,      \* reviews so far
  locks,        \* lockings so far
  locked,       \* contestLocked(proctor)
  stream,       \* "off", "waiting" (to reconnect) or "open" (streamHealthy)
  active,       \* activeSubmissions: id |-> status, for the ids it has
  latest,       \* latest.current: the newest result of each id, oldest entry first
  lastResult,   \* the result shown by the workspace, a sequence of at most one
  poll,         \* answers of the running poll, a sequence of at most one
  pollIndex,    \* pollIndex.current, modulo PollPeriod
  restore,      \* the restore effect: wanted, then the ids it read, then nothing
  submitting    \* the request of submitFast, if any: <<0>>, then <<id>> once it is stored

serverVars == <<row, zombies, lost, reviews>>
viewVars   == <<active, latest, lastResult>>
vars == <<row, zombies, chan, lost, reviews, locks, locked, stream, active, latest,
          lastResult, poll, pollIndex, restore, submitting>>

Started(k)  == 2 * k
Finished(k) == 2 * k + 1

\* A row as the repository's statements leave it: claimed_at is that of the attempt that
\* runs or finished it, unless it was finished without one.
Rows == [state : {"absent", "queued", "running", "done"}, tries : Nat, att : Nat, fin : Nat]

SaneRow(r) ==
  /\ r.state \in {"absent", "queued"} => r.att = 0 /\ r.fin = 0
  /\ r.state = "running" => r.att = Started(r.tries) /\ r.fin = 0
  /\ r.state = "done" => r.att \in {0, Started(r.tries)} /\ r.fin = Finished(r.tries)

FeedConstants ==
  /\ Subs \subseteq Nat \ {0} /\ MaxTries \in [Subs -> Nat] /\ MaxTests \in Nat
  /\ ChanCap \in Nat \ {0} /\ LatestCap \in Nat \ {0}
  /\ Start \subseteq [Subs -> Rows] /\ \A table \in Start, s \in Subs : SaneRow(table[s])

NoRow == [state |-> "absent", tries |-> 0, att |-> 0, fin |-> 0]

\* A judge.Result as the page sees it.
Result(s, st, att, fin, tests) ==
  [sub |-> s, status |-> st, att |-> att, fin |-> fin, tests |-> tests, review |-> FALSE]

terminal(r) == r.status = "done"

\* judge.Repository.GetSubmission: the table has no progress of a running attempt.
StatusOf(s) == Result(s, row[s].state, row[s].att, row[s].fin, 0)

Pending(s) == row[s].state \in {"queued", "running"}

-----------------------------------------------------------------------------
(* The broadcaster.                                                        *)

\* BroadcastLocal: a full channel drops progress, but makes room for a terminal
\* result by dropping its oldest element, whatever that is.
BroadcastLocal(ch, r) ==
  IF Len(ch) < ChanCap THEN Append(ch, r)
  ELSE IF terminal(r) THEN Append(Tail(ch), r)
  ELSE ch

\* Broadcast from a worker: the event reaches the stream if one is open, or is lost on
\* its way to the node of the stream (the queue to PostgreSQL is full, publishing
\* fails, or the listener is reconnecting).
Broadcast(r) ==
  \/ /\ chan' = IF stream = "open" THEN BroadcastLocal(chan, r) ELSE chan
     /\ UNCHANGED lost
  \/ /\ stream = "open" /\ lost < MaxLost
     /\ lost' = lost + 1
     /\ UNCHANGED chan

-----------------------------------------------------------------------------
(* The judge, as far as it changes what the page can learn.                *)

\* A worker claims the submission and announces the attempt.
Claim(s) ==
  /\ row[s].state = "queued" /\ row[s].tries < MaxTries[s]
  /\ LET k == row[s].tries + 1 IN
       /\ row' = [row EXCEPT ![s] = [state |-> "running", tries |-> k, att |-> Started(k), fin |-> 0]]
       /\ Broadcast(Result(s, "running", Started(k), 0, 0))
  /\ UNCHANGED <<zombies, reviews, locks, locked, stream, viewVars, poll, pollIndex, restore, submitting>>

\* A worker reports how many tests are done.  It does not know that it lost its lease.
Progress(s, att, n) ==
  /\ (row[s].state = "running" /\ row[s].att = att) \/ <<s, att>> \in zombies
  /\ Broadcast(Result(s, "running", att, 0, n))
  /\ UNCHANGED <<row, zombies, reviews, locks, locked, stream, viewVars, poll, pollIndex, restore, submitting>>

\* CompleteSubmission commits the verdict, then it is broadcast.
Finish(s) ==
  /\ row[s].state = "running"
  /\ row' = [row EXCEPT ![s].state = "done", ![s].fin = Finished(row[s].tries)]
  /\ Broadcast(Result(s, "done", row[s].att, Finished(row[s].tries), 0))
  /\ UNCHANGED <<zombies, reviews, locks, locked, stream, viewVars, poll, pollIndex, restore, submitting>>

\* The reaper requeues an expired lease; nothing is broadcast.
Requeue(s) ==
  /\ row[s].state = "running" /\ row[s].tries < MaxTries[s]
  /\ row' = [row EXCEPT ![s].state = "queued", ![s].att = 0]
  /\ zombies' = zombies \cup {<<s, row[s].att>>}
  /\ UNCHANGED <<chan, lost, reviews, locks, locked, stream, viewVars, poll, pollIndex, restore, submitting>>

\* The reaper fails a submission out of attempts, or an organizer terminates it;
\* nothing is broadcast, and claimed_at is cleared.
FailSilently(s) ==
  /\ row[s].state = "running"
  /\ row' = [row EXCEPT ![s].state = "done", ![s].att = 0, ![s].fin = Finished(row[s].tries)]
  /\ zombies' = zombies \cup {<<s, row[s].att>>}
  /\ UNCHANGED <<chan, lost, reviews, locks, locked, stream, viewVars, poll, pollIndex, restore, submitting>>

\* An organizer rejudges it; nothing is broadcast until a worker claims it.
Rejudge(s) ==
  /\ row[s].state = "done" /\ row[s].tries < MaxTries[s]
  /\ row' = [row EXCEPT ![s].state = "queued", ![s].att = 0, ![s].fin = 0]
  /\ UNCHANGED <<zombies, chan, lost, reviews, locks, locked, stream, viewVars, poll, pollIndex, restore, submitting>>

\* An organizer reviews it: the row is broadcast with its review status.
Review(s) ==
  /\ row[s].state = "done" /\ reviews < MaxReviews
  /\ reviews' = reviews + 1
  /\ Broadcast([StatusOf(s) EXCEPT !.review = TRUE])
  /\ UNCHANGED <<row, zombies, locks, locked, stream, viewVars, poll, pollIndex, restore, submitting>>

-----------------------------------------------------------------------------
(* The page.                                                               *)

\* shouldApplySubmissionProgress: whether next is news after previous.
shouldApplySubmissionProgress(prev, next) ==
  IF prev.att # 0 /\ next.att # 0 /\ prev.att # next.att THEN next.att > prev.att
  ELSE IF prev.att = 0 /\ next.att # 0 THEN prev.fin = 0 \/ next.att > prev.fin
  ELSE /\ ~(prev.att # 0 /\ next.att = 0 /\ ~terminal(next))
       /\ ~(next.fin # 0 /\ prev.att # 0 /\ next.fin < prev.att)
       /\ ~terminal(prev)
       /\ \/ terminal(next)
          \/ /\ ~(prev.status = "running" /\ next.status = "queued")
             /\ next.tests >= prev.tests

Known(s) == \E i \in DOMAIN latest : latest[i].sub = s
LatestOf(s) == latest[CHOOSE i \in DOMAIN latest : latest[i].sub = s]

\* Map.set keeps the place of a known id; the oldest entry goes when there are too many.
Remember(r) ==
  IF Known(r.sub)
  THEN [i \in DOMAIN latest |-> IF latest[i].sub = r.sub THEN r ELSE latest[i]]
  ELSE LET all == Append(latest, r) IN IF Len(all) > LatestCap THEN Tail(all) ELSE all

Activate(s, st) == [t \in DOMAIN active \cup {s} |-> IF t = s THEN st ELSE active[t]]
Deactivate(s)   == [t \in DOMAIN active \ {s} |-> active[t]]

\* applyProgress: progress updates the list of active submissions, a verdict takes
\* the submission out of it and is shown (the toasts are left out).
applyProgress(r) ==
  IF Known(r.sub) /\ ~shouldApplySubmissionProgress(LatestOf(r.sub), r)
  THEN UNCHANGED viewVars
  ELSE /\ latest' = Remember(r)
       /\ IF terminal(r)
          THEN active' = Deactivate(r.sub) /\ lastResult' = <<r>>
          ELSE active' = Activate(r.sub, r.status) /\ UNCHANGED lastResult

\* The poll effect runs again when the ids or the health of the stream change; the
\* answer of the old effect is then ignored.
RestartPolling == poll' = IF DOMAIN active' = DOMAIN active THEN poll ELSE <<>>

\* The stream connects: from here on events reach the page.  The poll effect stops.
Connect ==
  /\ ~locked /\ stream = "waiting"
  /\ stream' = "open" /\ chan' = <<>> /\ poll' = <<>>
  /\ UNCHANGED <<serverVars, locks, locked, viewVars, pollIndex, restore, submitting>>

\* The stream ends: the network, the proxy's lifetime, a failed session check.  What is
\* still in the channel is lost.
Disconnect ==
  /\ stream = "open"
  /\ stream' = "waiting" /\ chan' = <<>>
  /\ UNCHANGED <<serverVars, locks, locked, viewVars, poll, pollIndex, restore, submitting>>

\* One event is read.  A review is announced and is not taken for progress.
ReadEvent ==
  /\ stream = "open" /\ chan # <<>>
  /\ chan' = Tail(chan)
  /\ IF Head(chan).review
     THEN UNCHANGED <<viewVars, poll>>
     ELSE applyProgress(Head(chan)) /\ RestartPolling
  /\ UNCHANGED <<serverVars, locks, locked, stream, pollIndex, restore, submitting>>

nextPollIndex == (pollIndex + 1) % PollPeriod

\* The interval asks for one of the active submissions, in turn, if the last question
\* was answered.
PollRead ==
  /\ stream # "open" /\ DOMAIN active # {} /\ poll = <<>>
  /\ \E s \in DOMAIN active :
       /\ Cardinality({t \in DOMAIN active : t < s}) = pollIndex % Cardinality(DOMAIN active)
       /\ poll' = <<StatusOf(s)>>
  /\ pollIndex' = nextPollIndex
  /\ UNCHANGED <<serverVars, chan, locks, locked, stream, viewVars, restore, submitting>>

\* The answer arrives, and the effect that asked is still the current one.
PollDeliver ==
  /\ poll # <<>>
  /\ applyProgress(poll[1]) /\ poll' = <<>>
  /\ UNCHANGED <<serverVars, chan, locks, locked, stream, pollIndex, restore, submitting>>

\* The answer is a failure (null), or the request is lost.
PollFail ==
  /\ poll # <<>> /\ lost < MaxLost
  /\ lost' = lost + 1 /\ poll' = <<>>
  /\ UNCHANGED <<row, zombies, reviews, chan, locks, locked, stream, viewVars, pollIndex, restore, submitting>>

\* The restore effect reads the submissions that are pending when the page is mounted
\* or unlocked ...
RestoreRead ==
  /\ restore = <<"wanted">>
  /\ restore' = <<"read", {s \in Subs : Pending(s)}>>
  /\ UNCHANGED <<serverVars, chan, locks, locked, stream, viewVars, poll, pollIndex, submitting>>

\* ... and adds them under what the list has by the time the answer arrives.  Such an
\* entry has a status and no figures; it is marked as restored.
RestoreDeliver ==
  /\ Len(restore) = 2
  /\ active' = [s \in DOMAIN active \cup restore[2] |-> IF s \in DOMAIN active THEN active[s] ELSE "restored"]
  /\ RestartPolling
  /\ restore' = <<>>
  /\ UNCHANGED <<serverVars, chan, locks, locked, stream, latest, lastResult, pollIndex, submitting>>

\* listSubmissionsAction answers an empty list after any failure.
RestoreFail ==
  /\ restore # <<>>
  /\ restore' = <<>>
  /\ UNCHANGED <<serverVars, chan, locks, locked, stream, viewVars, poll, pollIndex, submitting>>

\* The proctor gate locks the portal: the effects are cleaned up ...
Lock ==
  /\ ~locked /\ locks < MaxLocks
  /\ locked' = TRUE /\ locks' = locks + 1
  /\ stream' = "off" /\ chan' = <<>> /\ restore' = <<>>
  /\ UNCHANGED <<serverVars, viewVars, poll, pollIndex, submitting>>

\* ... and run again when it is unlocked.
Unlock ==
  /\ locked
  /\ locked' = FALSE /\ stream' = "waiting" /\ restore' = <<"wanted">>
  /\ UNCHANGED <<serverVars, chan, locks, viewVars, poll, pollIndex, submitting>>

\* handleSubmit of the workspace lets nobody submit while a submission is active.
CanSubmit == submitting = <<>> /\ DOMAIN active = {}

\* submitFast: the last result of the problem is taken away, and the request is sent.
SubmitSend ==
  /\ CanSubmit /\ \E s \in Subs : row[s].state = "absent"
  /\ submitting' = <<0>> /\ lastResult' = <<>>
  /\ UNCHANGED <<serverVars, chan, locks, locked, stream, active, latest, poll, pollIndex, restore>>

\* The server stores the submission and broadcasts it before it answers.
SubmitCreate(s) ==
  /\ submitting = <<0>> /\ row[s].state = "absent"
  /\ \A t \in Subs : t < s => row[t].state # "absent"
  /\ \A t \in Subs : ~Pending(t)
  /\ row' = [row EXCEPT ![s].state = "queued"]
  /\ Broadcast(Result(s, "queued", 0, 0, 0))
  /\ submitting' = <<s>>
  /\ UNCHANGED <<zombies, reviews, locks, locked, stream, viewVars, poll, pollIndex, restore>>

\* Mutant: the answer always makes the submission active.
activeAnyway(s) == Activate(s, "queued")

\* latest.current.has: the page already knows more of the submission.
activeAfter(s) == IF Known(s) THEN active ELSE Activate(s, "queued")

\* The answer: the submission is active, unless the page already knows more of it.
SubmitReturn ==
  /\ submitting # <<>> /\ submitting # <<0>>
  /\ active' = activeAfter(submitting[1])
  /\ RestartPolling
  /\ submitting' = <<>>
  /\ UNCHANGED <<serverVars, chan, locks, locked, stream, latest, lastResult, pollIndex, restore>>

\* The request is refused or its answer is lost.
SubmitFail ==
  /\ submitting # <<>>
  /\ submitting' = <<>>
  /\ UNCHANGED <<serverVars, chan, locks, locked, stream, viewVars, poll, pollIndex, restore>>

AnyTry   == UNION {1..MaxTries[s] : s \in Subs}
Attempts == {Started(k) : k \in AnyTry}

Init ==
  /\ row \in Start
  /\ zombies = {} /\ chan = <<>> /\ lost = 0 /\ reviews = 0 /\ locks = 0 /\ locked = FALSE
  /\ stream = "waiting" /\ active = <<>> /\ latest = <<>> /\ lastResult = <<>>
  /\ poll = <<>> /\ pollIndex = 0 /\ restore = <<"wanted">> /\ submitting = <<>>

JudgeStep ==
  \/ \E s \in Subs : Claim(s) \/ Finish(s) \/ Requeue(s) \/ FailSilently(s) \/ Rejudge(s) \/ Review(s)
  \/ \E s \in Subs, att \in Attempts, n \in 1..MaxTests : Progress(s, att, n)

PageStep ==
  \/ Connect \/ Disconnect \/ ReadEvent \/ PollRead \/ PollDeliver \/ PollFail
  \/ RestoreRead \/ RestoreDeliver \/ RestoreFail \/ Lock \/ Unlock
  \/ SubmitSend \/ (\E s \in Subs : SubmitCreate(s)) \/ SubmitReturn \/ SubmitFail

Next == JudgeStep \/ PageStep

Spec == Init /\ [][Next]_vars

(* The poller's interval fires, and a poll that is not lost is answered.  Nothing else    *)
(* need happen: the stream may stay down and the judge may stop.                         *)
Fairness == WF_vars(PollRead) /\ WF_vars(PollDeliver)

FairSpec == Spec /\ Fairness

-----------------------------------------------------------------------------
(* Properties.                                                             *)

Results == [sub : Subs, status : {"queued", "running", "done"}, att : {0} \cup Attempts,
            fin : {0} \cup {Finished(k) : k \in {0} \cup AnyTry}, tests : 0..MaxTests, review : BOOLEAN]

\* Types of the table, of the channel and of what the page keeps.
TypeOK ==
  /\ row \in [Subs -> [state : {"absent", "queued", "running", "done"}, tries : {0} \cup AnyTry,
                       att : {0} \cup Attempts, fin : {0} \cup {Finished(k) : k \in {0} \cup AnyTry}]]
  /\ zombies \subseteq Subs \X Attempts
  /\ chan \in Seq(Results) /\ Len(chan) <= ChanCap
  /\ locked \in BOOLEAN /\ stream \in {"off", "waiting", "open"} /\ (locked <=> stream = "off")
  /\ DOMAIN active \subseteq Subs
  /\ latest \in Seq(Results) /\ Len(latest) <= LatestCap
  /\ lastResult \in Seq(Results) /\ poll \in Seq(Results)
  /\ pollIndex \in 0..PollPeriod - 1

\* An entry of the list of active submissions is out of date (its verdict has been taken)
\* only if the restore effect put it there: applyProgress and submitFast never leave or
\* put back a submission whose verdict the page has (the check of latest.current.has in
\* submitFast is for the verdict that overtakes the answer).
VerdictEndsActivity ==
  \A s \in DOMAIN active : active[s] # "restored" => ~(Known(s) /\ terminal(LatestOf(s)))

\* The page remembers one result of a submission: what applies later takes the place of what
\* was there, whoever brings it (applyProgress, latest.current.set).
RememberedOnce ==
  \A i, j \in DOMAIN latest : latest[i].sub = latest[j].sub => i = j

\* What the page believes of a submission is replaced only by news: a verdict stands until
\* an attempt that started after it, and progress never goes back to an earlier attempt,
\* whatever the order in which the stream, the poller and a worker without a lease bring it
\* (shouldApplySubmissionProgress).
NewsOnly ==
  [][\A i \in DOMAIN latest, j \in DOMAIN latest' :
       LET old == latest[i]  new == latest'[j]
       IN  (old.sub = new.sub /\ old # new) =>
             /\ terminal(old) => new.att > old.fin
             /\ new.att # 0 => new.att >= old.att]_vars

\* While the stream stays down the poller is enough (PollerRecovers): every submission the
\* page believes active, whose verdict it does not have, is in fact pending in the end.
\* Round robin over the active ids reaches each of them.
PollerAlone == stream # "open"
ActiveIsPending ==
  \A s \in DOMAIN active : row[s].state = "done" => Known(s) /\ terminal(LatestOf(s))

PollerRecovers == <>[]PollerAlone => <>[]ActiveIsPending
=============================================================================
