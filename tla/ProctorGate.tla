----------------------------- MODULE ProctorGate ----------------------------
(***************************************************************************)
(* The gate that decides whether a contestant may submit                   *)
(* (backend/internal/agent/gate.go).  A submission reads the contestant's  *)
(* standing and decides (Check); the portal's poll and the guard of the    *)
(* other routes may answer from a cache (Status), which is filled outside  *)
(* of its lock and emptied by some of the organizers' orders only.         *)
(* Attestation is a property of one submission and is left out, like the   *)
(* contest-wide floor of the grants, which is not granted here, and the    *)
(* mode of access, which no answer depends on.                             *)
(***************************************************************************)
EXTENDS Naturals, Sequences

CONSTANTS
  Pollers,     \* requests that may ask for the status at once
  TTL,         \* how long an entry of the cache is used
  MaxStale,    \* age from which the agent's last heartbeat no longer counts
  MaxTime,     \* bound on the time
  MaxChanges   \* bound on changes of the standing

\* Entries of the cache are used for a while.
GateConstants == TTL \in Nat \ {0} /\ MaxTime \in Nat \ {0} /\ MaxChanges \in Nat

VARIABLES
  gateTime,   \* the time
  standing,   \* what GateState reads of the contestant
  changedAt,  \* when the standing last changed
  changes,
  gateCache,  \* the contestant's entry of the cache, or <<>>
  polls,      \* the requests under way
  overdue,    \* orders carried out whose Invalidate is still to come
  answered    \* the last answer Status gave

vars == <<gateTime, standing, changedAt, changes, gateCache, polls, overdue, answered>>

-----------------------------------------------------------------------------
(* Decide.                                                                 *)

agentLive(s, now) == s.hasAgent /\ ~s.stopped /\ s.seen > 0 /\ now - s.seen <= MaxStale

\* Why a contestant without a live agent is blocked; a fleet-wide outage is not held against
\* one whose agent has ever reported.
blockedCode(s) ==
  CASE ~s.hasAgent \/ s.seen = 0 -> "AGENT_MISSING"
    [] s.hasAgent /\ s.seen > 0 /\ s.incident -> ""
    [] s.hasAgent /\ s.seen > 0 /\ ~s.incident /\ s.stopped -> "AGENT_STOPPED"
    [] OTHER -> "AGENT_STALE"

\* The code of the decision; "" lets the contestant in.
Decide(s, now) == IF s.exempt \/ s.webOnly \/ agentLive(s, now) THEN "" ELSE blockedCode(s)

\* What a submission meets now.
Check == Decide(standing, gateTime)

-----------------------------------------------------------------------------
(* The standing changes.                                                   *)

Change(s) ==
  /\ changes < MaxChanges /\ s # standing
  /\ standing' = s /\ changedAt' = gateTime /\ changes' = changes + 1

\* A heartbeat, a shutdown, a revocation, a new enrolment; the sweeper opens or closes an
\* incident (Sweep); an order of the user's own page, which forgets no entry; and a grant that
\* lapses.
Happens ==
  /\ \/ standing.hasAgent /\ Change([standing EXCEPT !.seen = gateTime, !.stopped = FALSE])
     \/ standing.hasAgent /\ Change([standing EXCEPT !.stopped = TRUE])
     \/ Change([standing EXCEPT !.hasAgent = FALSE, !.seen = 0, !.stopped = FALSE])
     \/ Change([standing EXCEPT !.hasAgent = TRUE, !.seen = 0, !.stopped = FALSE])
     \/ Change([standing EXCEPT !.incident = ~@])
     \/ Change([standing EXCEPT !.exempt = ~@])
     \/ Change([standing EXCEPT !.webOnly = ~@])
  /\ UNCHANGED <<gateTime, gateCache, polls, overdue, answered>>

\* A bulk order or a restored access: the rows first, the entry after them.
Order ==
  /\ \/ Change([standing EXCEPT !.webOnly = ~@])
     \/ Change([standing EXCEPT !.exempt = ~@])
  /\ overdue' = overdue + 1
  /\ UNCHANGED <<gateTime, gateCache, polls, answered>>

Invalidate ==
  /\ overdue > 0 /\ overdue' = overdue - 1
  /\ gateCache' = <<>>
  /\ UNCHANGED <<gateTime, standing, changedAt, changes, polls, answered>>

-----------------------------------------------------------------------------
(* Status.                                                                 *)

Idle == [stage |-> "idle", asked |-> 0, state |-> <<>>]

Answer(asked, s) == answered' = [asked |-> asked, code |-> Decide(s, gateTime)]

hit == gateCache # <<>> /\ gateTime < gateCache[1].expires

AskStatus(p) ==
  /\ polls[p] = Idle
  /\ IF hit
     THEN Answer(gateTime, gateCache[1].state) /\ UNCHANGED polls
     ELSE /\ polls' = [polls EXCEPT ![p] = [Idle EXCEPT !.stage = "reading", !.asked = gateTime]]
          /\ UNCHANGED answered
  /\ UNCHANGED <<gateTime, standing, changedAt, changes, gateCache, overdue>>

ReadState(p) ==
  /\ polls[p].stage = "reading"
  /\ polls' = [polls EXCEPT ![p].stage = "storing", ![p].state = <<standing>>]
  /\ UNCHANGED <<gateTime, standing, changedAt, changes, gateCache, overdue, answered>>

\* The entry expires by the time of the question, however long the read took.
entry(q) == [state |-> q.state[1], expires |-> q.asked + TTL]

StoreState(p) ==
  /\ polls[p].stage = "storing"
  /\ gateCache' = <<entry(polls[p])>>
  /\ Answer(polls[p].asked, polls[p].state[1])
  /\ polls' = [polls EXCEPT ![p] = Idle]
  /\ UNCHANGED <<gateTime, standing, changedAt, changes, overdue>>

Tick ==
  /\ gateTime < MaxTime /\ gateTime' = gateTime + 1
  /\ UNCHANGED <<standing, changedAt, changes, gateCache, polls, overdue, answered>>

-----------------------------------------------------------------------------
NewStanding == [exempt |-> FALSE, webOnly |-> FALSE, hasAgent |-> TRUE, seen |-> 1,
                stopped |-> FALSE, incident |-> FALSE]

Init ==
  /\ gateTime = 1 /\ standing = NewStanding /\ changedAt = 1 /\ changes = 0 /\ gateCache = <<>>
  /\ polls = [p \in Pollers |-> Idle] /\ overdue = 0 /\ answered = [asked |-> 0, code |-> ""]

Next ==
  \/ Happens \/ Order \/ Invalidate \/ Tick
  \/ \E p \in Pollers : AskStatus(p) \/ ReadState(p) \/ StoreState(p)

Spec == Init /\ [][Next]_vars

-----------------------------------------------------------------------------
(* Properties.                                                             *)

\* Types of the standing, of the cache's entry and of the requests.
TypeOK ==
  /\ gateTime \in 1..MaxTime /\ changedAt \in 1..gateTime /\ overdue \in 0..MaxChanges
  /\ standing.seen \in 0..gateTime /\ (standing.seen > 0 => standing.hasAgent)
  /\ gateCache # <<>> => gateCache[1].expires \in 1..(gateTime + TTL)
  /\ \A p \in Pollers : polls[p].stage \in {"idle", "reading", "storing"} /\ polls[p].asked <= gateTime

\* A decision that was overruled outlives the order by the life of an entry at most, although
\* a read that started before the order may be stored after its Invalidate, and although most
\* orders invalidate nothing: asked later than that, Status says what a submission meets.
StatusAgreesSoon ==
  [][answered' # answered /\ changedAt + TTL <= answered'.asked => answered'.code = Check]_vars
=============================================================================
