---------------------------- MODULE ConsoleProofs ----------------------------
(***************************************************************************)
(* Proofs about the parts of the organizers' console (Console) and about   *)
(* the proctor gate they steer, for all values of their constants: the     *)
(* gate, monitoring, the paged tables, the contest's clock, and the pages  *)
(* of users and teams, each with an invariant of its own.                  *)
(***************************************************************************)
EXTENDS Console, Integers, ListTheorems

-----------------------------------------------------------------------------
(* The proctor gate.                                                       *)

Standings == [exempt : BOOLEAN, webOnly : BOOLEAN, hasAgent : BOOLEAN, seen : Nat,
              stopped : BOOLEAN, incident : BOOLEAN]

\* What a contestant's standing says of the agent at a time.
Possible(s, now) == s \in Standings /\ s.seen <= now /\ (s.seen > 0 => s.hasAgent)

GateClock ==
  /\ gateTime \in 1..MaxTime /\ changedAt \in 1..gateTime
  /\ changes \in 0..MaxChanges /\ overdue \in 0..changes
  /\ Possible(standing, gateTime)

\* A request that reads the standing, and one that has read it.
Asking(t)     == [stage |-> "reading", asked |-> t, state |-> <<>>]
Holding(t, s) == [stage |-> "storing", asked |-> t, state |-> <<s>>]

\* A request that has read the standing holds the one that is, or was asked no later than
\* the last change.
HoldsFresh(q, t) ==
  \E s \in Standings : q = Holding(t, s) /\ (s = standing \/ t <= changedAt)

PollFresh(q) == q = Gate!Idle \/ \E t \in 0..gateTime : q = Asking(t) \/ HoldsFresh(q, t)

\* An entry of the cache holds the standing that is, or is over within the life of an entry
\* from the last change.
CacheFresh ==
  gateCache = <<>> \/ \E s \in Standings, t \in 1..(gateTime + TTL) :
                        /\ gateCache = << [state |-> s, expires |-> t] >>
                        /\ s = standing \/ t <= changedAt + TTL

GateInv ==
  /\ GateClock
  /\ DOMAIN polls = Pollers /\ \A p \in Pollers : PollFresh(polls[p])
  /\ CacheFresh

\* The stages tell the requests apart.
LEMMA Stages ==
    /\ Gate!Idle.stage = "idle"
    /\ \A t : Asking(t).stage = "reading"
    /\ \A t, s : Holding(t, s).stage = "storing"
  BY DEF Gate!Idle, Asking, Holding

LEMMA LongerInterval ==
    ASSUME NEW a \in Int, NEW b \in Int, NEW c \in Int, a <= b
    PROVE  1..(a + c) \subseteq 1..(b + c)
  OBVIOUS

LEMMA GateStarts ==
    Gate!Init => GateInv
<1> SUFFICES ASSUME Gate!Init PROVE GateInv
  OBVIOUS
<1>1. /\ gateTime = 1 /\ changedAt = 1 /\ changes = 0 /\ overdue = 0 /\ gateCache = <<>>
      /\ standing = Gate!NewStanding /\ MaxTime \in Nat \ {0} /\ MaxChanges \in Nat
  BY GateAssumption DEF Gate!GateConstants, Gate!Init
<1>2. Possible(standing, 1)
  BY <1>1 DEF Gate!NewStanding, Possible, Standings
<1>3. GateClock /\ CacheFresh
  BY <1>1, <1>2 DEF GateClock, CacheFresh
<1>4. DOMAIN polls = Pollers /\ \A p \in Pollers : polls[p] = Gate!Idle
  BY DEF Gate!Init
<1>5. ASSUME NEW p \in Pollers PROVE PollFresh(polls[p])
  BY <1>1, <1>4 DEF PollFresh
<1> QED
  BY <1>3, <1>4, <1>5 DEF GateInv

\* A change of the standing, which all that was read or stored before it outlives by little.
LEMMA ChangeSafe ==
    ASSUME GateInv, NEW s \in Standings, Possible(s, gateTime), Gate!Change(s),
           UNCHANGED <<gateTime, gateCache, polls>>,
           overdue' \in {overdue, overdue + 1}
    PROVE  GateInv'
<1>1. /\ standing' = s /\ changedAt' = gateTime /\ changes' = changes + 1 /\ changes < MaxChanges
      /\ gateTime \in Nat \ {0} /\ TTL \in Nat
  BY GateAssumption DEF Gate!Change, GateInv, GateClock, Gate!GateConstants
<1>2. GateClock'
  <2>1. Possible(s, gateTime)'
    BY DEF Possible
  <2> QED
    BY GateAssumption, <1>1, <2>1 DEF GateInv, GateClock, Gate!GateConstants
<1>3. CacheFresh'
  BY <1>1 DEF GateInv, CacheFresh
<1>4. ASSUME NEW p \in Pollers PROVE PollFresh(polls[p])'
  <2>1. PollFresh(polls[p]) /\ polls'[p] = polls[p]
    BY DEF GateInv
  <2>2. CASE polls[p] = Gate!Idle \/ \E t \in 0..gateTime : polls[p] = Asking(t)
    BY <1>1, <2>1, <2>2 DEF PollFresh
  <2>3. ASSUME NEW t \in 0..gateTime, HoldsFresh(polls[p], t)
        PROVE  PollFresh(polls[p])'
    <3>1. t <= changedAt' /\ t \in 0..gateTime'
      BY <1>1
    <3>2. HoldsFresh(polls[p], t)'
      BY <2>1, <2>3, <3>1 DEF HoldsFresh
    <3> QED
      BY <3>1, <3>2 DEF PollFresh
  <2> QED
    BY <2>1, <2>2, <2>3 DEF PollFresh
<1> QED
  BY <1>2, <1>3, <1>4 DEF GateInv

Standing(e, w, h, n, t, i) ==
  [exempt |-> e, webOnly |-> w, hasAgent |-> h, seen |-> n, stopped |-> t, incident |-> i]

LEMMA StandingMade ==
    ASSUME NEW e \in BOOLEAN, NEW w \in BOOLEAN, NEW h \in BOOLEAN, NEW n \in Nat,
           NEW t \in BOOLEAN, NEW i \in BOOLEAN, NEW now \in Nat, n <= now, n > 0 => h
    PROVE  LET s == Standing(e, w, h, n, t, i) IN s \in Standings /\ Possible(s, now)
<1> DEFINE s == Standing(e, w, h, n, t, i)
<1>1. s \in Standings
  BY DEF Standing, Standings
<1>2. s.seen = n
  BY DEF Standing
<1>3. s.hasAgent = h
  BY DEF Standing
<1> HIDE DEF s
<1>4. Possible(s, now)
  BY <1>1, <1>2, <1>3 DEF Possible
<1> QED
  BY <1>1, <1>4 DEF s

\* The standings the changes lead to.
LEMMA ChangedStandings ==
    ASSUME Possible(standing, gateTime), gateTime \in Nat \ {0}, NEW s,
           \/ standing.hasAgent /\ s = [standing EXCEPT !.seen = gateTime, !.stopped = FALSE]
           \/ standing.hasAgent /\ s = [standing EXCEPT !.stopped = TRUE]
           \/ s = [standing EXCEPT !.hasAgent = FALSE, !.seen = 0, !.stopped = FALSE]
           \/ s = [standing EXCEPT !.hasAgent = TRUE, !.seen = 0, !.stopped = FALSE]
           \/ s = [standing EXCEPT !.incident = ~@]
           \/ s = [standing EXCEPT !.exempt = ~@]
           \/ s = [standing EXCEPT !.webOnly = ~@]
    PROVE  s \in Standings /\ Possible(s, gateTime)
<1> DEFINE e == standing.exempt
           w == standing.webOnly
           h == standing.hasAgent
           n == standing.seen
           t == standing.stopped
           i == standing.incident
<1>1. /\ e \in BOOLEAN /\ w \in BOOLEAN /\ h \in BOOLEAN /\ t \in BOOLEAN /\ i \in BOOLEAN
      /\ n \in Nat /\ n <= gateTime
  BY DEF Possible, Standings
<1>2. n > 0 => h
  BY DEF Possible
<1>3. \/ h /\ s = Standing(e, w, h, gateTime, FALSE, i)
      \/ s = Standing(e, w, h, n, TRUE, i)
      \/ s = Standing(e, w, FALSE, 0, FALSE, i)
      \/ s = Standing(e, w, TRUE, 0, FALSE, i)
      \/ s = Standing(e, w, h, n, t, ~i)
      \/ s = Standing(~e, w, h, n, t, i)
      \/ s = Standing(e, ~w, h, n, t, i)
  BY DEF Possible, Standings, Standing
<1> HIDE DEF e, w, h, n, t, i
<1>4. /\ (~e) \in BOOLEAN /\ (~w) \in BOOLEAN /\ (~i) \in BOOLEAN
      /\ TRUE \in BOOLEAN /\ FALSE \in BOOLEAN
  BY <1>1, Zenon
<1>0. gateTime \in Nat /\ gateTime <= gateTime /\ 0 \in Nat /\ 0 <= gateTime /\ ~(0 > 0)
  OBVIOUS
<1>5. CASE h /\ s = Standing(e, w, h, gateTime, FALSE, i)
  BY <1>0, <1>1, <1>4, <1>5, StandingMade, Zenon
<1>6. CASE s = Standing(e, w, h, n, TRUE, i)
  BY <1>0, <1>1, <1>2, <1>4, <1>6, StandingMade, Zenon
<1>7. CASE s = Standing(e, w, FALSE, 0, FALSE, i)
  BY <1>0, <1>1, <1>4, <1>7, StandingMade, Zenon
<1>8. CASE s = Standing(e, w, TRUE, 0, FALSE, i)
  BY <1>0, <1>1, <1>4, <1>8, StandingMade, Zenon
<1>9. CASE s = Standing(e, w, h, n, t, ~i)
  BY <1>0, <1>1, <1>2, <1>4, <1>9, StandingMade, ZenonT(40)
<1>10. CASE s = Standing(~e, w, h, n, t, i)
  BY <1>0, <1>1, <1>2, <1>4, <1>10, StandingMade, ZenonT(40)
<1>11. CASE s = Standing(e, ~w, h, n, t, i)
  BY <1>0, <1>1, <1>2, <1>4, <1>11, StandingMade, ZenonT(40)
<1> QED
  BY <1>3, <1>5, <1>6, <1>7, <1>8, <1>9, <1>10, <1>11

LEMMA HappensSafe ==
    ASSUME GateInv, Gate!Happens \/ Gate!Order
    PROVE  GateInv'
<1>1. /\ Possible(standing, gateTime) /\ gateTime \in Nat \ {0} /\ overdue \in Nat
      /\ UNCHANGED <<gateTime, gateCache, polls>> /\ overdue' \in {overdue, overdue + 1}
  BY DEF GateInv, GateClock, Gate!Happens, Gate!Order
<1>2. PICK s : /\ Gate!Change(s)
               /\ \/ standing.hasAgent /\ s = [standing EXCEPT !.seen = gateTime, !.stopped = FALSE]
                  \/ standing.hasAgent /\ s = [standing EXCEPT !.stopped = TRUE]
                  \/ s = [standing EXCEPT !.hasAgent = FALSE, !.seen = 0, !.stopped = FALSE]
                  \/ s = [standing EXCEPT !.hasAgent = TRUE, !.seen = 0, !.stopped = FALSE]
                  \/ s = [standing EXCEPT !.incident = ~@]
                  \/ s = [standing EXCEPT !.exempt = ~@]
                  \/ s = [standing EXCEPT !.webOnly = ~@]
  BY Zenon DEF Gate!Happens, Gate!Order
<1>3. s \in Standings /\ Possible(s, gateTime)
  BY <1>1, <1>2, ChangedStandings
<1> QED
  BY <1>1, <1>2, <1>3, ChangeSafe

\* Where the standing and its time stay, the requests and the entry stay good.
LEMMA StandingStays ==
    ASSUME GateInv,
           UNCHANGED <<standing, changedAt, changes>>, overdue' \in 0..changes,
           gateTime' \in gateTime..MaxTime
    PROVE  /\ GateClock'
           /\ \A p \in Pollers : polls'[p] = polls[p] => PollFresh(polls[p])'
           /\ gateCache' = gateCache => CacheFresh'
           /\ gateTime' \in Nat \ {0}
<1>1. GateClock /\ gateTime \in Nat \ {0} /\ gateTime' \in Nat \ {0} /\ gateTime <= gateTime'
  BY DEF GateInv, GateClock
<1>2. GateClock'
  BY <1>1 DEF GateClock, Possible, Standings
<1>3. ASSUME NEW p \in Pollers, polls'[p] = polls[p] PROVE PollFresh(polls[p])'
  <2>1. PollFresh(polls[p]) /\ \A t \in 0..gateTime : t \in 0..gateTime'
    BY <1>1 DEF GateInv
  <2> QED
    BY <1>3, <2>1 DEF PollFresh, HoldsFresh
<1>4. ASSUME gateCache' = gateCache PROVE CacheFresh'
  <2>1. TTL \in Nat
    BY GateAssumption DEF Gate!GateConstants
  <2>2. 1..(gateTime + TTL) \subseteq 1..(gateTime' + TTL)
    <3>1. gateTime \in Int /\ gateTime' \in Int /\ TTL \in Int
      BY <1>1, <2>1
    <3> QED
      BY <1>1, <3>1, LongerInterval, Zenon
  <2> QED
    BY <1>4, <2>2 DEF GateInv, CacheFresh
<1> QED
  BY <1>1, <1>2, <1>3, <1>4

LEMMA AskSafe ==
    ASSUME GateInv, NEW p \in Pollers, Gate!AskStatus(p)
    PROVE  GateInv'
<1>1. /\ UNCHANGED <<gateTime, standing, changedAt, changes, gateCache, overdue>>
      /\ gateTime \in gateTime..MaxTime /\ overdue \in 0..changes /\ gateTime \in Nat
  BY DEF Gate!AskStatus, GateInv, GateClock
<1>2. GateClock' /\ CacheFresh'
  BY <1>1, StandingStays
<1>3. DOMAIN polls' = Pollers
  BY DEF Gate!AskStatus, GateInv
<1>4. ASSUME NEW q \in Pollers PROVE PollFresh(polls[q])'
  <2>1. CASE polls'[q] = polls[q]
    BY <1>1, <2>1, StandingStays
  <2>2. CASE polls'[q] # polls[q]
    <3>1. polls'[q] = Asking(gateTime)
      BY <2>2 DEF Gate!AskStatus, Gate!Idle, GateInv, Asking
    <3> QED
      BY <1>1, <3>1 DEF PollFresh
  <2> QED
    BY <2>1, <2>2
<1> QED
  BY <1>2, <1>3, <1>4 DEF GateInv

LEMMA ReadSafe ==
    ASSUME GateInv, NEW p \in Pollers, Gate!ReadState(p)
    PROVE  GateInv'
<1>1. /\ UNCHANGED <<gateTime, standing, changedAt, changes, gateCache, overdue>>
      /\ gateTime \in gateTime..MaxTime /\ overdue \in 0..changes /\ standing \in Standings
  BY DEF Gate!ReadState, GateInv, GateClock, Possible
<1>2. GateClock' /\ CacheFresh'
  BY <1>1, StandingStays
<1>3. PICK t \in 0..gateTime : polls[p] = Asking(t)
  <2>1. PollFresh(polls[p]) /\ polls[p].stage = "reading"
    BY DEF GateInv, Gate!ReadState
  <2> QED
    BY <2>1, Stages DEF PollFresh, HoldsFresh
<1>4. polls' = [polls EXCEPT ![p] = Holding(t, standing)]
  BY <1>3 DEF Gate!ReadState, GateInv, Asking, Holding
<1>5. ASSUME NEW q \in Pollers PROVE PollFresh(polls[q])'
  <2>1. CASE q # p
    <3>1. polls'[q] = polls[q]
      BY <1>4, <2>1
    <3> QED
      BY <1>1, <3>1, StandingStays
  <2>2. CASE q = p
    <3>1. polls'[q] = Holding(t, standing)
      BY <1>4, <2>2 DEF GateInv
    <3> QED
      BY <1>1, <3>1 DEF PollFresh, HoldsFresh
  <2> QED
    BY <2>1, <2>2
<1> QED
  BY <1>2, <1>4, <1>5 DEF GateInv

\* What a request that is about to answer holds.
LEMMA StoringHolds ==
    ASSUME GateInv, NEW p \in Pollers, Gate!StoreState(p)
    PROVE  \E t \in 0..gateTime, s \in Standings :
             /\ s = standing \/ t <= changedAt
             /\ gateCache' = << [state |-> s, expires |-> t + TTL] >>
             /\ answered' = [asked |-> t, code |-> Gate!Decide(s, gateTime)]
<1>1. PollFresh(polls[p]) /\ polls[p].stage = "storing"
  BY DEF GateInv, Gate!StoreState
<1>2. PICK t \in 0..gateTime, s \in Standings :
        /\ polls[p] = Holding(t, s)
        /\ s = standing \/ t <= changedAt
  BY <1>1, Stages DEF PollFresh, HoldsFresh
<1>3. /\ gateCache' = << [state |-> s, expires |-> t + TTL] >>
      /\ answered' = [asked |-> t, code |-> Gate!Decide(s, gateTime)]
  BY <1>2 DEF Gate!StoreState, Gate!entry, Gate!Answer, Holding
<1> QED
  BY <1>2, <1>3

LEMMA StoreSafe ==
    ASSUME GateInv, NEW p \in Pollers, Gate!StoreState(p)
    PROVE  GateInv'
<1>1. /\ UNCHANGED <<gateTime, standing, changedAt, changes, overdue>>
      /\ gateTime \in gateTime..MaxTime /\ overdue \in 0..changes
      /\ gateTime \in Nat \ {0} /\ changedAt \in Nat \ {0} /\ TTL \in Nat \ {0}
  BY GateAssumption DEF Gate!StoreState, GateInv, GateClock, Gate!GateConstants
<1>2. GateClock'
  BY <1>1, StandingStays
<1>3. CacheFresh'
  <2>1. PICK t \in 0..gateTime, s \in Standings :
          /\ s = standing \/ t <= changedAt
          /\ gateCache' = << [state |-> s, expires |-> t + TTL] >>
    BY StoringHolds
  <2>2. t + TTL \in 1..(gateTime + TTL) /\ (s = standing \/ t + TTL <= changedAt + TTL)
    BY <1>1, <2>1
  <2> QED
    BY <1>1, <2>1, <2>2 DEF CacheFresh
<1>4. polls' = [polls EXCEPT ![p] = Gate!Idle]
  BY DEF Gate!StoreState
<1>5. ASSUME NEW q \in Pollers PROVE PollFresh(polls[q])'
  <2>1. CASE q # p
    <3>1. polls'[q] = polls[q]
      BY <1>4, <2>1
    <3> QED
      BY <1>1, <3>1, StandingStays
  <2>2. CASE q = p
    BY <1>1, <1>4, <2>2 DEF PollFresh, GateInv
  <2> QED
    BY <2>1, <2>2
<1> QED
  BY <1>2, <1>3, <1>4, <1>5 DEF GateInv

LEMMA GateStep ==
    ASSUME GateInv, [Gate!Next]_Gate!vars
    PROVE  GateInv'
<1>1. gateTime \in Nat \ {0} /\ overdue \in 0..changes /\ changes \in Nat /\ gateTime \in 1..MaxTime
      /\ MaxTime \in Nat
  BY GateAssumption DEF GateInv, GateClock, Gate!GateConstants
<1>2. CASE Gate!Invalidate
  <2>1. /\ UNCHANGED <<standing, changedAt, changes, polls>> /\ gateCache' = <<>>
        /\ overdue' \in 0..changes /\ gateTime' \in gateTime..MaxTime
    BY <1>1, <1>2 DEF Gate!Invalidate
  <2>2. GateClock' /\ CacheFresh' /\ \A p \in Pollers : PollFresh(polls[p])'
    BY <2>1, StandingStays DEF CacheFresh
  <2> QED
    BY <2>1, <2>2 DEF GateInv
<1>3. CASE Gate!Tick
  <2>1. /\ UNCHANGED <<standing, changedAt, changes, polls, gateCache>>
        /\ overdue' \in 0..changes /\ gateTime' \in gateTime..MaxTime
    BY <1>1, <1>3 DEF Gate!Tick
  <2>2. GateClock' /\ CacheFresh' /\ \A p \in Pollers : PollFresh(polls[p])'
    BY <2>1, StandingStays
  <2> QED
    BY <2>1, <2>2 DEF GateInv
<1>4. CASE UNCHANGED Gate!vars
  <2>1. /\ UNCHANGED <<standing, changedAt, changes, polls, gateCache>>
        /\ overdue' \in 0..changes /\ gateTime' \in gateTime..MaxTime
    BY <1>1, <1>4 DEF Gate!vars
  <2>2. GateClock' /\ CacheFresh' /\ \A p \in Pollers : PollFresh(polls[p])'
    BY <2>1, StandingStays
  <2> QED
    BY <2>1, <2>2 DEF GateInv
<1> QED
  BY <1>2, <1>3, <1>4, HappensSafe, AskSafe, ReadSafe, StoreSafe DEF Gate!Next

LEMMA GateInvariant ==
    Gate!Spec => []GateInv
<1>1. Gate!Init => GateInv
  BY GateStarts
<1>2. GateInv /\ [Gate!Next]_Gate!vars => GateInv'
  BY GateStep
<1> QED
  BY <1>1, <1>2, PTL DEF Gate!Spec

\* What an answer of Status rests on: a standing that was the contestant's at the last change
\* before the question, or later.
LEMMA AnswerRests ==
    ASSUME GateInv, Gate!Next, answered' # answered
    PROVE  /\ UNCHANGED <<standing, gateTime, changedAt>>
           /\ \E t \in Nat, s \in Standings :
                /\ answered' = [asked |-> t, code |-> Gate!Decide(s, gateTime)]
                /\ s = standing \/ t < changedAt + TTL
<1>0. gateTime \in Nat \ {0} /\ TTL \in Nat \ {0} /\ changedAt \in Nat
  BY GateAssumption DEF GateInv, GateClock, Gate!GateConstants
<1>1. ASSUME NEW p \in Pollers, Gate!AskStatus(p)
      PROVE  \E t \in Nat, s \in Standings :
               /\ answered' = [asked |-> t, code |-> Gate!Decide(s, gateTime)]
               /\ s = standing \/ t < changedAt + TTL
  <2>1. /\ gateCache # <<>> /\ gateTime < gateCache[1].expires
        /\ answered' = [asked |-> gateTime, code |-> Gate!Decide(gateCache[1].state, gateTime)]
    BY <1>1 DEF Gate!AskStatus, Gate!hit, Gate!Answer
  <2>2. PICK s \in Standings, x \in 1..(gateTime + TTL) :
          /\ gateCache = << [state |-> s, expires |-> x] >>
          /\ s = standing \/ x <= changedAt + TTL
    BY <2>1 DEF GateInv, CacheFresh
  <2>3. gateCache[1].state = s /\ gateCache[1].expires = x
    BY <2>2
  <2>4. s = standing \/ gateTime < changedAt + TTL
    BY <1>0, <2>1, <2>2, <2>3
  <2> QED
    BY <1>0, <2>1, <2>3, <2>4
<1>2. ASSUME NEW p \in Pollers, Gate!StoreState(p)
      PROVE  \E t \in Nat, s \in Standings :
               /\ answered' = [asked |-> t, code |-> Gate!Decide(s, gateTime)]
               /\ s = standing \/ t < changedAt + TTL
  <2>1. PICK t \in 0..gateTime, s \in Standings :
          /\ s = standing \/ t <= changedAt
          /\ answered' = [asked |-> t, code |-> Gate!Decide(s, gateTime)]
    BY <1>2, StoringHolds
  <2>2. t \in Nat /\ (s = standing \/ t < changedAt + TTL)
    BY <1>0, <2>1
  <2> QED
    BY <2>1, <2>2
<1>3. ~Gate!Happens /\ ~Gate!Order /\ ~Gate!Invalidate /\ ~Gate!Tick /\ \A p \in Pollers : ~Gate!ReadState(p)
  BY DEF Gate!Happens, Gate!Order, Gate!Invalidate, Gate!Tick, Gate!ReadState
<1>4. PICK p \in Pollers : Gate!AskStatus(p) \/ Gate!StoreState(p)
  BY <1>3 DEF Gate!Next
<1>5. UNCHANGED <<standing, gateTime, changedAt>>
  BY <1>4 DEF Gate!AskStatus, Gate!StoreState
<1> QED
  BY <1>1, <1>2, <1>4, <1>5

\* The types of the gate's state: no entry of the cache outlives its life.
THEOREM GateTypes ==
    Gate!Spec => []Gate!TypeOK
<1>1. ASSUME GateInv PROVE Gate!TypeOK
  <2>1. /\ gateTime \in 1..MaxTime /\ changedAt \in 1..gateTime /\ overdue \in 0..MaxChanges
        /\ gateTime \in Nat /\ MaxChanges \in Nat
    BY GateAssumption, <1>1 DEF GateInv, GateClock, Gate!GateConstants
  <2>2. standing.seen \in 0..gateTime
    BY <1>1, <2>1 DEF GateInv, GateClock, Possible, Standings
  <2>3. standing.seen > 0 => standing.hasAgent
    BY <1>1 DEF GateInv, GateClock, Possible
  <2>4. gateCache # <<>> => gateCache[1].expires \in 1..(gateTime + TTL)
    BY <1>1 DEF GateInv, CacheFresh
  <2>5. ASSUME NEW p \in Pollers
        PROVE  polls[p].stage \in {"idle", "reading", "storing"} /\ polls[p].asked <= gateTime
    <3>1. PollFresh(polls[p])
      BY <1>1 DEF GateInv
    <3>2. CASE polls[p] = Gate!Idle
      BY <2>1, <3>2 DEF Gate!Idle
    <3>3. ASSUME NEW t \in 0..gateTime, polls[p] = Asking(t)
          PROVE  polls[p].stage \in {"idle", "reading", "storing"} /\ polls[p].asked <= gateTime
      BY <2>1, <3>3 DEF Asking
    <3>4. ASSUME NEW t \in 0..gateTime, NEW s \in Standings, polls[p] = Holding(t, s)
          PROVE  polls[p].stage \in {"idle", "reading", "storing"} /\ polls[p].asked <= gateTime
      BY <2>1, <3>4 DEF Holding
    <3> QED
      BY <3>1, <3>2, <3>3, <3>4, Zenon DEF PollFresh, HoldsFresh
  <2> QED
    BY <2>1, <2>2, <2>3, <2>4, <2>5 DEF Gate!TypeOK
<1> QED
  BY <1>1, GateInvariant, PTL

\* Whoever asks for the status later than the life of an entry after the last change hears
\* what a submission would meet, whatever reads and orders overtook each other (Status, its
\* cache, and Invalidate).
THEOREM StatusAgrees ==
    Gate!Spec => Gate!StatusAgreesSoon
<1> DEFINE Agrees == answered' # answered /\ changedAt + TTL <= answered'.asked
                       => answered'.code = Gate!Check
<1>1. GateInv /\ [Gate!Next]_Gate!vars => [Agrees]_Gate!vars
  <2> SUFFICES ASSUME GateInv, Gate!Next, answered' # answered, changedAt + TTL <= answered'.asked
               PROVE  answered'.code = Gate!Check
    OBVIOUS
  <2>1. PICK t \in Nat, s \in Standings :
          /\ answered' = [asked |-> t, code |-> Gate!Decide(s, gateTime)]
          /\ s = standing \/ t < changedAt + TTL
    BY AnswerRests
  <2>2. changedAt \in Nat /\ TTL \in Nat /\ answered'.asked = t
    BY GateAssumption, <2>1 DEF GateInv, GateClock, Gate!GateConstants
  <2>3. s = standing
    BY <2>1, <2>2
  <2> QED
    BY <2>1, <2>3 DEF Gate!Check
<1>2. Gate!StatusAgreesSoon <=> [][Agrees]_Gate!vars
  BY PTL DEF Gate!StatusAgreesSoon
<1> HIDE DEF Agrees
<1> QED
  BY <1>1, <1>2, GateInvariant, PTL DEF Gate!Spec

-----------------------------------------------------------------------------
(* The monitoring console.                                                 *)


\* The loads that are sent, and those with their answers.
SectionData   == UNION {[D -> Nat] : D \in SUBSET Monitor!Sections}
SentLoads     == [who : {"chain", "stopped", "button"}, want : SUBSET Monitor!Sections,
                  mine : BOOLEAN, st : {"sent"}]
AnsweredLoads == [who : {"chain", "stopped", "button"}, want : SUBSET Monitor!Sections,
                  mine : BOOLEAN, failed : SUBSET Monitor!Sections, st : {"ok", "error"},
                  data : SectionData]
Loads         == SentLoads \cup AnsweredLoads

LEMMA LoadFields ==
    ASSUME NEW l \in Loads
    PROVE  /\ l.who \in {"chain", "stopped", "button"} /\ l.want \in SUBSET Monitor!Sections
           /\ l.mine \in BOOLEAN /\ l.st \in {"sent", "ok", "error"}
           /\ l.st # "sent" => l.failed \in SUBSET Monitor!Sections /\ l.data \in SectionData
  BY DEF Loads, SentLoads, AnsweredLoads

LEMMA SupersededLoad ==
    ASSUME NEW l \in Loads, NEW u, u = [l EXCEPT !.mine = FALSE]
    PROVE  u \in Loads /\ u.mine = FALSE /\ u.who = l.who
  BY DEF Loads, SentLoads, AnsweredLoads

LEMMA StoppedLoad ==
    ASSUME NEW l \in Loads, NEW u, u = [l EXCEPT !.who = "stopped"]
    PROVE  u \in Loads /\ u.mine = l.mine /\ u.who = "stopped"
  BY DEF Loads, SentLoads, AnsweredLoads

LEMMA NewLoad ==
    ASSUME NEW who \in {"chain", "button"}, NEW want \in SUBSET Monitor!Sections,
           NEW l, l = Monitor!Load(who, want)
    PROVE  l \in Loads /\ l.mine /\ l.who = who /\ l.st = "sent"
  BY DEF Loads, SentLoads, Monitor!Load

LEMMA LoadAnswered ==
    ASSUME NEW l \in Loads, NEW failed \in SUBSET l.want, NEW st \in {"ok", "error"},
           NEW d \in SectionData,
           NEW a, a = [who |-> l.who, mine |-> l.mine, want |-> l.want, failed |-> failed,
                       st |-> st, data |-> d]
    PROVE  a \in Loads /\ a.mine = l.mine /\ a.who = l.who /\ a.st = st /\ a.data = d
  BY LoadFields DEF Loads, AnsweredLoads

\* What a load brings is not older than what is shown, nor newer than what the server has.
Newer(l, seen, known) ==
  \A s \in DOMAIN l.data : seen[s] <= l.data[s] /\ l.data[s] <= known[s]

MonitorTypes ==
  /\ facts \in [Monitor!Sections -> Nat] /\ panels \in [Monitor!Sections -> Nat]
  /\ loaded \subseteq Monitor!Sections /\ watched \in Pages /\ momentFilter \in Monitor!Chips
  /\ isAutoRefreshActive \in BOOLEAN /\ timer \in BOOLEAN
  /\ isRefreshing \in BOOLEAN /\ loadError \in BOOLEAN

\* At most one load is the newest one and at most one is the chain's.
OneOfEach(ls) ==
  /\ \A i, j \in DOMAIN ls : ls[i].mine /\ ls[j].mine => i = j
  /\ \A i, j \in DOMAIN ls : ls[i].who = "chain" /\ ls[j].who = "chain" => i = j

\* The chain goes on by its timeout or by its load, never by both.
ChainGoes(ls, t, active) ==
  /\ ~active => ~t
  /\ active => (t <=> \A j \in DOMAIN ls : ls[j].who # "chain")

MonitorInv ==
  /\ MonitorTypes /\ loads \in Seq(Loads)
  /\ OneOfEach(loads) /\ ChainGoes(loads, timer, isAutoRefreshActive) /\ Monitor!SpinnerEnds
  /\ \A s \in Monitor!Sections : panels[s] <= facts[s]
  /\ \A j \in DOMAIN loads :
       loads[j].mine /\ loads[j].st # "sent" => Newer(loads[j], panels, facts)

LEMMA SupersededList ==
    ASSUME NEW ls \in Seq(Loads), NEW t, t = Monitor!Superseded(ls)
    PROVE  /\ t \in Seq(Loads) /\ DOMAIN t = DOMAIN ls
           /\ \A j \in DOMAIN t : t[j].mine = FALSE /\ t[j].who = ls[j].who
<1>1. t = [j \in 1..Len(ls) |-> [ls[j] EXCEPT !.mine = FALSE]] /\ Len(ls) \in Nat
      /\ DOMAIN ls = 1..Len(ls)
  BY DEF Monitor!Superseded
<1>2. ASSUME NEW j \in 1..Len(ls)
      PROVE  t[j] \in Loads /\ t[j].mine = FALSE /\ t[j].who = ls[j].who
  <2>1. ls[j] \in Loads /\ t[j] = [ls[j] EXCEPT !.mine = FALSE]
    BY <1>1
  <2> QED
    BY <2>1, SupersededLoad
<1>3. t \in [1..Len(ls) -> Loads]
  <2>1. t = [j \in 1..Len(ls) |-> t[j]]
    BY <1>1
  <2> QED
    BY <1>2, <2>1
<1>4. t \in Seq(Loads) /\ DOMAIN t = 1..Len(ls)
  BY <1>1, <1>3
<1> QED
  BY <1>1, <1>2, <1>4, Zenon

LEMMA StoppedList ==
    ASSUME NEW ls \in Seq(Loads), NEW t, t = Monitor!Stopped(ls)
    PROVE  /\ t \in Seq(Loads) /\ DOMAIN t = DOMAIN ls
           /\ \A j \in DOMAIN t : t[j].mine = ls[j].mine /\ t[j].who # "chain"
<1> DEFINE stop(l) == IF l.who = "chain" THEN [l EXCEPT !.who = "stopped"] ELSE l
<1>1. t = [j \in 1..Len(ls) |-> stop(ls[j])] /\ Len(ls) \in Nat /\ DOMAIN ls = 1..Len(ls)
  BY DEF Monitor!Stopped
<1>2. ASSUME NEW l \in Loads PROVE stop(l) \in Loads /\ stop(l).mine = l.mine /\ stop(l).who # "chain"
  BY StoppedLoad
<1> HIDE DEF stop
<1> QED
  BY <1>1, <1>2

\* A load that supersedes those under way.
LEMMA NewestLoad ==
    ASSUME NEW ls \in Seq(Loads), \A j \in DOMAIN ls : ls[j].mine = FALSE,
           NEW l \in Loads, l.mine, NEW t, t = Append(ls, l)
    PROVE  /\ t \in Seq(Loads)
           /\ DOMAIN t = 1..(Len(ls) + 1)
           /\ \A j \in DOMAIN t : IF j = Len(ls) + 1 THEN t[j] = l ELSE j \in DOMAIN ls /\ t[j] = ls[j]
           /\ \A j \in DOMAIN t : t[j].mine <=> j = Len(ls) + 1
<1>1. t \in Seq(Loads) /\ DOMAIN t = 1..(Len(ls) + 1) /\ Len(ls) \in Nat /\ DOMAIN ls = 1..Len(ls)
  OBVIOUS
<1>2. \A j \in DOMAIN t : IF j = Len(ls) + 1 THEN t[j] = l ELSE j \in DOMAIN ls /\ t[j] = ls[j]
  BY <1>1
<1>3. \A j \in DOMAIN t : t[j].mine <=> j = Len(ls) + 1
  BY <1>2, Zenon
<1> QED
  BY <1>1, <1>2, <1>3

LEMMA MonitorStarts == Monitor!Init => MonitorInv
<1> SUFFICES ASSUME Monitor!Init PROVE MonitorInv
  OBVIOUS
<1> DEFINE l == Monitor!Load("chain", Monitor!Sections)
<1>1. loads = <<l>>
  BY DEF Monitor!Init
<1>2. l \in Loads /\ l.mine /\ l.who = "chain" /\ l.st = "sent"
  BY NewLoad
<1> HIDE DEF l
<1>3. loads \in Seq(Loads) /\ DOMAIN loads = {1} /\ loads[1] = l
  BY <1>1, <1>2
<1>4. MonitorTypes /\ timer = FALSE /\ isAutoRefreshActive = TRUE
  BY DEF Monitor!Init, MonitorTypes, Monitor!Chips
<1>5. \A s \in Monitor!Sections : panels[s] <= facts[s]
  BY DEF Monitor!Init
<1>6. OneOfEach(loads) /\ ChainGoes(loads, timer, isAutoRefreshActive)
  BY <1>2, <1>3, <1>4, Zenon DEF OneOfEach, ChainGoes
<1>7. Monitor!SpinnerEnds
  BY <1>2, <1>3, Zenon DEF Monitor!SpinnerEnds
<1>8. \A j \in DOMAIN loads : loads[j].st = "sent"
  BY <1>2, <1>3
<1> QED
  BY <1>3, <1>4, <1>5, <1>6, <1>7, <1>8 DEF MonitorInv

\* A load is sent: it is the only one that is heeded, and it is in time for the spinner.
LEMMA SentSafe ==
    ASSUME MonitorInv, UNCHANGED <<facts, panels>>,
           NEW ls \in Seq(Loads), \A j \in DOMAIN ls : ls[j].mine = FALSE,
           NEW who \in {"chain", "button"}, NEW want \in SUBSET Monitor!Sections,
           loads' = Append(ls, Monitor!Load(who, want))
    PROVE  /\ loads' \in Seq(Loads)
           /\ \A i, j \in DOMAIN loads' : loads'[i].mine /\ loads'[j].mine => i = j
           /\ Monitor!SpinnerEnds'
           /\ \A j \in DOMAIN loads' :
                loads'[j].mine /\ loads'[j].st # "sent" => Newer(loads'[j], panels', facts')
           /\ \A j \in DOMAIN loads' :
                IF j = Len(ls) + 1 THEN loads'[j].who = who
                ELSE j \in DOMAIN ls /\ loads'[j].who = ls[j].who
           /\ DOMAIN loads' = 1..(Len(ls) + 1)
<1> DEFINE l == Monitor!Load(who, want)
           t == Append(ls, l)
<1>1. l \in Loads /\ l.mine /\ l.who = who /\ l.st = "sent"
  BY NewLoad
<1>2. loads' = t
  OBVIOUS
<1> HIDE DEF l
<1>3. /\ t \in Seq(Loads) /\ DOMAIN t = 1..(Len(ls) + 1)
      /\ \A j \in DOMAIN t : IF j = Len(ls) + 1 THEN t[j] = l ELSE j \in DOMAIN ls /\ t[j] = ls[j]
      /\ \A j \in DOMAIN t : t[j].mine <=> j = Len(ls) + 1
  BY <1>1, NewestLoad
<1> HIDE DEF t
<1>4. Len(ls) + 1 \in DOMAIN t
  <2>1. Len(ls) \in Nat
    OBVIOUS
  <2> QED
    BY <1>3, <2>1
<1>5. \A j \in DOMAIN t : ~(t[j].mine /\ t[j].st # "sent")
  BY <1>1, <1>3, Zenon
<1>6. \A i, j \in DOMAIN t : t[i].mine /\ t[j].mine => i = j
  BY <1>3, Zenon
<1>7. \E j \in DOMAIN t : t[j].mine
  BY <1>3, <1>4, Zenon
<1>8. \A j \in DOMAIN t : IF j = Len(ls) + 1 THEN t[j].who = who
                          ELSE j \in DOMAIN ls /\ t[j].who = ls[j].who
  BY <1>1, <1>3, Zenon
<1> QED
  BY <1>2, <1>3, <1>5, <1>6, <1>7, <1>8, Zenon DEF Monitor!SpinnerEnds

\* The chain's own load: no other is the chain's.
LEMMA ChainSafe ==
    ASSUME MonitorInv, UNCHANGED <<facts, panels>>,
           NEW ls \in Seq(Loads), \A j \in DOMAIN ls : ls[j].mine = FALSE,
           \A j \in DOMAIN ls : ls[j].who # "chain",
           NEW want \in SUBSET Monitor!Sections,
           loads' = Append(ls, Monitor!Load("chain", want)), timer' = FALSE
    PROVE  /\ loads' \in Seq(Loads)
           /\ OneOfEach(loads') /\ ChainGoes(loads', timer', isAutoRefreshActive')
           /\ Monitor!SpinnerEnds'
           /\ \A j \in DOMAIN loads' :
                loads'[j].mine /\ loads'[j].st # "sent" => Newer(loads'[j], panels', facts')
<1>1. /\ loads' \in Seq(Loads) /\ Monitor!SpinnerEnds'
      /\ \A i, j \in DOMAIN loads' : loads'[i].mine /\ loads'[j].mine => i = j
      /\ \A j \in DOMAIN loads' :
           loads'[j].mine /\ loads'[j].st # "sent" => Newer(loads'[j], panels', facts')
      /\ \A j \in DOMAIN loads' :
           IF j = Len(ls) + 1 THEN loads'[j].who = "chain"
           ELSE j \in DOMAIN ls /\ loads'[j].who = ls[j].who
      /\ DOMAIN loads' = 1..(Len(ls) + 1)
  <2>1. "chain" \in {"chain", "button"}
    OBVIOUS
  <2> QED
    BY <2>1, SentSafe, Zenon
<1>2. \A j \in DOMAIN loads' : loads'[j].who = "chain" <=> j = Len(ls) + 1
  BY <1>1, Zenon
<1>3. Len(ls) + 1 \in DOMAIN loads'
  <2>1. Len(ls) \in Nat
    OBVIOUS
  <2> QED
    BY <1>1, <2>1
<1>4. OneOfEach(loads')
  BY <1>1, <1>2, Zenon DEF OneOfEach
<1>5. ChainGoes(loads', timer', isAutoRefreshActive')
  BY <1>2, <1>3, Zenon DEF ChainGoes
<1> QED
  BY <1>1, <1>4, <1>5, Zenon

LEMMA RefreshSafe ==
    ASSUME MonitorInv, Monitor!refreshNow
    PROVE  MonitorInv'
<1> DEFINE ls == Monitor!Superseded(loads)
<1>1. /\ loads' = Append(ls, Monitor!Load("button", Monitor!Sections)) /\ isRefreshing' = TRUE
      /\ UNCHANGED <<facts, watched, isAutoRefreshActive, timer, panels, loaded, loadError, momentFilter>>
  BY DEF Monitor!refreshNow, Monitor!timelineVars
<1>2. /\ ls \in Seq(Loads) /\ DOMAIN ls = DOMAIN loads
      /\ \A j \in DOMAIN ls : ls[j].mine = FALSE /\ ls[j].who = loads[j].who
  BY SupersededList DEF MonitorInv
<1> HIDE DEF ls
<1>3. /\ loads' \in Seq(Loads) /\ Monitor!SpinnerEnds'
      /\ \A i, j \in DOMAIN loads' : loads'[i].mine /\ loads'[j].mine => i = j
      /\ \A j \in DOMAIN loads' :
           loads'[j].mine /\ loads'[j].st # "sent" => Newer(loads'[j], panels', facts')
      /\ \A j \in DOMAIN loads' :
           IF j = Len(ls) + 1 THEN loads'[j].who = "button"
           ELSE j \in DOMAIN ls /\ loads'[j].who = ls[j].who
      /\ DOMAIN loads' = 1..(Len(ls) + 1)
  <2>1. "button" \in {"chain", "button"} /\ Monitor!Sections \in SUBSET Monitor!Sections
    OBVIOUS
  <2> QED
    BY <1>1, <1>2, <2>1, SentSafe, Zenon
<1>4. "button" # "chain" /\ DOMAIN loads \subseteq DOMAIN loads' /\ Len(ls) + 1 \notin DOMAIN loads
  BY <1>2, <1>3
<1>5. \A j \in DOMAIN loads' : loads'[j].who = "chain" => j \in DOMAIN loads /\ loads[j].who = "chain"
  BY <1>2, <1>3, <1>4, Zenon
<1>6. \A j \in DOMAIN loads : j \in DOMAIN loads' /\ loads'[j].who = loads[j].who
  BY <1>2, <1>3, <1>4, Zenon
<1>7. OneOfEach(loads')
  BY <1>3, <1>5, Zenon DEF OneOfEach, MonitorInv
<1>8. ChainGoes(loads', timer', isAutoRefreshActive')
  BY <1>1, <1>5, <1>6, Zenon DEF ChainGoes, MonitorInv
<1>9. MonitorTypes' /\ \A s \in Monitor!Sections : panels'[s] <= facts'[s]
  BY <1>1 DEF MonitorInv, MonitorTypes
<1> QED
  BY <1>3, <1>7, <1>8, <1>9, Zenon DEF MonitorInv

\* The chain starts again: its own loads have been stopped.
LEMMA RestartSafe ==
    ASSUME MonitorInv, Monitor!restartChain, isAutoRefreshActive' \in BOOLEAN, watched' \in Pages,
           UNCHANGED <<facts, panels, loaded, loadError, momentFilter>>
    PROVE  MonitorInv'
<1> DEFINE ls == Monitor!Stopped(Monitor!Superseded(loads))
<1>1. /\ loads' = Append(ls, Monitor!Load("chain", Monitor!Sections))
      /\ isRefreshing' = TRUE /\ timer' = FALSE
  BY DEF Monitor!restartChain
<1>2. /\ ls \in Seq(Loads)
      /\ \A j \in DOMAIN ls : ls[j].mine = FALSE /\ ls[j].who # "chain"
  <2> DEFINE t == Monitor!Superseded(loads)
  <2>1. t \in Seq(Loads) /\ \A j \in DOMAIN t : t[j].mine = FALSE
    BY SupersededList DEF MonitorInv
  <2> HIDE DEF t
  <2>2. Monitor!Stopped(t) \in Seq(Loads) /\ DOMAIN Monitor!Stopped(t) = DOMAIN t
        /\ \A j \in DOMAIN Monitor!Stopped(t) : /\ Monitor!Stopped(t)[j].mine = t[j].mine
                                                /\ Monitor!Stopped(t)[j].who # "chain"
    BY <2>1, StoppedList
  <2> QED
    BY <2>1, <2>2, Zenon DEF t
<1> HIDE DEF ls
<1>3. /\ loads' \in Seq(Loads)
      /\ OneOfEach(loads') /\ ChainGoes(loads', timer', isAutoRefreshActive')
      /\ Monitor!SpinnerEnds'
      /\ \A j \in DOMAIN loads' :
           loads'[j].mine /\ loads'[j].st # "sent" => Newer(loads'[j], panels', facts')
  <2>1. Monitor!Sections \in SUBSET Monitor!Sections
    OBVIOUS
  <2> QED
    BY <1>1, <1>2, <2>1, ChainSafe, Zenon
<1>4. MonitorTypes' /\ \A s \in Monitor!Sections : panels'[s] <= facts'[s]
  BY <1>1 DEF MonitorInv, MonitorTypes
<1> QED
  BY <1>3, <1>4, Zenon DEF MonitorInv

LEMMA TickSafe ==
    ASSUME MonitorInv, Monitor!tick
    PROVE  MonitorInv'
<1> DEFINE ls == Monitor!Superseded(loads)
<1>1. /\ loads' = Append(ls, Monitor!Load("chain", Monitor!sectionsForPath(watched)))
      /\ isRefreshing' = TRUE /\ timer /\ timer' = FALSE
      /\ UNCHANGED <<facts, watched, isAutoRefreshActive, panels, loaded, loadError, momentFilter>>
  BY DEF Monitor!tick, Monitor!timelineVars
<1>2. /\ ls \in Seq(Loads) /\ DOMAIN ls = DOMAIN loads
      /\ \A j \in DOMAIN ls : ls[j].mine = FALSE /\ ls[j].who = loads[j].who
  BY SupersededList DEF MonitorInv
<1> HIDE DEF ls
<1>3. \A j \in DOMAIN ls : ls[j].who # "chain"
  BY <1>1, <1>2, Zenon DEF MonitorInv, ChainGoes
<1>4. Monitor!sectionsForPath(watched) \in SUBSET Monitor!Sections
  BY DEF MonitorInv, MonitorTypes, Monitor!sectionsForPath, Monitor!Sections
<1>5. /\ loads' \in Seq(Loads)
      /\ OneOfEach(loads') /\ ChainGoes(loads', timer', isAutoRefreshActive')
      /\ Monitor!SpinnerEnds'
      /\ \A j \in DOMAIN loads' :
           loads'[j].mine /\ loads'[j].st # "sent" => Newer(loads'[j], panels', facts')
  BY <1>1, <1>2, <1>3, <1>4, ChainSafe, Zenon
<1>6. MonitorTypes' /\ \A s \in Monitor!Sections : panels'[s] <= facts'[s]
  BY <1>1 DEF MonitorInv, MonitorTypes
<1> QED
  BY <1>5, <1>6, Zenon DEF MonitorInv

\* The server counts up the version of a section.
LEMMA ServerMovesSafe ==
    ASSUME MonitorInv, Monitor!ServerMoves
    PROVE  MonitorInv'
<1>1. /\ UNCHANGED <<watched, isAutoRefreshActive, loads, timer, panels, loaded, isRefreshing,
                     loadError, momentFilter>>
      /\ \E s \in Monitor!Sections : facts' = [facts EXCEPT ![s] = @ + 1]
  BY Zenon DEF Monitor!ServerMoves, Monitor!timelineVars
<1>2. /\ facts' \in [Monitor!Sections -> Nat]
      /\ \A s \in Monitor!Sections : facts[s] <= facts'[s]
  BY <1>1 DEF MonitorInv, MonitorTypes
<1>3. \A s \in Monitor!Sections : panels'[s] <= facts'[s]
  BY <1>1, <1>2 DEF MonitorInv, MonitorTypes
<1>4. ASSUME NEW j \in DOMAIN loads, Newer(loads[j], panels, facts), loads[j].st # "sent"
      PROVE  Newer(loads[j], panels, facts')
  <2>1. loads[j].data \in SectionData
    BY <1>4, LoadFields DEF MonitorInv
  <2>2. ASSUME NEW s \in DOMAIN loads[j].data
        PROVE  /\ s \in Monitor!Sections /\ loads[j].data[s] \in Nat
    BY <2>1 DEF SectionData
  <2> QED
    BY <1>2, <1>4, <2>2 DEF Newer, MonitorInv, MonitorTypes
<1>5. MonitorTypes' /\ Monitor!SpinnerEnds'
  BY <1>1, <1>2 DEF MonitorInv, MonitorTypes, Monitor!SpinnerEnds
<1> QED
  BY <1>1, <1>3, <1>4, <1>5, Zenon DEF MonitorInv

\* The server answers with what it has.
LEMMA AnswerSafe ==
    ASSUME MonitorInv, NEW j \in DOMAIN loads, Monitor!ServerAnswers(j)
    PROVE  MonitorInv'
<1>1. /\ loads[j].st = "sent" /\ loads \in Seq(Loads) /\ loads[j] \in Loads
      /\ UNCHANGED <<facts, watched, isAutoRefreshActive, timer, panels, loaded, isRefreshing,
                     loadError, momentFilter>>
  BY DEF Monitor!ServerAnswers, Monitor!timelineVars, MonitorInv
<1>2. PICK failed \in SUBSET loads[j].want :
        loads' = [loads EXCEPT ![j] =
          [who |-> loads[j].who, mine |-> loads[j].mine, want |-> loads[j].want, failed |-> failed,
           st |-> IF failed = loads[j].want THEN "error" ELSE "ok",
           data |-> [s \in loads[j].want \ failed |-> facts[s]]]]
  BY DEF Monitor!ServerAnswers
<1> DEFINE answer == [s \in loads[j].want \ failed |-> facts[s]]
           st == IF failed = loads[j].want THEN "error" ELSE "ok"
           a == [who |-> loads[j].who, mine |-> loads[j].mine, want |-> loads[j].want,
                 failed |-> failed, st |-> st, data |-> answer]
<1>3. /\ answer \in SectionData /\ DOMAIN answer \subseteq Monitor!Sections
      /\ \A s \in DOMAIN answer : answer[s] = facts[s]
  <2>1. loads[j].want \in SUBSET Monitor!Sections
    BY <1>1, LoadFields
  <2>2. answer \in [loads[j].want \ failed -> Nat]
    BY <2>1 DEF MonitorInv, MonitorTypes
  <2> QED
    BY <2>1, <2>2 DEF SectionData
<1>4. st \in {"ok", "error"} /\ loads' = [loads EXCEPT ![j] = a]
  BY <1>2
<1> HIDE DEF answer, st
<1>5. a \in Loads /\ a.mine = loads[j].mine /\ a.who = loads[j].who /\ a.data = answer
  BY <1>1, <1>3, <1>4, LoadAnswered
<1> HIDE DEF a
<1>6. /\ loads' \in Seq(Loads) /\ DOMAIN loads' = DOMAIN loads
      /\ \A i \in DOMAIN loads : loads'[i] = IF i = j THEN a ELSE loads[i]
  BY <1>1, <1>4, <1>5
<1>7. \A i \in DOMAIN loads : (loads'[i].mine <=> loads[i].mine) /\ loads'[i].who = loads[i].who
  BY <1>5, <1>6, Zenon
<1>8. OneOfEach(loads') /\ ChainGoes(loads', timer', isAutoRefreshActive')
  BY <1>1, <1>6, <1>7, Zenon DEF MonitorInv, OneOfEach, ChainGoes
<1>9. Monitor!SpinnerEnds'
  BY <1>1, <1>6, <1>7, Zenon DEF MonitorInv, Monitor!SpinnerEnds
<1>10. Newer(a, panels, facts)
  BY <1>3, <1>5 DEF Newer, MonitorInv, MonitorTypes
<1>11. ASSUME NEW i \in DOMAIN loads', loads'[i].mine, loads'[i].st # "sent"
       PROVE  Newer(loads'[i], panels', facts')
  <2>1. CASE i = j
    <3>1. loads'[i] = a /\ panels' = panels /\ facts' = facts
      BY <1>1, <1>6, <2>1
    <3> QED
      BY <1>10, <3>1, Zenon
  <2>2. CASE i # j
    <3>1. loads'[i] = loads[i] /\ panels' = panels /\ facts' = facts /\ i \in DOMAIN loads
      BY <1>1, <1>6, <2>2
    <3> QED
      BY <1>11, <3>1, Zenon DEF MonitorInv
  <2> QED
    BY <2>1, <2>2
<1>12. MonitorTypes' /\ \A s \in Monitor!Sections : panels'[s] <= facts'[s]
  BY <1>1 DEF MonitorInv, MonitorTypes
<1> QED
  BY <1>6, <1>8, <1>9, <1>11, <1>12, Zenon DEF MonitorInv

\* What a reply puts on the page.
LEMMA ReplyShows ==
    ASSUME MonitorInv, NEW j \in DOMAIN loads, Monitor!Reply(j)
    PROVE  /\ panels' \in [Monitor!Sections -> Nat] /\ loaded' \subseteq Monitor!Sections
           /\ \A s \in Monitor!Sections : panels[s] <= panels'[s] /\ panels'[s] <= facts[s]
           /\ loads[j].mine \/ panels' = panels
<1> DEFINE l == loads[j]
<1>1. l \in Loads /\ l.st # "sent"
  BY DEF MonitorInv, Monitor!Reply
<1>2. l.want \in SUBSET Monitor!Sections /\ l.data \in SectionData /\ l.mine \in BOOLEAN
  BY <1>1, LoadFields
<1>3. /\ facts \in [Monitor!Sections -> Nat] /\ panels \in [Monitor!Sections -> Nat]
      /\ loaded \subseteq Monitor!Sections
      /\ \A s \in Monitor!Sections : panels[s] <= facts[s]
  BY DEF MonitorInv, MonitorTypes
<1>4. CASE l.mine /\ l.st = "ok"
  <2>1. /\ panels' = [s \in Monitor!Sections |-> IF s \in DOMAIN l.data THEN l.data[s] ELSE panels[s]]
        /\ loaded' = loaded \cup (l.want \ l.failed)
    BY <1>4, Zenon DEF Monitor!Reply, Monitor!heeded
  <2>2. Newer(l, panels, facts)
    BY <1>1, <1>4, Zenon DEF MonitorInv
  <2>3. \A s \in DOMAIN l.data : s \in Monitor!Sections /\ l.data[s] \in Nat
    BY <1>2 DEF SectionData
  <2> HIDE DEF l
  <2>4. ASSUME NEW s \in Monitor!Sections
        PROVE  /\ panels'[s] \in Nat /\ panels[s] <= panels'[s] /\ panels'[s] <= facts[s]
    BY <1>3, <2>1, <2>2, <2>3 DEF Newer
  <2>5. panels' \in [Monitor!Sections -> Nat]
    BY <2>1, <2>4
  <2> QED
    BY <1>2, <1>3, <1>4, <2>1, <2>4, <2>5 DEF l
<1>5. CASE ~(l.mine /\ l.st = "ok")
  <2>1. UNCHANGED <<panels, loaded>>
    BY <1>5, Zenon DEF Monitor!Reply, Monitor!heeded
  <2> QED
    BY <1>3, <2>1
<1> QED
  BY <1>4, <1>5

LEMMA ReplySafe ==
    ASSUME MonitorInv, NEW j \in DOMAIN loads, Monitor!Reply(j)
    PROVE  MonitorInv'
<1> DEFINE l == loads[j]
<1>1. /\ isRefreshing' = (isRefreshing /\ ~l.mine)
      /\ timer' = (timer \/ (l.who = "chain" /\ isAutoRefreshActive))
      /\ loads' = RemoveAt(loads, j)
      /\ UNCHANGED <<facts, watched, isAutoRefreshActive, momentFilter>>
  BY Zenon DEF Monitor!Reply, Monitor!heeded, Monitor!chainGoesOn, Monitor!timelineVars,
               Monitor!RemoveAt, RemoveAt
<1>2. loadError' \in BOOLEAN
  <2>1. loadError' = (l.failed # {}) \/ loadError' = (loadError \/ l.mine)
    BY Zenon DEF Monitor!Reply, Monitor!heeded
  <2> QED
    BY <2>1, Zenon
<1>3. /\ loads' \in Seq(Loads)
      /\ \A i \in DOMAIN loads' : /\ Place(j, i) \in DOMAIN loads \ {j}
                                  /\ loads'[i] = loads[Place(j, i)]
      /\ \A i, k \in DOMAIN loads' : Place(j, i) = Place(j, k) => i = k
      /\ \A k \in DOMAIN loads \ {j} : \E i \in DOMAIN loads' : k = Place(j, i)
  <2>1. loads \in Seq(Loads)
    BY DEF MonitorInv
  <2> QED
    BY <1>1, <2>1, OthersStay
<1>4. \A i \in DOMAIN loads' : \E k \in DOMAIN loads : k # j /\ loads'[i] = loads[k]
  BY <1>3, Zenon
<1>5. \A k \in DOMAIN loads : k # j => \E i \in DOMAIN loads' : loads'[i] = loads[k]
  BY <1>3, Zenon
<1>6. OneOfEach(loads')
  <2>1. ASSUME NEW i \in DOMAIN loads', NEW k \in DOMAIN loads', loads'[i].mine, loads'[k].mine
        PROVE  i = k
    <3>1. Place(j, i) = Place(j, k)
      BY <1>3, <2>1, Zenon DEF MonitorInv, OneOfEach
    <3> QED
      BY <1>3, <3>1
  <2>2. ASSUME NEW i \in DOMAIN loads', NEW k \in DOMAIN loads',
               loads'[i].who = "chain", loads'[k].who = "chain"
        PROVE  i = k
    <3>1. Place(j, i) = Place(j, k)
      BY <1>3, <2>2, Zenon DEF MonitorInv, OneOfEach
    <3> QED
      BY <1>3, <3>1
  <2> QED
    BY <2>1, <2>2, Zenon DEF OneOfEach
<1>7. ChainGoes(loads', timer', isAutoRefreshActive')
  <2>1. CASE ~isAutoRefreshActive
    BY <1>1, <2>1, Zenon DEF ChainGoes, MonitorInv
  <2>2. CASE isAutoRefreshActive /\ l.who = "chain"
    <3>1. \A k \in DOMAIN loads : k # j => loads[k].who # "chain"
      BY <2>2, Zenon DEF MonitorInv, OneOfEach
    <3>2. \A i \in DOMAIN loads' : loads'[i].who # "chain"
      BY <1>4, <3>1, Zenon
    <3> QED
      BY <1>1, <2>2, <3>2, Zenon DEF ChainGoes
  <2>3. CASE isAutoRefreshActive /\ l.who # "chain"
    <3>1. (\A k \in DOMAIN loads : loads[k].who # "chain")
            <=> (\A i \in DOMAIN loads' : loads'[i].who # "chain")
      BY <1>4, <1>5, <2>3, Zenon
    <3> QED
      BY <1>1, <2>3, <3>1, Zenon DEF ChainGoes, MonitorInv
  <2> QED
    BY <2>1, <2>2, <2>3, Zenon
<1>8. Monitor!SpinnerEnds'
  <2>1. CASE isRefreshing /\ ~l.mine
    <3>1. PICK k \in DOMAIN loads : loads[k].mine
      BY <2>1, Zenon DEF MonitorInv, Monitor!SpinnerEnds
    <3>2. k # j
      BY <2>1, <3>1, Zenon
    <3> QED
      BY <1>5, <3>1, <3>2, Zenon DEF Monitor!SpinnerEnds
  <2>2. CASE ~(isRefreshing /\ ~l.mine)
    BY <1>1, <2>2, Zenon DEF Monitor!SpinnerEnds
  <2> QED
    BY <2>1, <2>2, Zenon
<1>9. ASSUME NEW i \in DOMAIN loads', loads'[i].mine, loads'[i].st # "sent"
      PROVE  Newer(loads'[i], panels', facts')
  <2>1. PICK k \in DOMAIN loads : k # j /\ loads'[i] = loads[k]
    BY <1>4
  <2>2. ~loads[j].mine
    BY <1>9, <2>1, Zenon DEF MonitorInv, OneOfEach
  <2>3. panels' = panels /\ facts' = facts
    BY <1>1, <2>2, ReplyShows, Zenon
  <2>4. Newer(loads[k], panels, facts)
    BY <1>9, <2>1, Zenon DEF MonitorInv
  <2> QED
    BY <2>1, <2>3, <2>4, Zenon
<1>10. MonitorTypes'
  <2>1. isRefreshing' \in BOOLEAN /\ timer' \in BOOLEAN
    BY <1>1, Zenon
  <2> QED
    BY <1>1, <1>2, <2>1, ReplyShows, Zenon DEF MonitorInv, MonitorTypes
<1>11. \A s \in Monitor!Sections : panels'[s] <= facts'[s]
  BY <1>1, ReplyShows, Zenon
<1> QED
  BY <1>3, <1>6, <1>7, <1>8, <1>9, <1>10, <1>11, Zenon DEF MonitorInv

LEMMA MonitorStep ==
    ASSUME MonitorInv, [Monitor!Console]_Monitor!monitoringVars
    PROVE  MonitorInv'
<1>1. CASE Monitor!ServerMoves
  BY <1>1, ServerMovesSafe
<1>2. CASE Monitor!tick
  BY <1>2, TickSafe
<1>3. CASE Monitor!PressRefresh
  BY <1>3, RefreshSafe DEF Monitor!PressRefresh
<1>4. CASE Monitor!RefreshAfterChange
  BY <1>4, RefreshSafe DEF Monitor!RefreshAfterChange
<1>5. CASE Monitor!setAutoRefreshActive
  <2>1. /\ isAutoRefreshActive' = (~isAutoRefreshActive) /\ Monitor!restartChain
        /\ UNCHANGED <<facts, watched, panels, loaded, loadError, momentFilter>>
    BY <1>5, Zenon DEF Monitor!setAutoRefreshActive, Monitor!timelineVars
  <2>2. isAutoRefreshActive' \in BOOLEAN
    BY <2>1, Zenon
  <2>3. watched' \in Pages
    BY <2>1 DEF MonitorInv, MonitorTypes
  <2> QED
    BY <2>1, <2>2, <2>3, RestartSafe
<1>6. ASSUME NEW j \in DOMAIN loads, Monitor!ServerAnswers(j) PROVE MonitorInv'
  BY <1>6, AnswerSafe
<1>7. ASSUME NEW j \in DOMAIN loads, Monitor!Reply(j) PROVE MonitorInv'
  BY <1>7, ReplySafe
<1>8. ASSUME NEW page \in Pages, Monitor!goTo(page) PROVE MonitorInv'
  <2>1. /\ watched' = page /\ Monitor!restartChain
        /\ UNCHANGED <<facts, isAutoRefreshActive, panels, loaded, loadError, momentFilter>>
    BY <1>8, Zenon DEF Monitor!goTo, Monitor!timelineVars
  <2>2. isAutoRefreshActive' \in BOOLEAN /\ watched' \in Pages
    BY <2>1 DEF MonitorInv, MonitorTypes
  <2> QED
    BY <2>1, <2>2, RestartSafe
<1>9. CASE UNCHANGED Monitor!monitoringVars
  <2>1. UNCHANGED <<facts, watched, isAutoRefreshActive, loads, timer, panels, loaded, isRefreshing,
                    loadError, momentFilter>>
    BY <1>9, Zenon DEF Monitor!monitoringVars, Monitor!consoleVars, Monitor!timelineVars
  <2>2. MonitorTypes'
    BY <2>1 DEF MonitorInv, MonitorTypes
  <2> QED
    BY <2>1, <2>2, Zenon DEF MonitorInv, Monitor!SpinnerEnds
<1> QED
  BY <1>1, <1>2, <1>3, <1>4, <1>5, <1>6, <1>7, <1>8, <1>9, Zenon DEF Monitor!Console

LEMMA MonitorInvariant == Monitor!Spec => []MonitorInv
<1>1. Monitor!Init => MonitorInv
  BY MonitorStarts
<1>2. MonitorInv /\ [Monitor!Console]_Monitor!monitoringVars => MonitorInv'
  BY MonitorStep
<1> QED
  BY <1>1, <1>2, PTL DEF Monitor!Spec

\* The types of the monitoring console's state.
THEOREM MonitorKeepsTypes == Monitor!Spec => []Monitor!TypeOK
<1>1. ASSUME MonitorInv PROVE Monitor!TypeOK
  <2>1. MonitorTypes
    BY <1>1 DEF MonitorInv
  <2>2. DOMAIN facts = Monitor!Sections /\ DOMAIN panels = Monitor!Sections
    BY <2>1 DEF MonitorTypes
  <2>3. {isAutoRefreshActive, timer, isRefreshing, loadError} \subseteq BOOLEAN
    BY <2>1, Zenon DEF MonitorTypes
  <2>4. ASSUME NEW j \in DOMAIN loads
        PROVE  /\ loads[j].who \in {"chain", "stopped", "button"}
               /\ loads[j].st \in {"sent", "ok", "error"} /\ loads[j].want \subseteq Monitor!Sections
    <3>1. loads[j] \in Loads
      BY <1>1 DEF MonitorInv
    <3> QED
      BY <3>1, LoadFields
  <2> QED
    BY <2>1, <2>2, <2>3, <2>4, Zenon DEF Monitor!TypeOK, MonitorTypes
<1> QED
  BY <1>1, MonitorInvariant, PTL

LEMMA SameCardinality == ASSUME NEW S PROVE Monitor!Cardinality(S) = Cardinality(S)
  BY Zenon DEF Monitor!Cardinality, Cardinality

\* The poll goes on: with auto-refresh on its timeout is set or its load under way, and never
\* both or two of them, in whatever order pages change and replies come (the chained
\* timeouts of the effect).
THEOREM PollGoesOn == Monitor!Spec => []Monitor!OneChain
<1>1. ASSUME MonitorInv PROVE Monitor!OneChain
  <2> DEFINE Chain == {j \in DOMAIN loads : loads[j].who = "chain"}
  <2>1. CASE isAutoRefreshActive /\ timer
    <3>1. Chain = {}
      BY <1>1, <2>1, Zenon DEF MonitorInv, ChainGoes
    <3>2. Cardinality(Chain) = 0
      BY <3>1, FS_EmptySet
    <3> QED
      BY <2>1, <3>2, SameCardinality DEF Monitor!OneChain
  <2>2. CASE isAutoRefreshActive /\ ~timer
    <3>1. \E j \in DOMAIN loads : loads[j].who = "chain"
      BY <1>1, <2>2, Zenon DEF MonitorInv, ChainGoes
    <3>2. \A i, j \in Chain : i = j
      BY <1>1, Zenon DEF MonitorInv, OneOfEach
    <3>3. \E j : Chain = {j}
      <4>1. PICK j \in Chain : TRUE
        BY <3>1
      <4> HIDE DEF Chain
      <4> QED
        BY <3>2, <4>1
    <3>4. Cardinality(Chain) = 1
      BY <3>3, FS_Singleton
    <3> QED
      BY <2>2, <3>4, SameCardinality DEF Monitor!OneChain
  <2>3. CASE ~isAutoRefreshActive
    BY <1>1, <2>3, Zenon DEF MonitorInv, ChainGoes, Monitor!OneChain
  <2> QED
    BY <2>1, <2>2, <2>3, Zenon
<1> QED
  BY <1>1, MonitorInvariant, PTL

\* While Refresh is disabled, the load that enables it again is under way (isRefreshing).
THEOREM RefreshComesBack == Monitor!Spec => []Monitor!SpinnerEnds
<1>1. MonitorInv => Monitor!SpinnerEnds
  BY DEF MonitorInv
<1> QED
  BY <1>1, MonitorInvariant, PTL

\* No panel is put back to older data, in whatever order the answers come (the generation a
\* reply is compared with).
THEOREM PanelsKeepTheNewest == Monitor!Spec => Monitor!PanelsNeverGoBack
<1> DEFINE Kept == \A s \in Monitor!Sections : panels'[s] >= panels[s]
<1>1. MonitorInv /\ [Monitor!Console]_Monitor!monitoringVars => [Kept]_Monitor!monitoringVars
  <2> SUFFICES ASSUME MonitorInv, Monitor!Console PROVE Kept
    OBVIOUS
  <2>1. panels \in [Monitor!Sections -> Nat]
    BY DEF MonitorInv, MonitorTypes
  <2>2. ASSUME panels' = panels PROVE Kept
    BY <2>1, <2>2
  <2>3. ASSUME NEW j \in DOMAIN loads, Monitor!Reply(j) PROVE Kept
    <3>1. /\ panels' \in [Monitor!Sections -> Nat]
          /\ \A s \in Monitor!Sections : panels[s] <= panels'[s]
      BY <2>3, ReplyShows
    <3> QED
      BY <2>1, <3>1
  <2> HIDE DEF Kept
  <2>4. ASSUME NEW j \in DOMAIN loads, Monitor!ServerAnswers(j) PROVE Kept
    BY <2>2, <2>4, Zenon DEF Monitor!ServerAnswers
  <2>5. ASSUME NEW page \in Pages, Monitor!goTo(page) PROVE Kept
    BY <2>2, <2>5, Zenon DEF Monitor!goTo
  <2> QED
    BY <2>2, <2>3, <2>4, <2>5, Zenon
       DEF Monitor!Console, Monitor!ServerMoves, Monitor!tick, Monitor!PressRefresh,
           Monitor!RefreshAfterChange, Monitor!refreshNow, Monitor!setAutoRefreshActive
<1>2. Monitor!PanelsNeverGoBack <=> [][Kept]_Monitor!monitoringVars
  BY PTL DEF Monitor!PanelsNeverGoBack
<1> HIDE DEF Kept
<1> QED
  BY <1>1, <1>2, MonitorInvariant, PTL DEF Monitor!Spec

\* The monitoring pages as a whole: the poll goes on in one chain, the Refresh button comes
\* back, and no panel goes back to older data.
THEOREM MonitoringHolds == Monitor!Spec => ConsoleHolds
  BY PollGoesOn, RefreshComesBack, PanelsKeepTheNewest, PTL DEF ConsoleHolds

-----------------------------------------------------------------------------
(* The submissions page and the audit page.                                *)


LedgerClock ==
  /\ MaxVersions \in Nat /\ ledgerVersion \in 1..MaxVersions
  /\ data.version \in 0..ledgerVersion /\ ownVersion \in 0..ledgerVersion

\* The loader has run, and its runs and the operations under way have their fields.
CallsHold ==
  /\ \E S : calls \in Seq(S)
  /\ Len(calls) > 0
  /\ \A i \in DOMAIN calls : calls[i] = [st |-> calls[i].st, answer |-> calls[i].answer]

IsHandler(h) ==
  /\ h = [kind |-> h.kind, id |-> h.id, st |-> h.st, call |-> h.call, version |-> h.version]
  /\ h.version \in 0..ledgerVersion

HandlersHold == (\E S : handlers \in Seq(S)) /\ \A j \in DOMAIN handlers : IsHandler(handlers[j])

\* What was asked for is what is chosen now.
Agrees(a) == a.filter = statusFilter /\ (listPage = "submissions" => a = Ledger!Asked)

Newest == calls[Len(calls)]

\* The loader's last run is for what is chosen; its answer is no older than the rows shown and
\* than the operations reported; and once it is over the rows are its answer.
NewestHolds ==
  /\ Newest.st \in {"sent", "answered", "failed", "over"}
  /\ Newest.st # "over" => (loading \/ refreshing) /\ Agrees(Newest.answer.asked)
  /\ Newest.st = "answered" => /\ Newest.answer.version \in 0..ledgerVersion
                               /\ data.version <= Newest.answer.version
                               /\ ownVersion <= Newest.answer.version
  /\ Newest.st = "over" /\ ~listError /\ data.rows # <<>> =>
       Agrees(data.asked) /\ ownVersion <= data.version

LedgerInv ==
  LedgerClock /\ CallsHold /\ HandlersHold /\ NewestHolds /\ Ledger!DetailIsChosen

LEMMA LedgerStarts ==
    Ledger!Init => LedgerInv
<1> SUFFICES ASSUME Ledger!Init PROVE LedgerInv
  OBVIOUS
<1> DEFINE first == Ledger!Nothing(Ledger!Asked)
           c == [st |-> "sent", answer |-> first]
<1>1. /\ ledgerVersion = 1 /\ calls = <<c>> /\ data = first /\ loading = TRUE
      /\ handlers = <<>> /\ selected = 0 /\ chosen = 0 /\ ownVersion = 0
  BY DEF Ledger!Init, Ledger!None
<1>2. first.version = 0 /\ first.asked = Ledger!Asked
  BY DEF Ledger!Nothing, Ledger!Blank
<1>3. Ledger!Asked.filter = statusFilter
  BY DEF Ledger!Asked
<1> HIDE DEF first
<1>4. c.st = "sent" /\ c.answer = first /\ c = [st |-> c.st, answer |-> c.answer]
  OBVIOUS
<1> HIDE DEF c
<1>5. calls \in Seq({c}) /\ Len(calls) = 1 /\ DOMAIN calls = {1} /\ calls[1] = c
  BY <1>1
<1>6. CallsHold
  BY <1>4, <1>5 DEF CallsHold
<1>7. Newest = c
  BY <1>5 DEF Newest
<1>8. NewestHolds
  BY <1>1, <1>2, <1>3, <1>4, <1>7 DEF NewestHolds, Agrees
<1>9. LedgerClock
  BY LedgerAssumption, <1>1, <1>2 DEF LedgerClock, Ledger!LedgerConstants
<1>10. HandlersHold
  <2>1. handlers \in Seq({}) /\ DOMAIN handlers = {}
    BY <1>1
  <2> QED
    BY <2>1 DEF HandlersHold
<1> QED
  BY <1>1, <1>6, <1>8, <1>9, <1>10 DEF LedgerInv, Ledger!DetailIsChosen

\* A run of the loader: it is the last one, for what is chosen at its end.
LEMMA RunSafe ==
    ASSUME LedgerInv, NEW a, NEW isRefresh \in BOOLEAN, Ledger!run(a, isRefresh), Agrees(a)'
    PROVE  /\ CallsHold' /\ NewestHolds' /\ data' = data /\ listError' = listError
           /\ Len(calls') = Len(calls) + 1
<1> DEFINE none == Ledger!Nothing(a)
           c == [st |-> "sent", answer |-> none]
<1>1. /\ calls' = Append(calls, c) /\ data' = data /\ listError' = listError
      /\ loading' = TRUE \/ refreshing' = TRUE
  BY Zenon DEF Ledger!run
<1>2. none.asked = a
  BY DEF Ledger!Nothing, Ledger!Blank
<1> HIDE DEF none
<1>3. c.st = "sent" /\ c.answer = none /\ c = [st |-> c.st, answer |-> c.answer]
  OBVIOUS
<1> HIDE DEF c
<1>4. PICK S : calls \in Seq(S)
  BY DEF LedgerInv, CallsHold
<1>5. /\ calls' \in Seq(S \cup {c}) /\ Len(calls) \in Nat /\ Len(calls') = Len(calls) + 1
      /\ calls'[Len(calls')] = c
      /\ \A i \in DOMAIN calls' : calls'[i] = c \/ (i \in DOMAIN calls /\ calls'[i] = calls[i])
  BY <1>1, <1>4
<1>6. CallsHold'
  <2>1. Len(calls') > 0
    BY <1>5
  <2>2. \A i \in DOMAIN calls' : calls'[i] = [st |-> calls'[i].st, answer |-> calls'[i].answer]
    BY <1>3, <1>5, Zenon DEF LedgerInv, CallsHold
  <2> QED
    BY <1>5, <2>1, <2>2 DEF CallsHold
<1>7. Newest' = c
  BY <1>5 DEF Newest
<1>8. (loading' \/ refreshing') /\ Agrees(none.asked)'
  BY <1>1, <1>2, Zenon DEF Agrees
<1>9. NewestHolds'
  BY <1>2, <1>3, <1>7, <1>8 DEF NewestHolds
<1> QED
  BY <1>1, <1>5, <1>6, <1>9

\* The call at i changes; it stays a call.
LEMMA CallChanges ==
    ASSUME CallsHold, NEW i \in DOMAIN calls, NEW c, c = [st |-> c.st, answer |-> c.answer],
           calls' = [calls EXCEPT ![i] = c]
    PROVE  /\ CallsHold' /\ Len(calls') = Len(calls)
           /\ Newest' = IF i = Len(calls) THEN c ELSE Newest
<1>1. PICK S : calls \in Seq(S)
  BY DEF CallsHold
<1>2. /\ calls' \in Seq(S \cup {c}) /\ Len(calls') = Len(calls) /\ DOMAIN calls' = DOMAIN calls
      /\ \A k \in DOMAIN calls : calls'[k] = IF k = i THEN c ELSE calls[k]
      /\ Len(calls) \in DOMAIN calls
  BY <1>1 DEF CallsHold
<1>3. \A k \in DOMAIN calls' : calls'[k] = [st |-> calls'[k].st, answer |-> calls'[k].answer]
  BY <1>2, Zenon DEF CallsHold
<1>4. CallsHold'
  BY <1>2, <1>3 DEF CallsHold
<1>5. Newest' = IF i = Len(calls) THEN c ELSE Newest
  BY <1>2 DEF Newest
<1> QED
  BY <1>2, <1>4, <1>5

\* What the last call and the rows owe to each other does not look at the rest of the state.
LEMMA NewestFrame ==
    ASSUME LedgerInv, Newest' = Newest, ledgerVersion' \in Nat, ledgerVersion <= ledgerVersion',
           UNCHANGED <<data, listError, loading, refreshing, ownVersion, listPage>>,
           UNCHANGED <<statusFilter, pageAsked, pageSize>>
             \/ (UNCHANGED statusFilter /\ listPage # "submissions")
    PROVE  NewestHolds'
<1>1. \A a : Agrees(a) => Agrees(a)'
  BY DEF Agrees, Ledger!Asked
<1>2. \A v \in 0..ledgerVersion : v \in 0..ledgerVersion'
  BY DEF LedgerInv, LedgerClock
<1>3. Agrees(Newest.answer.asked) => Agrees(Newest.answer.asked)'
  BY <1>1
<1> QED
  BY <1>1, <1>2, Zenon DEF LedgerInv, NewestHolds

LEMMA ServeSafe ==
    ASSUME LedgerInv, NEW i \in DOMAIN calls, Ledger!Serve(i)
    PROVE  LedgerInv'
<1>1. /\ calls[i].st = "sent"
      /\ calls' = [calls EXCEPT ![i] = [st |-> "answered", answer |-> Ledger!Listed(calls[i].answer.asked)]]
      /\ UNCHANGED <<listPage, ledgerVersion, data, listError, loading, refreshing, statusFilter,
                     pageAsked, pageSize, handlers, selected, chosen, ownVersion>>
  BY Zenon
     DEF Ledger!Serve, Ledger!tableVars, Ledger!viewVars, Ledger!actionVars, Ledger!detailVars
<1>2. PICK a : a = Ledger!Listed(calls[i].answer.asked)
  OBVIOUS
<1>3. a.version = ledgerVersion /\ a.asked = calls[i].answer.asked
  BY <1>2, Zenon DEF Ledger!Listed
<1> DEFINE c == [st |-> "answered", answer |-> a]
<1>4. c.st = "answered" /\ c.answer = a /\ c = [st |-> c.st, answer |-> c.answer]
  OBVIOUS
<1>5. calls' = [calls EXCEPT ![i] = c]
  BY <1>1, <1>2
<1> HIDE DEF c
<1>6. CallsHold' /\ Newest' = IF i = Len(calls) THEN c ELSE Newest
  BY <1>4, <1>5, CallChanges DEF LedgerInv
<1>7. NewestHolds'
  <2>1. CASE i # Len(calls)
    BY <1>1, <1>6, <2>1, NewestFrame DEF LedgerInv, LedgerClock
  <2>2. CASE i = Len(calls)
    <3>1. Newest' = c /\ Newest = calls[i]
      BY <1>6, <2>2 DEF Newest
    <3>2. (loading' \/ refreshing') /\ Agrees(a.asked)'
      BY <1>1, <1>3, <3>1 DEF LedgerInv, NewestHolds, Agrees, Ledger!Asked
    <3>3. /\ ledgerVersion \in 0..ledgerVersion /\ data.version <= ledgerVersion
          /\ ownVersion <= ledgerVersion
      BY DEF LedgerInv, LedgerClock
    <3>4. Newest'.st = "answered" /\ Newest'.answer = a
      BY <1>4, <3>1
    <3> QED
      BY <1>1, <1>3, <3>2, <3>3, <3>4 DEF NewestHolds
  <2> QED
    BY <2>1, <2>2
<1> QED
  BY <1>1, <1>6, <1>7
     DEF LedgerInv, LedgerClock, HandlersHold, IsHandler, Ledger!DetailIsChosen

LEMMA FailSafe ==
    ASSUME LedgerInv, NEW i \in DOMAIN calls, Ledger!Fail(i)
    PROVE  LedgerInv'
<1>1. /\ calls[i].st = "sent" /\ calls' = [calls EXCEPT ![i].st = "failed"]
      /\ UNCHANGED <<listPage, ledgerVersion, data, listError, loading, refreshing, statusFilter,
                     pageAsked, pageSize, handlers, selected, chosen, ownVersion>>
  BY Zenon
     DEF Ledger!Fail, Ledger!tableVars, Ledger!viewVars, Ledger!actionVars, Ledger!detailVars
<1>2. PICK a : a = calls[i].answer
  OBVIOUS
<1> DEFINE c == [st |-> "failed", answer |-> a]
<1>3. calls[i] = [st |-> calls[i].st, answer |-> calls[i].answer]
  BY DEF LedgerInv, CallsHold
<1>4. [calls[i] EXCEPT !.st = "failed"] = c
  BY <1>2, <1>3
<1>5. calls' = [calls EXCEPT ![i] = c]
  BY <1>1, <1>4
<1>6. c.st = "failed" /\ c.answer = a /\ c = [st |-> c.st, answer |-> c.answer]
  OBVIOUS
<1> HIDE DEF c
<1>7. CallsHold' /\ Newest' = IF i = Len(calls) THEN c ELSE Newest
  BY <1>5, <1>6, CallChanges DEF LedgerInv
<1>8. NewestHolds'
  <2>1. CASE i # Len(calls)
    BY <1>1, <1>7, <2>1, NewestFrame DEF LedgerInv, LedgerClock
  <2>2. CASE i = Len(calls)
    <3>1. Newest' = c /\ Newest = calls[i]
      BY <1>7, <2>2 DEF Newest
    <3>2. (loading' \/ refreshing') /\ Agrees(a.asked)'
      BY <1>1, <1>2, <3>1 DEF LedgerInv, NewestHolds, Agrees, Ledger!Asked
    <3>3. Newest'.st = "failed" /\ Newest'.answer = a
      BY <1>6, <3>1
    <3> QED
      BY <1>1, <3>2, <3>3 DEF NewestHolds
  <2> QED
    BY <2>1, <2>2
<1> QED
  BY <1>1, <1>7, <1>8
     DEF LedgerInv, LedgerClock, HandlersHold, IsHandler, Ledger!DetailIsChosen

\* The rest of a run; the rows it leaves are those there were or newer ones.
LEMMA SettleSafe ==
    ASSUME LedgerInv, NEW i \in DOMAIN calls, Ledger!Settle(i)
    PROVE  LedgerInv' /\ data.version <= data'.version
<1>1. /\ calls[i].st \in {"answered", "failed"}
      /\ calls' = [calls EXCEPT ![i] = [st |-> "over", answer |-> Ledger!Nothing(Ledger!Asked)]]
      /\ UNCHANGED <<listPage, ledgerVersion, statusFilter, pageAsked, pageSize, handlers,
                     selected, chosen, ownVersion>>
  BY Zenon
     DEF Ledger!Settle, Ledger!tableVars, Ledger!viewVars, Ledger!actionVars, Ledger!detailVars
<1>2. PICK a : a = Ledger!Nothing(Ledger!Asked)
  OBVIOUS
<1> DEFINE c == [st |-> "over", answer |-> a]
<1>3. c.st = "over" /\ c.answer = a /\ c = [st |-> c.st, answer |-> c.answer]
  OBVIOUS
<1>4. calls' = [calls EXCEPT ![i] = c]
  BY <1>1, <1>2
<1> HIDE DEF c
<1>5. CallsHold' /\ Newest' = IF i = Len(calls) THEN c ELSE Newest
  BY <1>3, <1>4, CallChanges DEF LedgerInv
<1>6. data.version \in 0..ledgerVersion /\ ledgerVersion \in Nat
  BY DEF LedgerInv, LedgerClock
<1>7. CASE i # Len(calls)
  <2>1. UNCHANGED <<data, listError, loading, refreshing>>
    BY <1>7, Zenon DEF Ledger!Settle, Ledger!superseded
  <2>2. NewestHolds'
    BY <1>1, <1>5, <1>6, <1>7, <2>1, NewestFrame
  <2> QED
    BY <1>1, <1>5, <1>6, <2>1, <2>2
       DEF LedgerInv, LedgerClock, HandlersHold, IsHandler, Ledger!DetailIsChosen
<1>8. CASE i = Len(calls)
  <2>1. Newest = calls[i] /\ Newest'.st = "over"
    BY <1>3, <1>5, <1>8 DEF Newest
  <2>2. CASE calls[i].st = "failed" /\ listPage = "audit"
    <3>1. listError' = TRUE /\ data' = data
      BY <1>8, <2>2, Zenon DEF Ledger!Settle, Ledger!superseded
    <3>2. NewestHolds'
      BY <2>1, <3>1 DEF NewestHolds
    <3> QED
      BY <1>1, <1>5, <1>6, <3>1, <3>2
         DEF LedgerInv, LedgerClock, HandlersHold, IsHandler, Ledger!DetailIsChosen
  <2>3. CASE calls[i].st = "failed" /\ listPage # "audit"
    <3>1. data' = Ledger!Blank(calls[i].answer.asked, data.version)
      BY <1>8, <2>3, Zenon DEF Ledger!Settle, Ledger!superseded
    <3>2. data'.version = data.version /\ data'.rows = <<>>
      BY <3>1 DEF Ledger!Blank
    <3>3. NewestHolds'
      BY <2>1, <3>2 DEF NewestHolds
    <3> QED
      BY <1>1, <1>5, <1>6, <3>2, <3>3
         DEF LedgerInv, LedgerClock, HandlersHold, IsHandler, Ledger!DetailIsChosen
  <2>4. CASE calls[i].st # "failed"
    <3>1. data' = calls[i].answer /\ calls[i].st = "answered"
      BY <1>1, <1>8, <2>4, Zenon DEF Ledger!Settle, Ledger!superseded
    <3>2. /\ data'.version \in 0..ledgerVersion /\ data.version <= data'.version
          /\ ownVersion <= data'.version /\ Agrees(data'.asked)
      BY <2>1, <3>1 DEF LedgerInv, NewestHolds
    <3>3. Agrees(data.asked)'
      BY <1>1, <3>2 DEF Agrees, Ledger!Asked
    <3>4. NewestHolds'
      BY <1>1, <2>1, <3>2, <3>3 DEF NewestHolds
    <3> QED
      BY <1>1, <1>5, <1>6, <3>2, <3>4
         DEF LedgerInv, LedgerClock, HandlersHold, IsHandler, Ledger!DetailIsChosen
  <2> QED
    BY <2>2, <2>3, <2>4
<1> QED
  BY <1>7, <1>8

\* What a step does to the table and to the rows shown.
LedgerMoves ==
  /\ \/ ledgerVersion' = ledgerVersion
     \/ ledgerVersion < MaxVersions /\ ledgerVersion' = ledgerVersion + 1 /\ data' = data
  /\ data.version <= data'.version

LEMMA ViewSafe ==
    ASSUME LedgerInv, NEW filter, NEW page, NEW size, Ledger!View(filter, page, size)
    PROVE  LedgerInv' /\ LedgerMoves
<1>1. /\ statusFilter' = filter /\ pageAsked' = page /\ pageSize' = size
      /\ UNCHANGED <<listPage, ledgerVersion, handlers, selected, chosen, ownVersion>>
  BY Zenon DEF Ledger!View, Ledger!tableVars, Ledger!actionVars, Ledger!detailVars
<1>2. CallsHold' /\ NewestHolds' /\ data' = data
  <2>1. CASE listPage = "submissions" \/ filter # statusFilter
    <3>1. PICK a : a = [filter |-> filter, page |-> page, size |-> size]
      OBVIOUS
    <3>2. Ledger!run(a, FALSE)
      BY <2>1, <3>1, Zenon DEF Ledger!View
    <3>3. a.filter = statusFilter' /\ a = Ledger!Asked'
      BY <1>1, <3>1 DEF Ledger!Asked
    <3>4. Agrees(a)'
      BY <3>3, Zenon DEF Agrees
    <3>5. FALSE \in BOOLEAN
      OBVIOUS
    <3> QED
      BY <3>2, <3>4, <3>5, RunSafe
  <2>2. CASE listPage # "submissions" /\ filter = statusFilter
    <3>1. UNCHANGED <<calls, data, listError, loading, refreshing>>
      BY <2>2, Zenon DEF Ledger!View, Ledger!asyncVars
    <3>2. ledgerVersion' \in Nat /\ ledgerVersion <= ledgerVersion' /\ Newest' = Newest
      BY <1>1, <3>1 DEF LedgerInv, LedgerClock, Newest
    <3>3. NewestHolds'
      BY <1>1, <2>2, <3>1, <3>2, NewestFrame
    <3> QED
      BY <3>1, <3>3 DEF LedgerInv, CallsHold
  <2> QED
    BY <2>1, <2>2
<1>3. LedgerClock' /\ LedgerMoves
  BY <1>1, <1>2 DEF LedgerInv, LedgerClock, LedgerMoves
<1> QED
  BY <1>1, <1>2, <1>3 DEF LedgerInv, HandlersHold, IsHandler, Ledger!DetailIsChosen

\* Nothing but the operations under way and the rest of the page changes.
LEMMA LedgerFrame ==
    ASSUME LedgerInv, HandlersHold', Ledger!DetailIsChosen', ledgerVersion' = ledgerVersion,
           UNCHANGED <<listPage, calls, data, listError, loading, refreshing, statusFilter,
                       pageAsked, pageSize, ownVersion>>
    PROVE  LedgerInv' /\ LedgerMoves
<1>1. ledgerVersion' \in Nat /\ ledgerVersion <= ledgerVersion' /\ Newest' = Newest
  BY DEF LedgerInv, LedgerClock, Newest
<1>2. NewestHolds'
  BY <1>1, NewestFrame
<1>3. CallsHold' /\ LedgerClock' /\ LedgerMoves
  BY DEF LedgerInv, CallsHold, LedgerClock, LedgerMoves
<1> QED
  BY <1>2, <1>3 DEF LedgerInv

LEMMA HandlersUnchanged ==
    ASSUME LedgerInv, UNCHANGED <<handlers, ledgerVersion>>
    PROVE  HandlersHold'
  BY DEF LedgerInv, HandlersHold, IsHandler

LEMMA HandlerAdded ==
    ASSUME LedgerInv, NEW kind, NEW s, ledgerVersion' = ledgerVersion,
           handlers' = Append(handlers, [kind |-> kind, id |-> s, st |-> "sent", call |-> 0, version |-> 0])
    PROVE  HandlersHold'
<1> DEFINE h == [kind |-> kind, id |-> s, st |-> "sent", call |-> 0, version |-> 0]
<1>1. PICK S : handlers \in Seq(S)
  BY DEF LedgerInv, HandlersHold
<1>2. h = [kind |-> h.kind, id |-> h.id, st |-> h.st, call |-> h.call, version |-> h.version]
      /\ h.version = 0
  OBVIOUS
<1>3. handlers' = Append(handlers, h)
  OBVIOUS
<1> HIDE DEF h
<1>4. /\ handlers' \in Seq(S \cup {h})
      /\ \A j \in DOMAIN handlers' : handlers'[j] = h \/ (j \in DOMAIN handlers /\ handlers'[j] = handlers[j])
  BY <1>1, <1>3
<1>5. IsHandler(h)'
  BY <1>2 DEF LedgerInv, LedgerClock, IsHandler
<1>6. \A j \in DOMAIN handlers : IsHandler(handlers[j])'
  BY DEF LedgerInv, HandlersHold, IsHandler
<1>7. ASSUME NEW j \in DOMAIN handlers' PROVE IsHandler(handlers[j])'
  <2>1. CASE handlers'[j] = h
    BY <1>5, <2>1 DEF IsHandler
  <2>2. CASE j \in DOMAIN handlers /\ handlers'[j] = handlers[j]
    BY <1>6, <2>2 DEF IsHandler
  <2> QED
    BY <1>4, <2>1, <2>2
<1> QED
  BY <1>4, <1>7 DEF HandlersHold

LEMMA HandlerGone ==
    ASSUME LedgerInv, NEW j \in DOMAIN handlers, ledgerVersion' = ledgerVersion,
           handlers' = Ledger!RemoveAt(handlers, j)
    PROVE  HandlersHold'
<1>1. PICK S : handlers \in Seq(S)
  BY DEF LedgerInv, HandlersHold
<1>2. handlers' = RemoveAt(handlers, j)
  BY DEF Ledger!RemoveAt, RemoveAt
<1>3. /\ handlers' \in Seq(S)
      /\ \A i \in DOMAIN handlers' : /\ Place(j, i) \in DOMAIN handlers \ {j}
                                     /\ handlers'[i] = handlers[Place(j, i)]
  BY <1>1, <1>2, OthersStay
<1>4. ASSUME NEW i \in DOMAIN handlers' PROVE IsHandler(handlers[i])'
  <2>1. IsHandler(handlers[Place(j, i)]) /\ handlers'[i] = handlers[Place(j, i)]
    BY <1>3 DEF LedgerInv, HandlersHold
  <2> QED
    BY <2>1 DEF IsHandler
<1> QED
  BY <1>3, <1>4 DEF HandlersHold

\* The operation at j changes; it stays one.
LEMMA HandlerChanges ==
    ASSUME LedgerInv, NEW j \in DOMAIN handlers, NEW h, IsHandler(h)',
           ledgerVersion' \in Nat, ledgerVersion <= ledgerVersion',
           handlers' = [handlers EXCEPT ![j] = h]
    PROVE  HandlersHold'
<1>1. PICK S : handlers \in Seq(S)
  BY DEF LedgerInv, HandlersHold
<1>2. /\ handlers' \in Seq(S \cup {h}) /\ DOMAIN handlers' = DOMAIN handlers
      /\ \A k \in DOMAIN handlers : handlers'[k] = IF k = j THEN h ELSE handlers[k]
  BY <1>1
<1>3. ASSUME NEW k \in DOMAIN handlers' PROVE IsHandler(handlers[k])'
  <2>1. CASE k = j
    BY <1>2, <2>1 DEF IsHandler
  <2>2. CASE k # j
    <3>1. handlers'[k] = handlers[k] /\ IsHandler(handlers[k])
      BY <1>2, <2>2 DEF LedgerInv, HandlersHold
    <3>2. \A v \in 0..ledgerVersion : v \in 0..ledgerVersion'
      BY DEF LedgerInv, LedgerClock
    <3> QED
      BY <3>1, <3>2 DEF IsHandler
  <2> QED
    BY <2>1, <2>2
<1> QED
  BY <1>2, <1>3 DEF HandlersHold

LEMMA ServeOperationSafe ==
    ASSUME LedgerInv, NEW j \in DOMAIN handlers, Ledger!ServeOperation(j)
    PROVE  LedgerInv' /\ LedgerMoves
<1>1. /\ ledgerVersion < MaxVersions /\ ledgerVersion' = ledgerVersion + 1
      /\ handlers' = [handlers EXCEPT ![j].st = "served", ![j].version = ledgerVersion']
      /\ UNCHANGED <<listPage, calls, data, listError, loading, refreshing, statusFilter,
                     pageAsked, pageSize, ownVersion, selected, chosen>>
  BY Zenon DEF Ledger!ServeOperation, Ledger!asyncVars, Ledger!viewVars, Ledger!detailVars
<1>2. PICK h : h = [[handlers[j] EXCEPT !.st = "served"] EXCEPT !.version = ledgerVersion']
  OBVIOUS
<1>3. handlers' = [handlers EXCEPT ![j] = h]
  BY <1>1, <1>2
<1>4. ledgerVersion \in Nat /\ ledgerVersion' \in Nat /\ ledgerVersion <= ledgerVersion'
  BY <1>1 DEF LedgerInv, LedgerClock
<1>5. IsHandler(h)'
  <2>1. IsHandler(handlers[j])
    BY DEF LedgerInv, HandlersHold
  <2>2. h = [kind |-> h.kind, id |-> h.id, st |-> h.st, call |-> h.call, version |-> h.version]
        /\ h.version = ledgerVersion'
    BY <1>2, <2>1 DEF IsHandler
  <2> QED
    BY <1>4, <2>2 DEF IsHandler
<1>6. HandlersHold'
  BY <1>3, <1>4, <1>5, HandlerChanges
<1>7. NewestHolds'
  <2>1. Newest' = Newest
    BY <1>1 DEF Newest
  <2> QED
    BY <1>1, <1>4, <2>1, NewestFrame
<1>8. CallsHold' /\ LedgerClock' /\ LedgerMoves
  BY <1>1 DEF LedgerInv, CallsHold, LedgerClock, LedgerMoves
<1> QED
  BY <1>1, <1>6, <1>7, <1>8 DEF LedgerInv, Ledger!DetailIsChosen

LEMMA OperationDoneSafe ==
    ASSUME LedgerInv, NEW j \in DOMAIN handlers, Ledger!OperationDone(j)
    PROVE  LedgerInv' /\ LedgerMoves
<1>1. /\ handlers[j].st = "served" /\ Ledger!run(Ledger!Asked, TRUE)
      /\ handlers' = [handlers EXCEPT ![j].st = "refreshing", ![j].call = Len(calls')]
      /\ ownVersion' = Ledger!Max({ownVersion, handlers[j].version})
      /\ UNCHANGED <<listPage, ledgerVersion, statusFilter, pageAsked, pageSize, selected, chosen>>
  BY Zenon DEF Ledger!OperationDone, Ledger!tableVars, Ledger!viewVars, Ledger!detailVars
<1>2. PICK a : a = Ledger!Asked
  OBVIOUS
<1>3. Agrees(a)'
  BY <1>1, <1>2 DEF Agrees, Ledger!Asked
<1>4. CallsHold' /\ NewestHolds' /\ data' = data
  <2>1. TRUE \in BOOLEAN /\ Ledger!run(a, TRUE)
    BY <1>1, <1>2
  <2> QED
    BY <1>3, <2>1, RunSafe
<1>5. PICK h : h = [[handlers[j] EXCEPT !.st = "refreshing"] EXCEPT !.call = Len(calls')]
  OBVIOUS
<1>6. handlers' = [handlers EXCEPT ![j] = h]
  BY <1>1, <1>5
<1>7. IsHandler(handlers[j]) /\ ledgerVersion \in Nat /\ ledgerVersion' = ledgerVersion
      /\ ownVersion \in 0..ledgerVersion
  BY <1>1 DEF LedgerInv, LedgerClock, HandlersHold
<1>8. h = [kind |-> h.kind, id |-> h.id, st |-> h.st, call |-> h.call, version |-> h.version]
      /\ h.version \in 0..ledgerVersion
  BY <1>5, <1>7 DEF IsHandler
<1>9. HandlersHold'
  <2>1. IsHandler(h)'
    BY <1>7, <1>8 DEF IsHandler
  <2>2. ledgerVersion' \in Nat /\ ledgerVersion <= ledgerVersion'
    BY <1>7
  <2> QED
    BY <1>6, <2>1, <2>2, HandlerChanges
<1>10. ownVersion' \in 0..ledgerVersion
  <2>1. handlers[j].version \in 0..ledgerVersion
    BY <1>7 DEF IsHandler
  <2>2. ownVersion \in Int /\ handlers[j].version \in Int
    BY <1>7, <2>1
  <2>3. ownVersion' = Max({ownVersion, handlers[j].version})
    BY <1>1 DEF Ledger!Max, Max
  <2>4. ownVersion' \in {ownVersion, handlers[j].version}
    BY <2>2, <2>3, MaxOfTwo, Zenon
  <2> QED
    BY <1>7, <2>1, <2>4
<1>11. LedgerClock' /\ LedgerMoves
  BY <1>1, <1>4, <1>10 DEF LedgerInv, LedgerClock, LedgerMoves
<1> QED
  BY <1>1, <1>4, <1>9, <1>11 DEF LedgerInv, Ledger!DetailIsChosen

\* The handlers' other steps leave the loader, the view and the server alone.
LEMMA HandlerSteps ==
    ASSUME LedgerInv,
           \/ \E s \in Ledger!RowIds :
                \/ \E kind \in {"rejudge", "restore"} : Ledger!RowOperation(kind, s)
                \/ Ledger!OpenReview(s) \/ Ledger!OpenUnstick(s)
           \/ Ledger!GiveReason \/ Ledger!CancelReview \/ Ledger!handleReject
           \/ \E b \in BOOLEAN : Ledger!CloseUnstick(b)
           \/ \E j \in DOMAIN handlers : Ledger!RefuseOperation(j) \/ Ledger!HandlerOver(j)
    PROVE  LedgerInv' /\ LedgerMoves
<1> USE DEF Ledger!tableVars, Ledger!asyncVars, Ledger!viewVars, Ledger!actionVars, Ledger!detailVars
<1> DEFINE Alone == UNCHANGED <<listPage, ledgerVersion, calls, data, listError, loading, refreshing,
                      statusFilter, pageAsked, pageSize, ownVersion, selected, chosen>>
<1>1. Alone /\ HandlersHold' => LedgerInv' /\ LedgerMoves
  BY LedgerFrame DEF LedgerInv, Ledger!DetailIsChosen
<1>2. ASSUME NEW s \in Ledger!RowIds, NEW kind \in {"rejudge", "restore"}, Ledger!RowOperation(kind, s)
      PROVE  LedgerInv' /\ LedgerMoves
  <2>1. Alone /\ handlers' = Append(handlers,
                   [kind |-> kind, id |-> s, st |-> "sent", call |-> 0, version |-> 0])
    BY <1>2, Zenon DEF Ledger!RowOperation
  <2> QED
    BY <1>1, <2>1, HandlerAdded
<1>3. ASSUME NEW s \in Ledger!RowIds, Ledger!OpenReview(s) \/ Ledger!OpenUnstick(s)
      PROVE  LedgerInv' /\ LedgerMoves
  <2>1. Alone /\ handlers' = handlers
    BY <1>3, Zenon DEF Ledger!OpenReview, Ledger!OpenUnstick
  <2> QED
    BY <1>1, <2>1, HandlersUnchanged
<1>4. CASE Ledger!GiveReason \/ Ledger!CancelReview
  <2>1. Alone /\ handlers' = handlers
    BY <1>4, Zenon DEF Ledger!GiveReason, Ledger!CancelReview
  <2> QED
    BY <1>1, <2>1, HandlersUnchanged
<1>5. CASE Ledger!handleReject
  <2>1. PICK s : s = reviewTarget
    OBVIOUS
  <2>2. Alone /\ handlers' = Append(handlers,
                   [kind |-> "reject", id |-> s, st |-> "sent", call |-> 0, version |-> 0])
    BY <1>5, <2>1, Zenon DEF Ledger!handleReject
  <2> QED
    BY <1>1, <2>2, HandlerAdded
<1>6. ASSUME NEW b \in BOOLEAN, Ledger!CloseUnstick(b)
      PROVE  LedgerInv' /\ LedgerMoves
  <2>1. PICK s : s = unstickTarget
    OBVIOUS
  <2>2. Alone
    BY <1>6, Zenon DEF Ledger!CloseUnstick
  <2>3. \/ handlers' = handlers
        \/ handlers' = Append(handlers,
             [kind |-> "unstick", id |-> s, st |-> "sent", call |-> 0, version |-> 0])
    BY <1>6, <2>1, Zenon DEF Ledger!CloseUnstick
  <2> QED
    BY <1>1, <2>2, <2>3, HandlersUnchanged, HandlerAdded
<1>7. ASSUME NEW j \in DOMAIN handlers, Ledger!RefuseOperation(j) \/ Ledger!HandlerOver(j)
      PROVE  LedgerInv' /\ LedgerMoves
  <2>1. Alone /\ handlers' = Ledger!RemoveAt(handlers, j)
    BY <1>7, Zenon DEF Ledger!RefuseOperation, Ledger!HandlerOver
  <2> QED
    BY <1>1, <2>1, HandlerGone
<1> QED
  BY <1>2, <1>3, <1>4, <1>5, <1>6, <1>7

LEMMA LedgerStep ==
    ASSUME LedgerInv, [Ledger!Next]_Ledger!submissionVars
    PROVE  LedgerInv' /\ LedgerMoves
<1> USE DEF Ledger!tableVars, Ledger!asyncVars, Ledger!viewVars, Ledger!actionVars, Ledger!detailVars
<1>1. CASE Ledger!Refresh
  <2>1. PICK a : a = Ledger!Asked
    OBVIOUS
  <2>2. /\ Ledger!run(a, TRUE)
        /\ UNCHANGED <<listPage, ledgerVersion, statusFilter, pageAsked, pageSize, handlers,
                       selected, chosen, ownVersion>>
    BY <1>1, <2>1, Zenon DEF Ledger!Refresh
  <2>3. Agrees(a)' /\ TRUE \in BOOLEAN
    BY <2>1, <2>2 DEF Agrees, Ledger!Asked
  <2>4. CallsHold' /\ NewestHolds' /\ data' = data
    BY <2>2, <2>3, RunSafe
  <2>5. LedgerClock' /\ LedgerMoves
    BY <2>2, <2>4 DEF LedgerInv, LedgerClock, LedgerMoves
  <2> QED
    BY <2>2, <2>4, <2>5, HandlersUnchanged DEF LedgerInv, Ledger!DetailIsChosen
<1>2. CASE Ledger!ClampPage
  <2>1. /\ listPage # "submissions"
        /\ UNCHANGED <<listPage, ledgerVersion, calls, data, listError, loading, refreshing,
                       statusFilter, handlers, selected, chosen, ownVersion>>
    BY <1>2 DEF Ledger!ClampPage
  <2>2. ledgerVersion' \in Nat /\ ledgerVersion <= ledgerVersion' /\ Newest' = Newest
    BY <2>1 DEF LedgerInv, LedgerClock, Newest
  <2>3. NewestHolds'
    BY <2>1, <2>2, NewestFrame
  <2>4. CallsHold' /\ LedgerClock' /\ LedgerMoves
    BY <2>1 DEF LedgerInv, CallsHold, LedgerClock, LedgerMoves
  <2> QED
    BY <2>1, <2>3, <2>4, HandlersUnchanged DEF LedgerInv, Ledger!DetailIsChosen
<1>3. CASE Ledger!TableMoves
  <2>1. /\ ledgerVersion < MaxVersions /\ ledgerVersion' = ledgerVersion + 1
        /\ UNCHANGED <<listPage, calls, data, listError, loading, refreshing, statusFilter, pageAsked,
                       pageSize, handlers, selected, chosen, ownVersion>>
    BY <1>3, Zenon DEF Ledger!TableMoves
  <2>2. ledgerVersion' \in Nat /\ ledgerVersion <= ledgerVersion' /\ Newest' = Newest
    BY <2>1 DEF LedgerInv, LedgerClock, Newest
  <2>3. NewestHolds'
    BY <2>1, <2>2, NewestFrame
  <2>4. CallsHold' /\ LedgerClock' /\ LedgerMoves
    BY <2>1 DEF LedgerInv, CallsHold, LedgerClock, LedgerMoves
  <2>5. HandlersHold'
    <3>1. \A v \in 0..ledgerVersion : v \in 0..ledgerVersion'
      BY <2>2 DEF LedgerInv, LedgerClock
    <3> QED
      BY <2>1, <3>1 DEF LedgerInv, HandlersHold, IsHandler
  <2> QED
    BY <2>1, <2>3, <2>4, <2>5 DEF LedgerInv, Ledger!DetailIsChosen
<1>4. ASSUME NEW i \in DOMAIN calls, Ledger!Serve(i) \/ Ledger!Fail(i)
      PROVE  LedgerInv' /\ LedgerMoves
  <2>1. UNCHANGED <<ledgerVersion, data>>
    BY <1>4, Zenon DEF Ledger!Serve, Ledger!Fail
  <2>2. LedgerMoves
    BY <2>1 DEF LedgerInv, LedgerClock, LedgerMoves
  <2> QED
    BY <1>4, <2>2, ServeSafe, FailSafe
<1>5. ASSUME NEW i \in DOMAIN calls, Ledger!Settle(i) PROVE LedgerInv' /\ LedgerMoves
  <2>1. ledgerVersion' = ledgerVersion
    BY <1>5, Zenon DEF Ledger!Settle
  <2> QED
    BY <1>5, <2>1, SettleSafe DEF LedgerMoves
<1>6. ASSUME NEW filter, NEW page, NEW size, Ledger!View(filter, page, size)
      PROVE  LedgerInv' /\ LedgerMoves
  BY <1>6, ViewSafe
<1>7. CASE \/ Ledger!ShowAll \/ \E f \in Filters \cup {"all"} : Ledger!FilterBy(f)
           \/ \E p \in 1..Ledger!totalPages(Ledger!totalItems, pageSize) : Ledger!setPage(p)
           \/ \E n \in RowsPerPage : Ledger!setPageSize(n)
  <2>1. \E filter, page, size : Ledger!View(filter, page, size)
    <3>1. CASE Ledger!ShowAll
      <4>1. Ledger!View("all", pageAsked, pageSize)
        BY <3>1, Zenon DEF Ledger!ShowAll
      <4> QED
        BY <4>1
    <3>2. ASSUME NEW f \in Filters \cup {"all"}, Ledger!FilterBy(f)
          PROVE  \E filter, page, size : Ledger!View(filter, page, size)
      BY <3>2, Zenon DEF Ledger!FilterBy
    <3>3. ASSUME NEW p, Ledger!setPage(p)
          PROVE  \E filter, page, size : Ledger!View(filter, page, size)
      <4>1. Ledger!View(statusFilter, p, pageSize)
        BY <3>3, Zenon DEF Ledger!setPage
      <4> QED
        BY <4>1
    <3>4. ASSUME NEW n, Ledger!setPageSize(n)
          PROVE  \E filter, page, size : Ledger!View(filter, page, size)
      <4>1. Ledger!View(statusFilter, 1, n)
        BY <3>4, Zenon DEF Ledger!setPageSize
      <4> QED
        BY <4>1
    <3> QED
      BY <1>7, <3>1, <3>2, <3>3, <3>4, Zenon
  <2> QED
    BY <1>6, <2>1, Zenon
<1>8. ASSUME NEW s \in Ledger!RowIds, Ledger!inspectSubmission(s) \/ Ledger!InspectionAnswered(s)
      PROVE  LedgerInv' /\ LedgerMoves
  <2>1. UNCHANGED <<listPage, ledgerVersion, calls, data, listError, loading, refreshing,
                    statusFilter, pageAsked, pageSize, handlers, ownVersion>>
    BY <1>8, Zenon DEF Ledger!inspectSubmission, Ledger!InspectionAnswered
  <2>2. Ledger!DetailIsChosen'
    BY <1>8, Zenon DEF LedgerInv, Ledger!inspectSubmission, Ledger!InspectionAnswered,
                       Ledger!detailShown, Ledger!DetailIsChosen
  <2> QED
    BY <2>1, <2>2, HandlersUnchanged, LedgerFrame
<1>9. CASE Ledger!CloseDetail
  <2>1. /\ UNCHANGED <<listPage, ledgerVersion, calls, data, listError, loading, refreshing,
                       statusFilter, pageAsked, pageSize, handlers, ownVersion>>
        /\ selected' = chosen'
    BY <1>9, Zenon DEF Ledger!CloseDetail
  <2> QED
    BY <2>1, HandlersUnchanged, LedgerFrame DEF Ledger!DetailIsChosen
<1>10. ASSUME NEW j \in DOMAIN handlers, Ledger!ServeOperation(j) PROVE LedgerInv' /\ LedgerMoves
  BY <1>10, ServeOperationSafe
<1>11. ASSUME NEW j \in DOMAIN handlers, Ledger!OperationDone(j) PROVE LedgerInv' /\ LedgerMoves
  BY <1>11, OperationDoneSafe
<1>12. CASE UNCHANGED Ledger!submissionVars
  <2>1. UNCHANGED <<listPage, ledgerVersion, calls, data, listError, loading, refreshing,
                    statusFilter, pageAsked, pageSize, handlers, ownVersion, selected, chosen>>
    BY <1>12, Zenon DEF Ledger!submissionVars
  <2> QED
    BY <2>1, HandlersUnchanged, LedgerFrame DEF LedgerInv, Ledger!DetailIsChosen
<1> QED
  BY <1>1, <1>2, <1>3, <1>4, <1>5, <1>7, <1>8, <1>9, <1>10, <1>11, <1>12, HandlerSteps, Zenon
     DEF Ledger!Next

LEMMA LedgerInvariant ==
    Ledger!Spec => []LedgerInv
<1>1. Ledger!Init => LedgerInv
  BY LedgerStarts
<1>2. LedgerInv /\ [Ledger!Next]_Ledger!submissionVars => LedgerInv'
  BY LedgerStep
<1> QED
  BY <1>1, <1>2, PTL DEF Ledger!Spec

\* The rows shown are a live view of the server's table: they show versions it has reached,
\* and no older one after a newer one (useAsyncData's request ids).
THEOREM TableIsFreshView ==
    Ledger!Spec => Ledger!Table!Spec
<1>1. Ledger!Init => Ledger!Table!Init
  <2> SUFFICES ASSUME Ledger!Init PROVE Ledger!Table!Init
    OBVIOUS
  <2>1. LedgerClock /\ ledgerVersion = 1
    BY LedgerStarts DEF LedgerInv, Ledger!Init
  <2> QED
    BY <2>1 DEF LedgerClock, Ledger!Table!Init
<1>2. LedgerInv /\ [Ledger!Next]_Ledger!submissionVars
        => [Ledger!Table!Next]_<<ledgerVersion, data.version>>
  <2> SUFFICES ASSUME LedgerInv, [Ledger!Next]_Ledger!submissionVars
               PROVE  [Ledger!Table!Next]_<<ledgerVersion, data.version>>
    OBVIOUS
  <2>1. LedgerInv' /\ LedgerMoves
    BY LedgerStep
  <2>2. /\ ledgerVersion \in Nat /\ data.version \in 0..ledgerVersion
        /\ data'.version \in 0..ledgerVersion'
    BY <2>1 DEF LedgerInv, LedgerClock
  <2>3. CASE ledgerVersion' = ledgerVersion
    BY <2>1, <2>2, <2>3 DEF LedgerMoves, Ledger!Table!Next, Ledger!Table!ViewMoves
  <2>4. CASE ledgerVersion' # ledgerVersion
    BY <2>1, <2>2, <2>4 DEF LedgerMoves, Ledger!Table!Next, Ledger!Table!SourceMoves
  <2> QED
    BY <2>3, <2>4
<1> QED
  BY <1>1, <1>2, LedgerInvariant, PTL DEF Ledger!Spec, Ledger!Table!Spec

\* Once nothing is loading and the last load did not fail, the rows are those of the filter
\* and page chosen, of a table with every operation that was reported; and the detail dialog
\* shows the row chosen (useAsyncData, inspectSubmission).
THEOREM SettledIsOwnWork ==
    Ledger!Spec => [](Ledger!SettledShowsOwnWork /\ Ledger!DetailIsChosen)
<1>1. LedgerInv => Ledger!SettledShowsOwnWork
  <2> SUFFICES ASSUME LedgerInv, ~loading, ~refreshing, ~listError, data.rows # <<>>
               PROVE  /\ data.asked.filter = statusFilter
                      /\ listPage = "submissions" => data.asked = Ledger!Asked
                      /\ data.version >= ownVersion
    BY Zenon DEF Ledger!SettledShowsOwnWork
  <2>1. Newest.st = "over"
    BY DEF LedgerInv, NewestHolds
  <2>2. Agrees(data.asked) /\ ownVersion <= data.version
    BY <2>1 DEF LedgerInv, NewestHolds
  <2>3. ownVersion \in Int /\ data.version \in Int
    BY DEF LedgerInv, LedgerClock
  <2> QED
    BY <2>2, <2>3 DEF Agrees
<1>2. LedgerInv => Ledger!DetailIsChosen
  BY DEF LedgerInv
<1> QED
  BY <1>1, <1>2, LedgerInvariant, PTL

\* The tables as a whole: a live view of the server's that never goes back, and the
\* organizer's own work once it has settled.
THEOREM TablesHold == Ledger!Spec => AdminDataFresh
  BY TableIsFreshView, SettledIsOwnWork, PTL DEF AdminDataFresh

-----------------------------------------------------------------------------
(* The organizers' clock.                                                  *)


Contests == [status : {"NOT_STARTED", "RUNNING", "PAUSED", "ENDED"}, start : Nat, end : Nat,
             pausedAt : Nat, dur : Nat, frozen : BOOLEAN]

\* What the server can have of a contest at a time.
Past(e, now) ==
  /\ e \in Contests /\ now \in Nat /\ e.start <= now /\ e.pausedAt <= now
  /\ e.status = "PAUSED" => e.start <= e.pausedAt

\* Settings have their three fields.
IsForm(f) == f = [title |-> f.title, freeze |-> f.freeze, fullscreen |-> f.fullscreen]

\* What has been read of the server, at most so long ago.
IsReading(a) ==
  /\ a.why \in {"poll", "sync"} /\ IsForm(a.config)
  /\ a.at \in 0..time /\ time <= a.at + MaxLag
  /\ Past(a.basis, a.at) /\ a.state = Timer!StateAt(a.basis, a.at)

IsOrder(o) ==
  /\ o.st \in {"sent", "ok", "bad", "syncing"}
  /\ \/ o.op # "settings" /\ o = [op |-> o.op, st |-> o.st]
     \/ o.op = "settings" /\ o = [op |-> o.op, st |-> o.st, form |-> o.form] /\ IsForm(o.form)

ServerHolds == Past(event, time) /\ IsForm(config)

\* The state shown is of one contest at one time; the countdown is that of the last tick.
ShownHolds ==
  /\ IsForm(shown.config) /\ shown.at \in 0..time
  /\ Past(shown.basis, shown.at) /\ shown.state = Timer!StateAt(shown.basis, shown.at)
  /\ shift \in Int /\ shift <= 0 /\ 0 <= shift + MaxLag
  /\ left \in Nat /\ gone \in Nat /\ lastLeft \in Nat
  /\ counted => left = Timer!calculatedRemaining(shown.state, time + shift)

ReadingHolds == (\E S : reading \in Seq(S)) /\ \A j \in DOMAIN reading : IsReading(reading[j])

OrderHolds == order = <<>> \/ \E o : order = <<o>> /\ IsOrder(o)

\* The page in view has a read on its way from the last interval, or shows one.
PollHolds ==
  /\ sincePoll \in Nat /\ lostOrders \in Nat /\ (onTimer => sincePoll < Period.timer)
  /\ onTimer /\ inView /\ lostOrders = 0 =>
       \/ \E j \in DOMAIN reading : time <= reading[j].at + sincePoll + 1
       \/ time <= shown.at + sincePoll + 1 + MaxLag

TypedHolds ==
  /\ IsForm(sform) /\ DOMAIN typedSet \subseteq {"title", "freeze", "fullscreen"}
  /\ dialog \in {"none", "settings"} /\ Timer!TypedSettingsKept

FlagsHold == {onTimer, audio, inView, counted} \subseteq BOOLEAN /\ sound \in {"none", "start", "warning", "end"}

TimerInv ==
  ServerHolds /\ ShownHolds /\ ReadingHolds /\ OrderHolds /\ PollHolds /\ TypedHolds /\ FlagsHold

\* A countdown is never below zero, whatever the clock says.
LEMMA CountdownTyped ==
    ASSUME NEW e, NEW at, Past(e, at), NEW now \in Int
    PROVE  /\ Timer!calculatedRemaining(Timer!StateAt(e, at), now) \in Nat
           /\ Timer!calculatedElapsed(Timer!StateAt(e, at), now) \in Nat
<1>1. /\ e.status \in {"NOT_STARTED", "RUNNING", "PAUSED", "ENDED"} /\ at \in Nat
      /\ e.start \in Nat /\ e.end \in Nat /\ e.pausedAt \in Nat /\ e.dur \in Nat
      /\ e.status = "PAUSED" => e.start <= e.pausedAt
  BY DEF Past, Contests
<1> DEFINE s == Timer!StateAt(e, at)
<1>2. /\ s.status = Timer!EffectiveAt(e, at) /\ s.start = e.start /\ s.end = e.end /\ s.dur = e.dur
      /\ s.left = Timer!leftAt(e, Timer!EffectiveAt(e, at), at)
      /\ s.status = "PAUSED" => s.gone = e.pausedAt - e.start
  BY DEF Timer!StateAt
<1>3. s.status = "PAUSED" => s.left \in Nat /\ s.gone \in Nat
  BY <1>1, <1>2 DEF Timer!leftAt, Timer!EffectiveAt
<1> HIDE DEF s
<1>4. Timer!calculatedRemaining(s, now) \in Nat
  BY <1>1, <1>2, <1>3 DEF Timer!calculatedRemaining
<1>5. Timer!calculatedElapsed(s, now) \in Nat
  BY <1>1, <1>2, <1>3 DEF Timer!calculatedElapsed
<1> QED
  BY <1>4, <1>5 DEF s

\* Of one contest, the countdown from a state read before is the server's or, by what the
\* clock is behind, above it.
LEMMA CountdownHonest ==
    ASSUME NEW e, NEW at, Past(e, at), NEW now \in Nat, at <= now, MaxLag \in Nat,
           NEW lag \in Int, lag <= 0, 0 <= lag + MaxLag
    PROVE  LET served == Timer!leftAt(e, Timer!EffectiveAt(e, now), now)
               counts == Timer!calculatedRemaining(Timer!StateAt(e, at), now + lag)
           IN  served <= counts /\ counts <= served + MaxLag
<1> DEFINE served == Timer!leftAt(e, Timer!EffectiveAt(e, now), now)
           s == Timer!StateAt(e, at)
           counts == Timer!calculatedRemaining(s, now + lag)
<1>1. /\ e.status \in {"NOT_STARTED", "RUNNING", "PAUSED", "ENDED"} /\ at \in Nat
      /\ e.start \in Nat /\ e.end \in Nat /\ e.pausedAt \in Nat /\ e.dur \in Nat
  BY DEF Past, Contests
<1>2. /\ s.status = Timer!EffectiveAt(e, at) /\ s.end = e.end /\ s.dur = e.dur
      /\ s.left = Timer!leftAt(e, Timer!EffectiveAt(e, at), at)
  BY DEF Timer!StateAt
<1> HIDE DEF s
<1>3. CASE e.status = "RUNNING"
  <2>1. CASE at > e.end
    <3>1. served = 0
      BY <1>1, <1>3, <2>1 DEF Timer!EffectiveAt, Timer!leftAt
    <3>2. counts = 0
      BY <1>1, <1>2, <1>3, <2>1 DEF Timer!EffectiveAt, Timer!calculatedRemaining
    <3> QED
      BY <3>1, <3>2 DEF s
  <2>2. CASE at <= e.end
    <3>1. served = IF now > e.end THEN 0 ELSE e.end - now
      BY <1>1, <1>3, <2>2 DEF Timer!EffectiveAt, Timer!leftAt
    <3>2. counts = IF e.end > now + lag THEN e.end - (now + lag) ELSE 0
      BY <1>1, <1>2, <1>3, <2>2 DEF Timer!EffectiveAt, Timer!calculatedRemaining
    <3> HIDE DEF served, counts
    <3>3. served <= counts /\ counts <= served + MaxLag
      BY <1>1, <3>1, <3>2
    <3> QED
      BY <3>3 DEF served, counts, s
  <2> QED
    BY <1>1, <2>1, <2>2
<1>4. CASE e.status # "RUNNING"
  <2>1. Timer!EffectiveAt(e, at) = e.status /\ Timer!EffectiveAt(e, now) = e.status
    BY <1>4 DEF Timer!EffectiveAt
  <2>2. served = CASE e.status = "NOT_STARTED" -> e.dur
                   [] e.status = "PAUSED" -> IF e.end > e.pausedAt THEN e.end - e.pausedAt ELSE 0
                   [] OTHER -> 0
    BY <1>1, <1>4, <2>1 DEF Timer!leftAt
  <2>3. s.left = served
    BY <1>2, <1>1, <1>4, <2>1 DEF Timer!leftAt
  <2>4. counts = CASE e.status = "NOT_STARTED" -> e.dur
                   [] e.status = "PAUSED" -> s.left
                   [] OTHER -> 0
    BY <1>1, <1>2, <1>4, <2>1 DEF Timer!calculatedRemaining
  <2> HIDE DEF served, counts
  <2>5. served \in Int /\ counts = served
    BY <1>1, <1>4, <2>2, <2>3, <2>4
  <2>6. served <= counts /\ counts <= served + MaxLag
    BY <2>5
  <2> QED
    BY <2>6 DEF served, counts, s
<1> QED
  BY <1>3, <1>4

\* A command leaves what the server can have of a contest.
LEMMA CommandTyped ==
    ASSUME Past(event, time), NEW op, Timer!MayDo(op)
    PROVE  Past(Timer!After(op), time)
<1>1. /\ event \in Contests /\ time \in Nat /\ event.start <= time /\ event.pausedAt <= time
      /\ event.status = "PAUSED" => event.start <= event.pausedAt
  BY DEF Past
<1>2. CASE op = "start"
  <2>1. Timer!After(op) = [status |-> "RUNNING", start |-> time, end |-> time + event.dur,
                           pausedAt |-> 0, dur |-> event.dur, frozen |-> FALSE]
    BY <1>2 DEF Timer!After
  <2> QED
    BY <1>1, <2>1 DEF Past, Contests
<1>3. CASE op = "pause"
  <2>1. Timer!After(op) = [event EXCEPT !.status = "PAUSED", !.pausedAt = time]
    BY <1>3 DEF Timer!After
  <2>2. /\ Timer!After(op) \in Contests /\ Timer!After(op).start = event.start
        /\ Timer!After(op).pausedAt = time
    BY <1>1, <2>1 DEF Contests
  <2> QED
    BY <1>1, <2>2 DEF Past
<1>4. CASE op = "resume"
  <2>1. Timer!After(op) = [event EXCEPT !.status = "RUNNING",
                             !.end = event.end + time - event.pausedAt, !.pausedAt = 0]
    BY <1>4 DEF Timer!After
  <2>2. /\ event.end + time - event.pausedAt \in Nat
        /\ event \in Contests /\ "RUNNING" \in {"NOT_STARTED", "RUNNING", "PAUSED", "ENDED"}
    BY <1>1 DEF Contests
  <2>3. PICK e : e = [event EXCEPT !.status = "RUNNING", !.end = event.end + time - event.pausedAt]
    OBVIOUS
  <2>4. e \in Contests /\ e.start = event.start /\ e.status = "RUNNING"
    BY <2>2, <2>3 DEF Contests
  <2>5. Timer!After(op) = [e EXCEPT !.pausedAt = 0]
    BY <2>1, <2>3
  <2> QED
    BY <1>1, <2>4, <2>5 DEF Past, Contests
<1>5. CASE op = "extend"
  <2> DEFINE end    == (IF time > event.end THEN time ELSE event.end) + 1
             status == IF event.status = "ENDED" THEN "RUNNING" ELSE event.status
  <2>1. Timer!After(op) = [event EXCEPT !.dur = event.dur + 1, !.end = end, !.status = status]
    BY <1>5 DEF Timer!After
  <2>2. /\ end \in Nat /\ event.dur + 1 \in Nat
        /\ status \in {"NOT_STARTED", "RUNNING", "PAUSED", "ENDED"}
        /\ status = "PAUSED" => event.status = "PAUSED"
    BY <1>1 DEF Contests
  <2> HIDE DEF end, status
  <2> QED
    BY <1>1, <2>1, <2>2 DEF Past, Contests
<1>6. CASE op = "freeze"
  <2>1. Timer!After(op) = [event EXCEPT !.frozen = ~event.frozen]
    BY <1>6 DEF Timer!After
  <2>2. (~event.frozen) \in BOOLEAN
    BY Zenon
  <2> QED
    BY <1>1, <2>1, <2>2 DEF Past, Contests
<1>7. CASE op = "end"
  <2>1. Timer!After(op) = [event EXCEPT !.status = "ENDED", !.end = time, !.pausedAt = 0]
    BY <1>7 DEF Timer!After
  <2>2. PICK e : e = [event EXCEPT !.status = "ENDED", !.end = time]
    OBVIOUS
  <2>3. e \in Contests /\ e.start = event.start /\ e.status = "ENDED"
    BY <1>1, <2>2 DEF Contests
  <2>4. Timer!After(op) = [e EXCEPT !.pausedAt = 0]
    BY <2>1, <2>2
  <2> QED
    BY <1>1, <2>3, <2>4 DEF Past, Contests
<1>8. CASE op \notin {"start", "pause", "resume", "extend", "freeze", "end"}
  <2>1. Timer!After(op) = Timer!Reset(event)
    BY <1>8 DEF Timer!After
  <2> QED
    BY <1>1, <2>1 DEF Past, Contests, Timer!Reset
<1> QED
  BY <1>2, <1>3, <1>4, <1>5, <1>6, <1>7, <1>8

LEMMA NormalForm ==
    ASSUME NEW c, IsForm(c)
    PROVE  IsForm(Timer!normalizeState(c))
  BY DEF IsForm, Timer!normalizeState

\* A reading of now, and what it says at its next second.
LEMMA ReadingNow ==
    ASSUME ServerHolds, NEW why \in {"poll", "sync"},
           NEW a, a = Timer!Reading(why)
    PROVE  /\ a.at = time /\ IsReading(a)
           /\ time' = time + 1 => IsReading(a)'
<1>1. /\ a.state = Timer!StateAt(event, time) /\ a.config = Timer!normalizeState(config)
      /\ a.at = time /\ a.why = why /\ a.basis = event
  BY DEF Timer!Reading, Timer!StateNow
<1>2. /\ time \in Nat /\ MaxLag \in Nat \ {0} /\ Past(a.basis, a.at)
      /\ IsForm(a.config) /\ a.why \in {"poll", "sync"} /\ a.state = Timer!StateAt(a.basis, a.at)
  BY TimerAssumption, <1>1, NormalForm DEF ServerHolds, Past, Timer!TimerConstants
<1> QED
  BY <1>1, <1>2 DEF IsReading

LEMMA ReadingAdded ==
    ASSUME ReadingHolds, NEW b, IsReading(b)', reading' = Append(reading, b),
           \A a : (\E j \in DOMAIN reading : a = reading[j]) => IsReading(a)'
    PROVE  /\ ReadingHolds'
           /\ \A j \in DOMAIN reading : j \in DOMAIN reading' /\ reading'[j] = reading[j]
           /\ \E j \in DOMAIN reading' : reading'[j] = b
<1>1. PICK S : reading \in Seq(S)
  BY DEF ReadingHolds
<1>2. /\ reading' \in Seq(S \cup {b}) /\ DOMAIN reading' = 1..(Len(reading) + 1)
      /\ DOMAIN reading = 1..Len(reading) /\ Len(reading) \in Nat
      /\ \A j \in DOMAIN reading' : reading'[j] = IF j = Len(reading) + 1 THEN b ELSE reading[j]
  BY <1>1
<1>3. ASSUME NEW j \in DOMAIN reading' PROVE IsReading(reading[j])'
  <2>1. PICK a : a = reading'[j]
    OBVIOUS
  <2>2. IsReading(a)'
    BY <1>2, <2>1
  <2> QED
    BY <2>1, <2>2 DEF IsReading
<1>4. \A j \in DOMAIN reading : j \in DOMAIN reading' /\ reading'[j] = reading[j]
  BY <1>2
<1>5. \E j \in DOMAIN reading' : reading'[j] = b
  BY <1>2
<1> QED
  BY <1>2, <1>3, <1>4, <1>5 DEF ReadingHolds

LEMMA ReadingGone ==
    ASSUME ReadingHolds, NEW j \in DOMAIN reading, time' = time,
           reading' = Timer!RemoveAt(reading, j)
    PROVE  ReadingHolds'
<1>1. PICK S : reading \in Seq(S)
  BY DEF ReadingHolds
<1>2. reading' = RemoveAt(reading, j)
  BY DEF Timer!RemoveAt, RemoveAt
<1>3. /\ reading' \in Seq(S)
      /\ \A i \in DOMAIN reading' : /\ Place(j, i) \in DOMAIN reading \ {j}
                                    /\ reading'[i] = reading[Place(j, i)]
  BY <1>1, <1>2, OthersStay
<1>4. ASSUME NEW i \in DOMAIN reading' PROVE IsReading(reading[i])'
  <2>1. IsReading(reading[Place(j, i)]) /\ reading'[i] = reading[Place(j, i)]
    BY <1>3 DEF ReadingHolds
  <2> QED
    BY <2>1 DEF IsReading
<1> QED
  BY <1>3, <1>4 DEF ReadingHolds

\* What each part of the invariant looks at.
LEMMA TimerFrames ==
    ASSUME TimerInv
    PROVE  /\ UNCHANGED <<time, event, config>> => ServerHolds'
           /\ UNCHANGED <<time, shown, shift, left, gone, lastLeft, counted>> => ShownHolds'
           /\ UNCHANGED <<time, reading>> => ReadingHolds'
           /\ order' = order => OrderHolds'
           /\ UNCHANGED <<time, onTimer, shown, sincePoll, reading, inView, lostOrders>> => PollHolds'
           /\ UNCHANGED <<onTimer, sform, dialog, typedSet>> => TypedHolds'
           /\ UNCHANGED <<onTimer, audio, inView, counted, sound>> => FlagsHold'
<1>1. UNCHANGED <<time, event, config>> => ServerHolds'
  BY DEF TimerInv, ServerHolds
<1>2. UNCHANGED <<time, shown, shift, left, gone, lastLeft, counted>> => ShownHolds'
  BY DEF TimerInv, ShownHolds
<1>3. UNCHANGED <<time, reading>> => ReadingHolds'
  BY DEF TimerInv, ReadingHolds, IsReading
<1>4. order' = order => OrderHolds'
  BY DEF TimerInv, OrderHolds
<1>5. UNCHANGED <<time, onTimer, shown, sincePoll, reading, inView, lostOrders>> => PollHolds'
  BY DEF TimerInv, PollHolds
<1>6. UNCHANGED <<onTimer, sform, dialog, typedSet>> => TypedHolds'
  BY DEF TimerInv, TypedHolds, Timer!TypedSettingsKept
<1>7. UNCHANGED <<onTimer, audio, inView, counted, sound>> => FlagsHold'
  BY DEF TimerInv, FlagsHold
<1> QED
  BY <1>1, <1>2, <1>3, <1>4, <1>5, <1>6, <1>7, Zenon

LEMMA TimerStarts ==
    Timer!Init => TimerInv
<1> SUFFICES ASSUME Timer!Init PROVE TimerInv
  OBVIOUS
<1>1. /\ time = 0 /\ event = Timer!Reset([dur |-> Length]) /\ config = FirstConfig
      /\ onTimer \in BOOLEAN
      /\ shown = [state |-> Timer!StateNow, config |-> Timer!normalizeState(FirstConfig),
                  at |-> 0, basis |-> event]
      /\ shift = 0 /\ left = Length /\ gone = 0 /\ lastLeft = Length /\ counted = TRUE
      /\ sound = "none" /\ audio = TRUE /\ inView = TRUE /\ sincePoll = 0 /\ reading = <<>>
      /\ order = <<>> /\ dialog = "none" /\ sform = Timer!normalizeState(FirstConfig)
      /\ typedSet = <<>> /\ lostOrders = 0
  BY Zenon DEF Timer!Init
<1>2. /\ Length \in Nat /\ MaxLag \in Nat \ {0} /\ Period.timer \in Nat \ {0}
      /\ IsForm(FirstConfig)
  BY TimerAssumption DEF Timer!TimerConstants, IsForm
<1>3. Past(event, 0) /\ event.status = "NOT_STARTED" /\ event.dur = Length
  BY <1>1, <1>2 DEF Timer!Reset, Past, Contests
<1>4. ServerHolds
  BY <1>1, <1>2, <1>3 DEF ServerHolds
<1>5. /\ shown.state = Timer!StateAt(event, 0) /\ shown.config = Timer!normalizeState(FirstConfig)
      /\ shown.at = 0 /\ shown.basis = event
  BY <1>1 DEF Timer!StateNow
<1>6. Timer!calculatedRemaining(shown.state, 0) = Length
  BY <1>3, <1>5 DEF Timer!calculatedRemaining, Timer!StateAt, Timer!EffectiveAt
<1>7. ShownHolds
  BY <1>1, <1>2, <1>3, <1>5, <1>6, NormalForm DEF ShownHolds
<1>8. ReadingHolds
  <2>1. reading \in Seq({}) /\ DOMAIN reading = {}
    BY <1>1
  <2> QED
    BY <2>1 DEF ReadingHolds
<1>9. OrderHolds /\ PollHolds
  BY <1>1, <1>2, <1>5 DEF OrderHolds, PollHolds
<1>10. TypedHolds
  <2>1. DOMAIN typedSet = {}
    BY <1>1
  <2> QED
    BY <1>1, <1>2, <2>1, NormalForm DEF TypedHolds, Timer!TypedSettingsKept
<1>11. FlagsHold
  BY <1>1 DEF FlagsHold
<1> QED
  BY <1>4, <1>7, <1>8, <1>9, <1>10, <1>11 DEF TimerInv

\* A second passes: the tick, and the poll.
LEMMA SecondSafe ==
    ASSUME TimerInv, Timer!Second
    PROVE  TimerInv'
<1>1. /\ time' = time + 1 /\ \A j \in DOMAIN reading : time < reading[j].at + MaxLag
      /\ left' = Timer!calculatedRemaining(shown.state, time' + shift)
      /\ gone' = Timer!calculatedElapsed(shown.state, time' + shift)
      /\ sound' = Timer!soundAt(shown.state, lastLeft, left')
      /\ lastLeft' = left' /\ counted' = TRUE
      /\ sincePoll' = IF Timer!pollDue THEN 0 ELSE sincePoll + 1
      /\ UNCHANGED <<event, config, onTimer, shown, shift, audio, inView, order, dialog, sform,
                     typedSet, lostOrders>>
  BY Zenon DEF Timer!Second, Timer!serverVars, Timer!dialogSet, Timer!timerBounds
<1>2. time \in Nat /\ time' \in Nat /\ MaxLag \in Nat \ {0}
  BY TimerAssumption, <1>1 DEF TimerInv, ServerHolds, Past, Timer!TimerConstants
<1>3. ServerHolds'
  BY <1>1, <1>2 DEF TimerInv, ServerHolds, Past, Contests
<1>4. ShownHolds'
  <2>1. /\ Past(shown.basis, shown.at) /\ shown.state = Timer!StateAt(shown.basis, shown.at)
        /\ shift \in Int /\ shown.at \in 0..time
    BY DEF TimerInv, ShownHolds
  <2>2. left' \in Nat /\ gone' \in Nat
    BY <1>1, <1>2, <2>1, CountdownTyped
  <2> QED
    BY <1>1, <1>2, <2>1, <2>2 DEF TimerInv, ShownHolds
<1>5. PICK b : b = Timer!Reading("poll")
  OBVIOUS
<1>6. b.at = time /\ IsReading(b)'
  BY <1>1, <1>5, ReadingNow DEF TimerInv
<1>7. \A a : (\E j \in DOMAIN reading : a = reading[j]) => IsReading(a)'
  BY <1>1, <1>2 DEF TimerInv, ReadingHolds, IsReading
<1>8. /\ ReadingHolds'
      /\ \A j \in DOMAIN reading : j \in DOMAIN reading' /\ reading'[j] = reading[j]
      /\ Timer!pollDue /\ inView => \E j \in DOMAIN reading' : reading'[j] = b
  <2>1. CASE Timer!pollDue /\ inView
    <3>1. reading' = Append(reading, b)
      BY <1>5, <2>1, Zenon DEF Timer!Second
    <3> QED
      BY <1>6, <1>7, <3>1, ReadingAdded DEF TimerInv
  <2>2. CASE ~(Timer!pollDue /\ inView)
    <3>1. reading' = reading
      BY <2>2, Zenon DEF Timer!Second
    <3>2. ASSUME NEW j \in DOMAIN reading' PROVE IsReading(reading[j])'
      <4>1. PICK a : a = reading[j]
        OBVIOUS
      <4>2. IsReading(a)'
        BY <1>7, <3>1, <4>1
      <4> QED
        BY <3>1, <4>1, <4>2 DEF IsReading
    <3> QED
      BY <2>2, <3>1, <3>2 DEF TimerInv, ReadingHolds
  <2> QED
    BY <2>1, <2>2
<1>9. PollHolds'
  <2>1. sincePoll \in Nat /\ lostOrders \in Nat /\ (onTimer => sincePoll < Period.timer)
    BY DEF TimerInv, PollHolds
  <2>2. onTimer => (Timer!pollDue <=> sincePoll + 1 >= Period.timer)
    BY DEF Timer!pollDue
  <2>3. sincePoll' \in Nat /\ (onTimer' => sincePoll' < Period.timer)
    BY TimerAssumption, <1>1, <2>1, <2>2 DEF Timer!TimerConstants
  <2>4. ASSUME onTimer, inView, lostOrders = 0
        PROVE  \/ \E j \in DOMAIN reading' : time' <= reading'[j].at + sincePoll' + 1
               \/ time' <= shown'.at + sincePoll' + 1 + MaxLag
    <3>1. CASE Timer!pollDue
      BY <1>1, <1>2, <1>6, <1>8, <2>4, <3>1
    <3>2. CASE ~Timer!pollDue
      <4>1. sincePoll' = sincePoll + 1 /\ time' = time + 1 /\ shown' = shown
        BY <1>1, <3>2
      <4>2. CASE \E j \in DOMAIN reading : time <= reading[j].at + sincePoll + 1
        <5>1. PICK j \in DOMAIN reading : time <= reading[j].at + sincePoll + 1
          BY <4>2
        <5>2. reading[j].at \in Int /\ j \in DOMAIN reading' /\ reading'[j] = reading[j]
          BY <1>8 DEF TimerInv, ReadingHolds, IsReading
        <5>3. time' <= reading'[j].at + sincePoll' + 1
          BY <1>2, <2>1, <4>1, <5>1, <5>2
        <5> QED
          BY <5>2, <5>3
      <4>3. CASE time <= shown.at + sincePoll + 1 + MaxLag
        BY <1>2, <2>1, <4>1, <4>3 DEF TimerInv, ShownHolds
      <4> QED
        BY <2>4, <4>2, <4>3 DEF TimerInv, PollHolds
    <3> QED
      BY <3>1, <3>2
  <2> QED
    BY <1>1, <2>1, <2>3, <2>4 DEF PollHolds
<1>10. FlagsHold'
  <2>1. sound' \in {"none", "start", "warning", "end"}
    BY <1>1 DEF TimerInv, FlagsHold, Timer!soundAt
  <2> QED
    BY <1>1, <2>1 DEF TimerInv, FlagsHold
<1> QED
  BY <1>1, <1>3, <1>4, <1>8, <1>9, <1>10, TimerFrames DEF TimerInv

\* A read is begun.
LEMMA ReadBegins ==
    ASSUME TimerInv, NEW why \in {"poll", "sync"}, time' = time,
           reading' = Append(reading, Timer!Reading(why))
    PROVE  /\ ReadingHolds'
           /\ \A j \in DOMAIN reading : j \in DOMAIN reading' /\ reading'[j] = reading[j]
           /\ \E j \in DOMAIN reading' : reading'[j].at = time
<1>1. PICK b : b = Timer!Reading(why)
  OBVIOUS
<1>2. IsReading(b) /\ b.at = time
  BY <1>1, ReadingNow DEF TimerInv
<1>3. IsReading(b)'
  BY <1>2 DEF IsReading
<1>4. \A a : (\E j \in DOMAIN reading : a = reading[j]) => IsReading(a)'
  BY DEF TimerInv, ReadingHolds, IsReading
<1>5. /\ ReadingHolds'
      /\ \A j \in DOMAIN reading : j \in DOMAIN reading' /\ reading'[j] = reading[j]
      /\ \E j \in DOMAIN reading' : reading'[j] = b
  BY <1>1, <1>3, <1>4, ReadingAdded DEF TimerInv
<1> QED
  BY <1>2, <1>5

LEMMA VisibilitySafe ==
    ASSUME TimerInv, Timer!VisibilityChange
    PROVE  TimerInv'
<1>1. /\ inView' = (~inView)
      /\ UNCHANGED <<time, event, config, onTimer, shown, shift, left, gone, lastLeft, counted,
                     sound, audio, sincePoll, order, dialog, sform, typedSet, lostOrders>>
  BY Zenon DEF Timer!VisibilityChange, Timer!serverVars, Timer!clockVars, Timer!dialogSet
<1>2. inView' \in BOOLEAN
  BY <1>1, Zenon
<1>3. ReadingHolds' /\ PollHolds'
  <2>1. CASE inView' /\ onTimer
    <3>1. reading' = Append(reading, Timer!Reading("poll"))
      BY <2>1, Zenon DEF Timer!VisibilityChange
    <3>2. /\ ReadingHolds' /\ \E j \in DOMAIN reading' : reading'[j].at = time
      BY <1>1, <3>1, ReadBegins
    <3> QED
      BY <1>1, <3>2 DEF TimerInv, PollHolds, ServerHolds, Past
  <2>2. CASE ~(inView' /\ onTimer)
    <3>1. reading' = reading
      BY <2>2, Zenon DEF Timer!VisibilityChange
    <3>2. ReadingHolds'
      BY <1>1, <3>1, TimerFrames
    <3>3. PollHolds'
      BY <1>1, <2>2 DEF TimerInv, PollHolds
    <3> QED
      BY <3>2, <3>3
  <2> QED
    BY <2>1, <2>2
<1>4. FlagsHold'
  BY <1>1, <1>2 DEF TimerInv, FlagsHold
<1> QED
  BY <1>1, <1>3, <1>4, TimerFrames DEF TimerInv

LEMMA OthersSafe ==
    ASSUME TimerInv, Timer!OtherOrganizer
    PROVE  TimerInv'
<1>1. UNCHANGED <<time, onTimer, shown, shift, left, gone, lastLeft, counted, sound, audio, inView,
                  sincePoll, reading, order, dialog, sform, typedSet, lostOrders>>
  BY Zenon DEF Timer!OtherOrganizer, Timer!clockVars, Timer!dialogSet
<1>2. ServerHolds'
  <2>1. CASE \E op \in Timer!Ops : Timer!MayDo(op) /\ event' = Timer!After(op) /\ config' = config
    BY <1>1, <2>1, CommandTyped DEF TimerInv, ServerHolds
  <2>2. CASE /\ event' = event
             /\ \/ config' = [config EXCEPT !.fullscreen = ~config.fullscreen]
                \/ \E t \in Titles : config' = [config EXCEPT !.title = t]
    <3>1. IsForm(config')
      BY <2>2 DEF TimerInv, ServerHolds, IsForm
    <3> QED
      BY <1>1, <2>2, <3>1 DEF TimerInv, ServerHolds
  <2> QED
    BY <2>1, <2>2 DEF Timer!OtherOrganizer
<1> QED
  BY <1>1, <1>2, TimerFrames DEF TimerInv

\* An answer ends: what a page has of it can be only what was read.
LEMMA AnswerEnds ==
    ASSUME TimerInv, NEW j \in DOMAIN reading, time' = time,
           order' = IF reading[j].why = "sync" THEN <<>> ELSE order,
           reading' = Timer!RemoveAt(reading, j)
    PROVE  ReadingHolds' /\ OrderHolds' /\ IsReading(reading[j])
<1>1. ReadingHolds'
  BY ReadingGone DEF TimerInv
<1>2. OrderHolds'
  BY DEF TimerInv, OrderHolds
<1>3. IsReading(reading[j])
  BY DEF TimerInv, ReadingHolds
<1> QED
  BY <1>1, <1>2, <1>3

LEMMA ArrivalSafe ==
    ASSUME TimerInv, NEW j \in DOMAIN reading, Timer!StateArrives(j), MaxLag \in Nat
    PROVE  TimerInv'
<1>1. PICK a : a = reading[j]
  OBVIOUS
<1>2. /\ shown' = [state |-> a.state, config |-> a.config, at |-> a.at, basis |-> a.basis]
      /\ shift' = Timer!clockOffset(a) /\ counted' = FALSE
      /\ sform' = Timer!afterAnswer(sform, a.config)
      /\ UNCHANGED <<time, event, config, onTimer, left, gone, lastLeft, sound, audio, inView,
                     sincePoll, dialog, typedSet, lostOrders>>
  BY <1>1, Zenon DEF Timer!StateArrives, Timer!serverVars, Timer!timerBounds
<1>3. /\ order' = IF reading[j].why = "sync" THEN <<>> ELSE order
      /\ reading' = Timer!RemoveAt(reading, j)
  BY Zenon DEF Timer!StateArrives
<1>4. ReadingHolds' /\ OrderHolds' /\ IsReading(a)
  BY <1>1, <1>2, <1>3, AnswerEnds
<1>5. time \in Nat
  BY DEF TimerInv, ServerHolds, Past
<1>6. ShownHolds'
  <2>1. shown'.config = a.config /\ shown'.at = a.at /\ shown'.basis = a.basis /\ shown'.state = a.state
    BY <1>2
  <2>2. shift' = a.at - time
    BY <1>2 DEF Timer!clockOffset
  <2>3. /\ IsForm(shown'.config) /\ shown'.at \in 0..time
        /\ Past(shown'.basis, shown'.at) /\ shown'.state = Timer!StateAt(shown'.basis, shown'.at)
    BY <1>4, <2>1 DEF IsReading
  <2>4. shift' \in Int /\ shift' <= 0 /\ 0 <= shift' + MaxLag
    BY <1>4, <1>5, <2>2 DEF IsReading
  <2> QED
    BY <1>2, <2>3, <2>4 DEF TimerInv, ShownHolds
<1>7. PollHolds'
  <2>1. sincePoll \in Nat /\ a.at \in Int /\ time <= a.at + MaxLag /\ shown'.at = a.at
    BY <1>2, <1>4 DEF TimerInv, PollHolds, IsReading
  <2>2. time' <= shown'.at + sincePoll' + 1 + MaxLag
    BY <1>2, <1>5, <2>1
  <2> QED
    BY <1>2, <2>2 DEF TimerInv, PollHolds
<1>8. TypedHolds'
  <2>1. /\ IsForm(sform') /\ sform'.title = sform.title /\ sform'.freeze = sform.freeze
        /\ sform' # sform => onTimer
    BY <1>2 DEF TimerInv, TypedHolds, IsForm, Timer!afterAnswer
  <2> QED
    BY <1>2, <2>1 DEF TimerInv, TypedHolds, Timer!TypedSettingsKept
<1>9. FlagsHold'
  BY <1>2 DEF TimerInv, FlagsHold
<1> QED
  BY <1>2, <1>4, <1>6, <1>7, <1>8, <1>9, TimerFrames DEF TimerInv

LEMMA LossSafe ==
    ASSUME TimerInv, NEW j \in DOMAIN reading, Timer!StateLost(j)
    PROVE  TimerInv'
<1>1. /\ lostOrders' = lostOrders + 1
      /\ order' = IF reading[j].why = "sync" THEN <<>> ELSE order
      /\ reading' = Timer!RemoveAt(reading, j)
      /\ UNCHANGED <<time, event, config, onTimer, shown, shift, left, gone, lastLeft, counted,
                     sound, audio, inView, sincePoll, dialog, sform, typedSet>>
  BY Zenon DEF Timer!StateLost, Timer!serverVars, Timer!clockVars, Timer!dialogSet
<1>2. ReadingHolds' /\ OrderHolds'
  BY <1>1, AnswerEnds
<1>3. PollHolds'
  BY <1>1 DEF TimerInv, PollHolds
<1> QED
  BY <1>1, <1>2, <1>3, TimerFrames DEF TimerInv

\* A new order, and an order that goes on.
LEMMA OrderMade ==
    ASSUME NEW o, IsOrder(o), order' = <<o>>
    PROVE  OrderHolds'
<1>1. IsOrder(o)'
  BY DEF IsOrder
<1> QED
  BY <1>1 DEF OrderHolds

LEMMA OrderMoves ==
    ASSUME OrderHolds, order # <<>>, NEW st \in {"sent", "ok", "bad", "syncing"},
           order' = <<[order[1] EXCEPT !.st = st]>>
    PROVE  OrderHolds' /\ IsOrder(order[1])
<1>1. PICK o : order = <<o>> /\ IsOrder(o)
  BY DEF OrderHolds
<1>2. order[1] = o
  BY <1>1
<1>3. PICK p : p = [o EXCEPT !.st = st]
  OBVIOUS
<1>4. IsOrder(p)
  <2>1. CASE o.op # "settings" /\ o = [op |-> o.op, st |-> o.st]
    <3>1. p = [op |-> o.op, st |-> st]
      BY <1>3, <2>1
    <3> QED
      BY <2>1, <3>1 DEF IsOrder
  <2>2. CASE o.op = "settings" /\ o = [op |-> o.op, st |-> o.st, form |-> o.form] /\ IsForm(o.form)
    <3>1. p = [op |-> o.op, st |-> st, form |-> o.form]
      BY <1>3, <2>2
    <3>2. p.op = "settings" /\ p.st = st /\ p.form = o.form
      BY <2>2, <3>1
    <3> QED
      BY <2>2, <3>1, <3>2 DEF IsOrder
  <2> QED
    BY <1>1, <2>1, <2>2 DEF IsOrder
<1>5. order' = <<p>>
  BY <1>2, <1>3
<1>6. OrderHolds'
  BY <1>4, <1>5, OrderMade
<1> QED
  BY <1>1, <1>2, <1>6

LEMMA CommandSafe ==
    ASSUME TimerInv, NEW op \in Timer!Ops, Timer!executeAction(op)
    PROVE  TimerInv'
<1>1. /\ order' = <<[op |-> op, st |-> "sent"]>>
      /\ UNCHANGED <<time, event, config, onTimer, shown, shift, left, gone, lastLeft, counted,
                     sound, audio, inView, sincePoll, reading, dialog, sform, typedSet, lostOrders>>
  BY Zenon
     DEF Timer!executeAction, Timer!Place, Timer!serverVars, Timer!clockVars, Timer!dialogSet
<1>2. OrderHolds'
  <2>1. IsOrder([op |-> op, st |-> "sent"])
    BY DEF IsOrder, Timer!Ops
  <2> QED
    BY <1>1, <2>1, OrderMade
<1> QED
  BY <1>1, <1>2, TimerFrames DEF TimerInv

LEMMA CarryOutSafe ==
    ASSUME TimerInv, Timer!CarryOut
    PROVE  TimerInv'
<1>1. /\ order # <<>>
      /\ UNCHANGED <<time, onTimer, shown, shift, left, gone, lastLeft, counted, sound, audio,
                     inView, sincePoll, reading, dialog, sform, typedSet, lostOrders>>
  BY Zenon DEF Timer!CarryOut, Timer!clockVars, Timer!dialogSet, Timer!timerBounds
<1>2. PICK st \in {"sent", "ok", "bad", "syncing"} : order' = <<[order[1] EXCEPT !.st = st]>>
  BY DEF Timer!CarryOut
<1>3. OrderHolds' /\ IsOrder(order[1])
  BY <1>1, <1>2, OrderMoves DEF TimerInv
<1>4. ServerHolds'
  <2>1. CASE order[1].op = "settings"
    <3>1. config' = order[1].form /\ event' = event
      BY <2>1, Zenon DEF Timer!CarryOut
    <3>2. IsForm(config')
      BY <1>3, <2>1, <3>1 DEF IsOrder
    <3> QED
      BY <1>1, <3>1, <3>2 DEF TimerInv, ServerHolds
  <2>2. CASE order[1].op # "settings"
    <3>1. PICK op : op = order[1].op
      OBVIOUS
    <3>2. event' = (IF Timer!MayDo(op) THEN Timer!After(op) ELSE event) /\ config' = config
      BY <2>2, <3>1, Zenon DEF Timer!CarryOut
    <3> QED
      BY <1>1, <3>2, CommandTyped DEF TimerInv, ServerHolds
  <2> QED
    BY <2>1, <2>2
<1> QED
  BY <1>1, <1>3, <1>4, TimerFrames DEF TimerInv

LEMMA OrderLostSafe ==
    ASSUME TimerInv, Timer!OrderLost
    PROVE  TimerInv'
<1>1. /\ order # <<>> /\ lostOrders' = lostOrders + 1
      /\ order' = <<[order[1] EXCEPT !.st = "bad"]>>
      /\ UNCHANGED <<time, event, config, onTimer, shown, shift, left, gone, lastLeft, counted,
                     sound, audio, inView, sincePoll, reading, dialog, sform, typedSet>>
  BY Zenon DEF Timer!OrderLost, Timer!serverVars, Timer!clockVars, Timer!dialogSet
<1>2. OrderHolds'
  BY <1>1, OrderMoves DEF TimerInv
<1>3. PollHolds'
  BY <1>1 DEF TimerInv, PollHolds
<1> QED
  BY <1>1, <1>2, <1>3, TimerFrames DEF TimerInv

LEMMA OrderAnsweredSafe ==
    ASSUME TimerInv, Timer!OrderAnswered
    PROVE  TimerInv'
<1>1. /\ order # <<>> /\ order[1].st \in {"ok", "bad"}
      /\ typedSet' = IF dialog' = "none" THEN <<>> ELSE typedSet
      /\ UNCHANGED <<time, event, config, onTimer, shown, shift, left, gone, lastLeft, counted,
                     audio, inView, sincePoll, sform, lostOrders>>
  BY Zenon DEF Timer!OrderAnswered, Timer!serverVars, Timer!timerBounds
<1>2. TypedHolds' /\ ReadingHolds' /\ OrderHolds' /\ PollHolds' /\ sound' \in {"none", "start", "warning", "end"}
  <2>1. CASE order[1].st = "ok"
    <3>1. /\ reading' = Append(reading, Timer!Reading("sync"))
          /\ order' = <<[order[1] EXCEPT !.st = "syncing"]>>
          /\ dialog' = IF order[1].op = "settings" THEN "none" ELSE dialog
          /\ sound' = IF ~onTimer \/ ~audio THEN sound
                      ELSE CASE order[1].op \in {"start", "resume"} -> "start"
                             [] order[1].op = "end" -> "end" [] OTHER -> sound
      BY <2>1, Zenon DEF Timer!OrderAnswered
    <3>2. OrderHolds'
      BY <1>1, <3>1, OrderMoves DEF TimerInv
    <3>3. /\ ReadingHolds'
          /\ \A j \in DOMAIN reading : j \in DOMAIN reading' /\ reading'[j] = reading[j]
      BY <1>1, <3>1, ReadBegins
    <3>4. PollHolds'
      BY <1>1, <3>3 DEF TimerInv, PollHolds
    <3>5. sound' \in {"none", "start", "warning", "end"}
      BY <3>1 DEF TimerInv, FlagsHold
    <3>6. TypedHolds'
      BY <1>1, <3>1 DEF TimerInv, TypedHolds, Timer!TypedSettingsKept
    <3> QED
      BY <3>2, <3>3, <3>4, <3>5, <3>6
  <2>2. CASE order[1].st = "bad"
    <3>1. order' = <<>> /\ UNCHANGED <<reading, dialog, sound>>
      BY <2>2, Zenon DEF Timer!OrderAnswered
    <3>2. OrderHolds'
      BY <3>1 DEF OrderHolds
    <3>3. TypedHolds'
      BY <1>1, <3>1 DEF TimerInv, TypedHolds, Timer!TypedSettingsKept
    <3> QED
      BY <1>1, <3>1, <3>2, <3>3, TimerFrames DEF TimerInv, FlagsHold
  <2> QED
    BY <1>1, <2>1, <2>2
<1>3. FlagsHold'
  BY <1>1, <1>2 DEF TimerInv, FlagsHold
<1> QED
  BY <1>1, <1>2, <1>3, TimerFrames DEF TimerInv

LEMMA DialogSafe ==
    ASSUME TimerInv,
           \/ Timer!ToggleAudio \/ Timer!OpenSettings \/ Timer!CancelSettings
           \/ Timer!handleSaveSettings
    PROVE  TimerInv'
<1>1. UNCHANGED <<time, event, config, onTimer, shown, shift, left, gone, lastLeft, counted, sound,
                  inView, sincePoll, reading, lostOrders>>
  BY Zenon
     DEF Timer!ToggleAudio, Timer!OpenSettings, Timer!CancelSettings, Timer!handleSaveSettings,
         Timer!serverVars, Timer!clockVars, Timer!timerBounds
<1>2. FlagsHold'
  <2>1. audio' = audio \/ audio' = (~audio)
    BY Zenon
       DEF Timer!ToggleAudio, Timer!OpenSettings, Timer!CancelSettings,
           Timer!handleSaveSettings
  <2>2. (~audio) \in BOOLEAN
    BY Zenon
  <2> QED
    BY <1>1, <2>1, <2>2 DEF TimerInv, FlagsHold
<1>3. OrderHolds'
  <2>1. CASE Timer!handleSaveSettings
    <3>1. PICK f : f = IF onTimer THEN sform ELSE [sform EXCEPT !.freeze = shown.config.freeze]
      OBVIOUS
    <3>2. order' = <<[op |-> "settings", st |-> "sent", form |-> f]>>
      BY <2>1, <3>1, Zenon DEF Timer!handleSaveSettings
    <3>3. IsForm(f)
      BY <3>1 DEF TimerInv, TypedHolds, IsForm
    <3>4. PICK o : o = [op |-> "settings", st |-> "sent", form |-> f]
      OBVIOUS
    <3>5. IsOrder(o)
      BY <3>3, <3>4 DEF IsOrder
    <3> QED
      BY <3>2, <3>4, <3>5, OrderMade
  <2>2. CASE ~Timer!handleSaveSettings
    <3>1. order' = order
      BY <2>2, Zenon DEF Timer!ToggleAudio, Timer!OpenSettings, Timer!CancelSettings
    <3> QED
      BY <3>1, TimerFrames
  <2> QED
    BY <2>1, <2>2
<1>4. TypedHolds'
  <2>1. CASE Timer!OpenSettings
    <3>1. dialog' = "settings" /\ sform' = Timer!formOf /\ typedSet' = <<>>
      BY <2>1, Zenon DEF Timer!OpenSettings
    <3>2. IsForm(sform')
      BY <3>1 DEF TimerInv, TypedHolds, ShownHolds, IsForm, Timer!formOf
    <3> QED
      BY <3>1, <3>2 DEF TypedHolds, Timer!TypedSettingsKept
  <2>2. CASE Timer!CancelSettings
    <3>1. dialog' = "none" /\ sform' = sform /\ typedSet' = <<>>
      BY <2>2, Zenon DEF Timer!CancelSettings
    <3> QED
      BY <3>1 DEF TimerInv, TypedHolds, Timer!TypedSettingsKept
  <2>3. CASE Timer!ToggleAudio \/ Timer!handleSaveSettings
    <3>1. UNCHANGED <<onTimer, sform, dialog, typedSet>>
      BY <2>3, Zenon DEF Timer!ToggleAudio, Timer!handleSaveSettings, Timer!dialogSet
    <3> QED
      BY <3>1, TimerFrames
  <2> QED
    BY <2>1, <2>2, <2>3
<1> QED
  BY <1>1, <1>2, <1>3, <1>4, TimerFrames DEF TimerInv

LEMMA TypingSafe ==
    ASSUME TimerInv, NEW field \in {"title", "freeze", "fullscreen"}, NEW value,
           Timer!update(field, value)
    PROVE  TimerInv'
<1>1. /\ sform' = [sform EXCEPT ![field] = value]
      /\ typedSet' = [k \in DOMAIN typedSet \cup {field} |-> IF k = field THEN value ELSE typedSet[k]]
      /\ UNCHANGED <<time, event, config, onTimer, shown, shift, left, gone, lastLeft, counted,
                     sound, audio, inView, sincePoll, reading, order, dialog, lostOrders>>
  BY Zenon DEF Timer!update, Timer!serverVars, Timer!clockVars
<1>2. IsForm(sform) /\ DOMAIN typedSet \subseteq {"title", "freeze", "fullscreen"}
  BY DEF TimerInv, TypedHolds
<1>3. IsForm(sform') /\ DOMAIN typedSet' \subseteq {"title", "freeze", "fullscreen"}
  BY <1>1, <1>2 DEF IsForm
<1>4. \A k \in {"title", "freeze", "fullscreen"} : sform'[k] = IF k = field THEN value ELSE sform[k]
  BY <1>1, <1>2 DEF IsForm
<1>5. Timer!TypedSettingsKept'
  <2> SUFFICES ASSUME NEW k \in DOMAIN typedSet', ~(onTimer' /\ k = "fullscreen")
               PROVE  sform'[k] = typedSet'[k]
    BY DEF Timer!TypedSettingsKept
  <2>1. k = field => sform'[k] = typedSet'[k]
    BY <1>1, <1>3, <1>4
  <2>2. k # field => k \in DOMAIN typedSet /\ typedSet'[k] = typedSet[k] /\ sform'[k] = sform[k]
    BY <1>1, <1>3, <1>4
  <2>3. k # field => sform[k] = typedSet[k]
    BY <1>1, <2>2 DEF TimerInv, TypedHolds, Timer!TypedSettingsKept
  <2> QED
    BY <2>1, <2>2, <2>3
<1>6. TypedHolds'
  BY <1>1, <1>3, <1>5 DEF TimerInv, TypedHolds
<1> QED
  BY <1>1, <1>6, TimerFrames DEF TimerInv

LEMMA TimerStep ==
    ASSUME TimerInv, [Timer!Next]_(Timer!timerVars)
    PROVE  TimerInv'
<1>1. CASE Timer!Second
  BY <1>1, SecondSafe
<1>2. CASE Timer!VisibilityChange
  BY <1>2, VisibilitySafe
<1>3. CASE Timer!OtherOrganizer
  BY <1>3, OthersSafe
<1>4. CASE \E j \in DOMAIN reading : Timer!StateArrives(j) \/ Timer!StateLost(j)
  <2>1. MaxLag \in Nat
    BY TimerAssumption DEF Timer!TimerConstants
  <2> QED
    BY <1>4, <2>1, ArrivalSafe, LossSafe
<1>5. CASE \E op \in Timer!Ops : Timer!executeAction(op)
  BY <1>5, CommandSafe
<1>6. CASE Timer!CarryOut
  BY <1>6, CarryOutSafe
<1>7. CASE Timer!OrderLost
  BY <1>7, OrderLostSafe
<1>8. CASE Timer!OrderAnswered
  BY <1>8, OrderAnsweredSafe
<1>9. CASE \/ Timer!ToggleAudio \/ Timer!OpenSettings \/ Timer!CancelSettings
           \/ Timer!handleSaveSettings
  BY <1>9, DialogSafe
<1>10. CASE \/ \E t \in Titles : Timer!update("title", t)
            \/ \E w \in Windows : Timer!update("freeze", w)
            \/ \E b \in BOOLEAN : Timer!update("fullscreen", b)
  BY <1>10, TypingSafe
<1>11. CASE UNCHANGED Timer!timerVars
  <2>1. UNCHANGED <<time, event, config, onTimer, shown, shift, left, gone, lastLeft, counted, sound,
                    audio, inView, sincePoll, reading, order, dialog, sform, typedSet, lostOrders>>
    BY <1>11, Zenon DEF Timer!timerVars, Timer!serverVars, Timer!clockVars, Timer!dialogSet,
       Timer!timerBounds
  <2> QED
    BY <2>1, TimerFrames DEF TimerInv
<1> QED
  BY <1>1, <1>2, <1>3, <1>4, <1>5, <1>6, <1>7, <1>8, <1>9, <1>10, <1>11, Zenon DEF Timer!Next

\* The invariant of the timer: every reading is of a moment that was, and of the last event
\* by then; what is shown, counted and typed follows from readings (syncServerState).
THEOREM TimerInvariant ==
    Timer!Spec => []TimerInv
<1>1. Timer!Init => TimerInv
  BY TimerStarts
<1>2. TimerInv /\ [Timer!Next]_(Timer!timerVars) => TimerInv'
  BY TimerStep
<1> QED
  BY <1>1, <1>2, PTL DEF Timer!Spec

\* The controls of the contest keep their types: in particular the countdown, and the time
\* that has gone, are never below zero, whatever state they are counted from.
THEOREM TimerKeepsTypes ==
    Timer!Spec => []Timer!TypeOK
<1>1. TimerInv => Timer!TypeOK
  <2> SUFFICES ASSUME TimerInv PROVE Timer!TypeOK
    OBVIOUS
  <2>1. shown.state.status \in {"NOT_STARTED", "RUNNING", "PAUSED", "ENDED"}
    <3>1. Past(shown.basis, shown.at) /\ shown.state = Timer!StateAt(shown.basis, shown.at)
      BY DEF TimerInv, ShownHolds
    <3>2. shown.state.status = Timer!EffectiveAt(shown.basis, shown.at)
      BY <3>1 DEF Timer!StateAt
    <3> QED
      BY <3>1, <3>2 DEF Past, Contests, Timer!EffectiveAt
  <2>2. {left, gone, lastLeft} \subseteq Nat
    BY DEF TimerInv, ShownHolds
  <2>3. \A j \in DOMAIN reading : reading[j].why \in {"poll", "sync"}
    BY DEF TimerInv, ReadingHolds, IsReading
  <2>4. order = <<>> \/ order[1].st \in {"sent", "ok", "bad", "syncing"}
    BY DEF TimerInv, OrderHolds, IsOrder
  <2> QED
    BY <2>1, <2>2, <2>3, <2>4 DEF TimerInv, FlagsHold, TypedHolds, Timer!TypeOK
<1> QED
  BY <1>1, TimerInvariant, PTL

\* Of the contest it was read from, the countdown is the server's but for the time an answer
\* takes, whatever answers came late, out of order or not at all; and the timer page in view
\* never shows a state older than its interval and an answer.
THEOREM CountdownIsHonest ==
    Timer!Spec => [](Timer!ClockHonest /\ Timer!PageNeverOld)
<1>1. TimerInv => Timer!ClockHonest
  <2> SUFFICES ASSUME TimerInv, counted, shown.basis = event
               PROVE  Timer!StateNow.left <= left /\ left <= Timer!StateNow.left + MaxLag
    BY DEF Timer!ClockHonest
  <2>1. /\ Past(event, shown.at) /\ time \in Nat /\ shown.at <= time /\ MaxLag \in Nat
        /\ shift \in Int /\ shift <= 0 /\ 0 <= shift + MaxLag
        /\ left = Timer!calculatedRemaining(Timer!StateAt(event, shown.at), time + shift)
    BY TimerAssumption DEF TimerInv, ShownHolds, ServerHolds, Past, Timer!TimerConstants
  <2>2. PICK at : at = shown.at
    OBVIOUS
  <2>3. Timer!StateNow.left = Timer!leftAt(event, Timer!EffectiveAt(event, time), time)
    BY DEF Timer!StateNow, Timer!StateAt
  <2> QED
    BY <2>1, <2>2, <2>3, CountdownHonest
<1>2. TimerInv => Timer!PageNeverOld
  <2> SUFFICES ASSUME TimerInv, onTimer, inView, lostOrders = 0, reading = <<>>
               PROVE  time - shown.at <= Period.timer + MaxLag
    BY DEF Timer!PageNeverOld
  <2>1. DOMAIN reading = {}
    OBVIOUS
  <2>2. time <= shown.at + sincePoll + 1 + MaxLag
    BY <2>1 DEF TimerInv, PollHolds
  <2>3. /\ sincePoll \in Nat /\ sincePoll < Period.timer /\ time \in Nat /\ shown.at \in Nat
        /\ MaxLag \in Nat /\ Period.timer \in Nat
    BY TimerAssumption
       DEF TimerInv, PollHolds, ShownHolds, ServerHolds, Past, Timer!TimerConstants
  <2> QED
    BY <2>2, <2>3
<1> QED
  BY <1>1, <1>2, TimerInvariant, PTL

\* What is typed in the settings stays there until it is saved or cancelled, whatever the
\* poll brings meanwhile; but for the switches of the timer page.
THEOREM SettingsStayTyped ==
    Timer!Spec => []Timer!TypedSettingsKept
<1>1. TimerInv => Timer!TypedSettingsKept
  BY DEF TimerInv, TypedHolds
<1> QED
  BY <1>1, TimerInvariant, PTL

\* The countdown, the projector page and the settings.
THEOREM ClockControlsHold == Timer!Spec => []TimerHolds
  BY CountdownIsHonest, SettingsStayTyped, PTL DEF TimerHolds

-----------------------------------------------------------------------------
(* The pages of users and teams.                                           *)

Admins == {Self} \cup OtherAdmins

Account ==
  [role : {"admin", "competitor"}, team : Nat, suspended : BOOLEAN, exempt : BOOLEAN,
   web : BOOLEAN, pw : Nat]

IsAccounts(f) == DOMAIN f \subseteq Nat /\ f \in [DOMAIN f -> Account]

Credential == [user : Nat, pw : Nat]
Item       == [team : Nat, users : Seq(Nat)]

\* The requests that concern one user.
SingleKinds == {"reset", "delete", "suspend", "addMember", "removeMember"} \cup Switches
BulkKinds   == {"bulk suspend", "bulk delete", "bulk exempt", "bulk web"}

\* A request names users and a team, and is not the reset of another admin's password.
OpAimed(op) ==
  /\ DOMAIN op = {"kind", "users", "on", "team", "items"}
  /\ op.kind \in SingleKinds \cup BulkKinds \cup {"users", "teams", "dropTeam"}
  /\ op.users \subseteq Nat /\ op.on \in BOOLEAN /\ op.team \in Nat
  /\ op.items \in Seq(Item)
  /\ op.kind = "users" => \A k \in DOMAIN op.items : op.items[k].users # <<>>
  /\ op.kind \in SingleKinds => \E u \in Nat : op.users = {u} /\ (op.kind = "reset" => u \notin OtherAdmins)

DialogAimed(c) ==
  /\ c.row \in Account /\ c.user \in Nat
  /\ c.kind \in {"reset", "delete", "suspend", "team"} \cup Switches
  /\ c.kind = "reset" => c.user \notin OtherAdmins

RosterTyped ==
  /\ IsAccounts(accounts) /\ IsAccounts(listed.accounts)
  /\ teams \subseteq Nat /\ listed.teams \subseteq Nat /\ passwords \in Nat
  /\ creds \in Seq(Credential) /\ importFile \in DOMAIN Imports

RequestsAimed ==
  /\ pending # <<>> => OpAimed(pending[1])
  /\ confirm # <<>> => DialogAimed(confirm[1])

\* The other admins' rows never offer what only a competitor's does.
AdminsListed == \A u \in OtherAdmins \cap DOMAIN listed.accounts : listed.accounts[u].role = "admin"

RosterInv == RosterTyped /\ RequestsAimed /\ AdminsListed /\ RosterHolds

\* An admin's row as it was made.
AdminRow(r) == /\ r.role = "admin" /\ r.team = 0 /\ r.suspended = FALSE
               /\ r.exempt = FALSE /\ r.web = FALSE

RowsKept(f) ==
  \A u \in Admins : u \in DOMAIN f /\ AdminRow(f[u]) /\ (u # Self => f[u].pw = 0)

\* That is what AdminsKept says.
LEMMA AdminRowIs ==
    ASSUME NEW r \in Account
    PROVE  [r EXCEPT !.pw = 0] = People!Admin <=> AdminRow(r)
<1> DEFINE q == [r EXCEPT !.pw = 0]
           a == [role |-> "admin", team |-> 0, suspended |-> FALSE, exempt |-> FALSE,
                 web |-> FALSE, pw |-> 0]
<1>1. q \in Account /\ q.pw = 0
  BY DEF Account
<1>2. /\ q.role = r.role /\ q.team = r.team /\ q.suspended = r.suspended
      /\ q.exempt = r.exempt /\ q.web = r.web
  BY DEF Account
<1>3. People!Admin = a
  <2> DEFINE x == People!Competitor(0, 0, 0)
  <2>1. x \in Account /\ x.role = "competitor" /\ x.team = 0 /\ x.pw = 0
        /\ x.suspended = FALSE /\ x.exempt = FALSE /\ x.web = FALSE
    BY DEF Account, People!Competitor
  <2> HIDE DEF x
  <2> DEFINE y == [x EXCEPT !.role = "admin"]
  <2>2. y \in Account /\ y.role = "admin" /\ y.team = 0 /\ y.pw = 0
        /\ y.suspended = FALSE /\ y.exempt = FALSE /\ y.web = FALSE
    BY <2>1 DEF Account
  <2>3. People!Admin = y
    BY Zenon DEF People!Admin, x
  <2> HIDE DEF y
  <2> QED
    BY <2>2, <2>3 DEF Account
<1> HIDE DEF q
<1>4. q = a <=> AdminRow(q)
  BY <1>1 DEF Account, AdminRow
<1> QED
  BY <1>2, <1>3, <1>4 DEF AdminRow, q

LEMMA KeptIs ==
    ASSUME IsAccounts(accounts)
    PROVE  People!AdminsKept <=> RowsKept(accounts)
<1>1. \A u \in DOMAIN accounts : accounts[u] \in Account
  BY DEF IsAccounts
<1>2. \A u \in DOMAIN accounts : [accounts[u] EXCEPT !.pw = 0] = People!Admin <=> AdminRow(accounts[u])
  BY <1>1, AdminRowIs
<1> QED
  BY <1>2 DEF People!AdminsKept, RowsKept, Admins

-----------------------------------------------------------------------------
(* Imports.                                                                *)

\* The rows a page of the console picks are picked as everywhere.
LEMMA RosterRows ==
    \A s, places : People!rowsAt(s, places) = rowsAt(s, places)
<1>1. \A S : People!Cardinality(S) = Cardinality(S)
  BY DEF People!Cardinality, Cardinality
<1> SUFFICES ASSUME NEW s, NEW places PROVE People!rowsAt(s, places) = rowsAt(s, places)
  OBVIOUS
<1> DEFINE upTo(i) == {j \in places : j <= i}
<1>2. ASSUME NEW k
      PROVE  (CHOOSE i \in places : People!Cardinality(upTo(i)) = k)
               = (CHOOSE i \in places : Cardinality(upTo(i)) = k)
  <2> HIDE DEF upTo
  <2>1. \A i : (i \in places /\ People!Cardinality(upTo(i)) = k)
                 <=> (i \in places /\ Cardinality(upTo(i)) = k)
    BY <1>1
  <2> QED
    BY <2>1, Zenon
<1> DEFINE theirs(k) == CHOOSE i \in places : People!Cardinality(upTo(i)) = k
           nth(k) == CHOOSE i \in places : Cardinality(upTo(i)) = k
<1>3. /\ People!rowsAt(s, places) = [k \in 1..People!Cardinality(places) |-> s[theirs(k)]]
      /\ rowsAt(s, places) = [k \in 1..Cardinality(places) |-> s[nth(k)]]
  BY Zenon DEF People!rowsAt, rowsAt
<1>4. \A k : theirs(k) = nth(k)
  BY <1>2, Zenon
<1> HIDE DEF theirs, nth
<1> QED
  BY <1>1, <1>3, <1>4

LEMMA LinesTyped ==
    ASSUME NEW i \in DOMAIN Imports
    PROVE  People!dataLines(Imports[i].lines) \in Seq(People!Line)
<1>1. Imports[i].lines \in Seq(People!Line)
  BY RosterAssumption DEF People!RosterConstants
<1> DEFINE f == Imports[i].lines
<1> HIDE DEF f
<1>2. f # <<>> => Tail(f) \in Seq(People!Line)
  BY <1>1 DEF f
<1> QED
  BY <1>1, <1>2 DEF People!dataLines, f

\* The users a file names for a team.
LEMMA MembersTyped ==
    ASSUME NEW lines \in Seq(People!Line), NEW places \in SUBSET DOMAIN lines,
           NEW rows, rows = People!rowsAt(lines, places)
    PROVE  [m \in DOMAIN rows |-> rows[m].user] \in Seq(Nat)
<1>1. rows \in Seq(People!Line)
  BY RowsAtAreRows, RosterRows
<1>2. Len(rows) \in Nat /\ DOMAIN rows = 1..Len(rows)
  BY <1>1
<1>3. \A m \in 1..Len(rows) : rows[m].user \in Nat
  <2>1. \A m \in 1..Len(rows) : rows[m] \in People!Line
    BY <1>1
  <2> QED
    BY <2>1 DEF People!Line
<1> QED
  BY <1>2, <1>3

\* The items of a file, which has a user in each where it is one of users.
LEMMA ItemsParsed ==
    ASSUME NEW i \in DOMAIN Imports,
           NEW items, items = People!ParsedItems(Imports[i].lines, Imports[i].mode)
    PROVE  /\ items \in Seq(Item)
           /\ Imports[i].mode \in {"rows", "single"} => \A k \in DOMAIN items : items[k].users # <<>>
<1> DEFINE f == Imports[i].lines
           mode == Imports[i].mode
           lines == People!dataLines(f)
           firsts == {k \in DOMAIN lines : lines[k].team # 0 /\ \A j \in 1..(k - 1) : lines[j].team # lines[k].team}
           named == People!rowsAt(lines, firsts)
           places(t) == {k \in DOMAIN lines : lines[k].team = t /\ lines[k].user # 0}
           members(t) == People!rowsAt(lines, places(t))
           rows == [k \in DOMAIN lines |-> [team |-> lines[k].team, users |-> <<lines[k].user>>]]
           single == [k \in DOMAIN lines |-> [team |-> SingleTeam, users |-> <<lines[k].user>>]]
           names == [k \in DOMAIN lines |-> [team |-> lines[k].team, users |-> <<>>]]
           teamsOf == [k \in DOMAIN named |-> [team |-> named[k].team,
                         users |-> [m \in DOMAIN members(named[k].team) |-> members(named[k].team)[m].user]]]
<1>1. lines \in Seq(People!Line) /\ Len(lines) \in Nat /\ DOMAIN lines = 1..Len(lines)
  <2>1. lines \in Seq(People!Line)
    BY LinesTyped
  <2> HIDE DEF lines
  <2> QED
    BY <2>1
<1>2. mode \in {"rows", "single", "names", "members"} /\ SingleTeam \in Nat
  BY RosterAssumption DEF People!RosterConstants
<1>3. People!ParsedItems(f, mode) = CASE mode = "rows" -> rows [] mode = "single" -> single
                                      [] mode = "names" -> names [] mode = "members" -> teamsOf
  BY Zenon DEF People!ParsedItems
<1> HIDE DEF f, mode, lines
<1>4. \A k \in 1..Len(lines) : lines[k].team \in Nat /\ lines[k].user \in Nat
  <2>1. \A k \in 1..Len(lines) : lines[k] \in People!Line
    BY <1>1
  <2> QED
    BY <2>1 DEF People!Line
<1>5. rows \in Seq(Item)
  <2>1. \A k \in 1..Len(lines) : [team |-> lines[k].team, users |-> <<lines[k].user>>] \in Item
    BY <1>4 DEF Item
  <2> QED
    BY <1>1, <2>1
<1>6. single \in Seq(Item)
  <2>1. \A k \in 1..Len(lines) : [team |-> SingleTeam, users |-> <<lines[k].user>>] \in Item
    BY <1>2, <1>4 DEF Item
  <2> QED
    BY <1>1, <2>1
<1>7. names \in Seq(Item)
  <2>1. \A k \in 1..Len(lines) : [team |-> lines[k].team, users |-> <<>>] \in Item
    BY <1>4 DEF Item
  <2> QED
    BY <1>1, <2>1
<1>8. teamsOf \in Seq(Item)
  <2>1. named \in Seq(People!Line)
    BY <1>1, RowsAtAreRows, RosterRows
  <2>2. \A t : places(t) \in SUBSET DOMAIN lines
    OBVIOUS
  <2> HIDE DEF named, places
  <2>3. \A t : [m \in DOMAIN members(t) |-> members(t)[m].user] \in Seq(Nat)
    BY <1>1, <2>2, MembersTyped
  <2>4. Len(named) \in Nat /\ DOMAIN named = 1..Len(named)
    BY <2>1
  <2>5. \A k \in 1..Len(named) : named[k].team \in Nat
    <3>1. \A k \in 1..Len(named) : named[k] \in People!Line
      BY <2>1
    <3> QED
      BY <3>1 DEF People!Line
  <2> DEFINE item(k) == [team |-> named[k].team,
               users |-> [m \in DOMAIN members(named[k].team) |-> members(named[k].team)[m].user]]
  <2>6. \A k \in 1..Len(named) : item(k) \in Item
    BY <2>3, <2>5 DEF Item
  <2>7. teamsOf = [k \in 1..Len(named) |-> item(k)]
    BY <2>4
  <2> HIDE DEF item, teamsOf
  <2> QED
    BY <2>4, <2>6, <2>7
<1>13. (\A k \in DOMAIN rows : rows[k].users # <<>>) /\ (\A k \in DOMAIN single : single[k].users # <<>>)
  OBVIOUS
<1> HIDE DEF rows, single, names, teamsOf
<1>9. CASE mode = "rows"
  BY <1>3, <1>5, <1>9, <1>13 DEF f, mode
<1>10. CASE mode = "single"
  BY <1>3, <1>6, <1>10, <1>13 DEF f, mode
<1>11. CASE mode = "names"
  BY <1>3, <1>7, <1>11 DEF f, mode
<1>12. CASE mode = "members"
  BY <1>3, <1>8, <1>12 DEF f, mode
<1> QED
  BY <1>2, <1>9, <1>10, <1>11, <1>12

\* The recursion behind an import: the last item of a part of the list is made after the rest.
LastPlace(s) == People!Max(s)

IsImport(g, first, kind, items, S) ==
  g = [s \in SUBSET S |->
         IF s = {} THEN first ELSE People!createEach(kind, g[s \ {LastPlace(s)}], items[LastPlace(s)])]

LEMMA ImportIsChosen ==
    ASSUME NEW first, NEW kind, NEW items
    PROVE  People!createAll(kind, first, items)
             = (CHOOSE g : IsImport(g, first, kind, items, DOMAIN items))[DOMAIN items]
  BY Zenon DEF People!createAll, People!FoldLeft, People!MapThenFoldSet, IsImport, LastPlace

\* A part of a list's places.
Places(s) == \E n \in Nat : s \subseteq 1..n

LEMMA PlacesFinite ==
    ASSUME NEW s, Places(s)
    PROVE  IsFiniteSet(s) /\ \A t \in SUBSET s : Places(t)
<1>1. PICK n \in Nat : s \subseteq 1..n
  BY DEF Places
<1>2. IsFiniteSet(1..n)
  BY FS_Interval
<1>3. IsFiniteSet(s)
  BY <1>1, <1>2, FS_Subset
<1>4. \A t \in SUBSET s : Places(t)
  BY <1>1 DEF Places
<1> QED
  BY <1>3, <1>4

LEMMA LastIsIn ==
    ASSUME NEW s, Places(s), s # {}
    PROVE  LastPlace(s) \in s /\ \A j \in s : j <= LastPlace(s)
<1>0. PICK n \in Nat : s \subseteq 1..n
  BY DEF Places
<1> DEFINE K == {n - j : j \in s}
<1>1. \A j \in s : j \in Int /\ 1 <= j /\ j <= n
  BY <1>0
<1>2. K \in SUBSET (0..n) /\ K # {}
  <2>1. \A j \in s : n - j \in 0..n
    BY <1>1
  <2> QED
    BY <2>1
<1>3. PICK k \in K : \A j \in K : k <= j
  <2> HIDE DEF K
  <2> QED
    BY <1>2, LeastNumber
<1>4. PICK m \in s : k = n - m
  BY <1>3
<1>5. \A j \in s : j <= m
  <2>1. \A j \in s : n - m <= n - j
    BY <1>3, <1>4
  <2> QED
    BY <1>1, <1>4, <2>1
<1>6. \E x \in s : \A y \in s : x >= y
  BY <1>1, <1>4, <1>5
<1>7. LastPlace(s) \in s /\ \A y \in s : LastPlace(s) >= y
  BY <1>6 DEF LastPlace, People!Max
<1> QED
  BY <1>1, <1>7

\* On parts of both lists, two solutions agree.
LEMMA ImportUnique ==
    ASSUME NEW S, Places(S), NEW R, S \subseteq R, NEW Q, S \subseteq Q,
           NEW first, NEW kind, NEW items, NEW g, NEW h,
           IsImport(g, first, kind, items, R), IsImport(h, first, kind, items, Q)
    PROVE  g[S] = h[S]
<1> DEFINE G == {T \in SUBSET S : g[T] # h[T]}
<1> SUFFICES ASSUME G # {} PROVE FALSE
  OBVIOUS
<1>1. G \in SUBSET SUBSET S /\ IsFiniteSet(S)
  BY PlacesFinite
<1>2. PICK T \in G : \A U \in G : U \subseteq T => U = T
  <2> HIDE DEF G
  <2> QED
    BY <1>1, MinimalSubset
<1>3. T \in SUBSET R /\ T \in SUBSET Q /\ Places(T)
  BY PlacesFinite
<1>4. CASE T = {}
  BY <1>2, <1>3, <1>4 DEF IsImport
<1>5. CASE T # {}
  <2> DEFINE U == T \ {LastPlace(T)}
  <2>1. LastPlace(T) \in T
    BY <1>3, <1>5, LastIsIn
  <2>2. g[U] = h[U]
    BY <1>2, <2>1
  <2>3. g[T] = People!createEach(kind, g[U], items[LastPlace(T)])
    BY <1>3, <1>5, Zenon DEF IsImport
  <2>4. h[T] = People!createEach(kind, h[U], items[LastPlace(T)])
    BY <1>3, <1>5, Zenon DEF IsImport
  <2> QED
    BY <1>2, <2>2, <2>3, <2>4
<1> QED
  BY <1>4, <1>5

\* The recursion has a solution.
LEMMA ImportExists ==
    ASSUME NEW S, Places(S), NEW first, NEW kind, NEW items
    PROVE  \E g : IsImport(g, first, kind, items, S)
<1> DEFINE made(acc, i) == People!createEach(kind, acc, items[i])
           solves(g, T) == IsImport(g, first, kind, items, T)
<1>0. \A g, T : solves(g, T) <=>
        g = [s \in SUBSET T |-> IF s = {} THEN first ELSE made(g[s \ {LastPlace(s)}], LastPlace(s))]
  BY Zenon DEF IsImport
<1> DEFINE G == {T \in SUBSET S : ~ \E g : solves(g, T)}
<1> SUFFICES ASSUME G # {} PROVE FALSE
  OBVIOUS
<1>1. G \in SUBSET SUBSET S /\ IsFiniteSet(S)
  BY PlacesFinite
<1>2. PICK T \in G : \A U \in G : U \subseteq T => U = T
  <2> HIDE DEF G, solves
  <2> QED
    BY <1>1, MinimalSubset
<1> DEFINE below(U) == CHOOSE g : solves(g, U)
<1>3. \A U \in SUBSET T : U # T => solves(below(U), U)
  <2> HIDE DEF solves
  <2>1. \A U \in SUBSET T : U # T => \E g : solves(g, U)
    BY <1>2
  <2> QED
    BY <2>1, Zenon
<1>4. \A U \in SUBSET T : Places(U)
  BY PlacesFinite
<1>5. \A g, h : \A W, V \in SUBSET T :
        solves(g, V) /\ solves(h, W) /\ W \subseteq V => g[W] = h[W]
  BY <1>4, ImportUnique
<1> HIDE DEF solves, made, below
<1> DEFINE rest(U) == U \ {LastPlace(U)}
           step(U) == IF U = {} THEN first ELSE made(below(rest(U))[rest(U)], LastPlace(U))
           h == [U \in SUBSET T |-> step(U)]
<1>6. ASSUME NEW U \in SUBSET T, U # {}
      PROVE  below(rest(U))[rest(U)] = h[rest(U)]
  <2> DEFINE V == rest(U)
  <2>1. LastPlace(U) \in U
    BY <1>4, <1>6, LastIsIn
  <2>2. V \in SUBSET T /\ V # T /\ solves(below(V), V)
    BY <1>3, <2>1
  <2>3. h[V] = step(V)
    BY <2>2
  <2>4. below(V)[V] = IF V = {} THEN first ELSE made(below(V)[rest(V)], LastPlace(V))
    <3> HIDE DEF V
    <3> QED
      BY <1>0, <2>2
  <2>5. V # {} => below(V)[rest(V)] = below(rest(V))[rest(V)]
    <3> SUFFICES ASSUME V # {} PROVE below(V)[rest(V)] = below(rest(V))[rest(V)]
      OBVIOUS
    <3> DEFINE W == rest(V)
    <3>1. LastPlace(V) \in V
      <4> HIDE DEF V
      <4> QED
        BY <1>4, <2>2, LastIsIn
    <3>2. W \in SUBSET T /\ W # T /\ W \subseteq V
      BY <2>1, <2>2, <3>1
    <3>3. solves(below(W), W)
      <4> HIDE DEF W
      <4> QED
        BY <1>3, <3>2
    <3> HIDE DEF W, V
    <3> QED
      BY <1>5, <2>2, <3>2, <3>3 DEF W
  <2> HIDE DEF V
  <2> QED
    BY <2>3, <2>4, <2>5 DEF V
<1>7. h = [s \in SUBSET T |-> IF s = {} THEN first ELSE made(h[s \ {LastPlace(s)}], LastPlace(s))]
  <2>1. ASSUME NEW s \in SUBSET T
        PROVE  step(s) = IF s = {} THEN first ELSE made(h[rest(s)], LastPlace(s))
    BY <1>6
  <2> QED
    BY <2>1
<1>8. solves(h, T)
  <2> HIDE DEF h
  <2> QED
    BY <1>0, <1>7
<1> QED
  BY <1>2, <1>8

\* A credential that is shown is its account's password.
CredsRight(f, cs) == \A k \in DOMAIN cs : cs[k].user \in DOMAIN f /\ f[cs[k].user].pw = cs[k].pw

\* What an import has made of the accounts by some item: those before it are as they were,
\* and every other one has its credential.
Imported(acc) ==
  /\ DOMAIN acc = {"accounts", "teams", "creds", "pw", "failed", "seen"}
  /\ IsAccounts(acc.accounts) /\ acc.teams \subseteq Nat /\ acc.pw \in Nat
  /\ acc.creds \in Seq(Credential) /\ CredsRight(acc.accounts, acc.creds)
  /\ \A u \in DOMAIN accounts : u \in DOMAIN acc.accounts /\ acc.accounts[u] = accounts[u]
  /\ \A u \in DOMAIN acc.accounts \ DOMAIN accounts : \E k \in DOMAIN acc.creds : acc.creds[k].user = u

LEMMA CompetitorTyped ==
    ASSUME NEW u, NEW t \in Nat, NEW pw \in Nat
    PROVE  People!Competitor(u, t, pw) \in Account /\ People!Competitor(u, t, pw).pw = pw
  BY DEF People!Competitor, Account

LEMMA CreateOneKeeps ==
    ASSUME NEW acc, Imported(acc), NEW item \in Item, item.users # <<>>
    PROVE  Imported(People!createOne(acc, item))
<1> DEFINE u == item.users[1]
           full == People!Cardinality(People!membersOf(acc.accounts, item.team)) >= MaxMembers
           ok == u \notin acc.seen /\ ~full /\ u \notin DOMAIN acc.accounts
           account == People!Competitor(u, item.team, acc.pw + 1)
           new == [user |-> u, pw |-> acc.pw + 1]
           next == People!createOne(acc, item)
           f == People!With(acc.accounts, u, account)
           cs == Append(acc.creds, new)
<1>1. u \in Nat /\ item.team \in Nat
  <2>1. item.users \in Seq(Nat) /\ item.team \in Nat
    BY DEF Item
  <2> QED
    BY <2>1
<1>2. /\ DOMAIN next = {"accounts", "teams", "creds", "pw", "failed", "seen"}
      /\ next.accounts = IF ok THEN f ELSE acc.accounts
      /\ next.teams = IF u \in acc.seen THEN acc.teams ELSE acc.teams \cup {item.team}
      /\ next.creds = IF ok THEN cs ELSE acc.creds
      /\ next.pw = IF ok THEN acc.pw + 1 ELSE acc.pw
  <2> HIDE DEF u, account, f, cs
  <2> QED
    BY DEF People!createOne, u, account, f, cs
<1> HIDE DEF u, full, account, new, next, f, cs
<1>3. next.teams \subseteq Nat /\ acc.pw \in Nat /\ acc.creds \in Seq(Credential)
  BY <1>1, <1>2 DEF Imported
<1>4. CASE ~ok
  <2> HIDE DEF ok
  <2>1. next.accounts = acc.accounts /\ next.creds = acc.creds /\ next.pw = acc.pw
    BY <1>2, <1>4
  <2>2. Imported(next)
    BY <1>2, <1>3, <2>1 DEF Imported
  <2> QED
    BY <2>2 DEF next
<1>5. CASE ok
  <2>0. u \notin DOMAIN acc.accounts
    BY <1>5
  <2> HIDE DEF ok
  <2>1. account \in Account /\ account.pw = acc.pw + 1
    <3>1. acc.pw + 1 \in Nat
      BY <1>3
    <3> QED
      BY <1>1, <3>1, CompetitorTyped DEF account
  <2>2. /\ DOMAIN f = DOMAIN acc.accounts \cup {u} /\ f[u] = account
        /\ \A x \in DOMAIN acc.accounts : f[x] = acc.accounts[x]
        /\ f = [x \in DOMAIN f |-> f[x]]
    BY <2>0 DEF f, People!With
  <2>3. IsAccounts(f)
    <3>1. \A x \in DOMAIN f : f[x] \in Account
      BY <2>1, <2>2 DEF Imported, IsAccounts
    <3>2. DOMAIN f \subseteq Nat
      BY <1>1, <2>2 DEF Imported, IsAccounts
    <3> QED
      BY <2>2, <3>1, <3>2 DEF IsAccounts
  <2>4. new \in Credential /\ new.user = u /\ new.pw = acc.pw + 1
    BY <1>1, <1>3 DEF new, Credential
  <2>5. /\ cs \in Seq(Credential) /\ DOMAIN cs = DOMAIN acc.creds \cup {Len(acc.creds) + 1}
        /\ cs[Len(acc.creds) + 1] = new
        /\ \A k \in DOMAIN acc.creds : cs[k] = acc.creds[k]
    BY <1>3, <2>4 DEF cs
  <2>6. CredsRight(f, cs)
    BY <2>1, <2>2, <2>4, <2>5 DEF CredsRight, Imported
  <2>7. /\ next.accounts = f /\ next.creds = cs /\ next.pw \in Nat
    BY <1>2, <1>3, <1>5
  <2>8. \A x \in DOMAIN f \ DOMAIN accounts : \E k \in DOMAIN cs : cs[k].user = x
    BY <2>2, <2>4, <2>5 DEF Imported
  <2>9. \A x \in DOMAIN accounts : x \in DOMAIN f /\ f[x] = accounts[x]
    BY <2>2 DEF Imported
  <2>10. Imported(next)
    BY <1>2, <1>3, <2>3, <2>5, <2>6, <2>7, <2>8, <2>9 DEF Imported
  <2> QED
    BY <2>10 DEF next
<1> QED
  BY <1>4, <1>5

LEMMA CreateTeamKeeps ==
    ASSUME NEW acc, Imported(acc), NEW item \in Item
    PROVE  Imported(People!createTeamOne(acc, item))
<1> DEFINE us == item.users
           ok == /\ item.team \notin acc.teams /\ Len(us) <= MaxMembers /\ People!IsInjective(us)
                 /\ \A k \in DOMAIN us : us[k] \notin DOMAIN acc.accounts
           place(u) == CHOOSE k \in DOMAIN us : us[k] = u
           f == [x \in DOMAIN acc.accounts \cup People!ToSet(us) |->
                   IF x \in DOMAIN acc.accounts THEN acc.accounts[x]
                   ELSE People!Competitor(x, item.team, acc.pw + place(x))]
           new == [k \in DOMAIN us |-> [user |-> us[k], pw |-> acc.pw + k]]
           cs == acc.creds \o new
           next == People!createTeamOne(acc, item)
<1>1. us \in Seq(Nat) /\ item.team \in Nat /\ acc.pw \in Nat /\ acc.creds \in Seq(Credential)
  BY DEF Item, Imported
<1>2. CASE ~ok
  <2>1. next = [acc EXCEPT !.failed = @ + 1]
    BY <1>2, Zenon DEF People!createTeamOne
  <2> HIDE DEF next, ok
  <2>2. /\ DOMAIN next = DOMAIN acc /\ next.accounts = acc.accounts /\ next.teams = acc.teams
        /\ next.creds = acc.creds /\ next.pw = acc.pw
    BY <2>1 DEF Imported
  <2> QED
    BY <2>2 DEF Imported, next
<1>3. CASE ok
  <2>1. next = [accounts |-> f, teams |-> acc.teams \cup {item.team}, creds |-> cs,
                pw |-> acc.pw + Len(us), failed |-> acc.failed, seen |-> acc.seen]
    BY <1>3, Zenon DEF People!createTeamOne
  <2>2. /\ \A k \in DOMAIN us : us[k] \notin DOMAIN acc.accounts
        /\ \A j, k \in DOMAIN us : us[j] = us[k] => j = k
    BY <1>3 DEF People!IsInjective
  <2> HIDE DEF ok
  <2>3. DOMAIN us = 1..Len(us) /\ Len(us) \in Nat /\ \A k \in DOMAIN us : us[k] \in Nat
    <3> HIDE DEF us
    <3> QED
      BY <1>1
  <2>4. People!ToSet(us) = {us[k] : k \in DOMAIN us}
    BY DEF People!ToSet
  <2> HIDE DEF us
  <2>5. \A x \in People!ToSet(us) : place(x) \in DOMAIN us /\ us[place(x)] = x
    BY <2>4
  <2>6. \A k \in DOMAIN us : place(us[k]) = k
    BY <2>2, <2>4, <2>5
  <2> HIDE DEF place
  <2>7. \A k \in DOMAIN us : acc.pw + k \in Nat
    BY <1>1, <2>3
  <2>8. /\ DOMAIN f = DOMAIN acc.accounts \cup People!ToSet(us)
        /\ \A x \in DOMAIN acc.accounts : f[x] = acc.accounts[x]
        /\ \A k \in DOMAIN us : f[us[k]] \in Account /\ f[us[k]].pw = acc.pw + k
    <3>1. \A k \in DOMAIN us : f[us[k]] = People!Competitor(us[k], item.team, acc.pw + k)
      BY <2>2, <2>4, <2>6
    <3>2. /\ DOMAIN f = DOMAIN acc.accounts \cup People!ToSet(us)
          /\ \A x \in DOMAIN acc.accounts : f[x] = acc.accounts[x]
      OBVIOUS
    <3> HIDE DEF f
    <3> QED
      BY <1>1, <2>7, <3>1, <3>2, CompetitorTyped
  <2>9. f = [x \in DOMAIN f |-> f[x]]
    OBVIOUS
  <2> HIDE DEF f
  <2>10. IsAccounts(f)
    <3>1. \A x \in DOMAIN f : f[x] \in Account /\ x \in Nat
      BY <2>3, <2>4, <2>8 DEF Imported, IsAccounts
    <3> QED
      BY <2>9, <3>1 DEF IsAccounts
  <2>11. new \in Seq(Credential) /\ DOMAIN new = DOMAIN us /\ Len(new) = Len(us)
         /\ \A k \in DOMAIN us : new[k].user = us[k] /\ new[k].pw = acc.pw + k
    <3>1. \A k \in DOMAIN us : [user |-> us[k], pw |-> acc.pw + k] \in Credential
      BY <2>3, <2>7 DEF Credential
    <3> QED
      BY <2>3, <3>1
  <2> HIDE DEF new
  <2>12. /\ cs \in Seq(Credential)
         /\ \A k \in DOMAIN acc.creds : k \in DOMAIN cs /\ cs[k] = acc.creds[k]
         /\ \A k \in DOMAIN new : Len(acc.creds) + k \in DOMAIN cs /\ cs[Len(acc.creds) + k] = new[k]
         /\ \A k \in DOMAIN cs : k \in DOMAIN acc.creds \/ \E j \in DOMAIN new : cs[k] = new[j]
    <3>0. acc.creds \in Seq(Credential) /\ new \in Seq(Credential)
      BY <1>1, <2>11
    <3>1. /\ cs \in Seq(Credential) /\ Len(cs) = Len(acc.creds) + Len(new)
          /\ Len(acc.creds) \in Nat /\ Len(new) \in Nat
          /\ \A k \in 1..Len(cs) : cs[k] = IF k <= Len(acc.creds) THEN acc.creds[k] ELSE new[k - Len(acc.creds)]
      BY <3>0
    <3>2. DOMAIN cs = 1..Len(cs) /\ DOMAIN new = 1..Len(new) /\ DOMAIN acc.creds = 1..Len(acc.creds)
      BY <3>0, <3>1
    <3> HIDE DEF cs
    <3>3. \A k \in DOMAIN cs : k \in DOMAIN acc.creds \/ (k - Len(acc.creds) \in DOMAIN new /\ cs[k] = new[k - Len(acc.creds)])
      BY <3>1, <3>2
    <3>4. \A k \in DOMAIN acc.creds : k \in DOMAIN cs /\ cs[k] = acc.creds[k]
      BY <3>1, <3>2
    <3>5. ASSUME NEW k \in DOMAIN new
          PROVE  Len(acc.creds) + k \in DOMAIN cs /\ cs[Len(acc.creds) + k] = new[k]
      <4> DEFINE j == Len(acc.creds) + k
      <4>1. j \in 1..Len(cs) /\ ~ j <= Len(acc.creds) /\ j - Len(acc.creds) = k
        BY <3>1, <3>2
      <4> HIDE DEF j
      <4> QED
        BY <3>1, <3>2, <4>1 DEF j
    <3> QED
      BY <3>1, <3>3, <3>4, <3>5
  <2> HIDE DEF cs
  <2>13. CredsRight(f, cs)
    <3>1. \A k \in DOMAIN acc.creds : acc.creds[k].user \in DOMAIN f /\ f[acc.creds[k].user].pw = acc.creds[k].pw
      BY <2>8 DEF Imported, CredsRight
    <3>2. \A k \in DOMAIN new : new[k].user \in DOMAIN f /\ f[new[k].user].pw = new[k].pw
      BY <2>4, <2>8, <2>11
    <3> QED
      BY <2>12, <3>1, <3>2 DEF CredsRight
  <2>14. \A x \in DOMAIN f \ DOMAIN accounts : \E k \in DOMAIN cs : cs[k].user = x
    <3>1. \A x \in DOMAIN acc.accounts \ DOMAIN accounts : \E k \in DOMAIN cs : cs[k].user = x
      BY <2>12 DEF Imported
    <3>2. \A x \in People!ToSet(us) : \E k \in DOMAIN cs : cs[k].user = x
      BY <2>4, <2>11, <2>12
    <3> QED
      BY <2>8, <3>1, <3>2
  <2>15. /\ DOMAIN next = {"accounts", "teams", "creds", "pw", "failed", "seen"}
         /\ next.accounts = f /\ next.creds = cs /\ next.pw \in Nat /\ next.teams \subseteq Nat
    <3>1. acc.pw + Len(us) \in Nat /\ acc.teams \cup {item.team} \subseteq Nat
      BY <1>1, <2>3 DEF Imported
    <3> QED
      BY <2>1, <3>1
  <2>16. \A x \in DOMAIN accounts : x \in DOMAIN f /\ f[x] = accounts[x]
    BY <2>8 DEF Imported
  <2> HIDE DEF next
  <2>17. Imported(next)
    BY <2>10, <2>12, <2>13, <2>14, <2>15, <2>16 DEF Imported
  <2> QED
    BY <2>17 DEF next
<1> QED
  BY <1>2, <1>3

\* The items are made one after the other.
LEMMA ImportKeeps ==
    ASSUME IsAccounts(accounts), teams \subseteq Nat, passwords \in Nat, NEW kind,
           NEW items \in Seq(Item), kind = "users" => \A k \in DOMAIN items : items[k].users # <<>>,
           NEW first, first = [accounts |-> accounts, teams |-> teams, pw |-> passwords,
                               creds |-> <<>>, failed |-> 0, seen |-> {}]
    PROVE  Imported(People!createAll(kind, first, items))
<1> DEFINE N == DOMAIN items
           upTo(k) == 1..k
<1>1. Len(items) \in Nat /\ N = 1..Len(items) /\ \A k \in N : items[k] \in Item
  OBVIOUS
<1>2. Places(N)
  BY <1>1 DEF Places
<1>3. PICK g : g = (CHOOSE h : IsImport(h, first, kind, items, N))
  OBVIOUS
<1>4. IsImport(g, first, kind, items, N)
  <2>1. \E h : IsImport(h, first, kind, items, N)
    BY <1>2, ImportExists
  <2> QED
    BY <1>3, <2>1, Zenon
<1>5. Imported(g[{}])
  <2>1. g[{}] = first
    BY <1>4 DEF IsImport
  <2>2. Imported(first)
    <3>1. first.creds = <<>> /\ <<>> \in Seq(Credential) /\ DOMAIN <<>> = {}
      BY SMT
    <3>2. /\ DOMAIN first = {"accounts", "teams", "creds", "pw", "failed", "seen"}
          /\ first.accounts = accounts /\ first.teams = teams /\ first.pw = passwords
      OBVIOUS
    <3> QED
      BY <3>1, <3>2 DEF Imported, CredsRight
  <2> QED
    BY <2>1, <2>2
<1>6. ASSUME NEW k \in N, Imported(g[upTo(k - 1)]) PROVE Imported(g[upTo(k)])
  <2> DEFINE S == upTo(k)
             T == upTo(k - 1)
  <2>1. k \in Int /\ 1 <= k /\ k <= Len(items) /\ items[k] \in Item
    BY <1>1
  <2>2. S \in SUBSET N /\ T = S \ {k} /\ k \in S /\ \A j \in S : j <= k
    BY <1>1, <2>1
  <2>3. Places(S)
    BY <1>2, <2>2, PlacesFinite
  <2> HIDE DEF S, T
  <2>4. LastPlace(S) = k
    <3>1. LastPlace(S) \in S /\ k <= LastPlace(S)
      BY <2>2, <2>3, LastIsIn
    <3>2. LastPlace(S) \in Int
      BY <1>1, <2>2, <3>1
    <3> QED
      BY <2>1, <2>2, <3>1, <3>2
  <2>5. g[S] = People!createEach(kind, g[T], items[k])
    <3>1. g[S] = IF S = {} THEN first ELSE People!createEach(kind, g[S \ {LastPlace(S)}], items[LastPlace(S)])
      BY <1>4, <2>2, Zenon DEF IsImport
    <3> QED
      BY <2>2, <2>4, <3>1
  <2>6. Imported(g[T])
    BY <1>6 DEF T
  <2>7. Imported(g[S])
    <3>1. CASE kind = "users"
      <4>1. items[k].users # <<>>
        BY <3>1
      <4>2. Imported(People!createOne(g[T], items[k]))
        BY <2>1, <2>6, <4>1, CreateOneKeeps
      <4> QED
        BY <2>5, <3>1, <4>2 DEF People!createEach
    <3>2. CASE kind # "users"
      <4>1. Imported(People!createTeamOne(g[T], items[k]))
        BY <2>1, <2>6, CreateTeamKeeps
      <4> QED
        BY <2>5, <3>2, <4>1 DEF People!createEach
    <3> QED
      BY <3>1, <3>2
  <2> QED
    BY <2>7 DEF S
<1>7. Imported(g[N])
  <2> DEFINE K == {k \in 0..Len(items) : ~ Imported(g[upTo(k)])}
  <2> SUFFICES ASSUME ~ Imported(g[N]) PROVE FALSE
    OBVIOUS
  <2>1. Len(items) \in K
    BY <1>1
  <2>2. PICK k \in K : \A j \in K : k <= j
    <3>1. K \in SUBSET (0..Len(items))
      OBVIOUS
    <3> HIDE DEF K
    <3> QED
      BY <1>1, <2>1, <3>1, LeastNumber
  <2>3. k # 0
    <3>1. upTo(0) = {}
      OBVIOUS
    <3> QED
      BY <1>5, <2>2, <3>1
  <2>4. k \in Int /\ 1 <= k /\ k <= Len(items)
    BY <1>1, <2>2, <2>3
  <2>5. Imported(g[upTo(k - 1)])
    <3> DEFINE j == k - 1
    <3>1. j \in 0..Len(items) /\ ~ k <= j
      BY <1>1, <2>4
    <3> HIDE DEF j
    <3>2. Imported(g[upTo(j)])
      BY <2>2, <3>1
    <3> QED
      BY <3>2 DEF j
  <2>6. ~ Imported(g[upTo(k)])
    BY <2>2
  <2>7. k \in N
    BY <1>1, <2>4
  <2> HIDE DEF N, K, upTo
  <2> QED
    BY <1>6, <2>5, <2>6, <2>7
<1> QED
  BY <1>3, <1>7, ImportIsChosen

-----------------------------------------------------------------------------
(* What the server makes of a request.                                     *)

\* Every password that is not the one from before has its credential, and the admins are kept.
EffectKept(e) ==
  /\ IsAccounts(e.accounts) /\ RowsKept(e.accounts) /\ e.teams \subseteq Nat /\ e.pw \in Nat
  /\ e.creds \in Seq(Credential) /\ CredsRight(e.accounts, e.creds)
  /\ \A u \in DOMAIN e.accounts : \/ \E k \in DOMAIN e.creds : e.creds[k].user = u
                                  \/ u \in DOMAIN accounts /\ e.accounts[u].pw = accounts[u].pw

\* Effects that give out no password.
LEMMA SilentKept ==
    ASSUME RosterTyped, NEW e, e.creds = <<>>, e.pw = passwords, e.teams \subseteq Nat,
           IsAccounts(e.accounts), RowsKept(e.accounts),
           \A u \in DOMAIN e.accounts : u \in DOMAIN accounts /\ e.accounts[u].pw = accounts[u].pw
    PROVE  EffectKept(e)
<1>1. <<>> \in Seq(Credential) /\ DOMAIN <<>> = {}
  BY SMT
<1> QED
  BY <1>1 DEF EffectKept, CredsRight, RosterTyped

LEMMA SameKept ==
    ASSUME RosterTyped, RowsKept(accounts), NEW e,
           e.accounts = accounts, e.teams = teams, e.pw = passwords, e.creds = <<>>
    PROVE  EffectKept(e)
  BY SilentKept DEF RosterTyped

LEMMA RefusedKept ==
    ASSUME RosterTyped, RowsKept(accounts)
    PROVE  EffectKept(People!refused)
<1>1. /\ People!refused.accounts = accounts /\ People!refused.teams = teams
      /\ People!refused.pw = passwords /\ People!refused.creds = <<>>
  BY DEF People!refused, People!Same, People!Outcome
<1> QED
  BY <1>1, SameKept

\* An account is changed in one field but the password.
LEMMA FieldTyped ==
    ASSUME NEW r \in Account, NEW field, NEW value,
           \/ field \in {"suspended", "exempt", "web"} /\ value \in BOOLEAN
           \/ field = "team" /\ value \in Nat
    PROVE  [r EXCEPT ![field] = value] \in Account /\ [r EXCEPT ![field] = value].pw = r.pw
<1>1. CASE field = "suspended"
  BY <1>1 DEF Account
<1>2. CASE field = "exempt"
  BY <1>2 DEF Account
<1>3. CASE field = "web"
  BY <1>3 DEF Account
<1>4. CASE field = "team"
  BY <1>4 DEF Account
<1> QED
  BY <1>1, <1>2, <1>3, <1>4

\* Only competitors are switched.
LEMMA SwitchKept ==
    ASSUME RosterTyped, RowsKept(accounts), NEW us, NEW field, NEW value,
           \/ field \in {"suspended", "exempt", "web"} /\ value \in BOOLEAN
           \/ field = "team" /\ value \in Nat,
           \A u \in us \cap DOMAIN accounts : accounts[u].role = "competitor",
           NEW f, f = People!Switched(us, field, value), NEW e, e.accounts = f,
           e.teams = teams, e.pw = passwords, e.creds = <<>>
    PROVE  EffectKept(e)
<1>1. /\ f = [u \in DOMAIN accounts |->
                IF u \in us THEN [accounts[u] EXCEPT ![field] = value] ELSE accounts[u]]
      /\ DOMAIN accounts \subseteq Nat /\ \A u \in DOMAIN accounts : accounts[u] \in Account
  BY DEF RosterTyped, IsAccounts, People!Switched
<1>2. \A u \in DOMAIN accounts : f[u] \in Account /\ f[u].pw = accounts[u].pw
  <2> SUFFICES ASSUME NEW u \in DOMAIN accounts
               PROVE  f[u] \in Account /\ f[u].pw = accounts[u].pw
    OBVIOUS
  <2>1. CASE u \in us
    <3>1. f[u] = [accounts[u] EXCEPT ![field] = value]
      BY <1>1, <2>1
    <3> DEFINE r == accounts[u]
    <3>2. r \in Account
      BY <1>1
    <3> HIDE DEF r
    <3>3. [r EXCEPT ![field] = value] \in Account /\ [r EXCEPT ![field] = value].pw = r.pw
      BY <3>2, FieldTyped
    <3> QED
      BY <3>1, <3>3 DEF r
  <2>2. CASE u \notin us
    BY <1>1, <2>2
  <2> QED
    BY <2>1, <2>2
<1>3. \A u \in Admins : u \in DOMAIN accounts /\ f[u] = accounts[u]
  BY <1>1 DEF RowsKept, AdminRow
<1>4. DOMAIN f = DOMAIN accounts /\ IsAccounts(f)
  BY <1>1, <1>2 DEF IsAccounts
<1>5. RowsKept(f)
  BY <1>3, <1>4 DEF RowsKept
<1> QED
  BY <1>2, <1>4, <1>5, SilentKept DEF RosterTyped

\* Only competitors are deleted.
LEMMA DeleteKept ==
    ASSUME RosterTyped, RowsKept(accounts), NEW us,
           \A u \in us \cap DOMAIN accounts : accounts[u].role = "competitor",
           NEW f, f = People!Without(accounts, us), NEW e, e.accounts = f,
           e.teams = teams, e.pw = passwords, e.creds = <<>>
    PROVE  EffectKept(e)
<1>1. /\ DOMAIN f = DOMAIN accounts \ us /\ \A u \in DOMAIN f : f[u] = accounts[u]
      /\ f = [u \in DOMAIN f |-> f[u]]
  BY DEF People!Without
<1>2. IsAccounts(f)
  BY <1>1 DEF RosterTyped, IsAccounts
<1>3. RowsKept(f)
  BY <1>1 DEF RowsKept, AdminRow
<1> QED
  BY <1>1, <1>2, <1>3, SilentKept DEF RosterTyped

LEMMA DropKept ==
    ASSUME RosterTyped, RowsKept(accounts), NEW op
    PROVE  EffectKept(People!dropEffect(op))
<1> DEFINE e == People!dropEffect(op)
           f == [u \in DOMAIN accounts |->
                   IF accounts[u].team = op.team THEN [accounts[u] EXCEPT !.team = 0] ELSE accounts[u]]
<1>1. e.accounts = f /\ e.teams = teams \ {op.team} /\ e.pw = passwords /\ e.creds = <<>>
  BY DEF People!dropEffect, People!Same, People!Outcome
<1>2. DOMAIN accounts \subseteq Nat /\ \A u \in DOMAIN accounts : accounts[u] \in Account
  BY DEF RosterTyped, IsAccounts
<1>3. \A r \in Account : LET q == [r EXCEPT !.team = 0]
                         IN  q \in Account /\ q.pw = r.pw /\ (r.team = 0 => q = r)
  BY DEF Account
<1>4. \A u \in DOMAIN accounts : f[u] \in Account /\ f[u].pw = accounts[u].pw
  BY <1>2, <1>3
<1>5. \A u \in Admins : u \in DOMAIN accounts /\ f[u] = accounts[u]
  BY <1>2, <1>3 DEF RowsKept, AdminRow
<1>6. DOMAIN f = DOMAIN accounts /\ IsAccounts(f)
  BY <1>2, <1>4 DEF IsAccounts
<1> HIDE DEF f, e
<1>7. RowsKept(f)
  BY <1>5, <1>6 DEF RowsKept
<1>8. EffectKept(e)
  BY <1>1, <1>4, <1>6, <1>7, SilentKept DEF RosterTyped
<1> QED
  BY <1>8 DEF e

\* A password is set anew, never that of another admin.
LEMMA ResetKept ==
    ASSUME RosterTyped, RowsKept(accounts), NEW u \in DOMAIN accounts, u \notin OtherAdmins
    PROVE  EffectKept(People!resetEffect(u))
<1> DEFINE e == People!resetEffect(u)
           f == [accounts EXCEPT ![u].pw = passwords + 1]
           new == [user |-> u, pw |-> passwords + 1]
<1>1. e.accounts = f /\ e.teams = teams /\ e.pw = passwords + 1 /\ e.creds = <<new>>
  BY DEF People!resetEffect, People!Outcome
<1>2. /\ DOMAIN accounts \subseteq Nat /\ passwords \in Nat
      /\ \A x \in DOMAIN accounts : accounts[x] \in Account
      /\ accounts = [x \in DOMAIN accounts |-> accounts[x]]
  BY DEF RosterTyped, IsAccounts
<1> DEFINE q == [accounts[u] EXCEPT !.pw = passwords + 1]
<1>3. /\ q \in Account /\ q.pw = passwords + 1 /\ (AdminRow(accounts[u]) => AdminRow(q))
  BY <1>2 DEF Account, AdminRow
<1>4. /\ DOMAIN f = DOMAIN accounts /\ f[u] = q /\ f = [x \in DOMAIN f |-> f[x]]
      /\ \A x \in DOMAIN accounts \ {u} : f[x] = accounts[x]
  BY <1>2
<1> HIDE DEF f, q, e
<1>5. IsAccounts(f)
  BY <1>2, <1>3, <1>4 DEF IsAccounts
<1>6. RowsKept(f)
  BY <1>3, <1>4 DEF RowsKept, Admins
<1>7. new \in Credential /\ new.user = u /\ new.pw = passwords + 1
  BY <1>2 DEF Credential
<1> HIDE DEF new
<1>8. <<new>> \in Seq(Credential) /\ DOMAIN <<new>> = {1} /\ <<new>>[1] = new
  BY <1>7
<1>9. EffectKept(e)
  <2>1. CredsRight(e.accounts, e.creds)
    BY <1>1, <1>3, <1>4, <1>7, <1>8 DEF CredsRight
  <2>2. \A x \in DOMAIN f : \/ \E k \in DOMAIN e.creds : e.creds[k].user = x
                            \/ x \in DOMAIN accounts /\ f[x].pw = accounts[x].pw
    BY <1>1, <1>4, <1>7, <1>8
  <2>3. e.teams \subseteq Nat /\ e.pw \in Nat
    BY <1>1 DEF RosterTyped
  <2> QED
    BY <1>1, <1>5, <1>6, <1>8, <2>1, <2>2, <2>3 DEF EffectKept
<1> QED
  BY <1>9 DEF e

LEMMA ImportedKept ==
    ASSUME RosterTyped, RowsKept(accounts), NEW e, Imported(e)
    PROVE  EffectKept(e)
  BY DEF Imported, EffectKept, RowsKept

LEMMA BulkKept ==
    ASSUME RosterTyped, RowsKept(accounts), NEW op, op.kind \in BulkKinds, op.on \in BOOLEAN
    PROVE  EffectKept(People!bulkEffect(op))
<1> DEFINE us == People!bulkTargets(op.users)
           e == People!bulkEffect(op)
           field == CASE op.kind = "bulk suspend" -> "suspended"
                      [] op.kind = "bulk exempt"  -> "exempt"
                      [] OTHER                    -> "web"
<1>1. \A u \in us \cap DOMAIN accounts : accounts[u].role = "competitor"
  BY DEF People!bulkTargets
<1>2. e = IF op.users \ {Self} = {} THEN People!refused
          ELSE IF op.kind = "bulk delete" THEN [People!Same EXCEPT !.accounts = People!Without(accounts, us)]
          ELSE [People!Same EXCEPT !.accounts = People!Switched(us, field, op.on)]
  BY DEF People!bulkEffect
<1>3. field \in {"suspended", "exempt", "web"}
  OBVIOUS
<1> HIDE DEF us, e, field
<1>4. ASSUME NEW f, e = [People!Same EXCEPT !.accounts = f]
      PROVE  e.accounts = f /\ e.teams = teams /\ e.pw = passwords /\ e.creds = <<>>
  BY <1>4 DEF People!Same, People!Outcome
<1>5. CASE op.users \ {Self} = {}
  BY <1>2, <1>5, RefusedKept DEF e
<1>6. CASE ~(op.users \ {Self} = {}) /\ op.kind = "bulk delete"
  <2>1. e = [People!Same EXCEPT !.accounts = People!Without(accounts, us)]
    BY <1>2, <1>6
  <2>2. e.accounts = People!Without(accounts, us) /\ e.teams = teams /\ e.pw = passwords /\ e.creds = <<>>
    BY <1>4, <2>1
  <2>3. EffectKept(e)
    BY <1>1, <2>2, DeleteKept
  <2> QED
    BY <2>3 DEF e
<1>7. CASE ~(op.users \ {Self} = {}) /\ op.kind # "bulk delete"
  <2>1. e = [People!Same EXCEPT !.accounts = People!Switched(us, field, op.on)]
    BY <1>2, <1>7
  <2> DEFINE f == People!Switched(us, field, op.on)
  <2> HIDE DEF f
  <2>2. e.accounts = f /\ e.teams = teams /\ e.pw = passwords /\ e.creds = <<>>
    BY <1>4, <2>1 DEF f
  <2>3. EffectKept(e)
    BY <1>1, <1>3, <2>2, SwitchKept DEF f
  <2> QED
    BY <2>3 DEF e
<1> QED
  BY <1>5, <1>6, <1>7

LEMMA OneKept ==
    ASSUME RosterTyped, RowsKept(accounts), NEW op, OpAimed(op), op.kind \in SingleKinds,
           People!allowed(op)
    PROVE  EffectKept(People!oneEffect(op))
<1> DEFINE one == CHOOSE x \in op.users : TRUE
           e == People!oneEffect(op)
<1>1. PICK u \in Nat : op.users = {u} /\ (op.kind = "reset" => u \notin OtherAdmins)
  BY DEF OpAimed
<1>2. one = u
  BY <1>1
<1>3. /\ u \in DOMAIN accounts
      /\ op.kind # "reset" => \A x \in op.users \cap DOMAIN accounts : accounts[x].role = "competitor"
  BY <1>1 DEF People!allowed
<1>4. op.kind \in {"reset", "delete", "suspend", "addMember", "removeMember", "exempt", "web"}
      /\ op.on \in BOOLEAN /\ op.team \in Nat /\ Switches \subseteq {"exempt", "web"}
  BY RosterAssumption DEF SingleKinds, People!RosterConstants, OpAimed
<1>5. ASSUME NEW f, e = [People!Same EXCEPT !.accounts = f]
      PROVE  e.accounts = f /\ e.teams = teams /\ e.pw = passwords /\ e.creds = <<>>
  BY <1>5 DEF People!Same, People!Outcome
<1>6. e = CASE op.kind = "reset" -> People!resetEffect(u)
            [] op.kind = "delete" -> [People!Same EXCEPT !.accounts = People!Without(accounts, op.users)]
            [] op.kind = "suspend" ->
                 [People!Same EXCEPT !.accounts = People!Switched(op.users, "suspended", op.on)]
            [] op.kind \in Switches ->
                 [People!Same EXCEPT !.accounts = People!Switched(op.users, op.kind, op.on)]
            [] op.kind = "removeMember" ->
                 [People!Same EXCEPT !.accounts = People!Switched(op.users, "team", 0)]
            [] op.kind = "addMember" -> People!addEffect(u, op.team)
  BY <1>2, Zenon DEF People!oneEffect
<1> HIDE DEF one, e
<1>7. CASE op.kind = "reset"
  <2>1. e = People!resetEffect(u)
    BY <1>4, <1>6, <1>7
  <2> QED
    BY <1>1, <1>3, <1>7, <2>1, ResetKept DEF e
<1>8. CASE op.kind = "delete"
  <2>1. e = [People!Same EXCEPT !.accounts = People!Without(accounts, op.users)]
    BY <1>4, <1>6, <1>8
  <2>2. \A x \in op.users \cap DOMAIN accounts : accounts[x].role = "competitor"
    BY <1>3, <1>8
  <2>3. e.accounts = People!Without(accounts, op.users) /\ e.teams = teams /\ e.pw = passwords /\ e.creds = <<>>
    BY <1>5, <2>1
  <2>4. EffectKept(e)
    BY <2>2, <2>3, DeleteKept
  <2> QED
    BY <2>4 DEF e
<1>9. CASE op.kind = "suspend"
  <2>1. e = [People!Same EXCEPT !.accounts = People!Switched(op.users, "suspended", op.on)]
    BY <1>4, <1>6, <1>9
  <2> DEFINE f == People!Switched(op.users, "suspended", op.on)
  <2> HIDE DEF f
  <2>2. \A x \in op.users \cap DOMAIN accounts : accounts[x].role = "competitor"
    BY <1>3, <1>9
  <2>3. e.accounts = f /\ e.teams = teams /\ e.pw = passwords /\ e.creds = <<>>
    BY <1>5, <2>1 DEF f
  <2>4. EffectKept(e)
    BY <1>4, <2>2, <2>3, SwitchKept DEF f
  <2> QED
    BY <2>4 DEF e
<1>10. CASE op.kind \in Switches
  <2>1. e = [People!Same EXCEPT !.accounts = People!Switched(op.users, op.kind, op.on)]
    BY <1>4, <1>6, <1>10
  <2> DEFINE f == People!Switched(op.users, op.kind, op.on)
  <2> HIDE DEF f
  <2>2. \A x \in op.users \cap DOMAIN accounts : accounts[x].role = "competitor"
    BY <1>3, <1>4, <1>10, RosterAssumption DEF People!RosterConstants
  <2>3. e.accounts = f /\ e.teams = teams /\ e.pw = passwords /\ e.creds = <<>>
    BY <1>5, <2>1 DEF f
  <2>4. EffectKept(e)
    BY <1>4, <1>10, <2>2, <2>3, SwitchKept DEF f
  <2> QED
    BY <2>4 DEF e
<1>11. CASE op.kind = "removeMember"
  <2>1. e = [People!Same EXCEPT !.accounts = People!Switched(op.users, "team", 0)]
    BY <1>4, <1>6, <1>11
  <2> DEFINE f == People!Switched(op.users, "team", 0)
  <2> HIDE DEF f
  <2>2. \A x \in op.users \cap DOMAIN accounts : accounts[x].role = "competitor"
    BY <1>3, <1>11
  <2>3. e.accounts = f /\ e.teams = teams /\ e.pw = passwords /\ e.creds = <<>>
    BY <1>5, <2>1 DEF f
  <2>4. EffectKept(e)
    BY <1>4, <2>2, <2>3, SwitchKept DEF f
  <2> QED
    BY <2>4 DEF e
<1>12. CASE op.kind = "addMember"
  <2>1. e = People!addEffect(u, op.team)
    BY <1>4, <1>6, <1>12
  <2>2. e = People!refused \/ e = [People!Same EXCEPT !.accounts = People!Switched({u}, "team", op.team)]
    BY <2>1 DEF People!addEffect
  <2> DEFINE f == People!Switched({u}, "team", op.team)
  <2> HIDE DEF f
  <2>3. CASE e = [People!Same EXCEPT !.accounts = f]
    <3>1. e.accounts = f /\ e.teams = teams /\ e.pw = passwords /\ e.creds = <<>>
      BY <1>5, <2>3
    <3>2. \A x \in {u} \cap DOMAIN accounts : accounts[x].role = "competitor"
      BY <1>1, <1>3, <1>12
    <3>3. EffectKept(e)
      BY <1>4, <3>1, <3>2, SwitchKept DEF f
    <3> QED
      BY <3>3 DEF e
  <2>4. CASE e = People!refused
    BY <2>4, RefusedKept DEF e
  <2> QED
    BY <2>2, <2>3, <2>4 DEF f
<1> QED
  BY <1>7, <1>8, <1>9, <1>10, <1>11, <1>12 DEF SingleKinds

LEMMA EffectSafe ==
    ASSUME RosterTyped, RowsKept(accounts), NEW op, OpAimed(op)
    PROVE  EffectKept(People!Effect(op))
<1> DEFINE first == [accounts |-> accounts, teams |-> teams, pw |-> passwords,
                     creds |-> <<>>, failed |-> 0, seen |-> {}]
           e == People!Effect(op)
<1>1. e = CASE op.kind \in {"users", "teams"} -> People!createAll(op.kind, first, op.items)
            [] op.kind = "dropTeam" -> People!dropEffect(op)
            [] op.kind \in {"bulk suspend", "bulk exempt", "bulk web", "bulk delete"} -> People!bulkEffect(op)
            [] OTHER -> IF People!allowed(op) THEN People!oneEffect(op) ELSE People!refused
  BY Zenon DEF People!Effect
<1>2. op.kind \in SingleKinds => op.kind \in {"reset", "delete", "suspend", "addMember", "removeMember", "exempt", "web"}
  BY RosterAssumption DEF SingleKinds, People!RosterConstants
<1>3. op.kind \in SingleKinds \/ op.kind \in BulkKinds \/ op.kind \in {"users", "teams"} \/ op.kind = "dropTeam"
  BY DEF OpAimed
<1> HIDE DEF e, first
<1>4. CASE op.kind \in {"users", "teams"}
  <2>1. e = People!createAll(op.kind, first, op.items)
    BY <1>1, <1>4
  <2>2. Imported(e)
    BY <2>1, ImportKeeps DEF first, RosterTyped, OpAimed
  <2> QED
    BY <2>2, ImportedKept DEF e
<1>5. CASE op.kind = "dropTeam"
  <2>1. e = People!dropEffect(op)
    BY <1>1, <1>5
  <2> QED
    BY <2>1, DropKept DEF e
<1>6. CASE op.kind \in BulkKinds
  <2>1. e = People!bulkEffect(op)
    BY <1>1, <1>6 DEF BulkKinds
  <2> QED
    BY <1>6, <2>1, BulkKept DEF e, OpAimed
<1>7. CASE op.kind \in SingleKinds
  <2>1. e = IF People!allowed(op) THEN People!oneEffect(op) ELSE People!refused
    <3>1. /\ op.kind \notin {"users", "teams"} /\ op.kind # "dropTeam"
          /\ op.kind \notin {"bulk suspend", "bulk exempt", "bulk web", "bulk delete"}
      BY <1>2, <1>7
    <3> QED
      BY <1>1, <3>1
  <2> QED
    BY <1>7, <2>1, OneKept, RefusedKept DEF e
<1> QED
  BY <1>3, <1>4, <1>5, <1>6, <1>7

-----------------------------------------------------------------------------
(* Every step of the pages of users and teams.                             *)

\* What is at stake when the accounts, what is listed or the credentials shown change.
RosterSafe == RosterTyped /\ AdminsListed /\ RowsKept(accounts) /\ People!NewestCredentialWorks

LEMMA RosterInvIs == RosterInv <=> RosterSafe /\ RequestsAimed
  BY KeptIs DEF RosterInv, RosterSafe, RosterHolds, RosterTyped

LEMMA RosterInvNext == RosterInv' <=> RosterSafe' /\ RequestsAimed'
  BY RosterInvIs, PTL

\* Steps that leave all of that alone.
LEMMA RosterRestKeeps ==
    ASSUME RosterSafe, UNCHANGED <<accounts, teams, passwords, listed, creds, unsure>>,
           importFile' \in DOMAIN Imports
    PROVE  RosterSafe'
  BY DEF RosterSafe, RosterTyped, AdminsListed, RowsKept, People!NewestCredentialWorks,
         IsAccounts, AdminRow

\* The requests a row's buttons ask for.
LEMMA AskRowSafe ==
    ASSUME RosterInv, NEW u \in DOMAIN listed.accounts,
           NEW kind \in {"reset", "delete", "suspend", "team"} \cup Switches, People!AskRow(u, kind)
    PROVE  RosterInv'
<1> DEFINE c == [kind |-> kind, user |-> u, row |-> listed.accounts[u]]
<1>1. /\ People!rowOffers(u, kind) /\ confirm' = <<c>>
      /\ UNCHANGED <<accounts, teams, passwords, listed, creds, unsure, pending, importFile>>
  BY DEF People!AskRow, People!dataVars, People!importVars
<1>2. u \in Nat /\ listed.accounts[u] \in Account
  BY DEF RosterInv, RosterTyped, IsAccounts
<1>3. kind = "reset" => u \notin OtherAdmins
  <2> SUFFICES ASSUME kind = "reset", u \in OtherAdmins PROVE FALSE
    OBVIOUS
  <2>1. listed.accounts[u].role # "admin" \/ u = Self
    BY <1>1 DEF People!rowOffers
  <2> QED
    BY <2>1, RosterAssumption DEF RosterInv, AdminsListed, People!RosterConstants
<1>4. DialogAimed(c)
  BY <1>2, <1>3 DEF DialogAimed
<1> HIDE DEF c
<1>5. RequestsAimed'
  BY <1>1, <1>4 DEF RosterInv, RequestsAimed, OpAimed, DialogAimed
<1>6. RosterSafe /\ importFile' \in DOMAIN Imports
  BY <1>1, RosterInvIs DEF RosterSafe, RosterTyped
<1>7. RosterSafe'
  BY <1>1, <1>6, RosterRestKeeps
<1> QED
  BY <1>5, <1>7, RosterInvNext

LEMMA QuietSafe ==
    ASSUME RosterInv, UNCHANGED <<accounts, teams, passwords, listed, creds, unsure>>,
           importFile' \in DOMAIN Imports, RequestsAimed'
    PROVE  RosterInv'
<1>1. RosterSafe
  BY RosterInvIs
<1>2. RosterSafe'
  BY <1>1, RosterRestKeeps
<1> QED
  BY <1>2, RosterInvNext

LEMMA FileThere == RosterInv => importFile \in DOMAIN Imports
  BY DEF RosterInv, RosterTyped

\* A request about one user.
LEMMA SingleAimed ==
    ASSUME NEW kind \in SingleKinds, NEW u \in Nat, kind = "reset" => u \notin OtherAdmins,
           NEW on \in BOOLEAN, NEW t \in Nat, NEW op, op = People!Op(kind, {u}, on, t, <<>>)
    PROVE  OpAimed(op)
<1>1. /\ DOMAIN op = {"kind", "users", "on", "team", "items"}
      /\ op.kind = kind /\ op.users = {u} /\ op.on = on /\ op.team = t /\ op.items = <<>>
  BY DEF People!Op
<1>2. <<>> \in Seq(Item)
  OBVIOUS
<1>3. kind # "users"
  BY RosterAssumption DEF SingleKinds, People!RosterConstants
<1> QED
  BY <1>1, <1>2, <1>3 DEF OpAimed

\* One about none, or about those who are selected.
LEMMA OtherAimed ==
    ASSUME NEW kind \in BulkKinds \cup {"dropTeam"}, NEW us \in SUBSET Nat, NEW on \in BOOLEAN,
           NEW t \in Nat, NEW op, op = People!Op(kind, us, on, t, <<>>)
    PROVE  OpAimed(op)
<1>1. /\ DOMAIN op = {"kind", "users", "on", "team", "items"}
      /\ op.kind = kind /\ op.users = us /\ op.on = on /\ op.team = t /\ op.items = <<>>
  BY DEF People!Op
<1>2. <<>> \in Seq(Item)
  OBVIOUS
<1>3. kind \notin SingleKinds /\ kind # "users"
  BY RosterAssumption DEF SingleKinds, BulkKinds, People!RosterConstants
<1> QED
  BY <1>1, <1>2, <1>3 DEF OpAimed

\* A request that is aimed well is sent.
LEMMA SendSafe ==
    ASSUME RosterInv, NEW op, OpAimed(op), People!Send(op),
           UNCHANGED <<accounts, teams, passwords, listed, creds, unsure, importFile>>,
           confirm' = confirm \/ confirm' = <<>>
    PROVE  RosterInv'
<1>1. pending' = <<op>>
  BY DEF People!Send
<1>2. RequestsAimed'
  <2>1. OpAimed(pending'[1])
    BY <1>1
  <2>2. confirm' # <<>> => DialogAimed(confirm'[1])
    BY DEF RosterInv, RequestsAimed
  <2> QED
    BY <2>1, <2>2 DEF RequestsAimed, OpAimed, DialogAimed
<1> QED
  BY <1>2, FileThere, QuietSafe

LEMMA RevokeSafe ==
    ASSUME RosterInv, NEW u \in DOMAIN listed.accounts, NEW kind, People!Revoke(u, kind)
    PROVE  RosterInv'
<1> DEFINE op == People!Op(kind, {u}, FALSE, 0, <<>>)
<1>1. /\ kind \in Switches /\ People!Send(op)
      /\ UNCHANGED <<accounts, teams, passwords, listed, creds, unsure, importFile, confirm>>
  BY DEF People!Revoke, People!dataVars, People!importVars
<1>2. u \in Nat /\ kind \in SingleKinds /\ kind # "reset"
  BY <1>1, RosterAssumption
     DEF RosterInv, RosterTyped, IsAccounts, SingleKinds, People!RosterConstants
<1>3. OpAimed(op)
  BY <1>2, SingleAimed
<1> HIDE DEF op
<1> QED
  BY <1>1, <1>3, SendSafe

LEMMA ConfirmSafe ==
    ASSUME RosterInv, People!Confirm
    PROVE  RosterInv'
<1> DEFINE c == confirm[1]
<1>1. /\ CASE c.kind = "suspend" -> People!Send(People!Op("suspend", {c.user}, ~c.row.suspended, 0, <<>>))
           [] c.kind = "team"    -> People!assignTeam(c)
           [] OTHER              -> People!Send(People!Op(c.kind, {c.user}, TRUE, 0, <<>>))
      /\ UNCHANGED <<accounts, teams, passwords, listed, creds, unsure, importFile>>
      /\ confirm' = confirm \/ confirm' = <<>>
  BY DEF People!Confirm, People!dataVars, People!importVars
<1>2. confirm # <<>>
  BY DEF People!Confirm
<1>3. /\ c.row \in Account /\ c.user \in Nat
      /\ c.kind \in {"reset", "delete", "suspend", "team"} \cup Switches
      /\ c.kind = "reset" => c.user \notin OtherAdmins
  BY <1>2 DEF RosterInv, RequestsAimed, DialogAimed
<1>4. (~ c.row.suspended) \in BOOLEAN
  BY Zenon
<1> HIDE DEF c
<1>5. CASE c.kind = "suspend"
  <2> DEFINE op == People!Op("suspend", {c.user}, ~c.row.suspended, 0, <<>>)
  <2>1. People!Send(op)
    BY <1>1, <1>5
  <2>2. OpAimed(op)
    <3>1. "suspend" \in SingleKinds /\ "suspend" # "reset" /\ 0 \in Nat
      BY DEF SingleKinds
    <3> QED
      BY <1>3, <1>4, <3>1, SingleAimed
  <2> HIDE DEF op
  <2> QED
    BY <1>1, <2>1, <2>2, SendSafe
<1>6. CASE c.kind = "team"
  <2>1. People!assignTeam(c)
    BY <1>1, <1>6
  <2>2. PICK t \in listed.teams \ {c.row.team} :
          People!Send(People!Op(IF c.row.team = 0 THEN "addMember" ELSE "removeMember", {c.user}, TRUE, t, <<>>))
    BY <2>1, Zenon DEF People!assignTeam
  <2> DEFINE kind == IF c.row.team = 0 THEN "addMember" ELSE "removeMember"
             op == People!Op(kind, {c.user}, TRUE, t, <<>>)
  <2>3. OpAimed(op)
    <3>1. kind \in SingleKinds /\ kind # "reset"
      BY DEF SingleKinds
    <3>2. t \in Nat
      BY DEF RosterInv, RosterTyped
    <3> HIDE DEF kind
    <3> QED
      BY <1>3, <3>1, <3>2, SingleAimed
  <2>4. People!Send(op)
    BY <2>2
  <2> HIDE DEF op
  <2> QED
    BY <1>1, <2>3, <2>4, SendSafe
<1>7. CASE c.kind \notin {"suspend", "team"}
  <2> DEFINE op == People!Op(c.kind, {c.user}, TRUE, 0, <<>>)
  <2>1. People!Send(op)
    BY <1>1, <1>7
  <2>2. OpAimed(op)
    <3>1. c.kind \in SingleKinds /\ 0 \in Nat /\ TRUE \in BOOLEAN
      BY <1>3, <1>7 DEF SingleKinds
    <3> QED
      BY <1>3, <3>1, SingleAimed
  <2> HIDE DEF op
  <2> QED
    BY <1>1, <2>1, <2>2, SendSafe
<1> QED
  BY <1>5, <1>6, <1>7

LEMMA BulkSafe ==
    ASSUME RosterInv, NEW kind \in {"suspend", "delete"} \cup Switches, NEW on \in BOOLEAN,
           People!Bulk(kind, on)
    PROVE  RosterInv'
<1>1. /\ \E us \in People!selections : People!Send(People!Op(People!bulkKind[kind], us, on, 0, <<>>))
      /\ UNCHANGED <<accounts, teams, passwords, listed, creds, unsure, importFile, confirm>>
  BY DEF People!Bulk, People!dataVars, People!importVars
<1>2. PICK us \in People!selections : People!Send(People!Op(People!bulkKind[kind], us, on, 0, <<>>))
  BY <1>1
<1>3. us \in SUBSET Nat
  <2>1. us \subseteq DOMAIN listed.accounts
    BY DEF People!selections, People!filteredUsers
  <2> QED
    BY <2>1 DEF RosterInv, RosterTyped, IsAccounts
<1> DEFINE bulk == People!bulkKind[kind]
           op == People!Op(bulk, us, on, 0, <<>>)
<1>4. bulk \in BulkKinds
  <2>1. kind \in {"suspend", "delete", "exempt", "web"}
    BY RosterAssumption DEF People!RosterConstants
  <2>2. /\ People!bulkKind["suspend"] = "bulk suspend" /\ People!bulkKind["delete"] = "bulk delete"
        /\ People!bulkKind["exempt"] = "bulk exempt" /\ People!bulkKind["web"] = "bulk web"
    BY DEF People!bulkKind
  <2> QED
    BY <2>1, <2>2 DEF BulkKinds
<1>5. People!Send(op)
  BY <1>2
<1> HIDE DEF bulk
<1>6. OpAimed(op)
  BY <1>3, <1>4, OtherAimed
<1> HIDE DEF op
<1> QED
  BY <1>1, <1>5, <1>6, SendSafe

LEMMA TeamButtonSafe ==
    ASSUME RosterInv, People!TeamButton
    PROVE  RosterInv'
<1>1. UNCHANGED <<accounts, teams, passwords, listed, creds, unsure, importFile, confirm>>
  BY DEF People!TeamButton, People!dataVars, People!importVars
<1>2. listed.teams \subseteq Nat /\ DOMAIN listed.accounts \subseteq Nat
  BY DEF RosterInv, RosterTyped, IsAccounts
<1>3. {"addMember", "removeMember"} \subseteq SingleKinds
  BY DEF SingleKinds
<1>4. ASSUME NEW t \in listed.teams, People!dropTeam(t) PROVE RosterInv'
  <2> DEFINE op == People!Op("dropTeam", {}, TRUE, t, <<>>)
  <2>1. People!Send(op)
    BY <1>4 DEF People!dropTeam
  <2>2. OpAimed(op)
    BY <1>2, OtherAimed
  <2> HIDE DEF op
  <2> QED
    BY <1>1, <2>1, <2>2, SendSafe
<1>5. ASSUME NEW u \in DOMAIN listed.accounts, People!removeMember(u) PROVE RosterInv'
  <2> DEFINE op == People!Op("removeMember", {u}, TRUE, 0, <<>>)
  <2>1. People!Send(op)
    BY <1>5 DEF People!removeMember
  <2>2. OpAimed(op)
    BY <1>2, <1>3, SingleAimed
  <2> HIDE DEF op
  <2> QED
    BY <1>1, <2>1, <2>2, SendSafe
<1>6. ASSUME NEW u \in DOMAIN listed.accounts, NEW t \in listed.teams, People!addMember(u, t)
      PROVE  RosterInv'
  <2> DEFINE op == People!Op("addMember", {u}, TRUE, t, <<>>)
  <2>1. People!Send(op)
    BY <1>6 DEF People!addMember
  <2>2. OpAimed(op)
    BY <1>2, <1>3, SingleAimed
  <2> HIDE DEF op
  <2> QED
    BY <1>1, <2>1, <2>2, SendSafe
<1> QED
  BY <1>4, <1>5, <1>6, Zenon DEF People!TeamButton

LEMMA SubmitSafe ==
    ASSUME RosterInv, People!SubmitImport
    PROVE  RosterInv'
<1> DEFINE i == importFile
           items == People!ParsedItems(Imports[i].lines, Imports[i].mode)
           picked == selectedIndices \cap People!validIndices(i, listed.teams)
           sent == People!rowsAt(items, picked)
           kind == IF Imports[i].mode \in {"rows", "single"} THEN "users" ELSE "teams"
           op == People!Op(kind, {}, TRUE, 0, sent)
<1>1. People!Send(op) /\ UNCHANGED <<accounts, teams, passwords, listed, creds, unsure, importFile, confirm>>
  BY DEF People!SubmitImport, People!dataVars, People!importMode, People!parsedItems
<1>2. i \in DOMAIN Imports
  BY FileThere
<1>3. /\ items \in Seq(Item)
      /\ kind = "users" => \A k \in DOMAIN items : items[k].users # <<>>
  BY <1>2, ItemsParsed
<1>4. picked \in SUBSET DOMAIN items
  BY DEF People!validIndices
<1> HIDE DEF items, picked
<1>5. /\ sent \in Seq(Item)
      /\ \A k \in DOMAIN sent : \E n \in picked : sent[k] = items[n]
  BY <1>3, <1>4, RowsAtAreRows, RosterRows
<1> HIDE DEF sent
<1>6. OpAimed(op)
  <2>1. /\ DOMAIN op = {"kind", "users", "on", "team", "items"}
        /\ op.kind = kind /\ op.users = {} /\ op.on = TRUE /\ op.team = 0 /\ op.items = sent
    BY DEF People!Op
  <2>2. kind \in {"users", "teams"} /\ kind \notin SingleKinds
    BY RosterAssumption DEF SingleKinds, People!RosterConstants
  <2>3. kind = "users" => \A k \in DOMAIN sent : sent[k].users # <<>>
    BY <1>3, <1>4, <1>5
  <2> HIDE DEF op, kind
  <2>4. op.kind \in SingleKinds \cup BulkKinds \cup {"users", "teams", "dropTeam"}
    BY <2>1, <2>2
  <2>5. op.users \subseteq Nat /\ op.on \in BOOLEAN /\ op.team \in Nat
    <3>1. op.team \in Nat /\ op.users \subseteq Nat
      BY <2>1, SMT
    <3>2. op.on \in BOOLEAN
      BY <2>1, Zenon
    <3> QED
      BY <3>1, <3>2
  <2>6. /\ op.items \in Seq(Item)
        /\ op.kind = "users" => \A k \in DOMAIN op.items : op.items[k].users # <<>>
    BY <1>5, <2>1, <2>3
  <2>7. op.kind \notin SingleKinds
    BY <2>1, <2>2
  <2> QED
    BY <2>1, <2>4, <2>5, <2>6, <2>7, Zenon DEF OpAimed
<1> HIDE DEF op
<1> QED
  BY <1>1, <1>6, SendSafe

\* The panels, the dialogs' Cancel and the Refresh button.
LEMMA PanelsSafe ==
    ASSUME RosterInv, \/ People!CancelDialog \/ People!OpenImport \/ People!ToggleItem
                      \/ People!CloseImport \/ People!Refresh \/ People!LoadFails
    PROVE  RosterInv'
<1>1. UNCHANGED <<accounts, teams, passwords, listed, creds, unsure, pending>>
  BY DEF People!CancelDialog, People!OpenImport, People!ToggleItem, People!CloseImport,
         People!Refresh, People!LoadFails, People!dataVars, People!importVars
<1>2. confirm' = confirm \/ confirm' = <<>>
  BY DEF People!CancelDialog, People!OpenImport, People!ToggleItem, People!CloseImport,
         People!Refresh, People!LoadFails
<1>3. importFile' \in DOMAIN Imports
  BY FileThere, RosterAssumption
     DEF People!CancelDialog, People!OpenImport, People!ToggleItem, People!CloseImport,
         People!Refresh, People!LoadFails, People!importVars, People!RosterConstants
<1>4. RequestsAimed'
  <2>1. confirm' # <<>> => DialogAimed(confirm'[1])
    BY <1>2 DEF RosterInv, RequestsAimed
  <2>2. pending' # <<>> => OpAimed(pending'[1])
    BY <1>1 DEF RosterInv, RequestsAimed
  <2> QED
    BY <2>1, <2>2 DEF RequestsAimed, OpAimed, DialogAimed
<1> QED
  BY <1>1, <1>3, <1>4, QuietSafe

\* The credentials are put away, or the lists come back.
LEMMA ShownSafe ==
    ASSUME RosterInv, People!ClearCredentials \/ People!LoadLands
    PROVE  RosterInv'
<1>1. UNCHANGED <<accounts, teams, passwords, unsure, pending, confirm, importFile>>
  BY DEF People!ClearCredentials, People!LoadLands, People!dataVars, People!importVars
<1>2. RequestsAimed'
  BY <1>1 DEF RosterInv, RequestsAimed, OpAimed, DialogAimed
<1>3. RosterSafe
  BY RosterInvIs
<1>4. \/ creds' = creds /\ listed' = [accounts |-> accounts, teams |-> teams]
      \/ creds' = <<>> /\ listed' = listed
  BY DEF People!ClearCredentials, People!LoadLands
<1>5. creds' \in Seq(Credential) /\ People!NewestCredentialWorks'
  <2>1. CASE creds' = creds
    BY <1>1, <1>3, <2>1 DEF RosterSafe, RosterTyped, People!NewestCredentialWorks
  <2>2. CASE creds' = <<>>
    <3>1. <<>> \in Seq(Credential) /\ DOMAIN <<>> = {}
      BY SMT
    <3> QED
      BY <2>2, <3>1 DEF People!NewestCredentialWorks
  <2> QED
    BY <1>4, <2>1, <2>2
<1>6. IsAccounts(listed'.accounts) /\ listed'.teams \subseteq Nat
  BY <1>3, <1>4 DEF RosterSafe, RosterTyped
<1>7. AdminsListed'
  BY <1>3, <1>4 DEF RosterSafe, AdminsListed, RowsKept, AdminRow, Admins
<1>8. RosterSafe'
  BY <1>1, <1>3, <1>5, <1>6, <1>7 DEF RosterSafe, RosterTyped, IsAccounts, RowsKept, AdminRow
<1> QED
  BY <1>2, <1>8, RosterInvNext

\* Another organizer's reset concerns a competitor, whose password the page cannot know.
LEMMA ElsewhereSafe ==
    ASSUME RosterInv, NEW u \in DOMAIN accounts, People!ElsewhereReset(u)
    PROVE  RosterInv'
<1> DEFINE q == [accounts[u] EXCEPT !.pw = passwords + 1]
           f == [accounts EXCEPT ![u].pw = passwords + 1]
<1>1. /\ accounts[u].role = "competitor" /\ accounts' = f /\ passwords' = passwords + 1
      /\ unsure' = unsure \cup {u}
      /\ UNCHANGED <<teams, listed, confirm, pending, creds, importFile>>
  BY DEF People!ElsewhereReset, People!importVars
<1>2. RosterSafe /\ RequestsAimed
  BY RosterInvIs
<1>3. /\ DOMAIN accounts \subseteq Nat /\ passwords \in Nat
      /\ \A x \in DOMAIN accounts : accounts[x] \in Account
      /\ accounts = [x \in DOMAIN accounts |-> accounts[x]]
  BY <1>2 DEF RosterSafe, RosterTyped, IsAccounts
<1>4. q \in Account
  BY <1>3 DEF Account
<1>5. /\ DOMAIN f = DOMAIN accounts /\ f[u] = q /\ f = [x \in DOMAIN f |-> f[x]]
      /\ \A x \in DOMAIN accounts \ {u} : f[x] = accounts[x]
  BY <1>3
<1>6. u \notin Admins
  BY <1>1, <1>2 DEF RosterSafe, RowsKept, AdminRow
<1> HIDE DEF f, q
<1>7. IsAccounts(f) /\ RowsKept(f)
  <2>1. IsAccounts(f)
    BY <1>3, <1>4, <1>5 DEF IsAccounts
  <2>2. RowsKept(f)
    BY <1>2, <1>5, <1>6 DEF RosterSafe, RowsKept
  <2> QED
    BY <2>1, <2>2
<1>8. IsAccounts(accounts)' /\ RowsKept(accounts)'
  BY <1>1, <1>7 DEF IsAccounts, RowsKept, AdminRow
<1>9. People!NewestCredentialWorks'
  BY <1>1, <1>2, <1>5 DEF RosterSafe, People!NewestCredentialWorks
<1>10. RosterTyped' /\ AdminsListed'
  BY <1>1, <1>2, <1>3, <1>8 DEF RosterSafe, RosterTyped, AdminsListed, IsAccounts
<1>11. RosterSafe'
  BY <1>8, <1>9, <1>10 DEF RosterSafe
<1>12. RequestsAimed'
  BY <1>1, <1>2 DEF RequestsAimed, OpAimed, DialogAimed
<1> QED
  BY <1>11, <1>12, RosterInvNext

\* The new credentials go on top of those shown before, and where there is none for an
\* account, its password is the one from before.
LEMMA ShownOnTop ==
    ASSUME RosterTyped, People!NewestCredentialWorks, NEW e, EffectKept(e),
           accounts' = e.accounts, creds' = e.creds \o creds, unsure' = unsure
    PROVE  People!NewestCredentialWorks' /\ creds' \in Seq(Credential)
<1> DEFINE new == e.creds
           f == e.accounts
           all == new \o creds
<1>1. new \in Seq(Credential) /\ creds \in Seq(Credential)
  BY DEF EffectKept, RosterTyped
<1>2. CredsRight(f, new)
  BY DEF EffectKept
<1>3. \A u \in DOMAIN f : \/ \E k \in DOMAIN new : new[k].user = u
                          \/ u \in DOMAIN accounts /\ f[u].pw = accounts[u].pw
  BY DEF EffectKept
<1> DEFINE n == Len(new)
<1> HIDE DEF new, f
<1>4. /\ n \in Nat /\ DOMAIN new = 1..n /\ DOMAIN all = 1..(n + Len(creds)) /\ Len(creds) \in Nat
      /\ DOMAIN creds = 1..Len(creds) /\ all \in Seq(Credential)
      /\ \A k \in 1..n : all[k] = new[k]
      /\ \A k \in 1..Len(creds) : all[n + k] = creds[k]
  BY <1>1
<1> HIDE DEF all, n
<1>5. ASSUME NEW k \in DOMAIN all, all[k].user \in DOMAIN f \ unsure,
             \A j \in 1..(k - 1) : all[j].user # all[k].user
      PROVE  f[all[k].user].pw = all[k].pw
  <2>1. CASE k <= n
    BY <1>2, <1>4, <1>5, <2>1 DEF CredsRight
  <2>2. CASE k > n
    <3> DEFINE i == k - n
               u == all[k].user
    <3>1. i \in 1..Len(creds) /\ k = n + i /\ all[k] = creds[i]
      BY <1>4, <2>2
    <3>2. \A j \in DOMAIN new : new[j].user # u
      BY <1>4, <1>5, <2>2
    <3>3. u \in DOMAIN accounts /\ f[u].pw = accounts[u].pw
      BY <1>3, <1>5, <3>2
    <3>4. ASSUME NEW j \in 1..(i - 1) PROVE creds[j].user # u
      <4> DEFINE m == n + j
      <4>1. m \in 1..(k - 1) /\ j \in 1..Len(creds) /\ all[m] = creds[j]
        BY <1>4, <3>1
      <4> HIDE DEF m
      <4> QED
        BY <1>5, <4>1, Zenon
    <3>5. accounts[u].pw = creds[i].pw
      BY <1>4, <1>5, <3>1, <3>3, <3>4 DEF People!NewestCredentialWorks
    <3> QED
      BY <3>1, <3>3, <3>5
  <2> QED
    BY <1>4, <2>1, <2>2
<1>6. /\ creds' = all /\ accounts' = f
  BY DEF all, new, f
<1> QED
  BY <1>4, <1>5, <1>6 DEF People!NewestCredentialWorks

\* An answer that is lost leaves those it concerned in doubt.
LEMMA LostStaysUnsure ==
    ASSUME RosterTyped, People!NewestCredentialWorks, NEW e, EffectKept(e),
           accounts' = e.accounts, creds' = creds,
           unsure' = unsure \cup {e.creds[k].user : k \in DOMAIN e.creds}
    PROVE  People!NewestCredentialWorks' /\ creds' \in Seq(Credential)
<1> DEFINE f == e.accounts
           touched == {e.creds[k].user : k \in DOMAIN e.creds}
<1>1. \A u \in DOMAIN f : u \in touched \/ (u \in DOMAIN accounts /\ f[u].pw = accounts[u].pw)
  BY DEF EffectKept
<1> HIDE DEF touched, f
<1>2. accounts' = f /\ unsure' = unsure \cup touched
  BY DEF touched, f
<1> QED
  BY <1>1, <1>2 DEF People!NewestCredentialWorks, RosterTyped

\* The second request of a move concerns the same user.
LEMMA MoveAimed ==
    ASSUME NEW op, OpAimed(op), op.kind = "removeMember"
    PROVE  OpAimed([op EXCEPT !.kind = "addMember"])
<1> DEFINE second == [op EXCEPT !.kind = "addMember"]
<1>1. DOMAIN op = {"kind", "users", "on", "team", "items"}
  BY DEF OpAimed
<1>2. /\ DOMAIN second = {"kind", "users", "on", "team", "items"}
      /\ second.kind = "addMember" /\ second.users = op.users /\ second.on = op.on
      /\ second.team = op.team /\ second.items = op.items
  BY <1>1
<1>3. {"addMember", "removeMember"} \subseteq SingleKinds
  BY DEF SingleKinds
<1> HIDE DEF second
<1>4. /\ second.kind \in SingleKinds \cup BulkKinds \cup {"users", "teams", "dropTeam"}
      /\ second.kind # "users" /\ second.kind # "reset"
  BY <1>2, <1>3
<1>5. \E u \in Nat : second.users = {u}
  BY <1>2, <1>3 DEF OpAimed
<1>6. second.users \subseteq Nat /\ second.on \in BOOLEAN /\ second.team \in Nat /\ second.items \in Seq(Item)
  BY <1>2 DEF OpAimed
<1>7. OpAimed(second)
  BY <1>2, <1>4, <1>5, <1>6, Zenon DEF OpAimed
<1> QED
  BY <1>7 DEF second

LEMMA AnsweredSafe ==
    ASSUME RosterInv, People!Answered
    PROVE  RosterInv'
<1> DEFINE op == pending[1]
           e == People!Effect(op)
           touched == {e.creds[k].user : k \in DOMAIN e.creds}
<1>1. /\ pending # <<>> /\ accounts' = e.accounts /\ teams' = e.teams /\ passwords' = e.pw
      /\ UNCHANGED <<listed, importFile>>
      /\ \/ creds' = e.creds \o creds /\ unsure' = unsure
         \/ creds' = creds /\ unsure' = unsure \cup touched
      /\ \/ pending' = <<>>
         \/ op.kind = "removeMember" /\ pending' = <<[op EXCEPT !.kind = "addMember"]>>
      /\ confirm' = confirm \/ confirm' = <<>>
  BY DEF People!Answered, People!credsShown
<1>2. RosterSafe /\ RequestsAimed
  BY RosterInvIs
<1>3. OpAimed(op)
  BY <1>1, <1>2 DEF RequestsAimed
<1>4. EffectKept(e)
  BY <1>2, <1>3, EffectSafe DEF RosterSafe
<1> HIDE DEF op, e
<1>5. RequestsAimed'
  <2>1. pending' # <<>> => OpAimed(pending'[1])
    BY <1>1, <1>3, MoveAimed
  <2>2. confirm' # <<>> => DialogAimed(confirm'[1])
    BY <1>1, <1>2 DEF RequestsAimed
  <2> QED
    BY <2>1, <2>2 DEF RequestsAimed, OpAimed, DialogAimed
<1>6. People!NewestCredentialWorks' /\ creds' \in Seq(Credential)
  BY <1>1, <1>2, <1>4, ShownOnTop, LostStaysUnsure DEF RosterSafe
<1>7. RowsKept(accounts)' /\ IsAccounts(accounts)'
  BY <1>1, <1>4 DEF EffectKept, RowsKept, AdminRow, IsAccounts
<1>8. teams' \subseteq Nat /\ passwords' \in Nat
  BY <1>1, <1>4 DEF EffectKept
<1>9. RosterTyped' /\ AdminsListed'
  BY <1>1, <1>2, <1>6, <1>7, <1>8 DEF RosterSafe, RosterTyped, AdminsListed, IsAccounts
<1>10. RosterSafe'
  BY <1>6, <1>7, <1>9 DEF RosterSafe
<1> QED
  BY <1>5, <1>10, RosterInvNext

-----------------------------------------------------------------------------
(* The beginning, and the two promises.                                    *)

LEMMA RosterStarts ==
    ASSUME People!Init PROVE RosterInv
<1> DEFINE f == [u \in {Self} \cup OtherAdmins \cup DOMAIN Roster |->
                   IF u \in DOMAIN Roster THEN People!Competitor(u, Roster[u], 0) ELSE People!Admin]
<1>1. /\ accounts = f /\ teams = FirstTeams /\ passwords = 0
      /\ listed = [accounts |-> accounts, teams |-> teams]
      /\ confirm = <<>> /\ pending = <<>> /\ creds = <<>> /\ importFile = 1 /\ unsure = {}
  BY DEF People!Init
<1>2. /\ {Self} \cup OtherAdmins \subseteq Nat \ DOMAIN Roster /\ DOMAIN Roster \subseteq Nat
      /\ \A u \in DOMAIN Roster : Roster[u] \in Nat
      /\ FirstTeams \subseteq Nat /\ 1 \in DOMAIN Imports
  BY RosterAssumption DEF People!RosterConstants
<1>3. People!Admin \in Account /\ AdminRow(People!Admin) /\ People!Admin.pw = 0
  <2> DEFINE x == People!Competitor(0, 0, 0)
  <2>1. x \in Account /\ x.role = "competitor" /\ x.team = 0 /\ x.pw = 0
        /\ x.suspended = FALSE /\ x.exempt = FALSE /\ x.web = FALSE
    BY DEF Account, People!Competitor
  <2> HIDE DEF x
  <2> DEFINE y == [x EXCEPT !.role = "admin"]
  <2>2. y \in Account /\ y.role = "admin" /\ y.team = 0 /\ y.pw = 0
        /\ y.suspended = FALSE /\ y.exempt = FALSE /\ y.web = FALSE
    BY <2>1 DEF Account
  <2>3. People!Admin = y
    BY Zenon DEF People!Admin, x
  <2> HIDE DEF y
  <2> QED
    BY <2>2, <2>3 DEF AdminRow
<1> DEFINE people == {Self} \cup OtherAdmins \cup DOMAIN Roster
<1>4. \A u \in people : f[u] \in Account
  <2> SUFFICES ASSUME NEW u \in people PROVE f[u] \in Account
    OBVIOUS
  <2>1. CASE u \in DOMAIN Roster
    <3>1. f[u] = People!Competitor(u, Roster[u], 0)
      BY <2>1
    <3> QED
      BY <1>2, <2>1, <3>1, CompetitorTyped
  <2>2. CASE u \notin DOMAIN Roster
    <3>1. f[u] = People!Admin
      BY <2>2
    <3> QED
      BY <1>3, <3>1
  <2> QED
    BY <2>1, <2>2
<1>5. \A u \in Admins : u \in people /\ f[u] = People!Admin
  BY <1>2 DEF Admins
<1>6. DOMAIN f = people /\ people \subseteq Nat
  BY <1>2
<1>7. f = [u \in DOMAIN f |-> f[u]]
  OBVIOUS
<1> HIDE DEF f, people
<1>8. IsAccounts(f)
  BY <1>4, <1>6, <1>7 DEF IsAccounts
<1>9. RowsKept(f)
  BY <1>3, <1>5, <1>6 DEF RowsKept
<1>10. <<>> \in Seq(Credential) /\ DOMAIN <<>> = {}
  BY SMT
<1>11. RosterTyped /\ RequestsAimed
  BY <1>1, <1>2, <1>8, <1>10 DEF RosterTyped, RequestsAimed
<1>12. AdminsListed
  BY <1>1, <1>9 DEF AdminsListed, RowsKept, AdminRow, Admins
<1>13. People!NewestCredentialWorks
  BY <1>1, <1>10 DEF People!NewestCredentialWorks
<1> QED
  BY <1>1, <1>9, <1>11, <1>12, <1>13, RosterInvIs DEF RosterSafe

LEMMA RosterStep ==
    ASSUME RosterInv, [People!Next]_People!rosterVars PROVE RosterInv'
<1>1. ASSUME NEW u \in DOMAIN listed.accounts,
             NEW kind \in {"reset", "delete", "suspend", "team"} \cup Switches,
             People!AskRow(u, kind) \/ People!Revoke(u, kind)
      PROVE  RosterInv'
  BY <1>1, AskRowSafe, RevokeSafe
<1>2. ASSUME NEW kind \in {"suspend", "delete"} \cup Switches, NEW on \in BOOLEAN, People!Bulk(kind, on)
      PROVE  RosterInv'
  BY <1>2, BulkSafe
<1>3. ASSUME NEW u \in DOMAIN accounts, People!ElsewhereReset(u) PROVE RosterInv'
  BY <1>3, ElsewhereSafe
<1>4. CASE \/ People!Confirm \/ People!TeamButton \/ People!SubmitImport \/ People!Answered
  BY <1>4, ConfirmSafe, TeamButtonSafe, SubmitSafe, AnsweredSafe
<1>5. CASE \/ People!CancelDialog \/ People!OpenImport \/ People!ToggleItem \/ People!CloseImport
           \/ People!Refresh \/ People!LoadFails \/ People!ClearCredentials \/ People!LoadLands
  BY <1>5, PanelsSafe, ShownSafe
<1>6. CASE UNCHANGED People!rosterVars
  <2>1. /\ UNCHANGED <<accounts, teams, passwords, listed, creds, unsure>>
        /\ UNCHANGED <<importFile, pending, confirm>>
    BY <1>6 DEF People!rosterVars, People!dataVars, People!importVars
  <2>2. RequestsAimed'
    BY <2>1 DEF RosterInv, RequestsAimed, OpAimed, DialogAimed
  <2> QED
    BY <2>1, <2>2, FileThere, QuietSafe
<1> QED
  BY <1>1, <1>2, <1>3, <1>4, <1>5, <1>6, Zenon DEF People!Next

\* Accounts, requests and dialogs stay as the pages and the server take them to be: no
\* request resets another admin's password, and the list never shows an admin as a
\* competitor (api/admin_users.go, admin-users.tsx).
THEOREM RosterInvariant == People!Spec => []RosterInv
<1>1. People!Init => RosterInv
  BY RosterStarts
<1>2. RosterInv /\ [People!Next]_People!rosterVars => RosterInv'
  BY RosterStep
<1> QED
  BY <1>1, <1>2, PTL DEF People!Spec

\* Whatever is selected, imported, retried or lost, the admins' accounts stay as they were
\* (bulkUserAction), and the topmost credential shown for an account is its password
\* (setCreds), other organizers' resets and lost answers apart.
THEOREM AccountsHold == People!Spec => []RosterHolds
<1>1. RosterInv => RosterHolds
  BY DEF RosterInv
<1> QED
  BY <1>1, RosterInvariant, PTL
=============================================================================
