----------------------------- MODULE ContestSync -----------------------------
(***************************************************************************)
(* The contestant's view of the contest clock (contest-provider.tsx,       *)
(* contest-timer.tsx, contest-phase-banner.tsx, actions/contest.ts): the   *)
(* state read from the server now and then, the countdown computed from it *)
(* every second with the offset between the two clocks, and the alerts.    *)
(*                                                                         *)
(* Time is counted in half seconds, so that rounding down to seconds is    *)
(* visible.  The server is the one ContestClock models; here a command     *)
(* takes effect at once.  The scoreboard's freeze, the time elapsed and    *)
(* the time to the start are display only and are left out.                *)
(***************************************************************************)
EXTENDS Integers, Sequences, FiniteSets, FiniteSetsExt

CONSTANTS
  Duration,      \* of the contest, in half seconds
  Thresholds,    \* CONTEST_THRESHOLDS_SECONDS, in the order of the list
  MaxNow,        \* bound on time
  MaxCommands,   \* bound on the organizers' commands
  MaxFlight,     \* bound on the refreshes under way at once
  MaxLatency,    \* bound on the time an answer takes
  MaxFailures    \* bound on the refreshes that fail

\* CONTEST_THRESHOLDS_SECONDS is a literal that descends.
ClockConstants ==
  /\ Duration \in Nat /\ Thresholds \in Seq(Nat)
  /\ \A i, j \in DOMAIN Thresholds : i < j => Thresholds[i] > Thresholds[j]

VARIABLES
  now,           \* the server's clock
  contest,       \* the contest on the server
  commands, failures,
  page,          \* state: what the page was answered last
  offset,        \* clockOffset: the server's time less the page's
  remaining,     \* remainingSeconds
  ticked,        \* calculateTick ran since the state was set
  fired,         \* firedThresholds
  endRefresh,    \* endRefreshTriggered
  toast,         \* alertToast: <<>>, <<"paused">>, <<"left", 5>> and the like
  visible,       \* document.visibilityState
  flight         \* answers on their way to the page

pageVars  == <<page, offset, remaining, ticked, fired, endRefresh, toast>>
contestVars == <<contest, commands>>
syncVars == <<now, contestVars, failures, pageVars, visible, flight>>

-----------------------------------------------------------------------------
(* The server.                                                             *)

NotStarted == [status |-> "NOT_STARTED", end |-> 0, left |-> Duration]

\* Manager.GetState: a running contest whose time is over has ended.
GetState ==
  IF contest.status = "RUNNING" /\ now >= contest.end THEN [contest EXCEPT !.status = "ENDED"]
  ELSE contest

Commands ==
  CASE GetState.status = "NOT_STARTED" -> {[status |-> "RUNNING", end |-> now + Duration, left |-> 0]}
    [] GetState.status = "RUNNING" ->
         {[status |-> "PAUSED", end |-> 0, left |-> contest.end - now],
          [contest EXCEPT !.end = @ + 2], [contest EXCEPT !.status = "ENDED"]}
    [] GetState.status = "PAUSED"  -> {[status |-> "RUNNING", end |-> now + contest.left, left |-> 0]}
    [] GetState.status = "ENDED"   -> {NotStarted, [status |-> "RUNNING", end |-> now + 2, left |-> 0]}

\* Start; Pause, Extend, End; Resume; Reset and Extend after the end.
Command ==
  /\ commands < MaxCommands /\ commands' = commands + 1
  /\ contest' \in Commands /\ contest'.end <= MaxNow
  /\ UNCHANGED <<now, failures, pageVars, visible, flight>>

Time ==
  /\ now < MaxNow /\ now' = now + 1
  /\ \A a \in flight : now < a.at + MaxLatency
  /\ UNCHANGED <<contestVars, failures, pageVars, visible, flight>>

-----------------------------------------------------------------------------
(* Reading the state.                                                      *)

\* defaultContestState: what a failed request is answered with; its time is that of the
\* start of the portal's own server.
defaultContestState == [state |-> NotStarted, at |-> 0]

\* getContestStateAction: the state and the time at which it was read.
Answer == [state |-> GetState, at |-> now]

Ask == flight' = IF Cardinality(flight) < MaxFlight THEN flight \cup {Answer} ELSE flight

syncs == visible

\* tickSync: a visible page asks every 20 seconds, and when it becomes visible.
tickSync ==
  /\ syncs /\ Cardinality(flight) < MaxFlight /\ Ask
  /\ UNCHANGED <<now, contestVars, failures, pageVars, visible>>

VisibilityChange ==
  /\ visible' = ~visible
  /\ IF visible' THEN Ask ELSE UNCHANGED flight
  /\ UNCHANGED <<now, contestVars, failures, pageVars>>

\* checkStatusTransitions: which alert a change of the status brings, if any.
checkStatusTransitions(old, new) ==
  CASE old = new -> toast
    [] old = "NOT_STARTED" /\ new = "RUNNING" -> <<"started">>
    [] old # new /\ new = "PAUSED"            -> <<"paused">>
    [] old = "PAUSED" /\ new = "RUNNING"      -> <<"resumed">>
    [] old # new /\ new = "ENDED"             -> <<"ended">>
    [] OTHER -> toast

\* Mutant: the offset with the wrong sign.
clockAdvance(a) == now - a.at

\* clockOffset: the server's time less the time at which the answer arrives.
clockOffset(a) == a.at - now

\* The rest of refresh: the answer replaces the state, whatever was answered in between.
Apply(a) ==
  /\ page' = a.state
  /\ offset' = clockOffset(a)
  /\ toast' = checkStatusTransitions(page.status, a.state.status)
  /\ ticked' = FALSE
  /\ UNCHANGED <<remaining, fired, endRefresh>>

refresh(a) ==
  /\ Apply(a) /\ flight' = flight \ {a}
  /\ UNCHANGED <<now, contestVars, failures, visible>>

\* The request failed: the page is given the default state and cannot tell.
refreshFails(a) ==
  /\ failures < MaxFailures /\ failures' = failures + 1
  /\ Apply(defaultContestState) /\ flight' = flight \ {a}
  /\ UNCHANGED <<now, contestVars, visible>>

-----------------------------------------------------------------------------
(* The countdown.                                                          *)

\* The thresholds a tick reaches for the first time.  Each sets the one toast, in the order
\* of the list, so that the last of them remains.
Due(left)   == {i \in DOMAIN Thresholds : left <= Thresholds[i] /\ Thresholds[i] \notin fired}

\* Mutant: the first of the list wins.
FirstAlert(left) == IF Due(left) = {} THEN toast ELSE <<"left", Thresholds[Min(Due(left))]>>

Alert(left) == IF Due(left) = {} THEN toast ELSE <<"left", Thresholds[Max(Due(left))]>>

Countdown == LET halves == page.end - (now + offset) IN IF halves <= 0 THEN 0 ELSE halves \div 2

calculateTick ==
  /\ ticked' = TRUE
  /\ IF page.status = "RUNNING"
     THEN /\ remaining' = Countdown
          /\ endRefresh' = (Countdown = 0)
          /\ IF Countdown = 0 /\ ~endRefresh THEN Ask ELSE UNCHANGED flight
          /\ IF Countdown > 0
             THEN /\ fired' = fired \cup {Thresholds[i] : i \in Due(Countdown)}
                  /\ toast' = Alert(Countdown)
             ELSE UNCHANGED <<fired, toast>>
     ELSE /\ remaining' = IF page.status = "ENDED" THEN 0 ELSE page.left \div 2
          /\ UNCHANGED <<endRefresh, flight, fired, toast>>
  /\ UNCHANGED <<now, contestVars, failures, page, offset, visible>>

\* ToastBanner clears the alert after six seconds, or when it is closed.
clearAlertToast ==
  /\ toast # <<>> /\ toast' = <<>>
  /\ UNCHANGED <<now, contestVars, failures, page, offset, remaining, ticked, fired, endRefresh, visible, flight>>

-----------------------------------------------------------------------------
(* What is shown.                                                          *)

isRunning == page.status = "RUNNING" /\ remaining > 0
isEnded   == page.status = "ENDED" \/ (page.status = "RUNNING" /\ remaining = 0)

\* ContestTimer and ContestPhaseBanner.
ContestTimer ==
  CASE page.status \in {"NOT_STARTED", "PAUSED"} -> page.status
    [] isEnded -> "ENDED"
    [] OTHER   -> "COUNTDOWN"

ContestPhaseBanner == IF page.status = "RUNNING" THEN "none" ELSE page.status

Init ==
  /\ now = 0 /\ commands = 0 /\ failures = 0
  /\ contest \in {NotStarted, [status |-> "RUNNING", end |-> Duration, left |-> 0],
                 [status |-> "PAUSED", end |-> 0, left |-> 2]}
  /\ page = contest /\ offset = 0 /\ remaining = Duration \div 2 /\ ticked = TRUE
  /\ fired = {} /\ endRefresh = FALSE /\ toast = <<>> /\ visible = TRUE /\ flight = {}

Next ==
  \/ Command \/ Time \/ tickSync \/ VisibilityChange \/ calculateTick \/ clearAlertToast
  \/ \E a \in flight : refresh(a) \/ refreshFails(a)

(* The interval and the page's timer go on, and every answer arrives.                   *)
Oldest(a) == \A b \in flight : a.at <= b.at

Fairness ==
  /\ WF_syncVars(tickSync) /\ WF_syncVars(calculateTick) /\ WF_syncVars(Time)
  /\ WF_syncVars(\E a \in flight : Oldest(a) /\ refresh(a))

Spec == Init /\ [][Next]_syncVars /\ Fairness

-----------------------------------------------------------------------------
(* Properties.                                                             *)

States == [status : {"NOT_STARTED", "RUNNING", "PAUSED", "ENDED"}, end : 0..MaxNow + Duration + 2 * MaxCommands,
           left : 0..Duration + 2 * MaxCommands]

\* Types; answers are never from the future.
TypeOK ==
  /\ contest \in States /\ page \in States
  /\ offset \in -MaxNow..0 /\ remaining \in 0..Duration + MaxCommands
  /\ ticked \in BOOLEAN /\ endRefresh \in BOOLEAN /\ visible \in BOOLEAN
  /\ \A a \in flight : a.state \in States /\ a.at \in 0..now

\* The page closes the contest less than a second before the end it was told of, however
\* late the answer came: latency makes its clock late, never early, and rounding down
\* costs less than a second (calculateTick, isEnded).
NeverClosesEarly ==
  (ticked /\ page.status = "RUNNING" /\ ContestTimer = "ENDED") => now > page.end - 2

\* Where several thresholds are reached at once - the page was opened late, the tab slept -
\* the alert that remains is the most urgent one, and it is the same after any number of
\* extensions and failed refreshes (calculateTick, firedThresholdsRef).
LoudestAlert ==
  [][\A i \in DOMAIN Thresholds :
       (toast' # toast /\ toast' = <<"left", Thresholds[i]>>) =>
         /\ remaining' <= Thresholds[i]
         /\ \A j \in DOMAIN Thresholds : remaining' <= Thresholds[j] => Thresholds[j] >= Thresholds[i]]_syncVars

\* When the organizers and the network leave the contest alone and the page stays visible,
\* the page ends up agreeing with the server, whatever answers overtook each other on the
\* way; the end that the page's own countdown announces is the server's too.
PageAgrees == page = GetState /\ (ContestTimer = "ENDED" <=> GetState.status = "ENDED")

PageConverges == <>[]visible => <>[]PageAgrees
=============================================================================
