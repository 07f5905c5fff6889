------------------------------ MODULE MCPortal ------------------------------
(***************************************************************************)
(* The contestant's portal: the parts of Portal and the others, one of     *)
(* them at a time.  `tab` is the part that is looked at; the others are at *)
(* rest, with their actions disabled, so that one run checks all.          *)
(***************************************************************************)
EXTENDS Portal, Naturals, Sequences

VARIABLES
  tab,
  password, sessions, issued, prior, excluded, cookie, screen, waiting, menu, dialog, logoutTimer,
  leaving, mobileOpen, losses

feedAll     == <<row, zombies, chan, lost, reviews, locks, locked, stream, active, latest,
                 lastResult, poll, pollIndex, restore, submitting>>
workAll     == <<language, code, hasEdited, draft, autosave, snapshots, stored, sync, running,
                 runCooldown, request, submitCooldown, submitResult, newestResult, activeHere,
                 subs, recordedResult, saves>>
clockAll    == <<now, contest, commands, failures, page, offset, remaining, ticked, fired,
                 endRefresh, alert, visible, flight>>
proctorAll  == <<gate, agent, permission, changes, throws, hidden, seen, resolved, localAccess,
                 timer, refreshing>>
bannerAll   == <<isOnline, serverReachable, wasOffline, showRestored, restoredTimers, toast,
                 toastTimers, raised, closes, drops>>
lockdownAll == <<clock, isDesktopEnv, requireFullscreen, inFullscreen, tabHidden,
                 hasExitedFullscreen, fullscreenError, entering, lastReport, infraction, sent,
                 reports, logged, events>>
boardAll    == <<board, leaderboard, flights, inFlight, boardLocked, boardVisible, teamSearch,
                 boardSort, boardPage, boardSize, boardFails, boardEvents>>
listAll     == <<listPage, subSearch, subStatus, subSort, subPage, subSize, isOpen, highlighted,
                 chSearch, chStatus, chDifficulty, chSort, contestStatus, opened, lastRefresh,
                 progressSeen, progressNow, listTime>>
sessionAll  == <<password, sessions, issued, prior, excluded, cookie, screen, waiting, menu, dialog,
                 logoutTimer, leaving, mobileOpen, losses>>
allVars     == <<tab, feedAll, workAll, clockAll, proctorAll, bannerAll, lockdownAll, boardAll,
                 listAll, sessionAll>>

-----------------------------------------------------------------------------
(* The components and their bounds.                                        *)

NoRow      == [state |-> "absent", tries |-> 0, att |-> 0, fin |-> 0]
Queued(k)  == [state |-> "queued", tries |-> k, att |-> 0, fin |-> 0]
Running(k) == [state |-> "running", tries |-> k, att |-> 2 * k, fin |-> 0]
Done(k)    == [state |-> "done", tries |-> k, att |-> 0, fin |-> 2 * k + 1]

\* Before the first submission of the page, with one terminated before; and two pending ones.
MCStart == {<<NoRow, Done(1)>>, <<Queued(2), Running(1)>>}

MCMaxTries == <<2, 1>>

MCHistories == {<<>>, <<[trigger |-> "autosave", language |-> "py", code |-> 1, id |-> 0,
                         verdict |-> "none"]>>}

MCStarter == [l \in {"cpp", "py"} |-> IF l = "cpp" THEN 2 ELSE 3]

MCThresholds == <<2, 1>>

MCToastTime == [submission |-> 5, contest |-> 6]

Team(t, r, n) == [team |-> t, rank |-> r, solved |-> n]

MCBoards == <<<<Team(2, 1, 1), Team(1, 2, 1), Team(3, 3, 0)>>, <<Team(1, 1, 2)>>, <<>>,
              <<Team(1, 1, 2), Team(3, 2, 1)>>>>
MCFound  == [s \in {"", "o"} |-> IF s = "" THEN {1, 2, 3} ELSE {1, 3}]

\* Eight submissions, so that the page buttons leave some out; two are wrong, and none of
\* these is found by the search.
MCSubmissions == [i \in 1..8 |->
  [time |-> i, title |-> i % 3, score |-> (i * 7) % 4, rank |-> i % 4, rejected |-> i = 3,
   status |-> IF i % 4 = 0 THEN "WRONG_ANSWER" ELSE IF i = 5 THEN "QUEUED" ELSE "ACCEPTED"]]
MCProblems == <<[points |-> 2, title |-> 2, difficulty |-> 3], [points |-> 2, title |-> 0, difficulty |-> 1]>>

MCSearches == [x \in {"", "o"} |-> IF x = "" THEN 0..3 ELSE {0}]

\* A second window signs in and out meanwhile: of a browser, and of the desktop client.
Windows == INSTANCE PortalSession WITH request <- waiting, Browsers <- {1, 2}, Desktop <- {},
  Clicked <- {2}, MaxTokens <- 2, MaxPasswords <- 2, MaxLosses <- 1
Client == INSTANCE PortalSession WITH request <- waiting, Browsers <- {1, 2}, Desktop <- {2},
  Clicked <- {2}, MaxTokens <- 2, MaxPasswords <- 2, MaxLosses <- 0

-----------------------------------------------------------------------------
(* A component at rest: none of its fair actions is enabled.               *)

FeedRests ==
  /\ row = <<NoRow, NoRow>> /\ zombies = {} /\ chan = <<>> /\ lost = 0 /\ reviews = 0 /\ locks = 0
  /\ locked = TRUE /\ stream = "off" /\ active = <<>> /\ latest = <<>> /\ lastResult = <<>>
  /\ poll = <<>> /\ pollIndex = 0 /\ restore = <<>> /\ submitting = <<>>

WorkRests ==
  /\ language = "cpp" /\ code = 2 /\ hasEdited = FALSE /\ draft = FALSE /\ autosave = FALSE
  /\ stored = <<>> /\ snapshots = <<>> /\ sync = <<>> /\ running = FALSE /\ runCooldown = FALSE
  /\ request = <<>> /\ submitCooldown = FALSE /\ submitResult = Work!NoResult
  /\ newestResult = Work!NoResult /\ activeHere = FALSE /\ subs = {}
  /\ recordedResult = Work!NoResult /\ saves = 0

ClockRests ==
  /\ now = 4 /\ commands = 0 /\ failures = 0
  /\ contest = [status |-> "ENDED", end |-> 0, left |-> 0] /\ page = contest
  /\ offset = 0 /\ remaining = 0 /\ ticked = TRUE /\ fired = {} /\ endRefresh = TRUE
  /\ alert = <<>> /\ visible = FALSE /\ flight = {}

ProctorRests ==
  /\ gate = "exempt" /\ agent = "none" /\ permission = "prompt" /\ changes = 0 /\ throws = 0
  /\ hidden = TRUE /\ seen = [self |-> "exempt", local |-> "none"] /\ resolved = TRUE
  /\ localAccess = "not-required" /\ timer = TRUE /\ refreshing = [p \in Proctor!Refreshers |-> <<>>]

BannerRests ==
  /\ isOnline = TRUE /\ serverReachable = TRUE /\ wasOffline = FALSE /\ showRestored = FALSE
  /\ restoredTimers = {} /\ toast = [k \in Banner!Kinds |-> <<>>]
  /\ toastTimers = [k \in Banner!Kinds |-> {}] /\ raised = 0 /\ closes = 0 /\ drops = 0

LockdownRests ==
  /\ clock = 1 /\ isDesktopEnv = TRUE /\ requireFullscreen = FALSE /\ inFullscreen = FALSE
  /\ tabHidden = FALSE /\ hasExitedFullscreen = FALSE /\ fullscreenError = FALSE
  /\ entering = FALSE /\ lastReport = 0 /\ infraction = 0 /\ sent = {} /\ reports = {}
  /\ logged = {} /\ events = 0

RanksRest ==
  /\ board = 1 /\ leaderboard = 1 /\ flights = <<>> /\ inFlight = FALSE /\ boardLocked = TRUE
  /\ boardVisible = FALSE /\ teamSearch = "" /\ boardSort = "RANK_ASC" /\ boardPage = 1
  /\ boardSize = 2 /\ boardFails = 0 /\ boardEvents = 0

ListsRest ==
  /\ Lists!ChInit /\ contestStatus = "RUNNING" /\ listPage = "submissions"
  /\ subSearch = "o" /\ subStatus = "WRONG_ANSWER" /\ subSort = "NEWEST" /\ subPage = 1
  /\ subSize = FirstSize /\ isOpen = FALSE /\ highlighted = 0

SessionRests == Windows!Init

Init ==
  /\ tab \in {"feed", "workspace", "clock", "proctor", "banners", "lockdown", "leaderboard",
              "lists", "windows", "client"}
  /\ IF tab = "feed"        THEN Feed!Init     ELSE FeedRests
  /\ IF tab = "workspace"   THEN Work!Init     ELSE WorkRests
  /\ IF tab = "clock"       THEN Clock!Init    ELSE ClockRests
  /\ IF tab = "proctor"     THEN Proctor!Init  ELSE ProctorRests
  /\ IF tab = "banners"     THEN Banner!Init   ELSE BannerRests
  /\ IF tab = "lockdown"    THEN Lockdown!Init ELSE LockdownRests
  /\ IF tab = "leaderboard" THEN Ranks!Init    ELSE RanksRest
  /\ IF tab = "lists"       THEN Lists!Init    ELSE ListsRest
  /\ SessionRests

FeedStep == /\ tab = "feed" /\ Feed!Next
            /\ UNCHANGED <<tab, workAll, clockAll, proctorAll, bannerAll, lockdownAll, boardAll, listAll, sessionAll>>
WorkStep == /\ tab = "workspace" /\ Work!Next
            /\ UNCHANGED <<tab, feedAll, clockAll, proctorAll, bannerAll, lockdownAll, boardAll, listAll, sessionAll>>
ClockStep == /\ tab = "clock" /\ Clock!Next
             /\ UNCHANGED <<tab, feedAll, workAll, proctorAll, bannerAll, lockdownAll, boardAll, listAll, sessionAll>>
ProctorStep == /\ tab = "proctor" /\ Proctor!Next
               /\ UNCHANGED <<tab, feedAll, workAll, clockAll, bannerAll, lockdownAll, boardAll, listAll, sessionAll>>
BannerStep == /\ tab = "banners" /\ Banner!Next
              /\ UNCHANGED <<tab, feedAll, workAll, clockAll, proctorAll, lockdownAll, boardAll, listAll, sessionAll>>
LockdownStep == /\ tab = "lockdown" /\ Lockdown!Next
                /\ UNCHANGED <<tab, feedAll, workAll, clockAll, proctorAll, bannerAll, boardAll, listAll, sessionAll>>
RanksStep == /\ tab = "leaderboard" /\ Ranks!Next
             /\ UNCHANGED <<tab, feedAll, workAll, clockAll, proctorAll, bannerAll, lockdownAll, listAll, sessionAll>>
ListsStep == /\ tab = "lists" /\ Lists!Next
             /\ UNCHANGED <<tab, feedAll, workAll, clockAll, proctorAll, bannerAll, lockdownAll, boardAll, sessionAll>>
SessionStep == /\ \/ tab = "windows" /\ Windows!Next
                  \/ tab = "client" /\ Client!Next
               /\ UNCHANGED <<tab, feedAll, workAll, clockAll, proctorAll, bannerAll, lockdownAll, boardAll, listAll>>

Next == \/ FeedStep \/ WorkStep \/ ClockStep \/ ProctorStep \/ BannerStep \/ LockdownStep
        \/ RanksStep \/ ListsStep \/ SessionStep

Spec == /\ Init /\ [][Next]_allVars
        /\ Feed!Fairness /\ Clock!Fairness /\ Proctor!Fairness /\ Ranks!Fairness
        /\ Client!Fairness

-----------------------------------------------------------------------------
(* Properties, besides those of Portal: each says of one component what    *)
(* its module says of it.                                                  *)

\* Types of the component that is looked at.
TypeOK ==
  /\ tab = "feed"        => Feed!TypeOK
  /\ tab = "workspace"   => Work!TypeOK
  /\ tab = "clock"       => Clock!TypeOK
  /\ tab = "proctor"     => Proctor!TypeOK
  /\ tab = "banners"     => Banner!TypeOK
  /\ tab = "lockdown"    => Lockdown!TypeOK
  /\ tab = "leaderboard" => Ranks!TypeOK
  /\ tab = "lists"       => Lists!TypeOK
  /\ tab = "windows"     => Windows!TypeOK
  /\ tab = "client"     => Client!TypeOK

\* Every page settles when it is left alone: with the stream down the poller learns every
\* verdict, a visible page agrees with the server about the contest's clock, the portal
\* unlocks when it may, and a leaderboard that is looked at catches up (PollerRecovers,
\* PageConverges, PortalUnlocks and BoardCatchesUp: one of them is at stake at a time).
Undisturbed == \/ tab = "feed" /\ Feed!PollerAlone
               \/ tab = "clock" /\ visible
               \/ tab = "proctor" /\ Proctor!MayUnlock
               \/ tab = "leaderboard" /\ Ranks!BoardWatched
Settled     == \/ tab = "feed" /\ Feed!ActiveIsPending
               \/ tab = "clock" /\ Clock!PageAgrees
               \/ tab = "proctor" /\ ~Proctor!contestLocked
               \/ tab = "leaderboard" /\ Ranks!BoardCurrent

\* What the contestant waits for: an answer to a request for access to the agent (RequestEnds),
\* and the end of the session after a changed password (PasswordChangeLogsOut; one window has
\* menus).
Waits == localAccess = "requesting" \/ dialog[2] = "updated"
Ends  == IF tab = "proctor" THEN localAccess # "requesting" ELSE screen[2] # "portal"

\* Pages that are left alone settle, and what the contestant waits for ends.
PagesSettle == (<>[]Undisturbed => <>[]Settled) /\ (Waits ~> Ends)
=============================================================================
