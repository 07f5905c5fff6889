------------------------------ MODULE MCAdmin -------------------------------
(***************************************************************************)
(* The organizers' console: the pages of Console, those of the problems,   *)
(* and the proctor agents and the gate it steers, one of them at a time.   *)
(* `tab` is the part that is looked at; the others are at rest and do      *)
(* nothing, so that one run checks all.                                    *)
(***************************************************************************)
EXTENDS Console, Naturals, Sequences, TLC

VARIABLES
  tab,
  suite, tests, pendingPoints, savingPoints, modal, deleteOrdinal, editOrdinal, uploading,
  batchQueue, batchIsRunning, batchTodo, flights, custom, overlapped, edits, editFails,
  problems, draft, page, editing, form, slugAuto, formTests, autosave, hasSavedDraft,
  draftRestored, saving, goto, listedProblems, pendingId, listFilter, asked, opened, work,
  dropped,
  agents, process, bootId, seqNo, enrollment, revoked, rejections, acked, requests, buffer, disk,
  lost, beats, deeds

rosterAll  == <<accounts, teams, passwords, listed, load, confirm, pending, creds, importOpen,
                importFile, selectedIndices, bulkErrors, ops, unsure>>
ledgerAll  == <<listPage, ledger, ledgerVersion, calls, data, listError, loading, refreshing,
                statusFilter, pageAsked, pageSize, handlers, busyId, reviewTarget, reviewReason,
                reviewing, unstickTarget, selected, inspections, chosen, ownVersion, listFails,
                clicks>>
suiteAll   == <<suite, tests, pendingPoints, savingPoints, modal, deleteOrdinal, editOrdinal,
                uploading, batchQueue, batchIsRunning, batchTodo, flights, custom, overlapped,
                edits, editFails>>
editorAll  == <<problems, draft, page, editing, form, slugAuto, formTests, autosave,
                hasSavedDraft, draftRestored, saving, goto, listedProblems, pendingId, listFilter,
                asked, opened, work, dropped>>
timerAll   == <<time, event, config, onTimer, shown, shift, left, gone, lastLeft, counted, sound,
                audio, inView, sincePoll, reading, order, dialog, sform, typedSet, acts,
                lostOrders>>
monitorAll == <<facts, watched, isAutoRefreshActive, loads, timer, panels, loaded, isRefreshing,
                loadError, walks, misses, entries, momentFilter>>
agentAll   == <<agents, process, bootId, seqNo, enrollment, revoked, rejections, acked, requests,
                buffer, disk, lost, beats, deeds>>
gateAll    == <<gateTime, standing, changedAt, changes, gateCache, polls, overdue, answered>>
proctorAll == <<agentAll, gateAll>>
allVars    == <<tab, rosterAll, ledgerAll, suiteAll, editorAll, timerAll, monitorAll, proctorAll>>

-----------------------------------------------------------------------------
(* The parts of the console and their bounds.                              *)

\* A file with two good rows of team 1, the first of which says "name"; and two teams with
\* their members, one of whom has an account already.
Line(t, u, w) == [team |-> t, user |-> u, word |-> w]
MCImports == <<[lines |-> <<Line(1, 4, TRUE), Line(1, 4, FALSE)>>, mode |-> "rows"],
               [lines |-> <<Line(2, 4, FALSE)>>, mode |-> "members"]>>

MCRoster   == 3 :> 1
MCSearches == "" :> 1..4 @@ "x" :> {2, 3}

Row(i, st, rej) == [id |-> i, status |-> st, rejected |-> rej]
MCRows == ("submissions" :> <<Row(1, "passed", TRUE), Row(2, "queued", FALSE)>>
           @@ "audit" :> <<Row(3, "passed", FALSE), Row(2, "queued", FALSE), Row(1, "passed", FALSE)>>)

\* Another pair of files: within the limit of a file, and over it.
Tests == INSTANCE TestSuite WITH Files <- {"a", "b"}, TooLarge <- {}, MaxScore <- 3,
  FirstSuite <- <<[file |-> "a", points |-> 3]>>, PointChoices <- {0, 1}, MaxEdits <- 2,
  MaxFails <- 1, MaxRequests <- 2
Large == INSTANCE TestSuite WITH Files <- {"a", "b"}, TooLarge <- {"b"}, MaxScore <- 3,
  FirstSuite <- <<[file |-> "a", points |-> 3]>>, PointChoices <- {0, 1}, MaxEdits <- 2,
  MaxFails <- 1, MaxRequests <- 2

\* The form a new problem starts from, one that was typed before, and a problem that exists.
Form(s, p) == [slug |-> s, title |-> s, statement |-> "starter", samples |-> <<"one">>, published |-> p]

Problems == INSTANCE ProblemEditor WITH listed <- listedProblems, Texts <- {"", "mine"},
  Starter <- Form("starter", FALSE), SlugOf <- [t \in {"", "mine", "starter"} |-> t],
  FirstProblems <- <<[gone |-> FALSE, form |-> Form("first", FALSE), tests |-> 1]>>,
  FirstDrafts <- {<<>>, <<Form("mine", FALSE)>>}, MinTests <- 1, MaxOpened <- 1, MaxWork <- 2,
  MaxTogether <- 1, MaxDropped <- 1

MCConfig == [title |-> "t1", freeze |-> 0, fullscreen |-> FALSE]
MCPeriod == [timer |-> 1, header |-> 4]

\* Three entries, newest first, at distances within and beyond a box.
Entries(at) ==
  {[at |-> at, kind |-> "gap", weight |-> 0], [at |-> at, kind |-> "submission", weight |-> 0],
   [at |-> at, kind |-> "event", weight |-> 0]}
  \cup {[at |-> at, kind |-> "finding", weight |-> w] : w \in {10, 20, 30}}
MCTimelines == {<<x, y, z>> : x \in Entries(8), y \in Entries(4), z \in Entries(0)}
               \cup {<<x, y, z>> : x \in Entries(6), y \in Entries(4), z \in Entries(3)}

Agent == INSTANCE ProctorAgent WITH BufferCapacity <- 1, MaxEnrolments <- 2, MaxLost <- 1,
  MaxBeats <- 0, MaxDeeds <- 3
ASSUME AgentAssumption == Agent!AgentConstants

-----------------------------------------------------------------------------
(* The components at rest.                                                 *)

RosterRests == People!Init

LedgerRests ==
  /\ listPage = "audit" /\ ledger = <<>> /\ ledgerVersion = 1 /\ calls = <<>>
  /\ data = Ledger!Nothing([filter |-> "all", page |-> 1, size |-> 1])
  /\ listError = FALSE /\ loading = FALSE /\ refreshing = FALSE /\ statusFilter = "all"
  /\ pageAsked = 1 /\ pageSize = 1 /\ handlers = <<>> /\ busyId = 0 /\ reviewTarget = 0
  /\ reviewReason = FALSE /\ reviewing = FALSE /\ unstickTarget = 0 /\ selected = 0
  /\ inspections = {} /\ chosen = 0 /\ ownVersion = 0 /\ listFails = 0 /\ clicks = 0

ProblemsRest == Problems!Init /\ draft = <<>>

TimerRests == Timer!Init /\ onTimer = TRUE

MonitorRests == /\ Monitor!InitTimeline /\ watched = "risk"
                /\ entries = CHOOSE es \in MCTimelines : TRUE

Init ==
  /\ tab \in {"roster", "submissions", "tests", "large", "problems", "timer", "monitoring",
              "timeline", "agent", "gate"}
  /\ RosterRests /\ Tests!Init /\ Agent!Init /\ Gate!Init
  /\ IF tab = "submissions" THEN Ledger!Init ELSE LedgerRests
  /\ IF tab = "problems" THEN Problems!Init ELSE ProblemsRest
  /\ IF tab = "timer" THEN Timer!Init ELSE TimerRests
  /\ CASE tab = "monitoring" -> Monitor!Init
       [] tab = "timeline"   -> Monitor!InitTimeline
       [] OTHER              -> MonitorRests

RosterStep ==
  /\ tab = "roster" /\ People!Next
  /\ UNCHANGED <<tab, ledgerAll, suiteAll, editorAll, timerAll, monitorAll, proctorAll>>
LedgerStep ==
  /\ tab = "submissions" /\ Ledger!Next
  /\ UNCHANGED <<tab, rosterAll, suiteAll, editorAll, timerAll, monitorAll, proctorAll>>
TestsStep ==
  /\ \/ tab = "tests" /\ Tests!Next
     \/ tab = "large" /\ Large!Next
  /\ UNCHANGED <<tab, rosterAll, ledgerAll, editorAll, timerAll, monitorAll, proctorAll>>

ProblemsStep ==
  /\ tab = "problems" /\ Problems!Next
  /\ UNCHANGED <<tab, rosterAll, ledgerAll, suiteAll, timerAll, monitorAll, proctorAll>>
TimerStep ==
  /\ tab = "timer" /\ Timer!Next
  /\ UNCHANGED <<tab, rosterAll, ledgerAll, suiteAll, editorAll, monitorAll, proctorAll>>
MonitorStep ==
  /\ \/ tab = "monitoring" /\ Monitor!Console
     \/ tab = "timeline" /\ \E chip \in Monitor!Chips : Monitor!PressChip(chip)
  /\ UNCHANGED <<tab, rosterAll, ledgerAll, suiteAll, editorAll, timerAll, proctorAll>>
ProctorStep ==
  /\ \/ tab = "agent" /\ Agent!Next /\ UNCHANGED gateAll
     \/ tab = "gate" /\ Gate!Next /\ UNCHANGED agentAll
  /\ UNCHANGED <<tab, rosterAll, ledgerAll, suiteAll, editorAll, timerAll, monitorAll>>

Next == RosterStep \/ LedgerStep \/ TestsStep \/ ProblemsStep \/ TimerStep \/ MonitorStep
        \/ ProctorStep

Spec == Init /\ [][Next]_allVars /\ Agent!Fairness

-----------------------------------------------------------------------------
(* Properties, besides those of Console: each says of one page what its    *)
(* module says of it.                                                      *)

\* Types of the page that is looked at.
TypeOK ==
  /\ tab = "roster"      => People!TypeOK
  /\ tab = "submissions" => Ledger!TypeOK
  /\ tab \in {"tests", "large"} => Tests!TypeOK
  /\ tab = "problems"    => Problems!TypeOK
  /\ tab = "timer"       => Timer!TypeOK
  /\ tab \in {"monitoring", "timeline"} => Monitor!TypeOK
  /\ tab = "agent"       => Agent!TypeOK
  /\ tab = "gate"        => Gate!TypeOK

\* However requests are lost, repeated or overtaken, the pages show what there is: no test is
\* in a suite twice, the points nobody has changed add up to the whole score, the list is the
\* suite; the draft is what is typed, editing a problem keeps it, and no two problems have one
\* slug; the pages of a log hold each entry once, and a timeline keeps every finding.
PagesAddUp ==
  /\ [](tab = "tests" => Tests!NoTestTwice /\ Tests!ScoreStaysWhole /\ Tests!ListIsSuite)
  /\ [](tab = "large" => Large!NoTestTwice)
  /\ [](tab = "problems" => Problems!DraftIsNewest /\ Problems!OneProblemPerSlug)
  /\ Problems!EditKeepsDraft
  /\ [](tab = "submissions" => Ledger!LogPaged) /\ [](tab = "timeline" => Monitor!TimelineFaithful)

\* A contestant has one live agent, whose heartbeats are on its disk until they are replayed;
\* who stopped stays stopped, whatever was on its way; and an agent left alone ends up
\* reporting.  The portal hears of a changed standing by the end of a cache entry's life.
AgentHolds ==
  /\ [](tab = "agent" => Agent!OneLiveAgent /\ Agent!BufferOnDisk)
  /\ Agent!StopStands /\ Agent!SequenceKept /\ Agent!AgentRecovers
  /\ Gate!StatusAgreesSoon
=============================================================================
