----------------------------- MODULE PortalLists -----------------------------
(***************************************************************************)
(* The contestant's list of submissions (submissions-client.tsx), with the *)
(* select that sets its order (ui/custom-select.tsx), and the list of      *)
(* challenges (challenges-list-client.tsx, challenge-card.tsx,             *)
(* contest-waiting-room.tsx, challenges/[id]/page.tsx).                    *)
(*                                                                         *)
(* Both lists get their rows from the server's render.  A submission is    *)
(* [time, title, score, status] and a challenge [points, title,            *)
(* difficulty, progress], titles and difficulties by their rank; a search  *)
(* is the set of titles it finds.  Layout, badges and texts are left out.  *)
(***************************************************************************)
EXTENDS Integers, Sequences, FiniteSets, SequencesExt, Paging

CONSTANTS
  Submissions,     \* the rows of the submissions page
  Searches,        \* [text typed |-> titles found]
  ListSizes,       \* the rows per page offered; FirstSize is the default
  FirstSize,
  Problems,        \* the challenges, in the server's order
  Difficulties,    \* the difficulties and 0, which is ALL
  DisabledSorts,   \* options of the select that are disabled
  RefreshGap,      \* time between two refreshes of the challenges' progress
  MaxListTime      \* bound on time

SubmissionSorts == <<"NEWEST", "OLDEST", "SCORE_DESC", "STATUS_ASC", "TITLE_ASC">>
ChallengeSorts == {"DEFAULT", "POINTS_DESC", "POINTS_ASC", "DIFFICULTY_ASC", "DIFFICULTY_DESC", "TITLE_ASC"}

Submission == [time : Nat, title : Nat, score : Nat, rank : Nat, rejected : BOOLEAN,
               status : {"ACCEPTED", "WRONG_ANSWER", "QUEUED", "OTHER"}]
Challenge  == [points : Nat, title : Nat, difficulty : Nat]

\* Lists of rows, the empty search there is at first, and pages that have rows.
ListConstants ==
  /\ Submissions \in Seq(Submission) /\ Problems \in Seq(Challenge)
  /\ "" \in DOMAIN Searches
  /\ ListSizes \subseteq Nat \ {0} /\ FirstSize \in ListSizes /\ 0 \in Difficulties

VARIABLES
  listPage,                                          \* the page that is mounted
  subSearch, subStatus, subSort, subPage, subSize,   \* the submissions page
  isOpen, highlighted,                               \* its select; highlighted counts from 1, 0 is none
  chSearch, chStatus, chDifficulty, chSort,          \* the challenges page
  contestStatus, opened,                             \* what the contest page shows; the challenge page's screen
  lastRefresh, progressSeen, progressNow, listTime   \* refreshes of the progress

subVars == <<subSearch, subStatus, subSort, subPage, subSize, isOpen, highlighted>>
chVars  == <<chSearch, chStatus, chDifficulty, chSort, contestStatus, opened, lastRefresh,
             progressSeen, progressNow, listTime>>
listPageVars == <<listPage, subVars, chVars>>

-----------------------------------------------------------------------------
(* The submissions page.                                                   *)

\* The statuses ACCEPTED and WRONG_ANSWER stand for what the lower-case comparisons find.
filteredSubmissions ==
  rowsAt(Submissions, {i \in DOMAIN Submissions :
    /\ Submissions[i].title \in Searches[subSearch]
    /\ subStatus # "ALL" => Submissions[i].status = subStatus})

subBefore(a, b) ==
  CASE subSort = "NEWEST"     -> a.time > b.time
    [] subSort = "OLDEST"     -> a.time < b.time
    [] subSort = "SCORE_DESC" -> a.score > b.score
    [] subSort = "STATUS_ASC" -> a.rank < b.rank
    [] subSort = "TITLE_ASC"  -> a.title < b.title

sortedSubmissions    == stableSort(filteredSubmissions, subBefore)
subTotal             == Len(filteredSubmissions)
subValidPage         == validPage(subPage, subTotal, subSize)
paginatedSubmissions == slice(sortedSubmissions, subValidPage, subSize)

\* A row of the table: the badge of its status; it is struck out if it was rejected.
SubmissionRow(s) ==
  [time |-> s.time, counted |-> ~s.rejected,
   badge |-> CASE s.status = "ACCEPTED" -> "success"
               [] s.status = "QUEUED"   -> "pending"
               [] OTHER                 -> "failure"]

\* Every change of the search, the filter and the order starts at the first page again.
handleSearchChange(val) ==
  /\ val # subSearch
  /\ subSearch' = val /\ subPage' = 1
  /\ UNCHANGED <<subStatus, subSort, subSize, isOpen, highlighted, chVars>>

\* The buttons offer no OTHER, though the filter knows it.
handleStatusFilterChange(st) ==
  /\ st # subStatus
  /\ subStatus' = st /\ subPage' = 1
  /\ UNCHANGED <<subSearch, subSort, subSize, isOpen, highlighted, chVars>>

\* A click on the head of a column; an empty table has none.
headOrder(col) ==
  CASE col = "CHALLENGE" -> IF subSort = "TITLE_ASC" THEN "NEWEST" ELSE "TITLE_ASC"
    [] col = "SCORE"     -> IF subSort = "SCORE_DESC" THEN "NEWEST" ELSE "SCORE_DESC"
    [] col = "STATUS"    -> IF subSort = "STATUS_ASC" THEN "NEWEST" ELSE "STATUS_ASC"
    [] col = "SUBMITTED" -> IF subSort = "NEWEST" THEN "OLDEST" ELSE "NEWEST"

HeadClick(col) ==
  /\ subTotal # 0
  /\ subSort' = headOrder(col) /\ subPage' = 1
  /\ UNCHANGED <<subSearch, subStatus, subSize, isOpen, highlighted, chVars>>

PageChange(p) ==
  /\ subTotal # 0 /\ p \in pageButtons(subValidPage, totalPages(subTotal, subSize))
  /\ subPage' = p
  /\ UNCHANGED <<subSearch, subStatus, subSort, subSize, isOpen, highlighted, chVars>>

PageSizeChange(n) ==
  /\ subTotal # 0 /\ n # subSize
  /\ subSize' = n /\ subPage' = 1
  /\ UNCHANGED <<subSearch, subStatus, subSort, isOpen, highlighted, chVars>>

-----------------------------------------------------------------------------
(* The select.                                                             *)

options == Len(SubmissionSorts)
selectedIndex == CHOOSE i \in 1..options : SubmissionSorts[i] = subSort

\* toggleDropdown: opening highlights the selected option; closing leaves the highlight.
toggleDropdown ==
  /\ isOpen' = ~isOpen
  /\ highlighted' = IF isOpen THEN highlighted ELSE selectedIndex
  /\ UNCHANGED <<subSearch, subStatus, subSort, subPage, subSize, chVars>>

\* closeDropdown: a click outside, Escape, Tab.
closeDropdown ==
  /\ isOpen /\ isOpen' = FALSE /\ highlighted' = 0
  /\ UNCHANGED <<subSearch, subStatus, subSort, subPage, subSize, chVars>>

\* selectOption: a click, or Enter on the highlighted option; a disabled one does nothing.
selectOption(i) ==
  /\ isOpen /\ i \notin DisabledSorts
  /\ subSort' = SubmissionSorts[i] /\ subPage' = 1
  /\ isOpen' = FALSE /\ highlighted' = 0
  /\ UNCHANGED <<subSearch, subStatus, subSize, chVars>>

EnterKey == isOpen /\ highlighted # 0 /\ selectOption(highlighted)

\* Mutant: ArrowDown goes past the last option.
stepPast(i, key) ==
  CASE key = "ArrowDown" -> i + 1
    [] key = "ArrowUp"   -> IF i <= 1 THEN options ELSE i - 1
    [] key = "Home"      -> 1
    [] key = "End"       -> options

\* handleKeyDown on an open list: the arrows go round.
stepKey(i, key) ==
  CASE key = "ArrowDown" -> IF i + 1 > options THEN 1 ELSE i + 1
    [] key = "ArrowUp"   -> IF i <= 1 THEN options ELSE i - 1
    [] key = "Home"      -> 1
    [] key = "End"       -> options

\* The mouse highlights any option, disabled or not.
Highlight ==
  /\ isOpen
  /\ \/ \E key \in {"ArrowDown", "ArrowUp", "Home", "End"} : highlighted' = stepKey(highlighted, key)
     \/ highlighted' \in 1..options
  /\ UNCHANGED <<subSearch, subStatus, subSort, subPage, subSize, isOpen, chVars>>

-----------------------------------------------------------------------------
(* The challenges page.                                                    *)

progressOf(i) == progressSeen[i]

\* UNSOLVED is everything that is not solved, IN_PROGRESS only what was attempted.
statusMatches(st, i) ==
  CASE st = "ALL"         -> TRUE
    [] st = "SOLVED"      -> progressOf(i) = "SOLVED"
    [] st = "IN_PROGRESS" -> progressOf(i) = "ATTEMPTED"
    [] st = "UNSOLVED"    -> progressOf(i) # "SOLVED"

chBefore(i, j) ==
  LET a == Problems[i]  b == Problems[j] IN
  CASE chSort = "DEFAULT"         -> FALSE
    [] chSort = "POINTS_DESC"     -> a.points > b.points
    [] chSort = "POINTS_ASC"      -> a.points < b.points
    [] chSort = "TITLE_ASC"       -> a.title < b.title
    [] chSort = "DIFFICULTY_ASC"  -> a.difficulty < b.difficulty
    [] chSort = "DIFFICULTY_DESC" -> a.difficulty > b.difficulty

\* The places of the challenges that match, and these places as a list.
placesWith(st) ==
  {i \in DOMAIN Problems :
    /\ Problems[i].title \in Searches[chSearch]
    /\ statusMatches(st, i)
    /\ chDifficulty \in {0, Problems[i].difficulty}}

problemsWith(st) == rowsAt([i \in DOMAIN Problems |-> i], placesWith(st))

filteredProblems == problemsWith(chStatus)

sortedProblems == stableSort(filteredProblems, chBefore)

solvedCount == Cardinality({i \in DOMAIN Problems : progressOf(i) = "SOLVED"})

SetFilter ==
  /\ contestStatus # "NOT_STARTED"
  /\ \/ chSearch' \in DOMAIN Searches \ {chSearch} /\ UNCHANGED <<chStatus, chDifficulty, chSort>>
     \/ /\ chStatus' \in {"ALL", "SOLVED", "IN_PROGRESS", "UNSOLVED"} \ {chStatus}
        /\ UNCHANGED <<chSearch, chDifficulty, chSort>>
     \/ chDifficulty' \in Difficulties \ {chDifficulty} /\ UNCHANGED <<chSearch, chStatus, chSort>>
     \/ chSort' \in ChallengeSorts \ {chSort} /\ UNCHANGED <<chSearch, chStatus, chDifficulty>>
  /\ UNCHANGED <<subVars, contestStatus, opened, lastRefresh, progressSeen, progressNow, listTime>>

\* Refresh progress: at most once in three seconds.
RefreshProgress ==
  /\ contestStatus # "NOT_STARTED"
  /\ lastRefresh = 0 \/ listTime - lastRefresh >= RefreshGap
  /\ lastRefresh' = listTime /\ progressSeen' = progressNow
  /\ UNCHANGED <<subVars, chSearch, chStatus, chDifficulty, chSort, contestStatus, opened,
                 progressNow, listTime>>

\* ChallengeCard: a link only while the contest is neither paused nor before its start.
cardLocked == contestStatus \in {"PAUSED", "NOT_STARTED"}

\* ChallengePage, rendered by the server from its own contest state.
ChallengePage(status) ==
  CASE status = "PAUSED"      -> "Contest is Paused"
    [] status = "NOT_STARTED" -> "Contest Has Not Started"
    [] OTHER                  -> "workspace"

\* A challenge is opened from its card; before the start there is the waiting room.
OpenChallenge ==
  /\ opened = "list" /\ ~cardLocked /\ filteredProblems # <<>>
  /\ \E status \in {"NOT_STARTED", "RUNNING", "PAUSED", "ENDED"} : opened' = ChallengePage(status)
  /\ UNCHANGED <<subVars, chSearch, chStatus, chDifficulty, chSort, contestStatus, lastRefresh,
                 progressSeen, progressNow, listTime>>

BackToChallenges ==
  /\ opened # "list" /\ opened' = "list" /\ progressSeen' = progressNow
  /\ UNCHANGED <<subVars, chSearch, chStatus, chDifficulty, chSort, contestStatus, lastRefresh,
                 progressNow, listTime>>

\* The contest moves on, a challenge is attempted or solved, time passes.
TimePasses ==
  /\ listTime < MaxListTime /\ listTime' = listTime + 1
  /\ \/ contestStatus' \in {"NOT_STARTED", "RUNNING", "PAUSED"} /\ UNCHANGED progressNow
     \/ UNCHANGED contestStatus /\ \E i \in DOMAIN Problems : \E st \in {"ATTEMPTED", "SOLVED"} :
          progressNow[i] # "SOLVED" /\ progressNow' = [progressNow EXCEPT ![i] = st]
  /\ UNCHANGED <<subVars, chSearch, chStatus, chDifficulty, chSort, opened, lastRefresh, progressSeen>>

SubInit ==
  /\ subSearch = "" /\ subStatus = "ALL" /\ subSort = "NEWEST" /\ subPage = 1 /\ subSize = FirstSize
  /\ isOpen = FALSE /\ highlighted = 0

ChInit ==
  /\ chSearch = "" /\ chStatus = "ALL" /\ chDifficulty = 0 /\ chSort = "DEFAULT"
  /\ contestStatus \in {"NOT_STARTED", "RUNNING"} /\ opened = "list" /\ lastRefresh = 0
  /\ progressSeen = [i \in DOMAIN Problems |-> "NOT_ATTEMPTED"] /\ progressNow = progressSeen
  /\ listTime = 1

Init == listPage \in {"submissions", "challenges"} /\ SubInit /\ ChInit

\* The other page is opened: it starts anew, with what the server renders then.
Navigate ==
  /\ listPage' = IF listPage = "submissions" THEN "challenges" ELSE "submissions"
  /\ subSearch' = "" /\ subStatus' = "ALL" /\ subSort' = "NEWEST" /\ subPage' = 1 /\ subSize' = FirstSize
  /\ isOpen' = FALSE /\ highlighted' = 0
  /\ chSearch' = "" /\ chStatus' = "ALL" /\ chDifficulty' = 0 /\ chSort' = "DEFAULT"
  /\ opened' = "list" /\ lastRefresh' = 0 /\ progressSeen' = progressNow
  /\ UNCHANGED <<contestStatus, progressNow, listTime>>

SubNext ==
  \/ toggleDropdown \/ closeDropdown \/ EnterKey \/ Highlight
  \/ \E i \in 1..options : selectOption(i)
  \/ \E val \in DOMAIN Searches : handleSearchChange(val)
  \/ \E st \in {"ALL", "ACCEPTED", "WRONG_ANSWER"} : handleStatusFilterChange(st)
  \/ \E col \in {"CHALLENGE", "SCORE", "STATUS", "SUBMITTED"} : HeadClick(col)
  \/ \E p \in 1..totalPages(subTotal, subSize) : PageChange(p)
  \/ \E n \in ListSizes : PageSizeChange(n)

ChNext == SetFilter \/ RefreshProgress \/ OpenChallenge \/ BackToChallenges \/ TimePasses

Next ==
  \/ listPage = "submissions" /\ SubNext /\ UNCHANGED listPage
  \/ listPage = "challenges" /\ ChNext /\ UNCHANGED listPage
  \/ Navigate

Spec == Init /\ [][Next]_listPageVars

-----------------------------------------------------------------------------
(* Properties.                                                             *)

\* Types.
TypeOK ==
  /\ subSearch \in DOMAIN Searches /\ subStatus \in {"ALL", "ACCEPTED", "WRONG_ANSWER"}
  /\ subSort \in {SubmissionSorts[i] : i \in 1..options} /\ subPage \in Nat \ {0} /\ subSize \in ListSizes
  /\ isOpen \in BOOLEAN /\ highlighted \in Nat
  /\ chSearch \in DOMAIN Searches /\ chStatus \in {"ALL", "SOLVED", "IN_PROGRESS", "UNSOLVED"}
  /\ chSort \in ChallengeSorts /\ chDifficulty \in Difficulties
  /\ progressSeen \in [DOMAIN Problems -> {"NOT_ATTEMPTED", "ATTEMPTED", "SOLVED"}]
  /\ progressNow \in [DOMAIN Problems -> {"NOT_ATTEMPTED", "ATTEMPTED", "SOLVED"}]

\* After any sequence of searches, filters, orders and pages: where submissions match, the
\* page shows some and the pages show each of them once, and the page buttons always offer
\* the first, the last and both neighbours of the page shown (getPageNumbers).
SubmissionsListed ==
  /\ subTotal # 0 => paginatedSubmissions # <<>> /\ PagesPartition(sortedSubmissions, subSize)
  /\ LET pages == totalPages(subTotal, subSize)
     IN  ({1, pages} \cup {p \in 1..pages : p + 1 = subValidPage \/ p = subValidPage + 1})
           \subseteq getPageNumbers(subValidPage, pages)

\* The challenges shown are those that match, each once and in order, and under any search
\* and difficulty SOLVED and UNSOLVED share them out, also while the progress changes.
ChallengesListed ==
  /\ ToSet(sortedProblems) = placesWith(chStatus) /\ IsInjective(sortedProblems)
  /\ \A k \in 1..(Len(sortedProblems) - 1) : ~chBefore(sortedProblems[k + 1], sortedProblems[k])
  /\ Len(problemsWith("SOLVED")) + Len(problemsWith("UNSOLVED")) = Len(problemsWith("ALL"))

\* While the select is open an option is highlighted, whatever keys, clicks and mouse moves
\* came before: Enter never finds the list open and nothing to choose (handleKeyDown).
HighlightInRange == isOpen => highlighted \in 1..options
=============================================================================
