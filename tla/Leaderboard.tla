----------------------------- MODULE Leaderboard -----------------------------
(***************************************************************************)
(* The leaderboard page (leaderboard-client.tsx, actions/leaderboard.ts):  *)
(* a table that refreshes itself while it is visible and the portal is not *)
(* locked, and at each new result, with a search, an order and pages.      *)
(*                                                                         *)
(* The server's standings are the sequence Boards, of which it shows one   *)
(* after the other; a row is [team, rank, solved], and name order is the   *)
(* order of team.  Rank and score order agree.  Scores and times shown are *)
(* left out.                                                               *)
(***************************************************************************)
EXTENDS Naturals, Sequences, SequencesExt, Paging

CONSTANTS
  Boards,      \* the standings, one after the other; <<>> is an empty board
  Found,       \* [search |-> teams whose name contains it]
  PageSizes, DefaultSize,
  MyTeam,      \* currentUser's team
  MaxFlights,  \* bound on requests under way
  MaxFails,    \* bound on failed requests
  MaxBoardEvents \* bound on results, locks and tabs hidden

\* Standings are lists, the first of which is there from the start, and pages have rows.
Standing == [team : Nat, rank : Nat, solved : Nat]

BoardConstants ==
  /\ Boards \in Seq(Seq(Standing)) /\ Boards # <<>>
  /\ PageSizes \subseteq Nat \ {0} /\ DefaultSize \in PageSizes

VARIABLES
  board,          \* the version of the server's standings
  leaderboard,    \* the version shown
  flights,        \* requests under way: <<>> until the server answers, then <<version>>
  inFlight, boardLocked, boardVisible,
  teamSearch, boardSort, boardPage, boardSize,
  boardFails, boardEvents

boardVars == <<board, leaderboard, flights, inFlight, boardLocked, boardVisible,
               teamSearch, boardSort, boardPage, boardSize, boardFails, boardEvents>>
listVars  == <<teamSearch, boardSort, boardPage, boardSize>>

SortOptions == {"RANK_ASC", "SCORE_DESC", "SCORE_ASC", "SOLVED_DESC", "NAME_ASC"}

-----------------------------------------------------------------------------
(* The table.                                                              *)

filteredLeaderboard ==
  LET shown == Boards[leaderboard]
  IN  rowsAt(shown, {i \in DOMAIN shown : shown[i].team \in Found[teamSearch]})

before(a, b) ==
  CASE boardSort \in {"RANK_ASC", "SCORE_DESC"} -> a.rank < b.rank
    [] boardSort = "SCORE_ASC"   -> a.rank > b.rank
    [] boardSort = "SOLVED_DESC" -> a.solved > b.solved \/ (a.solved = b.solved /\ a.rank < b.rank)
    [] boardSort = "NAME_ASC"    -> a.team < b.team

sortedLeaderboard    == stableSort(filteredLeaderboard, before)
totalItems           == Len(filteredLeaderboard)
validCurrentPage     == validPage(boardPage, totalItems, boardSize)
paginatedLeaderboard == slice(sortedLeaderboard, validCurrentPage, boardSize)

currentUserStanding == SelectSeq(Boards[leaderboard], LAMBDA e : e.team = MyTeam)

\* The row that is marked as the contestant's own team.
MarkedRows == SelectSeq(paginatedLeaderboard, LAMBDA e : e.team = MyTeam)

handleSearchChange(val) ==
  /\ val # teamSearch
  /\ teamSearch' = val /\ boardPage' = 1
  /\ UNCHANGED <<board, leaderboard, flights, inFlight, boardLocked, boardVisible, boardSort,
                 boardSize, boardFails, boardEvents>>

\* The orders a click on a column's head leads to, and those of the select.
headSort(col) ==
  CASE col \in {"RANK", "TOTAL XP"} -> IF boardSort = "RANK_ASC" THEN "SCORE_ASC" ELSE "RANK_ASC"
    [] col = "TEAM NAME" -> IF boardSort = "NAME_ASC" THEN "RANK_ASC" ELSE "NAME_ASC"
    [] col = "SOLVED"    -> IF boardSort = "SOLVED_DESC" THEN "RANK_ASC" ELSE "SOLVED_DESC"

handleSortChange(val) ==
  /\ boardSort' = val /\ boardPage' = 1
  /\ UNCHANGED <<board, leaderboard, flights, inFlight, boardLocked, boardVisible, teamSearch,
                 boardSize, boardFails, boardEvents>>

SortByHead == totalItems # 0 /\ \E col \in {"RANK", "TEAM NAME", "SOLVED"} : handleSortChange(headSort(col))

\* Pagination, which an empty table does not have.
onPageChange(p) ==
  /\ totalItems # 0 /\ p \in pageButtons(validCurrentPage, totalPages(totalItems, boardSize))
  /\ boardPage' = p
  /\ UNCHANGED <<board, leaderboard, flights, inFlight, boardLocked, boardVisible, teamSearch,
                 boardSort, boardSize, boardFails, boardEvents>>

onPageSizeChange(n) ==
  /\ totalItems # 0 /\ n # boardSize
  /\ boardSize' = n /\ boardPage' = 1
  /\ UNCHANGED <<board, leaderboard, flights, inFlight, boardLocked, boardVisible, teamSearch,
                 boardSort, boardFails, boardEvents>>

-----------------------------------------------------------------------------
(* Refreshing.                                                             *)

\* Mutant: a refresh does not wait for the one under way.
mayRefreshAlways == Len(flights) < MaxFlights

\* refresh returns at once where another is under way.
mayRefresh == ~inFlight /\ Len(flights) < MaxFlights

\* refresh: of the interval, of a page that becomes visible, of a new result or review, or
\* of the button, which only a running refresh disables.
refresh ==
  /\ mayRefresh
  /\ inFlight' = TRUE /\ flights' = Append(flights, <<>>)
  /\ UNCHANGED <<board, leaderboard, boardLocked, boardVisible, listVars, boardFails, boardEvents>>

Interval == ~boardLocked /\ boardVisible /\ refresh

Button == refresh

\* The server answers with its standings of this moment.
Answer(i) ==
  /\ flights[i] = <<>>
  /\ flights' = [flights EXCEPT ![i] = <<board>>]
  /\ UNCHANGED <<board, leaderboard, inFlight, boardLocked, boardVisible, listVars, boardFails, boardEvents>>

\* The rest of refresh: an empty answer, also that of a failed request, is not shown; the
\* finally clause lets the next request begin.
Deliver(i) ==
  /\ flights[i] # <<>>
  /\ LET next == flights[i][1]
     IN  leaderboard' = IF Boards[next] # <<>> THEN next ELSE leaderboard
  /\ inFlight' = FALSE
  /\ flights' = RemoveAt(flights, i)
  /\ UNCHANGED <<board, boardLocked, boardVisible, listVars, boardFails, boardEvents>>

\* getLeaderboardAction's request fails: it answers [].
Fail(i) ==
  /\ boardFails < MaxFails /\ boardFails' = boardFails + 1
  /\ flights' = RemoveAt(flights, i) /\ inFlight' = FALSE
  /\ UNCHANGED <<board, leaderboard, boardLocked, boardVisible, listVars, boardEvents>>

BoardEvent == boardEvents < MaxBoardEvents /\ boardEvents' = boardEvents + 1

\* A result or a review reaches the page: it refreshes unless the portal is locked.
NewResult ==
  /\ BoardEvent /\ ~boardLocked
  /\ IF mayRefresh THEN inFlight' = TRUE /\ flights' = Append(flights, <<>>)
     ELSE UNCHANGED <<inFlight, flights>>
  /\ UNCHANGED <<board, leaderboard, boardLocked, boardVisible, listVars, boardFails>>

\* The portal is locked or unlocked, the tab hidden or shown; a shown tab ticks at once.
LockOrHide ==
  /\ BoardEvent
  /\ \/ /\ boardLocked' = ~boardLocked /\ UNCHANGED <<boardVisible, inFlight, flights>>
     \/ /\ boardVisible' = ~boardVisible /\ UNCHANGED boardLocked
        /\ IF ~boardVisible /\ ~boardLocked /\ mayRefresh
           THEN inFlight' = TRUE /\ flights' = Append(flights, <<>>)
           ELSE UNCHANGED <<inFlight, flights>>
  /\ UNCHANGED <<board, leaderboard, listVars, boardFails>>

\* The standings change.
Standings ==
  /\ board < Len(Boards) /\ board' = board + 1
  /\ UNCHANGED <<leaderboard, flights, inFlight, boardLocked, boardVisible, listVars, boardFails, boardEvents>>

Init ==
  /\ board = 1 /\ leaderboard = 1 /\ flights = <<>> /\ inFlight = FALSE
  /\ boardLocked = FALSE /\ boardVisible = TRUE
  /\ teamSearch = "" /\ boardSort = "RANK_ASC" /\ boardPage = 1 /\ boardSize = DefaultSize
  /\ boardFails = 0 /\ boardEvents = 0

Next ==
  \/ Interval \/ Button \/ NewResult \/ LockOrHide \/ Standings \/ SortByHead
  \/ \E i \in DOMAIN flights : Answer(i) \/ Deliver(i) \/ Fail(i)
  \/ \E val \in DOMAIN Found : handleSearchChange(val)
  \/ \E val \in SortOptions : handleSortChange(val)
  \/ \E p \in 1..totalPages(totalItems, boardSize) : onPageChange(p)
  \/ \E n \in PageSizes : onPageSizeChange(n)

(* The interval ticks and requests come back.                              *)
Fairness ==
  /\ WF_boardVars(Interval)
  /\ WF_boardVars(\E i \in DOMAIN flights : Answer(i))
  /\ WF_boardVars(\E i \in DOMAIN flights : Deliver(i))

Spec == Init /\ [][Next]_boardVars /\ Fairness

-----------------------------------------------------------------------------
(* Properties.                                                             *)

\* Types.
TypeOK ==
  /\ board \in 1..Len(Boards) /\ leaderboard \in 1..Len(Boards)
  /\ \A i \in DOMAIN flights : flights[i] = <<>> \/ flights[i][1] \in 1..board
  /\ boardSort \in SortOptions /\ boardPage \in Nat \ {0} /\ boardSize \in PageSizes
  /\ inFlight \in BOOLEAN /\ boardLocked \in BOOLEAN /\ boardVisible \in BOOLEAN

\* Whatever is searched, sorted, paged or refreshed, in whatever order: where teams match,
\* the page shows some of them, and the pages together show every one exactly once - also
\* when a shorter board arrives while its last page is open.
NoEmptyPage ==
  totalItems # 0 => paginatedLeaderboard # <<>> /\ PagesPartition(sortedLeaderboard, boardSize)

\* The page is a live view of the standings: it never shows again an older board than it
\* showed, however intervals, results, visibility and the button start refreshes and
\* however long their answers take (inFlight).
Board == INSTANCE FreshView WITH Versions <- Len(Boards), source <- board, view <- leaderboard

BoardNeverGoesBack == Board!Spec

\* A visible, unlocked page catches up with standings that stay and are not empty, whatever
\* failed before (refresh's finally clause).
BoardWatched == boardVisible /\ ~boardLocked
BoardCurrent == leaderboard = board \/ Boards[board] = <<>>

BoardCatchesUp == <>[]BoardWatched => <>[]BoardCurrent
=============================================================================
