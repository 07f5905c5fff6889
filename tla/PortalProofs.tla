---------------------------- MODULE PortalProofs ----------------------------
(***************************************************************************)
(* Proofs about the parts of the portal (Portal).                          *)
(*                                                                         *)
(* The leaderboard page: whatever refreshes, answers and failures follow   *)
(* each other, it is a live view of the standings that never goes back to  *)
(* older ones.  Requests carry the standings of the moment they were       *)
(* served at, so a page that lets two of them overtake each other would go *)
(* back; that there is one at a time is the invariant.                     *)
(*                                                                         *)
(* The proctoring status: the invariant is the poll loop's one timer or    *)
(* refresh, with what each refresh has reached.  The banners and toasts:   *)
(* each toast has one timer, its own, and an outage that lasts is          *)
(* remembered so that "restored" comes up with a timer.  The lockdown:     *)
(* reports are a throttle's length apart, and an infraction is never       *)
(* further than that from one.                                             *)
(*                                                                         *)
(* The results: what is in the channel, in a poll's answer or in the list  *)
(* is news of one attempt, and what is remembered of an active submission  *)
(* is no verdict, unless the restore effect put it back.  The workspace:   *)
(* the history has each submission once and stays so when an autosave, a   *)
(* result or the server's list is merged into it, which is shown by        *)
(* counting the places of the rows kept and of the rows added.  The        *)
(* contest clock: the answers under way are of the past, so that the       *)
(* offset is never ahead, and the alerts fire from the longest threshold   *)
(* to the shortest.  The lists of submissions and challenges: the pages    *)
(* and the orders are the rows again, by the theorems about sorting and    *)
(* paging.                                                                 *)
(***************************************************************************)
EXTENDS Portal, Integers, ListTheorems

-----------------------------------------------------------------------------
(* The invariant.                                                          *)

\* inFlight is true while there is a request, which is the only one; what it was answered
\* is neither older than what is shown nor newer than the standings.
OneFlight ==
  IF inFlight
  THEN flights = << <<>> >> \/ \E v \in leaderboard..board : flights = << <<v>> >>
  ELSE flights = <<>>

\* What is shown are standings the server has had.
ShownIsPast == board \in 1..Len(Boards) /\ leaderboard \in 1..board

\* The search, the order and the page.
ViewTyped ==
  /\ boardSort \in Ranks!SortOptions /\ boardPage \in Nat \ {0} /\ boardSize \in PageSizes
  /\ boardLocked \in BOOLEAN /\ boardVisible \in BOOLEAN /\ inFlight \in BOOLEAN

BoardInv == OneFlight /\ ShownIsPast /\ ViewTyped

\* There is a first board.
LEMMA FirstBoard ==
    Len(Boards) \in Nat /\ 1 \in 1..Len(Boards)
  BY BoardAssumption DEF Ranks!BoardConstants

LEMMA BoardStarts ==
    Ranks!Init => BoardInv /\ Ranks!Board!Init
<1> SUFFICES ASSUME Ranks!Init PROVE BoardInv /\ Ranks!Board!Init
  OBVIOUS
<1>1. board = 1 /\ leaderboard = 1 /\ 1 \in 1..Len(Boards)
  BY FirstBoard DEF Ranks!Init
<1>2. ShownIsPast /\ Ranks!Board!Init
  BY <1>1 DEF ShownIsPast, Ranks!Board!Init
<1>3. OneFlight
  BY DEF Ranks!Init, OneFlight
<1>4. ViewTyped
  <2>1. boardSort \in Ranks!SortOptions
    BY DEF Ranks!Init, Ranks!SortOptions
  <2>2. boardPage \in Nat \ {0}
    <3>1. boardPage = 1
      BY Zenon DEF Ranks!Init
    <3> QED
      BY <3>1
  <2>4. boardSize \in PageSizes
    BY BoardAssumption, Zenon DEF Ranks!BoardConstants, Ranks!Init
  <2>3. boardLocked \in BOOLEAN /\ boardVisible \in BOOLEAN /\ inFlight \in BOOLEAN
    BY DEF Ranks!Init
  <2> QED
    BY <2>1, <2>2, <2>3, <2>4 DEF ViewTyped
<1> QED
  BY <1>2, <1>3, <1>4 DEF BoardInv

-----------------------------------------------------------------------------
(* Lists and pages.                                                        *)

\* The leaderboard's lists are cut and joined as every list is.
LEMMA SameLists ==
    \A s, places : Ranks!rowsAt(s, places) = rowsAt(s, places)
<1>1. \A S : Ranks!Cardinality(S) = Cardinality(S)
  BY DEF Ranks!Cardinality, Cardinality
<1> SUFFICES ASSUME NEW s, NEW places PROVE Ranks!rowsAt(s, places) = rowsAt(s, places)
  OBVIOUS
<1> DEFINE upTo(i) == {j \in places : j <= i}
<1>2. ASSUME NEW k
      PROVE  (CHOOSE i \in places : Ranks!Cardinality(upTo(i)) = k)
               = (CHOOSE i \in places : Cardinality(upTo(i)) = k)
  <2> HIDE DEF upTo
  <2>1. \A i : (i \in places /\ Ranks!Cardinality(upTo(i)) = k)
                 <=> (i \in places /\ Cardinality(upTo(i)) = k)
    BY <1>1
  <2> QED
    BY <2>1, Zenon
<1> DEFINE theirs(k) == CHOOSE i \in places : Ranks!Cardinality(upTo(i)) = k
           nth(k) == CHOOSE i \in places : Cardinality(upTo(i)) = k
<1>3. /\ Ranks!rowsAt(s, places) = [k \in 1..Ranks!Cardinality(places) |-> s[theirs(k)]]
      /\ rowsAt(s, places) = [k \in 1..Cardinality(places) |-> s[nth(k)]]
  BY Zenon DEF Ranks!rowsAt, rowsAt
<1>4. \A k : theirs(k) = nth(k)
  BY <1>2, Zenon
<1> HIDE DEF theirs, nth
<1> QED
  BY <1>1, <1>3, <1>4

LEMMA SamePages ==
    /\ \A n, size : Ranks!totalPages(n, size) = totalPages(n, size)
    /\ \A p, n, size : Ranks!validPage(p, n, size) = validPage(p, n, size)
    /\ \A s, p, size : Ranks!slice(s, p, size) = slice(s, p, size)
<1>1. \A S : Ranks!Max(S) = Max(S) /\ Ranks!Min(S) = Min(S)
  BY DEF Ranks!Max, Max, Ranks!Min, Min
<1>2. \A n, size : Ranks!totalPages(n, size) = totalPages(n, size)
  BY <1>1 DEF Ranks!totalPages, totalPages
<1> QED
  BY <1>1, <1>2 DEF Ranks!validPage, validPage, Ranks!slice, slice

LEMMA SamePartition ==
    \A s, size : Ranks!PagesPartition(s, size) <=> PagesPartition(s, size)
<1>1. \A f : Ranks!SumFunction(f) = SumFunction(f)
  BY DEF Ranks!SumFunction, SumFunction, Ranks!SumFunctionOnSet, SumFunctionOnSet,
         Ranks!FoldFunctionOnSet, FoldFunctionOnSet, Ranks!MapThenFoldSet, MapThenFoldSet
<1> QED
  BY <1>1, SamePages, ZenonT(40) DEF Ranks!PagesPartition, PagesPartition

-----------------------------------------------------------------------------
(* Requests.                                                               *)

\* A refresh begins only while there is no request.
LEMMA FlightBegins ==
    ASSUME BoardInv, Ranks!mayRefresh, inFlight' = TRUE, flights' = Append(flights, <<>>),
           UNCHANGED <<board, leaderboard>>
    PROVE  OneFlight' /\ ShownIsPast'
<1>1. flights = <<>>
  BY DEF BoardInv, OneFlight, Ranks!mayRefresh
<1>2. flights' = << <<>> >>
  BY <1>1
<1> QED
  BY <1>2 DEF BoardInv, OneFlight, ShownIsPast

\* The only request is the first.
LEMMA OnlyFlight ==
    ASSUME BoardInv, NEW i \in DOMAIN flights
    PROVE  /\ i = 1 /\ inFlight
           /\ flights = << <<>> >> \/ \E v \in leaderboard..board : flights = << <<v>> >>
           /\ Ranks!RemoveAt(flights, i) = <<>>
<1>1. /\ i = 1 /\ inFlight
      /\ flights = << <<>> >> \/ \E v \in leaderboard..board : flights = << <<v>> >>
  BY DEF BoardInv, OneFlight
<1>2. PICK x : flights = <<x>>
  BY <1>1
<1>3. SubSeq(flights, 1, 0) = <<>> /\ SubSeq(flights, 2, 1) = <<>>
  BY SubSeqEmpty
<1>4. Ranks!RemoveAt(flights, i) = <<>> \o <<>>
  BY <1>1, <1>2, <1>3 DEF Ranks!RemoveAt
<1> QED
  BY <1>1, <1>4

LEMMA AnswerSafe ==
    ASSUME BoardInv, NEW i \in DOMAIN flights, Ranks!Answer(i)
    PROVE  OneFlight' /\ ShownIsPast'
<1>1. i = 1 /\ flights = << <<>> >> /\ inFlight
  BY OnlyFlight DEF Ranks!Answer
<1>2. flights' = << <<board>> >>
  BY <1>1 DEF Ranks!Answer
<1> QED
  BY <1>1, <1>2 DEF Ranks!Answer, BoardInv, OneFlight, ShownIsPast

\* What is delivered is as new as what is shown, or newer.
LEMMA DeliverSafe ==
    ASSUME BoardInv, NEW i \in DOMAIN flights, Ranks!Deliver(i)
    PROVE  /\ leaderboard' \in leaderboard..board
           /\ OneFlight' /\ ShownIsPast'
<1>1. PICK v \in leaderboard..board : i = 1 /\ flights = << <<v>> >>
  BY OnlyFlight DEF Ranks!Deliver
<1>2. flights[i][1] = v
  BY <1>1
<1>3. leaderboard' \in {v, leaderboard}
  BY <1>2 DEF Ranks!Deliver
<1>4. flights' = <<>> /\ inFlight' = FALSE /\ board' = board
  BY OnlyFlight DEF Ranks!Deliver
<1> QED
  BY <1>1, <1>3, <1>4 DEF BoardInv, OneFlight, ShownIsPast

-----------------------------------------------------------------------------
(* Every step.                                                             *)

\* The rows that match are a list, and so are they when sorted, as long as before.
LEMMA MatchesAreList ==
    ASSUME BoardInv
    PROVE  /\ Ranks!totalItems \in Nat
           /\ \E R : Ranks!sortedLeaderboard \in Seq(R)
           /\ Len(Ranks!sortedLeaderboard) = Ranks!totalItems
<1> DEFINE rows == Boards[leaderboard]
           places == {i \in DOMAIN rows : rows[i].team \in Found[teamSearch]}
<1>1. leaderboard \in 1..Len(Boards)
  BY FirstBoard DEF BoardInv, ShownIsPast
<1>2. rows \in Seq(Ranks!Standing)
  BY BoardAssumption, <1>1 DEF Ranks!BoardConstants
<1>3. IsFiniteSet(places)
  <2>1. IsFiniteSet(1..Len(rows)) /\ DOMAIN rows = 1..Len(rows)
    BY <1>2, FS_Interval
  <2> QED
    BY <2>1, FS_Subset
<1>4. Ranks!filteredLeaderboard = Ranks!rowsAt(rows, places)
  BY DEF Ranks!filteredLeaderboard
<1> DEFINE n == Ranks!totalItems
<1>5. n \in Nat /\ DOMAIN Ranks!filteredLeaderboard = 1..n
  <2> HIDE DEF places, rows
  <2> QED
    BY <1>3, <1>4, RowsAtIsList, SameLists DEF Ranks!totalItems
<1> DEFINE f == Ranks!sortedLeaderboard
<1>6. DOMAIN f = 1..n /\ f = [k \in 1..n |-> f[k]]
  <2> HIDE DEF n
  <2> QED
    BY <1>5 DEF Ranks!sortedLeaderboard, Ranks!stableSort
<1>7. f \in Seq({f[k] : k \in 1..n}) /\ Len(f) = n
  <2> HIDE DEF n, f
  <2> QED
    BY <1>5, <1>6, FunctionIsList
<1> QED
  BY <1>5, <1>7

\* No step but these changes the requests, the standings or what is shown.
LEMMA ListSteps ==
    ASSUME BoardInv,
           \/ Ranks!SortByHead
           \/ \E val \in DOMAIN Found : Ranks!handleSearchChange(val)
           \/ \E val \in Ranks!SortOptions : Ranks!handleSortChange(val)
           \/ \E p \in 1..Ranks!totalPages(Ranks!totalItems, boardSize) : Ranks!onPageChange(p)
           \/ \E n \in PageSizes : Ranks!onPageSizeChange(n)
    PROVE  BoardInv' /\ UNCHANGED <<board, leaderboard>>
<1>1. UNCHANGED <<board, leaderboard, flights, inFlight, boardLocked, boardVisible>>
  BY DEF Ranks!SortByHead, Ranks!handleSearchChange, Ranks!handleSortChange,
         Ranks!onPageChange, Ranks!onPageSizeChange
<1>2. boardSort' \in Ranks!SortOptions
  <2>1. \A col \in {"RANK", "TEAM NAME", "SOLVED"} : Ranks!headSort(col) \in Ranks!SortOptions
    BY DEF Ranks!headSort, Ranks!SortOptions
  <2> QED
    BY <2>1
       DEF BoardInv, ViewTyped, Ranks!SortByHead, Ranks!handleSearchChange,
           Ranks!handleSortChange, Ranks!onPageChange, Ranks!onPageSizeChange
<1>3. boardPage' \in Nat \ {0}
  <2>1. Ranks!totalPages(Ranks!totalItems, boardSize) \in Nat
    BY BoardAssumption, MatchesAreList, TotalPages, SamePages
       DEF Ranks!BoardConstants, BoardInv, ViewTyped
  <2>2. \A p \in 1..Ranks!totalPages(Ranks!totalItems, boardSize) : p \in Nat \ {0}
    BY <2>1
  <2>3. CASE \E p \in 1..Ranks!totalPages(Ranks!totalItems, boardSize) : Ranks!onPageChange(p)
    <3>1. \A p : Ranks!onPageChange(p) => boardPage' = p
      BY DEF Ranks!onPageChange
    <3> QED
      BY <2>2, <2>3, <3>1
  <2>4. \A x : Ranks!handleSearchChange(x) \/ Ranks!handleSortChange(x) \/ Ranks!onPageSizeChange(x)
               => boardPage' = 1
    BY DEF Ranks!handleSearchChange, Ranks!handleSortChange, Ranks!onPageSizeChange
  <2>5. Ranks!SortByHead => boardPage' = 1
    BY <2>4 DEF Ranks!SortByHead
  <2> QED
    BY <2>3, <2>4, <2>5
<1>4. boardSize' \in PageSizes
  BY DEF BoardInv, ViewTyped, Ranks!SortByHead, Ranks!handleSearchChange,
         Ranks!handleSortChange, Ranks!onPageChange, Ranks!onPageSizeChange
<1> QED
  BY <1>1, <1>2, <1>3, <1>4 DEF BoardInv, OneFlight, ShownIsPast, ViewTyped

\* The page's steps, and those of the server's standings.
LEMMA BoardStep ==
    ASSUME BoardInv, [Ranks!Next]_Ranks!boardVars
    PROVE  /\ BoardInv'
           /\ [Ranks!Board!Next]_<<board, leaderboard>>
<1> DEFINE sees == Ranks!Board!Next \/ UNCHANGED <<board, leaderboard>>
<1>1. CASE Ranks!Interval
  <2>1. Ranks!refresh
    BY <1>1 DEF Ranks!Interval
  <2>2. OneFlight' /\ ShownIsPast'
    BY <2>1, FlightBegins DEF Ranks!refresh
  <2> QED
    BY <2>1, <2>2 DEF Ranks!refresh, Ranks!listVars, BoardInv, ViewTyped
<1>2. CASE Ranks!Button
  <2>1. Ranks!refresh
    BY <1>2 DEF Ranks!Button
  <2>2. OneFlight' /\ ShownIsPast'
    BY <2>1, FlightBegins DEF Ranks!refresh
  <2> QED
    BY <2>1, <2>2 DEF Ranks!refresh, Ranks!listVars, BoardInv, ViewTyped
<1>3. CASE Ranks!NewResult
  <2>1. OneFlight' /\ ShownIsPast'
    <3>1. CASE Ranks!mayRefresh
      BY <1>3, <3>1, FlightBegins DEF Ranks!NewResult
    <3>2. CASE ~Ranks!mayRefresh
      BY <1>3, <3>2 DEF Ranks!NewResult, BoardInv, OneFlight, ShownIsPast
    <3> QED
      BY <3>1, <3>2
  <2> QED
    BY <1>3, <2>1 DEF Ranks!NewResult, Ranks!listVars, BoardInv, ViewTyped
<1>4. CASE Ranks!LockOrHide
  <2>1. OneFlight' /\ ShownIsPast'
    <3>1. CASE UNCHANGED <<inFlight, flights>>
      BY <1>4, <3>1 DEF Ranks!LockOrHide, BoardInv, OneFlight, ShownIsPast
    <3>2. CASE Ranks!mayRefresh /\ inFlight' = TRUE /\ flights' = Append(flights, <<>>)
      BY <1>4, <3>2, FlightBegins DEF Ranks!LockOrHide
    <3> QED
      BY <1>4, <3>1, <3>2 DEF Ranks!LockOrHide
  <2>2. boardLocked' \in BOOLEAN /\ boardVisible' \in BOOLEAN /\ inFlight' \in BOOLEAN
    BY <1>4 DEF Ranks!LockOrHide, BoardInv, ViewTyped
  <2> QED
    BY <1>4, <2>1, <2>2 DEF Ranks!LockOrHide, Ranks!listVars, BoardInv, ViewTyped
<1>5. CASE Ranks!Standings
  <2>1. board' = board + 1 /\ board' \in 1..Len(Boards) /\ UNCHANGED leaderboard
    BY <1>5, FirstBoard DEF Ranks!Standings, BoardInv, ShownIsPast
  <2>2. OneFlight'
    BY <1>5, <2>1 DEF Ranks!Standings, BoardInv, OneFlight, ShownIsPast
  <2>3. Ranks!Board!Next
    BY <1>5 DEF Ranks!Standings, Ranks!Board!Next, Ranks!Board!SourceMoves
  <2> QED
    BY <1>5, <2>1, <2>2, <2>3
       DEF Ranks!Standings, Ranks!listVars, BoardInv, ShownIsPast, ViewTyped
<1>6. ASSUME NEW i \in DOMAIN flights, Ranks!Answer(i)
      PROVE  BoardInv' /\ sees
  BY <1>6, AnswerSafe DEF Ranks!Answer, Ranks!listVars, BoardInv, ViewTyped
<1>7. ASSUME NEW i \in DOMAIN flights, Ranks!Deliver(i)
      PROVE  BoardInv' /\ sees
  <2>1. leaderboard' \in leaderboard..board /\ OneFlight' /\ ShownIsPast'
    BY <1>7, DeliverSafe
  <2>2. sees
    BY <1>7, <2>1
       DEF Ranks!Deliver, BoardInv, ShownIsPast, Ranks!Board!Next, Ranks!Board!ViewMoves
  <2> QED
    BY <1>7, <2>1, <2>2 DEF Ranks!Deliver, Ranks!listVars, BoardInv, ViewTyped
<1>8. ASSUME NEW i \in DOMAIN flights, Ranks!Fail(i)
      PROVE  BoardInv' /\ sees
  <2>1. flights' = <<>> /\ inFlight' = FALSE
    BY <1>8, OnlyFlight DEF Ranks!Fail
  <2> QED
    BY <1>8, <2>1 DEF Ranks!Fail, Ranks!listVars, BoardInv, OneFlight, ShownIsPast, ViewTyped
<1>9. CASE \/ Ranks!SortByHead
           \/ \E val \in DOMAIN Found : Ranks!handleSearchChange(val)
           \/ \E val \in Ranks!SortOptions : Ranks!handleSortChange(val)
           \/ \E p \in 1..Ranks!totalPages(Ranks!totalItems, boardSize) : Ranks!onPageChange(p)
           \/ \E n \in PageSizes : Ranks!onPageSizeChange(n)
  BY <1>9, ListSteps
<1>10. CASE UNCHANGED Ranks!boardVars
  BY <1>10 DEF Ranks!boardVars, BoardInv, OneFlight, ShownIsPast, ViewTyped
<1> QED
  BY <1>1, <1>2, <1>3, <1>4, <1>5, <1>6, <1>7, <1>8, <1>9, <1>10 DEF Ranks!Next

-----------------------------------------------------------------------------
(* Theorems.                                                               *)

\* There is one request at a time, and what it brings is not older than what is shown.
THEOREM BoardInvariant ==
    Ranks!Spec => []BoardInv
<1>1. Ranks!Init => BoardInv
  BY BoardStarts
<1>2. BoardInv /\ [Ranks!Next]_Ranks!boardVars => BoardInv'
  BY BoardStep
<1> QED
  BY <1>1, <1>2, PTL DEF Ranks!Spec

\* The variables of the page have their types.
THEOREM TypeCorrect ==
    Ranks!Spec => []Ranks!TypeOK
<1>1. BoardInv => Ranks!TypeOK
  BY BoardAssumption
     DEF Ranks!BoardConstants, BoardInv, OneFlight, ShownIsPast, ViewTyped, Ranks!TypeOK
<1> QED
  BY <1>1, BoardInvariant, PTL

\* Whatever is searched, sorted, paged or refreshed, in whatever order: where teams match, the
\* page shows some, and the pages hold each of them exactly once.
THEOREM PageShowsMatches ==
    Ranks!Spec => []Ranks!NoEmptyPage
<1>1. BoardInv => Ranks!NoEmptyPage
  <2> SUFFICES ASSUME BoardInv PROVE Ranks!NoEmptyPage
    OBVIOUS
  <2>1. boardSize \in Nat \ {0} /\ boardPage \in Nat \ {0}
    BY BoardAssumption DEF Ranks!BoardConstants, BoardInv, ViewTyped
  <2>2. PICK R : Ranks!sortedLeaderboard \in Seq(R)
    BY MatchesAreList
  <2>3. Ranks!totalItems \in Nat /\ Len(Ranks!sortedLeaderboard) = Ranks!totalItems
    BY MatchesAreList
  <2>4. Ranks!PagesPartition(Ranks!sortedLeaderboard, boardSize)
    BY <2>1, <2>2, PagesShareRows, SamePartition
  <2>5. ASSUME Ranks!totalItems # 0 PROVE Ranks!paginatedLeaderboard # <<>>
    <3>1. Ranks!sortedLeaderboard # <<>>
      BY <2>2, <2>3, <2>5
    <3> DEFINE sorted == Ranks!sortedLeaderboard
               place == Ranks!validPage(boardPage, Len(sorted), boardSize)
    <3>2. Ranks!slice(sorted, place, boardSize) # <<>>
      BY <2>1, <2>2, <3>1, PageHasRows, SamePages
    <3> QED
      BY <2>3, <3>2 DEF Ranks!paginatedLeaderboard, Ranks!validCurrentPage
  <2> QED
    BY <2>4, <2>5 DEF Ranks!NoEmptyPage
<1> QED
  BY <1>1, BoardInvariant, PTL

\* The page is a live view of the standings that never goes back (the refinement of
\* FreshView: every step of the page is one of the view or changes nothing it shows).
THEOREM BoardIsFreshView ==
    Ranks!Spec => Ranks!BoardNeverGoesBack
<1>1. Ranks!Init => Ranks!Board!Init
  BY BoardStarts
<1>2. BoardInv /\ [Ranks!Next]_Ranks!boardVars => [Ranks!Board!Next]_<<board, leaderboard>>
  BY BoardStep
<1> QED
  BY <1>1, <1>2, BoardInvariant, PTL DEF Ranks!Spec, Ranks!BoardNeverGoesBack, Ranks!Board!Spec

\* What the page promises: every matching team on one page, and never an older board again.
THEOREM BoardPromise == Ranks!Spec => BoardHolds
  BY PageShowsMatches, BoardIsFreshView, PTL DEF BoardHolds

-----------------------------------------------------------------------------
(* The proctoring status.                                                  *)

\* What a refresh has reached: nothing, its request, or the server's verdict.
RefreshStages == {<<>>, <<"sent">>} \cup {<<"answered", g>> : g \in Proctor!SelfStatuses}

\* The types, those of the refreshes under way, and the loop's one timer or refresh.
ProctorInv ==
  /\ Proctor!TypeOK
  /\ refreshing \in [Proctor!Refreshers -> RefreshStages]
  /\ Proctor!PollLoopAlive

\* What the server's render shows until the first refresh.
LEMMA SeedTyped ==
    ASSUME NEW self \in Proctor!SelfStatuses
    PROVE  /\ Proctor!seed(self).state \in [self : Proctor!SelfStatuses, local : Proctor!Agents]
           /\ Proctor!seed(self).resolved \in BOOLEAN
  BY DEF Proctor!seed, Proctor!Agents

\* A page that is loaded has a refresh under way, or a timer where it is hidden.
LEMMA LoadSafe ==
    ASSUME gate \in Proctor!SelfStatuses, hidden \in BOOLEAN
    PROVE  LET first == [p \in Proctor!Refreshers |-> IF p = "tick" /\ ~hidden THEN <<"sent">> ELSE <<>>]
           IN  /\ first \in [Proctor!Refreshers -> RefreshStages]
               /\ hidden <=> first["tick"] = <<>>
  BY DEF Proctor!Refreshers, RefreshStages

LEMMA ProctorStarts == Proctor!Init => ProctorInv
<1> SUFFICES ASSUME Proctor!Init PROVE ProctorInv
  OBVIOUS
<1>1. gate \in Proctor!SelfStatuses /\ hidden \in BOOLEAN
  BY DEF Proctor!Init
<1>2. Proctor!TypeOK
  BY <1>1, SeedTyped DEF Proctor!Init, Proctor!TypeOK, Proctor!Agents, Proctor!Permissions
<1>3. refreshing \in [Proctor!Refreshers -> RefreshStages] /\ Proctor!PollLoopAlive
  BY <1>1, LoadSafe DEF Proctor!Init, Proctor!PollLoopAlive
<1> QED
  BY <1>2, <1>3 DEF ProctorInv

\* The end of a refresh: the loop's sets its next timer, a request's leaves it alone.
LEMMA FinishSafe ==
    ASSUME ProctorInv, NEW p \in Proctor!Refreshers, refreshing[p] # <<>>,
           refreshing' = [refreshing EXCEPT ![p] = <<>>], timer' = Proctor!reschedule(p)
    PROVE  /\ refreshing' \in [Proctor!Refreshers -> RefreshStages]
           /\ Proctor!PollLoopAlive'
           /\ timer' \in BOOLEAN
  BY DEF ProctorInv, Proctor!TypeOK, Proctor!PollLoopAlive, Proctor!Refreshers,
         Proctor!reschedule, RefreshStages

\* What the rest of a refresh does: the verdict it carries is one of the gate's.
LEMMA ContinueSafe ==
    ASSUME ProctorInv, NEW p \in Proctor!Refreshers, Proctor!Continue(p)
    PROVE  ProctorInv'
<1>1. /\ Proctor!TypeOK /\ refreshing \in [Proctor!Refreshers -> RefreshStages]
      /\ UNCHANGED <<gate, agent, hidden>>
  BY DEF ProctorInv, Proctor!Continue
<1>2. refreshing[p] # <<>> /\ refreshing[p][2] \in Proctor!SelfStatuses
  <2>1. Len(refreshing[p]) = 2 /\ refreshing[p] \in RefreshStages
    BY <1>1 DEF Proctor!Continue
  <2> QED
    BY <2>1 DEF RefreshStages
<1>3. /\ permission' \in Proctor!Permissions
      /\ \E local \in Proctor!Agents,
            access \in {"not-required", "granted", "denied", "unavailable"} \cup Proctor!Permissions :
           Proctor!Finish(p, refreshing[p][2], local, access)
  <2> DEFINE self == refreshing[p][2]
  <2>1. CASE /\ ~Proctor!needsLocalProbe(self)
             /\ Proctor!Finish(p, self, "none", "not-required")
             /\ UNCHANGED permission
    BY <1>1, <2>1 DEF Proctor!TypeOK, Proctor!Agents
  <2>2. CASE /\ Proctor!Finish(p, self, "none", permission)
             /\ UNCHANGED permission
    BY <1>1, <2>2 DEF Proctor!TypeOK, Proctor!Agents
  <2>3. CASE /\ permission' \in IF permission = "prompt" THEN {"granted", "denied"} ELSE {permission}
             /\ LET local == Proctor!readLocalAgent(permission')
                IN  Proctor!Finish(p, self, local, IF local # "none" THEN "granted"
                                          ELSE IF permission' = "denied" THEN "denied" ELSE "unavailable")
    <3>1. permission' \in Proctor!Permissions
      BY <1>1, <2>3 DEF Proctor!TypeOK, Proctor!Permissions
    <3>2. Proctor!readLocalAgent(permission') \in Proctor!Agents
      BY <1>1 DEF Proctor!TypeOK, Proctor!Agents, Proctor!readLocalAgent
    <3> QED
      BY <2>3, <3>1, <3>2
  <2> QED
    BY <2>1, <2>2, <2>3 DEF Proctor!Continue
<1>4. PICK local \in Proctor!Agents,
           access \in {"not-required", "granted", "denied", "unavailable"} \cup Proctor!Permissions :
             Proctor!Finish(p, refreshing[p][2], local, access)
  BY <1>3
<1>5. /\ seen' = [self |-> refreshing[p][2], local |-> local]
      /\ resolved' = TRUE /\ localAccess' = access
      /\ refreshing' = [refreshing EXCEPT ![p] = <<>>] /\ timer' = Proctor!reschedule(p)
  BY <1>4 DEF Proctor!Finish
<1>6. /\ refreshing' \in [Proctor!Refreshers -> RefreshStages]
      /\ Proctor!PollLoopAlive' /\ timer' \in BOOLEAN
  BY <1>2, <1>5, FinishSafe
<1>7. Proctor!TypeOK'
  BY <1>1, <1>2, <1>3, <1>5, <1>6 DEF Proctor!TypeOK, Proctor!Permissions
<1> QED
  BY <1>6, <1>7 DEF ProctorInv

\* A page that is loaded anew.
LEMMA ReloadSafe ==
    ASSUME ProctorInv, Proctor!Load
    PROVE  ProctorInv'
<1>1. gate \in Proctor!SelfStatuses /\ hidden \in BOOLEAN
  BY DEF ProctorInv, Proctor!TypeOK
<1>2. Proctor!TypeOK'
  BY <1>1, SeedTyped DEF Proctor!Load, ProctorInv, Proctor!TypeOK, Proctor!worldVars
<1>3. refreshing' \in [Proctor!Refreshers -> RefreshStages] /\ Proctor!PollLoopAlive'
  BY <1>1, LoadSafe DEF Proctor!Load, Proctor!PollLoopAlive
<1> QED
  BY <1>2, <1>3 DEF ProctorInv

LEMMA ProctorStep ==
    ASSUME ProctorInv, [Proctor!Next]_Proctor!proctorVars
    PROVE  ProctorInv'
<1> USE DEF ProctorInv, Proctor!TypeOK, Proctor!PollLoopAlive, Proctor!worldVars
<1>1. CASE Proctor!tick
  BY <1>1 DEF Proctor!tick, Proctor!Refreshers, RefreshStages
<1>2. CASE Proctor!handleVisibilityChange
  <2>1. hidden' \in BOOLEAN /\ timer' \in BOOLEAN
    BY <1>2, Zenon DEF Proctor!handleVisibilityChange
  <2>2. CASE UNCHANGED <<timer, refreshing>>
    BY <1>2, <2>1, <2>2 DEF Proctor!handleVisibilityChange
  <2>3. CASE refreshing["tick"] = <<>> /\ timer' = FALSE
             /\ refreshing' = [refreshing EXCEPT !["tick"] = <<"sent">>]
    BY <1>2, <2>1, <2>3 DEF Proctor!handleVisibilityChange, Proctor!Refreshers, RefreshStages
  <2>4. CASE refreshing["tick"] # <<>> /\ timer' = FALSE /\ UNCHANGED refreshing
    BY <1>2, <2>1, <2>4 DEF Proctor!handleVisibilityChange
  <2> QED
    BY <1>2, <2>2, <2>3, <2>4 DEF Proctor!handleVisibilityChange
<1>3. CASE Proctor!requestLocalAccess
  BY <1>3 DEF Proctor!requestLocalAccess, Proctor!Refreshers, RefreshStages
<1>4. CASE Proctor!Reload \/ Proctor!Reverify
  BY <1>4, ReloadSafe DEF Proctor!Reload, Proctor!Reverify
<1>5. CASE Proctor!WorldChanges
  BY <1>5 DEF Proctor!WorldChanges
<1>6. ASSUME NEW p \in Proctor!Refreshers, Proctor!AnswerSelf(p)
      PROVE  ProctorInv'
  BY <1>6 DEF Proctor!AnswerSelf, Proctor!Refreshers, RefreshStages
<1>7. ASSUME NEW p \in Proctor!Refreshers, Proctor!Continue(p)
      PROVE  ProctorInv'
  BY <1>7, ContinueSafe
<1>8. ASSUME NEW p \in Proctor!Refreshers, Proctor!RefreshThrows(p)
      PROVE  ProctorInv'
  <2>1. refreshing[p] # <<>>
    BY <1>8 DEF Proctor!RefreshThrows
  <2> QED
    BY <1>8, <2>1, FinishSafe DEF Proctor!RefreshThrows
<1>9. CASE UNCHANGED Proctor!proctorVars
  BY <1>9 DEF Proctor!proctorVars
<1> QED
  BY <1>1, <1>2, <1>3, <1>4, <1>5, <1>6, <1>7, <1>8, <1>9 DEF Proctor!Next

LEMMA ProctorInvariant == Proctor!Spec => []ProctorInv
<1>1. Proctor!Init => ProctorInv
  BY ProctorStarts
<1>2. ProctorInv /\ [Proctor!Next]_Proctor!proctorVars => ProctorInv'
  BY ProctorStep
<1> QED
  BY <1>1, <1>2, PTL DEF Proctor!Spec

\* What the provider holds is always of its types: the gate's verdict, the agent and the
\* state of the access to it (proctor-provider.tsx).
THEOREM ProctorTypes == Proctor!Spec => []Proctor!TypeOK
<1>1. ProctorInv => Proctor!TypeOK
  BY DEF ProctorInv
<1> QED
  BY <1>1, ProctorInvariant, PTL

\* The poll loop of the provider never dies and never doubles (tick, its finally clause,
\* handleVisibilityChange, and the reload of the page).
THEOREM PollLoop == Proctor!Spec => []Proctor!PollLoopAlive
<1>1. ProctorInv => Proctor!PollLoopAlive
  BY DEF ProctorInv
<1> QED
  BY <1>1, ProctorInvariant, PTL

\* The pill says "Active & Verified" only where a healthy agent here backs the server's
\* word: all that resolve lets pass besides is exempt, in a browser, or without an answer.
THEOREM VerifiedByAgent == Proctor!Spec => []Proctor!VerifiedMeansAgent
<1>1. ASSUME Proctor!TypeOK, Proctor!ProctorPill = "Active & Verified"
      PROVE  seen.self = "allowed" /\ seen.local = "healthy"
  <2>1. seen.self \in Proctor!SelfStatuses /\ seen.local \in Proctor!Agents
    BY <1>1 DEF Proctor!TypeOK
  <2>2. /\ resolved /\ Proctor!Code = "none"
        /\ seen.local # "starting" /\ seen.self \notin {"exempt", "null", "web"}
    BY <1>1 DEF Proctor!ProctorPill
  <2> QED
    BY <2>1, <2>2 DEF Proctor!Code, Proctor!resolve, Proctor!SelfStatuses, Proctor!Agents
<1>2. ProctorInv => Proctor!VerifiedMeansAgent
  BY <1>1 DEF ProctorInv, Proctor!VerifiedMeansAgent
<1> QED
  BY <1>2, ProctorInvariant, PTL

\* What the status promises: the poll loop neither dies nor doubles, and what is shown as
\* verified is an agent that is healthy here.
THEOREM ProctorPromise == Proctor!Spec => []ProctorHolds
  BY PollLoop, VerifiedByAgent, PTL DEF ProctorHolds

-----------------------------------------------------------------------------
(* The banners and toasts of the frame.                                    *)


\* One timer at most ends the restored banner.  An outage that lasts is remembered, so that
\* its end always puts the banner up again, with a timer; during it the banner may be up
\* without one, behind the news of the outage.
RestoredTimed ==
  /\ Banner!isOffline => wasOffline
  /\ restoredTimers = {} \/ \E t \in 1..RestoredTime : restoredTimers = {t}
  /\ showRestored /\ ~Banner!isOffline => restoredTimers # {}

\* A toast's only timer is its own: it has run for as long as the toast is shown.
ToastTimed(k) ==
  \/ toast[k] = <<>> /\ toastTimers[k] = {}
  \/ \E n \in 0..(ToastTime[k] - 1) : toast[k] = <<n>> /\ toastTimers[k] = {ToastTime[k] - n}

BannerInv ==
  /\ isOnline \in BOOLEAN /\ serverReachable \in BOOLEAN /\ wasOffline \in BOOLEAN
  /\ showRestored \in BOOLEAN /\ closes \in Nat
  /\ DOMAIN toast = Banner!Kinds /\ DOMAIN toastTimers = Banner!Kinds
  /\ RestoredTimed
  /\ \A k \in Banner!Kinds : ToastTimed(k)

\* The effect of a change between on- and offline.
LEMMA RestoredEffectSafe ==
    ASSUME BannerInv,
           NEW offline \in BOOLEAN, offline # Banner!isOffline, Banner!restoredEffect(offline),
           offline <=> Banner!isOffline'
    PROVE  RestoredTimed' /\ wasOffline' \in BOOLEAN /\ showRestored' \in BOOLEAN
<1>1. /\ Banner!isOffline => wasOffline
      /\ wasOffline \in BOOLEAN /\ showRestored \in BOOLEAN
  BY DEF BannerInv, RestoredTimed
<1>2. CASE wasOffline /\ ~offline
  <2>1. /\ showRestored' = TRUE /\ wasOffline' = TRUE /\ restoredTimers' = {RestoredTime}
        /\ RestoredTime \in 1..RestoredTime
    BY BannerAssumption, <1>1, <1>2 DEF Banner!restoredEffect, Banner!BannerConstants
  <2> QED
    BY <2>1 DEF RestoredTimed
<1>3. CASE ~(wasOffline /\ ~offline)
  <2>1. wasOffline' = offline /\ restoredTimers' = {} /\ showRestored' = showRestored
    BY <1>3 DEF Banner!restoredEffect
  <2>2. offline
    <3>1. Banner!isOffline \in BOOLEAN
      BY DEF Banner!isOffline, Banner!Offline
    <3> QED
      BY <1>1, <1>3, <3>1
  <2> QED
    BY <1>1, <2>1, <2>2 DEF RestoredTimed
<1> QED
  BY <1>2, <1>3

LEMMA BannerStarts ==
    Banner!Init => BannerInv
<1> SUFFICES ASSUME Banner!Init PROVE BannerInv
  OBVIOUS
<1>1. RestoredTimed
  BY DEF Banner!Init, RestoredTimed, Banner!isOffline
<1>2. ASSUME NEW k \in Banner!Kinds PROVE ToastTimed(k)
  BY <1>2 DEF Banner!Init, ToastTimed
<1>3. wasOffline \in BOOLEAN
  BY DEF Banner!Init, Banner!Offline
<1> QED
  BY <1>1, <1>2, <1>3 DEF BannerInv, Banner!Init

\* The network banner's part is kept where its variables are, and the toasts' likewise.
LEMMA RestSafe ==
    ASSUME BannerInv
    PROVE  /\ UNCHANGED <<isOnline, serverReachable, wasOffline, showRestored, restoredTimers>>
                => RestoredTimed'
           /\ UNCHANGED <<toast, toastTimers>> => \A k \in Banner!Kinds : ToastTimed(k)'
<1>1. ASSUME UNCHANGED <<isOnline, serverReachable, wasOffline, showRestored, restoredTimers>>
      PROVE  RestoredTimed'
  BY <1>1 DEF BannerInv, RestoredTimed, Banner!isOffline, Banner!Offline
<1>2. ASSUME UNCHANGED <<toast, toastTimers>>
      PROVE  \A k \in Banner!Kinds : ToastTimed(k)'
  BY <1>2 DEF BannerInv, ToastTimed
<1> QED
  BY <1>1, <1>2

LEMMA NetworkSafe ==
    ASSUME BannerInv, Banner!NetworkChanges
    PROVE  BannerInv'
<1>1. isOnline' \in BOOLEAN /\ serverReachable' \in BOOLEAN
  BY DEF BannerInv, Banner!NetworkChanges
<1>2. /\ UNCHANGED <<toast, toastTimers, closes>>
      /\ \A k \in Banner!Kinds : ToastTimed(k)'
  BY RestSafe DEF Banner!NetworkChanges, Banner!toastVars
<1>3. RestoredTimed' /\ wasOffline' \in BOOLEAN /\ showRestored' \in BOOLEAN
  <2> DEFINE offline == Banner!Offline(isOnline', serverReachable')
  <2>1. offline \in BOOLEAN /\ (offline <=> Banner!isOffline')
    BY DEF Banner!Offline, Banner!isOffline
  <2>2. CASE offline # Banner!isOffline
    <3>1. Banner!restoredEffect(offline)
      BY <2>2 DEF Banner!NetworkChanges
    <3> HIDE DEF offline
    <3> QED
      BY <2>1, <2>2, <3>1, RestoredEffectSafe
  <2>3. CASE offline = Banner!isOffline
    <3>1. UNCHANGED <<wasOffline, showRestored, restoredTimers>>
      BY <2>3 DEF Banner!NetworkChanges
    <3>2. Banner!isOffline' <=> Banner!isOffline
      BY <2>1, <2>3
    <3> QED
      BY <3>1, <3>2 DEF BannerInv, RestoredTimed
  <2> QED
    BY <2>2, <2>3
<1> QED
  BY <1>1, <1>2, <1>3 DEF BannerInv

LEMMA RetrySafe ==
    ASSUME BannerInv, Banner!Retry
    PROVE  BannerInv'
<1>1. RestoredTimed' /\ wasOffline' \in BOOLEAN
  BY DEF Banner!Retry, RestoredTimed, Banner!isOffline, Banner!Offline
<1>2. ASSUME NEW k \in Banner!Kinds PROVE ToastTimed(k)'
  BY <1>2 DEF Banner!Retry, ToastTimed
<1> QED
  BY <1>1, <1>2 DEF Banner!Retry, BannerInv

LEMMA RaiseSafe ==
    ASSUME BannerInv, NEW k \in Banner!Kinds, Banner!Raise(k)
    PROVE  BannerInv'
<1>1. RestoredTimed'
  BY RestSafe DEF Banner!Raise, Banner!networkVars
<1>2. ASSUME NEW j \in Banner!Kinds PROVE ToastTimed(j)'
  <2>1. CASE j = k
    <3>1. toast'[j] = <<0>> /\ toastTimers'[j] = {ToastTime[j]}
      BY <2>1 DEF Banner!Raise, Banner!toastTimersAfter, BannerInv
    <3>2. ToastTime[j] \in Nat \ {0} /\ ToastTime[j] - 0 = ToastTime[j]
      BY BannerAssumption DEF Banner!BannerConstants
    <3> QED
      BY <3>1, <3>2 DEF ToastTimed
  <2>2. CASE j # k
    <3>1. toast'[j] = toast[j] /\ toastTimers'[j] = toastTimers[j] /\ ToastTimed(j)
      BY <2>2 DEF Banner!Raise, BannerInv
    <3> QED
      BY <3>1 DEF ToastTimed
  <2> QED
    BY <2>1, <2>2
<1> QED
  BY <1>1, <1>2 DEF Banner!Raise, Banner!networkVars, BannerInv

LEMMA CloseSafe ==
    ASSUME BannerInv, Banner!Close
    PROVE  BannerInv' /\ closes' # closes
<1>1. RestoredTimed'
  BY RestSafe DEF Banner!Close, Banner!networkVars
<1>2. ASSUME NEW j \in Banner!Kinds PROVE ToastTimed(j)'
  <2>1. CASE j = Banner!activeToast
    BY <2>1 DEF Banner!Close, BannerInv, ToastTimed
  <2>2. CASE j # Banner!activeToast
    <3>1. toast'[j] = toast[j] /\ toastTimers'[j] = toastTimers[j] /\ ToastTimed(j)
      BY <2>2 DEF Banner!Close, BannerInv
    <3> QED
      BY <3>1 DEF ToastTimed
  <2> QED
    BY <2>1, <2>2
<1> QED
  BY <1>1, <1>2 DEF Banner!Close, Banner!networkVars, BannerInv

\* The timers of a moment later.
LEMMA TimersRun ==
    ASSUME NEW t \in Nat \ {0}
    PROVE  /\ t = 1 => {x - 1 : x \in {t} \ {1}} = {}
           /\ t # 1 => {x - 1 : x \in {t} \ {1}} = {t - 1} /\ 1 \notin {t}
<1>1. CASE t = 1
  BY <1>1
<1>2. CASE t # 1
  <2>1. {t} \ {1} = {t}
    BY <1>2
  <2> QED
    BY <1>2, <2>1
<1> QED
  BY <1>1, <1>2

LEMMA SecondSafe ==
    ASSUME BannerInv, Banner!Second
    PROVE  /\ BannerInv'
           /\ \A k \in Banner!Kinds :
                toast[k] # <<>> /\ toast'[k] = <<>> => toast[k][1] + 1 = ToastTime[k]
<1>1. RestoredTimed' /\ showRestored' \in BOOLEAN
  <2>1. /\ showRestored' = (showRestored /\ 1 \notin restoredTimers)
        /\ restoredTimers' = {t - 1 : t \in restoredTimers \ {1}}
        /\ UNCHANGED <<isOnline, serverReachable, wasOffline>>
    BY DEF Banner!Second
  <2>2. (Banner!isOffline' <=> Banner!isOffline) /\ (Banner!isOffline => wasOffline)
    BY <2>1 DEF Banner!isOffline, Banner!Offline, BannerInv, RestoredTimed
  <2>3. CASE restoredTimers = {}
    <3>1. restoredTimers' = {} /\ showRestored' = showRestored
      BY <2>1, <2>3 DEF BannerInv
    <3> QED
      BY <2>1, <2>2, <2>3, <3>1 DEF BannerInv, RestoredTimed
  <2>4. ASSUME NEW t \in 1..RestoredTime, restoredTimers = {t}
        PROVE  RestoredTimed' /\ showRestored' \in BOOLEAN
    <3>1. t \in Nat \ {0} /\ RestoredTime \in Nat
      BY BannerAssumption DEF Banner!BannerConstants
    <3>2. CASE t = 1
      <4>1. restoredTimers' = {} /\ showRestored' = FALSE
        BY <2>1, <2>4, <3>1, <3>2, TimersRun
      <4> QED
        BY <2>1, <2>2, <4>1 DEF RestoredTimed
    <3>3. CASE t # 1
      <4>1. restoredTimers' = {t - 1} /\ showRestored' = showRestored
        BY <2>1, <2>4, <3>1, <3>3, TimersRun DEF BannerInv
      <4>2. t - 1 \in 1..RestoredTime
        BY <3>1, <3>3
      <4> QED
        BY <2>1, <2>2, <4>1, <4>2 DEF RestoredTimed, BannerInv
    <3> QED
      BY <3>2, <3>3
  <2> QED
    BY <2>3, <2>4 DEF BannerInv, RestoredTimed
<1>2. ASSUME NEW k \in Banner!Kinds
      PROVE  /\ ToastTimed(k)'
             /\ toast[k] # <<>> /\ toast'[k] = <<>> => toast[k][1] + 1 = ToastTime[k]
  <2>1. /\ toast'[k] = IF 1 \in toastTimers[k] \/ toast[k] = <<>> THEN <<>> ELSE <<toast[k][1] + 1>>
        /\ toastTimers'[k] = {t - 1 : t \in toastTimers[k] \ {1}}
    BY DEF Banner!Second
  <2>2. CASE toast[k] = <<>> /\ toastTimers[k] = {}
    <3>1. toast'[k] = <<>> /\ toastTimers'[k] = {}
      BY <2>1, <2>2
    <3> QED
      BY <2>2, <3>1 DEF ToastTimed
  <2>3. ASSUME NEW n \in 0..(ToastTime[k] - 1), toast[k] = <<n>>, toastTimers[k] = {ToastTime[k] - n}
        PROVE  /\ ToastTimed(k)'
               /\ toast[k] # <<>> /\ toast'[k] = <<>> => toast[k][1] + 1 = ToastTime[k]
    <3>1. ToastTime[k] \in Nat /\ ToastTime[k] - n \in Nat \ {0} /\ n \in Nat
      BY BannerAssumption DEF Banner!BannerConstants
    <3>2. CASE ToastTime[k] - n = 1
      <4>1. toast'[k] = <<>> /\ toastTimers'[k] = {}
        BY <2>1, <2>3, <3>1, <3>2, TimersRun
      <4>2. toast[k][1] + 1 = ToastTime[k]
        BY <2>3, <3>1, <3>2
      <4> QED
        BY <4>1, <4>2 DEF ToastTimed
    <3>3. CASE ToastTime[k] - n # 1
      <4>1. toast'[k] = <<n + 1>> /\ toastTimers'[k] = {(ToastTime[k] - n) - 1}
        BY <2>1, <2>3, <3>1, <3>3, TimersRun
      <4>2. n + 1 \in 0..(ToastTime[k] - 1) /\ (ToastTime[k] - n) - 1 = ToastTime[k] - (n + 1)
        BY <3>1, <3>3
      <4> QED
        BY <4>1, <4>2 DEF ToastTimed
    <3> QED
      BY <3>2, <3>3
  <2> QED
    BY <2>2, <2>3 DEF BannerInv, ToastTimed
<1> QED
  BY <1>1, <1>2 DEF Banner!Second, BannerInv

LEMMA BannerStep ==
    ASSUME BannerInv, [Banner!Next]_Banner!bannerVars
    PROVE  BannerInv'
<1>1. CASE UNCHANGED Banner!bannerVars
  <2>1. UNCHANGED <<isOnline, serverReachable, wasOffline, showRestored, restoredTimers,
                    toast, toastTimers, closes>>
    BY <1>1 DEF Banner!bannerVars
  <2>2. RestoredTimed' /\ \A k \in Banner!Kinds : ToastTimed(k)'
    BY <2>1, RestSafe
  <2> QED
    BY <2>1, <2>2 DEF BannerInv
<1> QED
  BY <1>1, NetworkSafe, RetrySafe, RaiseSafe, CloseSafe, SecondSafe DEF Banner!Next

LEMMA BannerInvariant ==
    Banner!Spec => []BannerInv
<1>1. Banner!Init => BannerInv
  BY BannerStarts
<1>2. BannerInv /\ [Banner!Next]_Banner!bannerVars => BannerInv'
  BY BannerStep
<1> QED
  BY <1>1, <1>2, PTL DEF Banner!Spec

\* The types of the frame's state; a toast is never shown beyond its time.
THEOREM BannerTypes ==
    Banner!Spec => []Banner!TypeOK
<1>1. ASSUME BannerInv, NEW k \in Banner!Kinds
      PROVE  toast[k] = <<>> \/ toast[k][1] \in 0..(ToastTime[k] - 1)
  BY <1>1 DEF BannerInv, ToastTimed
<1>2. BannerInv => Banner!TypeOK
  BY <1>1 DEF BannerInv, Banner!TypeOK
<1> QED
  BY <1>2, BannerInvariant, PTL

\* "Connection Restored." never stays for want of a timer, however often the network drops
\* and returns while it is up (the effect on isOffline).
THEOREM RestoredBannerEnds ==
    Banner!Spec => []Banner!RestoredEnds
<1>1. ASSUME BannerInv, Banner!NetworkStatusBanner = "Connection Restored."
      PROVE  restoredTimers # {}
  <2>1. showRestored /\ ~Banner!isOffline
    BY <1>1 DEF Banner!NetworkStatusBanner, Banner!isOffline, Banner!Offline
  <2> QED
    BY <1>1, <2>1 DEF BannerInv, RestoredTimed
<1>2. BannerInv => Banner!RestoredEnds
  BY <1>1 DEF Banner!RestoredEnds
<1> QED
  BY <1>2, BannerInvariant, PTL

\* A toast that nobody closes goes when its own time is over and not before, whichever
\* toasts came before it or hide it (the two effects of ToastBanner).
THEOREM ToastsKeepTheirTime ==
    Banner!Spec => Banner!ToastKeepsItsTime
<1> DEFINE Kept == closes' = closes /\ ~Banner!isOffline => \A k \in Banner!Kinds :
             toast[k] # <<>> /\ toast'[k] = <<>> => toast[k][1] + 1 = ToastTime[k]
<1>1. BannerInv /\ [Banner!Next]_Banner!bannerVars => [Kept]_Banner!bannerVars
  <2> SUFFICES ASSUME BannerInv, Banner!Next, closes' = closes, ~Banner!isOffline,
                      NEW k \in Banner!Kinds, toast[k] # <<>>, toast'[k] = <<>>
               PROVE  toast[k][1] + 1 = ToastTime[k]
    OBVIOUS
  <2>1. CASE Banner!NetworkChanges
    BY <2>1 DEF Banner!NetworkChanges, Banner!toastVars
  <2>2. ~Banner!Retry
    BY DEF Banner!Retry
  <2>3. ~Banner!Close
    BY CloseSafe
  <2>4. CASE Banner!Second
    BY <2>4, SecondSafe
  <2>5. ASSUME NEW j \in Banner!Kinds, Banner!Raise(j)
        PROVE  FALSE
    BY <2>5 DEF Banner!Raise, BannerInv
  <2> QED
    BY <2>1, <2>2, <2>3, <2>4, <2>5 DEF Banner!Next
<1>2. Banner!ToastKeepsItsTime <=> [][Kept]_Banner!bannerVars
  BY PTL DEF Banner!ToastKeepsItsTime
<1> HIDE DEF Kept
<1> QED
  BY <1>1, <1>2, BannerInvariant, PTL DEF Banner!Spec

-----------------------------------------------------------------------------
(* The browser lockdown.                                                   *)


\* The reports sent lie in the past, at least a throttle's length apart; lastReport is the
\* newest of them, or 0.
ReportsApart ==
  /\ sent \subseteq 1..clock
  /\ \A r, s \in sent : r < s => s - r >= Throttle
  /\ lastReport \in {0} \cup sent
  /\ \A r \in sent : r <= lastReport

LockdownInv ==
  /\ Lockdown!TypeOK
  /\ requireFullscreen \in BOOLEAN /\ tabHidden \in BOOLEAN
  /\ infraction <= clock
  /\ ReportsApart
  /\ Lockdown!InfractionNearReport

LEMMA LockdownStarts ==
    Lockdown!Init => LockdownInv
<1> SUFFICES ASSUME Lockdown!Init PROVE LockdownInv
  OBVIOUS
<1>1. /\ clock = 1 /\ lastReport = 0 /\ infraction = 0
      /\ sent = {} /\ reports = {} /\ logged = {} /\ MaxNow \in Nat \ {0}
  BY LockdownAssumption, Zenon DEF Lockdown!LockdownConstants, Lockdown!Init
<1>2. Lockdown!TypeOK
  <2>1. hasExitedFullscreen \in BOOLEAN /\ fullscreenError \in BOOLEAN /\ entering \in BOOLEAN
    BY DEF Lockdown!Init
  <2> QED
    BY <1>1, <2>1 DEF Lockdown!TypeOK
<1>3. ReportsApart /\ Lockdown!InfractionNearReport /\ infraction <= clock
  BY <1>1 DEF ReportsApart, Lockdown!InfractionNearReport
<1>4. requireFullscreen \in BOOLEAN /\ tabHidden \in BOOLEAN
  BY DEF Lockdown!Init
<1> QED
  BY <1>2, <1>3, <1>4 DEF LockdownInv

\* An infraction is reported, or so soon after the last report that it is near that one.
LEMMA ViolationSafe ==
    ASSUME LockdownInv, Lockdown!reportViolationTelemetry,
           UNCHANGED <<clock, logged>>
    PROVE  /\ lastReport' \in 0..MaxNow /\ infraction' \in 0..MaxNow /\ infraction' <= clock'
           /\ sent' \subseteq 1..MaxNow /\ reports' \subseteq sent' /\ logged' \subseteq sent'
           /\ ReportsApart' /\ Lockdown!InfractionNearReport'
<1>1. /\ clock \in 1..MaxNow /\ MaxNow \in Nat /\ Throttle \in Nat \ {0}
      /\ infraction' = clock /\ clock' = clock /\ lastReport \in 0..MaxNow
      /\ sent \subseteq 1..MaxNow /\ reports \subseteq sent /\ logged \subseteq sent
  BY LockdownAssumption
     DEF Lockdown!LockdownConstants, LockdownInv, Lockdown!TypeOK,
         Lockdown!reportViolationTelemetry
<1>2. CASE lastReport # 0 /\ clock - lastReport < Throttle
  <2>1. UNCHANGED <<lastReport, sent, reports>>
    BY <1>2 DEF Lockdown!reportViolationTelemetry
  <2>2. lastReport \in sent /\ lastReport <= clock
    BY <1>1, <1>2 DEF LockdownInv, ReportsApart
  <2>3. Lockdown!InfractionNearReport'
    BY <1>1, <1>2, <2>1, <2>2 DEF Lockdown!InfractionNearReport
  <2> QED
    BY <1>1, <2>1, <2>3 DEF LockdownInv, ReportsApart
<1>3. CASE ~(lastReport # 0 /\ clock - lastReport < Throttle)
  <2>1. /\ lastReport' = clock
        /\ sent' = sent \cup {clock} /\ reports' = reports \cup {clock}
    BY <1>3 DEF Lockdown!reportViolationTelemetry
  <2>2. Lockdown!InfractionNearReport'
    <3>1. clock \in sent' /\ clock - clock < Throttle
      BY <1>1, <2>1
    <3> QED
      BY <1>1, <3>1 DEF Lockdown!InfractionNearReport
  <2>3. \A r \in sent : r \in Nat /\ r <= clock /\ clock - r >= Throttle
    <3> SUFFICES ASSUME NEW r \in sent PROVE r \in Nat /\ r <= clock /\ clock - r >= Throttle
      OBVIOUS
    <3>1. r \in 1..clock /\ r <= lastReport
      BY DEF LockdownInv, ReportsApart
    <3> QED
      BY <1>1, <1>3, <3>1
  <2>4. ReportsApart'
    BY <1>1, <2>1, <2>3 DEF LockdownInv, ReportsApart
  <2> QED
    BY <1>1, <2>1, <2>2, <2>4
<1> QED
  BY <1>2, <1>3

LEMMA LockdownStep ==
    ASSUME LockdownInv, [Lockdown!Next]_Lockdown!lockVars
    PROVE  LockdownInv'
<1> USE DEF LockdownInv, Lockdown!TypeOK
<1>1. ASSUME UNCHANGED <<clock, lastReport, infraction, sent>>
      PROVE  ReportsApart' /\ Lockdown!InfractionNearReport' /\ infraction' <= clock'
  BY <1>1 DEF ReportsApart, Lockdown!InfractionNearReport
<1>2. CASE Lockdown!handleFullscreenChange
  <2>1. CASE Lockdown!Enforced
    BY <1>2, <2>1, ViolationSafe DEF Lockdown!handleFullscreenChange
  <2>2. CASE ~Lockdown!Enforced
    BY <1>1, <1>2, <2>2 DEF Lockdown!handleFullscreenChange
  <2> QED
    BY <2>1, <2>2
<1>3. CASE Lockdown!handleVisibilityChange
  <2>1. tabHidden' \in BOOLEAN
    BY <1>3 DEF Lockdown!handleVisibilityChange
  <2>2. CASE Lockdown!Enforced /\ ~tabHidden
    BY <1>3, <2>1, <2>2, ViolationSafe DEF Lockdown!handleVisibilityChange
  <2>3. CASE ~(Lockdown!Enforced /\ ~tabHidden)
    BY <1>1, <1>3, <2>1, <2>3 DEF Lockdown!handleVisibilityChange
  <2> QED
    BY <2>2, <2>3
<1>4. CASE Lockdown!handleWindowBlur
  BY <1>4, ViolationSafe DEF Lockdown!handleWindowBlur
<1>5. CASE Lockdown!enterFullscreenMode
  BY <1>1, <1>5 DEF Lockdown!enterFullscreenMode
<1>6. CASE Lockdown!FullscreenAnswer
  BY <1>1, <1>6 DEF Lockdown!FullscreenAnswer
<1>7. CASE Lockdown!SettingChanges
  BY <1>1, <1>7 DEF Lockdown!SettingChanges
<1>8. CASE Lockdown!TimePasses
  <2>1. clock' \in 1..MaxNow /\ infraction' <= clock'
    BY LockdownAssumption, <1>8 DEF Lockdown!TimePasses, Lockdown!LockdownConstants
  <2>2. ReportsApart'
    BY <1>8 DEF Lockdown!TimePasses, ReportsApart
  <2> QED
    BY <1>8, <2>1, <2>2 DEF Lockdown!TimePasses, Lockdown!InfractionNearReport
<1>9. ASSUME NEW r \in reports, Lockdown!Report(r)
      PROVE  LockdownInv'
  BY <1>1, <1>9 DEF Lockdown!Report
<1>10. CASE UNCHANGED Lockdown!lockVars
  BY <1>1, <1>10 DEF Lockdown!lockVars
<1> QED
  BY <1>2, <1>3, <1>4, <1>5, <1>6, <1>7, <1>8, <1>9, <1>10 DEF Lockdown!Next

LEMMA LockdownInvariant ==
    Lockdown!Spec => []LockdownInv
<1>1. Lockdown!Init => LockdownInv
  BY LockdownStarts
<1>2. LockdownInv /\ [Lockdown!Next]_Lockdown!lockVars => LockdownInv'
  BY LockdownStep
<1> QED
  BY <1>1, <1>2, PTL DEF Lockdown!Spec

\* The types of the lockdown's state; what the server has logged was sent.
THEOREM LockdownTypes ==
    Lockdown!Spec => []Lockdown!TypeOK
<1>1. LockdownInv => Lockdown!TypeOK
  BY DEF LockdownInv
<1> QED
  BY <1>1, LockdownInvariant, PTL

\* Each infraction has a report with it or less than the throttle before it, and no two
\* reports are closer than the throttle: it silences repetitions and nothing else
\* (reportViolationTelemetry).
THEOREM ThrottleKeepsInfractions ==
    Lockdown!Spec => [](Lockdown!InfractionNearReport /\ ReportsApart)
<1>1. LockdownInv => Lockdown!InfractionNearReport /\ ReportsApart
  BY DEF LockdownInv
<1> QED
  BY <1>1, LockdownInvariant, PTL

\* What the frame promises: banners end, no toast is closed by another's timer, and the
\* throttle loses no infraction.
THEOREM FramePromise == Banner!Spec /\ Lockdown!Spec => BannersHold
  BY RestoredBannerEnds, ToastsKeepTheirTime, ThrottleKeepsInfractions, PTL DEF BannersHold

-----------------------------------------------------------------------------
(* The contest's clock.                                                    *)

ContestStates ==
  [status : {"NOT_STARTED", "RUNNING", "PAUSED", "ENDED"}, end : Int, left : Int]

\* What an answer says was so at a moment that was.
AnswersPast == \A a \in flight : a.state \in ContestStates /\ a.at \in 0..now

\* A threshold fired only with all above it, which are before it in the list.
FiredFromTop ==
  \A i, j \in DOMAIN Thresholds : (i < j /\ Thresholds[j] \in fired) => Thresholds[i] \in fired

\* A countdown that has come to nothing is of a contest with less than a second to go.
CountedOut == (ticked /\ page.status = "RUNNING" /\ remaining = 0) => now >= page.end - 1

\* The page's clock is late by an answer's latency, never early.
ClockInv ==
  /\ now \in Nat /\ contest \in ContestStates /\ page \in ContestStates
  /\ offset \in Int /\ offset <= 0 /\ remaining \in Int
  /\ AnswersPast /\ FiredFromTop /\ CountedOut

\* The last of some places of the list.
LEMMA LastOfPlaces ==
    ASSUME NEW S, S \subseteq DOMAIN Thresholds, S # {}
    PROVE  Clock!Max(S) \in S /\ \A j \in S : j <= Clock!Max(S)
<1>1. PICK n \in Nat : DOMAIN Thresholds = 1..n
  BY ClockAssumption DEF Clock!ClockConstants
<1> DEFINE K == {n - j : j \in S}
<1>2. \A j \in S : j \in Int /\ 1 <= j /\ j <= n
  BY <1>1
<1>3. K \in SUBSET (0..n) /\ K # {}
  <2>1. \A j \in S : n - j \in 0..n
    BY <1>2
  <2> QED
    BY <2>1
<1>4. PICK k \in K : \A j \in K : k <= j
  <2> HIDE DEF K
  <2> QED
    BY <1>3, LeastNumber
<1>5. PICK m \in S : k = n - m
  BY <1>4
<1>6. \A j \in S : m >= j
  <2>1. \A j \in S : n - m <= n - j
    BY <1>4, <1>5
  <2> QED
    BY <1>2, <2>1
<1>7. \E x \in S : \A y \in S : x >= y
  BY <1>6
<1>8. Clock!Max(S) \in S /\ \A j \in S : Clock!Max(S) >= j
  BY <1>7, Zenon DEF Clock!Max
<1> QED
  BY <1>2, <1>8

\* The list descends, so that the last place is that of the least threshold.
LEMMA ThresholdsDescend ==
    \A i, j \in DOMAIN Thresholds :
      /\ Thresholds[i] \in Nat
      /\ i < j => Thresholds[j] < Thresholds[i]
      /\ i <= j => Thresholds[j] <= Thresholds[i]
<1>1. Thresholds \in Seq(Nat)
      /\ \A i, j \in DOMAIN Thresholds : i < j => Thresholds[i] > Thresholds[j]
  BY ClockAssumption DEF Clock!ClockConstants
<1>2. \A i \in DOMAIN Thresholds : i \in Nat /\ Thresholds[i] \in Nat
  BY <1>1
<1> QED
  BY <1>1, <1>2

LEMMA ServerStateTyped ==
    ASSUME contest \in ContestStates
    PROVE  Clock!GetState \in ContestStates
  BY DEF Clock!GetState, ContestStates

\* A request that is sent now.
LEMMA AskSafe ==
    ASSUME ClockInv, Clock!Ask \/ flight' = flight, now' = now
    PROVE  AnswersPast'
<1>1. Clock!Answer.state \in ContestStates /\ Clock!Answer.at = now
  BY ServerStateTyped DEF ClockInv, Clock!Answer
<1>2. \A a \in flight' : a \in flight \/ a = Clock!Answer
  BY DEF Clock!Ask
<1> QED
  BY <1>1, <1>2 DEF ClockInv, AnswersPast

\* An answer that arrives, or the default state of a request that failed.
LEMMA ApplySafe ==
    ASSUME ClockInv, NEW a, a.state \in ContestStates, a.at \in 0..now, Clock!Apply(a),
           now' = now
    PROVE  /\ page' \in ContestStates /\ offset' \in Int /\ offset' <= 0
           /\ FiredFromTop' /\ CountedOut' /\ remaining' = remaining
<1>1. /\ page' = a.state /\ offset' = a.at - now /\ ticked' = FALSE
      /\ UNCHANGED <<remaining, fired>>
  BY DEF Clock!Apply, Clock!clockOffset
<1> QED
  BY <1>1 DEF ClockInv, FiredFromTop, CountedOut

\* The contest after a command: a state like the others.
LEMMA CommandSafe ==
    ASSUME ClockInv, Clock!Command
    PROVE  ClockInv'
<1>1. /\ contest' \in Clock!Commands
      /\ UNCHANGED <<now, page, offset, remaining, ticked, fired, flight>>
  BY DEF Clock!Command, Clock!pageVars
<1>2. Clock!GetState \in ContestStates /\ contest \in ContestStates /\ now \in Nat /\ Duration \in Nat
  BY ServerStateTyped, ClockAssumption DEF ClockInv, Clock!ClockConstants
<1>3. contest' \in ContestStates
  BY <1>1, <1>2 DEF ContestStates, Clock!Commands, Clock!NotStarted
<1>4. AnswersPast' /\ FiredFromTop' /\ CountedOut'
  BY <1>1 DEF ClockInv, AnswersPast, FiredFromTop, CountedOut
<1> QED
  BY <1>1, <1>3, <1>4 DEF ClockInv

\* A tick of the countdown.
LEMMA TickSafe ==
    ASSUME ClockInv, Clock!calculateTick
    PROVE  ClockInv'
<1> DEFINE left == Clock!Countdown
<1>1. /\ UNCHANGED <<now, contest, page, offset>>
      /\ Clock!Ask \/ flight' = flight
      /\ now \in Nat /\ page \in ContestStates /\ offset \in Int /\ offset <= 0
  BY DEF ClockInv, Clock!calculateTick, Clock!contestVars
<1>2. /\ left \in Int
      /\ left = 0 => now >= page.end - 1
  <2> DEFINE halves == page.end - (now + offset)
  <2>1. halves \in Int
    BY <1>1 DEF ContestStates
  <2>2. left = IF halves <= 0 THEN 0 ELSE halves \div 2
    BY DEF Clock!Countdown
  <2>3. left = 0 => halves <= 1
    <3> HIDE DEF halves, left
    <3> QED
      BY <2>1, <2>2
  <2>4. left \in Int
    <3> HIDE DEF halves, left
    <3> QED
      BY <2>1, <2>2
  <2> QED
    BY <1>1, <2>1, <2>3, <2>4 DEF ContestStates
<1>3. AnswersPast'
  BY <1>1, AskSafe
<1>4. CASE page.status = "RUNNING"
  <2>1. /\ remaining' = left
        /\ \/ fired' = fired
           \/ fired' = fired \cup {Thresholds[i] : i \in Clock!Due(left)}
    BY <1>4 DEF Clock!calculateTick
  <2>2. CountedOut' /\ remaining' \in Int
    BY <1>1, <1>2, <2>1 DEF CountedOut
  <2>3. FiredFromTop'
    <3> HIDE DEF left
    <3>1. \A i \in DOMAIN Thresholds :
            i \in Clock!Due(left) <=> (left <= Thresholds[i] /\ Thresholds[i] \notin fired)
      BY DEF Clock!Due
    <3>2. CASE fired' = fired
      BY <3>2 DEF ClockInv, FiredFromTop
    <3>3. CASE fired' = fired \cup {Thresholds[i] : i \in Clock!Due(left)}
      <4> SUFFICES ASSUME NEW i \in DOMAIN Thresholds, NEW j \in DOMAIN Thresholds, i < j,
                          Thresholds[j] \in fired'
                   PROVE  Thresholds[i] \in fired'
        BY DEF FiredFromTop
      <4>1. /\ Thresholds[i] \in Nat /\ Thresholds[j] \in Nat /\ Thresholds[j] < Thresholds[i]
        BY ThresholdsDescend
      <4>2. CASE Thresholds[j] \in fired
        BY <3>3, <4>2 DEF ClockInv, FiredFromTop
      <4>3. ASSUME NEW k \in Clock!Due(left), Thresholds[j] = Thresholds[k]
            PROVE  Thresholds[i] \in fired'
        <5>1. left <= Thresholds[i]
          BY <1>2, <4>1, <4>3 DEF Clock!Due
        <5> QED
          BY <3>1, <3>3, <5>1
      <4> QED
        BY <3>3, <4>2, <4>3
    <3> QED
      BY <2>1, <3>2, <3>3
  <2> QED
    BY <1>1, <1>3, <2>2, <2>3 DEF ClockInv
<1>5. CASE page.status # "RUNNING"
  <2>1. /\ remaining' = IF page.status = "ENDED" THEN 0 ELSE page.left \div 2
        /\ fired' = fired
    BY <1>5 DEF Clock!calculateTick
  <2>2. remaining' \in Int
    BY <1>1, <2>1 DEF ContestStates
  <2>3. FiredFromTop' /\ CountedOut'
    BY <1>1, <1>5, <2>1 DEF ClockInv, FiredFromTop, CountedOut
  <2> QED
    BY <1>1, <1>3, <2>2, <2>3 DEF ClockInv
<1> QED
  BY <1>4, <1>5

LEMMA ClockStarts == Clock!Init => ClockInv
<1> SUFFICES ASSUME Clock!Init PROVE ClockInv
  OBVIOUS
<1>1. Duration \in Nat
  BY ClockAssumption DEF Clock!ClockConstants
<1>2. /\ now = 0 /\ page = contest /\ offset = 0 /\ remaining = Duration \div 2
      /\ fired = {} /\ flight = {}
      /\ contest \in ContestStates /\ contest.end \in {0, Duration}
      /\ contest.status = "RUNNING" => contest.end = Duration
  BY <1>1 DEF Clock!Init, Clock!NotStarted, ContestStates
<1>3. CountedOut /\ remaining \in Int
  BY <1>1, <1>2 DEF CountedOut
<1> QED
  BY <1>2, <1>3 DEF ClockInv, AnswersPast, FiredFromTop

LEMMA ClockStep ==
    ASSUME ClockInv, [Clock!Next]_(Clock!syncVars)
    PROVE  ClockInv'
<1>1. CASE Clock!Command
  BY <1>1, CommandSafe
<1>2. CASE Clock!Time
  BY <1>2 DEF Clock!Time, Clock!contestVars, Clock!pageVars, ClockInv, AnswersPast,
     FiredFromTop, CountedOut, ContestStates
<1>3. CASE Clock!tickSync \/ Clock!VisibilityChange
  <2>1. /\ UNCHANGED <<now, contest, page, offset, remaining, ticked, fired>>
        /\ Clock!Ask \/ flight' = flight
    BY <1>3 DEF Clock!tickSync, Clock!VisibilityChange, Clock!contestVars, Clock!pageVars
  <2>2. AnswersPast'
    BY <2>1, AskSafe
  <2> QED
    BY <2>1, <2>2 DEF ClockInv, FiredFromTop, CountedOut
<1>4. CASE Clock!calculateTick
  BY <1>4, TickSafe
<1>5. CASE Clock!clearAlertToast
  BY <1>5 DEF Clock!clearAlertToast, Clock!contestVars, ClockInv, AnswersPast, FiredFromTop,
     CountedOut
<1>6. ASSUME NEW a \in flight, Clock!refresh(a) \/ Clock!refreshFails(a)
      PROVE  ClockInv'
  <2>1. PICK b : /\ b.state \in ContestStates /\ b.at \in 0..now /\ Clock!Apply(b)
                 /\ flight' = flight \ {a} /\ UNCHANGED <<now, contest>>
    <3>1. CASE Clock!refresh(a)
      BY <3>1 DEF Clock!refresh, Clock!contestVars, ClockInv, AnswersPast
    <3>2. CASE Clock!refreshFails(a)
      <4>1. /\ Clock!defaultContestState.state \in ContestStates
            /\ Clock!defaultContestState.at \in 0..now
        BY ClockAssumption DEF Clock!defaultContestState, Clock!NotStarted, ContestStates,
           ClockInv, Clock!ClockConstants
      <4> QED
        BY <3>2, <4>1 DEF Clock!refreshFails, Clock!contestVars
    <3> QED
      BY <1>6, <3>1, <3>2
  <2>2. /\ page' \in ContestStates /\ offset' \in Int /\ offset' <= 0
        /\ FiredFromTop' /\ CountedOut' /\ remaining' = remaining
    BY <2>1, ApplySafe
  <2>3. AnswersPast'
    BY <2>1 DEF ClockInv, AnswersPast
  <2> QED
    BY <2>1, <2>2, <2>3 DEF ClockInv
<1>7. CASE UNCHANGED Clock!syncVars
  BY <1>7 DEF Clock!syncVars, Clock!contestVars, Clock!pageVars, ClockInv, AnswersPast,
     FiredFromTop, CountedOut
<1> QED
  BY <1>1, <1>2, <1>3, <1>4, <1>5, <1>6, <1>7 DEF Clock!Next

\* The invariant of the page's clock: answers are of moments that were, the offset is the
\* latency of the last, and thresholds fire from the top of the list (refresh, calculateTick).
THEOREM SyncInvariant == Clock!Spec => []ClockInv
<1>1. ClockInv /\ [Clock!Next]_(Clock!syncVars) => ClockInv'
  BY ClockStep
<1> QED
  BY <1>1, ClockStarts, PTL DEF Clock!Spec

\* The page never closes the contest a second or more before the end it was told of,
\* whatever answers were late, overtaken or replaced by the default of a failed request
\* (calculateTick, isEnded).
THEOREM ClosesInTime == Clock!Spec => []Clock!NeverClosesEarly
<1>1. ClockInv => Clock!NeverClosesEarly
  <2> SUFFICES ASSUME ClockInv, ticked, page.status = "RUNNING", Clock!ContestTimer = "ENDED"
               PROVE  now > page.end - 2
    BY DEF Clock!NeverClosesEarly
  <2>1. remaining = 0
    BY DEF Clock!ContestTimer, Clock!isEnded
  <2>2. now >= page.end - 1 /\ now \in Int /\ page.end \in Int
    BY <2>1 DEF ClockInv, CountedOut, ContestStates
  <2> QED
    BY <2>2
<1> QED
  BY <1>1, SyncInvariant, PTL

\* A change of the status raises no alert of a threshold.
LEMMA StatusAlert ==
    ASSUME NEW old, NEW new, NEW t,
           Clock!checkStatusTransitions(old, new) # alert
    PROVE  Clock!checkStatusTransitions(old, new) # <<"left", t>>
<1> DEFINE c == Clock!checkStatusTransitions(old, new)
<1>1. \/ c = <<"started">> \/ c = <<"paused">> \/ c = <<"resumed">> \/ c = <<"ended">>
  BY DEF Clock!checkStatusTransitions
<1>2. Len(c) = 1
  BY <1>1
<1> QED
  BY <1>2

\* The alert of a tick that raises one is that of the least threshold that was reached, also
\* among those that fired before.
LEMMA TickAlert ==
    ASSUME ClockInv, NEW left \in Int, NEW i \in DOMAIN Thresholds,
           Clock!Alert(left) # alert, Clock!Alert(left) = <<"left", Thresholds[i]>>
    PROVE  /\ left <= Thresholds[i]
           /\ \A j \in DOMAIN Thresholds : left <= Thresholds[j] => Thresholds[j] >= Thresholds[i]
<1> DEFINE due == Clock!Due(left)
           m   == Clock!Max(due)
<1>1. due # {} /\ Clock!Alert(left) = <<"left", Thresholds[m]>>
  BY DEF Clock!Alert
<1>2. due \subseteq DOMAIN Thresholds
  BY DEF Clock!Due
<1>3. m \in due /\ \A j \in due : j <= m
  <2> HIDE DEF due
  <2> QED
    BY <1>1, <1>2, LastOfPlaces
<1>4. Thresholds[i] = Thresholds[m]
  <2> HIDE DEF m
  <2>1. <<"left", Thresholds[i]>> = <<"left", Thresholds[m]>>
    BY <1>1
  <2> QED
    BY <2>1
<1>5. m \in DOMAIN Thresholds /\ left <= Thresholds[m] /\ Thresholds[m] \notin fired
  BY <1>3 DEF Clock!Due
<1>6. ASSUME NEW j \in DOMAIN Thresholds, left <= Thresholds[j]
      PROVE  Thresholds[m] <= Thresholds[j]
  <2> HIDE DEF m
  <2>0. j \in Int /\ m \in Int
    BY <1>5, ClockAssumption DEF Clock!ClockConstants
  <2>1. CASE j <= m
    BY <1>5, <2>1, ThresholdsDescend
  <2>2. CASE m < j
    <3>1. Thresholds[j] \notin fired
      BY <1>5, <2>2 DEF ClockInv, FiredFromTop
    <3>2. j \in due
      BY <1>6, <3>1 DEF Clock!Due
    <3> QED
      BY <1>3, <2>0, <2>2, <3>2
  <2> QED
    BY <2>0, <2>1, <2>2
<1> QED
  <2> HIDE DEF m
  <2>1. Thresholds[m] \in Nat
    BY <1>5, ThresholdsDescend
  <2> QED
    BY <1>4, <1>5, <1>6, <2>1, ThresholdsDescend

\* Where several thresholds are reached at once the alert that remains is the most urgent,
\* also after extensions and failed refreshes (calculateTick, firedThresholdsRef).
THEOREM MostUrgentAlert == Clock!Spec => Clock!LoudestAlert
<1> DEFINE Loud == \A i \in DOMAIN Thresholds :
                     (alert' # alert /\ alert' = <<"left", Thresholds[i]>>) =>
                       /\ remaining' <= Thresholds[i]
                       /\ \A j \in DOMAIN Thresholds :
                            remaining' <= Thresholds[j] => Thresholds[j] >= Thresholds[i]
<1>1. ClockInv /\ [Clock!Next]_(Clock!syncVars) => [Loud]_(Clock!syncVars)
  <2> SUFFICES ASSUME ClockInv, Clock!Next, NEW i \in DOMAIN Thresholds, alert' # alert,
                      alert' = <<"left", Thresholds[i]>>
               PROVE  /\ remaining' <= Thresholds[i]
                      /\ \A j \in DOMAIN Thresholds :
                           remaining' <= Thresholds[j] => Thresholds[j] >= Thresholds[i]
    OBVIOUS
  <2>1. CASE Clock!calculateTick
    <3>1. /\ page.status = "RUNNING" /\ remaining' = Clock!Countdown
          /\ alert' = Clock!Alert(Clock!Countdown)
      BY <2>1 DEF Clock!calculateTick
    <3>2. Clock!Countdown \in Int
      BY DEF ClockInv, ContestStates, Clock!Countdown
    <3> QED
      BY <3>1, <3>2, TickAlert
  <2>2. ASSUME NEW a \in flight, Clock!refresh(a) \/ Clock!refreshFails(a)
        PROVE  FALSE
    <3>1. \E old, new : alert' = Clock!checkStatusTransitions(old, new)
      BY <2>2 DEF Clock!refresh, Clock!refreshFails, Clock!Apply
    <3> QED
      BY <3>1, StatusAlert
  <2>3. CASE Clock!clearAlertToast
    BY <2>3 DEF Clock!clearAlertToast
  <2>4. CASE Clock!Command \/ Clock!Time \/ Clock!tickSync \/ Clock!VisibilityChange
    <3>1. alert' = alert
      BY <2>4 DEF Clock!Command, Clock!Time, Clock!tickSync, Clock!VisibilityChange, Clock!pageVars
    <3> QED
      BY <3>1
  <2> QED
    BY <2>1, <2>2, <2>3, <2>4 DEF Clock!Next
<1> QED
  BY <1>1, SyncInvariant, PTL DEF Clock!Spec, Clock!LoudestAlert

\* What the page's clock promises: it is late, never early, and its alerts are the most
\* urgent.
THEOREM ClockPromise == Clock!Spec => ClockHolds
  BY ClosesInTime, MostUrgentAlert, PTL DEF ClockHolds

-----------------------------------------------------------------------------
(* What becomes of submissions.                                            *)

Heard == [sub : Subs, status : {"absent", "queued", "running", "done"}, att : Nat, fin : Nat,
          tests : Nat, review : BOOLEAN]

\* What the page may hear of: an attempt starts at an even time, and its verdict is of the
\* time right after.
News == {r \in Heard : /\ r.att % 2 = 0
                       /\ r.status = "done" => r.fin # 0 /\ (r.att # 0 => r.fin = r.att + 1)}

RowsSane == row \in [Subs -> Feed!Rows] /\ \A s \in Subs : Feed!SaneRow(row[s])

\* The page remembers one result of each submission.
OneOfEach(q) == \A i, j \in DOMAIN q : q[i].sub = q[j].sub => i = j

\* A result that is remembered of an active submission is no verdict, but where the restore
\* effect put it back.
Stands(acts, q) ==
  \A s \in DOMAIN acts, i \in DOMAIN q :
    (q[i].sub = s /\ acts[s] # "restored") => q[i].status # "done"

FeedInv ==
  /\ RowsSane /\ chan \in Seq(News) /\ poll \in Seq(News)
  /\ latest \in Seq(News) /\ OneOfEach(latest) /\ DOMAIN active \subseteq Subs
  /\ restore \in {<<>>, <<"wanted">>} \cup {<<"read", S>> : S \in SUBSET Subs}
  /\ submitting \in {<<>>, <<0>>} \cup {<<s>> : s \in Subs}
  /\ Stands(active, latest)

\* What a row says is news, with or without a review.
LEMMA RowIsNews ==
    ASSUME RowsSane, NEW s \in Subs
    PROVE  Feed!StatusOf(s) \in News /\ [Feed!StatusOf(s) EXCEPT !.review = TRUE] \in News
<1>1. row[s] \in Feed!Rows /\ Feed!SaneRow(row[s])
  BY DEF RowsSane
<1>2. /\ row[s].att \in Nat /\ row[s].fin \in Nat /\ row[s].tries \in Nat
      /\ row[s].state \in {"absent", "queued", "running", "done"}
  BY <1>1 DEF Feed!Rows
<1>3. row[s].att % 2 = 0
  BY <1>1, <1>2 DEF Feed!SaneRow, Feed!Started
<1>4. row[s].state = "done" => row[s].fin # 0 /\ (row[s].att # 0 => row[s].fin = row[s].att + 1)
  BY <1>1, <1>2 DEF Feed!SaneRow, Feed!Started, Feed!Finished
<1> QED
  BY <1>2, <1>3, <1>4 DEF Feed!StatusOf, Feed!Result, News, Heard

\* What is broadcast of an attempt that runs is news.
LEMMA ProgressIsNews ==
    ASSUME NEW s \in Subs, NEW k \in Nat, NEW n \in Nat
    PROVE  /\ Feed!Result(s, "running", Feed!Started(k), 0, n) \in News
           /\ Feed!Result(s, "queued", 0, 0, 0) \in News
  BY DEF Feed!Result, Feed!Started, News, Heard

LEMMA BroadcastSafe ==
    ASSUME chan \in Seq(News), NEW r \in News, Feed!Broadcast(r)
    PROVE  chan' \in Seq(News)
<1>1. ChanCap \in Nat \ {0}
  BY FeedAssumption DEF Feed!FeedConstants
<1>2. Feed!BroadcastLocal(chan, r) \in Seq(News)
  BY <1>1 DEF Feed!BroadcastLocal
<1> QED
  BY <1>2 DEF Feed!Broadcast

\* The judge's steps keep the rows as the repository leaves them and announce news.
LEMMA JudgeSafe ==
    ASSUME FeedInv, Feed!JudgeStep
    PROVE  RowsSane' /\ chan' \in Seq(News)
<1>1. /\ RowsSane /\ chan \in Seq(News) /\ \A s \in Subs : row[s] \in Feed!Rows
      /\ \A s \in Subs : Feed!SaneRow(row[s])
  BY DEF FeedInv, RowsSane
<1>2. MaxTests \in Nat /\ \A s \in Subs : MaxTries[s] \in Nat
  BY FeedAssumption DEF Feed!FeedConstants
<1>3. ASSUME NEW s \in Subs, NEW r \in Feed!Rows, Feed!SaneRow(r), row' = [row EXCEPT ![s] = r]
      PROVE  RowsSane'
  BY <1>1, <1>3 DEF RowsSane
<1>4. ASSUME NEW s \in Subs, Feed!Claim(s)
      PROVE  RowsSane' /\ chan' \in Seq(News)
  <2> DEFINE k == row[s].tries + 1
             r == [state |-> "running", tries |-> k, att |-> Feed!Started(k), fin |-> 0]
  <2>1. k \in Nat
    BY <1>1 DEF Feed!Rows
  <2>2. r \in Feed!Rows /\ Feed!SaneRow(r)
    BY <2>1 DEF Feed!Rows, Feed!SaneRow, Feed!Started
  <2>3. /\ row' = [row EXCEPT ![s] = r]
        /\ Feed!Broadcast(Feed!Result(s, "running", Feed!Started(k), 0, 0))
    BY <1>4 DEF Feed!Claim
  <2> QED
    BY <1>1, <1>3, <2>1, <2>2, <2>3, ProgressIsNews, BroadcastSafe
<1>5. ASSUME NEW s \in Subs, Feed!Finish(s)
      PROVE  RowsSane' /\ chan' \in Seq(News)
  <2> DEFINE r == [row[s] EXCEPT !.state = "done", !.fin = Feed!Finished(row[s].tries)]
  <2>1. /\ row' = [row EXCEPT ![s].state = "done", ![s].fin = Feed!Finished(row[s].tries)]
        /\ row[s].state = "running"
        /\ Feed!Broadcast(Feed!Result(s, "done", row[s].att, Feed!Finished(row[s].tries), 0))
    BY <1>5 DEF Feed!Finish
  <2>2. r \in Feed!Rows /\ Feed!SaneRow(r)
    <3>1. row[s] \in Feed!Rows /\ row[s].att = Feed!Started(row[s].tries)
      BY <1>1, <2>1 DEF Feed!SaneRow
    <3>2. /\ r.state = "done" /\ r.tries = row[s].tries
          /\ r.att = row[s].att /\ r.fin = Feed!Finished(row[s].tries)
      BY <3>1 DEF Feed!Rows
    <3>3. r \in Feed!Rows
      <4>1. Feed!Finished(row[s].tries) \in Nat
        BY <3>1 DEF Feed!Rows, Feed!Finished
      <4> QED
        BY <3>1, <4>1 DEF Feed!Rows
    <3> HIDE DEF r
    <3> QED
      BY <3>1, <3>2, <3>3 DEF Feed!SaneRow
  <2>3. row' = [row EXCEPT ![s] = r]
    BY <1>1, <2>1 DEF RowsSane
  <2>4. Feed!Result(s, "done", row[s].att, Feed!Finished(row[s].tries), 0) \in News
    BY <1>1, <2>1 DEF Feed!Rows, Feed!SaneRow, Feed!Started, Feed!Finished, Feed!Result, News, Heard
  <2> QED
    BY <1>1, <1>3, <2>1, <2>2, <2>3, <2>4, BroadcastSafe
<1>6. ASSUME NEW s \in Subs, Feed!Requeue(s)
      PROVE  RowsSane' /\ chan' \in Seq(News)
  <2> DEFINE r == [row[s] EXCEPT !.state = "queued", !.att = 0]
  <2>1. /\ row' = [row EXCEPT ![s].state = "queued", ![s].att = 0]
        /\ row[s].state = "running" /\ chan' = chan
    BY <1>6 DEF Feed!Requeue
  <2>2. r \in Feed!Rows /\ Feed!SaneRow(r)
    BY <1>1, <2>1 DEF Feed!Rows, Feed!SaneRow
  <2>3. row' = [row EXCEPT ![s] = r]
    BY <1>1, <2>1 DEF RowsSane
  <2> QED
    BY <1>1, <1>3, <2>1, <2>2, <2>3
<1>7. ASSUME NEW s \in Subs, Feed!FailSilently(s)
      PROVE  RowsSane' /\ chan' \in Seq(News)
  <2> DEFINE r == [row[s] EXCEPT !.state = "done", !.att = 0, !.fin = Feed!Finished(row[s].tries)]
  <2>1. /\ row' = [row EXCEPT ![s].state = "done", ![s].att = 0,
                              ![s].fin = Feed!Finished(row[s].tries)]
        /\ chan' = chan
    BY <1>7 DEF Feed!FailSilently
  <2>2. r \in Feed!Rows /\ Feed!SaneRow(r)
    <3>1. /\ r.state = "done" /\ r.tries = row[s].tries
          /\ r.att = 0 /\ r.fin = Feed!Finished(row[s].tries)
      BY <1>1 DEF Feed!Rows
    <3>2. r \in Feed!Rows
      <4>1. Feed!Finished(row[s].tries) \in Nat
        BY <1>1 DEF Feed!Rows, Feed!Finished
      <4> QED
        BY <1>1, <4>1 DEF Feed!Rows
    <3> HIDE DEF r
    <3> QED
      BY <3>1, <3>2 DEF Feed!SaneRow
  <2>3. row' = [row EXCEPT ![s] = r]
    BY <1>1, <2>1 DEF RowsSane
  <2> QED
    BY <1>1, <1>3, <2>1, <2>2, <2>3
<1>8. ASSUME NEW s \in Subs, Feed!Rejudge(s)
      PROVE  RowsSane' /\ chan' \in Seq(News)
  <2> DEFINE r == [row[s] EXCEPT !.state = "queued", !.att = 0, !.fin = 0]
  <2>1. /\ row' = [row EXCEPT ![s].state = "queued", ![s].att = 0, ![s].fin = 0]
        /\ chan' = chan
    BY <1>8 DEF Feed!Rejudge
  <2>2. r \in Feed!Rows /\ Feed!SaneRow(r)
    BY <1>1 DEF Feed!Rows, Feed!SaneRow
  <2>3. row' = [row EXCEPT ![s] = r]
    BY <1>1, <2>1 DEF RowsSane
  <2> QED
    BY <1>1, <1>3, <2>1, <2>2, <2>3
<1>9. ASSUME NEW s \in Subs, Feed!Review(s)
      PROVE  RowsSane' /\ chan' \in Seq(News)
  <2>1. row' = row /\ Feed!Broadcast([Feed!StatusOf(s) EXCEPT !.review = TRUE])
    BY <1>9 DEF Feed!Review
  <2>2. [Feed!StatusOf(s) EXCEPT !.review = TRUE] \in News
    BY <1>1, RowIsNews
  <2> QED
    BY <1>1, <2>1, <2>2, BroadcastSafe DEF RowsSane
<1>10. ASSUME NEW s \in Subs, NEW att \in Feed!Attempts, NEW n \in 1..MaxTests,
              Feed!Progress(s, att, n)
       PROVE  RowsSane' /\ chan' \in Seq(News)
  <2>1. PICK k \in Nat : att = Feed!Started(k)
    BY <1>2 DEF Feed!Attempts, Feed!AnyTry
  <2>2. row' = row /\ Feed!Broadcast(Feed!Result(s, "running", att, 0, n))
    BY <1>10 DEF Feed!Progress
  <2>3. n \in Nat
    BY <1>2
  <2> QED
    BY <1>1, <2>1, <2>2, <2>3, ProgressIsNews, BroadcastSafe DEF RowsSane
<1> QED
  BY <1>4, <1>5, <1>6, <1>7, <1>8, <1>9, <1>10 DEF Feed!JudgeStep

\* Where each submission is remembered once, what is remembered of it is that.
LEMMA LatestIs ==
    ASSUME OneOfEach(latest), NEW i \in DOMAIN latest
    PROVE  Feed!Known(latest[i].sub) /\ Feed!LatestOf(latest[i].sub) = latest[i]
<1> DEFINE s == latest[i].sub
           c == CHOOSE j \in DOMAIN latest : latest[j].sub = s
<1>1. c \in DOMAIN latest /\ latest[c].sub = s
  OBVIOUS
<1>2. c = i
  <2> HIDE DEF c
  <2> QED
    BY <1>1 DEF OneOfEach
<1> QED
  BY <1>2 DEF Feed!Known, Feed!LatestOf

\* What remembering a result does: it takes the place of an older one of its submission, or
\* comes last, and perhaps the oldest goes.
LEMMA RememberSafe ==
    ASSUME latest \in Seq(News), OneOfEach(latest), NEW r \in News
    PROVE  /\ Feed!Remember(r) \in Seq(News) /\ OneOfEach(Feed!Remember(r))
           /\ \A j \in DOMAIN Feed!Remember(r) :
                \/ Feed!Remember(r)[j] = r
                \/ /\ Feed!Remember(r)[j].sub # r.sub
                   /\ \E i \in DOMAIN latest : latest[i] = Feed!Remember(r)[j]
<1>1. CASE Feed!Known(r.sub)
  <2> DEFINE q == [i \in DOMAIN latest |-> IF latest[i].sub = r.sub THEN r ELSE latest[i]]
  <2>1. Feed!Remember(r) = q
    BY <1>1, Zenon DEF Feed!Remember
  <2>2. q \in Seq(News) /\ DOMAIN q = DOMAIN latest
    OBVIOUS
  <2>3. \A i \in DOMAIN latest : q[i].sub = latest[i].sub
    OBVIOUS
  <2>4. OneOfEach(q)
    <3> HIDE DEF q
    <3> QED
      BY <2>2, <2>3 DEF OneOfEach
  <2> QED
    BY <2>1, <2>2, <2>4
<1>2. CASE ~Feed!Known(r.sub)
  <2> DEFINE all == Append(latest, r)
             q   == IF Len(all) > LatestCap THEN Tail(all) ELSE all
  <2>1. Feed!Remember(r) = q
    BY <1>2, Zenon DEF Feed!Remember
  <2>2. \A i \in DOMAIN latest : latest[i].sub # r.sub
    BY <1>2 DEF Feed!Known
  <2>3. /\ all \in Seq(News) /\ Len(all) = Len(latest) + 1
        /\ \A i \in 1..Len(latest) : all[i] = latest[i]
        /\ all[Len(latest) + 1] = r
    OBVIOUS
  <2>4. DOMAIN latest = 1..Len(latest) /\ Len(latest) \in Nat
    OBVIOUS
  <2> HIDE DEF all
  <2>5. OneOfEach(all)
    BY <2>2, <2>3, <2>4 DEF OneOfEach
  <2>6. \A j \in DOMAIN all : \/ all[j] = r
                              \/ all[j].sub # r.sub /\ \E i \in DOMAIN latest : latest[i] = all[j]
    BY <2>2, <2>3, <2>4
  <2>7. CASE q = Tail(all)
    <3>1. /\ q \in Seq(News) /\ Len(q) = Len(all) - 1
          /\ \A j \in 1..Len(q) : q[j] = all[j + 1] /\ j + 1 \in DOMAIN all
      <4> DEFINE t == Tail(all)
      <4>1. all # <<>> /\ DOMAIN all = 1..Len(all) /\ Len(all) \in Nat
        BY <2>3, <2>4
      <4>2. t \in Seq(News) /\ Len(t) = Len(all) - 1
        BY <2>3, <4>1
      <4>3. \A j \in 1..(Len(all) - 1) : t[j] = all[j + 1]
        BY <2>3, <4>1
      <4>4. q = t
        BY <2>7
      <4> HIDE DEF q, t
      <4>5. ASSUME NEW j \in 1..Len(q) PROVE q[j] = all[j + 1] /\ j + 1 \in DOMAIN all
        <5>1. Len(q) = Len(all) - 1
          BY <4>2, <4>4
        <5>2. j \in 1..(Len(all) - 1)
          BY <5>1
        <5>3. j + 1 \in 1..Len(all)
          BY <4>1, <5>2
        <5> QED
          BY <4>1, <4>3, <4>4, <5>2, <5>3
      <4> QED
        BY <4>2, <4>4, <4>5
    <3>2. DOMAIN q = 1..Len(q) /\ Len(q) \in Nat
      BY <3>1
    <3> HIDE DEF q
    <3>3. OneOfEach(q)
      <4> SUFFICES ASSUME NEW i \in DOMAIN q, NEW j \in DOMAIN q, q[i].sub = q[j].sub
                   PROVE  i = j
        BY DEF OneOfEach
      <4>1. /\ all[i + 1].sub = all[j + 1].sub
            /\ i + 1 \in DOMAIN all /\ j + 1 \in DOMAIN all
        BY <3>1, <3>2
      <4>2. i + 1 = j + 1
        BY <2>5, <4>1 DEF OneOfEach
      <4> QED
        BY <3>2, <4>2
    <3> QED
      BY <2>1, <2>6, <3>1, <3>2, <3>3
  <2>8. CASE q = all
    BY <2>1, <2>3, <2>5, <2>6, <2>8
  <2> QED
    BY <2>7, <2>8
<1> QED
  BY <1>1, <1>2

\* Progress that is applied keeps the list of results and that of the active submissions in
\* step, and what it replaces is older (applyProgress).
LEMMA ProgressSafe ==
    ASSUME latest \in Seq(News), OneOfEach(latest), DOMAIN active \subseteq Subs,
           Stands(active, latest), NEW r \in News, Feed!applyProgress(r)
    PROVE  /\ latest' \in Seq(News) /\ OneOfEach(latest') /\ DOMAIN active' \subseteq Subs
           /\ Stands(active', latest')
           /\ \A i \in DOMAIN latest, j \in DOMAIN latest' :
                (latest[i].sub = latest'[j].sub /\ latest[i] # latest'[j]) =>
                  /\ latest'[j] = r
                  /\ Feed!shouldApplySubmissionProgress(latest[i], r)
<1>1. CASE Feed!Known(r.sub) /\ ~Feed!shouldApplySubmissionProgress(Feed!LatestOf(r.sub), r)
  <2>1. latest' = latest /\ active' = active
    BY <1>1 DEF Feed!applyProgress, Feed!viewVars
  <2> QED
    BY <2>1 DEF OneOfEach
<1>2. CASE ~(Feed!Known(r.sub) /\ ~Feed!shouldApplySubmissionProgress(Feed!LatestOf(r.sub), r))
  <2> DEFINE q == Feed!Remember(r)
  <2>1. /\ latest' = q
        /\ IF Feed!terminal(r) THEN active' = Feed!Deactivate(r.sub)
           ELSE active' = Feed!Activate(r.sub, r.status)
    BY <1>2 DEF Feed!applyProgress
  <2>2. /\ q \in Seq(News) /\ OneOfEach(q)
        /\ \A j \in DOMAIN q : \/ q[j] = r
                               \/ q[j].sub # r.sub /\ \E i \in DOMAIN latest : latest[i] = q[j]
    BY RememberSafe
  <2> HIDE DEF q
  <2>3. r.sub \in Subs
    BY DEF News, Heard
  <2>4. /\ DOMAIN active' \subseteq Subs
        /\ \A s \in DOMAIN active' : s # r.sub => s \in DOMAIN active /\ active'[s] = active[s]
        /\ r.sub \in DOMAIN active' => r.status # "done"
    BY <2>1, <2>3 DEF Feed!terminal, Feed!Deactivate, Feed!Activate
  <2>5. Stands(active', latest')
    <3> SUFFICES ASSUME NEW s \in DOMAIN active', NEW j \in DOMAIN q, q[j].sub = s,
                        active'[s] # "restored", q[j].status = "done"
                 PROVE  FALSE
      BY <2>1, Zenon DEF Stands
    <3>1. CASE q[j] = r
      BY <2>4, <3>1
    <3>2. CASE q[j].sub # r.sub /\ \E i \in DOMAIN latest : latest[i] = q[j]
      BY <2>4, <3>2 DEF Stands
    <3> QED
      BY <2>2, <3>1, <3>2
  <2>6. ASSUME NEW i \in DOMAIN latest, NEW j \in DOMAIN q, latest[i].sub = q[j].sub,
               latest[i] # q[j]
        PROVE  q[j] = r /\ Feed!shouldApplySubmissionProgress(latest[i], r)
    <3>1. q[j] = r
      <4>1. ASSUME NEW k \in DOMAIN latest, latest[k] = q[j] PROVE FALSE
        BY <2>6, <4>1 DEF OneOfEach
      <4> QED
        BY <2>2, <4>1
    <3>2. Feed!Known(r.sub) /\ Feed!LatestOf(r.sub) = latest[i]
      BY <2>6, <3>1, LatestIs
    <3> QED
      BY <1>2, <3>1, <3>2
  <2> QED
    BY <2>1, <2>2, <2>4, <2>5, <2>6
<1> QED
  BY <1>1, <1>2

LEMMA FeedStarts == Feed!Init => FeedInv
<1> SUFFICES ASSUME Feed!Init PROVE FeedInv
  OBVIOUS
<1>1. RowsSane
  BY FeedAssumption DEF Feed!Init, Feed!FeedConstants, RowsSane
<1>2. /\ chan = <<>> /\ poll = <<>> /\ latest = <<>> /\ active = <<>>
      /\ restore = <<"wanted">> /\ submitting = <<>>
  BY DEF Feed!Init
<1>3. DOMAIN active = {} /\ DOMAIN latest = {}
  BY <1>2
<1> QED
  BY <1>1, <1>2, <1>3 DEF FeedInv, OneOfEach, Stands

\* The page reads the stream or an answer of the poll.
LEMMA HearSafe ==
    ASSUME FeedInv, Feed!ReadEvent \/ Feed!PollDeliver
    PROVE  /\ FeedInv'
           /\ latest' = latest \/ \E r \in News : Feed!applyProgress(r)
<1>1. /\ RowsSane /\ chan \in Seq(News) /\ poll \in Seq(News)
      /\ latest \in Seq(News) /\ OneOfEach(latest) /\ DOMAIN active \subseteq Subs
      /\ Stands(active, latest)
  BY DEF FeedInv
<1>2. UNCHANGED <<row, restore, submitting>>
  BY DEF Feed!ReadEvent, Feed!PollDeliver, Feed!serverVars
<1>3. chan' \in Seq(News) /\ poll' \in Seq(News)
  <2>1. CASE Feed!ReadEvent
    <3>1. chan # <<>> /\ chan' = Tail(chan) /\ poll' \in {poll, <<>>}
      BY <2>1 DEF Feed!ReadEvent, Feed!RestartPolling
    <3>2. Tail(chan) \in Seq(News) /\ <<>> \in Seq(News)
      BY <1>1, <3>1
    <3> QED
      BY <1>1, <3>1, <3>2, Zenon
  <2>2. CASE Feed!PollDeliver
    BY <1>1, <2>2 DEF Feed!PollDeliver
  <2> QED
    BY <2>1, <2>2
<1>4. \/ UNCHANGED <<active, latest>>
      \/ \E r \in News : Feed!applyProgress(r)
  <2>1. CASE Feed!ReadEvent
    <3>1. Head(chan) \in News
      BY <1>1, <2>1 DEF Feed!ReadEvent
    <3> QED
      BY <2>1, <3>1 DEF Feed!ReadEvent, Feed!viewVars
  <2>2. CASE Feed!PollDeliver
    <3>1. poll[1] \in News
      BY <1>1, <2>2 DEF Feed!PollDeliver
    <3> QED
      BY <2>2, <3>1 DEF Feed!PollDeliver
  <2> QED
    BY <2>1, <2>2
<1>5. /\ latest' \in Seq(News) /\ OneOfEach(latest') /\ DOMAIN active' \subseteq Subs
      /\ Stands(active', latest')
  <2>1. CASE UNCHANGED <<active, latest>>
    BY <1>1, <2>1
  <2>2. ASSUME NEW r \in News, Feed!applyProgress(r)
        PROVE  /\ latest' \in Seq(News) /\ OneOfEach(latest') /\ DOMAIN active' \subseteq Subs
               /\ Stands(active', latest')
    BY <1>1, <2>2, ProgressSafe
  <2> QED
    BY <1>4, <2>1, <2>2
<1>6. RowsSane' /\ OneOfEach(latest)' /\ Stands(active, latest)'
  BY <1>1, <1>2, <1>5 DEF RowsSane, OneOfEach, Stands
<1> QED
  BY <1>2, <1>3, <1>4, <1>5, <1>6 DEF FeedInv

\* The rest of what the page does leaves what it remembers alone.
LEMMA PageSafe ==
    ASSUME FeedInv,
           \/ Feed!Connect \/ Feed!Disconnect \/ Feed!PollRead \/ Feed!PollFail
           \/ Feed!RestoreRead \/ Feed!RestoreDeliver \/ Feed!RestoreFail
           \/ Feed!Lock \/ Feed!Unlock \/ Feed!SubmitSend \/ Feed!SubmitReturn
           \/ Feed!SubmitFail
    PROVE  FeedInv' /\ latest' = latest
<1> USE DEF Feed!serverVars, Feed!viewVars
<1>0. <<>> \in Seq(News)
  OBVIOUS
<1>1. CASE Feed!Connect \/ Feed!Disconnect \/ Feed!PollFail \/ Feed!RestoreFail \/ Feed!Lock
           \/ Feed!Unlock \/ Feed!SubmitSend \/ Feed!SubmitFail
  <2>1. /\ UNCHANGED <<row, active, latest>>
        /\ chan' \in {chan, <<>>} /\ poll' \in {poll, <<>>}
        /\ restore' \in {restore, <<>>, <<"wanted">>} /\ submitting' \in {submitting, <<>>, <<0>>}
    BY <1>1 DEF Feed!Connect, Feed!Disconnect, Feed!PollFail, Feed!RestoreFail, Feed!Lock,
       Feed!Unlock, Feed!SubmitSend, Feed!SubmitFail
  <2> QED
    BY <1>0, <2>1 DEF FeedInv, RowsSane, OneOfEach, Stands
<1>2. CASE Feed!PollRead
  <2>1. PICK s \in DOMAIN active : poll' = <<Feed!StatusOf(s)>>
    BY <1>2 DEF Feed!PollRead
  <2>2. poll' \in Seq(News)
    <3>1. Feed!StatusOf(s) \in News
      BY <2>1, RowIsNews DEF FeedInv
    <3> QED
      BY <2>1, <3>1
  <2>3. UNCHANGED <<row, chan, active, latest, restore, submitting>>
    BY <1>2 DEF Feed!PollRead
  <2> QED
    BY <2>2, <2>3 DEF FeedInv, RowsSane, OneOfEach, Stands
<1>3. CASE Feed!RestoreRead
  <2>1. /\ restore' = <<"read", {s \in Subs : Feed!Pending(s)}>>
        /\ UNCHANGED <<row, chan, poll, active, latest, submitting>>
    BY <1>3 DEF Feed!RestoreRead
  <2>2. restore' \in {<<"read", S>> : S \in SUBSET Subs}
    BY <2>1, Zenon
  <2> QED
    BY <2>1, <2>2 DEF FeedInv, RowsSane, OneOfEach, Stands
<1>4. CASE Feed!RestoreDeliver
  <2>1. restore[2] \in SUBSET Subs
    <3>1. /\ Len(restore) = 2
          /\ restore \in {<<>>, <<"wanted">>} \cup {<<"read", S>> : S \in SUBSET Subs}
      BY <1>4 DEF Feed!RestoreDeliver, FeedInv
    <3>2. PICK S \in SUBSET Subs : restore = <<"read", S>>
      BY <3>1
    <3> QED
      BY <3>2
  <2>2. /\ active' = [s \in DOMAIN active \cup restore[2] |->
                        IF s \in DOMAIN active THEN active[s] ELSE "restored"]
        /\ poll' \in {poll, <<>>} /\ restore' = <<>>
        /\ UNCHANGED <<row, chan, latest, submitting>>
    BY <1>4 DEF Feed!RestoreDeliver, Feed!RestartPolling
  <2>3. DOMAIN active' \subseteq Subs /\ Stands(active', latest)
    BY <2>1, <2>2 DEF FeedInv, Stands
  <2> QED
    BY <1>0, <2>2, <2>3 DEF FeedInv, RowsSane, OneOfEach, Stands
<1>5. CASE Feed!SubmitReturn
  <2>1. PICK s \in Subs : submitting = <<s>>
    BY <1>5 DEF Feed!SubmitReturn, FeedInv
  <2>2. /\ active' = Feed!activeAfter(s)
        /\ poll' \in {poll, <<>>} /\ submitting' = <<>>
        /\ UNCHANGED <<row, chan, latest, restore>>
    BY <1>5, <2>1 DEF Feed!SubmitReturn, Feed!RestartPolling
  <2>3. DOMAIN active' \subseteq Subs /\ Stands(active', latest)
    <3>1. CASE Feed!Known(s)
      BY <2>2, <3>1 DEF Feed!activeAfter, FeedInv
    <3>2. CASE ~Feed!Known(s)
      BY <2>2, <3>2 DEF Feed!activeAfter, Feed!Activate, Feed!Known, FeedInv, Stands
    <3> QED
      BY <3>1, <3>2
  <2> QED
    BY <1>0, <2>2, <2>3 DEF FeedInv, RowsSane, OneOfEach, Stands
<1> QED
  BY <1>1, <1>2, <1>3, <1>4, <1>5

\* The server stores a submission of the page.
LEMMA CreateSafe ==
    ASSUME FeedInv, NEW s \in Subs, Feed!SubmitCreate(s)
    PROVE  FeedInv' /\ latest' = latest
<1>1. /\ row[s].state = "absent" /\ row' = [row EXCEPT ![s].state = "queued"]
      /\ submitting' = <<s>> /\ Feed!Broadcast(Feed!Result(s, "queued", 0, 0, 0))
      /\ UNCHANGED <<active, latest, poll, restore>>
  BY DEF Feed!SubmitCreate, Feed!viewVars
<1>2. row[s] \in Feed!Rows /\ Feed!SaneRow(row[s]) /\ RowsSane /\ chan \in Seq(News)
  BY DEF FeedInv, RowsSane
<1> DEFINE r == [row[s] EXCEPT !.state = "queued"]
<1>3. r \in Feed!Rows /\ Feed!SaneRow(r)
  BY <1>1, <1>2 DEF Feed!Rows, Feed!SaneRow
<1>4. row' = [row EXCEPT ![s] = r]
  BY <1>1, <1>2 DEF RowsSane
<1>5. RowsSane'
  BY <1>2, <1>3, <1>4 DEF RowsSane
<1>6. chan' \in Seq(News)
  BY <1>1, <1>2, ProgressIsNews, BroadcastSafe
<1> QED
  BY <1>1, <1>5, <1>6 DEF FeedInv, OneOfEach, Stands

\* A step keeps the invariant, and what it changes of what the page remembers is progress.
LEMMA FeedStep ==
    ASSUME FeedInv, [Feed!Next]_(Feed!vars)
    PROVE  /\ FeedInv'
           /\ latest' = latest \/ \E r \in News : Feed!applyProgress(r)
<1>1. CASE Feed!JudgeStep
  <2>1. RowsSane' /\ chan' \in Seq(News)
    BY <1>1, JudgeSafe
  <2>2. UNCHANGED <<active, latest, poll, restore, submitting>>
    BY <1>1 DEF Feed!JudgeStep, Feed!Claim, Feed!Finish, Feed!Requeue, Feed!FailSilently,
       Feed!Rejudge, Feed!Review, Feed!Progress, Feed!viewVars
  <2> QED
    BY <2>1, <2>2 DEF FeedInv, OneOfEach, Stands
<1>2. CASE Feed!PageStep
  BY <1>2, HearSafe, PageSafe, CreateSafe DEF Feed!PageStep
<1>3. CASE UNCHANGED Feed!vars
  BY <1>3 DEF Feed!vars, FeedInv, RowsSane, OneOfEach, Stands
<1> QED
  BY <1>1, <1>2, <1>3 DEF Feed!Next

\* The invariant of the page's results: rows, broadcasts, answers and what is remembered are
\* of attempts in their order, each submission is remembered once, and none whose verdict
\* is remembered is active unless it was restored (applyProgress, submitFast).
THEOREM FeedInvariant == Feed!Spec => []FeedInv
<1>1. FeedInv /\ [Feed!Next]_(Feed!vars) => FeedInv'
  BY FeedStep
<1> QED
  BY <1>1, FeedStarts, PTL DEF Feed!Spec

\* A submission whose verdict the page has is not active, unless the restore effect put it
\* back, whatever overtakes the answer to the request that submitted it (applyProgress,
\* latest.current.has).
THEOREM VerdictEndsIt == Feed!Spec => []Feed!VerdictEndsActivity
<1>1. FeedInv => Feed!VerdictEndsActivity
  <2> SUFFICES ASSUME FeedInv, NEW s \in DOMAIN active, active[s] # "restored",
                      Feed!Known(s), Feed!terminal(Feed!LatestOf(s))
               PROVE  FALSE
    BY DEF Feed!VerdictEndsActivity
  <2> DEFINE c == CHOOSE i \in DOMAIN latest : latest[i].sub = s
  <2>1. c \in DOMAIN latest /\ latest[c].sub = s
    BY DEF Feed!Known
  <2>2. latest[c].status = "done"
    BY DEF Feed!LatestOf, Feed!terminal
  <2> HIDE DEF c
  <2> QED
    BY <2>1, <2>2 DEF FeedInv, Stands
<1> QED
  BY <1>1, FeedInvariant, PTL

\* What applies after a result is news: an attempt that started after its verdict, and none
\* that started before its own (shouldApplySubmissionProgress).
LEMMA AppliedIsNews ==
    ASSUME NEW old \in News, NEW new \in News, Feed!shouldApplySubmissionProgress(old, new)
    PROVE  /\ Feed!terminal(old) => new.att > old.fin
           /\ new.att # 0 => new.att >= old.att
<1>1. /\ old.att \in Nat /\ old.fin \in Nat /\ new.att \in Nat /\ new.fin \in Nat
      /\ old.att % 2 = 0 /\ new.att % 2 = 0
      /\ old.status = "done" => old.fin # 0 /\ (old.att # 0 => old.fin = old.att + 1)
  BY DEF News, Heard
<1>2. CASE old.att # 0 /\ new.att # 0 /\ old.att # new.att
  <2>1. new.att > old.att
    BY <1>2 DEF Feed!shouldApplySubmissionProgress
  <2>2. new.att > old.att + 1
    BY <1>1, <2>1
  <2> QED
    BY <1>1, <1>2, <2>1, <2>2 DEF Feed!terminal
<1>3. CASE old.att = 0 /\ new.att # 0
  <2>1. old.fin = 0 \/ new.att > old.fin
    BY <1>3 DEF Feed!shouldApplySubmissionProgress
  <2> QED
    BY <1>1, <1>3, <2>1 DEF Feed!terminal
<1>4. CASE new.att = 0 \/ old.att = new.att
  <2>1. ~Feed!terminal(old)
    BY <1>4 DEF Feed!shouldApplySubmissionProgress
  <2> QED
    BY <1>1, <1>4, <2>1
<1> QED
  BY <1>2, <1>3, <1>4

\* What the page believes is replaced by news only: a verdict stands until an attempt that
\* started after it, and progress never goes back to an earlier attempt, in whatever order
\* the stream, the poller and a worker without a lease bring it.
THEOREM OnlyNewsReplaces == Feed!Spec => Feed!NewsOnly
<1> DEFINE Fresh == \A i \in DOMAIN latest, j \in DOMAIN latest' :
                      LET old == latest[i]
                          new == latest'[j]
                      IN  (old.sub = new.sub /\ old # new) =>
                            /\ Feed!terminal(old) => new.att > old.fin
                            /\ new.att # 0 => new.att >= old.att
<1>1. FeedInv /\ [Feed!Next]_(Feed!vars) => [Fresh]_(Feed!vars)
  <2> SUFFICES ASSUME FeedInv, Feed!Next, NEW i \in DOMAIN latest, NEW j \in DOMAIN latest',
                      latest[i].sub = latest'[j].sub, latest[i] # latest'[j]
               PROVE  /\ Feed!terminal(latest[i]) => latest'[j].att > latest[i].fin
                      /\ latest'[j].att # 0 => latest'[j].att >= latest[i].att
    OBVIOUS
  <2>1. latest' = latest \/ \E r \in News : Feed!applyProgress(r)
    BY FeedStep
  <2>2. CASE latest' = latest
    BY <2>2 DEF FeedInv, OneOfEach
  <2>3. ASSUME NEW r \in News, Feed!applyProgress(r)
        PROVE  /\ Feed!terminal(latest[i]) => latest'[j].att > latest[i].fin
               /\ latest'[j].att # 0 => latest'[j].att >= latest[i].att
    <3>1. latest'[j] = r /\ Feed!shouldApplySubmissionProgress(latest[i], r)
      BY <2>3, ProgressSafe DEF FeedInv
    <3>2. latest[i] \in News
      BY DEF FeedInv
    <3> QED
      BY <3>1, <3>2, AppliedIsNews
  <2> QED
    BY <2>1, <2>2, <2>3
<1> QED
  BY <1>1, FeedInvariant, PTL DEF Feed!Spec, Feed!NewsOnly

\* What the page promises of submissions.
THEOREM VerdictPromise == Feed!Spec => VerdictsStand
<1>1. FeedInv => Feed!RememberedOnce
  BY DEF FeedInv, OneOfEach, Feed!RememberedOnce
<1> QED
  BY <1>1, FeedInvariant, VerdictEndsIt, OnlyNewsReplaces, PTL DEF VerdictsStand

-----------------------------------------------------------------------------
(* The lists of submissions and challenges.                                *)

\* The operators of the lists are those of Paging.
LEMMA ListRows ==
    \A s, places : Lists!rowsAt(s, places) = rowsAt(s, places)
<1>1. \A S : Lists!Cardinality(S) = Cardinality(S)
  BY DEF Lists!Cardinality, Cardinality
<1> SUFFICES ASSUME NEW s, NEW places PROVE Lists!rowsAt(s, places) = rowsAt(s, places)
  OBVIOUS
<1> DEFINE upTo(i) == {j \in places : j <= i}
<1>2. ASSUME NEW k
      PROVE  (CHOOSE i \in places : Lists!Cardinality(upTo(i)) = k)
               = (CHOOSE i \in places : Cardinality(upTo(i)) = k)
  <2> HIDE DEF upTo
  <2>1. \A i : (i \in places /\ Lists!Cardinality(upTo(i)) = k)
                 <=> (i \in places /\ Cardinality(upTo(i)) = k)
    BY <1>1
  <2> QED
    BY <2>1, Zenon
<1> DEFINE theirs(k) == CHOOSE i \in places : Lists!Cardinality(upTo(i)) = k
           nth(k) == CHOOSE i \in places : Cardinality(upTo(i)) = k
<1>3. /\ Lists!rowsAt(s, places) = [k \in 1..Lists!Cardinality(places) |-> s[theirs(k)]]
      /\ rowsAt(s, places) = [k \in 1..Cardinality(places) |-> s[nth(k)]]
  BY Zenon DEF Lists!rowsAt, rowsAt
<1>4. \A k : theirs(k) = nth(k)
  BY <1>2, Zenon
<1> HIDE DEF theirs, nth
<1> QED
  BY <1>1, <1>3, <1>4

LEMMA ListPages ==
    /\ \A n, size : Lists!totalPages(n, size) = totalPages(n, size)
    /\ \A p, n, size : Lists!validPage(p, n, size) = validPage(p, n, size)
    /\ \A s, p, size : Lists!slice(s, p, size) = slice(s, p, size)
    /\ \A p, n : Lists!getPageNumbers(p, n) = getPageNumbers(p, n)
    /\ \A s, size : Lists!PagesPartition(s, size) <=> PagesPartition(s, size)
    /\ \A s, places : Lists!rowsAt(s, places) = rowsAt(s, places)
<1>1. \A S : Lists!Max(S) = Max(S) /\ Lists!Min(S) = Min(S)
  BY DEF Lists!Max, Max, Lists!Min, Min
<1>2. \A n, size : Lists!totalPages(n, size) = totalPages(n, size)
  BY <1>1 DEF Lists!totalPages, totalPages
<1>3. /\ \A p, n, size : Lists!validPage(p, n, size) = validPage(p, n, size)
      /\ \A s, p, size : Lists!slice(s, p, size) = slice(s, p, size)
  BY <1>1, <1>2 DEF Lists!validPage, validPage, Lists!slice, slice
<1>4. \A p, n : Lists!getPageNumbers(p, n) = getPageNumbers(p, n)
  BY DEF Lists!getPageNumbers, getPageNumbers
<1>5. \A f : Lists!SumFunction(f) = SumFunction(f)
  BY DEF Lists!SumFunction, SumFunction, Lists!SumFunctionOnSet, SumFunctionOnSet,
         Lists!FoldFunctionOnSet, FoldFunctionOnSet, Lists!MapThenFoldSet, MapThenFoldSet
<1>6. \A s, size : Lists!PagesPartition(s, size) <=> PagesPartition(s, size)
  BY <1>2, <1>3, <1>5, ZenonT(40) DEF Lists!PagesPartition, PagesPartition
<1>7. \A s, places : Lists!rowsAt(s, places) = rowsAt(s, places)
  BY ListRows
<1> QED
  BY <1>2, <1>3, <1>4, <1>6, <1>7

\* The submissions that match are a list, and so are they when sorted, as long as before.
LEMMA SubmissionsAreList ==
    /\ Lists!subTotal \in Nat
    /\ \E R : Lists!sortedSubmissions \in Seq(R)
    /\ Len(Lists!sortedSubmissions) = Lists!subTotal
<1> DEFINE places == {i \in DOMAIN Submissions :
                        /\ Submissions[i].title \in Searches[subSearch]
                        /\ subStatus # "ALL" => Submissions[i].status = subStatus}
           n == Lists!subTotal
           f == Lists!sortedSubmissions
<1>1. IsFiniteSet(places)
  BY ListAssumption, RowsAtAreRows DEF Lists!ListConstants
<1>2. Lists!filteredSubmissions = rowsAt(Submissions, places)
  BY ListPages DEF Lists!filteredSubmissions
<1>3. n \in Nat /\ DOMAIN Lists!filteredSubmissions = 1..n
  <2> HIDE DEF places
  <2> QED
    BY <1>1, <1>2, RowsAtIsList DEF Lists!subTotal
<1>4. DOMAIN f = 1..n /\ f = [k \in 1..n |-> f[k]]
  <2> HIDE DEF n
  <2> QED
    BY <1>3 DEF Lists!sortedSubmissions, Lists!stableSort
<1>5. f \in Seq({f[k] : k \in 1..n}) /\ Len(f) = n
  <2> HIDE DEF n, f
  <2> QED
    BY <1>3, <1>4, FunctionIsList
<1> QED
  BY <1>3, <1>5

-----------------------------------------------------------------------------
(* The challenges.                                                         *)

\* What the challenges are sorted by, the least first.
ChallengeKey(i) ==
  CASE chSort = "DEFAULT"         -> 0
    [] chSort = "POINTS_DESC"     -> 0 - Problems[i].points
    [] chSort = "POINTS_ASC"      -> Problems[i].points
    [] chSort = "TITLE_ASC"       -> Problems[i].title
    [] chSort = "DIFFICULTY_ASC"  -> Problems[i].difficulty
    [] chSort = "DIFFICULTY_DESC" -> 0 - Problems[i].difficulty

LEMMA KeyIsOrder ==
    ASSUME chSort \in Lists!ChallengeSorts, NEW i \in DOMAIN Problems, NEW j \in DOMAIN Problems
    PROVE  /\ ChallengeKey(i) \in Int
           /\ Lists!chBefore(i, j) <=> ChallengeKey(i) < ChallengeKey(j)
<1>1. Problems[i] \in Lists!Challenge /\ Problems[j] \in Lists!Challenge
  <2>1. Problems \in Seq(Lists!Challenge)
    BY ListAssumption DEF Lists!ListConstants
  <2> QED
    BY <2>1
<1>2. /\ Problems[i].points \in Nat /\ Problems[i].title \in Nat /\ Problems[i].difficulty \in Nat
      /\ Problems[j].points \in Nat /\ Problems[j].title \in Nat /\ Problems[j].difficulty \in Nat
  BY <1>1 DEF Lists!Challenge
<1>3. ASSUME NEW sort \in Lists!ChallengeSorts, chSort = sort
      PROVE  /\ ChallengeKey(i) \in Int
             /\ Lists!chBefore(i, j) <=> ChallengeKey(i) < ChallengeKey(j)
  <2>1. CASE sort = "DEFAULT"
    BY <1>2, <1>3, <2>1 DEF ChallengeKey, Lists!chBefore
  <2>2. CASE sort = "POINTS_DESC"
    BY <1>2, <1>3, <2>2 DEF ChallengeKey, Lists!chBefore
  <2>3. CASE sort = "POINTS_ASC"
    BY <1>2, <1>3, <2>3 DEF ChallengeKey, Lists!chBefore
  <2>4. CASE sort = "TITLE_ASC"
    BY <1>2, <1>3, <2>4 DEF ChallengeKey, Lists!chBefore
  <2>5. CASE sort = "DIFFICULTY_ASC"
    BY <1>2, <1>3, <2>5 DEF ChallengeKey, Lists!chBefore
  <2>6. CASE sort = "DIFFICULTY_DESC"
    BY <1>2, <1>3, <2>6 DEF ChallengeKey, Lists!chBefore
  <2> QED
    BY <2>1, <2>2, <2>3, <2>4, <2>5, <2>6 DEF Lists!ChallengeSorts
<1> QED
  BY <1>3

\* The challenges that match are those at their places, each once.
LEMMA MatchesListed ==
    ASSUME NEW st
    PROVE  /\ Lists!problemsWith(st) \in Seq(Lists!placesWith(st))
           /\ Lists!placesWith(st) \subseteq DOMAIN Problems
           /\ Len(Lists!problemsWith(st)) = Cardinality(Lists!placesWith(st))
           /\ IsInjective(Lists!problemsWith(st))
           /\ \A i \in Lists!placesWith(st) :
                \E k \in DOMAIN Lists!problemsWith(st) : Lists!problemsWith(st)[k] = i
<1>1. Problems \in Seq(Lists!Challenge)
  BY ListAssumption DEF Lists!ListConstants
<1>2. DOMAIN Problems = 1..Len(Problems) /\ Len(Problems) \in Nat
  BY <1>1
<1>3. Lists!placesWith(st) \in SUBSET (1..Len(Problems))
  BY <1>2 DEF Lists!placesWith
<1> DEFINE m == Len(Problems)
           places == Lists!placesWith(st)
           f == Lists!problemsWith(st)
<1>4. f = rowsAt(NumbersTo(m), places)
  BY <1>2, ListPages DEF Lists!problemsWith, NumbersTo
<1>5. m \in Nat /\ places \in SUBSET (1..m)
  BY <1>2, <1>3
<1> HIDE DEF m, places, f
<1>6. /\ f \in Seq(places) /\ Len(f) = Cardinality(places) /\ IsInjective(f)
      /\ \A i \in places : \E k \in DOMAIN f : f[k] = i
  BY <1>4, <1>5, PlacesListed
<1> QED
  BY <1>2, <1>3, <1>6 DEF f, places

\* Solved and unsolved challenges are all of them, under any search and difficulty.
LEMMA SolvedOrNot ==
    Len(Lists!problemsWith("SOLVED")) + Len(Lists!problemsWith("UNSOLVED"))
      = Len(Lists!problemsWith("ALL"))
<1> DEFINE yes == Lists!placesWith("SOLVED")
           no == Lists!placesWith("UNSOLVED")
           all == Lists!placesWith("ALL")
<1>1. yes \cup no = all /\ yes \cap no = {}
  BY DEF Lists!placesWith, Lists!statusMatches
<1>2. IsFiniteSet(yes) /\ IsFiniteSet(no)
  <2>1. Problems \in Seq(Lists!Challenge)
    BY ListAssumption DEF Lists!ListConstants
  <2>2. IsFiniteSet(DOMAIN Problems)
    BY <2>1, FS_Interval
  <2> QED
    BY <2>2, MatchesListed, FS_Subset
<1>3. Cardinality(yes) + Cardinality(no) = Cardinality(all)
  <2> HIDE DEF yes, no, all
  <2>1. Cardinality(yes \cap no) = 0
    BY <1>1, FS_EmptySet
  <2>2. Cardinality(yes) \in Nat /\ Cardinality(no) \in Nat
    BY <1>2, FS_CardinalityType
  <2>3. Cardinality(yes \cup no) = Cardinality(yes) + Cardinality(no) - Cardinality(yes \cap no)
    BY <1>2, FS_Union
  <2> QED
    BY <1>1, <2>1, <2>2, <2>3
<1> QED
  BY <1>3, MatchesListed

\* The challenges sorted: each that matches once, none before one it should follow.
LEMMA ChallengesSorted ==
    ASSUME chSort \in Lists!ChallengeSorts
    PROVE  /\ Lists!ToSet(Lists!sortedProblems) = Lists!placesWith(chStatus)
           /\ Lists!IsInjective(Lists!sortedProblems)
           /\ \A k \in 1..(Len(Lists!sortedProblems) - 1) :
                ~Lists!chBefore(Lists!sortedProblems[k + 1], Lists!sortedProblems[k])
<1> DEFINE places == Lists!placesWith(chStatus)
           f == Lists!filteredProblems
           g == Lists!sortedProblems
           n == Len(f)
           key == [i \in 1..n |-> ChallengeKey(f[i])]
           place(i) == SortPlace(key, n, i)
<1>1. /\ f \in Seq(places) /\ places \subseteq DOMAIN Problems /\ IsInjective(f)
      /\ \A i \in places : \E k \in DOMAIN f : f[k] = i
  BY MatchesListed DEF Lists!filteredProblems
<1> HIDE DEF f, places
<1>2. n \in Nat /\ DOMAIN f = 1..n /\ \A i \in 1..n : f[i] \in places /\ f[i] \in DOMAIN Problems
  BY <1>1
<1> HIDE DEF n
<1>3. key \in [1..n -> Int]
  BY <1>2, KeyIsOrder
<1>4. ASSUME NEW i \in 1..n, NEW j \in 1..n
      PROVE  /\ Lists!chBefore(f[i], f[j]) <=> key[i] < key[j]
             /\ (Lists!chBefore(f[i], f[j]) \/ (~Lists!chBefore(f[j], f[i]) /\ i < j))
                  <=> Earlier(key, i, j)
  <2>1. Lists!chBefore(f[i], f[j]) <=> ChallengeKey(f[i]) < ChallengeKey(f[j])
    BY <1>2, KeyIsOrder
  <2>2. Lists!chBefore(f[j], f[i]) <=> ChallengeKey(f[j]) < ChallengeKey(f[i])
    BY <1>2, KeyIsOrder
  <2>3. key[i] = ChallengeKey(f[i]) /\ key[j] = ChallengeKey(f[j])
    OBVIOUS
  <2>4. key[i] \in Int /\ key[j] \in Int
    BY <1>3
  <2> HIDE DEF key
  <2> QED
    BY <2>1, <2>2, <2>3, <2>4 DEF Earlier
<1> HIDE DEF key
<1>5. DOMAIN g = 1..n /\ SortedBy(key, n, f, g)
  <2> DEFINE spot == [i \in DOMAIN f |-> Lists!Cardinality({j \in DOMAIN f : j # i /\
                        (Lists!chBefore(f[j], f[i]) \/ (~Lists!chBefore(f[i], f[j]) /\ j < i))}) + 1]
             from(k) == CHOOSE i \in DOMAIN f : spot[i] = k
  <2>1. g = [k \in DOMAIN f |-> f[from(k)]]
    BY Zenon DEF Lists!sortedProblems, Lists!stableSort, f
  <2>2. ASSUME NEW i \in 1..n PROVE spot[i] = place(i)
    <3>1. {j \in DOMAIN f : j # i /\ (Lists!chBefore(f[j], f[i]) \/ (~Lists!chBefore(f[i], f[j]) /\ j < i))}
            = Ahead(key, n, i)
      BY <1>2, <1>4 DEF Ahead
    <3>2. \A S : Lists!Cardinality(S) = Cardinality(S)
      BY DEF Lists!Cardinality, Cardinality
    <3> QED
      BY <1>2, <3>1, <3>2 DEF SortPlace
  <2> HIDE DEF spot
  <2>3. ASSUME NEW k PROVE from(k) = SortedFrom(key, n, k)
    <3>1. \A i : (i \in DOMAIN f /\ spot[i] = k) <=> (i \in 1..n /\ SortPlace(key, n, i) = k)
      BY <1>2, <2>2
    <3> QED
      BY <3>1, Zenon DEF SortedFrom
  <2> HIDE DEF from
  <2> QED
    BY <1>2, <2>1, <2>3 DEF SortedBy
<1> HIDE DEF g
<1>6. /\ \A k \in 1..n : \E i \in 1..n : place(i) = k /\ g[k] = f[i]
      /\ \A i \in 1..n : place(i) \in 1..n /\ g[place(i)] = f[i]
  <2>1. SortedBy(key, n, f, g) /\ n \in Nat /\ key \in [1..n -> Int]
    BY <1>2, <1>3, <1>5
  <2> QED
    BY <2>1, SortedRows, SMTT(30)
<1>7. DOMAIN g = 1..n /\ Len(g) = n
  <2>1. g \in Seq({g[k] : k \in 1..n}) /\ Len(g) = n
    <3>1. g = [k \in 1..n |-> g[k]]
      BY <1>2, <1>5 DEF g, Lists!sortedProblems, Lists!stableSort, f
    <3> QED
      BY <1>2, <1>5, <3>1, FunctionIsList
  <2> QED
    BY <1>5, <2>1
<1>8. Lists!ToSet(g) = places
  <2>1. \A k \in 1..n : g[k] \in places
    BY <1>2, <1>6
  <2>2. ASSUME NEW i \in places PROVE \E k \in 1..n : g[k] = i
    <3>1. PICK k \in 1..n : f[k] = i
      BY <1>1, <1>2
    <3> QED
      BY <1>6, <3>1
  <2> QED
    BY <1>7, <2>1, <2>2 DEF Lists!ToSet
<1>9. Lists!IsInjective(g)
  <2>1. ASSUME NEW k \in 1..n, NEW l \in 1..n, g[k] = g[l] PROVE k = l
    <3>1. PICK i \in 1..n : place(i) = k /\ g[k] = f[i]
      BY <1>6
    <3>2. PICK j \in 1..n : place(j) = l /\ g[l] = f[j]
      BY <1>6
    <3>3. i = j
      BY <1>1, <1>2, <2>1, <3>1, <3>2 DEF IsInjective
    <3> QED
      BY <3>1, <3>2, <3>3
  <2> QED
    BY <1>7, <2>1 DEF Lists!IsInjective
<1>10. ASSUME NEW k \in 1..(n - 1) PROVE ~Lists!chBefore(g[k + 1], g[k])
  <2>1. k \in 1..n /\ k + 1 \in 1..n /\ k < k + 1
    BY <1>2
  <2>2. PICK i \in 1..n : place(i) = k /\ g[k] = f[i]
    BY <1>6, <2>1
  <2>3. PICK j \in 1..n : place(j) = k + 1 /\ g[k + 1] = f[j]
    BY <1>6, <2>1
  <2>4. place(i) < place(j)
    BY <2>1, <2>2, <2>3
  <2>5. ~Earlier(key, j, i)
    BY <1>2, <1>3, <2>4, SortPlaces
  <2> QED
    BY <1>4, <2>2, <2>3, <2>5 DEF Earlier
<1> QED
  BY <1>7, <1>8, <1>9, <1>10 DEF g, places

-----------------------------------------------------------------------------
(* The invariant of the lists.                                             *)

SubSorts == {Lists!SubmissionSorts[i] : i \in 1..Lists!options}

SelectTyped == isOpen \in BOOLEAN /\ highlighted \in 0..5 /\ (isOpen => highlighted \in 1..5)

\* The submissions page and its select.
SubTyped ==
  /\ subSearch \in DOMAIN Searches /\ subStatus \in {"ALL", "ACCEPTED", "WRONG_ANSWER"}
  /\ subSort \in SubSorts /\ subPage \in Nat \ {0} /\ subSize \in ListSizes
  /\ SelectTyped

Progress == [DOMAIN Problems -> {"NOT_ATTEMPTED", "ATTEMPTED", "SOLVED"}]

\* The challenges page.
ChTyped ==
  /\ chSearch \in DOMAIN Searches /\ chStatus \in {"ALL", "SOLVED", "IN_PROGRESS", "UNSOLVED"}
  /\ chSort \in Lists!ChallengeSorts /\ chDifficulty \in Difficulties
  /\ progressSeen \in Progress /\ progressNow \in Progress

ListInv == SubTyped /\ ChTyped

\* The select has five options, one of which is the order chosen.
LEMMA SelectOptions ==
    /\ Lists!options = 5
    /\ SubSorts = {"NEWEST", "OLDEST", "SCORE_DESC", "STATUS_ASC", "TITLE_ASC"}
    /\ \A i \in 1..5 : Lists!SubmissionSorts[i] \in SubSorts
    /\ subSort \in SubSorts => Lists!selectedIndex \in 1..5
<1>1. Lists!options = 5
  BY DEF Lists!options, Lists!SubmissionSorts
<1>2. /\ Lists!SubmissionSorts[1] = "NEWEST" /\ Lists!SubmissionSorts[2] = "OLDEST"
      /\ Lists!SubmissionSorts[3] = "SCORE_DESC" /\ Lists!SubmissionSorts[4] = "STATUS_ASC"
      /\ Lists!SubmissionSorts[5] = "TITLE_ASC"
  BY DEF Lists!SubmissionSorts
<1>3. 1..5 = {1, 2, 3, 4, 5}
  OBVIOUS
<1>4. SubSorts = {"NEWEST", "OLDEST", "SCORE_DESC", "STATUS_ASC", "TITLE_ASC"}
  BY <1>1, <1>2, <1>3 DEF SubSorts
<1>5. ASSUME subSort \in SubSorts PROVE Lists!selectedIndex \in 1..5
  <2>1. \E j \in 1..Lists!options : Lists!SubmissionSorts[j] = subSort
    BY <1>5 DEF SubSorts
  <2> QED
    BY <1>1, <2>1 DEF Lists!selectedIndex
<1>6. \A i \in 1..5 : Lists!SubmissionSorts[i] \in SubSorts
  BY <1>1 DEF SubSorts
<1> QED
  BY <1>1, <1>4, <1>5, <1>6

LEMMA SelectCloses ==
    /\ isOpen = FALSE /\ highlighted = 0 => SelectTyped
    /\ isOpen' = FALSE /\ highlighted' = 0 => SelectTyped'
<1>1. ASSUME isOpen = FALSE, highlighted = 0 PROVE SelectTyped
  <2>1. isOpen \in BOOLEAN /\ ~isOpen
    BY <1>1
  <2> QED
    BY <1>1, <2>1 DEF SelectTyped
<1>2. ASSUME isOpen' = FALSE, highlighted' = 0 PROVE SelectTyped'
  <2>1. isOpen' \in BOOLEAN /\ ~isOpen'
    BY <1>2
  <2> QED
    BY <1>2, <2>1 DEF SelectTyped
<1> QED
  BY <1>1, <1>2

LEMMA ListsStart ==
    Lists!Init => ListInv
<1> SUFFICES ASSUME Lists!Init PROVE ListInv
  OBVIOUS
<1>1. FirstSize \in ListSizes /\ 0 \in Difficulties
  BY ListAssumption DEF Lists!ListConstants
<1>2. subSearch \in DOMAIN Searches /\ chSearch \in DOMAIN Searches
  BY ListAssumption, Zenon DEF Lists!ListConstants, Lists!Init, Lists!SubInit, Lists!ChInit
<1>3. /\ subStatus = "ALL" /\ subSort = "NEWEST" /\ subPage = 1 /\ subSize = FirstSize
      /\ isOpen = FALSE /\ highlighted = 0
  BY Zenon DEF Lists!Init, Lists!SubInit
<1>4. SubTyped
  <2>1. SelectTyped
    BY <1>3, SelectCloses
  <2> QED
    BY <1>1, <1>2, <1>3, <2>1, SelectOptions DEF SubTyped
<1>5. /\ chStatus = "ALL" /\ chDifficulty = 0 /\ chSort = "DEFAULT" /\ progressNow = progressSeen
      /\ progressSeen = [i \in DOMAIN Problems |-> "NOT_ATTEMPTED"]
  BY Zenon DEF Lists!Init, Lists!ChInit
<1>6. progressSeen \in Progress /\ progressNow \in Progress /\ chSort \in Lists!ChallengeSorts
  BY <1>5 DEF Progress, Lists!ChallengeSorts
<1> QED
  BY <1>1, <1>2, <1>4, <1>5, <1>6 DEF ListInv, ChTyped

\* The steps of the submissions page.
LEMMA SubmissionsStep ==
    ASSUME ListInv, Lists!SubNext
    PROVE  ListInv'
<1>1. SubTyped /\ ChTyped
  BY DEF ListInv
<1>2. /\ Lists!options = 5
      /\ SubSorts = {"NEWEST", "OLDEST", "SCORE_DESC", "STATUS_ASC", "TITLE_ASC"}
      /\ \A i \in 1..5 : Lists!SubmissionSorts[i] \in SubSorts
      /\ Lists!selectedIndex \in 1..5
  BY <1>1, SelectOptions DEF SubTyped
<1>3. \A p \in 1..Lists!totalPages(Lists!subTotal, subSize) : p \in Nat \ {0}
  <2>1. subSize \in Nat \ {0}
    BY <1>1, ListAssumption DEF SubTyped, Lists!ListConstants
  <2>2. Lists!totalPages(Lists!subTotal, subSize) \in Nat
    BY <2>1, SubmissionsAreList, TotalPages, ListPages
  <2> QED
    BY <2>2
<1>4. ASSUME UNCHANGED Lists!chVars PROVE ChTyped'
  BY <1>1, <1>4 DEF ChTyped, Lists!chVars, Progress
<1>5. ASSUME NEW i \in 1..5, Lists!selectOption(i) PROVE ListInv'
  <2>1. SelectTyped'
    BY <1>5, SelectCloses DEF Lists!selectOption
  <2>2. subSort' = Lists!SubmissionSorts[i] /\ Lists!SubmissionSorts[i] \in SubSorts
    BY <1>2, <1>5 DEF Lists!selectOption
  <2> QED
    BY <1>1, <1>4, <1>5, <2>1, <2>2 DEF ListInv, SubTyped, Lists!selectOption, SubSorts
<1>6. CASE Lists!toggleDropdown
  <2>1. SelectTyped'
    BY <1>1, <1>2, <1>6 DEF SubTyped, SelectTyped, Lists!toggleDropdown
  <2> QED
    BY <1>1, <1>4, <1>6, <2>1 DEF ListInv, SubTyped, Lists!toggleDropdown, SubSorts
<1>7. CASE Lists!closeDropdown
  <2>1. SelectTyped'
    BY <1>7, SelectCloses DEF Lists!closeDropdown
  <2> QED
    BY <1>1, <1>4, <1>7, <2>1 DEF ListInv, SubTyped, Lists!closeDropdown, SubSorts
<1>8. CASE Lists!EnterKey
  <2>1. highlighted \in 1..5 /\ Lists!selectOption(highlighted)
    BY <1>1, <1>8 DEF SubTyped, SelectTyped, Lists!EnterKey
  <2> QED
    BY <1>5, <2>1
<1>9. CASE Lists!Highlight
  <2>1. isOpen /\ highlighted \in 1..5
    BY <1>1, <1>9 DEF SubTyped, SelectTyped, Lists!Highlight
  <2>2. \A key \in {"ArrowDown", "ArrowUp", "Home", "End"} :
          Lists!stepKey(highlighted, key) \in 1..5
    BY <1>2, <2>1 DEF Lists!stepKey
  <2>3. highlighted' \in 1..5
    BY <1>2, <1>9, <2>2 DEF Lists!Highlight
  <2> QED
    BY <1>1, <1>4, <1>9, <2>1, <2>3 DEF ListInv, SubTyped, SelectTyped, Lists!Highlight, SubSorts
<1>10. ASSUME NEW val \in DOMAIN Searches, Lists!handleSearchChange(val) PROVE ListInv'
  BY <1>1, <1>4, <1>10 DEF ListInv, SubTyped, SelectTyped, Lists!handleSearchChange, SubSorts
<1>11. ASSUME NEW st \in {"ALL", "ACCEPTED", "WRONG_ANSWER"}, Lists!handleStatusFilterChange(st)
       PROVE  ListInv'
  BY <1>1, <1>4, <1>11 DEF ListInv, SubTyped, SelectTyped, Lists!handleStatusFilterChange, SubSorts
<1>12. ASSUME NEW col \in {"CHALLENGE", "SCORE", "STATUS", "SUBMITTED"}, Lists!HeadClick(col)
       PROVE  ListInv'
  <2>1. Lists!headOrder(col) \in SubSorts
    BY <1>2 DEF Lists!headOrder
  <2> QED
    BY <1>1, <1>4, <1>12, <2>1 DEF ListInv, SubTyped, SelectTyped, Lists!HeadClick, SubSorts
<1>13. ASSUME NEW p \in Nat \ {0}, Lists!PageChange(p) PROVE ListInv'
  BY <1>1, <1>4, <1>13 DEF ListInv, SubTyped, SelectTyped, Lists!PageChange, SubSorts
<1>14. ASSUME NEW size \in ListSizes, Lists!PageSizeChange(size) PROVE ListInv'
  BY <1>1, <1>4, <1>14 DEF ListInv, SubTyped, SelectTyped, Lists!PageSizeChange, SubSorts
<1> QED
  BY <1>2, <1>3, <1>5, <1>6, <1>7, <1>8, <1>9, <1>10, <1>11, <1>12, <1>13, <1>14
     DEF Lists!SubNext

\* The steps of the challenges page.
LEMMA ChallengesStep ==
    ASSUME ListInv, Lists!ChNext
    PROVE  ListInv'
<1>1. SubTyped /\ ChTyped
  BY DEF ListInv
<1>2. ASSUME UNCHANGED Lists!subVars PROVE SubTyped'
  BY <1>1, <1>2 DEF SubTyped, SelectTyped, Lists!subVars, SubSorts
<1>3. CASE Lists!SetFilter
  BY <1>1, <1>2, <1>3 DEF ListInv, ChTyped, Lists!SetFilter, Progress
<1>4. CASE Lists!RefreshProgress
  BY <1>1, <1>2, <1>4 DEF ListInv, ChTyped, Lists!RefreshProgress, Progress
<1>5. CASE Lists!OpenChallenge
  BY <1>1, <1>2, <1>5 DEF ListInv, ChTyped, Lists!OpenChallenge, Progress
<1>6. CASE Lists!BackToChallenges
  BY <1>1, <1>2, <1>6 DEF ListInv, ChTyped, Lists!BackToChallenges, Progress
<1>7. CASE Lists!TimePasses
  <2>1. progressNow' \in Progress
    <3>1. CASE UNCHANGED progressNow
      BY <1>1, <3>1 DEF ChTyped, Progress
    <3>2. ASSUME NEW i \in DOMAIN Problems, NEW st \in {"ATTEMPTED", "SOLVED"},
                 progressNow' = [progressNow EXCEPT ![i] = st]
          PROVE  progressNow' \in Progress
      BY <1>1, <3>2 DEF ChTyped, Progress
    <3> QED
      BY <1>7, <3>1, <3>2 DEF Lists!TimePasses
  <2> QED
    BY <1>1, <1>2, <1>7, <2>1 DEF ListInv, ChTyped, Lists!TimePasses, Progress
<1> QED
  BY <1>3, <1>4, <1>5, <1>6, <1>7 DEF Lists!ChNext

LEMMA ListsStep ==
    ASSUME ListInv, [Lists!Next]_Lists!listPageVars
    PROVE  ListInv'
<1>1. SubTyped /\ ChTyped
  BY DEF ListInv
<1>2. CASE Lists!Navigate
  <2>1. FirstSize \in ListSizes /\ 0 \in Difficulties
    BY ListAssumption DEF Lists!ListConstants
  <2>2. SubTyped'
    <3>1. SelectTyped'
      BY <1>2, SelectCloses DEF Lists!Navigate
    <3>2. subSort' = "NEWEST" /\ "NEWEST" \in SubSorts
      BY <1>2, SelectOptions DEF Lists!Navigate
    <3>3. /\ subSearch' \in DOMAIN Searches /\ subStatus' = "ALL" /\ subPage' = 1
          /\ subSize' = FirstSize
      BY <1>2, ListAssumption, Zenon DEF Lists!ListConstants, Lists!Navigate
    <3> QED
      BY <2>1, <3>1, <3>2, <3>3 DEF SubTyped, SubSorts
  <2>3. ChTyped'
    <3>1. chSearch' \in DOMAIN Searches
      BY <1>2, ListAssumption, Zenon DEF Lists!ListConstants, Lists!Navigate
    <3>2. /\ chStatus' = "ALL" /\ chDifficulty' = 0 /\ chSort' = "DEFAULT"
          /\ progressSeen' = progressNow /\ progressNow' = progressNow
      BY <1>2, Zenon DEF Lists!Navigate
    <3> QED
      BY <1>1, <2>1, <3>1, <3>2 DEF ChTyped, Progress, Lists!ChallengeSorts
  <2> QED
    BY <2>2, <2>3 DEF ListInv
<1>3. CASE UNCHANGED Lists!listPageVars
  BY <1>1, <1>3
     DEF ListInv, SubTyped, SelectTyped, ChTyped, Lists!listPageVars, Lists!subVars, Lists!chVars, SubSorts,
         Progress
<1> QED
  BY <1>2, <1>3, SubmissionsStep, ChallengesStep DEF Lists!Next

LEMMA ListsInvariant ==
    Lists!Spec => []ListInv
<1>1. Lists!Init => ListInv
  BY ListsStart
<1>2. ListInv /\ [Lists!Next]_Lists!listPageVars => ListInv'
  BY ListsStep
<1> QED
  BY <1>1, <1>2, PTL DEF Lists!Spec

\* The types of the lists' state.
THEOREM ListTypes ==
    Lists!Spec => []Lists!TypeOK
<1>1. ListInv => Lists!TypeOK
  BY DEF ListInv, SubTyped, SelectTyped, ChTyped, SubSorts, Progress, Lists!TypeOK
<1> QED
  BY <1>1, ListsInvariant, PTL

\* Where submissions match, the page shows some, the pages hold each match exactly once, and
\* the page buttons reach the neighbours and both ends, whatever was searched, filtered,
\* sorted and paged before (submissions-client.tsx, getPageNumbers).
THEOREM SubmissionsOnPages ==
    Lists!Spec => []Lists!SubmissionsListed
<1>1. ListInv => Lists!SubmissionsListed
  <2> SUFFICES ASSUME ListInv PROVE Lists!SubmissionsListed
    OBVIOUS
  <2> DEFINE sorted == Lists!sortedSubmissions
             total == Lists!subTotal
             place == Lists!subValidPage
             pages == Lists!totalPages(total, subSize)
  <2>1. subSize \in Nat \ {0} /\ subPage \in Nat \ {0}
    BY ListAssumption DEF Lists!ListConstants, ListInv, SubTyped
  <2>2. PICK R : sorted \in Seq(R)
    BY SubmissionsAreList
  <2>3. total \in Nat /\ Len(sorted) = total
    BY SubmissionsAreList
  <2>4. pages = totalPages(total, subSize) /\ place = validPage(subPage, total, subSize)
    BY ListPages DEF Lists!subValidPage
  <2>5. Lists!PagesPartition(sorted, subSize)
    BY <2>1, <2>2, PagesShareRows, ListPages
  <2>6. ASSUME total # 0 PROVE Lists!paginatedSubmissions # <<>>
    <3>1. sorted # <<>>
      BY <2>2, <2>3, <2>6
    <3>2. Lists!paginatedSubmissions = slice(sorted, place, subSize)
      BY ListPages DEF Lists!paginatedSubmissions
    <3> HIDE DEF sorted, total, place
    <3>3. slice(sorted, validPage(subPage, Len(sorted), subSize), subSize) # <<>>
      BY <2>1, <2>2, <3>1, PageHasRows
    <3> QED
      BY <2>3, <2>4, <3>2, <3>3
  <2>7. ({1, pages} \cup {p \in 1..pages : p + 1 = place \/ place + 1 = p})
          \subseteq getPageNumbers(place, pages)
    <3> HIDE DEF total, place, pages
    <3>1. pages \in Nat \ {0} /\ place \in 1..pages
      BY <2>1, <2>3, <2>4, TotalPages, ValidPage
    <3>2. ({1, pages} \cup {p \in 1..pages : p + 1 = place \/ p = place + 1})
            \subseteq getPageNumbers(place, pages)
      BY <3>1, ButtonsReach
    <3> QED
      BY <3>2
  <2>8. Lists!getPageNumbers(place, pages) = getPageNumbers(place, pages)
    BY ListPages
  <2> QED
    BY <2>5, <2>6, <2>7, <2>8 DEF Lists!SubmissionsListed
<1> QED
  BY <1>1, ListsInvariant, PTL

\* The challenges shown are those that match, each once and in order; under any search and
\* difficulty, solved and unsolved ones are all there are (filteredProblems, sortedProblems).
THEOREM ChallengesInOrder ==
    Lists!Spec => []Lists!ChallengesListed
<1>1. ListInv => Lists!ChallengesListed
  BY ChallengesSorted, SolvedOrNot DEF ListInv, ChTyped, Lists!ChallengesListed
<1> QED
  BY <1>1, ListsInvariant, PTL

\* What the lists promise: every match once, in order, on a page that can be reached, and an
\* open select with an option highlighted (handleKeyDown).
THEOREM ListsPromise == Lists!Spec => []ListsAddUp
<1>1. ListInv => Lists!HighlightInRange
  BY SelectOptions DEF ListInv, SubTyped, SelectTyped, Lists!HighlightInRange
<1>2. /\ Lists!SubmissionsListed /\ Lists!ChallengesListed /\ Lists!HighlightInRange
        => ListsAddUp
  BY DEF ListsAddUp
<1> QED
  BY <1>1, <1>2, ListsInvariant, SubmissionsOnPages, ChallengesInOrder, PTL

-----------------------------------------------------------------------------
(* The workspace: the history.                                             *)

LEMMA WorkRows ==
    \A s, places : Work!rowsAt(s, places) = rowsAt(s, places)
<1>1. \A S : Work!Cardinality(S) = Cardinality(S)
  BY DEF Work!Cardinality, Cardinality
<1> SUFFICES ASSUME NEW s, NEW places PROVE Work!rowsAt(s, places) = rowsAt(s, places)
  OBVIOUS
<1> DEFINE upTo(i) == {j \in places : j <= i}
<1>2. ASSUME NEW k
      PROVE  (CHOOSE i \in places : Work!Cardinality(upTo(i)) = k)
               = (CHOOSE i \in places : Cardinality(upTo(i)) = k)
  <2> HIDE DEF upTo
  <2>1. \A i : (i \in places /\ Work!Cardinality(upTo(i)) = k)
                 <=> (i \in places /\ Cardinality(upTo(i)) = k)
    BY <1>1
  <2> QED
    BY <2>1, Zenon
<1> DEFINE theirs(k) == CHOOSE i \in places : Work!Cardinality(upTo(i)) = k
           nth(k) == CHOOSE i \in places : Cardinality(upTo(i)) = k
<1>3. /\ Work!rowsAt(s, places) = [k \in 1..Work!Cardinality(places) |-> s[theirs(k)]]
      /\ rowsAt(s, places) = [k \in 1..Cardinality(places) |-> s[nth(k)]]
  BY Zenon DEF Work!rowsAt, rowsAt
<1>4. \A k : theirs(k) = nth(k)
  BY <1>2, Zenon
<1> HIDE DEF theirs, nth
<1> QED
  BY <1>1, <1>3, <1>4

Snaps == Seq(Work!Snapshot)

\* Each submission is in a list of snapshots once.
EachOnce(h) == \A i, j \in 1..Len(h) : h[i].id = h[j].id /\ h[i].id # 0 => i = j

\* A history is no longer than it may be.
History(h) == h \in Snaps /\ Len(h) <= MaxSnaps /\ EachOnce(h)

\* A listing has the source and the state of each submission once.
Listing(L) ==
  /\ IsFiniteSet(L)
  /\ L \subseteq [id : Nat \ {0}, language : Languages, code : Work!Sources,
                  verdict : {"queued", "judged"}]
  /\ \A s, u \in L : s.id = u.id => s = u

\* Cutting a list leaves its beginning.
LEMMA CutHistory ==
    ASSUME NEW h \in Snaps, EachOnce(h)
    PROVE  /\ History(Work!Truncate(h))
           /\ \A i \in 1..Len(Work!Truncate(h)) : i \in 1..Len(h) /\ Work!Truncate(h)[i] = h[i]
           /\ h # <<>> => Len(Work!Truncate(h)) >= 1
<1> DEFINE cut == IF Len(h) < MaxSnaps THEN Len(h) ELSE MaxSnaps
           m == Work!Truncate(h)
<1>1. MaxSnaps \in Nat \ {0} /\ Len(h) \in Nat
  BY WorkAssumption DEF Work!WorkConstants, Snaps
<1>2. cut \in 0..Len(h) /\ cut <= MaxSnaps
  BY <1>1
<1>3. m = SubSeq(h, 1, cut)
  BY DEF Work!Truncate
<1>4. h # <<>> => cut >= 1
  <2>1. h # <<>> => Len(h) >= 1
    BY DEF Snaps
  <2> QED
    BY <1>1, <2>1
<1> HIDE DEF cut, m
<1>5. m \in Snaps /\ Len(m) = cut /\ \A i \in 1..cut : m[i] = h[i]
  BY <1>1, <1>2, <1>3 DEF Snaps
<1>6. EachOnce(m)
  BY <1>1, <1>2, <1>5 DEF EachOnce
<1> QED
  BY <1>1, <1>2, <1>4, <1>5, <1>6 DEF History, m

\* A new snapshot goes on top.
LEMMA OnTop ==
    ASSUME NEW h, History(h), NEW n \in Work!Snapshot,
           \A i \in 1..Len(h) : n.id = 0 \/ h[i].id # n.id
    PROVE  /\ History(Work!Truncate(<<n>> \o h))
           /\ 1 \in 1..Len(Work!Truncate(<<n>> \o h)) /\ Work!Truncate(<<n>> \o h)[1] = n
<1> DEFINE g == <<n>> \o h
<1>1. h \in Snaps /\ Len(h) \in Nat
  BY DEF History, Snaps
<1>2. /\ g \in Snaps /\ Len(g) = Len(h) + 1 /\ g[1] = n
      /\ \A i \in 2..Len(g) : i - 1 \in 1..Len(h) /\ g[i] = h[i - 1]
  BY <1>1 DEF Snaps
<1> HIDE DEF g
<1>3. EachOnce(g)
  <2> SUFFICES ASSUME NEW i \in 1..Len(g), NEW j \in 1..Len(g), g[i].id = g[j].id, g[i].id # 0
               PROVE  i = j
    BY DEF EachOnce
  <2>1. CASE i = 1 /\ j = 1
    BY <2>1
  <2>2. CASE i = 1 /\ j # 1
    <3>1. j \in 2..Len(g)
      BY <1>1, <1>2, <2>2
    <3> QED
      BY <1>2, <2>2, <3>1
  <2>3. CASE i # 1 /\ j = 1
    <3>1. i \in 2..Len(g)
      BY <1>1, <1>2, <2>3
    <3> QED
      BY <1>2, <2>3, <3>1
  <2>4. CASE i # 1 /\ j # 1
    <3>1. i \in 2..Len(g) /\ j \in 2..Len(g)
      BY <1>1, <1>2, <2>4
    <3>2. i - 1 = j - 1
      BY <1>2, <3>1 DEF History, EachOnce
    <3> QED
      BY <3>1, <3>2
  <2> QED
    BY <2>1, <2>2, <2>3, <2>4
<1>4. /\ History(Work!Truncate(g)) /\ Len(Work!Truncate(g)) >= 1 /\ Len(Work!Truncate(g)) \in Nat
      /\ \A i \in 1..Len(Work!Truncate(g)) : Work!Truncate(g)[i] = g[i]
  <2>1. g # <<>>
    BY <1>1, <1>2
  <2> QED
    BY <1>2, <1>3, <2>1, CutHistory DEF History, Snaps
<1> QED
  BY <1>2, <1>4 DEF g

\* What a filter of the history keeps are snapshots of it.
LEMMA FilteredHistory ==
    ASSUME NEW h \in Snaps, NEW places \in SUBSET DOMAIN h
    PROVE  /\ Work!rowsAt(h, places) \in Snaps
           /\ \A k \in DOMAIN Work!rowsAt(h, places) :
                \E i \in 1..Len(h) : Work!rowsAt(h, places)[k] = h[i]
<1>1. DOMAIN h = 1..Len(h)
  BY DEF Snaps
<1>2. /\ rowsAt(h, places) \in Snaps
      /\ \A k \in DOMAIN rowsAt(h, places) : \E i \in places : rowsAt(h, places)[k] = h[i]
  BY RowsAtAreRows DEF Snaps
<1> QED
  BY <1>1, <1>2, WorkRows

\* A snapshot of the page: what is recorded.
LEMMA SnapTyped ==
    ASSUME NEW trig \in {"submitted", "autosave", "ran"}, NEW lang \in Languages,
           NEW c \in Work!Sources, NEW id \in Nat, NEW verdict \in {"none", "queued", "judged"}
    PROVE  /\ Work!Snap(trig, lang, c, id, verdict) \in Work!Snapshot
           /\ Work!Snap(trig, lang, c, id, verdict).id = id
           /\ Work!Snap(trig, lang, c, id, verdict).code = c
  BY DEF Work!Snap, Work!Snapshot

\* record keeps a history one, whatever it is given.
LEMMA RecordedHistory ==
    ASSUME NEW h, History(h), NEW trig \in {"submitted", "autosave", "ran"},
           NEW lang \in Languages, NEW c \in Work!Sources, NEW id \in Nat, NEW verdict \in {"none", "queued", "judged"}
    PROVE  History(Work!Recorded(h, trig, lang, c, id, verdict))
<1> DEFINE new == Work!Recorded(h, trig, lang, c, id, verdict)
           at == Work!IndexOf(h, id)
           snap == Work!Snap(trig, lang, c, id, verdict)
           upd == [i \in DOMAIN h |-> IF i \in at /\ verdict # "none"
                                      THEN [h[i] EXCEPT !.verdict = verdict] ELSE h[i]]
<1>1. h \in Snaps /\ Len(h) \in Nat /\ DOMAIN h = 1..Len(h)
  BY DEF History, Snaps
<1>2. \/ at # {} /\ new = upd
      \/ at = {} /\ new = h
      \/ at = {} /\ new = Work!Truncate(<<snap>> \o h)
  BY Zenon DEF Work!Recorded
<1>3. at = {} => \A i \in 1..Len(h) : id = 0 \/ h[i].id # id
  BY <1>1 DEF Work!IndexOf
<1>4. snap \in Work!Snapshot /\ snap.id = id
  BY SnapTyped
<1> HIDE DEF new, at, snap
<1>5. CASE at = {} /\ new = Work!Truncate(<<snap>> \o h)
  BY <1>3, <1>4, <1>5, OnTop DEF new
<1>6. CASE new = upd
  <2>1. \A i \in 1..Len(h) : upd[i] \in Work!Snapshot /\ upd[i].id = h[i].id
    <3> TAKE i \in 1..Len(h)
    <3>1. h[i] \in Work!Snapshot
      BY <1>1 DEF Snaps
    <3>2. [h[i] EXCEPT !.verdict = verdict] \in Work!Snapshot
          /\ [h[i] EXCEPT !.verdict = verdict].id = h[i].id
      BY <3>1 DEF Work!Snapshot
    <3>3. upd[i] = [h[i] EXCEPT !.verdict = verdict] \/ upd[i] = h[i]
      BY <1>1
    <3> HIDE DEF upd
    <3> QED
      BY <3>1, <3>2, <3>3
  <2>2. DOMAIN upd = 1..Len(h) /\ upd \in [1..Len(h) -> Work!Snapshot]
    <3>1. upd = [i \in 1..Len(h) |-> upd[i]]
      BY <1>1, Zenon
    <3> HIDE DEF upd
    <3> QED
      BY <2>1, <3>1
  <2> HIDE DEF upd
  <2>3. upd \in Snaps /\ Len(upd) = Len(h)
    BY <1>1, <2>2 DEF Snaps
  <2>4. EachOnce(upd)
    BY <2>1, <2>3 DEF History, EachOnce
  <2> QED
    BY <1>6, <2>3, <2>4 DEF History, new
<1>7. CASE new = h
  BY <1>7 DEF new
<1> QED
  BY <1>2, <1>5, <1>6, <1>7 DEF new

\* What is autosaved is in the history then, also where record skips it.
LEMMA AutosavedIsThere ==
    ASSUME NEW h, History(h), NEW lang \in Languages, NEW c \in Work!Sources
    PROVE  LET new == Work!Recorded(h, "autosave", lang, c, 0, "none")
           IN  \E i \in DOMAIN new : new[i].code = c
<1> DEFINE new == Work!Recorded(h, "autosave", lang, c, 0, "none")
           snap == Work!Snap("autosave", lang, c, 0, "none")
           places == {i \in DOMAIN h : h[i].trigger = "autosave"}
           autosaves == Work!rowsAt(h, places)
<1>1. h \in Snaps /\ Len(h) \in Nat /\ DOMAIN h = 1..Len(h)
  BY DEF History, Snaps
<1>2. Work!IndexOf(h, 0) = {}
  BY DEF Work!IndexOf
<1>3. \/ new = h /\ autosaves # <<>> /\ Head(autosaves).code = c
      \/ new = h /\ h # <<>> /\ Head(h).code = c
      \/ new = Work!Truncate(<<snap>> \o h)
  BY <1>2, Zenon DEF Work!Recorded
<1>4. snap \in Work!Snapshot /\ snap.id = 0 /\ snap.code = c
  BY SnapTyped
<1> HIDE DEF new, snap
<1>5. CASE new = h /\ autosaves # <<>> /\ Head(autosaves).code = c
  <2>1. /\ autosaves \in Snaps
        /\ \A k \in DOMAIN autosaves : \E i \in 1..Len(h) : autosaves[k] = h[i]
    <3>1. places \in SUBSET DOMAIN h
      OBVIOUS
    <3> HIDE DEF places
    <3> QED
      BY <1>1, <3>1, FilteredHistory
  <2> HIDE DEF autosaves
  <2>2. 1 \in DOMAIN autosaves /\ Head(autosaves) = autosaves[1]
    BY <1>5, <2>1 DEF Snaps
  <2>3. PICK i \in 1..Len(h) : autosaves[1] = h[i]
    BY <2>1, <2>2
  <2> QED
    BY <1>1, <1>5, <2>2, <2>3 DEF new
<1>6. CASE new = h /\ h # <<>> /\ Head(h).code = c
  <2>1. 1 \in DOMAIN h /\ Head(h) = h[1]
    BY <1>1, <1>6 DEF Snaps
  <2> QED
    BY <1>6, <2>1 DEF new
<1>7. CASE new = Work!Truncate(<<snap>> \o h)
  <2>1. History(new) /\ 1 \in 1..Len(new) /\ new[1] = snap
    BY <1>4, <1>7, OnTop
  <2>2. 1 \in DOMAIN new
    BY <2>1 DEF History, Snaps
  <2> QED
    BY <1>4, <2>1, <2>2 DEF new
<1> QED
  BY <1>3, <1>5, <1>6, <1>7

\* A merged history is a history, and where it has a listed submission it has the source
\* that was judged.  The rows that are no additions are the ones that were there, each at one
\* place (KeptPlaces), and the additions take the places that are left, each one (WovenOnce).
LEMMA MergedHistory ==
    ASSUME NEW h, History(h), NEW L, Listing(L), NEW m \in Work!Merges(h, L)
    PROVE  /\ History(m)
           /\ \A i \in 1..Len(m), s \in L :
                m[i].id = s.id => m[i].code = s.code /\ m[i].language = s.language
<1> DEFINE from(n) == CHOOSE s \in L : s.id = n.id
           update(n) == IF \E s \in L : s.id = n.id
                        THEN [n EXCEPT !.language = from(n).language, !.code = from(n).code,
                                       !.verdict = from(n).verdict]
                        ELSE n
           updated == [i \in DOMAIN h |-> update(h[i])]
           missing == {s \in L : Work!IndexOf(h, s.id) = {}}
           toSnap(s) == Work!Snap("submitted", s.language, s.code, s.id, s.verdict)
           added == {toSnap(s) : s \in missing}
<1>1. h \in Snaps /\ Len(h) \in Nat /\ DOMAIN h = 1..Len(h)
  BY DEF History, Snaps
<1>2. PICK x \in [1..Len(h) + Work!Cardinality(added) -> Work!Range(updated) \cup added] :
        /\ m = Work!Truncate(x)
        /\ Work!rowsAt(x, {i \in DOMAIN x : x[i] \notin added}) = updated
        /\ added \subseteq Work!Range(x)
  BY Zenon DEF Work!Merges
<1> DEFINE n == Len(h) + Cardinality(added)
           places == {i \in 1..n : x[i] \notin added}
<1>3. n = Len(h) + Work!Cardinality(added)
  BY DEF Cardinality, Work!Cardinality
<1>4. /\ DOMAIN x = 1..n
      /\ rowsAt(x, places) = updated
      /\ \A a \in added : \E i \in 1..n : x[i] = a
  <2>1. DOMAIN x = 1..n
    BY <1>3, Zenon
  <2>2. \A a \in added : \E i \in 1..n : x[i] = a
    BY <1>2, <2>1, Zenon DEF Work!Range
  <2> QED
    BY <1>2, <2>1, <2>2, WorkRows, Zenon
\* What is merged.
<1>5. /\ IsFiniteSet(added) /\ Cardinality(added) \in Nat
      /\ \A a \in added : \E s \in missing : a = toSnap(s)
  <2>1. IsFiniteSet(missing)
    BY FS_Subset DEF Listing
  <2> DEFINE f == [s \in missing |-> toSnap(s)]
  <2> HIDE DEF missing, toSnap
  <2>2. f \in Surjection(missing, added)
    BY DEF Surjection
  <2>3. IsFiniteSet(added)
    <3> HIDE DEF f, added
    <3> QED
      BY <2>1, <2>2, FS_Surjection
  <2> QED
    BY <2>3, FS_CardinalityType
<1>6. \A s \in missing :
        /\ s \in L /\ s.id \in Nat \ {0} /\ \A i \in 1..Len(h) : h[i].id # s.id
        /\ toSnap(s) \in Work!Snapshot /\ toSnap(s).id = s.id
        /\ toSnap(s).code = s.code /\ toSnap(s).language = s.language
  <2> TAKE s \in missing
  <2>1. /\ s \in L /\ s.id \in Nat \ {0} /\ s.language \in Languages /\ s.code \in Work!Sources
        /\ s.verdict \in {"queued", "judged"}
    BY DEF Listing
  <2>2. \A i \in 1..Len(h) : h[i].id # s.id
    BY <1>1, <2>1 DEF Work!IndexOf
  <2> QED
    BY <2>1, <2>2 DEF Work!Snap, Work!Snapshot
<1>7. \A i \in 1..Len(h) :
        /\ updated[i] \in Work!Snapshot /\ updated[i].id = h[i].id
        /\ \A s \in L : h[i].id = s.id => updated[i].code = s.code /\ updated[i].language = s.language
  <2> TAKE i \in 1..Len(h)
  <2>1. h[i] \in Work!Snapshot /\ updated[i] = update(h[i])
    <3>1. h[i] \in Work!Snapshot
      <4> HIDE DEF updated, added
      <4> QED
        BY <1>1 DEF Snaps
    <3>2. i \in DOMAIN h
      BY <1>1, Zenon
    <3>3. updated[i] = update(h[i])
      <4> HIDE DEF update, added
      <4> QED
        BY <3>2, Zenon
    <3> QED
      BY <3>1, <3>3, Zenon
  <2>2. CASE \E s \in L : s.id = h[i].id
    <3>1. from(h[i]) \in L /\ from(h[i]).id = h[i].id
      BY <2>2
    <3>2. updated[i] = [h[i] EXCEPT !.language = from(h[i]).language, !.code = from(h[i]).code,
                                    !.verdict = from(h[i]).verdict]
      BY <2>1, <2>2
    <3> HIDE DEF from, updated
    <3>3. /\ from(h[i]).language \in Languages /\ from(h[i]).code \in Work!Sources
          /\ from(h[i]).verdict \in {"queued", "judged"}
          /\ \A s \in L : h[i].id = s.id => s = from(h[i])
      BY <3>1 DEF Listing
    <3> QED
      BY <2>1, <3>1, <3>2, <3>3 DEF Work!Snapshot
  <2>3. CASE ~\E s \in L : s.id = h[i].id
    <3>1. updated[i] = h[i]
      BY <2>1, <2>3
    <3> QED
      BY <2>1, <2>3, <3>1
  <2> QED
    BY <2>2, <2>3
<1>8. DOMAIN updated = 1..Len(h)
  BY <1>1
<1> HIDE DEF updated, missing, toSnap, added, update, from
\* Where it comes to stand.
<1>9. n \in Nat /\ n = Len(h) + Cardinality(added)
  BY <1>1, <1>5
<1> HIDE DEF n
<1>10. places \in SUBSET (1..n) /\ Cardinality(places) = Len(h)
  <2>1. places \in SUBSET (1..n)
    OBVIOUS
  <2>2. IsFiniteSet(places)
    <3>1. IsFiniteSet(1..n)
      BY <1>9, FS_Interval
    <3> QED
      BY <2>1, <3>1, FS_Subset
  <2> HIDE DEF places
  <2>3. DOMAIN rowsAt(x, places) = 1..Cardinality(places) /\ Cardinality(places) \in Nat
    BY <2>2, RowsAtIsList
  <2> QED
    BY <1>1, <1>4, <1>8, <2>1, <2>3
<1> DEFINE place == PlaceOf(n, places)
<1>11. /\ place \in Bijection(1..Len(h), places)
       /\ \A k \in 1..Len(h) : updated[k] = x[place[k]]
  <2> HIDE DEF places
  <2>1. /\ PlaceOf(n, places) \in Bijection(1..Cardinality(places), places)
        /\ \A k \in 1..Cardinality(places) : rowsAt(x, places)[k] = x[PlaceOf(n, places)[k]]
    BY <1>9, <1>10, KeptPlaces, Zenon
  <2> QED
    BY <1>4, <1>10, <2>1, Zenon
<1>12. /\ \A k \in 1..Len(h) : place[k] \in places
       /\ \A i \in places : \E k \in 1..Len(h) : place[k] = i /\ x[i] = updated[k]
  <2> HIDE DEF place, places
  <2> QED
    BY <1>11 DEF Bijection, Surjection, Injection
<1> HIDE DEF place
<1>13. \A i, j \in 1..n : x[i] \in added /\ x[i] = x[j] => i = j
  <2>1. Cardinality(places) + Cardinality(added) = n
    BY <1>9, <1>10
  <2>2. places = {i \in 1..n : x[i] \notin added}
    OBVIOUS
  <2> HIDE DEF places
  <2> QED
    BY <1>4, <1>5, <1>9, <2>1, <2>2, WovenOnce
<1>14. \A i \in 1..n : \/ i \in places /\ \E k \in 1..Len(h) : place[k] = i /\ x[i] = updated[k]
                       \/ \E s \in missing : x[i] = toSnap(s) /\ x[i] \in added
  BY <1>5, <1>12
<1> HIDE DEF places
<1>15. x \in Snaps /\ Len(x) = n
  <2>1. \A i \in 1..n : x[i] \in Work!Snapshot
    BY <1>6, <1>7, <1>14
  <2>2. x \in [1..n -> Work!Snapshot]
    BY <1>4, <2>1
  <2> QED
    BY <1>9, <2>2 DEF Snaps
<1>16. EachOnce(x)
  <2> SUFFICES ASSUME NEW i \in 1..n, NEW j \in 1..n, x[i].id = x[j].id, x[i].id # 0
               PROVE  i = j
    BY <1>15 DEF EachOnce
  <2>1. ASSUME NEW k \in 1..Len(h), place[k] = i, x[i] = updated[k],
               NEW l \in 1..Len(h), place[l] = j, x[j] = updated[l]
        PROVE  i = j
    <3>1. h[k].id = h[l].id /\ h[k].id # 0
      BY <1>7, <2>1
    <3> QED
      BY <2>1, <3>1 DEF History, EachOnce
  <2>2. ASSUME NEW k \in 1..Len(h), NEW s \in missing PROVE updated[k].id # toSnap(s).id
    BY <1>6, <1>7
  <2>3. ASSUME NEW s \in missing, NEW u \in missing, x[i] = toSnap(s), x[j] = toSnap(u), x[i] \in added
        PROVE  i = j
    <3>1. s = u
      BY <1>6, <2>3 DEF Listing
    <3> QED
      BY <1>13, <2>3, <3>1
  <2> QED
    BY <1>14, <2>1, <2>2, <2>3
<1>17. \A i \in 1..n, s \in L : x[i].id = s.id => x[i].code = s.code /\ x[i].language = s.language
  <2> TAKE i \in 1..n, s \in L
  <2>1. ASSUME NEW u \in missing, x[i] = toSnap(u), x[i].id = s.id
        PROVE  x[i].code = s.code /\ x[i].language = s.language
    <3>1. u = s
      BY <1>6, <2>1 DEF Listing
    <3> QED
      BY <1>6, <2>1, <3>1
  <2>2. ASSUME NEW k \in 1..Len(h), x[i] = updated[k], x[i].id = s.id
        PROVE  x[i].code = s.code /\ x[i].language = s.language
    BY <1>7, <2>2
  <2> QED
    BY <1>14, <2>1, <2>2
<1>18. /\ History(Work!Truncate(x))
       /\ \A i \in 1..Len(Work!Truncate(x)) : i \in 1..Len(x) /\ Work!Truncate(x)[i] = x[i]
  BY <1>15, <1>16, CutHistory
<1> QED
  BY <1>2, <1>15, <1>17, <1>18

-----------------------------------------------------------------------------
(* The workspace: the page.                                                *)

\* The editor holds a source, and the history and its copy are the same.
EditorInv ==
  /\ language \in Languages /\ code \in Work!Sources
  /\ draft \in BOOLEAN /\ autosave \in BOOLEAN
  /\ History(snapshots) /\ stored = snapshots
  /\ sync = <<>> \/ sync = <<"wanted">> \/ \E L : Listing(L) /\ sync = <<"read", L>>

\* What was submitted, and what came of it.
AnswersTyped ==
  /\ activeHere \in BOOLEAN
  /\ submitResult \in [id : Nat, status : {"none", "queued", "failed to submit"}]
  /\ submitResult.status # "queued" => submitResult.id = 0
  /\ newestResult \in [id : Nat, status : {"none", "elsewhere", "judged"}]
  /\ request = <<>> \/ \E l \in Languages, c \in Work!Sources, k \in Nat :
                         request = <<[language |-> l, code |-> c, id |-> k]>>

\* The server numbers the submissions.
Numbered == Listing(subs) /\ \A s \in subs : s.id <= Cardinality(subs)

\* A submission that was stored has a verdict only when the provider has one, of it or of a
\* later one; so has one that was answered, or it is active.
AnswersFollow ==
  /\ request # <<>> /\ request[1].id # 0 =>
       \E s \in subs : s.id = request[1].id /\ (s.verdict = "queued" \/ newestResult.status # "none")
  /\ submitResult.status = "queued" => activeHere \/ newestResult.status # "none"
  /\ newestResult.status = "judged" => \E s \in subs : s.verdict = "judged"

AnswersInv == AnswersTyped /\ Numbered /\ AnswersFollow

WorkInv == EditorInv /\ AnswersInv

LEMMA WorkSources ==
    /\ Default \in Languages
    /\ \A l \in Languages : Starter[l] \in Work!Sources
    /\ \A c \in Codes : c \in Work!Sources
  BY WorkAssumption DEF Work!WorkConstants, Work!Sources

LEMMA WorkStarts ==
    Work!Init => WorkInv
<1> SUFFICES ASSUME Work!Init PROVE WorkInv
  OBVIOUS
<1>1. EditorInv
  <2>1. snapshots \in Histories /\ stored = snapshots /\ language = Default /\ code = Starter[Default]
        /\ draft = TRUE /\ autosave = FALSE /\ sync = <<"wanted">>
    BY DEF Work!Init
  <2>2. History(snapshots)
    BY <2>1, WorkAssumption DEF Work!WorkConstants, History, EachOnce, Snaps
  <2> QED
    BY <2>1, <2>2, WorkSources DEF EditorInv
<1>2. /\ request = <<>> /\ activeHere = FALSE /\ subs = {}
      /\ submitResult = [id |-> 0, status |-> "none"] /\ newestResult = [id |-> 0, status |-> "none"]
  BY DEF Work!Init, Work!NoResult
<1>3. AnswersTyped /\ AnswersFollow
  BY <1>2 DEF AnswersTyped, AnswersFollow
<1>4. Numbered
  BY <1>2, FS_EmptySet DEF Numbered, Listing
<1> QED
  BY <1>1, <1>3, <1>4 DEF WorkInv, AnswersInv

\* A recorded snapshot leaves a history, and a copy of it.
LEMMA SaveSafe ==
    ASSUME EditorInv, NEW h, History(h), Work!Save(h)
    PROVE  History(snapshots') /\ stored' = snapshots'
<1>1. snapshots' = h /\ stored' = h
  BY Zenon DEF Work!Save, EditorInv
<1> QED
  BY <1>1

LEMMA RecordSafe ==
    ASSUME EditorInv, NEW trig \in {"submitted", "autosave", "ran"}, NEW lang \in Languages,
           NEW c \in Work!Sources, NEW id \in Nat, NEW verdict \in {"none", "queued", "judged"},
           Work!Record(trig, lang, c, id, verdict)
    PROVE  History(snapshots') /\ stored' = snapshots'
<1>1. History(Work!Recorded(snapshots, trig, lang, c, id, verdict))
  BY RecordedHistory DEF EditorInv
<1> QED
  BY <1>1, SaveSafe DEF Work!Record

\* The answers stay as they are where nothing of a submission is done.
LEMMA AnswersRest ==
    ASSUME AnswersInv, UNCHANGED Work!submitVars
    PROVE  AnswersInv'
<1>1. UNCHANGED <<request, submitResult, newestResult, activeHere, subs>>
  BY DEF Work!submitVars
<1>2. AnswersTyped' /\ AnswersFollow'
  BY <1>1 DEF AnswersInv, AnswersTyped, AnswersFollow
<1>3. Numbered'
  BY <1>1, Zenon DEF AnswersInv, Numbered, Listing
<1> QED
  BY <1>2, <1>3 DEF AnswersInv

\* Typing, saving, restoring and merging.
LEMMA EditorStepSafe ==
    ASSUME WorkInv, Work!EditorStep
    PROVE  WorkInv'
<1>1. EditorInv /\ AnswersInv
  BY DEF WorkInv
<1>2. UNCHANGED Work!submitVars
  BY DEF Work!EditorStep, Work!loadDraft, Work!AutosaveFires, Work!SaveNow, Work!syncServerSubmissions,
         Work!MergeListing, Work!handleCodeChange, Work!handleLanguageChange, Work!handleRestore
<1>3. snapshots \in Snaps /\ Len(snapshots) \in Nat /\ DOMAIN snapshots = 1..Len(snapshots)
  BY <1>1 DEF EditorInv, History, Snaps
<1>4. ASSUME NEW lang \in Languages, NEW c \in Work!Sources, Work!SetEditor(lang, c)
      PROVE  language' \in Languages /\ code' \in Work!Sources /\ autosave' \in BOOLEAN
  BY <1>4 DEF Work!SetEditor
<1>5. ASSUME NEW n \in Work!Snapshot PROVE n.language \in Languages /\ n.code \in Work!Sources
  BY DEF Work!Snapshot
<1>6. CASE Work!loadDraft
  <2>1. stored # <<>> => Head(stored) \in Work!Snapshot
    BY <1>1, <1>3 DEF EditorInv, Snaps
  <2>2. language' \in Languages /\ code' \in Work!Sources /\ autosave' \in BOOLEAN
    <3>1. CASE stored # <<>> /\ Work!SetEditor(Head(stored).language, Head(stored).code)
      BY <1>4, <1>5, <2>1, <3>1
    <3>2. CASE UNCHANGED <<language, code, autosave>>
      BY <1>1, <3>2 DEF EditorInv
    <3> QED
      BY <1>6, <3>1, <3>2 DEF Work!loadDraft
  <2>3. draft' = FALSE /\ UNCHANGED <<snapshots, stored, sync>>
    BY <1>6 DEF Work!loadDraft
  <2> QED
    BY <1>1, <1>2, <2>2, <2>3, AnswersRest DEF EditorInv, WorkInv
<1>7. CASE Work!AutosaveFires \/ Work!SaveNow
  <2>1. /\ Work!Record("autosave", language, code, 0, "none")
        /\ UNCHANGED <<language, code, draft, sync>> /\ autosave' \in BOOLEAN
    BY <1>1, <1>7 DEF Work!AutosaveFires, Work!SaveNow, Work!editorVars, EditorInv
  <2>2. History(snapshots') /\ stored' = snapshots'
    BY <1>1, <2>1, RecordSafe DEF EditorInv
  <2> QED
    BY <1>1, <1>2, <2>1, <2>2, AnswersRest DEF EditorInv, WorkInv
<1>8. CASE Work!syncServerSubmissions
  <2>1. sync' = <<"read", subs>> /\ Listing(subs)
    BY <1>1, <1>8 DEF Work!syncServerSubmissions, AnswersInv, Numbered
  <2>2. UNCHANGED <<language, code, draft, autosave, snapshots, stored>>
    BY <1>8 DEF Work!syncServerSubmissions, Work!editorVars
  <2> QED
    BY <1>1, <1>2, <2>1, <2>2, AnswersRest DEF EditorInv, WorkInv
<1>9. CASE Work!MergeListing
  <2>1. PICK m \in Work!Merges(snapshots, sync[2]) : Work!Save(m)
    BY <1>9 DEF Work!MergeListing
  <2>2. Listing(sync[2])
    <3>1. sync # <<>> /\ sync # <<"wanted">>
      BY <1>9 DEF Work!MergeListing
    <3>2. PICK L : Listing(L) /\ sync = <<"read", L>>
      BY <1>1, <3>1, Zenon DEF EditorInv
    <3>3. sync[2] = L
      BY <3>2
    <3> QED
      BY <3>2, <3>3, Zenon
  <2>3. History(m)
    BY <1>1, <2>2, MergedHistory DEF EditorInv
  <2>4. History(snapshots') /\ stored' = snapshots'
    BY <1>1, <2>1, <2>3, SaveSafe
  <2>5. sync' = <<>> /\ UNCHANGED <<language, code, draft, autosave>>
    BY <1>9 DEF Work!MergeListing, Work!editorVars
  <2> QED
    BY <1>1, <1>2, <2>4, <2>5, AnswersRest DEF EditorInv, WorkInv
<1>10. ASSUME NEW c \in Codes, Work!handleCodeChange(c) PROVE WorkInv'
  <2>1. language' \in Languages /\ code' \in Work!Sources /\ autosave' \in BOOLEAN
    BY <1>1, <1>4, <1>10, WorkSources DEF Work!handleCodeChange, EditorInv
  <2>2. UNCHANGED <<draft, snapshots, stored, sync>>
    BY <1>10 DEF Work!handleCodeChange
  <2> QED
    BY <1>1, <1>2, <2>1, <2>2, AnswersRest DEF EditorInv, WorkInv
<1>11. ASSUME NEW l \in Languages, Work!handleLanguageChange(l) PROVE WorkInv'
  <2> DEFINE places == {i \in DOMAIN snapshots : snapshots[i].language = l}
             drafts == Work!rowsAt(snapshots, places)
  <2>1. drafts \in Snaps
    <3>1. places \in SUBSET DOMAIN snapshots
      OBVIOUS
    <3> HIDE DEF places
    <3> QED
      BY <1>3, <3>1, FilteredHistory
  <2>2. Work!SetEditor(l, IF drafts # <<>> THEN Head(drafts).code ELSE Starter[l])
    BY <1>11, Zenon DEF Work!handleLanguageChange
  <2> HIDE DEF drafts
  <2>3. drafts # <<>> => Head(drafts).code \in Work!Sources
    BY <1>5, <2>1 DEF Snaps
  <2>4. language' \in Languages /\ code' \in Work!Sources /\ autosave' \in BOOLEAN
    BY <1>4, <2>2, <2>3, WorkSources
  <2>5. Work!Record("autosave", language, code, 0, "none") /\ UNCHANGED <<draft, sync>>
    BY <1>11 DEF Work!handleLanguageChange
  <2>6. History(snapshots') /\ stored' = snapshots'
    BY <1>1, <2>5, RecordSafe DEF EditorInv
  <2> QED
    BY <1>1, <1>2, <2>4, <2>5, <2>6, AnswersRest DEF EditorInv, WorkInv
<1>12. ASSUME NEW i \in 1..MaxSnaps, NEW f \in {"all", "submitted", "autosave", "ran"},
              Work!handleRestore(i, f)
       PROVE  WorkInv'
  <2> DEFINE kept == Work!filteredSnapshots(f)
  <2>1. /\ i \in DOMAIN kept /\ Work!SetEditor(kept[i].language, kept[i].code)
        /\ UNCHANGED <<draft, snapshots, stored, sync>>
    BY <1>12 DEF Work!handleRestore
  <2>2. kept[i] \in Work!Snapshot
    <3> DEFINE places == {j \in DOMAIN snapshots : f \in {"all", snapshots[j].trigger}}
    <3>1. places \in SUBSET DOMAIN snapshots
      OBVIOUS
    <3>2. kept = Work!rowsAt(snapshots, places)
      BY DEF Work!filteredSnapshots
    <3> HIDE DEF places, kept
    <3>3. kept \in Snaps
      BY <1>3, <3>1, <3>2, FilteredHistory
    <3> QED
      BY <2>1, <3>3 DEF Snaps
  <2>3. language' \in Languages /\ code' \in Work!Sources /\ autosave' \in BOOLEAN
    <3> HIDE DEF kept
    <3> QED
      BY <1>4, <1>5, <2>1, <2>2
  <2> QED
    BY <1>1, <1>2, <2>1, <2>3, AnswersRest DEF EditorInv, WorkInv
<1> QED
  BY <1>6, <1>7, <1>8, <1>9, <1>10, <1>11, <1>12 DEF Work!EditorStep

\* The editor stays as it is where only answers come.
LEMMA EditorRests ==
    ASSUME EditorInv, UNCHANGED <<Work!editorVars, snapshots, stored, sync>>
    PROVE  EditorInv'
<1>1. UNCHANGED <<language, code, draft, autosave, snapshots, stored, sync>>
  BY DEF Work!editorVars
<1> QED
  BY <1>1 DEF EditorInv, History, EachOnce

\* Where the history is recorded the editor keeps its source.
LEMMA EditorRecords ==
    ASSUME EditorInv, UNCHANGED <<Work!editorVars, sync>>, History(snapshots'), stored' = snapshots'
    PROVE  EditorInv'
<1>1. UNCHANGED <<language, code, draft, autosave, sync>>
  BY DEF Work!editorVars
<1> QED
  BY <1>1 DEF EditorInv

\* The effect of a result records it, or leaves the history alone.
LEMMA ResultRecorded ==
    ASSUME EditorInv, NEW r, Work!RecordResult(r), r.id \in Nat,
           r.id # 0 => r.status \in {"queued", "judged"}
    PROVE  History(snapshots') /\ stored' = snapshots'
<1>1. CASE UNCHANGED <<snapshots, stored>>
  BY <1>1 DEF EditorInv, History, EachOnce
<1>2. CASE r.id # 0 /\ Work!Record("submitted", language, code, r.id,
                                    IF r.status = "queued" THEN "none" ELSE r.status)
  <2>1. (IF r.status = "queued" THEN "none" ELSE r.status) \in {"none", "queued", "judged"}
    BY <1>2
  <2> QED
    BY <1>2, <2>1, RecordSafe DEF EditorInv
<1> QED
  BY <1>1, <1>2, Zenon DEF Work!RecordResult

\* The server gives the next number to a submission.
LEMMA NumbersGrow ==
    ASSUME Numbered, NEW lang \in Languages, NEW c \in Work!Sources,
           NEW sub, sub.language = lang, sub.code = c,
           subs' = subs \cup {Work!Stored(sub)}
    PROVE  /\ Numbered'
           /\ Work!Stored(sub) \in subs' /\ Work!Stored(sub).id = Work!NextId
           /\ Work!Stored(sub).verdict = "queued" /\ Work!NextId \in Nat \ {0}
<1> DEFINE new == Work!Stored(sub)
<1>1. Work!NextId = Cardinality(subs) + 1
  BY DEF Work!NextId, Work!Cardinality, Cardinality
<1>2. IsFiniteSet(subs) /\ Cardinality(subs) \in Nat
  BY FS_CardinalityType DEF Numbered, Listing
<1>3. /\ new.id = Work!NextId /\ new.verdict = "queued"
      /\ new \in [id : Nat \ {0}, language : Languages, code : Work!Sources,
                  verdict : {"queued", "judged"}]
  BY <1>1, <1>2 DEF Work!Stored
<1>4. \A s \in subs : s.id # new.id /\ s.id <= Cardinality(subs) /\ s.id \in Nat
  BY <1>1, <1>2, <1>3 DEF Numbered, Listing
<1> HIDE DEF new
<1>5. IsFiniteSet(subs') /\ Cardinality(subs') = Cardinality(subs) + 1
  <2>1. new \notin subs
    BY <1>4
  <2> QED
    BY <1>2, <2>1, FS_AddElement DEF new
<1>6. subs' = subs \cup {new}
  BY DEF new
<1>7. Listing(subs')
  BY <1>3, <1>4, <1>5, <1>6 DEF Numbered, Listing
<1>8. \A s \in subs' : s.id <= Cardinality(subs')
  BY <1>1, <1>2, <1>3, <1>4, <1>5, <1>6
<1>9. Numbered'
  BY <1>7, <1>8, Zenon DEF Numbered, Listing
<1> QED
  BY <1>1, <1>2, <1>3, <1>6, <1>9 DEF new

\* A verdict keeps the number of the submission.
LEMMA NumbersStay ==
    ASSUME Numbered, NEW s \in subs,
           subs' = (subs \ {s}) \cup {[s EXCEPT !.verdict = "judged"]}
    PROVE  /\ Numbered'
           /\ \E u \in subs' : u.id = s.id /\ u.verdict = "judged"
           /\ \A u \in subs : \E w \in subs' : w.id = u.id
<1> DEFINE new == [s EXCEPT !.verdict = "judged"]
<1>1. IsFiniteSet(subs) /\ Cardinality(subs) \in Nat
  BY FS_CardinalityType DEF Numbered, Listing
<1>2. /\ new.id = s.id /\ new.verdict = "judged"
      /\ new \in [id : Nat \ {0}, language : Languages, code : Work!Sources,
                  verdict : {"queued", "judged"}]
  BY DEF Numbered, Listing
<1> HIDE DEF new
<1>3. \A u \in subs \ {s} : u.id # new.id
  BY <1>2 DEF Numbered, Listing
<1>4. IsFiniteSet(subs') /\ Cardinality(subs') = Cardinality(subs)
  <2>1. IsFiniteSet(subs \ {s}) /\ Cardinality(subs \ {s}) = Cardinality(subs) - 1
    BY <1>1, FS_RemoveElement
  <2>2. new \notin subs \ {s}
    BY <1>3
  <2>3. subs' = (subs \ {s}) \cup {new}
    BY DEF new
  <2>4. IsFiniteSet(subs') /\ Cardinality(subs') = Cardinality(subs \ {s}) + 1
    BY <2>1, <2>2, <2>3, FS_AddElement
  <2> QED
    BY <1>1, <2>1, <2>4
<1>5. subs' = (subs \ {s}) \cup {new}
  BY DEF new
<1>6. Listing(subs')
  BY <1>2, <1>3, <1>4, <1>5 DEF Numbered, Listing
<1>7. \A u \in subs' : u.id <= Cardinality(subs')
  BY <1>2, <1>4, <1>5 DEF Numbered
<1>8. Numbered'
  BY <1>6, <1>7, Zenon DEF Numbered, Listing
<1> QED
  BY <1>2, <1>5, <1>8

\* Running and submitting, the server and the provider.
LEMMA JudgeStepSafe ==
    ASSUME WorkInv, Work!JudgeStep
    PROVE  WorkInv'
<1>1. EditorInv /\ AnswersInv /\ AnswersTyped /\ Numbered /\ AnswersFollow
  BY DEF WorkInv, AnswersInv
<1>2. ASSUME UNCHANGED <<subs>> PROVE Numbered'
  BY <1>1, <1>2, Zenon DEF Numbered, Listing
<1>3. ASSUME NEW phase \in Work!Phases, Work!handleRun(phase) PROVE WorkInv'
  <2>1. /\ Work!Record("ran", language, code, 0, "none")
        /\ UNCHANGED <<Work!editorVars, sync>> /\ UNCHANGED Work!submitVars
    BY <1>3 DEF Work!handleRun
  <2>2. History(snapshots') /\ stored' = snapshots'
    BY <1>1, <2>1, RecordSafe DEF EditorInv
  <2> QED
    BY <1>1, <2>1, <2>2, EditorRecords, AnswersRest DEF WorkInv
<1>4. CASE Work!RunReturns
  <2>1. UNCHANGED <<Work!editorVars, snapshots, stored, sync>> /\ UNCHANGED Work!submitVars
    BY <1>4 DEF Work!RunReturns
  <2> QED
    BY <1>1, <2>1, EditorRests, AnswersRest DEF WorkInv
<1>5. CASE Work!CooldownEnds
  <2>1. /\ UNCHANGED <<Work!editorVars, snapshots, stored, sync>>
        /\ UNCHANGED <<request, submitResult, newestResult, activeHere, subs>>
    BY <1>5 DEF Work!CooldownEnds
  <2>2. AnswersTyped' /\ AnswersFollow'
    BY <1>1, <2>1 DEF AnswersTyped, AnswersFollow
  <2> QED
    BY <1>1, <1>2, <2>1, <2>2, EditorRests DEF WorkInv, AnswersInv
<1>6. ASSUME NEW phase \in Work!Phases, Work!handleSubmit(phase) PROVE WorkInv'
  <2>1. /\ UNCHANGED <<Work!editorVars, snapshots, stored, sync>> /\ UNCHANGED <<activeHere, subs>>
        /\ request' = <<[language |-> language, code |-> code, id |-> 0]>>
        /\ submitResult' = [id |-> 0, status |-> "none"]
        /\ \/ newestResult.status = "elsewhere" /\ newestResult' = newestResult
           \/ newestResult' = [id |-> 0, status |-> "none"]
    BY <1>6 DEF Work!handleSubmit, Work!NoResult
  <2>2. AnswersTyped'
    <3>1. language \in Languages /\ code \in Work!Sources
      BY <1>1 DEF EditorInv
    <3>2. \E l \in Languages, c \in Work!Sources, k \in Nat :
            request' = <<[language |-> l, code |-> c, id |-> k]>>
      <4>1. request' = <<[language |-> language, code |-> code, id |-> 0]>> /\ 0 \in Nat
        BY <2>1
      <4> QED
        BY <3>1, <4>1, Zenon
    <3>3. /\ activeHere' \in BOOLEAN
          /\ newestResult' \in [id : Nat, status : {"none", "elsewhere", "judged"}]
          /\ submitResult' \in [id : Nat, status : {"none", "queued", "failed to submit"}]
          /\ submitResult'.id = 0
      <4>1. [id |-> 0, status |-> "none"] \in [id : Nat, status : {"none", "elsewhere", "judged"}]
        OBVIOUS
      <4>2. /\ submitResult' \in [id : Nat, status : {"none", "queued", "failed to submit"}]
            /\ submitResult'.id = 0
        BY <2>1
      <4>3. /\ activeHere \in BOOLEAN
            /\ newestResult \in [id : Nat, status : {"none", "elsewhere", "judged"}]
        BY <1>1 DEF AnswersTyped
      <4> QED
        BY <2>1, <4>1, <4>2, <4>3, Zenon
    <3> QED
      BY <3>2, <3>3, Zenon DEF AnswersTyped
  <2>3. AnswersFollow'
    BY <2>1 DEF AnswersFollow
  <2> QED
    BY <1>1, <1>2, <2>1, <2>2, <2>3, EditorRests DEF WorkInv, AnswersInv
<1>7. CASE Work!ServerStores
  <2>1. /\ UNCHANGED <<Work!editorVars, snapshots, stored, sync>>
        /\ UNCHANGED <<submitResult, newestResult, activeHere>>
        /\ request # <<>> /\ request[1].id = 0
        /\ subs' = subs \cup {Work!Stored(request[1])}
        /\ request' = <<[request[1] EXCEPT !.id = Work!NextId]>>
    BY <1>7 DEF Work!ServerStores
  <2>2. PICK l \in Languages, c \in Work!Sources, k \in Nat :
               request = <<[language |-> l, code |-> c, id |-> k]>>
    BY <1>1, <2>1 DEF AnswersTyped
  <2>3. request[1].language = l /\ request[1].code = c
    BY <2>2
  <2>4. /\ Numbered'
        /\ Work!Stored(request[1]) \in subs' /\ Work!Stored(request[1]).id = Work!NextId
        /\ Work!Stored(request[1]).verdict = "queued" /\ Work!NextId \in Nat \ {0}
    BY <1>1, <2>1, <2>3, NumbersGrow
  <2>5. request' = <<[language |-> l, code |-> c, id |-> Work!NextId]>>
    BY <2>1, <2>2
  <2>6. AnswersTyped'
    BY <1>1, <2>1, <2>4, <2>5 DEF AnswersTyped
  <2>7. AnswersFollow'
    BY <1>1, <2>1, <2>4, <2>5 DEF AnswersFollow
  <2> QED
    BY <1>1, <2>1, <2>4, <2>6, <2>7, EditorRests DEF WorkInv, AnswersInv
<1>8. ASSUME NEW c \in Codes, Work!StoredElsewhere(c) PROVE WorkInv'
  <2> DEFINE sub == [language |-> Default, code |-> c]
  <2>1. /\ UNCHANGED <<Work!editorVars, snapshots, stored, sync>>
        /\ UNCHANGED <<submitResult, newestResult, request>> /\ request = <<>> /\ activeHere' = TRUE
        /\ subs = {} /\ subs' = {Work!Stored(sub)}
    BY <1>8 DEF Work!StoredElsewhere
  <2>2. Numbered'
    <3>1. subs' = subs \cup {Work!Stored(sub)}
      BY <2>1
    <3>2. sub.language = Default /\ sub.code = c
      OBVIOUS
    <3> HIDE DEF sub
    <3> QED
      BY <1>1, <3>1, <3>2, WorkSources, NumbersGrow
  <2>3. AnswersTyped'
    BY <1>1, <2>1 DEF AnswersTyped
  <2>4. AnswersFollow'
    BY <1>1, <2>1 DEF AnswersFollow
  <2> QED
    BY <1>1, <2>1, <2>2, <2>3, <2>4, EditorRests DEF WorkInv, AnswersInv
<1>9. CASE Work!SubmitFails
  <2>1. /\ UNCHANGED <<Work!editorVars, snapshots, stored, sync>>
        /\ UNCHANGED <<newestResult, activeHere, subs>> /\ request' = <<>>
        /\ submitResult' = [id |-> 0, status |-> "failed to submit"]
    BY <1>9 DEF Work!SubmitFails
  <2>2. AnswersTyped' /\ AnswersFollow'
    BY <1>1, <2>1 DEF AnswersTyped, AnswersFollow
  <2> QED
    BY <1>1, <1>2, <2>1, <2>2, EditorRests DEF WorkInv, AnswersInv
<1>10. CASE Work!OtherVerdictArrives
  <2>1. /\ UNCHANGED <<Work!editorVars, sync>> /\ UNCHANGED <<submitResult, request, activeHere, subs>>
        /\ newestResult' = [id |-> 0, status |-> "elsewhere"] /\ Work!RecordResult(submitResult)
    BY <1>10 DEF Work!OtherVerdictArrives
  <2>2. /\ submitResult.id \in Nat
        /\ submitResult.id # 0 => submitResult.status \in {"queued", "judged"}
    BY <1>1 DEF AnswersTyped
  <2>3. History(snapshots') /\ stored' = snapshots'
    BY <1>1, <2>1, <2>2, ResultRecorded
  <2>4. AnswersTyped' /\ AnswersFollow'
    BY <1>1, <2>1 DEF AnswersTyped, AnswersFollow
  <2> QED
    BY <1>1, <1>2, <2>1, <2>3, <2>4, EditorRecords DEF WorkInv, AnswersInv
<1>11. ASSUME NEW s \in subs, Work!VerdictArrives(s) PROVE WorkInv'
  <2> DEFINE r == [id |-> s.id, status |-> "judged"]
  <2>1. /\ UNCHANGED <<Work!editorVars, sync>> /\ UNCHANGED <<submitResult, request>>
        /\ newestResult' = r /\ Work!RecordResult(r) /\ activeHere' = FALSE
        /\ subs' = (subs \ {s}) \cup {[s EXCEPT !.verdict = "judged"]}
    BY <1>11 DEF Work!VerdictArrives
  <2>2. r.id \in Nat /\ r.status = "judged"
    BY <1>1 DEF Numbered, Listing
  <2>3. History(snapshots') /\ stored' = snapshots'
    <3> HIDE DEF r
    <3> QED
      BY <1>1, <2>1, <2>2, ResultRecorded
  <2>4. /\ Numbered'
        /\ \E u \in subs' : u.id = s.id /\ u.verdict = "judged"
        /\ \A u \in subs : \E w \in subs' : w.id = u.id
    BY <1>1, <2>1, NumbersStay
  <2>5. AnswersTyped'
    BY <1>1, <2>1, <2>2 DEF AnswersTyped
  <2>6. AnswersFollow'
    BY <1>1, <2>1, <2>2, <2>4 DEF AnswersFollow
  <2> QED
    BY <1>1, <2>1, <2>3, <2>4, <2>5, <2>6, EditorRecords DEF WorkInv, AnswersInv
<1>12. CASE Work!SubmitReturns
  <2> DEFINE sub == request[1]
             res == [id |-> sub.id, status |-> "queued"]
             told == Work!activeResult(newestResult, res)
             own == Work!Recorded(snapshots, "submitted", sub.language, sub.code, sub.id, "none")
             verdict == IF told.status = "queued" THEN "none" ELSE told.status
             next == Work!Recorded(own, "submitted", language, code, told.id, verdict)
  <2>1. /\ UNCHANGED <<Work!editorVars, sync>> /\ UNCHANGED <<newestResult, subs>>
        /\ request # <<>> /\ sub.id # 0 /\ request' = <<>> /\ submitResult' = res
        /\ activeHere' = (\E s \in subs : s.id = sub.id /\ s.verdict = "queued")
    BY <1>12 DEF Work!SubmitReturns
  <2>2. Work!Save(own) \/ Work!Save(next)
    BY <1>12, Zenon DEF Work!SubmitReturns
  <2>3. sub.language \in Languages /\ sub.code \in Work!Sources /\ sub.id \in Nat
    <3>1. PICK l \in Languages, c \in Work!Sources, k \in Nat :
                 request = <<[language |-> l, code |-> c, id |-> k]>>
      BY <1>1, <2>1 DEF AnswersTyped
    <3> QED
      BY <3>1
  <2>4. told.id \in Nat /\ verdict \in {"none", "queued", "judged"}
    <3>1. (told = newestResult /\ newestResult.status = "judged") \/ told = res
      BY <1>1 DEF Work!activeResult, AnswersTyped
    <3>2. res.id \in Nat /\ res.status = "queued" /\ newestResult.id \in Nat
      BY <1>1, <2>3 DEF AnswersTyped
    <3> HIDE DEF told, res
    <3> QED
      BY <3>1, <3>2
  <2>5. History(own)
    BY <1>1, <2>3, RecordedHistory DEF EditorInv
  <2>6. History(next)
    <3> HIDE DEF own, told, verdict
    <3> QED
      BY <1>1, <2>4, <2>5, RecordedHistory DEF EditorInv
  <2>7. History(snapshots') /\ stored' = snapshots'
    <3> HIDE DEF own, next
    <3> QED
      BY <1>1, <2>2, <2>5, <2>6, SaveSafe
  <2>8. AnswersTyped'
    BY <1>1, <2>1, <2>3 DEF AnswersTyped
  <2>9. AnswersFollow'
    BY <1>1, <2>1 DEF AnswersFollow
  <2> QED
    BY <1>1, <1>2, <2>1, <2>7, <2>8, <2>9, EditorRecords DEF WorkInv, AnswersInv
<1> QED
  BY <1>3, <1>4, <1>5, <1>6, <1>7, <1>8, <1>9, <1>10, <1>11, <1>12 DEF Work!JudgeStep

LEMMA WorkStep ==
    WorkInv /\ [Work!Next]_Work!vars => WorkInv'
<1>1. CASE WorkInv /\ UNCHANGED Work!vars
  <2>1. UNCHANGED <<Work!editorVars, snapshots, stored, sync>> /\ UNCHANGED Work!submitVars
    BY <1>1 DEF Work!vars
  <2> QED
    BY <1>1, <2>1, EditorRests, AnswersRest DEF WorkInv
<1> QED
  BY <1>1, EditorStepSafe, JudgeStepSafe DEF Work!Next

THEOREM WorkInvariant ==
    Work!Spec => []WorkInv
<1>1. Work!Init => WorkInv
  BY WorkStarts
<1>2. WorkInv /\ [Work!Next]_Work!vars => WorkInv'
  BY WorkStep
<1> QED
  BY <1>1, <1>2, PTL DEF Work!Spec

\* The types of the workspace, and the limit of the history and of its copy in the browser
\* (MAX_HISTORY_SNAPSHOTS).
THEOREM WorkTypes ==
    Work!Spec => []Work!TypeOK
<1>1. WorkInv => Work!TypeOK
  BY DEF WorkInv, EditorInv, AnswersInv, AnswersTyped, History, Snaps, Work!TypeOK
<1> QED
  BY <1>1, WorkInvariant, PTL

\* Whatever records a submission, the answer, the effect or the listing, finds the snapshot
\* that is there (record and mergeServerSubmissions of use-history.ts).
THEOREM HistoryHasEachOnce ==
    Work!Spec => []Work!OneSnapshotPerSubmission
<1>1. WorkInv => Work!OneSnapshotPerSubmission
  <2> SUFFICES ASSUME WorkInv PROVE Work!OneSnapshotPerSubmission
    OBVIOUS
  <2>1. DOMAIN snapshots = 1..Len(snapshots) /\ EachOnce(snapshots)
    BY DEF WorkInv, EditorInv, History, Snaps
  <2> QED
    BY <2>1 DEF EachOnce, Work!OneSnapshotPerSubmission
<1> QED
  BY <1>1, WorkInvariant, PTL

\* The result panel has a spinner while something is under way, and figures when there is a
\* verdict (submission-result.tsx).
THEOREM SpinnerWaits ==
    Work!Spec => []Work!EvaluatingMeansPending
<1>1. WorkInv => Work!EvaluatingMeansPending
  <2> SUFFICES ASSUME WorkInv PROVE Work!EvaluatingMeansPending
    OBVIOUS
  <2> DEFINE shown == Work!activeResult(newestResult, submitResult)
  <2>1. AnswersTyped /\ AnswersFollow
    BY DEF WorkInv, AnswersInv
  <2>2. \/ newestResult.status = "judged" /\ shown = newestResult
        \/ newestResult.status \in {"none", "elsewhere"} /\ shown = submitResult
    BY <2>1 DEF AnswersTyped, Work!activeResult
  <2>3. shown.status \in {"none", "queued", "failed to submit", "judged"}
    BY <2>1, <2>2 DEF AnswersTyped
  <2>4. Work!isEvaluating <=> request # <<>> \/ activeHere \/ shown.status = "queued"
    BY Zenon DEF Work!isEvaluating
  <2>5. /\ Work!isEvaluating => Work!ResultPanel = "spinner"
        /\ ~Work!isEvaluating /\ shown.status = "none" => Work!ResultPanel = "invitation"
        /\ ~Work!isEvaluating /\ shown.status = "failed to submit" => Work!ResultPanel = "error"
        /\ ~Work!isEvaluating /\ shown.status = "judged" => Work!ResultPanel = "figures"
    <3> HIDE DEF shown
    <3>1. Work!ResultPanel = CASE Work!isEvaluating -> "spinner"
                               [] ~Work!isEvaluating /\ shown.status = "none" -> "invitation"
                               [] ~Work!isEvaluating /\ shown.status = "failed to submit" -> "error"
                               [] OTHER -> "figures"
      BY Zenon DEF Work!ResultPanel, shown
    <3> QED
      BY <3>1
  <2> HIDE DEF shown
  <2>6. Work!ResultPanel = "spinner" => Work!isEvaluating
    BY <2>3, <2>4, <2>5
  <2>7. Work!ResultPanel = "figures" => ~Work!isEvaluating /\ shown.status = "judged"
    BY <2>3, <2>4, <2>5
  <2>8. shown.status = "queued" => activeHere \/ newestResult.status = "elsewhere"
    BY <2>1, <2>2 DEF AnswersFollow
  <2>9. shown.status = "judged" => \E s \in subs : s.verdict = "judged"
    BY <2>1, <2>2 DEF AnswersFollow, AnswersTyped
  <2> QED
    BY <2>4, <2>6, <2>7, <2>8, <2>9 DEF Work!EvaluatingMeansPending
<1> QED
  BY <1>1, WorkInvariant, PTL

\* What was in the editor is in the history after a change of the language
\* (handleLanguageChange of code-workspace.tsx).
THEOREM SwitchLosesNothing ==
    Work!Spec => Work!SwitchKeepsWork
<1>1. ASSUME WorkInv, NEW l \in Languages, Work!handleLanguageChange(l)
      PROVE  \E i \in DOMAIN snapshots' : snapshots'[i].code = code
  <2> DEFINE new == Work!Recorded(snapshots, "autosave", language, code, 0, "none")
  <2>1. snapshots' = new
    BY <1>1, Zenon DEF Work!handleLanguageChange, Work!Record, Work!Save
  <2>2. History(snapshots) /\ language \in Languages /\ code \in Work!Sources
    BY <1>1 DEF WorkInv, EditorInv
  <2>3. \E i \in DOMAIN new : new[i].code = code
    BY <2>2, AutosavedIsThere
  <2> QED
    BY <2>1, <2>3, Zenon
<1>2. WorkInv /\ [Work!Next]_Work!vars
        => [(\E l \in Languages : Work!handleLanguageChange(l)) =>
              \E i \in DOMAIN snapshots' : snapshots'[i].code = code]_Work!vars
  BY <1>1
<1> QED
  BY <1>2, WorkInvariant, PTL DEF Work!Spec, Work!SwitchKeepsWork

\* After the server's list is merged the history has the sources that were judged
\* (mergeServerSubmissions of use-history.ts).
THEOREM JudgedSourceWins ==
    Work!Spec => Work!ServerSourceWins
<1> DEFINE Won == \A i \in DOMAIN snapshots', s \in sync[2] :
                    snapshots'[i].id = s.id =>
                      snapshots'[i].code = s.code /\ snapshots'[i].language = s.language
<1>1. ASSUME WorkInv, Work!MergeListing PROVE Won
  <2>1. PICK m \in Work!Merges(snapshots, sync[2]) : Work!Save(m)
    BY <1>1, Zenon DEF Work!MergeListing
  <2>2. snapshots' = m
    BY <2>1 DEF Work!Save
  <2>3. sync # <<>> /\ sync # <<"wanted">>
    BY <1>1 DEF Work!MergeListing
  <2>4. PICK L : Listing(L) /\ sync = <<"read", L>>
    BY <1>1, <2>3, Zenon DEF WorkInv, EditorInv
  <2>5. sync[2] = L
    BY <2>4
  <2>6. /\ History(m)
        /\ \A i \in 1..Len(m), s \in L :
             m[i].id = s.id => m[i].code = s.code /\ m[i].language = s.language
    BY <1>1, <2>1, <2>4, <2>5, MergedHistory DEF WorkInv, EditorInv
  <2>7. DOMAIN m = 1..Len(m)
    BY <2>6 DEF History, Snaps
  <2> QED
    BY <2>2, <2>5, <2>6, <2>7, Zenon
<1>2. ASSUME Work!Next, Len(sync) = 2, sync' = <<>> PROVE Work!MergeListing
  <2>1. sync' # sync
    BY <1>2
  <2> HIDE DEF Work!Next
  <2>2. Work!EditorStep => Work!MergeListing
    <3>1. sync' # <<"read", subs>>
      BY <1>2
    <3> QED
      BY <2>1, <3>1, Zenon
         DEF Work!EditorStep, Work!loadDraft, Work!AutosaveFires, Work!SaveNow,
             Work!syncServerSubmissions, Work!handleCodeChange, Work!handleLanguageChange,
             Work!handleRestore
  <2>3. ~Work!JudgeStep
    BY <2>1, Zenon
       DEF Work!JudgeStep, Work!handleRun, Work!handleSubmit, Work!RunReturns, Work!CooldownEnds,
           Work!ServerStores, Work!SubmitReturns, Work!SubmitFails, Work!OtherVerdictArrives,
           Work!StoredElsewhere, Work!VerdictArrives
  <2> QED
    BY <1>2, <2>2, <2>3 DEF Work!Next
<1>3. WorkInv /\ [Work!Next]_Work!vars => [(Len(sync) = 2 /\ sync' = <<>>) => Won]_Work!vars
  <2> HIDE DEF Won
  <2> QED
    BY <1>1, <1>2
<1> QED
  BY <1>3, WorkInvariant, PTL DEF Work!Spec, Work!ServerSourceWins

\* Everything the workspace promises of its history, as the run states it.
THEOREM WorkspacePromise == Work!Spec => HistoryHolds
  BY HistoryHasEachOnce, SpinnerWaits, SwitchLosesNothing, JudgedSourceWins, PTL DEF HistoryHolds

=============================================================================
