------------------------------- MODULE Paging -------------------------------
(***************************************************************************)
(* How the front ends cut a list into pages and put its rows in order:     *)
(* the arithmetic the lists of the portal and of the console repeat        *)
(* (leaderboard-client.tsx, submissions-client.tsx, use-pagination.ts) and *)
(* the page buttons of ui/pagination.tsx.  A list is a sequence.           *)
(***************************************************************************)
EXTENDS Naturals, Sequences, FiniteSets, FiniteSetsExt, SequencesExt

\* Math.max(1, Math.ceil(n / size)).
totalPages(n, size) == Max({1, (n + size - 1) \div size})

\* The page asked for, or the last one where the list has become shorter.
validPage(page, n, size) == Min({page, totalPages(n, size)})

\* The rows of a page: slice((page - 1) * size, page * size).
slice(s, page, size) == SubSeq(s, (page - 1) * size + 1, Min({page * size, Len(s)}))

\* getPageNumbers, without the ellipses: the pages that have a button.
getPageNumbers(page, pages) ==
  IF pages <= 7 THEN 1..pages
  ELSE IF page <= 4 THEN (1..5) \cup {pages}
  ELSE IF page >= pages - 3 THEN {1} \cup (pages - 4)..pages
  ELSE {1, page - 1, page, page + 1, pages}

\* The pages the buttons lead to from the page shown: the numbers, first and last,
\* previous and next (ui/pagination.tsx).
pageButtons(page, pages) ==
  (getPageNumbers(page, pages) \ {page})
    \cup (IF page > 1 THEN {1, page - 1} ELSE {})
    \cup (IF page < pages THEN {page + 1, pages} ELSE {})

\* pageWindow of the console, without the ellipses: the first, the last, the page shown and
\* its nearest neighbours, below before above, five slots in all.
pageWindow(page, pageCount) ==
  IF pageCount <= 7 THEN 1..pageCount
  ELSE FoldLeft(LAMBDA slots, offset :
         LET below == IF Cardinality(slots) < 5 /\ page > offset + 1 THEN slots \cup {page - offset} ELSE slots
         IN  IF Cardinality(below) < 5 /\ page + offset < pageCount THEN below \cup {page + offset} ELSE below,
       {1, pageCount, page}, [i \in 1..pageCount |-> i])

\* Array.prototype.filter: the rows that stand at some places, in the list's order (what
\* SelectSeq gives for a test of the rows, in a form whose length can be reasoned about).
rowsAt(s, places) ==
  LET nth(k) == CHOOSE i \in places : Cardinality({j \in places : j <= i}) = k
  IN  [k \in 1..Cardinality(places) |-> s[nth(k)]]

\* Array.prototype.sort is stable: equal rows keep their order.
stableSort(s, before(_, _)) ==
  LET first(i, j) == before(s[i], s[j]) \/ (~before(s[j], s[i]) /\ i < j)
      place == [i \in DOMAIN s |-> Cardinality({j \in DOMAIN s : j # i /\ first(j, i)}) + 1]
  IN  [k \in DOMAIN s |-> s[CHOOSE i \in DOMAIN s : place[i] = k]]

\* Every row on exactly one page, in the list's order.
PagesPartition(s, size) ==
  LET n == totalPages(Len(s), size)
  IN  /\ \A i \in DOMAIN s : \E p \in 1..n :
            /\ i - (p - 1) * size \in DOMAIN slice(s, p, size)
            /\ slice(s, p, size)[i - (p - 1) * size] = s[i]
      /\ SumFunction([p \in 1..n |-> Len(slice(s, p, size))]) = Len(s)
=============================================================================
