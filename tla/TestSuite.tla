------------------------------ MODULE TestSuite ------------------------------
(***************************************************************************)
(* The test cases of a problem as the console edits them (test-cases-tab,  *)
(* single-test-dialog, batch-upload-dialog, test-uploader) and as the      *)
(* server keeps them (problem/tests.go, problem.go, admin_problem_tests).  *)
(*                                                                         *)
(* A test is [file, points]: file stands for its two files, and its        *)
(* ordinal is its place.  Every request has its sending, its execution and *)
(* its answer as steps of its own; an answer may be lost after the server  *)
(* has acted.  Sizes, progress and previews are left out.                  *)
(***************************************************************************)
EXTENDS Naturals, Sequences, SequencesExt, FiniteSets, FiniteSetsExt, Functions

CONSTANTS
  Files,        \* pairs of input and expected output
  TooLarge,     \* those over the limit of a single file
  MaxScore,
  FirstSuite,   \* the tests at the start
  PointChoices, \* what is typed into the points of a test
  MaxEdits,     \* bound on edits begun
  MaxFails,     \* bound on requests that fail and answers that are lost
  MaxRequests   \* bound on requests under way together

VARIABLES
  suite,                                     \* problem_tests, by ordinal
  tests, pendingPoints, savingPoints,        \* TestCasesTab
  modal, deleteOrdinal, editOrdinal, uploading,
  batchQueue, batchIsRunning, batchTodo,     \* the queue, and the rest of runBatchUploadQueue's loop
  flights,                                   \* requests under way
  custom,                                    \* points were given by hand, or for an old list
  overlapped,                                \* two requests have been under way at once
  edits, editFails

listVars   == <<tests, pendingPoints, savingPoints>>
dialogVars == <<modal, deleteOrdinal, editOrdinal, uploading>>
batchVars  == <<batchQueue, batchIsRunning, batchTodo>>
suiteVars  == <<suite, listVars, dialogVars, batchVars, flights, custom, overlapped, edits, editFails>>

-----------------------------------------------------------------------------
(* Points.                                                                 *)

Points(s)      == [i \in DOMAIN s |-> s[i].points]
Total(p)       == FoldFunction(+, 0, p)
WithPoints(s, p) == [i \in DOMAIN s |-> [s[i] EXCEPT !.points = IF i \in DOMAIN p THEN p[i] ELSE @]]

\* Mutant: the remainder goes to the last tests.
evenPointsLast(count, max) ==
  [i \in 1..count |-> (max \div count) + (IF i > count - (max % count) THEN 1 ELSE 0)]

\* The console's even distribution.
generateEvenPoints(count, max) ==
  [i \in 1..count |-> (max \div count) + (IF i <= max % count THEN 1 ELSE 0)]

\* The server's: base points for each, one more for the first ones.
DistributeProblemPoints(s) ==
  WithPoints(s, [i \in DOMAIN s |-> (MaxScore \div Len(s)) + (IF i <= MaxScore % Len(s) THEN 1 ELSE 0)])

\* Whether points are those of an even distribution, or none.
IsEvenDistribution(p) ==
  \/ \A i \in DOMAIN p : p[i] = 0
  \/ \A i \in DOMAIN p : p[i] = (MaxScore \div Len(p)) + (IF i <= MaxScore % Len(p) THEN 1 ELSE 0)

\* What the bar above the list says of the points.
calculateScoringSummary ==
  IF tests = <<>> \/ IsEvenDistribution(Points(tests)) THEN <<"even", MaxScore>>
  ELSE <<"custom", Total(Points(tests))>>

-----------------------------------------------------------------------------
(* The server.                                                             *)

\* The same two files are those of another test.
Duplicate(s, file, ordinal) == \E i \in DOMAIN s : i # ordinal /\ s[i].file = file

\* AddSingleTest: the suite after, or the same where it refuses.
AddSingleTest(s, file, points) ==
  LET auto == points = 0 /\ IsEvenDistribution(Points(s))
      more == Append(s, [file |-> file, points |-> points])
  IN  IF \/ file \in TooLarge \/ Duplicate(s, file, 0)
         \/ points > 0 /\ Total(Points(s)) + points > MaxScore
      THEN s ELSE IF auto THEN DistributeProblemPoints(more) ELSE more

UpdateSingleTest(s, ordinal, file, points) ==
  IF ordinal \notin DOMAIN s \/ file \in TooLarge \/ Duplicate(s, file, ordinal) THEN s
  ELSE [s EXCEPT ![ordinal] = [file |-> file, points |-> points]]

\* DeleteSingleTest of a test that exists: the others move up; an even suite stays even.
DeleteSingleTest(s, ordinal) ==
  LET rest == RemoveAt(s, ordinal)
  IN  IF IsEvenDistribution(Points(s)) /\ rest # <<>> THEN DistributeProblemPoints(rest) ELSE rest

\* The suite after a request, the same where it is refused.
Executed(s, f) ==
  CASE f.op \in {"batch", "retry", "add"} -> AddSingleTest(s, f.file, f.points)
    [] f.op = "replace" -> UpdateSingleTest(s, f.at, f.file, f.points)
    [] f.op = "delete"  -> IF f.at \in DOMAIN s THEN DeleteSingleTest(s, f.at) ELSE s
    [] f.op = "points"  -> WithPoints(s, f.map)
    [] OTHER -> s

\* Whether the request is answered with success.
Accepted(s, f) ==
  CASE f.op \in {"batch", "retry", "add"} -> Len(AddSingleTest(s, f.file, f.points)) > Len(s)
    [] f.op = "replace" -> /\ f.at \in DOMAIN s /\ f.file \notin TooLarge
                           /\ ~Duplicate(s, f.file, f.at)
    [] f.op = "delete"  -> f.at \in DOMAIN s
    [] OTHER -> TRUE

\* The request brings points of its own, or points made for a list that is not the suite.
ByHand(s, f) ==
  CASE f.op = "add"     -> f.points > 0
    [] f.op = "replace" -> f.at \in DOMAIN s /\ f.points # s[f.at].points
    [] f.op = "points"  -> DOMAIN f.map # DOMAIN s
    [] OTHER -> FALSE

\* A request is executed and answered with the suite of that moment.
Serve(j) ==
  /\ flights[j].st = "sent"
  /\ suite' = Executed(suite, flights[j])
  /\ flights' = [flights EXCEPT ![j].st = IF Accepted(suite, flights[j]) THEN "ok" ELSE "bad",
                                ![j].answer = suite']
  /\ custom' = (custom \/ ByHand(suite, flights[j]))
  /\ UNCHANGED <<listVars, dialogVars, batchVars, overlapped, edits, editFails>>

\* A request does not reach the server, or its answer does not come back.
Lose(j) ==
  /\ flights[j].st \in {"sent", "ok"} /\ editFails < MaxFails /\ editFails' = editFails + 1
  /\ flights' = [flights EXCEPT ![j].st = "bad"]
  /\ UNCHANGED <<suite, listVars, dialogVars, batchVars, custom, overlapped, edits>>

-----------------------------------------------------------------------------
(* The tab.                                                                *)

\* A request: its operation, the place and file it is about, the points, and the list of
\* tests the handler has closed over.
Request(op, at, file, points, map) ==
  [op |-> op, at |-> at, file |-> file, points |-> points, map |-> map,
   seen |-> tests, answer |-> <<>>, st |-> "sent"]

NoFile == "none"

Send(r, rest) ==
  /\ Len(rest) < MaxRequests
  /\ flights' = Append(rest, r)
  /\ overlapped' = (overlapped \/ rest # <<>>)

Begin == edits < MaxEdits /\ edits' = edits + 1

\* The buttons of a test, and the points typed into its row; those of the bar over the list;
\* those of the single-test dialog; those of an item of the queue.
caseOffers   == modal = "none" /\ Begin
barOffers    == modal = "none" /\ ~savingPoints
singleOffers == modal = "single" /\ ~uploading
itemOffers   == modal = "batch" /\ ~batchIsRunning

\* "Add test case" and the replace button of a test open the dialog; ordinal 0 adds.
OpenSingle(ordinal) ==
  /\ caseOffers
  /\ modal' = "single" /\ editOrdinal' = ordinal
  /\ UNCHANGED <<suite, listVars, deleteOrdinal, uploading, batchVars, flights, custom, overlapped, editFails>>

CloseModal ==
  /\ modal # "none" /\ ~uploading /\ modal = "batch" => ~batchIsRunning
  /\ modal' = "none" /\ editOrdinal' = 0 /\ deleteOrdinal' = 0
  /\ UNCHANGED <<suite, listVars, uploading, batchVars, flights, custom, overlapped, edits, editFails>>

\* handleSave of the dialog: a new test, or another file, or other points for one listed.
handleSave(file, points) ==
  /\ singleOffers /\ file \notin TooLarge
  /\ editOrdinal # 0 => editOrdinal \in DOMAIN tests
  /\ uploading' = TRUE
  /\ Send(Request(IF editOrdinal = 0 THEN "add" ELSE "replace", editOrdinal, file, points, <<>>), flights)
  /\ UNCHANGED <<suite, listVars, modal, deleteOrdinal, editOrdinal, batchVars, custom, edits, editFails>>

AskDelete(ordinal) ==
  /\ caseOffers
  /\ modal' = "delete" /\ deleteOrdinal' = ordinal
  /\ UNCHANGED <<suite, listVars, editOrdinal, uploading, batchVars, flights, custom, overlapped, editFails>>

confirmDeleteTest ==
  /\ modal = "delete" /\ modal' = "none" /\ deleteOrdinal' = 0
  /\ Send(Request("delete", deleteOrdinal, NoFile, 0, <<>>), flights)
  /\ UNCHANGED <<suite, listVars, editOrdinal, uploading, batchVars, custom, edits, editFails>>

handlePointChange(ordinal, points) ==
  /\ caseOffers
  /\ pendingPoints' = [o \in DOMAIN pendingPoints \cup {ordinal} |->
                        IF o = ordinal THEN points ELSE pendingPoints[o]]
  /\ UNCHANGED <<suite, tests, savingPoints, dialogVars, batchVars, flights, custom, overlapped, editFails>>

\* The points as shown: those typed, the others as they are.
mergedPoints == [i \in DOMAIN tests |->
  IF i \in DOMAIN pendingPoints THEN pendingPoints[i] ELSE tests[i].points]

PatchPoints(map) ==
  /\ barOffers /\ savingPoints' = TRUE
  /\ Send(Request("points", 0, NoFile, 0, map), flights)
  /\ UNCHANGED <<suite, tests, pendingPoints, dialogVars, batchVars, editFails>>

\* Points that do not add up are refused with a toast.
handleSavePoints ==
  /\ pendingPoints # <<>> /\ Total(mergedPoints) = MaxScore
  /\ PatchPoints(mergedPoints) /\ custom' = TRUE /\ UNCHANGED edits

handleSplitEvenly ==
  /\ tests # <<>> /\ Begin
  /\ PatchPoints(generateEvenPoints(Len(tests), MaxScore)) /\ UNCHANGED custom

\* enqueueFiles: the pairs replace the queue, and the dialog opens.
enqueueFiles(pairs) ==
  /\ modal \in {"none", "batch"} /\ Begin
  /\ batchQueue' = [i \in DOMAIN pairs |-> [file |-> pairs[i], st |-> "queued"]]
  /\ modal' = "batch"
  /\ UNCHANGED <<suite, listVars, deleteOrdinal, editOrdinal, uploading, batchIsRunning, batchTodo,
                 flights, custom, overlapped, editFails>>

\* A single item over the limit cannot be selected, but "select all" selects it.
selectable(selected) ==
  /\ selected # {} /\ \A i \in selected : batchQueue[i].st # "success"
  /\ \/ \A i \in selected : batchQueue[i].file \notin TooLarge
     \/ \A i \in DOMAIN batchQueue : i \in selected \/ batchQueue[i].st = "success"

\* runBatchUploadQueue: the selected items of the queue that were not uploaded at the start.
runBatchUploadQueue(selected) ==
  /\ itemOffers /\ selectable(selected)
  /\ batchIsRunning' = TRUE
  /\ batchTodo' = [k \in DOMAIN SetToSortSeq(selected, <) |->
       [at |-> SetToSortSeq(selected, <)[k], file |-> batchQueue[SetToSortSeq(selected, <)[k]].file]]
  /\ UNCHANGED <<suite, listVars, dialogVars, batchQueue, flights, custom, overlapped, edits, editFails>>

Mark(i, st) == IF i \in DOMAIN batchQueue THEN [batchQueue EXCEPT ![i].st = st] ELSE batchQueue

BatchBusy == \E j \in DOMAIN flights : flights[j].op \in {"batch", "latest"}

\* The loop's next item, or the list read at its end.
BatchStep ==
  /\ batchIsRunning /\ ~BatchBusy
  /\ IF batchTodo # <<>>
     THEN /\ batchQueue' = Mark(Head(batchTodo).at, "uploading")
          /\ Send(Request("batch", Head(batchTodo).at, Head(batchTodo).file, 0, <<>>), flights)
          /\ batchTodo' = Tail(batchTodo)
     ELSE /\ Send(Request("latest", 0, NoFile, 0, <<>>), flights)
          /\ UNCHANGED <<batchQueue, batchTodo>>
  /\ UNCHANGED <<suite, listVars, dialogVars, batchIsRunning, custom, edits, editFails>>

handleRetryBatchItem(i) ==
  /\ itemOffers /\ batchQueue[i].st = "error"
  /\ batchQueue' = Mark(i, "uploading")
  /\ Send(Request("retry", i, batchQueue[i].file, 0, <<>>), flights)
  /\ UNCHANGED <<suite, listVars, dialogVars, batchIsRunning, batchTodo, custom, edits, editFails>>

handleRemoveBatchItem(i) ==
  /\ itemOffers /\ batchQueue[i].st # "uploading"
  /\ batchQueue' = RemoveAt(batchQueue, i)
  /\ UNCHANGED <<suite, listVars, dialogVars, batchIsRunning, batchTodo, flights, custom, overlapped, edits, editFails>>

-----------------------------------------------------------------------------
(* Answers.                                                                *)

Over(j) == flights' = RemoveAt(flights, j) /\ UNCHANGED overlapped

\* An upload of the queue: the item is marked by its place in the queue as it is now.
UploadAnswered(j) ==
  /\ flights[j].op \in {"batch", "retry"} /\ flights[j].st # "sent" /\ Over(j)
  /\ IF flights[j].st = "ok"
     THEN tests' = flights[j].answer /\ batchQueue' = Mark(flights[j].at, "success")
     ELSE batchQueue' = Mark(flights[j].at, "error") /\ UNCHANGED tests
  /\ UNCHANGED <<suite, pendingPoints, savingPoints, dialogVars, batchIsRunning, batchTodo, custom, edits, editFails>>

\* The end of runBatchUploadQueue: an empty list, or none, leaves the tests as they are.
BatchOver(j) ==
  /\ flights[j].op = "latest" /\ flights[j].st # "sent" /\ Over(j)
  /\ tests' = IF flights[j].st = "ok" /\ flights[j].answer # <<>> THEN flights[j].answer ELSE tests
  /\ batchIsRunning' = FALSE
  /\ UNCHANGED <<suite, pendingPoints, savingPoints, dialogVars, batchQueue, batchTodo, custom, edits, editFails>>

\* The list after the dialog's request: the server's for a new test, that place for another.
afterSingle(f) ==
  IF f.op = "add" THEN f.answer ELSE [f.seen EXCEPT ![f.at] = f.answer[f.at]]

\* handleSingleSuccess, or an error in the dialog, which stays open.
handleSingleSuccess(j) ==
  /\ flights[j].op \in {"add", "replace"} /\ flights[j].st # "sent" /\ Over(j)
  /\ uploading' = FALSE
  /\ IF flights[j].st = "ok"
     THEN /\ modal' = "none" /\ editOrdinal' = 0
          /\ tests' = afterSingle(flights[j])
     ELSE UNCHANGED <<modal, editOrdinal, tests>>
  /\ UNCHANGED <<suite, pendingPoints, savingPoints, deleteOrdinal, batchVars, custom, edits, editFails>>

\* After a deletion the list is read again.
DeleteAnswered(j) ==
  /\ flights[j].op = "delete" /\ flights[j].st # "sent"
  /\ IF flights[j].st = "ok"
     THEN Send([flights[j] EXCEPT !.op = "refreshed", !.st = "sent", !.answer = <<>>], RemoveAt(flights, j))
     ELSE Over(j)
  /\ UNCHANGED <<suite, listVars, dialogVars, batchVars, custom, edits, editFails>>

\* Where it cannot be read, the list seen before is renumbered, with its old points.
RefreshAnswered(j) ==
  /\ flights[j].op = "refreshed" /\ flights[j].st # "sent" /\ Over(j)
  /\ tests' = IF flights[j].st = "ok" THEN flights[j].answer
              ELSE IF flights[j].at \in DOMAIN flights[j].seen THEN RemoveAt(flights[j].seen, flights[j].at)
              ELSE flights[j].seen
  /\ UNCHANGED <<suite, pendingPoints, savingPoints, dialogVars, batchVars, custom, edits, editFails>>

PointsAnswered(j) ==
  /\ flights[j].op = "points" /\ flights[j].st # "sent" /\ Over(j)
  /\ savingPoints' = FALSE
  /\ IF flights[j].st = "ok"
     THEN tests' = WithPoints(flights[j].seen, flights[j].map) /\ pendingPoints' = <<>>
     ELSE UNCHANGED <<tests, pendingPoints>>
  /\ UNCHANGED <<suite, dialogVars, batchVars, custom, edits, editFails>>

Init ==
  /\ suite = FirstSuite /\ tests = FirstSuite /\ pendingPoints = <<>> /\ savingPoints = FALSE
  /\ modal = "none" /\ deleteOrdinal = 0 /\ editOrdinal = 0 /\ uploading = FALSE
  /\ batchQueue = <<>> /\ batchIsRunning = FALSE /\ batchTodo = <<>> /\ flights = <<>>
  /\ custom = FALSE /\ overlapped = FALSE /\ edits = 0 /\ editFails = 0

Next ==
  \/ \E o \in 0..Len(tests) : OpenSingle(o)
  \/ \E o \in DOMAIN tests : AskDelete(o) \/ \E p \in PointChoices : handlePointChange(o, p)
  \/ CloseModal \/ confirmDeleteTest \/ handleSavePoints \/ handleSplitEvenly \/ BatchStep
  \/ \E f \in Files, p \in PointChoices : handleSave(f, p)
  \/ \E pairs \in {SetToSeq(s) : s \in SUBSET Files \ {{}}} : enqueueFiles(pairs)
  \/ \E selected \in SUBSET DOMAIN batchQueue : runBatchUploadQueue(selected)
  \/ \E i \in DOMAIN batchQueue : handleRetryBatchItem(i) \/ handleRemoveBatchItem(i)
  \/ \E j \in DOMAIN flights : \/ Serve(j) \/ Lose(j)
                               \/ UploadAnswered(j) \/ BatchOver(j) \/ handleSingleSuccess(j)
                               \/ DeleteAnswered(j) \/ RefreshAnswered(j) \/ PointsAnswered(j)

Spec == Init /\ [][Next]_suiteVars

-----------------------------------------------------------------------------
(* Properties.                                                             *)

\* Types.
TypeOK ==
  /\ \A s \in {suite, tests} : \A i \in DOMAIN s : s[i].file \in Files /\ s[i].points \in Nat
  /\ modal \in {"none", "single", "delete", "batch"} /\ deleteOrdinal \in Nat /\ editOrdinal \in Nat
  /\ \A i \in DOMAIN batchQueue : batchQueue[i].st \in {"queued", "uploading", "success", "error"}
  /\ {savingPoints, uploading, batchIsRunning, custom, overlapped} \subseteq BOOLEAN
  /\ \A j \in DOMAIN flights : flights[j].st \in {"sent", "ok", "bad"}

\* However uploads are lost, retried, batched again or overlap, no test is in a suite twice
\* and none over the limit is in it (AddSingleTest's check under the problem's row lock).
NoTestTwice ==
  /\ \A i, j \in DOMAIN suite : i # j => suite[i].file # suite[j].file
  /\ \A i \in DOMAIN suite : suite[i].file \notin TooLarge

\* As long as nobody gives points by hand, and no points made for an older list arrive, the
\* points of a suite are the even distribution of the whole score, whatever is uploaded,
\* lost, deleted or split: the console's distribution is the one the server extends.
ScoreStaysWhole ==
  (~custom /\ suite # <<>>) => IsEvenDistribution(Points(suite)) /\ Total(Points(suite)) = MaxScore

\* Between requests that neither overlapped nor failed, the list is the server's suite,
\* points and order included.
ListIsSuite ==
  (flights = <<>> /\ ~batchIsRunning /\ ~overlapped /\ editFails = 0) => tests = suite
=============================================================================
