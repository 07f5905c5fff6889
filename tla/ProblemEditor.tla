--------------------------- MODULE ProblemEditor ---------------------------
(***************************************************************************)
(* The problems of the contest as the console lists and edits them         *)
(* (admin-problems, problem-editor, use-problem-draft, testcase-manager)   *)
(* and as the server keeps them (api/admin_problems.go,                    *)
(* admin_problem_tests.go).                                                *)
(*                                                                         *)
(* A form is [slug, title, statement, samples, published]; limits and      *)
(* constraints are left out, and of the tests only how many there are.     *)
(* The new-problem page keeps a draft in the browser's storage.  Requests  *)
(* are sent, checked, executed and answered in steps of their own.         *)
(***************************************************************************)
EXTENDS Naturals, Sequences, SequencesExt, FiniteSets

CONSTANTS
  Texts,         \* what may be typed into a field; "" is among them
  Starter,       \* the form a new problem starts from
  SlugOf,        \* the slug made of a title: lower case, dashes for the rest
  FirstProblems, \* the problems at the start
  MinTests,      \* tests that a published problem needs
  FirstDrafts,   \* what the browser's storage may hold at the start
  MaxOpened,     \* bound on pages opened by hand
  MaxWork,       \* bound on changes of a form or a filter, and on requests begun
  MaxTogether,   \* bound on those under way together, the list's apart
  MaxDropped     \* bound on requests and answers lost

VARIABLES
  problems,                        \* the server's rows, by id: a form and its tests, or gone
  draft,                           \* the browser's storage: <<>> or <<form>>
  page, editing,                   \* "list", "new" or "edit", and the problem edited
  form, slugAuto, formTests,       \* ProblemEditor; formTests counts the tests it shows
  autosave,                        \* the draft's debounce timer is running
  hasSavedDraft, draftRestored,    \* the banners
  saving, goto,                    \* a save is under way; a navigation has been asked for
  listed, pendingId, listFilter,   \* AdminProblems
  asked,                           \* requests under way
  opened, work, dropped

editorVars == <<form, slugAuto, formTests>>
draftVars  == <<draft, autosave, hasSavedDraft, draftRestored>>
pageVars   == <<page, editing, saving, goto>>
rowVars    == <<listed, pendingId, listFilter>>
boundVars  == <<opened, work, dropped>>
problemVars == <<problems, editorVars, draftVars, pageVars, rowVars, asked, boundVars>>

-----------------------------------------------------------------------------
(* The list.                                                               *)

Gone == [gone |-> TRUE]
Kept(p) == p # Gone
Row(f, n) == [gone |-> FALSE, form |-> f, tests |-> n]
Ids == DOMAIN problems

\* The rows shown under the filters: search, and the published or draft ones.
filteredProblems ==
  {i \in DOMAIN listed : /\ Kept(listed[i])
                         /\ listFilter.search \in {"", listed[i].form.title, listed[i].form.slug}
                         /\ listFilter.status = "all" \/
                            listed[i].form.published = (listFilter.status = "published")}

\* The list page reads the problems when it is mounted and after a success; only the answer
\* of its latest read counts.
Reading(rest) ==
  SelectSeq(rest, LAMBDA c : c.op # "list")
    \o <<[op |-> "list", id |-> 0, form |-> Starter, mount |-> opened, st |-> "sent"]>>

Filter(search, status) ==
  /\ page = "list" /\ work < MaxWork /\ work' = work + 1
  /\ listFilter' = [search |-> search, status |-> status]
  /\ UNCHANGED <<problems, editorVars, draftVars, pageVars, listed, pendingId, asked, opened, dropped>>

Ask(op, id, f) ==
  /\ work < MaxWork /\ work' = work + 1
  /\ Len(SelectSeq(asked, LAMBDA c : c.op # "list")) < MaxTogether
  /\ asked' = Append(asked, [op |-> op, id |-> id, form |-> f, mount |-> opened, st |-> "sent"])

\* The buttons of a row that is not the busy one.
rowOffers(id) == page = "list" /\ id \in filteredProblems /\ pendingId # id

\* A draft with too few tests in the list is refused with a toast.
handleTogglePublish(id) ==
  /\ rowOffers(id)
  /\ listed[id].form.published \/ listed[id].tests >= MinTests
  /\ pendingId' = id
  /\ Ask(IF listed[id].form.published THEN "unpublish" ELSE "publish", id, Starter)
  /\ UNCHANGED <<problems, editorVars, draftVars, pageVars, listed, listFilter, opened, dropped>>

confirmDeleteProblem(id) ==
  /\ rowOffers(id)
  /\ pendingId' = id /\ Ask("delete", id, Starter)
  /\ UNCHANGED <<problems, editorVars, draftVars, pageVars, listed, listFilter, opened, dropped>>

\* The test manager over the list, or the editor's tab, removes or uploads a test.
AskTest(op, id) ==
  /\ \/ page = "list" /\ id \in filteredProblems
     \/ page = "edit" /\ id = editing
  /\ Ask(op, id, Starter)
  /\ UNCHANGED <<problems, editorVars, draftVars, pageVars, rowVars, opened, dropped>>

-----------------------------------------------------------------------------
(* The editor and its draft.                                               *)

\* Only the new-problem page keeps one.
draftsKept(p) == p = "new"

\* Every render starts the timer again: its effect depends on an object made by the render.
Rerender(p) == autosave' = draftsKept(p)

\* What the timer writes: the form of the last render.
storedDraft == <<form>>

Autosave ==
  /\ autosave /\ autosave' = FALSE
  /\ draft' = storedDraft
  /\ UNCHANGED <<problems, editorVars, hasSavedDraft, draftRestored, pageVars, rowVars, asked, boundVars>>

Open(p, id, f, n) ==
  /\ opened' = opened + 1
  /\ page' = p /\ editing' = id /\ goto' = <<>> /\ saving' = FALSE
  /\ form' = f /\ formTests' = n /\ slugAuto' = (p = "new")
  /\ hasSavedDraft' = (p = "new" /\ draft # <<>>) /\ draftRestored' = FALSE
  /\ Rerender(p)

OpenNew ==
  /\ page = "list" /\ opened < MaxOpened /\ Open("new", 0, Starter, 0)
  /\ UNCHANGED <<problems, draft, rowVars, asked, work, dropped>>

\* The page reads the problem and its tests before it shows the editor.
OpenEdit(id) ==
  /\ page = "list" /\ opened < MaxOpened /\ id \in filteredProblems /\ Kept(problems[id])
  /\ Open("edit", id, problems[id].form, problems[id].tests)
  /\ UNCHANGED <<problems, draft, rowVars, asked, work, dropped>>

\* Back to the list, by the link or by the navigation a save has asked for.
ShowList ==
  /\ page' = "list" /\ editing' = 0 /\ goto' = <<>> /\ saving' = FALSE
  /\ autosave' = FALSE /\ hasSavedDraft' = FALSE /\ draftRestored' = FALSE
  /\ pendingId' = 0 /\ listFilter' = [search |-> "", status |-> "all"]
  /\ asked' = Reading(asked)

Back ==
  /\ page # "list" /\ ShowList
  /\ UNCHANGED <<problems, editorVars, draft, listed, boundVars>>

Change(f) ==
  /\ page # "list" /\ work < MaxWork /\ work' = work + 1
  /\ form' = f /\ Rerender(page)
  /\ UNCHANGED <<problems, formTests, draft, hasSavedDraft, draftRestored, pageVars, rowVars, asked,
                 opened, dropped>>

\* A new problem's slug follows its title until it is typed.
handleTitleChange(t) ==
  /\ Change([form EXCEPT !.title = t,
                         !.slug = IF slugAuto /\ page = "new" THEN SlugOf[t] ELSE @])
  /\ UNCHANGED slugAuto

handleSlugChange(s) == page = "new" /\ Change([form EXCEPT !.slug = s]) /\ slugAuto' = FALSE
TypeStatement(x)    == Change([form EXCEPT !.statement = x]) /\ UNCHANGED slugAuto
handleAddSample     == Change([form EXCEPT !.samples = Append(@, "")]) /\ UNCHANGED slugAuto
handleRemoveSample(i)    == Change([form EXCEPT !.samples = RemoveAt(@, i)]) /\ UNCHANGED slugAuto
handleSampleChange(i, x) == Change([form EXCEPT !.samples[i] = x]) /\ UNCHANGED slugAuto

\* Fields that are blank in the draft keep the value they have on the form.
applyDraft(d) ==
  LET over(old, new) == IF new = "" THEN old ELSE new
  IN  [slug |-> over(form.slug, d.slug), title |-> over(form.title, d.title),
       statement |-> over(form.statement, d.statement), samples |-> d.samples, published |-> d.published]

restoreDraft ==
  /\ page = "new" /\ hasSavedDraft /\ draft # <<>>
  /\ form' = applyDraft(draft[1])
  /\ draftRestored' = TRUE /\ hasSavedDraft' = FALSE /\ Rerender(page)
  /\ UNCHANGED <<problems, slugAuto, formTests, draft, pageVars, rowVars, asked, boundVars>>

discardDraft ==
  /\ page = "new" /\ hasSavedDraft
  /\ draft' = <<>> /\ hasSavedDraft' = FALSE /\ Rerender(page)
  /\ UNCHANGED <<problems, editorVars, draftRestored, pageVars, rowVars, asked, boundVars>>

-----------------------------------------------------------------------------
(* Saving.                                                                 *)

\* A title, a slug, a statement and whole samples; and the tests, to publish.
MaySave(f, publish) ==
  /\ "" \notin {f.slug, f.title, f.statement} /\ publish => formTests >= MinTests

Valid(f) == f.samples # <<>> /\ \A i \in DOMAIN f.samples : f.samples[i] # ""

\* handleSaveInternal: the form takes the state it is to be saved in before it is sent.
handleSaveInternal(publish) ==
  /\ page # "list" /\ ~saving /\ goto = <<>> /\ MaySave(form, publish)
  /\ form' = [form EXCEPT !.published = publish]
  /\ saving' = TRUE /\ Rerender(page)
  /\ Ask(IF page = "new" THEN "create" ELSE "update", editing, form')
  /\ UNCHANGED <<problems, slugAuto, formTests, draft, hasSavedDraft, draftRestored, page, editing,
                 goto, rowVars, opened, dropped>>

-----------------------------------------------------------------------------
(* The server: what a request checks, and what it then does.               *)

SlugTaken(s) == \E i \in Ids : Kept(problems[i]) /\ problems[i].form.slug = s

\* What the handler reads before it acts.
Checked(c) ==
  CASE c.op = "create" -> Valid(c.form) /\ ~c.form.published
    [] c.op = "update" -> /\ Valid(c.form)
                          /\ c.form.published => Kept(problems[c.id]) /\ problems[c.id].tests >= MinTests
    [] c.op = "publish"    -> Kept(problems[c.id]) /\ problems[c.id].tests >= MinTests
    [] c.op = "deleteTest" -> Kept(problems[c.id]) /\ problems[c.id].form.published
                                => problems[c.id].tests > MinTests
    [] OTHER -> TRUE

Reply(j, st) == asked' = [asked EXCEPT ![j].st = st]

Check(j) ==
  /\ asked[j].st = "sent" /\ asked[j].op # "list"
  /\ Reply(j, IF Checked(asked[j]) THEN "checked" ELSE "bad")
  /\ UNCHANGED <<problems, editorVars, draftVars, pageVars, rowVars, boundVars>>

\* Create; the slug is unique in the database, and an update does not change it.
Create(j) ==
  /\ asked[j].st = "checked" /\ asked[j].op = "create"
  /\ IF SlugTaken(asked[j].form.slug)
     THEN Reply(j, "bad") /\ UNCHANGED problems
     ELSE /\ problems' = Append(problems, Row(asked[j].form, 0))
          /\ asked' = [asked EXCEPT ![j].st = "ok", ![j].id = Len(problems')]
  /\ UNCHANGED <<editorVars, draftVars, pageVars, rowVars, boundVars>>

\* The row after a request on it.
Changed(c) ==
  LET p == problems[c.id]
  IN  CASE c.op = "update"     -> [p EXCEPT !.form = [c.form EXCEPT !.slug = p.form.slug]]
        [] c.op = "publish"    -> [p EXCEPT !.form.published = TRUE]
        [] c.op = "unpublish"  -> [p EXCEPT !.form.published = FALSE]
        [] c.op = "delete"     -> Gone
        [] c.op = "addTest"    -> [p EXCEPT !.tests = @ + 1]
        [] c.op = "deleteTest" -> [p EXCEPT !.tests = @ - 1]

Act(j) ==
  /\ asked[j].st = "checked" /\ asked[j].op # "create"
  /\ LET p == problems[asked[j].id]
     IN  IF ~Kept(p) \/ (asked[j].op = "deleteTest" /\ p.tests = 0)
         THEN Reply(j, "bad") /\ UNCHANGED problems
         ELSE Reply(j, "ok") /\ problems' = [problems EXCEPT ![asked[j].id] = Changed(asked[j])]
  /\ UNCHANGED <<editorVars, draftVars, pageVars, rowVars, boundVars>>

\* A request does not arrive, or its answer does not come back.
Drop(j) ==
  /\ asked[j].st \in {"sent", "ok"} /\ dropped < MaxDropped /\ dropped' = dropped + 1
  /\ Reply(j, "bad")
  /\ UNCHANGED <<problems, editorVars, draftVars, pageVars, rowVars, opened, work>>

-----------------------------------------------------------------------------
(* Answers.                                                                *)

Over(j) == RemoveAt(asked, j)
Answered(j, ops) == asked[j].st \in {"ok", "bad"} /\ asked[j].op \in ops

\* useAsyncData: the rows as they are when the list is read.
ListAnswered(j) ==
  /\ asked[j].op = "list" /\ asked' = Over(j)
  /\ listed' = IF page = "list" /\ asked[j].st = "sent" THEN problems ELSE listed
  /\ UNCHANGED <<problems, editorVars, draftVars, pageVars, pendingId, listFilter, boundVars>>

\* A row's request is over: its spinner ends, and a success reads the list again.
RowAnswered(j) ==
  /\ Answered(j, {"publish", "unpublish", "delete"})
  /\ pendingId' = 0
  /\ asked' = IF asked[j].st = "ok" /\ page = "list" THEN Reading(Over(j)) ELSE Over(j)
  /\ UNCHANGED <<problems, editorVars, draftVars, pageVars, listed, listFilter, boundVars>>

\* The test manager shows the new tests, and the list is read again when it is closed.
TestAnswered(j) ==
  /\ Answered(j, {"addTest", "deleteTest"})
  /\ formTests' = IF page = "edit" /\ asked[j].id = editing /\ asked[j].st = "ok" /\ Kept(problems[editing])
                  THEN problems[editing].tests ELSE formTests
  /\ asked' = IF page = "list" THEN Reading(Over(j)) ELSE Over(j)
  /\ UNCHANGED <<problems, form, slugAuto, draftVars, pageVars, rowVars, boundVars>>

\* Where a success leads: a new problem is saved unpublished, its editor follows.
destination(c) == IF c.op = "create" THEN <<"edit", c.id>> ELSE <<"list", 0>>

\* The pages' handleSave and the end of handleSaveInternal: a success clears the draft and
\* navigates, from whatever page is open by then.
SaveAnswered(j) ==
  /\ Answered(j, {"create", "update"}) /\ asked' = Over(j)
  /\ saving' = IF asked[j].mount = opened THEN FALSE ELSE saving
  /\ autosave' = (page = "new" /\ (asked[j].mount = opened \/ autosave))
  /\ IF asked[j].st = "ok"
     THEN /\ draft' = <<>>
          /\ goto' = destination(asked[j])
     ELSE UNCHANGED <<draft, goto>>
  /\ UNCHANGED <<problems, editorVars, hasSavedDraft, draftRestored, page, editing, rowVars, boundVars>>

\* The navigation asked for takes place.
Navigate ==
  /\ goto # <<>>
  /\ \/ goto[1] = "list" /\ ShowList /\ UNCHANGED <<editorVars, opened>>
     \/ /\ goto[1] = "edit" /\ Kept(problems[goto[2]])
        /\ Open("edit", goto[2], problems[goto[2]].form, problems[goto[2]].tests)
        /\ UNCHANGED <<pendingId, listFilter, asked>>
  /\ UNCHANGED <<problems, draft, listed, work, dropped>>

Init ==
  /\ problems = FirstProblems /\ draft \in FirstDrafts
  /\ page = "list" /\ editing = 0 /\ saving = FALSE /\ goto = <<>>
  /\ form = Starter /\ slugAuto = TRUE /\ formTests = 0
  /\ autosave = FALSE /\ hasSavedDraft = FALSE /\ draftRestored = FALSE
  /\ listed = FirstProblems /\ pendingId = 0 /\ listFilter = [search |-> "", status |-> "all"]
  /\ asked = <<>> /\ opened = 0 /\ work = 0 /\ dropped = 0

Next ==
  \/ \E s \in {"", Starter.title}, x \in {"all", "published", "draft"} : Filter(s, x)
  \/ \E id \in DOMAIN listed : \/ handleTogglePublish(id) \/ confirmDeleteProblem(id) \/ OpenEdit(id)
                               \/ AskTest("addTest", id) \/ AskTest("deleteTest", id)
  \/ OpenNew \/ Back \/ Autosave \/ restoreDraft \/ discardDraft \/ Navigate
  \/ \E t \in Texts : handleTitleChange(t) \/ handleSlugChange(t) \/ TypeStatement(t)
  \/ handleAddSample
  \/ \E i \in DOMAIN form.samples : \/ handleRemoveSample(i)
                                    \/ \E x \in Texts : handleSampleChange(i, x)
  \/ \E publish \in BOOLEAN : handleSaveInternal(publish)
  \/ \E j \in DOMAIN asked : \/ Check(j) \/ Create(j) \/ Act(j) \/ Drop(j)
                             \/ ListAnswered(j) \/ RowAnswered(j) \/ TestAnswered(j) \/ SaveAnswered(j)

Spec == Init /\ [][Next]_problemVars

-----------------------------------------------------------------------------
(* Properties.                                                             *)

Forms == [slug : STRING, title : STRING, statement : STRING, samples : Seq(STRING), published : BOOLEAN]

\* Types.
TypeOK ==
  /\ form \in Forms /\ \A i \in Ids : Kept(problems[i]) => problems[i].form \in Forms /\ problems[i].tests \in Nat
  /\ page \in {"list", "new", "edit"} /\ (page = "edit") = (editing # 0)
  /\ {slugAuto, autosave, hasSavedDraft, draftRestored, saving} \subseteq BOOLEAN
  /\ \A j \in DOMAIN asked : asked[j].st \in {"sent", "checked", "ok", "bad"}

\* Once its timer has run out, and unless a save has just led away, the draft of the
\* new-problem page is the form as it is, whatever was typed, restored, discarded, saved or
\* refused meanwhile (use-problem-draft's debounce).
DraftIsNewest == (page = "new" /\ ~autosave /\ goto = <<>>) => draft = <<form>>

\* Editing a problem that exists never writes its contents over a draft (isEditing).
EditKeepsDraft == [][page = "edit" => draft' \in {draft, <<>>}]_problemVars

\* A save whose answer was lost, or that was sent again, does not make a second problem of
\* the slug.
OneProblemPerSlug ==
  \A i, k \in Ids : (i # k /\ Kept(problems[i]) /\ Kept(problems[k])) =>
                      problems[i].form.slug # problems[k].form.slug
=============================================================================
