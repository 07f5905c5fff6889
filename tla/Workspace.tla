------------------------------ MODULE Workspace ------------------------------
(***************************************************************************)
(* The workspace of one problem in the contestant's portal: the editor,    *)
(* the local history of snapshots and its copy in localStorage, running    *)
(* and submitting (code-workspace.tsx, use-history.ts, history-panel.tsx, *)
(* submission-result.tsx, code-editor.tsx of competitor-frontend).         *)
(*                                                                         *)
(* The contest's phase is another provider's and is read freely; what the  *)
(* providers know of the submissions follows the server.  Sources are      *)
(* small numbers; 0 is empty source, and the starter of a language is a    *)
(* source like any other.                                                  *)
(***************************************************************************)
EXTENDS Naturals, Sequences, FiniteSets, Paging

CONSTANTS
  Languages,    \* language ids; the first of the list is the default
  Default,      \* LANGUAGES[0]
  Starter,      \* the starter source of each language
  Codes,        \* what the contestant may type
  MaxSnaps,     \* MAX_HISTORY_SNAPSHOTS (50 in the code)
  MaxSubs,      \* bound on submissions
  MaxSaves,     \* bound on changes of the history by this page
  Histories,    \* what localStorage may hold when the page is mounted
  Elsewhere     \* whether the same user may submit from another window

VARIABLES
  language, code,     \* the editor
  hasEdited,          \* hasEdited.current
  draft,              \* the timer that loads the newest snapshot has not fired
  autosave,           \* the autosave timer is running
  snapshots,          \* the history, newest first
  stored,             \* localStorage's copy of it
  sync,               \* syncServerSubmissions: wanted, then the listing it read, then <<>>
  running, runCooldown,
  request,         \* handleSubmit is waiting: <<>> or what it submitted
  submitCooldown,
  submitResult,       \* what the last submission answered
  newestResult,         \* the provider's last result
  activeHere,             \* the problem has a submission in the provider's list
  subs,               \* the user's submissions of this problem, on the server
  recordedResult,     \* the result the effect recorded last
  saves               \* changes of the history so far

editorVars == <<language, code, hasEdited, draft, autosave>>
runVars    == <<running, runCooldown>>
submitVars == <<request, submitCooldown, submitResult, newestResult, activeHere, subs, recordedResult>>
vars == <<editorVars, snapshots, stored, sync, runVars, submitVars, saves>>

\* A snapshot of the history: what recorded it, the source, and its submission and verdict.
Sources  == Codes \cup {Starter[l] : l \in Languages}
Snapshot == [trigger : {"submitted", "autosave", "ran"}, language : Languages, code : Sources,
             id : Nat, verdict : {"none", "queued", "judged"}]

\* What the browser holds is a history: it was saved by a page like this one.
WorkConstants ==
  /\ Default \in Languages /\ Starter \in [Languages -> Nat] /\ Codes \subseteq Nat
  /\ MaxSnaps \in Nat \ {0} /\ MaxSubs \in Nat
  /\ \A h \in Histories : /\ h \in Seq(Snapshot) /\ Len(h) <= MaxSnaps
                          /\ \A i, j \in DOMAIN h : h[i].id = h[j].id /\ h[i].id # 0 => i = j

Phases == {"NOT_STARTED", "RUNNING", "PAUSED", "ENDED"}
NoResult == [id |-> 0, status |-> "none"]

-----------------------------------------------------------------------------
(* The history.                                                            *)

Snap(trig, lang, c, id, verdict) ==
  [trigger |-> trig, language |-> lang, code |-> c, id |-> id, verdict |-> verdict]

Truncate(s) == SubSeq(s, 1, IF Len(s) < MaxSnaps THEN Len(s) ELSE MaxSnaps)

IndexOf(s, id) == {i \in DOMAIN s : id # 0 /\ s[i].id = id}

\* Mutant: record does not look for the submission in the history.
RecordedOnTop(snaps, trig, lang, c, id, verdict) ==
  Truncate(<<Snap(trig, lang, c, id, verdict)>> \o snaps)

\* record: a submission that is in the history is brought up to date; an autosave of the
\* source autosaved last, or of the source on top, is skipped; anything else goes on top.
Recorded(snaps, trig, lang, c, id, verdict) ==
  LET autosaves == rowsAt(snaps, {i \in DOMAIN snaps : snaps[i].trigger = "autosave"})
  IN  IF IndexOf(snaps, id) # {}
      THEN [i \in DOMAIN snaps |->
              IF i \in IndexOf(snaps, id) /\ verdict # "none" THEN [snaps[i] EXCEPT !.verdict = verdict]
              ELSE snaps[i]]
      ELSE IF \/ trig = "autosave" /\ autosaves # <<>> /\ Head(autosaves).code = c
              \/ snaps # <<>> /\ Head(snaps).code = c /\ Head(snaps).trigger = trig /\ id = 0
      THEN snaps
      ELSE Truncate(<<Snap(trig, lang, c, id, verdict)>> \o snaps)

\* Every change of the history is saved.
Save(snaps) ==
  /\ snapshots' = snaps
  /\ IF snaps = snapshots THEN UNCHANGED <<stored, saves>>
     ELSE saves < MaxSaves /\ saves' = saves + 1 /\ stored' = snaps

Record(trig, lang, c, id, verdict) == Save(Recorded(snapshots, trig, lang, c, id, verdict))

\* mergeServerSubmissions: the server's source and verdict replace the local ones, and
\* what is missing is added at the place its time gives it; then the history is cut.  The
\* times are left out: a submission that is missing here may be older or newer than what
\* the page recorded, so every place is possible.
Merges(snaps, listing) ==
  LET update(n) == IF \E s \in listing : s.id = n.id
                   THEN LET s == CHOOSE x \in listing : x.id = n.id
                        IN  [n EXCEPT !.language = s.language, !.code = s.code, !.verdict = s.verdict]
                   ELSE n
      updated == [i \in DOMAIN snaps |-> update(snaps[i])]
      added   == {Snap("submitted", s.language, s.code, s.id, s.verdict) :
                    s \in {x \in listing : IndexOf(snaps, x.id) = {}}}
      all     == [1..Len(snaps) + Cardinality(added) -> Range(updated) \cup added]
  IN  {Truncate(m) : m \in {x \in all : /\ rowsAt(x, {i \in DOMAIN x : x[i] \notin added}) = updated
                                        /\ added \subseteq Range(x)}}

-----------------------------------------------------------------------------
(* The editor.                                                             *)

\* The effect of [code, language.id] arms the autosave timer anew.
SetEditor(lang, c) ==
  /\ language' = lang /\ code' = c
  /\ autosave' = (autosave \/ lang # language \/ c # code)

\* The newest snapshot becomes the draft, unless something was typed before.
loadDraft ==
  /\ draft /\ draft' = FALSE
  /\ IF ~hasEdited /\ stored # <<>> THEN SetEditor(Head(stored).language, Head(stored).code)
     ELSE UNCHANGED <<language, code, autosave>>
  /\ UNCHANGED <<hasEdited, saves, snapshots, stored, sync, runVars, submitVars>>

handleCodeChange(c) ==
  /\ c # code
  /\ hasEdited' = TRUE /\ SetEditor(language, c)
  /\ UNCHANGED <<draft, saves, snapshots, stored, sync, runVars, submitVars>>

AutosaveFires ==
  /\ autosave /\ autosave' = FALSE
  /\ Record("autosave", language, code, 0, "none")
  /\ UNCHANGED <<language, code, hasEdited, draft, sync, runVars, submitVars>>

\* Ctrl+S.
SaveNow ==
  /\ Record("autosave", language, code, 0, "none")
  /\ UNCHANGED <<editorVars, sync, runVars, submitVars>>

\* The source is saved, and the newest snapshot of the other language is taken up.
handleLanguageChange(next) ==
  /\ next # language
  /\ Record("autosave", language, code, 0, "none")
  /\ LET drafts == rowsAt(snapshots, {i \in DOMAIN snapshots : snapshots[i].language = next})
     IN  SetEditor(next, IF drafts # <<>> THEN Head(drafts).code ELSE Starter[next])
  /\ UNCHANGED <<hasEdited, draft, sync, runVars, submitVars>>

\* HistoryPanel: the list under one of its filters.
filteredSnapshots(filter) ==
  rowsAt(snapshots, {i \in DOMAIN snapshots : filter \in {"all", snapshots[i].trigger}})

\* The preview of the selected snapshot restores it over the editor.
handleRestore(i, filter) ==
  /\ i \in DOMAIN filteredSnapshots(filter)
  /\ SetEditor(filteredSnapshots(filter)[i].language, filteredSnapshots(filter)[i].code)
  /\ UNCHANGED <<hasEdited, draft, saves, snapshots, stored, sync, runVars, submitVars>>

\* The listing of the user's submissions of the problem is read when the page is mounted,
\* and merged when it arrives.
syncServerSubmissions ==
  /\ sync = <<"wanted">> /\ subs # {} /\ sync' = <<"read", subs>>
  /\ UNCHANGED <<editorVars, saves, snapshots, stored, runVars, submitVars>>

MergeListing ==
  /\ Len(sync) = 2
  /\ \E m \in Merges(snapshots, sync[2]) : Save(m)
  /\ sync' = <<>>
  /\ UNCHANGED <<editorVars, runVars, submitVars>>

-----------------------------------------------------------------------------
(* Running.                                                                *)

RunEnabled(phase) == ~running /\ ~runCooldown /\ phase \notin {"PAUSED", "NOT_STARTED"}

\* Empty source is refused with a message.
handleRun(phase) ==
  /\ RunEnabled(phase) /\ code # 0
  /\ running' = TRUE
  /\ Record("ran", language, code, 0, "none")
  /\ UNCHANGED <<editorVars, sync, runCooldown, submitVars>>

\* runCode answers, or reports a failure as a result.
RunReturns ==
  /\ running /\ running' = FALSE /\ runCooldown' = TRUE
  /\ UNCHANGED <<editorVars, saves, snapshots, stored, sync, submitVars>>

\* The intervals count the three seconds of the cooldowns down.
CooldownEnds ==
  /\ runCooldown \/ submitCooldown
  /\ runCooldown' = FALSE /\ submitCooldown' = FALSE
  /\ UNCHANGED <<editorVars, saves, snapshots, stored, sync, running, request, submitResult,
                 newestResult, activeHere, subs, recordedResult>>

-----------------------------------------------------------------------------
(* Submitting.                                                             *)

\* The result the page shows: the provider's, if it is of this problem ("elsewhere" marks
\* one of another problem), else what handleSubmit was answered.
activeResult(last, answer) == IF last.status \notin {"none", "elsewhere"} THEN last ELSE answer

\* The effect of activeResult: each version of a result with an id is recorded once, with
\* the source that is in the editor.
RecordResult(r) ==
  IF r.id = 0 \/ r = recordedResult
  THEN UNCHANGED <<snapshots, stored, recordedResult, saves>>
  ELSE /\ recordedResult' = r
       /\ Record("submitted", language, code, r.id, IF r.status = "queued" THEN "none" ELSE r.status)

SubmitEnabled(phase) == request = <<>> /\ ~activeHere /\ ~submitCooldown /\ phase = "RUNNING"

\* handleSubmit and submitFast: the last result of this problem is taken away.
handleSubmit(phase) ==
  /\ SubmitEnabled(phase)
  /\ request' = <<[language |-> language, code |-> code, id |-> 0]>>
  /\ submitResult' = NoResult
  /\ newestResult' = IF newestResult.status = "elsewhere" THEN newestResult ELSE NoResult
  /\ UNCHANGED <<editorVars, saves, snapshots, stored, sync, runVars, submitCooldown, activeHere, subs,
                 recordedResult>>

\* The server stores the submission, of this page ...
NextId == Cardinality(subs) + 1
Stored(sub) == [id |-> NextId, language |-> sub.language, code |-> sub.code, verdict |-> "queued"]

ServerStores ==
  /\ request # <<>> /\ request[1].id = 0 /\ NextId <= MaxSubs
  /\ \A s \in subs : s.verdict # "queued"
  /\ subs' = subs \cup {Stored(request[1])}
  /\ request' = <<[request[1] EXCEPT !.id = NextId]>>
  /\ UNCHANGED <<editorVars, saves, snapshots, stored, sync, runVars, submitCooldown, submitResult,
                 newestResult, activeHere, recordedResult>>

\* ... or of another window of the user; the page's provider hears of it.
StoredElsewhere(c) ==
  /\ Elsewhere /\ subs = {} /\ request = <<>>
  /\ subs' = {Stored([language |-> Default, code |-> c])}
  /\ activeHere' = TRUE
  /\ UNCHANGED <<editorVars, saves, snapshots, stored, sync, runVars, request, submitCooldown,
                 submitResult, newestResult, recordedResult>>

\* The answer: the submission is active unless its verdict overtook the answer (submitFast),
\* it is recorded with the source that was submitted, then the effect runs.
SubmitReturns ==
  /\ request # <<>> /\ request[1].id # 0
  /\ LET sub == request[1]
         res == [id |-> sub.id, status |-> "queued"]
         now == activeResult(newestResult, res)
         own == Recorded(snapshots, "submitted", sub.language, sub.code, sub.id, "none")
     IN  /\ submitResult' = res
         /\ activeHere' = (\E s \in subs : s.id = sub.id /\ s.verdict = "queued")
         /\ recordedResult' = now
         /\ Save(IF now = recordedResult THEN own
                 ELSE Recorded(own, "submitted", language, code, now.id,
                               IF now.status = "queued" THEN "none" ELSE now.status))
  /\ request' = <<>> /\ submitCooldown' = TRUE
  /\ UNCHANGED <<editorVars, sync, runVars, newestResult, subs>>

\* The request was refused or failed; what the server did is not known.
SubmitFails ==
  /\ request # <<>>
  /\ submitResult' = [id |-> 0, status |-> "failed to submit"]
  /\ request' = <<>> /\ submitCooldown' = TRUE
  /\ UNCHANGED <<editorVars, saves, snapshots, stored, sync, runVars, newestResult, activeHere, subs,
                 recordedResult>>

\* The provider has a verdict of a submission of this problem.
VerdictArrives(s) ==
  /\ s.verdict = "queued"
  /\ LET r == [id |-> s.id, status |-> "judged"]
     IN  newestResult' = r /\ RecordResult(r)
  /\ subs' = (subs \ {s}) \cup {[s EXCEPT !.verdict = "judged"]}
  /\ activeHere' = FALSE
  /\ UNCHANGED <<editorVars, sync, runVars, request, submitCooldown, submitResult>>

\* The provider's last result is replaced by one of another problem.
OtherVerdictArrives ==
  /\ newestResult.status # "elsewhere"
  /\ newestResult' = [id |-> 0, status |-> "elsewhere"]
  /\ RecordResult(submitResult)
  /\ UNCHANGED <<editorVars, sync, runVars, request, submitCooldown, submitResult, activeHere, subs>>

\* SubmissionResult: the panel shows a spinner instead of a result.
isEvaluating ==
  \/ request # <<>> \/ activeHere
  \/ activeResult(newestResult, submitResult).status = "queued"

\* What it shows once nothing is evaluated: the message of a failed request, or the figures.
ResultPanel ==
  LET shown == activeResult(newestResult, submitResult)
  IN  CASE isEvaluating -> "spinner"
        [] ~isEvaluating /\ shown.status = "none" -> "invitation"
        [] ~isEvaluating /\ shown.status = "failed to submit" -> "error"
        [] OTHER -> "figures"

Init ==
  /\ language = Default /\ code = Starter[Default] /\ hasEdited = FALSE /\ draft = TRUE /\ autosave = FALSE
  /\ stored \in Histories
  /\ snapshots = stored /\ sync = <<"wanted">>
  /\ running = FALSE /\ runCooldown = FALSE
  /\ request = <<>> /\ submitCooldown = FALSE /\ submitResult = NoResult /\ newestResult = NoResult
  /\ activeHere = FALSE /\ subs = {} /\ recordedResult = NoResult /\ saves = 0

EditorStep ==
  \/ loadDraft \/ AutosaveFires \/ SaveNow \/ syncServerSubmissions \/ MergeListing
  \/ (\E c \in Codes : handleCodeChange(c)) \/ (\E l \in Languages : handleLanguageChange(l))
  \/ (\E i \in 1..MaxSnaps, f \in {"all", "submitted", "autosave", "ran"} : handleRestore(i, f))

JudgeStep ==
  \/ (\E phase \in Phases : handleRun(phase) \/ handleSubmit(phase))
  \/ RunReturns \/ CooldownEnds \/ ServerStores \/ SubmitReturns
  \/ SubmitFails \/ OtherVerdictArrives
  \/ (\E c \in Codes : StoredElsewhere(c)) \/ (\E s \in subs : VerdictArrives(s))

Next == EditorStep \/ JudgeStep

Spec == Init /\ [][Next]_vars

-----------------------------------------------------------------------------
(* Properties.                                                             *)

\* Types; the history and its copy never exceed MAX_HISTORY_SNAPSHOTS.
TypeOK ==
  /\ language \in Languages /\ code \in Sources
  /\ draft \in BOOLEAN /\ autosave \in BOOLEAN /\ activeHere \in BOOLEAN
  /\ snapshots \in Seq(Snapshot) /\ Len(snapshots) <= MaxSnaps /\ stored = snapshots

\* A submission is in the history once, however it came there: the answer of handleSubmit,
\* the result's effect (which may overtake the answer) and the merged listing all find it.
OneSnapshotPerSubmission ==
  \A i, j \in DOMAIN snapshots : snapshots[i].id = snapshots[j].id /\ snapshots[i].id # 0 => i = j

\* The page shows a spinner only while something is under way: once the verdict is known the
\* queued answer of handleSubmit is never shown again - unless the provider's only slot for
\* a result holds one of another problem.  Figures are always those of a judged submission.
EvaluatingMeansPending ==
  /\ ResultPanel = "spinner" => request # <<>> \/ activeHere \/ newestResult.status = "elsewhere"
  /\ ResultPanel = "figures" => \E s \in subs : s.verdict = "judged"

\* Changing the language never throws away what was in the editor: it is in the history,
\* even where record skips an autosave it takes for a repetition (handleLanguageChange).
SwitchKeepsWork ==
  [][(\E l \in Languages : handleLanguageChange(l)) =>
       \E i \in DOMAIN snapshots' : snapshots'[i].code = code]_vars

\* After the listing is merged, every snapshot of a listed submission holds the source the
\* server judged, also where the effect had recorded an edited one (mergeServerSubmissions).
ServerSourceWins ==
  [][(Len(sync) = 2 /\ sync' = <<>>) =>
       \A i \in DOMAIN snapshots', s \in sync[2] :
         snapshots'[i].id = s.id => snapshots'[i].code = s.code /\ snapshots'[i].language = s.language]_vars
=============================================================================
