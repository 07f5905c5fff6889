----------------------------- MODULE Monitoring -----------------------------
(***************************************************************************)
(* The monitoring console: the provider that polls the sections its page   *)
(* needs (monitoring-context.tsx, getMonitoringSnapshotAction,             *)
(* admin_monitoring.go), the frame with Refresh and the auto-refresh       *)
(* switch (monitoring-chrome.tsx), and a contestant's timeline, which      *)
(* gathers the entries of one moment in one box                            *)
(* (monitoring/[userId]/page.tsx).                                         *)
(*                                                                         *)
(* A section's data is its version at the server.  The contents of the     *)
(* tables, their filters, the chips of window titles and the re-admission  *)
(* of a contestant are left out.                                           *)
(***************************************************************************)
EXTENDS Integers, Sequences, SequencesExt, FiniteSets

CONSTANTS
  Pages,         \* the pages looked at: their sections, without the overview
  MaxFacts,      \* bound on the changes at the server
  MaxAnswers,    \* bound on the loads under way at a time
  MaxWalks,      \* bound on changes of page and of the switch, and on a page's own changes
  MaxMisses,     \* bound on failures
  Timelines      \* the timelines looked at: sequences of entries [at, kind, weight], newest first

Sections == {"overview"} \cup Pages

VARIABLES
  facts,                    \* the server's version of each section
  watched, isAutoRefreshActive, \* the page, the switch
  loads,                    \* the loads under way
  timer,                    \* whether the chain's timeout is set
  panels, loaded,           \* the version of each section shown; those that returned once
  isRefreshing, loadError,
  walks, misses,
  entries, momentFilter     \* the timeline page: the entries it got, the chip pressed

consoleVars    == <<facts, watched, isAutoRefreshActive, loads, timer, panels, loaded,
                    isRefreshing, loadError, walks, misses>>
timelineVars   == <<entries, momentFilter>>
monitoringVars == <<consoleVars, timelineVars>>

-----------------------------------------------------------------------------
(* Loading.                                                                *)

\* The fleet's header sits above every page.
sectionsForPath(page) == {"overview", page}

\* A new load supersedes those under way: generation is counted up.
Superseded(ls) == [j \in DOMAIN ls |-> [ls[j] EXCEPT !.mine = FALSE]]

\* A load by the chain of timeouts or by the button.
Load(who, sections) == [who |-> who, want |-> sections, mine |-> TRUE, st |-> "sent"]

\* The page that is left stops its chain, whose loads go on unheeded.
Stopped(ls) == [j \in DOMAIN ls |-> IF ls[j].who = "chain" THEN [ls[j] EXCEPT !.who = "stopped"] ELSE ls[j]]

\* The data changes: reports arrive, agents enrol.
ServerMoves ==
  /\ FoldFunction(+, 0, facts) < MaxFacts
  /\ \E s \in Sections : facts' = [facts EXCEPT ![s] = @ + 1]
  /\ UNCHANGED <<watched, isAutoRefreshActive, loads, timer, panels, loaded, isRefreshing, loadError,
                 walks, misses, timelineVars>>

\* getAdminMonitoring: the sections whose query succeeded; none is a failure of the whole.
ServerAnswers(j) ==
  /\ loads[j].st = "sent"
  /\ \E failed \in SUBSET loads[j].want :
       /\ failed # {} => misses < MaxMisses
       /\ misses' = misses + IF failed = {} THEN 0 ELSE 1
       /\ loads' = [loads EXCEPT ![j] = [who |-> @.who, mine |-> @.mine, want |-> @.want, failed |-> failed,
                      st |-> IF failed = @.want THEN "error" ELSE "ok",
                      data |-> [s \in @.want \ failed |-> facts[s]]]]
  /\ UNCHANGED <<facts, watched, isAutoRefreshActive, timer, panels, loaded, isRefreshing, loadError,
                 walks, timelineVars>>

\* The effect: the chain starts again, with every section.
restartChain ==
  /\ timer' = FALSE /\ isRefreshing' = TRUE
  /\ loads' = Append(Stopped(Superseded(loads)), Load("chain", Sections))

\* A chained timeout runs out: this page's sections are polled.
tick ==
  /\ timer /\ Len(loads) < MaxAnswers
  /\ timer' = FALSE /\ isRefreshing' = TRUE
  /\ loads' = Append(Superseded(loads), Load("chain", sectionsForPath(watched)))
  /\ UNCHANGED <<facts, watched, isAutoRefreshActive, panels, loaded, loadError, walks, misses, timelineVars>>

refreshNow ==
  /\ Len(loads) < MaxAnswers
  /\ isRefreshing' = TRUE
  /\ loads' = Append(Superseded(loads), Load("button", Sections))
  /\ UNCHANGED <<facts, watched, isAutoRefreshActive, timer, panels, loaded, loadError, misses, timelineVars>>

\* The button is disabled while a load is under way.
PressRefresh == ~isRefreshing /\ refreshNow /\ UNCHANGED walks

\* A page reads everything again after its own change (applyExemption, confirmRevoke).
RefreshAfterChange == walks < MaxWalks /\ walks' = walks + 1 /\ refreshNow

goTo(page) ==
  /\ page # watched /\ walks < MaxWalks /\ Len(loads) < MaxAnswers
  /\ watched' = page /\ walks' = walks + 1 /\ restartChain
  /\ UNCHANGED <<facts, isAutoRefreshActive, panels, loaded, loadError, misses, timelineVars>>

setAutoRefreshActive ==
  /\ walks < MaxWalks /\ Len(loads) < MaxAnswers
  /\ isAutoRefreshActive' = ~isAutoRefreshActive /\ walks' = walks + 1 /\ restartChain
  /\ UNCHANGED <<facts, watched, panels, loaded, loadError, misses, timelineVars>>

heeded(l) == l.mine

\* Mutant: a superseded load ends its chain.
chainGoesOnIfMine(l) == l.who = "chain" /\ l.mine /\ isAutoRefreshActive

chainGoesOn(l) == l.who = "chain" /\ isAutoRefreshActive

\* load's reply: what it brings is taken where it was not superseded; the chain goes on.
Reply(j) ==
  /\ loads[j].st # "sent"
  /\ LET l == loads[j]
     IN  /\ IF heeded(l) /\ l.st = "ok"
            THEN /\ panels' = [s \in Sections |-> IF s \in DOMAIN l.data THEN l.data[s] ELSE panels[s]]
                 /\ loaded' = loaded \cup (l.want \ l.failed)
                 /\ loadError' = (l.failed # {})
            ELSE loadError' = (loadError \/ heeded(l)) /\ UNCHANGED <<panels, loaded>>
         /\ isRefreshing' = (isRefreshing /\ ~heeded(l))
         /\ timer' = (timer \/ chainGoesOn(l))
         /\ loads' = RemoveAt(loads, j)
  /\ UNCHANGED <<facts, watched, isAutoRefreshActive, walks, misses, timelineVars>>

-----------------------------------------------------------------------------
(* A contestant's timeline.                                                *)

Severities == <<"NORMAL", "MEDIUM", "HIGH", "CRITICAL">>
Near == 4  \* seconds between entries of one moment

\* A box's severity (an index of Severities) after a finding.
severityAfter(was, weight) ==
  IF weight >= 30 THEN 4 ELSE IF weight >= 20 /\ was # 4 THEN 3 ELSE IF was = 1 THEN 2 ELSE was

emptyBox(e) == [at |-> e.at, kind |-> "activity", severity |-> 1, findings |-> <<>>]

\* An entry in its box.
added(b, e) ==
  CASE e.kind = "gap"        -> [b EXCEPT !.kind = "gap", !.severity = 4]
    [] e.kind = "submission" -> [b EXCEPT !.kind = "submission"]
    [] e.kind = "finding"    -> [b EXCEPT !.findings = Append(@, e.weight),
                                          !.kind = IF @ \in {"gap", "submission"} THEN @ ELSE "violation",
                                          !.severity = severityAfter(@, e.weight)]
    [] OTHER                 -> b

near(b, e) == b.at - e.at <= Near /\ e.at - b.at <= Near

\* The entries of a moment go to the first box within Near of them, or start one.
groupTimelineEntries(es) ==
  LET put(bs, e) ==
        LET j == SelectInSeq(bs, LAMBDA b : near(b, e))
        IN  IF j = 0 THEN Append(bs, added(emptyBox(e), e)) ELSE [bs EXCEPT ![j] = added(@, e)]
  IN  FoldLeft(put, <<>>, es)

snapshots == groupTimelineEntries(entries)

\* The boxes a chip shows.
momentShown(b, chip) ==
  CASE chip = "GAPS"        -> b.kind = "gap"
    [] chip = "FINDINGS"    -> b.findings # <<>> \/ b.kind = "violation"
    [] chip = "SUBMISSIONS" -> b.kind = "submission"
    [] OTHER                -> TRUE

filteredSnapshots == SelectSeq(snapshots, LAMBDA b : momentShown(b, momentFilter))

\* The numbers on the chips.
chipCount(chip) ==
  IF chip = "FINDINGS" THEN Len(SelectSeq(snapshots, LAMBDA b : b.findings # <<>>))
  ELSE Len(SelectSeq(snapshots, LAMBDA b : momentShown(b, chip)))

Chips == {"ALL", "GAPS", "FINDINGS", "SUBMISSIONS"}

PressChip(chip) == momentFilter' = chip /\ UNCHANGED <<consoleVars, entries>>

-----------------------------------------------------------------------------
Init ==
  /\ facts = [s \in Sections |-> 0] /\ watched \in Pages /\ isAutoRefreshActive = TRUE
  /\ loads = <<Load("chain", Sections)>> /\ timer = FALSE
  /\ panels = [s \in Sections |-> 0] /\ loaded = {}
  /\ isRefreshing = TRUE /\ loadError = FALSE /\ walks = 0 /\ misses = 0
  /\ entries = <<>> /\ momentFilter = "ALL"

\* The timeline is a page of its own, with its entries.
InitTimeline ==
  /\ facts = [s \in Sections |-> 0] /\ watched \in Pages /\ isAutoRefreshActive = FALSE
  /\ loads = <<>> /\ timer = FALSE
  /\ panels = [s \in Sections |-> 0] /\ loaded = {}
  /\ isRefreshing = FALSE /\ loadError = FALSE /\ walks = 0 /\ misses = 0
  /\ entries \in Timelines /\ momentFilter = "ALL"

Console ==
  \/ ServerMoves \/ tick \/ PressRefresh \/ RefreshAfterChange \/ setAutoRefreshActive
  \/ \E j \in DOMAIN loads : ServerAnswers(j) \/ Reply(j)
  \/ \E page \in Pages : goTo(page)

Next == Console \/ \E chip \in Chips : PressChip(chip)

Spec == Init /\ [][Console]_monitoringVars

SpecTimeline == InitTimeline /\ [][\E chip \in Chips : PressChip(chip)]_monitoringVars

-----------------------------------------------------------------------------
(* Properties.                                                             *)

\* Types.
TypeOK ==
  /\ DOMAIN facts = Sections /\ DOMAIN panels = Sections /\ loaded \subseteq Sections
  /\ watched \in Pages /\ {isAutoRefreshActive, timer, isRefreshing, loadError} \subseteq BOOLEAN
  /\ \A j \in DOMAIN loads : /\ loads[j].who \in {"chain", "stopped", "button"}
                             /\ loads[j].st \in {"sent", "ok", "error"} /\ loads[j].want \subseteq Sections
  /\ momentFilter \in Chips

\* No section goes back to older data, whatever the order in which the answers to the poll,
\* to Refresh and to the pages left come ("a reply that does not match is dropped rather than
\* overwriting newer rows with older ones").
PanelsNeverGoBack == [][\A s \in Sections : panels'[s] >= panels[s]]_monitoringVars

\* With auto-refresh on there is always exactly one poll to come: a timeout that is set or a
\* load of the chain under way, also after failures and loads superseded by the button; with
\* it off no timeout is left (the chained timeouts of the effect).
OneChain ==
  LET chains == Cardinality({j \in DOMAIN loads : loads[j].who = "chain"}) + IF timer THEN 1 ELSE 0
  IN  IF isAutoRefreshActive THEN chains = 1 ELSE ~timer

\* Refresh does not stay disabled: isRefreshing is put back by the newest load only, and
\* that load is always there.
SpinnerEnds == isRefreshing => \E j \in DOMAIN loads : loads[j].mine

\* Every finding of the timeline is in exactly one box, within Near of it; a box is as severe
\* as the worst thing in it, in whatever order they came; and the chip of the findings counts
\* the boxes it shows (groupTimelineEntries).
TimelineFaithful ==
  LET boxes    == snapshots
      findings == SelectSeq(entries, LAMBDA e : e.kind = "finding")
      worst(b) == IF b.severity = 4 THEN \E j \in DOMAIN entries : near(b, entries[j])
                                           /\ (entries[j].kind = "gap" \/ entries[j].weight >= 30)
                  ELSE \A j \in DOMAIN b.findings : b.findings[j] < 30 /\ (b.findings[j] >= 20 => b.severity = 3)
  IN  /\ \A w \in {findings[j].weight : j \in DOMAIN findings} :
           Cardinality({j \in DOMAIN findings : findings[j].weight = w})
             = FoldLeft(LAMBDA n, b : n + Len(SelectSeq(b.findings, LAMBDA x : x = w)), 0, boxes)
      /\ \A j \in DOMAIN boxes : worst(boxes[j])
      /\ \A c \in Chips : c = momentFilter => chipCount(c) = Len(filteredSnapshots)
=============================================================================
