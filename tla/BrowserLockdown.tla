--------------------------- MODULE BrowserLockdown ---------------------------
(***************************************************************************)
(* The browser lockdown of the portal (browser-lockdown.tsx and            *)
(* recordBrowserViolationAction): where the contest requires fullscreen, a *)
(* screen covers the page outside fullscreen, and leaving it, hiding the   *)
(* tab, losing the focus and the inspection shortcuts are reported to the  *)
(* server, at most one report in two seconds.  The desktop client is       *)
(* exempt.  Which vendor's fullscreen call is used is left out.            *)
(***************************************************************************)
EXTENDS Naturals

CONSTANTS
  Throttle,   \* length of the report throttle in ticks of half a second
  MaxNow,     \* bound on time
  MaxEvents   \* bound on the contestant's events

\* The throttle lasts for a while, and there is time.
LockdownConstants == Throttle \in Nat \ {0} /\ MaxNow \in Nat \ {0}

VARIABLES
  clock,              \* time in ticks
  isDesktopEnv, requireFullscreen, inFullscreen, tabHidden,
  hasExitedFullscreen,
  fullscreenError, entering,  \* entering: enterFullscreenMode waits for the browser
  lastReport,         \* lastInfractionReportTimeRef: 0 before the first
  infraction,         \* time of the last infraction, 0 before the first
  sent,               \* the reports sent, by their time
  reports,            \* those on their way
  logged,             \* the reports the server has
  events

lockVars == <<clock, isDesktopEnv, requireFullscreen, inFullscreen, tabHidden, hasExitedFullscreen,
              fullscreenError, entering, lastReport, infraction, sent, reports, logged, events>>

\* The effects that listen are mounted.
Enforced == ~isDesktopEnv /\ requireFullscreen

-----------------------------------------------------------------------------
(* Reports.                                                                *)

\* reportViolationTelemetry: nothing within the throttle of the last report.
reportViolationTelemetry ==
  /\ infraction' = clock
  /\ IF lastReport # 0 /\ clock - lastReport < Throttle
     THEN UNCHANGED <<lastReport, sent, reports>>
     ELSE lastReport' = clock /\ sent' = sent \cup {clock} /\ reports' = reports \cup {clock}

\* recordBrowserViolationAction: a failed request is not sent again.
Report(r) ==
  /\ r \in reports /\ reports' = reports \ {r}
  /\ logged' \in {logged, logged \cup {r}}
  /\ UNCHANGED <<clock, isDesktopEnv, requireFullscreen, inFullscreen, tabHidden, hasExitedFullscreen,
                 fullscreenError, entering, lastReport, infraction, sent, events>>

Event == events < MaxEvents /\ events' = events + 1

\* handleFullscreenChange, and the snapshot of checkIsFullscreen: fullscreen is left, or a
\* resize outside fullscreen.
handleFullscreenChange ==
  /\ Event /\ inFullscreen' = FALSE
  /\ IF Enforced THEN hasExitedFullscreen' = TRUE /\ reportViolationTelemetry
     ELSE UNCHANGED <<hasExitedFullscreen, lastReport, infraction, sent, reports>>
  /\ UNCHANGED <<clock, isDesktopEnv, requireFullscreen, tabHidden, fullscreenError, entering, logged>>

\* handleVisibilityChange: only hiding the tab is an infraction.
handleVisibilityChange ==
  /\ Event /\ tabHidden' = ~tabHidden
  /\ IF Enforced /\ ~tabHidden THEN reportViolationTelemetry
     ELSE UNCHANGED <<lastReport, infraction, sent, reports>>
  /\ UNCHANGED <<clock, isDesktopEnv, requireFullscreen, inFullscreen, hasExitedFullscreen,
                 fullscreenError, entering, logged>>

\* handleWindowBlur, and handleKeyDown for the inspection shortcuts.
handleWindowBlur ==
  /\ Event /\ Enforced /\ reportViolationTelemetry
  /\ UNCHANGED <<clock, isDesktopEnv, requireFullscreen, inFullscreen, tabHidden, hasExitedFullscreen,
                 fullscreenError, entering, logged>>

-----------------------------------------------------------------------------
(* The covering screen.                                                    *)

\* The dialog hides the page.
Covered == Enforced /\ ~inFullscreen

\* enterFullscreenMode: a click anywhere on the dialog.
enterFullscreenMode ==
  /\ Covered /\ ~entering /\ events < MaxEvents
  /\ entering' = TRUE /\ fullscreenError' = FALSE
  /\ UNCHANGED <<clock, isDesktopEnv, requireFullscreen, inFullscreen, tabHidden, hasExitedFullscreen,
                 lastReport, infraction, sent, reports, logged, events>>

\* The browser answers: it does not know fullscreen or refuses, or enters it; then the
\* keyboard may be locked, and the message of the exit goes.
FullscreenAnswer ==
  /\ entering /\ entering' = FALSE
  /\ \/ fullscreenError' = TRUE /\ UNCHANGED <<inFullscreen, hasExitedFullscreen>>
     \/ inFullscreen' = TRUE /\ hasExitedFullscreen' = FALSE /\ UNCHANGED fullscreenError
  /\ UNCHANGED <<clock, isDesktopEnv, requireFullscreen, tabHidden, lastReport, infraction, sent, reports,
                 logged, events>>

\* A contest poll brings another requireFullscreen.
SettingChanges ==
  /\ Event /\ requireFullscreen' = ~requireFullscreen
  /\ UNCHANGED <<clock, isDesktopEnv, inFullscreen, tabHidden, hasExitedFullscreen, fullscreenError,
                 entering, lastReport, infraction, sent, reports, logged>>

TimePasses ==
  /\ clock < MaxNow /\ clock' = clock + 1
  /\ UNCHANGED <<isDesktopEnv, requireFullscreen, inFullscreen, tabHidden, hasExitedFullscreen,
                 fullscreenError, entering, lastReport, infraction, sent, reports, logged, events>>

Init ==
  /\ clock = 1 /\ isDesktopEnv \in BOOLEAN /\ requireFullscreen \in BOOLEAN
  /\ inFullscreen = FALSE /\ tabHidden = FALSE /\ hasExitedFullscreen = FALSE
  /\ fullscreenError = FALSE /\ entering = FALSE
  /\ lastReport = 0 /\ infraction = 0 /\ sent = {} /\ reports = {} /\ logged = {} /\ events = 0

Next ==
  \/ handleFullscreenChange \/ handleVisibilityChange \/ handleWindowBlur
  \/ enterFullscreenMode \/ FullscreenAnswer \/ SettingChanges \/ TimePasses
  \/ \E r \in reports : Report(r)

Spec == Init /\ [][Next]_lockVars

-----------------------------------------------------------------------------
(* Properties.                                                             *)

\* Types.
TypeOK ==
  /\ clock \in 1..MaxNow /\ lastReport \in 0..MaxNow /\ infraction \in 0..MaxNow
  /\ sent \subseteq 1..MaxNow /\ reports \subseteq sent /\ logged \subseteq sent
  /\ hasExitedFullscreen \in BOOLEAN /\ fullscreenError \in BOOLEAN /\ entering \in BOOLEAN

\* "Leaving fullscreen or switching windows is logged to organizers": whatever the rhythm
\* of the infractions, each has a report sent less than two seconds before it, or with it;
\* the throttle never silences a contestant for longer (reportViolationTelemetry).
InfractionNearReport == infraction # 0 => \E r \in sent : r <= infraction /\ infraction - r < Throttle
=============================================================================
