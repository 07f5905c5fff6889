------------------------------- MODULE Portal --------------------------------
(***************************************************************************)
(* The contestant's portal: parts of its pages side by side, and what each *)
(* promises.  None does anything to another's state.                       *)
(***************************************************************************)

-----------------------------------------------------------------------------
(* The leaderboard page.                                                   *)

CONSTANTS Boards, Found, PageSizes, DefaultSize, MyTeam, MaxFlights, MaxFails, MaxBoardEvents
VARIABLES board, leaderboard, flights, inFlight, boardLocked, boardVisible, teamSearch, boardSort,
          boardPage, boardSize, boardFails, boardEvents

Ranks == INSTANCE Leaderboard
ASSUME BoardAssumption == Ranks!BoardConstants

\* The leaderboard shows each team once on some page, and never goes back to older standings.
BoardHolds == []Ranks!NoEmptyPage /\ Ranks!BoardNeverGoesBack

-----------------------------------------------------------------------------
(* The proctoring status.                                                  *)

CONSTANTS MaxChanges, MaxThrows
VARIABLES gate, agent, permission, changes, throws, hidden, seen, resolved, localAccess, timer,
          refreshing

Proctor == INSTANCE ProctorPortal

\* The proctor poll loop neither dies nor doubles, and verified means a healthy agent here.
ProctorHolds == Proctor!PollLoopAlive /\ Proctor!VerifiedMeansAgent

-----------------------------------------------------------------------------
(* What becomes of submissions.                                            *)

CONSTANTS Subs, Start, MaxTries, MaxTests, ChanCap, LatestCap, PollPeriod, MaxLost, MaxReviews,
          MaxLocks
VARIABLES row, zombies, chan, lost, reviews, locks, locked, stream, active, latest, lastResult,
          poll, pollIndex, restore, submitting

Feed == INSTANCE ResultsFeed
ASSUME FeedAssumption == Feed!FeedConstants

\* What the page knows of a submission is one result, which changes only by news, and a
\* submission whose verdict it has is not active, whatever order brings the answers
\* (shouldApplySubmissionProgress).
VerdictsStand == [](Feed!VerdictEndsActivity /\ Feed!RememberedOnce) /\ Feed!NewsOnly

-----------------------------------------------------------------------------
(* The workspace of a problem.                                             *)

CONSTANTS Languages, Default, Starter, Codes, MaxSnaps, MaxSubs, MaxSaves, Histories, Elsewhere
VARIABLES language, code, hasEdited, draft, autosave, snapshots, stored, sync, running, runCooldown,
          request, submitCooldown, submitResult, newestResult, activeHere, subs, recordedResult,
          saves

Work == INSTANCE Workspace
ASSUME WorkAssumption == Work!WorkConstants

\* The history holds each submission once and with the source that was judged, nothing typed
\* is lost when the language changes, and the result panel never waits for nothing.
HistoryHolds ==
  /\ [](Work!OneSnapshotPerSubmission /\ Work!EvaluatingMeansPending)
  /\ Work!SwitchKeepsWork /\ Work!ServerSourceWins

-----------------------------------------------------------------------------
(* The contest's clock.                                                    *)

CONSTANTS Duration, Thresholds, MaxClockTime, MaxCommands, MaxFlight, MaxLatency, MaxFailures
VARIABLES now, contest, commands, failures, page, offset, remaining, ticked, fired, endRefresh,
          alert, visible, flight

Clock == INSTANCE ContestSync WITH toast <- alert, MaxNow <- MaxClockTime
ASSUME ClockAssumption == Clock!ClockConstants

\* The page's clock never closes the contest early, and alerts with the most urgent threshold.
ClockHolds == []Clock!NeverClosesEarly /\ Clock!LoudestAlert

-----------------------------------------------------------------------------
(* The lists of submissions and challenges.                                *)

CONSTANTS Submissions, Searches, ListSizes, FirstSize, Problems, Difficulties, DisabledSorts,
          RefreshGap, MaxListTime
VARIABLES listPage, subSearch, subStatus, subSort, subPage, subSize, isOpen, highlighted, chSearch,
          chStatus, chDifficulty, chSort, contestStatus, opened, lastRefresh, progressSeen,
          progressNow, listTime

Lists == INSTANCE PortalLists
ASSUME ListAssumption == Lists!ListConstants

\* The lists of submissions and challenges show what matches, each row once; the select
\* always has an option highlighted.
ListsAddUp == Lists!SubmissionsListed /\ Lists!ChallengesListed /\ Lists!HighlightInRange

-----------------------------------------------------------------------------
(* The banners, the toasts and the lockdown of the browser.                *)

CONSTANTS ToastTime, RestoredTime, MaxToasts, MaxCloses, MaxBannerChanges, Throttle, MaxNow,
          MaxEvents
VARIABLES isOnline, serverReachable, wasOffline, showRestored, restoredTimers, toast, toastTimers,
          raised, closes, drops,
          clock, isDesktopEnv, requireFullscreen, inFullscreen, tabHidden, hasExitedFullscreen,
          fullscreenError, entering, lastReport, infraction, sent, reports, logged, events

Banner == INSTANCE PortalBanners WITH MaxChanges <- MaxBannerChanges
ASSUME BannerAssumption == Banner!BannerConstants

Lockdown == INSTANCE BrowserLockdown
ASSUME LockdownAssumption == Lockdown!LockdownConstants

\* Banners end, no toast is closed by another's timer, and every infraction is near a report.
BannersHold ==
  [](Banner!RestoredEnds /\ Lockdown!InfractionNearReport) /\ Banner!ToastKeepsItsTime
=============================================================================
