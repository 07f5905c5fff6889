------------------------------- MODULE Console -------------------------------
(***************************************************************************)
(* The organizers' console and the proctor gate it steers: its pages side  *)
(* by side, and what each promises.  A page does nothing to another's      *)
(* state: what one of them promises is a matter of that page and of the    *)
(* part of the server that it works on.                                    *)
(***************************************************************************)

-----------------------------------------------------------------------------
(* The proctor gate of the contestants' requests.                          *)

CONSTANTS Pollers, TTL, MaxStale, MaxTime, MaxChanges
VARIABLES gateTime, standing, changedAt, changes, gateCache, polls, overdue, answered

Gate == INSTANCE ProctorGate
ASSUME GateAssumption == Gate!GateConstants

-----------------------------------------------------------------------------
(* The monitoring pages.                                                   *)

CONSTANTS Pages, MaxFacts, MaxAnswers, MaxWalks, MaxMisses, Timelines
VARIABLES facts, watched, isAutoRefreshActive, loads, timer, panels, loaded, isRefreshing,
          loadError, walks, misses, entries, momentFilter

Monitor == INSTANCE Monitoring

\* The monitoring console never goes back to older data, its poll neither dies nor doubles,
\* and its Refresh button comes back (useSectionLoader, scheduleNext).
ConsoleHolds == [](Monitor!OneChain /\ Monitor!SpinnerEnds) /\ Monitor!PanelsNeverGoBack

-----------------------------------------------------------------------------
(* The tables of submissions and of the audit log.                         *)

CONSTANTS FirstRows, Filters, RowsPerPage, FirstSize, AuditLimit, MaxVersions, MaxCalls,
          MaxHandlers, MaxClicks, MaxFails
VARIABLES listPage, ledger, ledgerVersion, calls, data, listError, loading, refreshing,
          statusFilter, pageAsked, pageSize, handlers, busyId, reviewTarget, reviewReason,
          reviewing, unstickTarget, selected, inspections, chosen, ownVersion, listFails, clicks

Ledger == INSTANCE AdminSubmissions WITH loadError <- listError
ASSUME LedgerAssumption == Ledger!LedgerConstants

\* The rows of the submissions and of the audit log are a live view of the server's table,
\* which never goes back; once loaded they are those asked for, with the organizer's own
\* changes; the detail dialog is the row chosen.
AdminDataFresh == Ledger!Table!Spec /\ [](Ledger!SettledShowsOwnWork /\ Ledger!DetailIsChosen)

-----------------------------------------------------------------------------
(* The contest's clock and its settings.                                   *)

CONSTANTS Length, FirstConfig, Titles, Windows, DefaultWindow, Period, MaxLag, MaxTimerTime,
          MaxActs, MaxLostOrders
VARIABLES time, event, config, onTimer, shown, shift, left, gone, lastLeft, counted, sound, audio,
          inView, sincePoll, reading, order, dialog, sform, typedSet, acts, lostOrders

Timer == INSTANCE TimerConsole WITH MaxTime <- MaxTimerTime
ASSUME TimerAssumption == Timer!TimerConstants

\* The organizers' countdown is the server's but for the time an answer takes, the projector
\* page is never older than its poll, and what is typed in the settings stays.
TimerHolds == Timer!ClockHonest /\ Timer!PageNeverOld /\ Timer!TypedSettingsKept

-----------------------------------------------------------------------------
(* The pages of users and teams.                                           *)

CONSTANTS Self, OtherAdmins, Roster, FirstTeams, Imports, SingleTeam, Switches, MaxMembers,
          UserSearches, MaxOps, MaxUnsure
VARIABLES accounts, teams, passwords, listed, load, confirm, pending, creds, importOpen,
          importFile, selectedIndices, bulkErrors, ops, unsure

People == INSTANCE AdminRoster
ASSUME RosterAssumption == People!RosterConstants

\* Whatever an organizer selects, an admin account stays as it is, and the newest credential
\* the console shows for an account is its password.
RosterHolds == People!AdminsKept /\ People!NewestCredentialWorks
=============================================================================
