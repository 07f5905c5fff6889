---------------------------- MODULE PortalBanners ----------------------------
(***************************************************************************)
(* The banners of the portal's frame (portal-shell.tsx): the network       *)
(* banner, which says that the connection is lost and, for a while, that   *)
(* it is restored; and the toast, which shows the newest submission alert  *)
(* and, behind it, the newest contest alert, each for a limited time.      *)
(* A step of time is a second.  Timers are kept as sets of remaining       *)
(* times, so that a timer that is not cleared is not forgotten.            *)
(***************************************************************************)
EXTENDS Naturals

CONSTANTS
  ToastTime,     \* seconds a toast stays: [submission |-> 5, contest |-> 6]
  RestoredTime,  \* seconds "Connection Restored." stays
  MaxToasts,     \* bound on the alerts raised
  MaxCloses,     \* bound on the toasts closed by hand
  MaxChanges     \* bound on changes of the network

Kinds == {"submission", "contest"}

\* Toasts and the banner stay for some time.
BannerConstants == ToastTime \in [Kinds -> Nat \ {0}] /\ RestoredTime \in Nat \ {0}

VARIABLES
  isOnline, serverReachable,  \* navigator.onLine, and the proctor poll's news of the server
  wasOffline, showRestored, restoredTimers,
  toast,                      \* seconds shown so far, or <<>>
  toastTimers,
  raised, closes, drops

bannerVars == <<isOnline, serverReachable, wasOffline, showRestored, restoredTimers,
                toast, toastTimers, raised, closes, drops>>
networkVars == <<isOnline, serverReachable, wasOffline, showRestored, restoredTimers, drops>>
toastVars   == <<toast, toastTimers, raised, closes>>

-----------------------------------------------------------------------------
(* The network banner.                                                     *)

Offline(online, reachable) == ~online \/ ~reachable
isOffline == Offline(isOnline, serverReachable)

\* Mutant: the banner that is still up is not put up again.
restoredOnce(offline) ==
  IF wasOffline /\ ~offline
  THEN /\ showRestored' = TRUE /\ UNCHANGED wasOffline
       /\ restoredTimers' = IF showRestored THEN {} ELSE {RestoredTime}
  ELSE /\ wasOffline' = offline /\ restoredTimers' = {} /\ UNCHANGED showRestored

\* The effect that follows a change of isOffline: its predecessor's timer is cleared, and
\* coming back from an outage puts the banner up.
restoredEffect(offline) ==
  IF wasOffline /\ ~offline
  THEN /\ showRestored' = TRUE /\ restoredTimers' = {RestoredTime} /\ UNCHANGED wasOffline
  ELSE /\ wasOffline' = offline /\ restoredTimers' = {} /\ UNCHANGED showRestored

\* The browser goes on- or offline, or the proctor poll finds the server or misses it.
NetworkChanges ==
  /\ drops < MaxChanges /\ drops' = drops + 1
  /\ \/ isOnline' = ~isOnline /\ UNCHANGED serverReachable
     \/ serverReachable' = ~serverReachable /\ UNCHANGED isOnline
  /\ IF Offline(isOnline', serverReachable') # isOffline
     THEN restoredEffect(Offline(isOnline', serverReachable'))
     ELSE UNCHANGED <<wasOffline, showRestored, restoredTimers>>
  /\ UNCHANGED toastVars

\* What the banner says.
NetworkStatusBanner ==
  CASE ~isOnline -> "Network Connection Lost."
    [] isOnline /\ ~serverReachable -> "Contest Server Unreachable."
    [] ~isOffline /\ showRestored -> "Connection Restored."
    [] OTHER -> "none"

\* Retry, outside the desktop client: the page is loaded anew.
Retry ==
  /\ isOffline
  /\ wasOffline' = Offline(isOnline, serverReachable)
  /\ showRestored' = FALSE /\ restoredTimers' = {}
  /\ toast' = [k \in Kinds |-> <<>>] /\ toastTimers' = [k \in Kinds |-> {}]
  /\ UNCHANGED <<isOnline, serverReachable, raised, closes, drops>>

-----------------------------------------------------------------------------
(* The toast.                                                              *)

\* The effect of a new toast clears the timer of the one it replaces.
toastTimersAfter(k) == {ToastTime[k]}

\* A verdict, a failed submission, a warning of the contest: the newest replaces the last
\* of its kind.
Raise(k) ==
  /\ raised < MaxToasts /\ raised' = raised + 1
  /\ toast' = [toast EXCEPT ![k] = <<0>>]
  /\ toastTimers' = [toastTimers EXCEPT ![k] = toastTimersAfter(k)]
  /\ UNCHANGED <<networkVars, closes>>

\* The submission's toast hides the contest's.
activeToast ==
  IF toast["submission"] # <<>> THEN "submission"
  ELSE IF toast["contest"] # <<>> THEN "contest" ELSE "none"

Close ==
  /\ activeToast # "none" /\ closes < MaxCloses /\ closes' = closes + 1
  /\ toast' = [toast EXCEPT ![activeToast] = <<>>]
  /\ toastTimers' = [toastTimers EXCEPT ![activeToast] = {}]
  /\ UNCHANGED <<networkVars, raised>>

\* A second passes: timers run, also that of a toast another one hides.
Second ==
  /\ restoredTimers # {} \/ \E k \in Kinds : toastTimers[k] # {}
  /\ LET fires(k) == 1 \in toastTimers[k]
     IN  /\ toast' = [k \in Kinds |-> IF fires(k) \/ toast[k] = <<>> THEN <<>> ELSE <<toast[k][1] + 1>>]
         /\ toastTimers' = [k \in Kinds |-> {t - 1 : t \in toastTimers[k] \ {1}}]
  /\ showRestored' = (showRestored /\ 1 \notin restoredTimers)
  /\ restoredTimers' = {t - 1 : t \in restoredTimers \ {1}}
  /\ UNCHANGED <<isOnline, serverReachable, wasOffline, raised, closes, drops>>

Init ==
  /\ isOnline \in BOOLEAN /\ serverReachable \in BOOLEAN
  /\ wasOffline = Offline(isOnline, serverReachable)
  /\ showRestored = FALSE /\ restoredTimers = {}
  /\ toast = [k \in Kinds |-> <<>>] /\ toastTimers = [k \in Kinds |-> {}]
  /\ raised = 0 /\ closes = 0 /\ drops = 0

Next ==
  \/ NetworkChanges \/ Retry \/ Close \/ Second
  \/ \E k \in Kinds : Raise(k)

Spec == Init /\ [][Next]_bannerVars

-----------------------------------------------------------------------------
(* Properties.                                                             *)

\* Types.
TypeOK ==
  /\ isOnline \in BOOLEAN /\ serverReachable \in BOOLEAN /\ wasOffline \in BOOLEAN
  /\ showRestored \in BOOLEAN
  /\ \A k \in Kinds : toast[k] = <<>> \/ toast[k][1] \in 0..(ToastTime[k] - 1)

\* "Connection Restored." always has a running timer that ends it, also when the network
\* dropped and came back while an earlier one was still up (the effect on isOffline).
RestoredEnds == NetworkStatusBanner = "Connection Restored." => restoredTimers # {}

\* Time alone takes a toast away only when that toast's own time is over: the timer of a
\* toast that was replaced never closes its successor (the two effects of ToastBanner).
ToastKeepsItsTime ==
  [][closes' = closes /\ ~isOffline => \A k \in Kinds :
       toast[k] # <<>> /\ toast'[k] = <<>> => toast[k][1] + 1 = ToastTime[k]]_bannerVars
=============================================================================
