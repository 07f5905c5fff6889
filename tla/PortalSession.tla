---------------------------- MODULE PortalSession ----------------------------
(***************************************************************************)
(* A contestant's session in the browser: signing in (login-form.tsx,      *)
(* packages/auth/src/actions.ts), the account menu and sign-out            *)
(* (user-account-menu.tsx, sign-out-button.tsx, top-nav.tsx), the change   *)
(* of the password (change-password-dialog.tsx), leaving the contest from  *)
(* the desktop client (desktop-window-controls.tsx), and what the server   *)
(* keeps (session/repository.go, api/auth.go, api/telemetry.go).           *)
(*                                                                         *)
(* One account with a numbered password, several browsers.  A session is   *)
(* its token; passwords are right or wrong, and a new one is acceptable    *)
(* or not.                                                                 *)
(***************************************************************************)
EXTENDS Naturals, FiniteSets

CONSTANTS
  Browsers,
  Desktop,       \* the browsers that are the desktop client
  Clicked,       \* the browsers whose menus are used; in the others one only signs in
  MaxTokens,     \* bound on sessions created
  MaxPasswords,  \* bound on changes of the password
  MaxLosses      \* bound on requests that fail

VARIABLES
  password,      \* the account's password
  sessions,      \* the tokens the server accepts
  issued,        \* tokens created so far
  prior,          \* the last token that a sign-in under way found when it deleted
  excluded,      \* the contestant left and was not admitted again
  cookie,        \* the token in the browser's cookie, 0 is none
  screen,        \* "login", "portal", or "gone" for a closed desktop client
  request,       \* what the browser waits for
  menu,          \* the account menu: "closed", "open", "confirm"
  dialog,        \* the password dialog: "closed", "open", "updated", "error"
  logoutTimer,   \* the timer a changed password started
  leaving,       \* the exit dialog: "none", "asked", "leaving"
  mobileOpen,    \* the drawer of a narrow window
  losses

serverVars  == <<password, sessions, issued, prior, excluded>>
sessionVars == <<serverVars, cookie, screen, request, menu, dialog, logoutTimer, leaving, mobileOpen, losses>>

Lose == losses < MaxLosses /\ losses' = losses + 1

Put(f, b, x) == [f EXCEPT ![b] = x]

\* The browser shows `to`: off the portal, its menu and dialogs are gone, its timers and
\* requests are not.
Show(b, to) ==
  /\ screen' = Put(screen, b, to)
  /\ IF to = "portal" THEN UNCHANGED <<menu, dialog, leaving, mobileOpen>>
     ELSE /\ menu' = Put(menu, b, "closed") /\ dialog' = Put(dialog, b, "closed")
          /\ leaving' = Put(leaving, b, "none") /\ mobileOpen' = Put(mobileOpen, b, FALSE)

-----------------------------------------------------------------------------
(* Signing in.                                                             *)

\* handleFormSubmit: the form is disabled while it waits.
handleFormSubmit(b) ==
  /\ screen[b] = "login" /\ request[b] = "none"
  /\ request' = Put(request, b, "login")
  /\ UNCHANGED <<serverVars, cookie, screen, menu, dialog, logoutTimer, leaving, mobileOpen, losses>>

\* login, first half: the password is checked (it was typed before any change under way).
LoginCheck(b) ==
  /\ request[b] = "login"
  /\ request' \in {Put(request, b, "checked"), Put(request, b, "none")}
  /\ UNCHANGED <<serverVars, cookie, screen, menu, dialog, logoutTimer, leaving, mobileOpen, losses>>

\* Create, one transaction: the DELETE finds the contestant's sessions of this moment ...
CreateDeletes(b) ==
  /\ request[b] = "checked"
  /\ prior' = Put(prior, b, issued) /\ request' = Put(request, b, "deleted")
  /\ UNCHANGED <<password, sessions, issued, excluded, cookie, screen, menu, dialog, logoutTimer,
                 leaving, mobileOpen, losses>>

\* ... and the commit removes them and adds the new one: of two sign-ins at once neither
\* removes the other's.  The browser keeps the token, unless the answer is lost or the
\* account has another role.
CreateCommits(b) ==
  /\ request[b] = "deleted" /\ issued < MaxTokens
  /\ issued' = issued + 1 /\ prior' = Put(prior, b, 0)
  /\ sessions' = {t \in sessions : t > prior[b]} \cup {issued + 1}
  /\ request' = Put(request, b, "none")
  /\ \/ /\ cookie' = Put(cookie, b, issued + 1) /\ screen' = Put(screen, b, "portal")
        /\ UNCHANGED losses
     \/ Lose /\ UNCHANGED <<cookie, screen>>
  /\ UNCHANGED <<password, excluded, menu, dialog, logoutTimer, leaving, mobileOpen>>

\* proxy and PortalLayout: without a cookie, or with one the server does not accept (or
\* cannot say), a guarded page redirects to the login.
Navigate(b) ==
  /\ screen[b] = "portal"
  /\ \/ cookie[b] \notin sessions /\ UNCHANGED losses
     \/ Lose
  /\ Show(b, "login")
  /\ UNCHANGED <<serverVars, cookie, request, logoutTimer>>

\* handleReload: the page is loaded anew, and forgets its timers and what it waits for.
handleReload(b) ==
  /\ screen[b] = "portal" /\ b \notin Desktop
  /\ screen' = Put(screen, b, IF cookie[b] \in sessions THEN "portal" ELSE "login")
  /\ request' = Put(request, b, "none") /\ menu' = Put(menu, b, "closed")
  /\ dialog' = Put(dialog, b, "closed") /\ logoutTimer' = Put(logoutTimer, b, FALSE)
  /\ leaving' = Put(leaving, b, "none") /\ mobileOpen' = Put(mobileOpen, b, FALSE)
  /\ UNCHANGED <<serverVars, cookie, losses>>

-----------------------------------------------------------------------------
(* The menu and sign-out.                                                  *)

\* UserAccountMenu and the drawer of TopNav: open, ask for confirmation, close.
MenuClick(b) ==
  /\ screen[b] = "portal" /\ b \in Clicked
  /\ \/ menu' = Put(menu, b, IF menu[b] = "closed" THEN "open" ELSE "closed") /\ UNCHANGED mobileOpen
     \/ menu[b] = "open" /\ b \in Desktop /\ menu' = Put(menu, b, "confirm") /\ UNCHANGED mobileOpen
     \/ menu[b] = "confirm" /\ request[b] # "logout" /\ menu' = Put(menu, b, "open") /\ UNCHANGED mobileOpen
     \/ mobileOpen' = Put(mobileOpen, b, ~mobileOpen[b]) /\ UNCHANGED menu
  /\ UNCHANGED <<serverVars, cookie, screen, request, dialog, logoutTimer, leaving, losses>>

\* The sign-out item: the desktop client asks for confirmation first, in the menu as in
\* the drawer (SignOutButton).
canSignOut(b) == menu[b] = (IF b \in Desktop THEN "confirm" ELSE "open") \/ mobileOpen[b]

handleSignOut(b) ==
  /\ screen[b] = "portal" /\ request[b] = "none" /\ canSignOut(b)
  /\ request' = Put(request, b, "logout")
  /\ UNCHANGED <<serverVars, cookie, screen, menu, dialog, logoutTimer, leaving, mobileOpen, losses>>

\* revokeUserSession: the server deletes the session of the cookie, unless the request is
\* lost; the cookie is deleted in either case.
revokeUserSession(b) ==
  /\ \/ sessions' = sessions \ {cookie[b]} /\ UNCHANGED losses
     \/ Lose /\ UNCHANGED sessions
  /\ cookie' = Put(cookie, b, 0)

\* The rest of handleSignOut: the desktop client closes, a browser goes to the login page.
SignedOut(b) ==
  /\ request[b] = "logout"
  /\ revokeUserSession(b)
  /\ Show(b, IF b \in Desktop THEN "gone" ELSE "login")
  /\ request' = Put(request, b, "none")
  /\ UNCHANGED <<password, issued, prior, excluded, logoutTimer>>

-----------------------------------------------------------------------------
(* The password.                                                           *)

OpenPasswordDialog(b) ==
  /\ screen[b] = "portal" /\ dialog[b] = "closed"
  /\ menu[b] = "open" \/ mobileOpen[b]
  /\ dialog' = Put(dialog, b, "open") /\ menu' = Put(menu, b, "closed")
  /\ mobileOpen' = Put(mobileOpen, b, FALSE)
  /\ UNCHANGED <<serverVars, cookie, screen, request, logoutTimer, leaving, losses>>

\* The timer does not belong to the dialog.
timerKept(b) == logoutTimer

\* handleClose, unless the dialog waits.
handleClose(b) ==
  /\ dialog[b] # "closed" /\ request[b] # "password"
  /\ dialog' = Put(dialog, b, "closed") /\ logoutTimer' = timerKept(b)
  /\ UNCHANGED <<serverVars, cookie, screen, request, menu, leaving, mobileOpen, losses>>

\* handleSubmit: a new password that is too short, not repeated or the old one is refused
\* at once; submitting again is possible also after a success.
handleSubmit(b) ==
  /\ screen[b] = "portal" /\ dialog[b] # "closed" /\ request[b] = "none"
  /\ \/ dialog' = Put(dialog, b, "error") /\ UNCHANGED request
     \/ dialog' = Put(dialog, b, "open") /\ request' = Put(request, b, "password")
  /\ UNCHANGED <<serverVars, cookie, screen, menu, logoutTimer, leaving, mobileOpen, losses>>

\* A message of the dialog, if it is still there.
Message(b, text) == dialog' = IF dialog[b] = "closed" THEN dialog ELSE Put(dialog, b, text)

\* changePassword: of a valid session with the right current password; all sessions of the
\* account go, also this one.  The dialog then logs out after 1.2 seconds.
changeUserPassword(b) ==
  /\ request[b] = "password"
  /\ request' = Put(request, b, "none")
  /\ \/ /\ cookie[b] \in sessions /\ password < MaxPasswords
        /\ password' = password + 1 /\ sessions' = {}
        /\ \/ Message(b, "updated") /\ logoutTimer' = Put(logoutTimer, b, TRUE) /\ UNCHANGED losses
           \/ Lose /\ Message(b, "error") /\ UNCHANGED logoutTimer
     \/ Message(b, "error") /\ UNCHANGED <<password, sessions, logoutTimer, losses>>
  /\ UNCHANGED <<issued, prior, excluded, cookie, screen, menu, leaving, mobileOpen>>

\* The timer: it logs out whatever session the cookie holds by then.
LogoutTimer(b) ==
  /\ logoutTimer[b] /\ screen[b] # "gone"
  /\ revokeUserSession(b)
  /\ logoutTimer' = Put(logoutTimer, b, FALSE)
  /\ Show(b, IF b \in Desktop THEN "gone" ELSE "login")
  /\ UNCHANGED <<password, issued, prior, excluded, request>>

-----------------------------------------------------------------------------
(* Leaving, in the desktop client.                                         *)

\* handleRequestExit: the desktop shell closes the window or asks itself; where it does
\* not answer, the page asks.
handleRequestExit(b) ==
  /\ b \in Desktop /\ screen[b] = "portal" /\ leaving[b] = "none"
  /\ \/ Show(b, "gone")
     \/ leaving' = Put(leaving, b, "asked") /\ UNCHANGED <<screen, menu, dialog, mobileOpen>>
  /\ UNCHANGED <<serverVars, cookie, request, logoutTimer, losses>>

CancelExit(b) ==
  /\ leaving[b] = "asked" /\ leaving' = Put(leaving, b, "none")
  /\ UNCHANGED <<serverVars, cookie, screen, request, menu, dialog, logoutTimer, mobileOpen, losses>>

\* handleConfirmLeave: the server excludes the contestant, where the request reaches it;
\* the shell quits or the window closes, or neither: then the dialog stays busy.
handleConfirmLeave(b) ==
  /\ leaving[b] = "asked"
  /\ \/ excluded' = (excluded \/ cookie[b] \in sessions) /\ UNCHANGED losses
     \/ Lose /\ UNCHANGED excluded
  /\ \/ Show(b, "gone")
     \/ leaving' = Put(leaving, b, "leaving") /\ UNCHANGED <<screen, menu, dialog, mobileOpen>>
  /\ UNCHANGED <<password, sessions, issued, prior, cookie, request, logoutTimer>>

\* An administrator admits the contestant again.
readmitContestant ==
  /\ excluded /\ excluded' = FALSE
  /\ UNCHANGED <<password, sessions, issued, prior, cookie, screen, request, menu, dialog, logoutTimer,
                 leaving, mobileOpen, losses>>

Init ==
  /\ password = 1 /\ sessions = {} /\ issued = 0 /\ excluded = FALSE
  /\ prior = [b \in Browsers |-> 0]
  /\ cookie = [b \in Browsers |-> 0] /\ screen = [b \in Browsers |-> "login"]
  /\ request = [b \in Browsers |-> "none"] /\ menu = [b \in Browsers |-> "closed"]
  /\ dialog = [b \in Browsers |-> "closed"] /\ logoutTimer = [b \in Browsers |-> FALSE]
  /\ leaving = [b \in Browsers |-> "none"] /\ mobileOpen = [b \in Browsers |-> FALSE]
  /\ losses = 0

Next ==
  \/ \E b \in Browsers :
       \/ handleFormSubmit(b) \/ LoginCheck(b) \/ CreateDeletes(b) \/ CreateCommits(b)
       \/ Navigate(b) \/ handleReload(b) \/ MenuClick(b) \/ handleSignOut(b) \/ SignedOut(b)
       \/ OpenPasswordDialog(b) \/ handleClose(b) \/ handleSubmit(b) \/ changeUserPassword(b)
       \/ LogoutTimer(b) \/ handleRequestExit(b) \/ CancelExit(b) \/ handleConfirmLeave(b)
  \/ readmitContestant

(* The timer fires.                                                        *)
Fairness == \A b \in Browsers : WF_sessionVars(LogoutTimer(b))

Spec == Init /\ [][Next]_sessionVars /\ Fairness

-----------------------------------------------------------------------------
(* Properties.                                                             *)

\* Types.
TypeOK ==
  /\ password \in 1..MaxPasswords /\ sessions \subseteq 1..issued /\ issued \in 0..MaxTokens
  /\ cookie \in [Browsers -> 0..issued] /\ prior \in [Browsers -> 0..issued]
  /\ excluded \in BOOLEAN
  /\ request \in [Browsers -> {"none", "login", "checked", "deleted", "logout", "password"}]
  /\ screen \in [Browsers -> {"login", "portal", "gone"}]

\* A browser that says "Password updated. Logging out..." leaves the portal, whatever the
\* contestant clicks meanwhile: closes the dialog, submits it again, opens the menu
\* (the timer of handleSubmit).
PasswordChangeLogsOut ==
  \A b \in Browsers : dialog[b] = "updated" ~> screen[b] # "portal"
=============================================================================
