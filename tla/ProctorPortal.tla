---------------------------- MODULE ProctorPortal ----------------------------
(***************************************************************************)
(* How the contestant's portal decides whether it is locked                *)
(* (proctor-provider.tsx, lib/proctor.ts, lib/proctor-gate.ts): it asks    *)
(* the server for the proctor gate's verdict, probes the proctor agent on  *)
(* this machine where the verdict requires it, and combines the two; the   *)
(* pill, the banner and the blocking screen show the outcome               *)
(* (proctor-status.tsx, access-block.tsx).                                 *)
(*                                                                         *)
(* readLocalAgent tries every loopback port, the one that answered last    *)
(* first, so it finds the agent wherever it listens; the ports, texts and  *)
(* figures shown are left out.                                             *)
(***************************************************************************)
EXTENDS Naturals, Sequences

CONSTANTS
  MaxChanges,   \* bound on changes of the gate, the agent and the permission
  MaxThrows     \* bound on requests that fail on their way to the portal's server

\* The gate's verdict: "null" is no answer, "allowed" wants proof of the local agent,
\* "web" is access without an agent; "missing" and "refused" do not allow.
SelfStatuses == {"null", "exempt", "web", "allowed", "missing", "refused"}
Agents       == {"none", "unenrolled", "revoked", "starting", "unhealthy", "healthy"}
Permissions  == {"granted", "prompt", "denied"}
Refreshers   == {"tick", "request"}

VARIABLES
  gate, agent, permission,  \* the world: server, agent, the browser's permission
  changes, throws,
  hidden,                   \* document.hidden
  seen,                     \* the verdict and the agent the state was resolved from
  resolved,
  localAccess,              \* localAccessState
  timer,                    \* the next tick is scheduled
  refreshing                \* the refreshes under way

worldVars  == <<gate, agent, permission, changes>>
proctorVars == <<worldVars, throws, hidden, seen, resolved, localAccess, timer, refreshing>>

-----------------------------------------------------------------------------
(* Resolving.                                                              *)

\* Whether the verdict has to be backed by the agent on this machine.
needsLocalProbe(self) == self \notin {"null", "exempt", "web"}

\* resolve: the code of the lock, or "none" where submissions are allowed.
resolve(self, local) ==
  CASE self \in {"exempt", "web"} -> "none"
    [] local = "unenrolled"       -> "AGENT_MISSING"
    [] local = "revoked"          -> "ENROLLMENT_REVOKED"
    [] local = "starting"         -> "AGENT_STARTING"
    [] local = "unhealthy"        -> "AGENT_UNREACHABLE"
    [] self = "null"              -> "none"
    [] local = "none" /\ self = "allowed" -> "NOT_ATTESTED"
    [] self = "missing"           -> "AGENT_MISSING"
    [] self = "refused"           -> "CLIENT_NOT_ALLOWED"
    [] OTHER                      -> "none"

Code     == resolve(seen.self, seen.local)
degraded == resolved /\ Code # "none"

contestLocked == resolved /\ Code # "none" /\ seen.self # "exempt"

\* seed: the server render's verdict, without the agent, until the first refresh.
seed(self) == [state |-> [self |-> self, local |-> "none"], resolved |-> self \in {"exempt", "web"}]

-----------------------------------------------------------------------------
(* Refreshing.                                                             *)

\* What readLocalAgent reaches.
readLocalAgent(perm) == IF perm = "granted" THEN agent ELSE "none"

\* Mutant: only a visible page schedules the next tick.
rescheduleVisible(p) == timer \/ (p = "tick" /\ ~hidden)

\* tick's finally clause: the loop schedules its next tick.
reschedule(p) == timer \/ p = "tick"

\* The end of refresh.
Finish(p, self, local, access) ==
  /\ seen' = [self |-> self, local |-> local] /\ resolved' = TRUE
  /\ localAccess' = access
  /\ refreshing' = [refreshing EXCEPT ![p] = <<>>]
  /\ timer' = reschedule(p)

\* fetchProctorGate: the server answers.
AnswerSelf(p) ==
  /\ refreshing[p] = <<"sent">>
  /\ refreshing' = [refreshing EXCEPT ![p] = <<"answered", gate>>]
  /\ UNCHANGED <<worldVars, throws, hidden, seen, resolved, localAccess, timer>>

\* The rest of refresh: the agent is probed where the verdict wants it and the browser
\* permits it; only a request of the contestant makes the browser ask for permission.
Continue(p) ==
  /\ Len(refreshing[p]) = 2
  /\ LET self == refreshing[p][2] IN
       \/ /\ ~needsLocalProbe(self)
          /\ Finish(p, self, "none", "not-required")
          /\ UNCHANGED permission
       \/ /\ needsLocalProbe(self) /\ p = "tick" /\ permission # "granted"
          /\ Finish(p, self, "none", permission)
          /\ UNCHANGED permission
       \/ /\ needsLocalProbe(self) /\ (p = "request" \/ permission = "granted")
          /\ permission' \in IF permission = "prompt" THEN {"granted", "denied"} ELSE {permission}
          /\ LET local == readLocalAgent(permission')
             IN  Finish(p, self, local, IF local # "none" THEN "granted"
                                        ELSE IF permission' = "denied" THEN "denied" ELSE "unavailable")
  /\ UNCHANGED <<gate, agent, changes, throws, hidden>>

\* The request to the portal's server fails and refresh throws: the state stays as it is,
\* and tick's finally clause schedules the next tick.
RefreshThrows(p) ==
  /\ refreshing[p] = <<"sent">> /\ throws < MaxThrows /\ throws' = throws + 1
  /\ refreshing' = [refreshing EXCEPT ![p] = <<>>]
  /\ timer' = reschedule(p)
  /\ UNCHANGED <<worldVars, hidden, seen, resolved, localAccess>>

\* Mutant: no tick while the contestant's request is busy.
pollUnrequested == (~hidden \/ degraded) /\ localAccess # "requesting"

\* pollWhileHidden: a degraded page asks also when it is hidden.
mayPoll == ~hidden \/ degraded

\* tick: a hidden page that is not degraded only schedules the next one.
tick ==
  /\ timer /\ refreshing["tick"] = <<>>
  /\ mayPoll
  /\ timer' = FALSE
  /\ refreshing' = [refreshing EXCEPT !["tick"] = <<"sent">>]
  /\ UNCHANGED <<worldVars, throws, hidden, seen, resolved, localAccess>>

\* handleVisibilityChange: a page that becomes visible ticks at once, unless it did so in
\* the last three seconds or a refresh is under way.
handleVisibilityChange ==
  /\ hidden' = ~hidden
  /\ \/ UNCHANGED <<timer, refreshing>>
     \/ /\ hidden /\ timer' = FALSE
        /\ refreshing' = IF refreshing["tick"] = <<>> THEN [refreshing EXCEPT !["tick"] = <<"sent">>]
                         ELSE refreshing
  /\ UNCHANGED <<worldVars, throws, seen, resolved, localAccess>>

-----------------------------------------------------------------------------
(* What is shown, and what the contestant can do about it.                 *)

\* ProctorPill.  Without an agent it also says verified, if the server heard of one lately.
ProctorPill ==
  CASE ~resolved               -> "hidden"
    [] resolved /\ seen.local = "starting" -> "Starting up"
    [] resolved /\ seen.local # "starting" /\ seen.self = "exempt" -> "Exempt"
    [] resolved /\ seen.local # "starting" /\ Code # "none" -> "Locked"
    [] resolved /\ Code = "none" /\ seen.self = "null" -> "Network Unstable"
    [] resolved /\ Code = "none" /\ seen.self = "web"  -> "Browser Access"
    [] OTHER -> "Active & Verified"

\* AccessBlockScreen covers the portal once the contest has started; it offers to reload,
\* and to ask for access to the agent where none was seen.
canRequestLocalAccess == contestLocked /\ seen.local = "none" /\ localAccess # "not-required"

\* ProctorLockBanner offers the same request for a missing proof, and else to reload.
BannerRequests == contestLocked /\ Code = "NOT_ATTESTED"

\* Both buttons are disabled while a request is under way.
requestLocalAccess ==
  /\ canRequestLocalAccess \/ BannerRequests
  /\ localAccess # "requesting" /\ refreshing["request"] = <<>>
  /\ localAccess' = "requesting"
  /\ refreshing' = [refreshing EXCEPT !["request"] = <<"sent">>]
  /\ UNCHANGED <<worldVars, throws, hidden, seen, resolved, timer>>

\* The page is loaded anew, seeded by the gate's verdict of that moment.
Load ==
  /\ seen' = seed(gate).state /\ resolved' = seed(gate).resolved /\ localAccess' = "checking"
  /\ refreshing' = [p \in Refreshers |-> IF p = "tick" /\ ~hidden THEN <<"sent">> ELSE <<>>]
  /\ timer' = hidden
  /\ UNCHANGED <<worldVars, throws, hidden>>

\* Retry connection, of the blocking screen.
Reload == contestLocked /\ localAccess # "requesting" /\ Load

\* Re-verify Status, of the pill's details, which say what the pill says.
Reverify == ProctorPill # "hidden" /\ Load

\* The gate decides anew, the agent starts, stops or loses its enrolment, the contestant
\* changes the browser's permission.
WorldChanges ==
  /\ changes < MaxChanges /\ changes' = changes + 1
  /\ \/ gate' \in SelfStatuses \ {gate} /\ UNCHANGED <<agent, permission>>
     \/ agent' \in Agents \ {agent} /\ UNCHANGED <<gate, permission>>
     \/ permission' \in Permissions \ {permission} /\ UNCHANGED <<gate, agent>>
  /\ UNCHANGED <<throws, hidden, seen, resolved, localAccess, timer, refreshing>>

Init ==
  /\ gate \in SelfStatuses /\ agent \in {"none", "starting", "healthy"} /\ permission \in {"granted", "prompt"}
  /\ changes = 0 /\ throws = 0 /\ hidden \in BOOLEAN
  /\ seen = seed(gate).state /\ resolved = seed(gate).resolved /\ localAccess = "checking"
  /\ timer = hidden
  /\ refreshing = [p \in Refreshers |-> IF p = "tick" /\ ~hidden THEN <<"sent">> ELSE <<>>]

Next ==
  \/ tick \/ handleVisibilityChange \/ requestLocalAccess \/ Reload \/ Reverify \/ WorldChanges
  \/ \E p \in Refreshers : AnswerSelf(p) \/ Continue(p) \/ RefreshThrows(p)

(* The loop's timer fires and its requests end; a request of the contestant may hang.    *)
Fairness ==
  /\ WF_proctorVars(tick)
  /\ WF_proctorVars(AnswerSelf("tick")) /\ WF_proctorVars(Continue("tick"))

Spec == Init /\ [][Next]_proctorVars /\ Fairness

-----------------------------------------------------------------------------
(* Properties.                                                             *)

\* Types.
TypeOK ==
  /\ gate \in SelfStatuses /\ agent \in Agents /\ permission \in Permissions
  /\ seen \in [self : SelfStatuses, local : Agents]
  /\ localAccess \in {"checking", "not-required", "requesting", "unavailable"} \cup Permissions
  /\ resolved \in BOOLEAN /\ timer \in BOOLEAN /\ hidden \in BOOLEAN

\* The poll loop never dies and never doubles: there is always either one timer or one
\* refresh of the loop, whatever the order of timers, visibility changes, failures and
\* requests (tick, handleVisibilityChange).
PollLoopAlive == timer <=> refreshing["tick"] = <<>>

\* The portal shows "Active & Verified" only where a healthy agent on this machine has
\* backed the server's word: no window is verified on the server's word alone.
VerifiedMeansAgent ==
  ProctorPill = "Active & Verified" => seen.self = "allowed" /\ seen.local = "healthy"

\* Once the gate allows and the agent is healthy and within reach, the portal unlocks and
\* stays unlocked - also in a hidden tab, and although a request of the contestant and
\* the loop may overtake each other with older verdicts.
MayUnlock == gate = "allowed" /\ agent = "healthy" /\ permission = "granted"

PortalUnlocks == <>[]MayUnlock => <>[](~contestLocked)

\* "Allow local access" does not stay busy: also when its own request fails, the loop's
\* next refresh ends it.
RequestEnds == localAccess = "requesting" ~> localAccess # "requesting"
=============================================================================
