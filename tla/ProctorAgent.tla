---------------------------- MODULE ProctorAgent ----------------------------
(***************************************************************************)
(* One contestant's proctor agent and the server it reports to.  The       *)
(* desktop agent (competitor-desktop/src-tauri/src/agent) has one request  *)
(* on its way at a time, because its loop, signing out, leaving and        *)
(* enrolling share the lock `reporting`; but a request it gave up on may   *)
(* still be served, later.  The server (backend/internal/agent) reads the  *)
(* enrolment when it checks the token and updates it in a statement of its *)
(* own.  An enrolment is named by its place in `agents`; a boot is a       *)
(* number, compared for equality only.  Signals, findings and the nonce    *)
(* are left out, and so is what a replayed heartbeat adds to the log.      *)
(***************************************************************************)
EXTENDS Naturals, Sequences, FiniteSets

CONSTANTS
  BufferCapacity,  \* heartbeats kept while the server cannot be reached
  MaxEnrolments,   \* bound on enrolments of the contestant
  MaxLost,         \* bound on requests the agent gives up on
  MaxBeats,        \* bound on heartbeats that tell the server nothing new
  MaxDeeds         \* bound on starts, exits, failures and organizers' orders

\* The buffer's capacity is a number (BUFFER_CAPACITY).
AgentConstants == BufferCapacity \in Nat

VARIABLES
  agents,      \* the contestant's rows of proctor_agents, oldest first
  process,     \* the agent: "off", "on", "signing" out or "stopping"
  bootId,      \* boot_id of AgentState
  seqNo,       \* seq of AgentState
  enrollment,  \* the enrolment whose token is in its file, or 0
  revoked,     \* the agent was told that its credential is revoked
  rejections,  \* consecutive_rejections
  acked,       \* the last heartbeat that ended was acknowledged
  requests,    \* requests the agent waits for or has given up on
  buffer,      \* how many heartbeats the buffer holds in memory
  disk,        \* and how many its file holds
  lost, beats, deeds

agentVars  == <<process, bootId, seqNo, enrollment, revoked, rejections, acked, buffer, disk>>
boundVars  == <<lost, beats, deeds>>
vars       == <<agents, agentVars, requests, boundVars>>

-----------------------------------------------------------------------------
(* The server.                                                             *)

\* An enrolment no heartbeat has reached; 0 stands for no boot.
NewRow == [boot |-> 0, seq |-> 0, stopped |-> FALSE, revoked |-> FALSE]

Answers == {"accepted", "refused", "gone"}

\* A request's stages: sent, admitted once its token was good, then its answer.
Admitted(r) ==
  LET row == agents[r.agent]
      seqReplay == r.kind = "beat" /\ row.boot = r.boot /\ r.seq <= row.seq
  IN CASE row.revoked -> "gone"
       [] ~row.revoked /\ seqReplay -> "refused"
       [] OTHER -> "admitted"

\* The agent hears the answer only to a request it still waits for.
Proceed(r, stage) ==
  requests' = (requests \ {r}) \cup
                (IF stage \in Answers /\ ~r.waited THEN {} ELSE {[r EXCEPT !.stage = stage]})

\* requireAgent and, for a heartbeat, Classify on the row it read.
Admit(r) ==
  /\ r.stage = "sent"
  /\ Proceed(r, Admitted(r))
  /\ UNCHANGED <<agents, agentVars, boundVars>>

\* Mutant: any heartbeat brings a stopped agent back.
updatesAlways(row, r) == TRUE

\* The guard of RecordHeartbeat's update: a stopped agent comes back by another boot.
updates(row, r) == ~row.stopped \/ row.boot # r.boot

higher(a, b) == IF a > b THEN a ELSE b
recorded(row, r) ==
  [row EXCEPT !.boot = r.boot, !.stopped = FALSE,
              !.seq = IF row.boot # r.boot THEN r.seq ELSE higher(row.seq, r.seq)]

RecordHeartbeat(r) ==
  LET row == agents[r.agent]
  IN /\ r.stage = "admitted" /\ r.kind = "beat"
     /\ IF updates(row, r)
        THEN agents' = [agents EXCEPT ![r.agent] = recorded(row, r)] /\ Proceed(r, "accepted")
        ELSE agents' = agents /\ Proceed(r, "refused")
     /\ UNCHANGED <<agentVars, boundVars>>

MarkStopped(r) ==
  /\ r.stage = "admitted" /\ r.kind = "stop"
  /\ agents' = [agents EXCEPT ![r.agent].stopped = TRUE]
  /\ Proceed(r, "accepted")
  /\ UNCHANGED <<agentVars, boundVars>>

\* Buffered heartbeats go to the log and leave the row as it is.
Replay(r) ==
  /\ r.stage = "admitted" /\ r.kind = "flush"
  /\ Proceed(r, "accepted")
  /\ UNCHANGED <<agents, agentVars, boundVars>>

\* Enroll: the live enrolment is superseded and a new one inserted, in one transaction; of two
\* at once the second one meets the unique index and changes nothing.
superseded == [i \in DOMAIN agents |-> [agents[i] EXCEPT !.revoked = TRUE]]
enrolled == Append(superseded, NewRow)

Deed == deeds < MaxDeeds /\ deeds' = deeds + 1

\* An organizer revokes the credential, or the contestant leaves the contest in the portal.
Revoke ==
  /\ Deed
  /\ \E i \in DOMAIN agents : agents' = [agents EXCEPT ![i].revoked = TRUE]
  /\ UNCHANGED <<agentVars, requests, lost, beats>>

\* UnrevokeAgent makes every row of the contestant live, in one statement: with more than one
\* row the unique index refuses it, and restoreUserAccess drops the error.
readmitted ==
  IF Len(agents) = 1
  THEN <<[agents[1] EXCEPT !.revoked = FALSE, !.stopped = FALSE]>>
  ELSE agents

Readmit ==
  /\ Deed
  /\ agents' = readmitted
  /\ UNCHANGED <<agentVars, requests, lost, beats>>

-----------------------------------------------------------------------------
(* The agent.                                                              *)

Request(kind, seq) ==
  [kind |-> kind, agent |-> enrollment, boot |-> bootId, seq |-> seq,
   count |-> IF kind = "flush" THEN buffer ELSE 0, stage |-> "sent", waited |-> TRUE]

Waited == {r \in requests : r.waited}
lockFree == Waited = {}

\* rotate_boot.  It leaves consecutive_rejections as it is.
RotateBoot == bootId' = bootId + 1 /\ seqNo' = 0
SameBoot == UNCHANGED <<bootId, seqNo>>

\* The process starts with what its files hold.
Start ==
  /\ process = "off" /\ lockFree /\ Deed
  /\ process' = "on"
  /\ RotateBoot
  /\ rejections' = 0 /\ revoked' = FALSE /\ acked' = FALSE /\ buffer' = disk
  /\ UNCHANGED <<agents, enrollment, requests, disk, lost, beats>>

\* The computer fails or the process is killed; its request may still be served.
Crash ==
  /\ process # "off" /\ Deed
  /\ process' = "off"
  /\ \E served \in BOOLEAN :
       requests' = (requests \ Waited) \cup
         {[r EXCEPT !.waited = FALSE] : r \in {w \in Waited : served /\ w.stage \notin Answers}}
  /\ UNCHANGED <<agents, bootId, seqNo, enrollment, revoked, rejections, acked, buffer, disk, lost, beats>>

\* The server knows all there is to know of this agent.
UpToDate ==
  LET row == agents[enrollment]
  IN acked /\ row.boot = bootId /\ ~row.stopped /\ ~row.revoked

\* A tick of the loop that is due, or was forced.
SendHeartbeat ==
  /\ process = "on" /\ lockFree /\ enrollment # 0 /\ ~revoked
  /\ IF UpToDate THEN beats < MaxBeats /\ beats' = beats + 1 ELSE beats' = beats
  /\ seqNo' = seqNo + 1
  /\ requests' = requests \cup {Request("beat", seqNo + 1)}
  /\ UNCHANGED <<agents, process, bootId, enrollment, revoked, rejections, acked, buffer, disk,
                 lost, deeds>>

\* What is in the buffer follows an acknowledged heartbeat; buffer_take empties the memory and
\* leaves the file.
flushes == process = "on" /\ buffer > 0

Acknowledged(r) ==
  /\ r.stage = "accepted"
  /\ acked' = TRUE /\ rejections' = 0
  /\ requests' = (requests \ {r}) \cup (IF flushes THEN {Request("flush", seqNo)} ELSE {})
  /\ buffer' = IF flushes THEN 0 ELSE buffer
  /\ SameBoot /\ UNCHANGED <<revoked, disk>>

Dismissed(r) ==
  /\ r.stage = "gone"
  /\ revoked' = TRUE /\ acked' = FALSE
  /\ requests' = requests \ {r}
  /\ SameBoot /\ UNCHANGED <<rejections, buffer, disk>>

\* Twice in a row: the agent goes on as another boot.
givesUpBoot == rejections + 1 >= 2

Rejected(r) ==
  /\ r.stage = "refused"
  /\ rejections' = rejections + 1 /\ acked' = FALSE
  /\ IF givesUpBoot THEN RotateBoot ELSE SameBoot
  /\ requests' = requests \ {r}
  /\ UNCHANGED <<revoked, buffer, disk>>

HeartbeatEnds(r) ==
  /\ r.waited /\ r.kind = "beat"
  /\ Acknowledged(r) \/ Dismissed(r) \/ Rejected(r)
  /\ UNCHANGED <<agents, process, enrollment, boundVars>>

\* The agent gives up on a request, or is answered with an error; it may still be served.
lesser(a, b) == IF a < b THEN a ELSE b

GivesUp(r) ==
  /\ r.waited /\ lost < MaxLost
  /\ lost' = lost + 1
  /\ \E served \in BOOLEAN :
       requests' = (requests \ {r}) \cup
         (IF served /\ r.stage \notin Answers THEN {[r EXCEPT !.waited = FALSE]} ELSE {})

\* buffer_push: the oldest one makes room, and the file follows.
HeartbeatLost(r) ==
  /\ r.kind = "beat" /\ GivesUp(r)
  /\ acked' = FALSE
  /\ buffer' = lesser(buffer + 1, BufferCapacity) /\ disk' = buffer'
  /\ UNCHANGED <<agents, process, bootId, seqNo, enrollment, revoked, rejections, beats, deeds>>

\* Replayed, the batch is done with; revoked or not answered, it goes back (buffer_restore).
restored(r) == lesser(buffer + r.count, BufferCapacity)

FlushEnds(r) ==
  /\ r.kind = "flush"
  /\ \/ r.waited /\ r.stage = "accepted"
        /\ requests' = requests \ {r} /\ buffer' = 0 /\ disk' = 0 /\ lost' = lost
     \/ r.waited /\ r.stage = "gone"
        /\ requests' = requests \ {r} /\ buffer' = restored(r) /\ disk' = buffer' /\ lost' = lost
     \/ GivesUp(r) /\ buffer' = restored(r) /\ disk' = buffer'
  /\ UNCHANGED <<agents, process, bootId, seqNo, enrollment, revoked, rejections, acked, beats, deeds>>

\* An enrolment from this machine, whose answer may be lost, and one from another machine.
Enroll ==
  /\ process = "on" /\ lockFree /\ Len(agents) < MaxEnrolments
  /\ agents' = enrolled
  /\ \/ enrollment' = Len(agents') /\ revoked' = FALSE /\ lost' = lost
     \/ lost < MaxLost /\ lost' = lost + 1 /\ UNCHANGED <<enrollment, revoked>>
  /\ UNCHANGED <<process, bootId, seqNo, rejections, acked, requests, buffer, disk, beats, deeds>>

EnrollElsewhere ==
  /\ Len(agents) < MaxEnrolments /\ Deed
  /\ agents' = enrolled
  /\ UNCHANGED <<agentVars, requests, lost, beats>>

\* sign_out and request_exit announce themselves before they wait for the lock.
Leave(state) ==
  /\ process = "on" /\ Deed
  /\ process' = state
  /\ UNCHANGED <<agents, bootId, seqNo, enrollment, revoked, rejections, acked, requests, buffer, disk,
                 lost, beats>>

ReportShutdown ==
  /\ process \in {"signing", "stopping"} /\ lockFree /\ enrollment # 0
  /\ requests' = requests \cup {Request("stop", seqNo)}
  /\ UNCHANGED <<agents, agentVars, boundVars>>

SignedOut ==
  /\ process = "signing" /\ process' = "on"
  /\ enrollment' = 0 /\ revoked' = FALSE /\ acked' = FALSE /\ buffer' = 0 /\ disk' = 0
  /\ RotateBoot
  /\ UNCHANGED <<rejections, deeds>>

\* The file of the enrolment cannot be removed.
SignOutFails ==
  /\ process = "signing" /\ process' = "on" /\ enrollment # 0 /\ Deed
  /\ revoked' = TRUE
  /\ SameBoot /\ UNCHANGED <<enrollment, acked, buffer, disk, rejections>>

\* config::reset removes every file.
Exited ==
  /\ process = "stopping" /\ process' = "off"
  /\ enrollment' = 0 /\ buffer' = 0 /\ disk' = 0
  /\ SameBoot /\ UNCHANGED <<revoked, acked, rejections, deeds>>

\* The shutdown's answer is ignored, whatever it is; without an enrolment none is sent.
Left ==
  /\ SignedOut \/ SignOutFails \/ Exited
  /\ \/ \E r \in Waited : /\ r.kind = "stop"
                          /\ \/ r.stage \in Answers /\ requests' = requests \ {r} /\ lost' = lost
                             \/ GivesUp(r)
     \/ lockFree /\ enrollment = 0 /\ UNCHANGED <<requests, lost>>
  /\ UNCHANGED <<agents, beats>>

-----------------------------------------------------------------------------
\* An enrolled agent that has just started.
Init ==
  /\ agents = <<NewRow>> /\ process = "on" /\ bootId = 1 /\ seqNo = 0 /\ enrollment = 1
  /\ revoked = FALSE /\ rejections = 0 /\ acked = FALSE /\ requests = {}
  /\ buffer = 0 /\ disk = 0 /\ lost = 0 /\ beats = 0 /\ deeds = 0

Serve == \E r \in requests : Admit(r) \/ RecordHeartbeat(r) \/ MarkStopped(r) \/ Replay(r)
Hear == \E r \in requests : HeartbeatEnds(r) \/ HeartbeatLost(r) \/ FlushEnds(r)
Command == Start \/ Crash \/ Enroll \/ EnrollElsewhere \/ Revoke \/ Readmit
           \/ Leave("signing") \/ Leave("stopping")

Next == Serve \/ Hear \/ SendHeartbeat \/ ReportShutdown \/ Left \/ Command

\* The server serves, answers arrive, and the loop ticks; nothing else has to happen.
Fairness == WF_vars(Serve) /\ WF_vars(Hear) /\ WF_vars(SendHeartbeat)
Spec == Init /\ [][Next]_vars /\ Fairness

-----------------------------------------------------------------------------
(* Properties.                                                             *)

\* Types of the rows, of the agent and of the requests.
TypeOK ==
  /\ \A i \in DOMAIN agents :
       agents[i] \in [boot : 0..bootId, seq : Nat, stopped : BOOLEAN, revoked : BOOLEAN]
  /\ process \in {"off", "on", "signing", "stopping"} /\ enrollment \in 0..Len(agents)
  /\ seqNo \in Nat /\ rejections \in Nat
  /\ buffer \in 0..BufferCapacity /\ disk \in 0..BufferCapacity
  /\ \A r \in requests : r.agent \in DOMAIN agents /\ r.stage \in Answers \cup {"sent", "admitted"}

\* A contestant has one live enrolment at most, whatever enrolments, revocations and
\* readmissions follow each other (idx_proctor_agents_live).
OneLiveAgent == \A i, j \in DOMAIN agents : ~agents[i].revoked /\ ~agents[j].revoked => i = j

\* Who stopped proctoring is brought back by another boot or by an organizer, never by a
\* heartbeat of the stopped boot that was on its way (the WHERE of RecordHeartbeat).
StopStands ==
  [][\A i \in DOMAIN agents :
       agents[i].stopped /\ ~agents'[i].stopped
         => agents'[i].boot # agents[i].boot \/ agents' = readmitted]_vars

\* Within a boot the sequence number never goes back, in whatever order heartbeats are served,
\* so that a copy of an old one stays recognizable (GREATEST in RecordHeartbeat).
SequenceKept ==
  [][\A i \in DOMAIN agents : agents'[i].boot = agents[i].boot => agents'[i].seq >= agents[i].seq]_vars

\* The file holds what is in memory and what is on its way, so that a crash in the middle of a
\* replay loses no heartbeat (buffer_take, buffer_restore).
BufferOnDisk ==
  LET flight == {r \in Waited : r.kind = "flush"}
  IN process # "off" => disk = lesser(buffer + (IF flight = {} THEN 0 ELSE (CHOOSE r \in flight : TRUE).count),
                                      BufferCapacity)

\* However shutdowns and heartbeats overtook each other, an agent that is left alone with a good
\* credential ends up reporting as the boot the server knows (note_rejection, rotate_boot).
Undisturbed == process = "on" /\ enrollment # 0 /\ ~revoked /\ ~agents[enrollment].revoked
Reporting == enrollment # 0 /\ UpToDate
AgentRecovers == <>[]Undisturbed => <>[]Reporting
=============================================================================
