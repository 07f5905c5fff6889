------------------------- MODULE ProctorAgentProofs -------------------------
(***************************************************************************)
(* Proofs about the proctor agent and its server: a contestant has one     *)
(* live enrolment, the server's rows never go back, who stopped stays      *)
(* stopped, and no heartbeat in the buffer is lost by a crash.             *)
(***************************************************************************)
EXTENDS ProctorAgent, TLAPS

Rows == [boot : Nat, seq : Nat, stopped : BOOLEAN, revoked : BOOLEAN]

Requests ==
  [kind : {"beat", "stop", "flush"}, agent : Nat, boot : Nat, seq : Nat, count : Nat,
   stage : Answers \cup {"sent", "admitted"}, waited : BOOLEAN]

-----------------------------------------------------------------------------
(* The invariant.                                                          *)

RowsTyped ==
  /\ agents \in Seq(Rows)
  /\ \A i \in 1..Len(agents) : agents[i].boot <= bootId

AgentTyped ==
  /\ process \in {"off", "on", "signing", "stopping"} /\ enrollment \in 0..Len(agents)
  /\ bootId \in Nat /\ seqNo \in Nat /\ rejections \in Nat
  /\ buffer \in 0..BufferCapacity /\ disk \in 0..BufferCapacity

\* Requests are about enrolments and boots there have been.
RequestsTyped ==
  /\ requests \subseteq Requests
  /\ \A r \in requests : r.agent \in 1..Len(agents) /\ r.boot <= bootId

\* The lock `reporting`: one request is waited for at a time, and while there is one the
\* enrolment stays what it is.
OneWaited ==
  /\ \A r, q \in requests : r.waited /\ q.waited => r = q
  /\ \A r \in requests : r.waited => r.agent = enrollment

AgentInv ==
  /\ RowsTyped /\ AgentTyped /\ RequestsTyped
  /\ OneWaited /\ OneLiveAgent /\ BufferOnDisk

-----------------------------------------------------------------------------
(* What is on its way.                                                     *)

\* The heartbeats of the replay that is waited for.
Counted(flight) == IF flight = {} THEN 0 ELSE (CHOOSE r \in flight : TRUE).count
OnItsWay(R) == Counted({r \in R : r.waited /\ r.kind = "flush"})

LEMMA BufferOnDiskMeans ==
    BufferOnDisk <=> (process # "off" => disk = lesser(buffer + OnItsWay(requests), BufferCapacity))
<1>1. {r \in Waited : r.kind = "flush"} = {r \in requests : r.waited /\ r.kind = "flush"}
  BY DEF Waited
<1> QED
  BY <1>1 DEF BufferOnDisk, OnItsWay, Counted

LEMMA NoneOnItsWay ==
    ASSUME NEW R, \A r \in R : r.waited => r.kind # "flush"
    PROVE  OnItsWay(R) = 0
<1>1. {r \in R : r.waited /\ r.kind = "flush"} = {}
  OBVIOUS
<1> QED
  BY <1>1 DEF OnItsWay, Counted

LEMMA OneOnItsWay ==
    ASSUME NEW R, NEW r \in R, r.waited, r.kind = "flush", \A q \in R : q.waited => q = r
    PROVE  OnItsWay(R) = r.count
<1> DEFINE flight == {q \in R : q.waited /\ q.kind = "flush"}
<1>1. flight = {r}
  OBVIOUS
<1>2. (CHOOSE q \in flight : TRUE) = r
  BY <1>1
<1> HIDE DEF flight
<1>3. OnItsWay(R) = IF flight = {} THEN 0 ELSE (CHOOSE q \in flight : TRUE).count
  BY DEF OnItsWay, Counted, flight
<1> QED
  BY <1>1, <1>2, <1>3

LEMMA LesserIsLess ==
    ASSUME NEW a \in Nat, NEW b \in Nat
    PROVE  /\ lesser(a, b) \in 0..b
           /\ a \in 0..b => lesser(a, b) = a
  BY DEF lesser

-----------------------------------------------------------------------------
(* Steps of a request.                                                     *)

\* A request that goes on, or that nobody waits for and ends, is still the one it was.
LEMMA RequestGoesOn ==
    ASSUME NEW r \in requests, NEW q, NEW X, X = {q} \/ (X = {} /\ ~r.waited),
           RequestsTyped, OneWaited,
           q \in Requests, q.kind = r.kind, q.agent = r.agent, q.boot = r.boot,
           q.count = r.count, q.waited = r.waited,
           requests' = (requests \ {r}) \cup X,
           Len(agents) \in Nat, Len(agents') \in Nat, Len(agents') >= Len(agents),
           UNCHANGED <<bootId, enrollment>>
    PROVE  RequestsTyped' /\ OneWaited' /\ OnItsWay(requests') = OnItsWay(requests)
<1>1. RequestsTyped'
  BY DEF RequestsTyped
<1>2. OneWaited'
  BY DEF OneWaited
<1>3. OnItsWay(requests') = OnItsWay(requests)
  <2>1. CASE ~r.waited
    <3> DEFINE A == {s \in requests' : s.waited /\ s.kind = "flush"}
               B == {s \in requests : s.waited /\ s.kind = "flush"}
    <3>1. A = B
      BY <2>1
    <3>2. OnItsWay(requests') = Counted(A) /\ OnItsWay(requests) = Counted(B)
      BY DEF OnItsWay
    <3> HIDE DEF A, B
    <3> QED
      BY <3>1, <3>2
  <2>2. CASE r.waited /\ r.kind = "flush"
    <3>1. q \in requests' /\ q.waited /\ q.kind = "flush"
      BY <2>2
    <3>2. \A s \in requests' : s.waited => s = q
      BY <2>2, <3>1, <1>2 DEF OneWaited
    <3>3. \A s \in requests : s.waited => s = r
      BY <2>2 DEF OneWaited
    <3>4. OnItsWay(requests') = q.count
      BY <3>1, <3>2, OneOnItsWay
    <3>5. OnItsWay(requests) = r.count
      BY <2>2, <3>3, OneOnItsWay
    <3> QED
      BY <3>4, <3>5
  <2>3. CASE r.waited /\ r.kind # "flush"
    <3>1. \A s \in requests : s.waited => s.kind # "flush"
      BY <2>3 DEF OneWaited
    <3>2. \A s \in requests' : s.waited => s.kind # "flush"
      BY <2>3, <3>1
    <3> QED
      BY <3>1, <3>2, NoneOnItsWay
  <2> QED
    BY <2>1, <2>2, <2>3
<1> QED
  BY <1>1, <1>2, <1>3

LEMMA ProceedKeeps ==
    ASSUME NEW r \in requests, NEW stage \in Answers \cup {"admitted"}, Proceed(r, stage),
           RequestsTyped, OneWaited,
           Len(agents) \in Nat, Len(agents') \in Nat, Len(agents') >= Len(agents),
           UNCHANGED <<bootId, enrollment>>
    PROVE  RequestsTyped' /\ OneWaited' /\ OnItsWay(requests') = OnItsWay(requests)
<1> DEFINE q == [r EXCEPT !.stage = stage]
           X == IF stage \in Answers /\ ~r.waited THEN {} ELSE {q}
<1>1. r \in Requests
  BY DEF RequestsTyped
<1>2. /\ q \in Requests /\ q.kind = r.kind /\ q.agent = r.agent /\ q.boot = r.boot
      /\ q.count = r.count /\ q.waited = r.waited
  BY <1>1 DEF Requests
<1>3. X = {q} \/ (X = {} /\ ~r.waited)
  OBVIOUS
<1>4. requests' = (requests \ {r}) \cup X
  BY DEF Proceed
<1> HIDE DEF q, X
<1> QED
  BY <1>2, <1>3, <1>4, RequestGoesOn

\* A request that is over, or given up on, leaves the agent free to send another.
LEMMA RequestEnds ==
    ASSUME NEW r \in requests, r.waited, NEW X, \A q \in X : q \in Requests /\ ~q.waited,
           \A q \in X : q.agent = r.agent /\ q.boot = r.boot,
           RequestsTyped, OneWaited, requests' = (requests \ {r}) \cup X,
           Len(agents) \in Nat, bootId \in Nat,
           Len(agents') = Len(agents), bootId' \in Nat, bootId' >= bootId
    PROVE  /\ RequestsTyped' /\ OneWaited'
           /\ \A q \in requests' : ~q.waited
           /\ OnItsWay(requests') = 0
<1>1. \A q \in requests' : ~q.waited
  BY DEF OneWaited
<1>2. RequestsTyped'
  BY DEF RequestsTyped, Requests
<1>3. OneWaited'
  BY <1>1 DEF OneWaited
<1> QED
  BY <1>1, <1>2, <1>3, NoneOnItsWay

\* A free agent sends a request about its enrolment.
LEMMA RequestBegins ==
    ASSUME NEW R \in SUBSET requests, \A q \in R : ~q.waited,
           NEW kind \in {"beat", "stop", "flush"}, NEW seq \in Nat,
           requests' = R \cup {Request(kind, seq)},
           RequestsTyped, AgentTyped, AgentConstants, enrollment # 0,
           Len(agents) \in Nat, Len(agents') = Len(agents),
           UNCHANGED <<bootId, enrollment>>
    PROVE  /\ RequestsTyped' /\ OneWaited'
           /\ OnItsWay(requests') = IF kind = "flush" THEN buffer ELSE 0
<1> DEFINE q == Request(kind, seq)
<1>1. /\ q \in Requests /\ q.waited /\ q.kind = kind /\ q.agent = enrollment /\ q.boot = bootId
      /\ q.count = IF kind = "flush" THEN buffer ELSE 0
  BY DEF Request, Requests, AgentTyped, AgentConstants, Answers
<1>2. requests' = R \cup {q} /\ q \in requests'
  OBVIOUS
<1> HIDE DEF q
<1>3. \A s \in requests' : s.waited => s = q
  BY <1>1, <1>2
<1>4. RequestsTyped'
  BY <1>1, <1>2 DEF RequestsTyped, AgentTyped
<1>5. OneWaited'
  BY <1>1, <1>2, <1>3 DEF OneWaited
<1>6. OnItsWay(requests') = q.count
  <2>1. CASE kind = "flush"
    BY <1>1, <1>2, <1>3, <2>1, OneOnItsWay
  <2>2. CASE kind # "flush"
    BY <1>1, <1>3, <2>2, NoneOnItsWay
  <2> QED
    BY <2>1, <2>2
<1> QED
  BY <1>1, <1>4, <1>5, <1>6

-----------------------------------------------------------------------------
(* The server's rows.                                                      *)

\* What no step does to a row it finds: it neither goes back within a boot, nor does a
\* stopped one come back but by another boot or by the organizers.
RowsKept ==
  \A i \in DOMAIN agents :
    /\ i \in DOMAIN agents'
    /\ agents'[i].boot = agents[i].boot => agents'[i].seq >= agents[i].seq
    /\ agents[i].stopped /\ ~agents'[i].stopped
         => agents'[i].boot # agents[i].boot \/ agents' = readmitted

\* A step's effect on the rows.
RowsStep ==
  /\ agents' \in Seq(Rows) /\ Len(agents') >= Len(agents)
  /\ \A i \in 1..Len(agents') : agents'[i].boot <= bootId
  /\ OneLiveAgent' /\ RowsKept

LEMMA RowsStay ==
    ASSUME AgentInv, UNCHANGED agents
    PROVE  RowsStep
<1>1. \A i \in DOMAIN agents : agents[i] \in Rows
  BY DEF AgentInv, RowsTyped
<1>2. RowsKept
  BY <1>1 DEF RowsKept, Rows
<1> QED
  BY <1>2 DEF AgentInv, RowsTyped, RowsStep, OneLiveAgent

\* One row changes, and lives only if it lived before.
LEMMA RowChanges ==
    ASSUME AgentInv, NEW i \in 1..Len(agents), NEW row \in Rows, agents' = [agents EXCEPT ![i] = row],
           row.boot <= bootId, ~row.revoked => ~agents[i].revoked,
           row.boot = agents[i].boot => row.seq >= agents[i].seq,
           agents[i].stopped /\ ~row.stopped => row.boot # agents[i].boot \/ agents' = readmitted
    PROVE  RowsStep
<1>1. /\ agents \in Seq(Rows) /\ DOMAIN agents = 1..Len(agents) /\ Len(agents) \in Nat
      /\ \A j \in DOMAIN agents : agents[j] \in Rows
  BY DEF AgentInv, RowsTyped
<1>2. agents' \in Seq(Rows) /\ DOMAIN agents' = DOMAIN agents /\ Len(agents') = Len(agents)
  BY <1>1
<1>3. \A j \in DOMAIN agents : agents'[j] = IF j = i THEN row ELSE agents[j]
  BY <1>1
<1>4. \A j \in 1..Len(agents') : agents'[j].boot <= bootId
  BY <1>1, <1>2, <1>3 DEF AgentInv, RowsTyped
<1>5. OneLiveAgent'
  BY <1>1, <1>2, <1>3 DEF AgentInv, OneLiveAgent
<1>6. RowsKept
  BY <1>1, <1>2, <1>3 DEF RowsKept, Rows
<1> QED
  BY <1>1, <1>2, <1>4, <1>5, <1>6 DEF RowsStep

\* A new enrolment supersedes the others.
LEMMA RowsEnrolled ==
    ASSUME AgentInv, agents' = enrolled
    PROVE  RowsStep /\ Len(agents') = Len(agents) + 1
<1> DEFINE n == Len(agents)
<1>1. /\ agents \in Seq(Rows) /\ DOMAIN agents = 1..n /\ n \in Nat
      /\ \A j \in 1..n : agents[j] \in Rows /\ agents[j].boot <= bootId
  BY DEF AgentInv, RowsTyped
<1>2. NewRow \in Rows /\ NewRow.boot = 0 /\ bootId \in Nat
  BY DEF NewRow, Rows, AgentInv, AgentTyped
<1>3. \A j \in 1..n : /\ superseded[j].boot = agents[j].boot /\ superseded[j].seq = agents[j].seq
                      /\ superseded[j].stopped = agents[j].stopped /\ superseded[j].revoked
                      /\ superseded[j] \in Rows
  BY <1>1 DEF superseded, Rows
<1>4. superseded \in Seq(Rows) /\ Len(superseded) = n
  <2>1. superseded \in [1..n -> Rows]
    BY <1>1, <1>3 DEF superseded
  <2> HIDE DEF n
  <2> QED
    BY <1>1, <2>1
<1>5. /\ agents' \in Seq(Rows) /\ Len(agents') = n + 1 /\ DOMAIN agents' = 1..(n + 1)
      /\ \A j \in 1..n : agents'[j] = superseded[j]
      /\ agents'[n + 1] = NewRow
  <2> HIDE DEF n
  <2> QED
    BY <1>1, <1>2, <1>4 DEF enrolled
<1> HIDE DEF n
<1>6. \A j \in 1..n : /\ agents'[j].boot = agents[j].boot /\ agents'[j].seq = agents[j].seq
                      /\ agents'[j].stopped = agents[j].stopped /\ agents'[j].revoked
  BY <1>3, <1>5
<1>7. \A j \in 1..(n + 1) : j = n + 1 \/ j \in 1..n
  BY <1>1
<1>8. \A j \in 1..(n + 1) : agents'[j].boot <= bootId
  BY <1>1, <1>2, <1>5, <1>6, <1>7
<1>9. OneLiveAgent'
  BY <1>5, <1>6, <1>7 DEF OneLiveAgent
<1>10. RowsKept
  <2>1. \A j \in 1..n : j \in DOMAIN agents' /\ agents[j].seq \in Nat
    BY <1>1, <1>5 DEF Rows
  <2> QED
    BY <1>1, <1>6, <2>1 DEF RowsKept
<1> QED
  BY <1>1, <1>5, <1>8, <1>9, <1>10 DEF RowsStep, n

-----------------------------------------------------------------------------
(* The steps of the server.                                                *)

LEMMA DiskHolds ==
    ASSUME process' # "off" => disk' = lesser(buffer' + OnItsWay(requests'), BufferCapacity)
    PROVE  BufferOnDisk'
<1>1. {r \in Waited : r.kind = "flush"}' = {r \in requests' : r.waited /\ r.kind = "flush"}
  BY DEF Waited
<1> QED
  BY <1>1 DEF BufferOnDisk, OnItsWay, Counted

\* What is left to show of a step.
Local == AgentTyped' /\ RequestsTyped' /\ OneWaited' /\ BufferOnDisk' /\ bootId' >= bootId

LEMMA StepFrom ==
    ASSUME AgentInv, RowsStep, Local
    PROVE  AgentInv' /\ RowsKept
<1>1. agents' \in Seq(Rows) /\ \A i \in 1..Len(agents') : agents'[i] \in Rows
  BY DEF RowsStep
<1>2. \A i \in 1..Len(agents') : agents'[i].boot <= bootId'
  <2>1. bootId \in Nat /\ bootId' \in Nat
    BY DEF AgentInv, AgentTyped, Local
  <2> QED
    BY <1>1, <2>1 DEF RowsStep, Local, Rows
<1> QED
  BY <1>1, <1>2 DEF RowsStep, Local, AgentInv, RowsTyped

LEMMA Lengths ==
    ASSUME AgentInv, RowsStep
    PROVE  Len(agents) \in Nat /\ Len(agents') \in Nat /\ Len(agents') >= Len(agents)
  BY DEF AgentInv, RowsTyped, RowsStep

\* Serving a request leaves the agent as it is.
LEMMA ServedLocal ==
    ASSUME AgentInv, RowsStep, NEW r \in requests, NEW stage \in Answers \cup {"admitted"},
           Proceed(r, stage), UNCHANGED agentVars
    PROVE  Local
<1>1. UNCHANGED <<process, bootId, seqNo, enrollment, rejections, buffer, disk>>
  BY DEF agentVars
<1>2. RequestsTyped' /\ OneWaited' /\ OnItsWay(requests') = OnItsWay(requests)
  <2>1. UNCHANGED <<bootId, enrollment>> /\ RequestsTyped /\ OneWaited
    BY <1>1 DEF AgentInv
  <2> QED
    BY <2>1, Lengths, ProceedKeeps
<1>3. AgentTyped'
  BY <1>1, Lengths DEF AgentInv, AgentTyped
<1>4. BufferOnDisk'
  BY <1>1, <1>2, BufferOnDiskMeans, DiskHolds DEF AgentInv
<1> QED
  BY <1>1, <1>2, <1>3, <1>4 DEF Local, AgentInv, AgentTyped

LEMMA RequestOfRow ==
    ASSUME AgentInv, NEW r \in requests
    PROVE  /\ r \in Requests /\ r.agent \in 1..Len(agents) /\ r.boot <= bootId
           /\ agents[r.agent] \in Rows /\ agents[r.agent].boot <= bootId
  BY DEF AgentInv, RequestsTyped, RowsTyped

LEMMA ServeStep ==
    ASSUME AgentInv, NEW r \in requests,
           Admit(r) \/ RecordHeartbeat(r) \/ MarkStopped(r) \/ Replay(r)
    PROVE  AgentInv' /\ RowsKept
<1> DEFINE row == agents[r.agent]
<1>0. /\ r \in Requests /\ r.agent \in 1..Len(agents) /\ r.boot <= bootId
      /\ row \in Rows /\ row.boot <= bootId
  BY RequestOfRow
<1> HIDE DEF row
<1>1. CASE Admit(r)
  <2>1. Admitted(r) \in Answers \cup {"admitted"}
    BY DEF Admitted, Answers
  <2>2. RowsStep
    BY <1>1, RowsStay DEF Admit
  <2> QED
    BY <1>1, <2>1, <2>2, ServedLocal, StepFrom DEF Admit
<1>2. CASE RecordHeartbeat(r)
  <2>1. CASE ~updates(row, r)
    <3>1. UNCHANGED <<agents, agentVars>> /\ Proceed(r, "refused") /\ "refused" \in Answers \cup {"admitted"}
      BY <1>2, <2>1 DEF RecordHeartbeat, row, Answers
    <3>2. RowsStep
      BY <3>1, RowsStay
    <3> QED
      BY <3>1, <3>2, ServedLocal, StepFrom
  <2>2. CASE updates(row, r)
    <3> DEFINE new == recorded(row, r)
    <3>1. /\ UNCHANGED agentVars /\ Proceed(r, "accepted") /\ "accepted" \in Answers \cup {"admitted"}
          /\ agents' = [agents EXCEPT ![r.agent] = new]
      BY <1>2, <2>2 DEF RecordHeartbeat, row, Answers
    <3>2. /\ new \in Rows /\ new.boot = r.boot /\ new.revoked = row.revoked
          /\ row.boot = r.boot => new.seq >= row.seq
      <4> DEFINE top == IF row.boot # r.boot THEN r.seq ELSE higher(row.seq, r.seq)
      <4>1. top \in Nat /\ (row.boot = r.boot => top >= row.seq)
        BY <1>0 DEF higher, Rows, Requests
      <4>2. new = [row EXCEPT !.boot = r.boot, !.stopped = FALSE, !.seq = top]
        BY DEF recorded
      <4> HIDE DEF top, new
      <4>3. r.boot \in Nat
        BY <1>0 DEF Requests
      <4>4. new = [boot |-> r.boot, seq |-> top, stopped |-> FALSE, revoked |-> row.revoked]
        BY <1>0, <4>2 DEF Rows
      <4>5. row.revoked \in BOOLEAN
        BY <1>0 DEF Rows
      <4> QED
        BY <4>1, <4>3, <4>4, <4>5 DEF Rows
    <3>3. row.stopped => new.boot # row.boot
      BY <2>2, <3>2 DEF updates
    <3> HIDE DEF new
    <3>4. RowsStep
      BY <1>0, <3>1, <3>2, <3>3, RowChanges DEF row
    <3> QED
      BY <3>1, <3>4, ServedLocal, StepFrom
  <2> QED
    BY <2>1, <2>2
<1>3. CASE MarkStopped(r)
  <2> DEFINE new == [row EXCEPT !.stopped = TRUE]
  <2>1. /\ UNCHANGED agentVars /\ Proceed(r, "accepted") /\ "accepted" \in Answers \cup {"admitted"}
        /\ agents' = [agents EXCEPT ![r.agent] = new]
    BY <1>3 DEF MarkStopped, row, Answers
  <2>2. /\ new \in Rows /\ new.boot = row.boot /\ new.revoked = row.revoked
        /\ new.seq >= row.seq /\ new.stopped
    <3>a. new = [row EXCEPT !.stopped = TRUE]
      OBVIOUS
    <3> HIDE DEF new
    <3>1. new = [boot |-> row.boot, seq |-> row.seq, stopped |-> TRUE, revoked |-> row.revoked]
      BY <1>0, <3>a DEF Rows
    <3>2. row.boot \in Nat /\ row.seq \in Nat
      BY <1>0 DEF Rows
    <3>3. row.revoked \in BOOLEAN
      BY <1>0 DEF Rows
    <3> QED
      BY <3>1, <3>2, <3>3 DEF Rows
  <2> HIDE DEF new
  <2>3. RowsStep
    BY <1>0, <2>1, <2>2, RowChanges DEF row
  <2> QED
    BY <2>1, <2>3, ServedLocal, StepFrom
<1>4. CASE Replay(r)
  <2>1. UNCHANGED <<agents, agentVars>> /\ Proceed(r, "accepted") /\ "accepted" \in Answers \cup {"admitted"}
    BY <1>4 DEF Replay, Answers
  <2>2. RowsStep
    BY <2>1, RowsStay
  <2> QED
    BY <2>1, <2>2, ServedLocal, StepFrom
<1> QED
  BY <1>1, <1>2, <1>3, <1>4

-----------------------------------------------------------------------------
(* The requests an agent step leaves.                                      *)

LEMMA NothingWaited ==
    ASSUME AgentInv, lockFree
    PROVE  (\A q \in requests : ~q.waited) /\ OnItsWay(requests) = 0
<1>1. \A q \in requests : ~q.waited
  BY DEF lockFree, Waited
<1> QED
  BY <1>1, NoneOnItsWay

LEMMA NoReplayWaited ==
    ASSUME AgentInv, NEW r \in requests, r.waited, r.kind # "flush"
    PROVE  OnItsWay(requests) = 0
<1>1. \A q \in requests : q.waited => q.kind # "flush"
  BY DEF AgentInv, OneWaited
<1> QED
  BY <1>1, NoneOnItsWay

\* While no replay is on its way, the file holds what the memory holds.
LEMMA DiskIsBuffer ==
    ASSUME AgentConstants, AgentInv, OnItsWay(requests) = 0, process # "off"
    PROVE  disk = buffer
<1>1. disk = lesser(buffer + 0, BufferCapacity)
  BY BufferOnDiskMeans DEF AgentInv
<1>2. buffer \in 0..BufferCapacity /\ buffer \in Nat /\ BufferCapacity \in Nat
  BY DEF AgentInv, AgentTyped, AgentConstants
<1> QED
  BY <1>1, <1>2, LesserIsLess

\* The steps after which no replay is on its way.
LEMMA FreeLocal ==
    ASSUME AgentConstants, AgentInv, AgentTyped', RequestsTyped', OneWaited', OnItsWay(requests') = 0,
           process' # "off" => disk' = buffer', bootId' >= bootId
    PROVE  Local
<1>1. buffer' \in 0..BufferCapacity /\ buffer' \in Nat /\ BufferCapacity \in Nat
  BY DEF AgentTyped, AgentConstants
<1>2. lesser(buffer' + 0, BufferCapacity) = buffer'
  BY <1>1, LesserIsLess
<1>3. BufferOnDisk'
  BY <1>2, DiskHolds
<1> QED
  BY <1>3 DEF Local

LEMMA RequestsStay ==
    ASSUME AgentInv, RowsStep, UNCHANGED requests, bootId' \in Nat, bootId' >= bootId,
           enrollment' = enrollment \/ lockFree
    PROVE  RequestsTyped' /\ OneWaited'
<1>1. Len(agents) \in Nat /\ Len(agents') \in Nat /\ Len(agents') >= Len(agents) /\ bootId \in Nat
  BY Lengths DEF AgentInv, AgentTyped
<1>2. RequestsTyped'
  BY <1>1 DEF AgentInv, RequestsTyped, Requests
<1>3. OneWaited'
  <2>1. CASE enrollment' = enrollment
    BY <2>1 DEF AgentInv, OneWaited
  <2>2. CASE lockFree
    BY <2>2, NothingWaited DEF OneWaited
  <2> QED
    BY <2>1, <2>2
<1> QED
  BY <1>2, <1>3

\* A step that is about the rows only.
LEMMA NothingLocal ==
    ASSUME AgentInv, RowsStep, UNCHANGED <<agentVars, requests>>
    PROVE  Local
<1>1. UNCHANGED <<process, bootId, seqNo, enrollment, rejections, buffer, disk, requests>>
  BY DEF agentVars
<1>2. bootId' \in Nat /\ bootId' >= bootId
  BY <1>1 DEF AgentInv, AgentTyped
<1>3. RequestsTyped' /\ OneWaited'
  BY <1>1, <1>2, RequestsStay
<1>4. AgentTyped'
  BY <1>1, Lengths DEF AgentInv, AgentTyped
<1>5. OnItsWay(requests') = OnItsWay(requests)
  BY <1>1
<1>6. BufferOnDisk'
  BY <1>1, <1>5, BufferOnDiskMeans, DiskHolds DEF AgentInv
<1> QED
  BY <1>2, <1>3, <1>4, <1>6 DEF Local

\* The request that is waited for ends, or is given up on.
Ended(r) ==
  \/ requests' = requests \ {r}
  \/ requests' = (requests \ {r}) \cup {[r EXCEPT !.waited = FALSE]}

LEMMA GivesUpEnds ==
    ASSUME NEW r, GivesUp(r)
    PROVE  Ended(r)
  BY DEF GivesUp, Ended

LEMMA WaitedEnds ==
    ASSUME AgentInv, UNCHANGED agents, bootId' \in Nat, bootId' >= bootId,
           NEW r \in requests, r.waited, Ended(r)
    PROVE  RequestsTyped' /\ OneWaited' /\ OnItsWay(requests') = 0
           /\ \A q \in requests' : ~q.waited
<1>1. r \in Requests
  BY RequestOfRow
<1> DEFINE q == [r EXCEPT !.waited = FALSE]
<1>2. q \in Requests /\ ~q.waited /\ q.agent = r.agent /\ q.boot = r.boot
  <2>1. q = [r EXCEPT !.waited = FALSE]
    OBVIOUS
  <2> HIDE DEF q
  <2>2. q = [kind |-> r.kind, agent |-> r.agent, boot |-> r.boot, seq |-> r.seq, count |-> r.count,
             stage |-> r.stage, waited |-> FALSE]
    BY <1>1, <2>1 DEF Requests
  <2> QED
    BY <1>1, <2>2 DEF Requests
<1>3. PICK X : X \in {{}, {q}} /\ requests' = (requests \ {r}) \cup X
  BY DEF Ended
<1> HIDE DEF q
<1>4. \A p \in X : p \in Requests /\ ~p.waited /\ p.agent = r.agent /\ p.boot = r.boot
  BY <1>2, <1>3
<1>5. RequestsTyped /\ OneWaited /\ Len(agents) \in Nat /\ bootId \in Nat /\ Len(agents') = Len(agents)
  BY DEF AgentInv, RowsTyped, AgentTyped
<1> QED
  BY <1>3, <1>4, <1>5, RequestEnds

-----------------------------------------------------------------------------
(* The steps of the agent.                                                 *)

LEMMA StartStep ==
    ASSUME AgentConstants, AgentInv, Start
    PROVE  AgentInv' /\ RowsKept
<1>1. /\ process' = "on" /\ bootId' = bootId + 1 /\ seqNo' = 0 /\ rejections' = 0
      /\ buffer' = disk /\ lockFree /\ UNCHANGED <<agents, enrollment, requests, disk>>
  BY DEF Start, RotateBoot
<1>2. RowsStep
  BY <1>1, RowsStay
<1>3. bootId' \in Nat /\ bootId' >= bootId
  BY <1>1 DEF AgentInv, AgentTyped
<1>4. RequestsTyped' /\ OneWaited'
  BY <1>1, <1>2, <1>3, RequestsStay
<1>5. OnItsWay(requests') = 0
  BY <1>1, NothingWaited
<1>6. AgentTyped'
  BY <1>1, <1>3 DEF AgentInv, AgentTyped
<1> QED
  BY <1>1, <1>2, <1>3, <1>4, <1>5, <1>6, FreeLocal, StepFrom

LEMMA CrashStep ==
    ASSUME AgentConstants, AgentInv, Crash
    PROVE  AgentInv' /\ RowsKept
<1>1. /\ process' = "off"
      /\ UNCHANGED <<agents, bootId, seqNo, enrollment, rejections, buffer, disk>>
  BY DEF Crash
<1>2. RowsStep
  BY <1>1, RowsStay
<1>3. bootId' \in Nat /\ bootId' >= bootId
  BY <1>1 DEF AgentInv, AgentTyped
<1>4. AgentTyped'
  BY <1>1 DEF AgentInv, AgentTyped
<1>5. RequestsTyped' /\ OneWaited' /\ OnItsWay(requests') = 0
  <2>1. CASE Waited = {}
    <3>1. requests' = requests /\ lockFree
      BY <2>1 DEF Crash, lockFree
    <3> QED
      BY <1>2, <1>3, <3>1, RequestsStay, NothingWaited
  <2>2. CASE Waited # {}
    <3>1. PICK r \in requests : r.waited
      BY <2>2 DEF Waited
    <3>2. Waited = {r}
      BY <3>1 DEF Waited, AgentInv, OneWaited
    <3>3. Ended(r)
      BY <3>2 DEF Crash, Ended
    <3> QED
      BY <1>1, <1>3, <3>1, <3>3, WaitedEnds
  <2> QED
    BY <2>1, <2>2
<1> QED
  BY <1>1, <1>2, <1>3, <1>4, <1>5, FreeLocal, StepFrom

LEMMA SendHeartbeatStep ==
    ASSUME AgentConstants, AgentInv, SendHeartbeat
    PROVE  AgentInv' /\ RowsKept
<1>1. /\ lockFree /\ enrollment # 0 /\ seqNo' = seqNo + 1 /\ process # "off"
      /\ requests' = requests \cup {Request("beat", seqNo + 1)}
      /\ UNCHANGED <<agents, process, bootId, enrollment, rejections, buffer, disk>>
  BY DEF SendHeartbeat
<1>2. RowsStep
  BY <1>1, RowsStay
<1>3. bootId \in Nat /\ seqNo + 1 \in Nat /\ Len(agents) \in Nat /\ RequestsTyped /\ AgentTyped
  BY DEF AgentInv, AgentTyped, RowsTyped
<1>4. (\A q \in requests : ~q.waited) /\ OnItsWay(requests) = 0
  BY <1>1, NothingWaited
<1>5. RequestsTyped' /\ OneWaited' /\ OnItsWay(requests') = 0
  BY <1>1, <1>3, <1>4, RequestBegins
<1>6. AgentTyped'
  BY <1>1, <1>3 DEF AgentTyped
<1>7. disk' = buffer'
  BY <1>1, <1>4, DiskIsBuffer
<1> QED
  BY <1>1, <1>2, <1>3, <1>5, <1>6, <1>7, FreeLocal, StepFrom

LEMMA ReportShutdownStep ==
    ASSUME AgentConstants, AgentInv, ReportShutdown
    PROVE  AgentInv' /\ RowsKept
<1>1. /\ lockFree /\ enrollment # 0 /\ process # "off"
      /\ requests' = requests \cup {Request("stop", seqNo)}
      /\ UNCHANGED <<agents, process, bootId, seqNo, enrollment, rejections, buffer, disk>>
  BY DEF ReportShutdown, agentVars
<1>2. RowsStep
  BY <1>1, RowsStay
<1>3. bootId \in Nat /\ seqNo \in Nat /\ Len(agents) \in Nat /\ RequestsTyped /\ AgentTyped
  BY DEF AgentInv, AgentTyped, RowsTyped
<1>4. (\A q \in requests : ~q.waited) /\ OnItsWay(requests) = 0
  BY <1>1, NothingWaited
<1>5. RequestsTyped' /\ OneWaited' /\ OnItsWay(requests') = 0
  BY <1>1, <1>3, <1>4, RequestBegins
<1>6. AgentTyped'
  BY <1>1, <1>3 DEF AgentTyped
<1>7. disk' = buffer'
  BY <1>1, <1>4, DiskIsBuffer
<1> QED
  BY <1>1, <1>2, <1>3, <1>5, <1>6, <1>7, FreeLocal, StepFrom

\* A replay follows an acknowledged heartbeat; the file keeps what the memory gives up.
LEMMA HeartbeatEndsStep ==
    ASSUME AgentConstants, AgentInv, NEW r \in requests, HeartbeatEnds(r)
    PROVE  AgentInv' /\ RowsKept
<1>1. /\ r.waited /\ r.kind = "beat" /\ r.kind # "flush"
      /\ UNCHANGED <<agents, process, enrollment>>
  BY DEF HeartbeatEnds
<1>2. RowsStep
  BY <1>1, RowsStay
<1>3. OnItsWay(requests) = 0 /\ r.agent = enrollment
  BY <1>1, NoReplayWaited DEF AgentInv, OneWaited
<1>4. /\ bootId \in Nat /\ seqNo \in Nat /\ rejections \in Nat /\ Len(agents) \in Nat
      /\ buffer \in 0..BufferCapacity /\ buffer \in Nat /\ BufferCapacity \in Nat
      /\ RequestsTyped /\ AgentTyped
  BY DEF AgentInv, AgentTyped, RowsTyped, AgentConstants
<1>5. process # "off" => disk = buffer
  BY <1>3, DiskIsBuffer
<1>6. r.agent \in 1..Len(agents) /\ enrollment # 0
  BY <1>3, <1>4, RequestOfRow
<1>7. CASE Acknowledged(r)
  <2>1. /\ rejections' = 0 /\ UNCHANGED <<bootId, seqNo, disk>>
        /\ requests' = (requests \ {r}) \cup (IF flushes THEN {Request("flush", seqNo)} ELSE {})
        /\ buffer' = IF flushes THEN 0 ELSE buffer
    BY <1>7 DEF Acknowledged, SameBoot
  <2>2. bootId' \in Nat /\ bootId' >= bootId
    BY <1>4, <2>1
  <2>3. AgentTyped'
    BY <1>1, <1>4, <2>1 DEF AgentTyped
  <2>4. CASE ~flushes
    <3>1. requests' = requests \ {r} /\ buffer' = buffer
      BY <2>1, <2>4
    <3>2. RequestsTyped' /\ OneWaited' /\ OnItsWay(requests') = 0
      BY <1>1, <2>2, <3>1, WaitedEnds DEF Ended
    <3> QED
      BY <1>1, <1>2, <1>5, <2>1, <2>2, <2>3, <3>1, <3>2, FreeLocal, StepFrom
  <2>5. CASE flushes
    <3> DEFINE R == requests \ {r}
    <3>1. requests' = R \cup {Request("flush", seqNo)} /\ buffer' = 0
      BY <2>1, <2>5
    <3>2. \A q \in R : ~q.waited
      BY <1>1 DEF AgentInv, OneWaited
    <3>3. R \in SUBSET requests
      OBVIOUS
    <3> HIDE DEF R
    <3>4. RequestsTyped' /\ OneWaited' /\ OnItsWay(requests') = buffer
      BY <1>1, <1>4, <1>6, <2>1, <3>1, <3>2, <3>3, RequestBegins
    <3>5. lesser(buffer' + OnItsWay(requests'), BufferCapacity) = buffer
      <4>1. buffer' + OnItsWay(requests') = buffer
        BY <1>4, <3>1, <3>4
      <4> QED
        BY <1>4, <4>1, LesserIsLess
    <3>6. BufferOnDisk'
      BY <1>1, <1>5, <2>1, <3>5, DiskHolds
    <3> QED
      BY <1>2, <2>2, <2>3, <3>4, <3>6, StepFrom DEF Local
  <2> QED
    BY <2>4, <2>5
<1>8. CASE Dismissed(r) \/ Rejected(r)
  <2>1. /\ bootId' \in Nat /\ bootId' >= bootId /\ seqNo' \in Nat /\ rejections' \in Nat
        /\ requests' = requests \ {r} /\ UNCHANGED <<buffer, disk>>
    BY <1>4, <1>8 DEF Dismissed, Rejected, RotateBoot, SameBoot
  <2>2. RequestsTyped' /\ OneWaited' /\ OnItsWay(requests') = 0
    BY <1>1, <2>1, WaitedEnds DEF Ended
  <2>3. AgentTyped'
    BY <1>1, <1>4, <2>1 DEF AgentTyped
  <2> QED
    BY <1>1, <1>2, <1>5, <2>1, <2>2, <2>3, FreeLocal, StepFrom
<1> QED
  BY <1>7, <1>8 DEF HeartbeatEnds

LEMMA HeartbeatLostStep ==
    ASSUME AgentConstants, AgentInv, NEW r \in requests, HeartbeatLost(r)
    PROVE  AgentInv' /\ RowsKept
<1>1. /\ r.waited /\ Ended(r)
      /\ buffer' = lesser(buffer + 1, BufferCapacity) /\ disk' = buffer'
      /\ UNCHANGED <<agents, process, bootId, seqNo, enrollment, rejections>>
  BY GivesUpEnds DEF HeartbeatLost, GivesUp
<1>2. RowsStep
  BY <1>1, RowsStay
<1>3. /\ bootId' \in Nat /\ bootId' >= bootId
      /\ buffer + 1 \in Nat /\ BufferCapacity \in Nat /\ AgentTyped
  BY <1>1 DEF AgentInv, AgentTyped, AgentConstants
<1>4. RequestsTyped' /\ OneWaited' /\ OnItsWay(requests') = 0
  BY <1>1, <1>3, WaitedEnds
<1>5. lesser(buffer + 1, BufferCapacity) \in 0..BufferCapacity
  BY <1>3, LesserIsLess
<1>6. AgentTyped'
  BY <1>1, <1>3, <1>5 DEF AgentTyped
<1> QED
  BY <1>1, <1>2, <1>3, <1>4, <1>6, FreeLocal, StepFrom

LEMMA FlushEndsStep ==
    ASSUME AgentConstants, AgentInv, NEW r \in requests, FlushEnds(r)
    PROVE  AgentInv' /\ RowsKept
<1>1. /\ r.waited /\ Ended(r)
      /\ buffer' = 0 \/ buffer' = restored(r)
      /\ disk' = buffer'
      /\ UNCHANGED <<agents, process, bootId, seqNo, enrollment, rejections>>
  BY GivesUpEnds DEF FlushEnds, GivesUp, Ended
<1>2. RowsStep
  BY <1>1, RowsStay
<1>3. /\ bootId' \in Nat /\ bootId' >= bootId
      /\ buffer + r.count \in Nat /\ BufferCapacity \in Nat /\ AgentTyped
  BY <1>1, RequestOfRow DEF AgentInv, AgentTyped, AgentConstants, Requests
<1>4. RequestsTyped' /\ OneWaited' /\ OnItsWay(requests') = 0
  BY <1>1, <1>3, WaitedEnds
<1>5. restored(r) \in 0..BufferCapacity
  BY <1>3, LesserIsLess DEF restored
<1>6. AgentTyped'
  BY <1>1, <1>3, <1>5 DEF AgentTyped
<1> QED
  BY <1>1, <1>2, <1>3, <1>4, <1>6, FreeLocal, StepFrom

LEMMA EnrollStep ==
    ASSUME AgentConstants, AgentInv, Enroll
    PROVE  AgentInv' /\ RowsKept
<1>1. /\ process # "off" /\ lockFree /\ agents' = enrolled
      /\ enrollment' = Len(agents') \/ enrollment' = enrollment
      /\ UNCHANGED <<process, bootId, seqNo, rejections, requests, buffer, disk>>
  BY DEF Enroll
<1>2. RowsStep
  BY <1>1, RowsEnrolled
<1>3. bootId' \in Nat /\ bootId' >= bootId /\ AgentTyped
  BY <1>1 DEF AgentInv, AgentTyped
<1>4. RequestsTyped' /\ OneWaited'
  BY <1>1, <1>2, <1>3, RequestsStay
<1>5. AgentTyped'
  <2>1. enrollment' \in 0..Len(agents')
    BY <1>1, <1>2, <1>3, Lengths DEF AgentTyped
  <2> QED
    BY <1>1, <1>3, <2>1 DEF AgentTyped
<1>6. OnItsWay(requests') = 0 /\ OnItsWay(requests) = 0
  BY <1>1, NothingWaited
<1>7. disk' = buffer'
  BY <1>1, <1>6, DiskIsBuffer
<1> QED
  BY <1>2, <1>3, <1>4, <1>5, <1>6, <1>7, FreeLocal, StepFrom

LEMMA RevokeStep ==
    ASSUME AgentInv, Revoke
    PROVE  AgentInv' /\ RowsKept
<1>1. UNCHANGED <<agentVars, requests>>
  BY DEF Revoke
<1>2. PICK i \in DOMAIN agents : agents' = [agents EXCEPT ![i].revoked = TRUE]
  BY DEF Revoke
<1> DEFINE row == agents[i]
           new == [row EXCEPT !.revoked = TRUE]
<1>3. i \in 1..Len(agents) /\ row \in Rows /\ row.boot <= bootId
  BY <1>2 DEF AgentInv, RowsTyped
<1>4. agents' = [agents EXCEPT ![i] = new]
  BY <1>2
<1>5. new = [row EXCEPT !.revoked = TRUE]
  OBVIOUS
<1> HIDE DEF new, row
<1>6. new = [boot |-> row.boot, seq |-> row.seq, stopped |-> row.stopped, revoked |-> TRUE]
  BY <1>3, <1>5 DEF Rows
<1>7. row.boot \in Nat /\ row.seq \in Nat
  BY <1>3 DEF Rows
<1>8. row.stopped \in BOOLEAN
  BY <1>3 DEF Rows
<1>9. new \in Rows
  BY <1>6, <1>7, <1>8 DEF Rows
<1>10. /\ new.boot = row.boot /\ new.seq = row.seq /\ new.revoked
       /\ new.stopped = row.stopped
  BY <1>6
<1>11. new.boot <= bootId /\ new.seq >= row.seq
  BY <1>3, <1>7, <1>10
<1>12. ~(row.stopped /\ ~new.stopped) /\ ~(~new.revoked)
  BY <1>10
<1>13. RowsStep
  BY <1>3, <1>4, <1>9, <1>11, <1>12, RowChanges DEF row
<1> QED
  BY <1>1, <1>13, NothingLocal, StepFrom

\* With one row there is one to live; with more, the statement changes nothing.
LEMMA ReadmitStep ==
    ASSUME AgentInv, Readmit
    PROVE  AgentInv' /\ RowsKept
<1>1. UNCHANGED <<agentVars, requests>> /\ agents' = readmitted
  BY DEF Readmit
<1>2. RowsStep
  <2>1. CASE Len(agents) # 1
    BY <1>1, <2>1, RowsStay DEF readmitted
  <2>2. CASE Len(agents) = 1
    <3> DEFINE row == agents[1]
               new == [row EXCEPT !.revoked = FALSE, !.stopped = FALSE]
    <3>1. agents' = <<new>>
      BY <1>1, <2>2 DEF readmitted
    <3>a. agents \in Seq(Rows) /\ DOMAIN agents = 1..1 /\ 1 \in 1..Len(agents)
      BY <2>2 DEF AgentInv, RowsTyped
    <3>2. row \in Rows /\ row.boot <= bootId /\ DOMAIN agents = {1}
      BY <3>a DEF AgentInv, RowsTyped
    <3>3. new = [row EXCEPT !.revoked = FALSE, !.stopped = FALSE]
      OBVIOUS
    <3> HIDE DEF row, new
    <3>4. new = [boot |-> row.boot, seq |-> row.seq, stopped |-> FALSE, revoked |-> FALSE]
      BY <3>2, <3>3 DEF Rows
    <3>5. row.boot \in Nat /\ row.seq \in Nat
      BY <3>2 DEF Rows
    <3>6. new \in Rows /\ new.boot = row.boot /\ new.seq = row.seq
      BY <3>4, <3>5 DEF Rows
    <3>7. /\ agents' \in Seq(Rows) /\ Len(agents') = 1 /\ DOMAIN agents' = {1} /\ agents'[1] = new
      BY <3>1, <3>6
    <3>8. RowsKept
      BY <1>1, <3>2, <3>5, <3>6, <3>7 DEF RowsKept, row
    <3>9. OneLiveAgent'
      BY <3>7 DEF OneLiveAgent
    <3> QED
      BY <2>2, <3>2, <3>6, <3>7, <3>8, <3>9 DEF RowsStep
  <2> QED
    BY <2>1, <2>2
<1> QED
  BY <1>1, <1>2, NothingLocal, StepFrom

LEMMA LeaveStep ==
    ASSUME AgentInv, NEW state \in {"signing", "stopping"}, Leave(state)
    PROVE  AgentInv' /\ RowsKept
<1>1. /\ process # "off" /\ process' = state
      /\ UNCHANGED <<agents, bootId, seqNo, enrollment, rejections, requests, buffer, disk>>
  BY DEF Leave
<1>2. RowsStep
  BY <1>1, RowsStay
<1>3. bootId' \in Nat /\ bootId' >= bootId
  BY <1>1 DEF AgentInv, AgentTyped
<1>4. RequestsTyped' /\ OneWaited'
  BY <1>1, <1>2, <1>3, RequestsStay
<1>5. AgentTyped'
  BY <1>1 DEF AgentInv, AgentTyped
<1>6. OnItsWay(requests') = OnItsWay(requests)
  BY <1>1
<1>7. BufferOnDisk'
  BY <1>1, <1>6, BufferOnDiskMeans, DiskHolds DEF AgentInv
<1> QED
  BY <1>2, <1>3, <1>4, <1>5, <1>7, StepFrom DEF Local

\* Signing out and exiting wait for the lock, and for the answer to the shutdown.
LEMMA LeftStep ==
    ASSUME AgentConstants, AgentInv, Left
    PROVE  AgentInv' /\ RowsKept
<1>1. /\ process # "off" /\ UNCHANGED agents
      /\ SignedOut \/ SignOutFails \/ Exited
  BY DEF Left, SignedOut, SignOutFails, Exited
<1>2. RowsStep
  BY <1>1, RowsStay
<1>3. /\ bootId \in Nat /\ AgentTyped /\ 0 \in 0..BufferCapacity /\ 0 \in 0..Len(agents)
  BY DEF AgentInv, AgentTyped, RowsTyped, AgentConstants
<1>4. bootId' \in Nat /\ bootId' >= bootId
  BY <1>1, <1>3 DEF SignedOut, SignOutFails, Exited, RotateBoot, SameBoot
<1>5. /\ OnItsWay(requests) = 0
      /\ RequestsTyped' /\ OneWaited' /\ OnItsWay(requests') = 0
  <2>1. CASE lockFree /\ UNCHANGED requests
    BY <1>2, <1>4, <2>1, RequestsStay, NothingWaited
  <2>2. CASE \E r \in requests : r.waited /\ r.kind = "stop" /\ Ended(r)
    <3>1. PICK r \in requests : r.waited /\ r.kind = "stop" /\ Ended(r)
      BY <2>2
    <3>2. r.kind # "flush"
      BY <3>1
    <3> QED
      BY <1>1, <1>4, <3>1, <3>2, NoReplayWaited, WaitedEnds
  <2> QED
    BY <2>1, <2>2, GivesUpEnds DEF Left, Waited, Ended
<1>6. disk = buffer
  BY <1>1, <1>5, DiskIsBuffer
<1>7. AgentTyped'
  <2>1. CASE SignedOut
    BY <1>1, <1>3, <1>4, <2>1 DEF SignedOut, RotateBoot, AgentTyped
  <2>2. CASE SignOutFails
    BY <1>1, <1>3, <1>4, <2>2 DEF SignOutFails, SameBoot, AgentTyped
  <2>3. CASE Exited
    BY <1>1, <1>3, <1>4, <2>3 DEF Exited, SameBoot, AgentTyped
  <2> QED
    BY <1>1, <2>1, <2>2, <2>3
<1>8. disk' = buffer'
  BY <1>1, <1>6 DEF SignedOut, SignOutFails, Exited
<1> QED
  BY <1>2, <1>4, <1>5, <1>7, <1>8, FreeLocal, StepFrom

LEMMA StutterStep ==
    ASSUME AgentInv, UNCHANGED vars
    PROVE  AgentInv' /\ RowsKept
<1>1. UNCHANGED <<agents, agentVars, requests>>
  BY DEF vars
<1> QED
  BY <1>1, RowsStay, NothingLocal, StepFrom

-----------------------------------------------------------------------------
(* The theorems.                                                           *)

LEMMA AgentStep ==
    ASSUME AgentConstants, AgentInv, [Next]_vars
    PROVE  AgentInv' /\ RowsKept
<1>1. CASE Serve
  BY <1>1, ServeStep DEF Serve
<1>2. CASE Hear
  BY <1>2, HeartbeatEndsStep, HeartbeatLostStep, FlushEndsStep DEF Hear
<1>3. CASE SendHeartbeat
  BY <1>3, SendHeartbeatStep
<1>4. CASE ReportShutdown
  BY <1>4, ReportShutdownStep
<1>5. CASE Left
  BY <1>5, LeftStep
<1>6. CASE Start
  BY <1>6, StartStep
<1>7. CASE Crash
  BY <1>7, CrashStep
<1>8. CASE Enroll
  BY <1>8, EnrollStep
<1>9. CASE EnrollElsewhere
  <2>1. agents' = enrolled /\ UNCHANGED <<agentVars, requests>>
    BY <1>9 DEF EnrollElsewhere
  <2> QED
    BY <2>1, RowsEnrolled, NothingLocal, StepFrom
<1>10. CASE Revoke
  BY <1>10, RevokeStep
<1>11. CASE Readmit
  BY <1>11, ReadmitStep
<1>12. CASE Leave("signing")
  BY <1>12, LeaveStep
<1>13. CASE Leave("stopping")
  BY <1>13, LeaveStep
<1>14. CASE UNCHANGED vars
  BY <1>14, StutterStep
<1> QED
  BY <1>1, <1>2, <1>3, <1>4, <1>5, <1>6, <1>7, <1>8, <1>9, <1>10, <1>11, <1>12, <1>13, <1>14
     DEF Next, Command

LEMMA AgentInit ==
    ASSUME AgentConstants, Init
    PROVE  AgentInv
<1>1. /\ agents = <<NewRow>> /\ process = "on" /\ bootId = 1 /\ seqNo = 0 /\ enrollment = 1
      /\ rejections = 0 /\ requests = {} /\ buffer = 0 /\ disk = 0
  BY DEF Init
<1>2. NewRow \in Rows /\ NewRow.boot = 0
  BY DEF NewRow, Rows
<1>3. agents \in Seq(Rows) /\ Len(agents) = 1 /\ DOMAIN agents = {1} /\ agents[1] = NewRow
  BY <1>1, <1>2
<1>4. RowsTyped /\ OneLiveAgent
  BY <1>1, <1>2, <1>3 DEF RowsTyped, OneLiveAgent
<1>5. AgentTyped
  BY <1>1, <1>3 DEF AgentTyped, AgentConstants
<1>6. RequestsTyped /\ OneWaited
  BY <1>1 DEF RequestsTyped, OneWaited
<1>7. OnItsWay(requests) = 0
  BY <1>1, NoneOnItsWay
<1>8. lesser(0, BufferCapacity) = 0
  BY LesserIsLess DEF AgentConstants
<1>9. BufferOnDisk
  BY <1>1, <1>7, <1>8, BufferOnDiskMeans
<1> QED
  BY <1>4, <1>5, <1>6, <1>9 DEF AgentInv

\* The rows, the agent and its requests keep their types; one request is waited for at a time,
\* about the enrolment there is; one enrolment is live; the buffer's file is complete.
THEOREM AgentInvariant ==
    ASSUME AgentConstants
    PROVE  Spec => []AgentInv
<1>1. Init => AgentInv
  BY AgentInit
<1>2. AgentInv /\ [Next]_vars => AgentInv'
  BY AgentStep
<1> QED
  BY <1>1, <1>2, PTL DEF Spec

\* The types of the rows, of the agent and of the requests under way (the table
\* proctor_agents, and the state behind the lock `reporting`).
THEOREM TypeCorrect ==
    ASSUME AgentConstants
    PROVE  Spec => []TypeOK
<1>1. AgentInv => TypeOK
  <2> SUFFICES ASSUME AgentInv PROVE TypeOK
    OBVIOUS
  <2>1. /\ DOMAIN agents = 1..Len(agents) /\ bootId \in Nat
        /\ \A i \in DOMAIN agents : agents[i] \in Rows /\ agents[i].boot <= bootId
    BY DEF AgentInv, RowsTyped, AgentTyped
  <2>2. \A i \in DOMAIN agents :
          agents[i] \in [boot : 0..bootId, seq : Nat, stopped : BOOLEAN, revoked : BOOLEAN]
    BY <2>1 DEF Rows
  <2>3. \A r \in requests : r.agent \in DOMAIN agents /\ r.stage \in Answers \cup {"sent", "admitted"}
    BY <2>1, RequestOfRow DEF Requests
  <2> QED
    BY <2>2, <2>3 DEF AgentInv, AgentTyped, TypeOK
<1> QED
  BY <1>1, AgentInvariant, PTL

\* A contestant has one live enrolment at most, whatever enrolments, revocations and
\* readmissions follow each other (idx_proctor_agents_live).
THEOREM OneAgentLives ==
    ASSUME AgentConstants
    PROVE  Spec => []OneLiveAgent
<1>1. AgentInv => OneLiveAgent
  BY DEF AgentInv
<1> QED
  BY <1>1, AgentInvariant, PTL

\* A crash in the middle of a replay loses no heartbeat: the file holds what the memory holds
\* and what is on its way (buffer_take, buffer_push, buffer_restore).
THEOREM BufferSafe ==
    ASSUME AgentConstants
    PROVE  Spec => []BufferOnDisk
<1>1. AgentInv => BufferOnDisk
  BY DEF AgentInv
<1> QED
  BY <1>1, AgentInvariant, PTL

\* Who stopped proctoring comes back by another boot or by an organizer only (RecordHeartbeat).
THEOREM StopStandsAlways ==
    ASSUME AgentConstants
    PROVE  Spec => StopStands
<1> DEFINE Stands ==
      \A i \in DOMAIN agents :
        agents[i].stopped /\ ~agents'[i].stopped
          => agents'[i].boot # agents[i].boot \/ agents' = readmitted
<1>1. AgentInv /\ [Next]_vars => [Stands]_vars
  BY AgentStep DEF RowsKept
<1>2. StopStands <=> [][Stands]_vars
  BY PTL DEF StopStands
<1> HIDE DEF Stands
<1> QED
  BY <1>1, <1>2, AgentInvariant, PTL DEF Spec

\* Within a boot a row's sequence number never goes back, in whatever order the heartbeats an
\* agent gave up on are served (GREATEST in RecordHeartbeat).
THEOREM SequenceIsKept ==
    ASSUME AgentConstants
    PROVE  Spec => SequenceKept
<1> DEFINE Kept ==
      \A i \in DOMAIN agents : agents'[i].boot = agents[i].boot => agents'[i].seq >= agents[i].seq
<1>1. AgentInv /\ [Next]_vars => [Kept]_vars
  BY AgentStep DEF RowsKept
<1>2. SequenceKept <=> [][Kept]_vars
  BY PTL DEF SequenceKept
<1> HIDE DEF Kept
<1> QED
  BY <1>1, <1>2, AgentInvariant, PTL DEF Spec

=============================================================================
