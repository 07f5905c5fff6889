--------------------------- MODULE RunnerLimiter ----------------------------
(***************************************************************************)
(* Admission to the sandboxes of one node (backend/internal/runner:        *)
(* limiter.go).  Three buffered channels: free holds the idle boxes,       *)
(* submitCap one token for each batch that may have a box, admit one token *)
(* for each call in flight.  Each channel operation is one action, so that *)
(* calls interleave between those of an acquire or a release.              *)
(***************************************************************************)
EXTENDS Integers, Sequences, FiniteSets

CONSTANTS
    Runs,           \* interactive calls: Run, acquireRun
    Submits,        \* judge workers: RunBatch, acquireSubmit
    MaxConcurrent,  \* maxConcurrent, the number of boxes
    MaxQueue,       \* maxQueue as configured
    RunReserve      \* runReserve as configured

ASSUME LimiterAssumption ==
    /\ MaxConcurrent \in Nat \ {0}
    /\ MaxQueue \in Int
    /\ RunReserve \in Int

ASSUME CallersAssumption ==
    /\ IsFiniteSet(Runs)
    /\ IsFiniteSet(Submits)
    /\ Runs \cap Submits = {}

VARIABLES
    free,       \* the boxes in the channel free, oldest first
    submitCap,  \* tokens in submitCap
    admit,      \* tokens in admit
    pc,         \* where each call is
    box         \* the box of a call that holds one

vars == <<free, submitCap, admit, pc, box>>

-----------------------------------------------------------------------------
Callers == Runs \cup Submits
Boxes == 0 .. (MaxConcurrent - 1)
NoBox == -1

\* newLimiter: the configured values are forced into their ranges.
QueueLength == IF MaxQueue < 0 THEN 0 ELSE MaxQueue
Reserve == IF RunReserve < 0 THEN 0
           ELSE IF RunReserve >= MaxConcurrent THEN MaxConcurrent - 1 ELSE RunReserve

\* Mutant: a node whose boxes are all for batches.
SubmitCapacityAll == MaxConcurrent

SubmitCapacity == IF MaxConcurrent - Reserve < 1 THEN 1 ELSE MaxConcurrent - Reserve

AdmitCapacity == MaxConcurrent + QueueLength

\* idle      no token          capped    waits for a token of submitCap
\* waiting   waits for a box   holding   runs in its box
\* uncapping returns its token of submitCap next
\* leaving   returns its token of admit next
\* busy      was refused on arrival
Places == {"idle", "capped", "waiting", "holding", "uncapping", "leaving", "busy"}

InFlight(C) == {c \in C : pc[c] \notin {"idle", "busy"}}
Capped == {c \in Submits : pc[c] \in {"waiting", "holding", "uncapping"}}

Move(c, to) == pc' = [pc EXCEPT ![c] = to]

-----------------------------------------------------------------------------
Init ==
    /\ free = [i \in 1..MaxConcurrent |-> i - 1]
    /\ submitCap = 0
    /\ admit = 0
    /\ pc = [c \in Callers |-> "idle"]
    /\ box = [c \in Callers |-> NoBox]

\* Mutant: the capacity of admit is not looked at.
AdmitAlways(c) ==
    /\ pc[c] = "idle"
    /\ admit' = admit + 1
    /\ Move(c, IF c \in Submits THEN "capped" ELSE "waiting")
    /\ UNCHANGED <<free, submitCap, box>>

\* The first select of acquireRun and acquireSubmit.
Admit(c) ==
    /\ pc[c] = "idle"
    /\ admit < AdmitCapacity
    /\ admit' = admit + 1
    /\ Move(c, IF c \in Submits THEN "capped" ELSE "waiting")
    /\ UNCHANGED <<free, submitCap, box>>

\* Its default: ErrBusy.  The client or the judge may call again.
Refuse(c) ==
    /\ pc[c] = "idle"
    /\ admit = AdmitCapacity
    /\ Move(c, "busy")
    /\ UNCHANGED <<free, submitCap, admit, box>>

CallAgain(c) ==
    /\ pc[c] = "busy"
    /\ Move(c, "idle")
    /\ UNCHANGED <<free, submitCap, admit, box>>

\* acquireSubmit: submitCap comes before the box.
TakeCap(c) ==
    /\ pc[c] = "capped"
    /\ submitCap < SubmitCapacity
    /\ submitCap' = submitCap + 1
    /\ Move(c, "waiting")
    /\ UNCHANGED <<free, admit, box>>

TakeBox(c) ==
    /\ pc[c] = "waiting"
    /\ free # <<>>
    /\ free' = Tail(free)
    /\ box' = [box EXCEPT ![c] = Head(free)]
    /\ Move(c, "holding")
    /\ UNCHANGED <<submitCap, admit>>

\* Mutant: a run hands back a submitCap token too.
AfterBoxShared(c) == "uncapping"

\* What a call that no longer has, or wants, a box gives back next.
AfterBox(c) == IF c \in Submits THEN "uncapping" ELSE "leaving"

\* Mutant: a batch that times out waiting for a box keeps its submitCap token.
GiveUpCapped(c) ==
    /\ pc[c] \in {"capped", "waiting"}
    /\ Move(c, "leaving")
    /\ UNCHANGED <<free, submitCap, admit, box>>

\* waitCtx.Done(): maxWait is over or the caller's context ended.  A select may
\* choose it although the other case is ready as well.
GiveUp(c) ==
    /\ pc[c] \in {"capped", "waiting"}
    /\ Move(c, IF pc[c] = "capped" THEN "leaving" ELSE AfterBox(c))
    /\ UNCHANGED <<free, submitCap, admit, box>>

\* Mutant: the box of a batch goes back only if somebody waits for it.
ReturnBoxIfWanted(c) ==
    /\ pc[c] = "holding"
    /\ free' = IF \E d \in Callers : pc[d] = "waiting" THEN Append(free, box[c]) ELSE free
    /\ box' = [box EXCEPT ![c] = NoBox]
    /\ Move(c, AfterBox(c))
    /\ UNCHANGED <<submitCap, admit>>

\* release, in its order: the box, the submitCap token, the admit token.  The
\* guards are those of the channels: a send needs room, a receive a token.
ReturnBox(c) ==
    /\ pc[c] = "holding"
    /\ Len(free) < MaxConcurrent
    /\ free' = Append(free, box[c])
    /\ box' = [box EXCEPT ![c] = NoBox]
    /\ Move(c, AfterBox(c))
    /\ UNCHANGED <<submitCap, admit>>

ReturnCap(c) ==
    /\ pc[c] = "uncapping"
    /\ submitCap > 0
    /\ submitCap' = submitCap - 1
    /\ Move(c, "leaving")
    /\ UNCHANGED <<free, admit, box>>

ReturnAdmit(c) ==
    /\ pc[c] = "leaving"
    /\ admit > 0
    /\ admit' = admit - 1
    /\ Move(c, "idle")
    /\ UNCHANGED <<free, submitCap, box>>

-----------------------------------------------------------------------------
Progress(c) ==
    \/ TakeCap(c) \/ TakeBox(c) \/ GiveUp(c)
    \/ ReturnBox(c) \/ ReturnCap(c) \/ ReturnAdmit(c)

Next == \E c \in Callers : Admit(c) \/ Refuse(c) \/ CallAgain(c) \/ Progress(c)

Spec == Init /\ [][Next]_vars

\* Every program ends (it is killed at its wall limit) and every wait does
\* (maxWait is set): a call that was admitted keeps going.
FairSpec == Spec /\ \A c \in Callers : WF_vars(Progress(c))

-----------------------------------------------------------------------------
\* Channels within their capacities, calls and boxes with their types.
TypeOK ==
    /\ free \in Seq(Boxes)
    /\ submitCap \in 0..SubmitCapacity
    /\ admit \in 0..AdmitCapacity
    /\ pc \in [Callers -> Places]
    /\ box \in [Callers -> Boxes \cup {NoBox}]

\* No box is lost, and none is free and in use or in use twice: two programs
\* never share a sandbox, whatever times out or is refused meanwhile.
BoxExclusive ==
    /\ \A i, j \in DOMAIN free : free[i] = free[j] => i = j
    /\ \A c, d \in Callers : box[c] = box[d] /\ box[c] # NoBox => c = d
    /\ \A c \in Callers, i \in DOMAIN free : box[c] # free[i]
    /\ \A c \in Callers : box[c] # NoBox <=> pc[c] = "holding"
    /\ \A b \in Boxes : (\E i \in DOMAIN free : free[i] = b) \/ (\E c \in Callers : box[c] = b)

\* Each channel holds a token for exactly those calls that owe one: nothing
\* leaks on the paths that give up, and no receive of release can block.
TokensExact ==
    /\ admit = Cardinality(InFlight(Callers))
    /\ submitCap = Cardinality(Capped)

\* docs/deployment.md: boxes are "reserved for interactive /run calls so test
\* runs don't queue behind batch submissions".  While no more runs are in
\* flight than boxes are reserved, one that waits finds a box free.
ReservedBox ==
    Cardinality(InFlight(Runs)) <= Reserve =>
        \A r \in Runs : pc[r] = "waiting" => free # <<>>

\* Workers beyond the batches that may have boxes: by the default of config.go none.
ExcessWorkers == Cardinality(Submits) - SubmitCapacity
RoomForRuns == Reserve + QueueLength - (IF ExcessWorkers > 0 THEN ExcessWorkers ELSE 0)

\* A run is refused on arrival only when the runs in flight fill the reserve and
\* the queue, but for one place of the queue to each worker in excess: batches
\* alone do not make the node busy for it.
RefusedByRunsOnly ==
    [][\A r \in Runs : pc[r] = "idle" /\ pc'[r] = "busy" =>
           Cardinality(InFlight(Runs)) >= RoomForRuns]_vars

\* What is reserved for runs stays theirs, on arrival and while they wait for a box.
ReserveKept == []ReservedBox /\ RefusedByRunsOnly

\* A call that was admitted ends, and gives everything back.
CallEnds == \A c \in Callers : pc[c] \notin {"idle", "busy"} ~> pc[c] = "idle"
=============================================================================
