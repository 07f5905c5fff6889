------------------------ MODULE RunnerLimiterProofs -------------------------
(***************************************************************************)
(* Proofs about RunnerLimiter for any number of calls, boxes and places in *)
(* the queue, and any reserve.                                             *)
(***************************************************************************)
EXTENDS RunnerLimiter, FiniteSetTheorems, TLAPS

-----------------------------------------------------------------------------
(* The inductive invariant.                                                *)

Holding(C) == {c \in C : pc[c] = "holding"}

\* A box is in the channel or with a call that holds one.
BoxesCounted == Len(free) + Cardinality(Holding(Callers)) = MaxConcurrent

\* Only batches wait for, and give back, tokens of submitCap.
OnlyBatchesCapped == \A c \in Callers : pc[c] \in {"capped", "uncapping"} => c \in Submits

LimiterInv == TypeOK /\ BoxExclusive /\ TokensExact /\ BoxesCounted /\ OnlyBatchesCapped

-----------------------------------------------------------------------------
(* Lemmas about the constants and about one call that moves.               *)

\* What newLimiter computes is in range, and the reserve is what batches may not have.
LEMMA Capacities ==
    /\ QueueLength \in Nat
    /\ Reserve \in 0 .. (MaxConcurrent - 1)
    /\ SubmitCapacity = MaxConcurrent - Reserve
    /\ AdmitCapacity = MaxConcurrent + QueueLength
  BY LimiterAssumption DEF QueueLength, Reserve, SubmitCapacity, AdmitCapacity

\* Calls are finitely many, and so are those in any of the counted sets.
LEMMA FiniteCalls ==
    ASSUME NEW C \in SUBSET Callers
    PROVE  /\ IsFiniteSet(C) /\ Cardinality(C) \in Nat
           /\ IsFiniteSet(InFlight(C)) /\ Cardinality(InFlight(C)) \in Nat
           /\ IsFiniteSet(Holding(C)) /\ Cardinality(Holding(C)) \in Nat
           /\ IsFiniteSet(Capped) /\ Cardinality(Capped) \in Nat
<1>1. IsFiniteSet(Callers)
  BY CallersAssumption, FS_Union DEF Callers
<1>2. \A T \in SUBSET Callers : IsFiniteSet(T) /\ Cardinality(T) \in Nat
  BY <1>1, FS_Subset, FS_CardinalityType
<1>3. InFlight(C) \subseteq Callers /\ Holding(C) \subseteq Callers /\ Capped \subseteq Callers
  BY DEF InFlight, Holding, Capped, Callers
<1> QED
  BY <1>2, <1>3

\* How the counted sets change when one call moves.
LEMMA MoveSets ==
    ASSUME pc \in [Callers -> Places], NEW c \in Callers, NEW to \in Places, Move(c, to)
    PROVE  /\ pc' \in [Callers -> Places]
           /\ InFlight(Callers)' = IF to \in {"idle", "busy"} THEN InFlight(Callers) \ {c}
                                   ELSE InFlight(Callers) \cup {c}
           /\ Capped' = IF c \in Submits /\ to \in {"waiting", "holding", "uncapping"}
                        THEN Capped \cup {c} ELSE Capped \ {c}
           /\ Holding(Callers)' = IF to = "holding" THEN Holding(Callers) \cup {c}
                                  ELSE Holding(Callers) \ {c}
  BY DEF Move, InFlight, Capped, Holding, Callers

\* What one element put in or taken out does to a count.
LEMMA CountElement ==
    ASSUME NEW S, IsFiniteSet(S), NEW x, NEW T
    PROVE  /\ Cardinality(S) \in Nat
           /\ T = S \cup {x} => Cardinality(T) = Cardinality(S) + 1 - (IF x \in S THEN 1 ELSE 0)
           /\ T = S \ {x} => Cardinality(T) = Cardinality(S) - (IF x \in S THEN 1 ELSE 0)
<1>1. Cardinality(S \cup {x}) = IF x \in S THEN Cardinality(S) ELSE Cardinality(S) + 1
  BY FS_AddElement
<1>2. Cardinality(S \ {x}) = IF x \in S THEN Cardinality(S) - 1 ELSE Cardinality(S)
  BY FS_RemoveElement
<1>3. Cardinality(S) \in Nat
  BY FS_CardinalityType
<1>4. ASSUME T = S \cup {x}
      PROVE  Cardinality(T) = Cardinality(S) + 1 - (IF x \in S THEN 1 ELSE 0)
  <2>1. Cardinality(T) = Cardinality(S \cup {x})
    BY <1>4
  <2> QED
    BY <1>1, <1>3, <2>1
<1>5. ASSUME T = S \ {x}
      PROVE  Cardinality(T) = Cardinality(S) - (IF x \in S THEN 1 ELSE 0)
  <2>1. Cardinality(T) = Cardinality(S \ {x})
    BY <1>5
  <2> QED
    BY <1>2, <1>3, <2>1
<1> QED
  BY <1>3, <1>4, <1>5

\* How the counts change when one call moves.
Recounted(c, to) ==
    /\ Cardinality(InFlight(Callers)') =
         Cardinality(InFlight(Callers))
           + (IF to \in {"idle", "busy"} THEN 0 ELSE 1)
           - (IF pc[c] \in {"idle", "busy"} THEN 0 ELSE 1)
    /\ Cardinality(Capped') =
         Cardinality(Capped)
           + (IF c \in Submits /\ to \in {"waiting", "holding", "uncapping"} THEN 1 ELSE 0)
           - (IF c \in Submits /\ pc[c] \in {"waiting", "holding", "uncapping"} THEN 1 ELSE 0)
    /\ Cardinality(Holding(Callers)') =
         Cardinality(Holding(Callers))
           + (IF to = "holding" THEN 1 ELSE 0)
           - (IF pc[c] = "holding" THEN 1 ELSE 0)

LEMMA MoveCounts ==
    ASSUME pc \in [Callers -> Places], NEW c \in Callers, NEW to \in Places, Move(c, to)
    PROVE  Recounted(c, to)
<1>1. IsFiniteSet(InFlight(Callers)) /\ IsFiniteSet(Capped) /\ IsFiniteSet(Holding(Callers))
  BY FiniteCalls
<1>2. /\ c \in InFlight(Callers) <=> pc[c] \notin {"idle", "busy"}
      /\ c \in Capped <=> c \in Submits /\ pc[c] \in {"waiting", "holding", "uncapping"}
      /\ c \in Holding(Callers) <=> pc[c] = "holding"
  BY DEF InFlight, Capped, Holding
<1>3. \A S, T : IsFiniteSet(S) =>
          /\ Cardinality(S) \in Nat
          /\ T = S \cup {c} => Cardinality(T) = Cardinality(S) + 1 - (IF c \in S THEN 1 ELSE 0)
          /\ T = S \ {c} => Cardinality(T) = Cardinality(S) - (IF c \in S THEN 1 ELSE 0)
  BY CountElement
<1>4. Cardinality(InFlight(Callers)') = Cardinality(InFlight(Callers))
          + (IF to \in {"idle", "busy"} THEN 0 ELSE 1)
          - (IF pc[c] \in {"idle", "busy"} THEN 0 ELSE 1)
  BY <1>1, <1>2, <1>3, MoveSets
<1>5. Cardinality(Capped') = Cardinality(Capped)
          + (IF c \in Submits /\ to \in {"waiting", "holding", "uncapping"} THEN 1 ELSE 0)
          - (IF c \in Submits /\ pc[c] \in {"waiting", "holding", "uncapping"} THEN 1 ELSE 0)
  BY <1>1, <1>2, <1>3, MoveSets
<1>6. Cardinality(Holding(Callers)') = Cardinality(Holding(Callers))
          + (IF to = "holding" THEN 1 ELSE 0)
          - (IF pc[c] = "holding" THEN 1 ELSE 0)
  BY <1>1, <1>2, <1>3, MoveSets
<1> QED
  BY <1>4, <1>5, <1>6 DEF Recounted

-----------------------------------------------------------------------------
(* The invariant is inductive.                                             *)

LEMMA InitInv == Init => LimiterInv
<1> SUFFICES ASSUME Init PROVE LimiterInv
  OBVIOUS
<1> USE LimiterAssumption, Capacities DEF Init
<1>1. TypeOK
  BY DEF TypeOK, Boxes, Places
<1>2. BoxExclusive /\ OnlyBatchesCapped
  BY DEF BoxExclusive, OnlyBatchesCapped, Boxes, NoBox
<1>3. InFlight(Callers) = {} /\ Capped = {} /\ Holding(Callers) = {}
  BY DEF InFlight, Capped, Holding, Callers
<1>4. TokensExact
  BY <1>3, FS_EmptySet DEF TokensExact
<1>5. BoxesCounted
  BY <1>3, FS_EmptySet DEF BoxesCounted
<1> QED
  BY <1>1, <1>2, <1>4, <1>5 DEF LimiterInv

\* A call that moves between other places than "holding" leaves the boxes alone.
LEMMA BoxesUntouched ==
    ASSUME LimiterInv, NEW c \in Callers, NEW to \in Places, Move(c, to),
           pc[c] # "holding", to # "holding", UNCHANGED <<free, box>>
    PROVE  BoxExclusive' /\ BoxesCounted'
<1>1. BoxExclusive'
  BY DEF LimiterInv, TypeOK, BoxExclusive, Move
<1>2. Cardinality(Holding(Callers)') = Cardinality(Holding(Callers))
  <2>1. Recounted(c, to)
    BY MoveCounts DEF LimiterInv, TypeOK
  <2> QED
    BY <2>1, FiniteCalls DEF Recounted
<1> QED
  BY <1>1, <1>2 DEF LimiterInv, BoxesCounted

\* The counts that TokensExact speaks of are numbers.
LEMMA CountsType ==
    ASSUME LimiterInv
    PROVE  /\ pc \in [Callers -> Places] /\ admit \in Nat /\ submitCap \in Nat
           /\ admit = Cardinality(InFlight(Callers)) /\ submitCap = Cardinality(Capped)
           /\ Cardinality(Holding(Callers)) \in Nat /\ Len(free) \in Nat
  BY FiniteCalls, Capacities DEF LimiterInv, TypeOK, TokensExact

\* Arriving: a call is admitted, refused or tried again.
LEMMA ArriveInv ==
    ASSUME LimiterInv, NEW c \in Callers, Admit(c) \/ Refuse(c) \/ CallAgain(c)
    PROVE  LimiterInv'
<1> USE LimiterAssumption, Capacities
<1>1. CASE Admit(c)
  <2>1. PICK to \in {"capped", "waiting"} : Move(c, to) /\ (to = "capped" => c \in Submits)
                                          /\ (to = "waiting" => c \notin Submits)
    BY <1>1 DEF Admit
  <2>2. to \in Places /\ to # "holding"
    BY DEF Places
  <2>3. TypeOK' /\ OnlyBatchesCapped'
    BY <1>1, <2>1, <2>2 DEF LimiterInv, TypeOK, OnlyBatchesCapped, Admit, Move
  <2>4. TokensExact'
    <3>1. Recounted(c, to)
      BY <2>1, <2>2, MoveCounts, CountsType
    <3>2. Cardinality(InFlight(Callers)') = Cardinality(InFlight(Callers)) + 1
      BY <1>1, <2>1, <3>1, CountsType DEF Recounted, Admit
    <3>3. Cardinality(Capped') = Cardinality(Capped)
      BY <1>1, <2>1, <3>1, CountsType DEF Recounted, Admit
    <3> QED
      BY <1>1, <3>2, <3>3, CountsType DEF TokensExact, Admit
  <2> QED
    BY <1>1, <2>1, <2>2, <2>3, <2>4, BoxesUntouched DEF Admit, LimiterInv
<1>2. CASE Refuse(c) \/ CallAgain(c)
  <2>1. PICK to \in {"idle", "busy"} : Move(c, to)
    BY <1>2 DEF Refuse, CallAgain
  <2>2. to \in Places /\ pc[c] \in {"idle", "busy"} /\ UNCHANGED <<free, submitCap, admit, box>>
    BY <1>2 DEF Refuse, CallAgain, Places
  <2>3. TypeOK' /\ OnlyBatchesCapped'
    BY <2>1, <2>2 DEF LimiterInv, TypeOK, OnlyBatchesCapped, Move
  <2>4. TokensExact'
    <3>1. Recounted(c, to)
      BY <2>1, <2>2, MoveCounts, CountsType
    <3>2. Cardinality(InFlight(Callers)') = Cardinality(InFlight(Callers))
      BY <2>1, <2>2, <3>1, CountsType DEF Recounted
    <3>3. Cardinality(Capped') = Cardinality(Capped)
      BY <2>1, <2>2, <3>1, CountsType DEF Recounted
    <3> QED
      BY <2>2, <3>2, <3>3, CountsType DEF TokensExact
  <2> QED
    BY <2>1, <2>2, <2>3, <2>4, BoxesUntouched DEF LimiterInv
<1> QED
  BY <1>1, <1>2

\* Waiting: a call takes a token of submitCap or gives up.
LEMMA WaitInv ==
    ASSUME LimiterInv, NEW c \in Callers, TakeCap(c) \/ GiveUp(c)
    PROVE  LimiterInv'
<1> USE LimiterAssumption, Capacities
<1>1. CASE TakeCap(c)
  <2>1. PICK to \in Places :
          to = "waiting" /\ Move(c, to) /\ pc[c] = "capped" /\ c \in Submits
    BY <1>1 DEF TakeCap, Places, LimiterInv, OnlyBatchesCapped
  <2>2. TypeOK' /\ OnlyBatchesCapped'
    BY <1>1, <2>1 DEF LimiterInv, TypeOK, OnlyBatchesCapped, TakeCap, Move
  <2>3. TokensExact'
    <3>0. Recounted(c, to)
      BY <2>1, MoveCounts, CountsType
    <3>1. Cardinality(InFlight(Callers)') = Cardinality(InFlight(Callers))
      BY <2>1, <3>0, CountsType DEF Recounted
    <3>2. Cardinality(Capped') = Cardinality(Capped) + 1
      BY <2>1, <3>0, CountsType DEF Recounted
    <3> QED
      BY <1>1, <3>1, <3>2, CountsType DEF TokensExact, TakeCap
  <2> QED
    BY <1>1, <2>1, <2>2, <2>3, BoxesUntouched DEF TakeCap, LimiterInv
<1>2. CASE GiveUp(c)
  <2>1. PICK to \in {"leaving", "uncapping"} :
          /\ Move(c, to)
          /\ to = "uncapping" <=> (pc[c] = "waiting" /\ c \in Submits)
    BY <1>2 DEF GiveUp, AfterBox
  <2>2. /\ to \in Places /\ to # "holding" /\ pc[c] \in {"capped", "waiting"}
        /\ UNCHANGED <<free, submitCap, admit, box>>
    BY <1>2 DEF GiveUp, Places
  <2>3. TypeOK' /\ OnlyBatchesCapped'
    BY <2>1, <2>2 DEF LimiterInv, TypeOK, OnlyBatchesCapped, Move
  <2>4. TokensExact'
    <3>0. Recounted(c, to)
      BY <2>1, <2>2, MoveCounts, CountsType
    <3>1. Cardinality(InFlight(Callers)') = Cardinality(InFlight(Callers))
      BY <2>1, <2>2, <3>0, CountsType DEF Recounted
    <3>2. Cardinality(Capped') = Cardinality(Capped)
      BY <2>1, <2>2, <3>0, CountsType DEF Recounted
    <3> QED
      BY <2>2, <3>1, <3>2, CountsType DEF TokensExact
  <2> QED
    BY <2>1, <2>2, <2>3, <2>4, BoxesUntouched DEF LimiterInv
<1> QED
  BY <1>1, <1>2

\* Leaving: the tokens go back.  Each is there, so no receive blocks.
LEMMA LeaveInv ==
    ASSUME LimiterInv, NEW c \in Callers, ReturnCap(c) \/ ReturnAdmit(c)
    PROVE  LimiterInv'
<1> USE LimiterAssumption, Capacities
<1>1. CASE ReturnCap(c)
  <2>1. PICK to \in Places :
          to = "leaving" /\ Move(c, to) /\ pc[c] = "uncapping" /\ c \in Submits
    BY <1>1 DEF ReturnCap, Places, LimiterInv, OnlyBatchesCapped
  <2>2. TypeOK' /\ OnlyBatchesCapped'
    BY <1>1, <2>1 DEF LimiterInv, TypeOK, OnlyBatchesCapped, ReturnCap, Move
  <2>3. TokensExact'
    <3>0. Recounted(c, to)
      BY <2>1, MoveCounts, CountsType
    <3>1. Cardinality(InFlight(Callers)') = Cardinality(InFlight(Callers))
      BY <2>1, <3>0, CountsType DEF Recounted
    <3>2. Cardinality(Capped') = Cardinality(Capped) - 1
      BY <2>1, <3>0, CountsType DEF Recounted
    <3> QED
      BY <1>1, <3>1, <3>2, CountsType DEF TokensExact, ReturnCap
  <2> QED
    BY <1>1, <2>1, <2>2, <2>3, BoxesUntouched DEF ReturnCap, LimiterInv
<1>2. CASE ReturnAdmit(c)
  <2>1. PICK to \in Places : to = "idle" /\ Move(c, to) /\ pc[c] = "leaving"
    BY <1>2 DEF ReturnAdmit, Places
  <2>2. TypeOK' /\ OnlyBatchesCapped'
    BY <1>2, <2>1 DEF LimiterInv, TypeOK, OnlyBatchesCapped, ReturnAdmit, Move
  <2>3. TokensExact'
    <3>0. Recounted(c, to)
      BY <2>1, MoveCounts, CountsType
    <3>1. Cardinality(InFlight(Callers)') = Cardinality(InFlight(Callers)) - 1
      BY <2>1, <3>0, CountsType DEF Recounted
    <3>2. Cardinality(Capped') = Cardinality(Capped)
      BY <2>1, <3>0, CountsType DEF Recounted
    <3> QED
      BY <1>2, <3>1, <3>2, CountsType DEF TokensExact, ReturnAdmit
  <2> QED
    BY <1>2, <2>1, <2>2, <2>3, BoxesUntouched DEF ReturnAdmit, LimiterInv
<1> QED
  BY <1>1, <1>2

\* The oldest free box goes to a call that waits.
LEMMA TakeBoxInv ==
    ASSUME LimiterInv, NEW c \in Callers, TakeBox(c)
    PROVE  LimiterInv'
<1> USE LimiterAssumption, Capacities
<1>1. "holding" \in Places /\ Move(c, "holding") /\ pc[c] = "waiting"
  BY DEF TakeBox, Places
<1>2. /\ free \in Seq(Boxes) /\ free # <<>> /\ Len(free) \in Nat
      /\ Head(free) = free[1] /\ Head(free) \in Boxes /\ Tail(free) \in Seq(Boxes)
      /\ DOMAIN free = 1..Len(free) /\ 1 \in DOMAIN free
      /\ Len(Tail(free)) = Len(free) - 1 /\ DOMAIN Tail(free) = 1..(Len(free) - 1)
      /\ \A i \in 1..(Len(free) - 1) : Tail(free)[i] = free[i + 1]
  BY DEF LimiterInv, TypeOK, TakeBox
<1>3. TypeOK' /\ OnlyBatchesCapped'
  BY <1>1, <1>2 DEF LimiterInv, TypeOK, OnlyBatchesCapped, TakeBox, Move
<1>4. TokensExact'
  <2>0. Recounted(c, "holding")
    BY <1>1, MoveCounts, CountsType
  <2>1. Cardinality(InFlight(Callers)') = Cardinality(InFlight(Callers))
    BY <1>1, <2>0, CountsType DEF Recounted
  <2>2. Cardinality(Capped') = Cardinality(Capped)
    BY <1>1, <2>0, CountsType DEF Recounted
  <2> QED
    BY <2>1, <2>2, CountsType DEF TokensExact, TakeBox
<1>5. BoxesCounted'
  <2>1. Recounted(c, "holding")
    BY <1>1, MoveCounts, CountsType
  <2>2. Cardinality(Holding(Callers)') = Cardinality(Holding(Callers)) + 1
    BY <1>1, <2>1, CountsType DEF Recounted
  <2>3. Len(free') = Len(free) - 1
    BY <1>2 DEF TakeBox
  <2> QED
    BY <1>2, <2>2, <2>3, CountsType DEF LimiterInv, BoxesCounted
<1>6. BoxExclusive'
  <2>1. /\ box' = [box EXCEPT ![c] = free[1]] /\ free' = Tail(free)
        /\ pc' = [pc EXCEPT ![c] = "holding"]
        /\ box \in [Callers -> Boxes \cup {NoBox}] /\ pc \in [Callers -> Places]
        /\ NoBox \notin Boxes
    BY <1>2 DEF TakeBox, Move, LimiterInv, TypeOK, NoBox, Boxes
  <2>2. \A i, j \in DOMAIN free' : free'[i] = free'[j] => i = j
    BY <1>2, <2>1 DEF LimiterInv, BoxExclusive
  <2>3. \A d, e \in Callers : box'[d] = box'[e] /\ box'[d] # NoBox => d = e
    BY <1>2, <2>1 DEF LimiterInv, BoxExclusive
  <2>4. \A d \in Callers, i \in DOMAIN free' : box'[d] # free'[i]
    <3>1. \A d \in Callers, i \in DOMAIN free : box[d] # free[i]
      BY DEF LimiterInv, BoxExclusive
    <3>2. \A i \in DOMAIN free' : /\ i + 1 \in DOMAIN free /\ free'[i] = free[i + 1]
                                 /\ free'[i] # free[1]
      BY <1>2, <2>1, SMTT(20) DEF LimiterInv, BoxExclusive
    <3>3. \A d \in Callers : box'[d] = box[d] \/ box'[d] = free[1]
      BY <2>1
    <3> QED
      BY <3>1, <3>2, <3>3
  <2>5. \A d \in Callers : box'[d] # NoBox <=> pc'[d] = "holding"
    BY <1>2, <2>1 DEF LimiterInv, BoxExclusive
  <2>6. ASSUME NEW b \in Boxes
        PROVE  (\E i \in DOMAIN free' : free'[i] = b) \/ (\E d \in Callers : box'[d] = b)
    <3>1. CASE b = free[1]
      BY <2>1, <3>1
    <3>2. CASE \E i \in DOMAIN free : i # 1 /\ free[i] = b
      <4>1. PICK i \in 1..Len(free) : i # 1 /\ free[i] = b
        BY <3>2, <1>2
      <4>2. i - 1 \in DOMAIN free' /\ free'[i - 1] = b
        BY <1>2, <2>1, <4>1
      <4> QED
        BY <4>2
    <3>3. CASE \E d \in Callers : box[d] = b
      BY <1>1, <2>1, <3>3 DEF LimiterInv, BoxExclusive
    <3> QED
      BY <1>2, <3>1, <3>2, <3>3 DEF LimiterInv, BoxExclusive
  <2> QED
    BY <2>2, <2>3, <2>4, <2>5, <2>6 DEF BoxExclusive
<1> QED
  BY <1>3, <1>4, <1>5, <1>6 DEF LimiterInv

\* A box goes back to the end of the channel.
LEMMA ReturnBoxInv ==
    ASSUME LimiterInv, NEW c \in Callers, ReturnBox(c)
    PROVE  LimiterInv'
<1> USE LimiterAssumption, Capacities
<1>1. PICK to \in {"leaving", "uncapping"} :
        Move(c, to) /\ (to = "uncapping" <=> c \in Submits)
  BY DEF ReturnBox, AfterBox
<1>2. /\ to \in Places /\ pc[c] = "holding" /\ box[c] \in Boxes /\ NoBox \notin Boxes
      /\ free \in Seq(Boxes) /\ Len(free) \in Nat /\ DOMAIN free = 1..Len(free)
  BY DEF ReturnBox, Places, LimiterInv, TypeOK, BoxExclusive, NoBox, Boxes
<1>3. /\ Append(free, box[c]) \in Seq(Boxes)
      /\ DOMAIN Append(free, box[c]) = 1..(Len(free) + 1)
      /\ Len(Append(free, box[c])) = Len(free) + 1
      /\ \A i \in 1..Len(free) : Append(free, box[c])[i] = free[i]
      /\ Append(free, box[c])[Len(free) + 1] = box[c]
  BY <1>2
<1>4. TypeOK' /\ OnlyBatchesCapped'
  BY <1>1, <1>2, <1>3 DEF LimiterInv, TypeOK, OnlyBatchesCapped, ReturnBox, Move
<1>5. TokensExact'
  <2>0. Recounted(c, to)
    BY <1>1, <1>2, MoveCounts, CountsType
  <2>1. Cardinality(InFlight(Callers)') = Cardinality(InFlight(Callers))
    BY <1>1, <1>2, <2>0, CountsType DEF Recounted
  <2>2. Cardinality(Capped') = Cardinality(Capped)
    BY <1>1, <1>2, <2>0, CountsType DEF Recounted
  <2> QED
    BY <2>1, <2>2, CountsType DEF TokensExact, ReturnBox
<1>6. BoxesCounted'
  <2>1. Recounted(c, to)
    BY <1>1, <1>2, MoveCounts, CountsType
  <2>2. Cardinality(Holding(Callers)') = Cardinality(Holding(Callers)) - 1
    BY <1>1, <1>2, <2>1, CountsType DEF Recounted
  <2>3. Len(free') = Len(free) + 1
    BY <1>2, <1>3 DEF ReturnBox
  <2> QED
    BY <1>2, <2>2, <2>3, CountsType DEF LimiterInv, BoxesCounted
<1>7. BoxExclusive'
  <2>1. /\ box' = [box EXCEPT ![c] = NoBox] /\ free' = Append(free, box[c])
        /\ pc' = [pc EXCEPT ![c] = to]
        /\ box \in [Callers -> Boxes \cup {NoBox}] /\ pc \in [Callers -> Places]
    BY <1>1 DEF ReturnBox, Move, LimiterInv, TypeOK
  <2>2. \A i, j \in DOMAIN free' : free'[i] = free'[j] => i = j
    BY <1>2, <1>3, <2>1 DEF LimiterInv, BoxExclusive
  <2>3. \A d, e \in Callers : box'[d] = box'[e] /\ box'[d] # NoBox => d = e
    BY <2>1 DEF LimiterInv, BoxExclusive
  <2>4. \A d \in Callers, i \in DOMAIN free' : box'[d] # free'[i]
    BY <1>2, <1>3, <2>1 DEF LimiterInv, BoxExclusive
  <2>5. \A d \in Callers : box'[d] # NoBox <=> pc'[d] = "holding"
    BY <1>1, <2>1 DEF LimiterInv, BoxExclusive
  <2>6. ASSUME NEW b \in Boxes
        PROVE  (\E i \in DOMAIN free' : free'[i] = b) \/ (\E d \in Callers : box'[d] = b)
    <3>1. CASE b = box[c]
      <4>1. Len(free) + 1 \in DOMAIN free' /\ free'[Len(free) + 1] = b
        BY <1>2, <1>3, <2>1, <3>1
      <4> QED
        BY <4>1
    <3>2. CASE \E i \in DOMAIN free : free[i] = b
      BY <1>2, <1>3, <2>1, <3>2
    <3>3. CASE b # box[c] /\ \E d \in Callers : box[d] = b
      BY <2>1, <3>3
    <3> QED
      BY <3>1, <3>2, <3>3 DEF LimiterInv, BoxExclusive
  <2> QED
    BY <2>2, <2>3, <2>4, <2>5, <2>6 DEF BoxExclusive
<1> QED
  BY <1>4, <1>5, <1>6, <1>7 DEF LimiterInv

LEMMA NextInv == LimiterInv /\ [Next]_vars => LimiterInv'
<1> SUFFICES ASSUME LimiterInv, [Next]_vars PROVE LimiterInv'
  OBVIOUS
<1>1. CASE Next
  <2>1. PICK c \in Callers : Admit(c) \/ Refuse(c) \/ CallAgain(c) \/ Progress(c)
    BY <1>1 DEF Next
  <2> QED
    BY <2>1, ArriveInv, WaitInv, LeaveInv, TakeBoxInv, ReturnBoxInv DEF Progress
<1>2. CASE UNCHANGED vars
  BY <1>2 DEF vars, LimiterInv, TypeOK, BoxExclusive, TokensExact, BoxesCounted,
              OnlyBatchesCapped, InFlight, Capped, Holding
<1> QED
  BY <1>1, <1>2

-----------------------------------------------------------------------------
(* The theorems.                                                           *)

\* The invariant above, from which the others follow.
THEOREM LimiterInvariant == Spec => []LimiterInv
  BY InitInv, NextInv, PTL DEF Spec

\* Channels never hold more tokens than their capacity, nor less than none, and every
\* call and box has its type (the guards of limiter.go's selects).
THEOREM TypeCorrect == Spec => []TypeOK
<1>1. LimiterInv => TypeOK
  BY DEF LimiterInv
<1> QED
  BY <1>1, LimiterInvariant, PTL

\* Two programs never share a sandbox and no sandbox is lost, however many calls time
\* out, are refused or leave in any order (acquireRun, acquireSubmit and their releases).
THEOREM BoxesExclusive == Spec => []BoxExclusive
<1>1. LimiterInv => BoxExclusive
  BY DEF LimiterInv
<1> QED
  BY <1>1, LimiterInvariant, PTL

\* Both channels of tokens count exactly the calls that owe one.
THEOREM TokensAccounted == Spec => []TokensExact
<1>1. LimiterInv => TokensExact
  BY DEF LimiterInv
<1> QED
  BY <1>1, LimiterInvariant, PTL

\* With no free box, batches hold at most what is not reserved, so as many runs are in
\* flight as boxes are reserved, and the one that waits.
LEMMA ReservedBoxFollows == LimiterInv => ReservedBox
<1> SUFFICES ASSUME LimiterInv, Cardinality(InFlight(Runs)) <= Reserve,
                    NEW r \in Runs, pc[r] = "waiting", free = <<>>
             PROVE  FALSE
  BY DEF ReservedBox
<1> DEFINE HeldByRuns == Holding(Runs)
           HeldByBatches == Holding(Submits)
<1>1. /\ Runs \subseteq Callers /\ Submits \subseteq Callers
      /\ Holding(Callers) = HeldByRuns \cup HeldByBatches
      /\ HeldByRuns \cap HeldByBatches = {}
      /\ HeldByBatches \subseteq Capped
      /\ HeldByRuns \cup {r} \subseteq InFlight(Runs)
      /\ r \notin HeldByRuns
  BY CallersAssumption DEF Callers, Holding, Capped, InFlight
<1>2. /\ IsFiniteSet(HeldByRuns) /\ Cardinality(HeldByRuns) \in Nat
      /\ IsFiniteSet(HeldByBatches) /\ Cardinality(HeldByBatches) \in Nat
      /\ IsFiniteSet(InFlight(Runs)) /\ Cardinality(InFlight(Runs)) \in Nat
      /\ IsFiniteSet(Capped) /\ Cardinality(Capped) \in Nat
  BY <1>1, FiniteCalls
<1> HIDE DEF HeldByRuns, HeldByBatches
<1>3. Cardinality(Holding(Callers)) = Cardinality(HeldByRuns) + Cardinality(HeldByBatches)
  <2>1. Cardinality(HeldByRuns \cup HeldByBatches)
          = Cardinality(HeldByRuns) + Cardinality(HeldByBatches)
              - Cardinality(HeldByRuns \cap HeldByBatches)
    BY <1>2, FS_Union
  <2>2. Cardinality(HeldByRuns \cap HeldByBatches) = 0
    BY <1>1, FS_EmptySet
  <2> QED
    BY <1>1, <1>2, <2>1, <2>2
<1>4. Cardinality(HeldByBatches) <= Cardinality(Capped)
  BY <1>1, <1>2, FS_Subset
<1>5. Cardinality(HeldByRuns) + 1 <= Cardinality(InFlight(Runs))
  <2>1. Cardinality(HeldByRuns \cup {r}) = Cardinality(HeldByRuns) + 1
    BY <1>1, <1>2, FS_AddElement
  <2>2. Cardinality(HeldByRuns \cup {r}) <= Cardinality(InFlight(Runs))
    BY <1>1, <1>2, FS_Subset
  <2> QED
    BY <2>1, <2>2
<1>6. Len(free) = 0
  OBVIOUS
<1>7. Cardinality(Holding(Callers)) = MaxConcurrent
  BY <1>6, CountsType, LimiterAssumption DEF LimiterInv, BoxesCounted
<1>8. Cardinality(Capped) <= MaxConcurrent - Reserve
  BY CountsType, Capacities, LimiterAssumption DEF LimiterInv, TypeOK
<1> QED
  BY <1>2, <1>3, <1>4, <1>5, <1>7, <1>8, Capacities, LimiterAssumption

\* A refusal finds the admit channel full; batches hold at most a token each.
LEMMA RefusalFollows ==
    ASSUME LimiterInv, NEW c \in Callers, Refuse(c)
    PROVE  Cardinality(InFlight(Runs)) >= RoomForRuns
<1>1. /\ Runs \subseteq Callers /\ Submits \subseteq Callers
      /\ InFlight(Callers) = InFlight(Runs) \cup InFlight(Submits)
      /\ InFlight(Submits) \subseteq Submits
      /\ InFlight(Runs) \cap InFlight(Submits) = {}
  BY CallersAssumption DEF Callers, InFlight
<1>2. /\ IsFiniteSet(InFlight(Runs)) /\ Cardinality(InFlight(Runs)) \in Nat
      /\ IsFiniteSet(InFlight(Submits)) /\ Cardinality(InFlight(Submits)) \in Nat
      /\ IsFiniteSet(Submits) /\ Cardinality(Submits) \in Nat
  BY <1>1, FiniteCalls
<1>3. Cardinality(InFlight(Callers))
        = Cardinality(InFlight(Runs)) + Cardinality(InFlight(Submits))
  <2>1. Cardinality(InFlight(Runs) \cup InFlight(Submits))
          = Cardinality(InFlight(Runs)) + Cardinality(InFlight(Submits))
              - Cardinality(InFlight(Runs) \cap InFlight(Submits))
    BY <1>2, FS_Union
  <2>2. Cardinality(InFlight(Runs) \cap InFlight(Submits)) = 0
    BY <1>1, FS_EmptySet
  <2> QED
    BY <1>1, <1>2, <2>1, <2>2
<1>4. Cardinality(InFlight(Submits)) <= Cardinality(Submits)
  BY <1>1, <1>2, FS_Subset
<1>5. Cardinality(InFlight(Callers)) = MaxConcurrent + QueueLength
  BY CountsType, Capacities DEF Refuse
<1> QED
  BY <1>2, <1>3, <1>4, <1>5, Capacities, LimiterAssumption DEF RoomForRuns, ExcessWorkers

\* The reserve of docs/deployment.md: a run that is among as many as boxes are reserved
\* finds a box, and a run is refused only when runs fill the places that are theirs.
THEOREM ReserveIsKept == Spec => ReserveKept
<1>1. LimiterInv /\ [Next]_vars =>
        [\A r \in Runs : pc[r] = "idle" /\ pc'[r] = "busy" =>
             Cardinality(InFlight(Runs)) >= RoomForRuns]_vars
  <2> SUFFICES ASSUME LimiterInv, Next, NEW r \in Runs, pc[r] = "idle", pc'[r] = "busy"
               PROVE  Cardinality(InFlight(Runs)) >= RoomForRuns
    BY DEF vars
  <2>1. PICK c \in Callers : Admit(c) \/ Refuse(c) \/ CallAgain(c) \/ Progress(c)
    BY DEF Next
  <2>2. Refuse(c)
    BY <2>1 DEF LimiterInv, TypeOK, Callers, Progress, Admit, CallAgain, TakeCap, TakeBox,
                GiveUp, AfterBox, ReturnBox, ReturnCap, ReturnAdmit, Move
  <2> QED
    BY <2>2, RefusalFollows
<1> QED
  BY <1>1, LimiterInvariant, ReservedBoxFollows, PTL DEF ReserveKept, RefusedByRunsOnly, Spec
=============================================================================
