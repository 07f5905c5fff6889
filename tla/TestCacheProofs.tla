--------------------------- MODULE TestCacheProofs ---------------------------
(***************************************************************************)
(* Proofs about TestCache: whatever the numbers of problems, callers,      *)
(* entries, edits and failures, the byte count is exact and within budget, *)
(* users are counted, and no call is given tests older than it may get.    *)
(***************************************************************************)
EXTENDS TestCache, ListTheorems

-----------------------------------------------------------------------------
(* The invariant, on a map, heap and calls that a step may still prune.    *)

MapType == [Problems -> Entries \cup {None}]
HeapType == [Entries -> [phase : {"loading", "cached", "stale", "failed", "cancelled"},
                         ver : 0..MaxEdits, users : Nat, fresh : BOOLEAN]]
CallType == [Callers -> [pc : {"idle", "lookup", "waiting", "loading", "loaded", "using"},
                         prob : Problems \cup {None}, entry : Entries \cup {None},
                         ver : 0..MaxEdits, want : 0..MaxEdits]]

Stored(map, heap) == {p \in Problems : map[p] # None /\ heap[map[p]].phase = "cached"}

\* The map holds suites that load or are loaded, each for one problem.
MapSound(map, heap) ==
    /\ \A p \in Problems : map[p] # None => heap[map[p]].phase \in {"loading", "cached"}
    /\ \A p, q \in Problems : map[p] = map[q] /\ map[p] # None => p = q

Loads(u, calls) == calls[u].pc \in {"loading", "loaded"}

\* A suite in use is loaded; one being loaded has one loader, and no place in the map
\* but that of the loader's problem.
CallsSound(map, heap, calls) ==
    /\ \A u \in Callers : calls[u].pc # "idle" => calls[u].prob \in Problems
    /\ \A u \in Callers : calls[u].pc = "using" =>
           calls[u].entry \in Entries /\ heap[calls[u].entry].phase = "cached"
    /\ \A u \in Callers : Loads(u, calls) =>
           calls[u].entry \in Entries /\ heap[calls[u].entry].phase = "loading"
    /\ \A u \in Callers, p \in Problems :
           Loads(u, calls) /\ map[p] = calls[u].entry => p = calls[u].prob
    /\ \A u, v \in Callers :
           Loads(u, calls) /\ Loads(v, calls) /\ calls[u].entry = calls[v].entry => u = v

UsersOf(e, calls) == {u \in Callers : calls[u].pc = "using" /\ calls[u].entry = e}

UsersCounted(heap, calls) == \A e \in Entries : heap[e].users = Cardinality(UsersOf(e, calls))

\* The order of use is one of suites in the map.
Ordered(order, S) ==
    /\ order \subseteq S \X S
    /\ \A p \in S : <<p, p>> \notin order
    /\ \A p, q, r \in S : <<p, q>> \in order /\ <<q, r>> \in order => <<p, r>> \in order

Sound(map, heap, calls, order) ==
    /\ map \in MapType /\ heap \in HeapType /\ calls \in CallType
    /\ MapSound(map, heap)
    /\ CallsSound(map, heap, calls)
    /\ UsersCounted(heap, calls)
    /\ Ordered(order, Stored(map, heap))

Charged(map, heap, count) == count = TotalBytes(Stored(map, heap), map, heap)

\* What is cached, and what a loader is about to store, is no older than what stood
\* when the problem was last invalidated.
NoneTooOld(map, heap, calls) ==
    /\ \A p \in Stored(map, heap) : heap[map[p]].ver >= known[p]
    /\ \A u \in Callers : calls[u].pc = "loaded" /\ map[calls[u].prob] = calls[u].entry =>
           calls[u].ver >= known[calls[u].prob]

\* No call wants more than that, and what it uses is what it wants or newer.
NoneWantsMore(calls) ==
    /\ \A u \in Callers : calls[u].pc # "idle" => calls[u].want <= known[calls[u].prob]
    /\ \A u \in Callers : calls[u].pc = "using" => calls[u].ver >= calls[u].want

Excused(p) == listener # "up" \/ Owed(p) \/ p \in missed \cup quiet

\* What is cached, and what a loader is about to store, is up to date or excused.
Tracked(map, heap, calls) ==
    /\ \A p \in Stored(map, heap) : heap[map[p]].ver = version[p] \/ Excused(p)
    /\ \A u \in Callers : calls[u].pc = "loaded" /\ map[calls[u].prob] = calls[u].entry =>
           calls[u].ver = version[calls[u].prob] \/ Excused(calls[u].prob)

\* An edit is owed at most one invalidation at a time.
EditsCounted ==
    /\ SumFunction(version) <= MaxEdits
    /\ \A p \in Problems : edited[p] + unsent[p] + sent[p] <= version[p] /\ known[p] <= version[p]

Fresh(map, heap, calls) ==
    NoneTooOld(map, heap, calls) /\ NoneWantsMore(calls) /\ Tracked(map, heap, calls)

CacheInv ==
    /\ TypeOK
    /\ EditsCounted
    /\ Sound(byID, entry, caller, older)
    /\ Charged(byID, entry, bytes)
    /\ WithinBudget
    /\ Fresh(byID, entry, caller)

-----------------------------------------------------------------------------
(* Sums of bytes.                                                          *)

\* What every suite of P costs is a number.
LEMMA TotalOnSet ==
    ASSUME NEW map, NEW heap \in HeapType, NEW P \in SUBSET Problems,
           \A p \in P : map[p] \in Entries, NEW R \in SUBSET P
    PROVE  LET f == [p \in P |-> SuiteBytes[p, heap[map[p]].ver]] IN
           /\ \A p \in P : f[p] = SuiteBytes[p, heap[map[p]].ver] /\ f[p] \in Nat
           /\ TotalBytes(R, map, heap) = SumFunctionOnSet(f, R)
           /\ IsFiniteSet(P) /\ IsFiniteSet(R)
<1> DEFINE f == [p \in P |-> SuiteBytes[p, heap[map[p]].ver]]
           g == [p \in R |-> SuiteBytes[p, heap[map[p]].ver]]
<1>1. IsFiniteSet(P) /\ IsFiniteSet(R)
  BY CacheAssumption, FS_Subset
<1>2. ASSUME NEW p \in P PROVE f[p] = SuiteBytes[p, heap[map[p]].ver] /\ f[p] \in Nat
  <2>1. <<p, heap[map[p]].ver>> \in Problems \X (0..MaxEdits)
    BY DEF HeapType
  <2> QED
    BY <2>1, CacheAssumption
<1>3. SumFunctionOnSet(g, R) = SumFunctionOnSet(f, R)
  <2>1. \A p \in R : g[p] = f[p]
    OBVIOUS
  <2> HIDE DEF f, g
  <2> QED
    BY <1>1, <2>1, SumSame
<1>4. TotalBytes(R, map, heap) = SumFunctionOnSet(g, R)
  <2>1. DOMAIN g = R
    OBVIOUS
  <2> QED
    BY <2>1 DEF TotalBytes, SumFunction
<1> QED
  BY <1>1, <1>2, <1>3, <1>4

LEMMA TotalNat ==
    ASSUME NEW map, NEW heap \in HeapType, NEW P \in SUBSET Problems,
           \A p \in P : map[p] \in Entries
    PROVE  TotalBytes(P, map, heap) \in Nat
<1> DEFINE f == [p \in P |-> SuiteBytes[p, heap[map[p]].ver]]
<1>1. /\ \A p \in P : f[p] \in Nat
      /\ TotalBytes(P, map, heap) = SumFunctionOnSet(f, P) /\ IsFiniteSet(P)
  BY TotalOnSet
<1> HIDE DEF f
<1> QED
  BY <1>1, SumNat

\* A set of suites is charged as two parts of it are.
LEMMA TotalSplit ==
    ASSUME NEW map, NEW heap \in HeapType, NEW P \in SUBSET Problems,
           \A p \in P : map[p] \in Entries, NEW R \in SUBSET P
    PROVE  /\ TotalBytes(P, map, heap) = TotalBytes(R, map, heap) + TotalBytes(P \ R, map, heap)
           /\ TotalBytes(R, map, heap) \in Nat
           /\ TotalBytes(P \ R, map, heap) \in Nat
<1> DEFINE f == [p \in P |-> SuiteBytes[p, heap[map[p]].ver]]
<1>1. /\ \A p \in P : f[p] \in Nat
      /\ IsFiniteSet(P)
      /\ TotalBytes(P, map, heap) = SumFunctionOnSet(f, P)
      /\ TotalBytes(R, map, heap) = SumFunctionOnSet(f, R)
      /\ TotalBytes(P \ R, map, heap) = SumFunctionOnSet(f, P \ R)
  <2>1. P \ R \in SUBSET P /\ P \in SUBSET P
    OBVIOUS
  <2> QED
    BY <2>1, TotalOnSet
<1>2. TotalBytes(R, map, heap) \in Nat /\ TotalBytes(P \ R, map, heap) \in Nat
  BY TotalNat
<1> HIDE DEF f
<1> QED
  BY <1>1, <1>2, SumSplit

\* One suite is charged with what it has.
Cost(p, map, heap) == SuiteBytes[p, heap[map[p]].ver]

LEMMA TotalOne ==
    ASSUME NEW map, NEW heap \in HeapType, NEW P \in SUBSET Problems,
           \A p \in P : map[p] \in Entries, NEW p \in P
    PROVE  /\ TotalBytes(P, map, heap) = Cost(p, map, heap) + TotalBytes(P \ {p}, map, heap)
           /\ TotalBytes(P \ {p}, map, heap) \in Nat
           /\ Cost(p, map, heap) \in Nat
<1> DEFINE f == [q \in P |-> SuiteBytes[q, heap[map[q]].ver]]
<1>1. /\ \A q \in P : f[q] \in Nat
      /\ f[p] = Cost(p, map, heap)
      /\ IsFiniteSet(P)
      /\ TotalBytes(P, map, heap) = SumFunctionOnSet(f, P)
      /\ TotalBytes(P \ {p}, map, heap) = SumFunctionOnSet(f, P \ {p})
  <2>1. P \ {p} \in SUBSET P /\ P \in SUBSET P
    OBVIOUS
  <2> QED
    BY <2>1, TotalOnSet DEF Cost
<1>2. TotalBytes(P \ {p}, map, heap) \in Nat
  BY TotalNat
<1> HIDE DEF f
<1>3. SumFunctionOnSet(f, P) = f[p] + SumFunctionOnSet(f, P \ {p})
  BY <1>1, SumRemove
<1> QED
  BY <1>1, <1>2, <1>3

\* Nothing but the sizes matters.
LEMMA TotalSame ==
    ASSUME NEW P \in SUBSET Problems, NEW map, NEW heap, NEW map2, NEW heap2,
           \A p \in P : heap[map[p]].ver = heap2[map2[p]].ver
    PROVE  TotalBytes(P, map, heap) = TotalBytes(P, map2, heap2)
<1>1. [p \in P |-> SuiteBytes[p, heap[map[p]].ver]]
        = [p \in P |-> SuiteBytes[p, heap2[map2[p]].ver]]
  OBVIOUS
<1> QED
  BY <1>1 DEF TotalBytes

-----------------------------------------------------------------------------
(* Pruning: what is dropped from the map, and from the heap.               *)

\* A map of which some problems are dropped, and the heap without garbage, are as
\* sound as before; what remains is unchanged.
LEMMA PruneKeeps ==
    ASSUME NEW map, NEW heap, NEW order, Sound(map, heap, caller', order),
           byID' \in MapType, \A p \in Problems : byID'[p] \in {map[p], None},
           Keep(heap, order)
    PROVE  /\ Sound(byID', entry', caller', older')
           /\ \A p \in Problems : byID'[p] # None =>
                  byID'[p] = map[p] /\ map[p] \in Entries /\ entry'[byID'[p]] = heap[map[p]]
           /\ \A u \in Callers : caller'[u].entry \in Entries =>
                  entry'[caller'[u].entry] = heap[caller'[u].entry]
<1>0. None \notin Entries
  BY CacheAssumption
<1>1. /\ map \in MapType /\ heap \in HeapType /\ caller' \in CallType
      /\ MapSound(map, heap) /\ CallsSound(map, heap, caller')
      /\ UsersCounted(heap, caller') /\ Ordered(order, Stored(map, heap))
  BY DEF Sound
<1>2. entry' = [e \in Entries |-> IF e \in Live(byID', caller') THEN heap[e] ELSE Garbage]
  BY DEF Keep
<1>3. \A p \in Problems : byID'[p] # None =>
          byID'[p] = map[p] /\ map[p] \in Entries /\ entry'[byID'[p]] = heap[map[p]]
  BY <1>0, <1>1, <1>2 DEF Live, MapType
<1>4. \A u \in Callers : caller'[u].entry \in Entries =>
          entry'[caller'[u].entry] = heap[caller'[u].entry]
  BY <1>2 DEF Live
<1>5. entry' \in HeapType
  <2>1. Garbage \in [phase : {"loading", "cached", "stale", "failed", "cancelled"},
                     ver : 0..MaxEdits, users : Nat, fresh : BOOLEAN]
    BY CacheAssumption DEF Garbage, Slot
  <2> QED
    BY <1>1, <1>2, <2>1 DEF HeapType
<1>6. MapSound(byID', entry')
  BY <1>1, <1>3 DEF MapSound
<1>7. CallsSound(byID', entry', caller')
  <2>1. \A u \in Callers, p \in Problems :
           Loads(u, caller') /\ byID'[p] = caller'[u].entry => p = caller'[u].prob
    BY <1>0, <1>1, <1>3 DEF CallsSound
  <2> QED
    BY <1>1, <1>4, <2>1 DEF CallsSound
<1>8. UsersCounted(entry', caller')
  <2> SUFFICES ASSUME NEW e \in Entries
               PROVE  entry'[e].users = Cardinality(UsersOf(e, caller'))
    BY DEF UsersCounted
  <2>1. CASE e \in Live(byID', caller')
    BY <1>1, <1>2, <2>1 DEF UsersCounted
  <2>2. CASE e \notin Live(byID', caller')
    <3>1. UsersOf(e, caller') = {}
      BY <2>2 DEF UsersOf, Live
    <3>2. entry'[e].users = 0
      BY <1>2, <2>2 DEF Garbage, Slot
    <3> QED
      BY <3>1, <3>2, FS_EmptySet
  <2> QED
    BY <2>1, <2>2
<1>9. Ordered(older', Stored(byID', entry'))
  <2>1. Stored(byID', entry') = {p \in Stored(map, heap) : byID'[p] # None}
    BY <1>0, <1>3 DEF Stored
  <2>2. older' = {x \in order : byID'[x[1]] # None /\ byID'[x[2]] # None}
    BY DEF Keep
  <2> QED
    BY <1>1, <2>1, <2>2 DEF Ordered
<1> QED
  BY <1>1, <1>3, <1>4, <1>5, <1>6, <1>7, <1>8, <1>9 DEF Sound, MapType

\* If an idle suite is kept, so is one all of whose elders are gone.
LEMMA EldestKept ==
    ASSUME NEW idle \in SUBSET Problems, NEW S, idle \subseteq S, NEW order, Ordered(order, S),
           NEW gone \in SUBSET idle, gone # idle
    PROVE  \E p \in idle \ gone : {q \in idle : <<q, p>> \in order} \subseteq gone
<1> DEFINE elders(p) == {q \in idle : <<q, p>> \in order}
           G == {elders(p) : p \in idle \ gone}
<1>1. IsFiniteSet(idle)
  BY CacheAssumption, FS_Subset
<1>2. PICK T \in G : \A U \in G : U \subseteq T => U = T
  <2>1. G \in SUBSET SUBSET idle /\ G # {}
    OBVIOUS
  <2> HIDE DEF G
  <2> QED
    BY <1>1, <2>1, MinimalSubset
<1>3. PICK p \in idle \ gone : T = elders(p)
  BY <1>2
<1>4. ASSUME NEW q \in elders(p), q \notin gone PROVE FALSE
  <2>1. elders(q) \in G /\ q \in idle /\ <<q, p>> \in order
    BY <1>4
  <2>2. elders(q) \subseteq elders(p)
    BY <1>3, <2>1 DEF Ordered
  <2>3. q \in elders(p) /\ q \notin elders(q)
    BY <1>4, <2>1 DEF Ordered
  <2> QED
    BY <1>2, <1>3, <2>1, <2>2, <2>3
<1> QED
  BY <1>3, <1>4

\* evict restores the budget, and keeps what it keeps.
LEMMA EvictKeeps ==
    ASSUME NEW map, NEW heap, NEW order, NEW count, Sound(map, heap, caller', order),
           Charged(map, heap, count), evict(map, heap, count, order)
    PROVE  /\ Sound(byID', entry', caller', older')
           /\ Charged(byID', entry', bytes')
           /\ bytes' \in Nat
           /\ WithinBudget'
           /\ \A p \in Problems : byID'[p] # None =>
                  byID'[p] = map[p] /\ map[p] \in Entries /\ entry'[byID'[p]] = heap[map[p]]
<1> DEFINE idle == {p \in Problems : /\ map[p] # None
                                     /\ heap[map[p]].phase = "cached"
                                     /\ heap[map[p]].users = 0}
           gone == Evicted(map, heap, count, order)
           S == Stored(map, heap)
           total(P) == TotalBytes(P, map, heap)
           elders(p) == {q \in idle : <<q, p>> \in order}
<1>1. /\ map \in MapType /\ heap \in HeapType /\ Ordered(order, S) /\ count = total(S)
  BY DEF Sound, Charged
<1>2. /\ byID' = [p \in Problems |-> IF p \in gone THEN None ELSE map[p]]
      /\ bytes' = count - total(gone)
      /\ Keep(heap, order)
  BY DEF evict
<1>3. /\ gone = {p \in idle : count > MaxBytes + total(elders(p))}
      /\ idle \in SUBSET Problems /\ idle \in SUBSET S /\ S \in SUBSET Problems
      /\ \A p \in S : map[p] \in Entries
      /\ \A p \in S \ idle : heap[map[p]].users > 0
  BY <1>1 DEF Evicted, Stored, MapType, HeapType
<1>4. byID' \in MapType /\ \A p \in Problems : byID'[p] \in {map[p], None}
  BY <1>1, <1>2 DEF MapType
<1>5. /\ Sound(byID', entry', caller', older')
      /\ \A p \in Problems : byID'[p] # None =>
             byID'[p] = map[p] /\ map[p] \in Entries /\ entry'[byID'[p]] = heap[map[p]]
  BY <1>2, <1>4, PruneKeeps
<1>6. Stored(byID', entry') = S \ gone
  BY <1>2, <1>3, <1>5 DEF Stored
<1>7. \A p \in Problems : Cached(p)' => p \in Stored(byID', entry')
  BY DEF Stored, Cached
<1>8. gone \in SUBSET S /\ gone \in SUBSET idle
  BY <1>3
<1> HIDE DEF idle, gone, S
<1>9. /\ count = total(gone) + total(S \ gone)
      /\ total(S \ gone) \in Nat /\ total(gone) \in Nat /\ count \in Nat
  <2>1. /\ total(S) = total(gone) + total(S \ gone)
        /\ total(S \ gone) \in Nat /\ total(gone) \in Nat
    <3>1. heap \in HeapType
      BY <1>1
    <3>2. S \in SUBSET Problems
      BY <1>3
    <3>3. \A p \in S : map[p] \in Entries
      BY <1>3
    <3>4. gone \in SUBSET S
      BY <1>8
    <3>5. total(S) = total(gone) + total(S \ gone)
      BY <3>1, <3>2, <3>3, <3>4, TotalSplit
    <3>6. total(S \ gone) \in Nat
      BY <3>1, <3>2, <3>3, <3>4, TotalSplit
    <3>7. total(gone) \in Nat
      BY <3>1, <3>2, <3>3, <3>4, TotalSplit
    <3> QED
      BY <3>5, <3>6, <3>7
  <2> QED
    BY <1>1, <2>1
<1>10. Charged(byID', entry', bytes') /\ bytes' \in Nat
  <2>1. total(S \ gone) = TotalBytes(S \ gone, byID', entry')
    <3>1. \A p \in S \ gone : heap[map[p]].ver = entry'[byID'[p]].ver
      BY <1>2, <1>3, <1>5, CacheAssumption, ZenonT(40)
    <3>2. S \ gone \in SUBSET Problems
      BY <1>3
    <3> QED
      BY <3>1, <3>2, TotalSame
  <2>2. bytes' = total(S \ gone)
    BY <1>2, <1>9
  <2> QED
    BY <1>6, <1>9, <2>1, <2>2 DEF Charged
<1>11. WithinBudget'
  <2>1. CASE idle = gone
    <3>1. ASSUME NEW p \in Problems, Cached(p)' PROVE entry'[byID'[p]].users > 0
      <4>1. p \in S \ idle /\ byID'[p] # None
        BY <1>6, <1>7, <2>1, <3>1 DEF Cached
      <4> QED
        BY <1>3, <1>5, <4>1
    <3> QED
      BY <3>1 DEF WithinBudget
  <2>2. CASE idle # gone
    <3>1. PICK p \in idle \ gone : elders(p) \subseteq gone
      <4>1. /\ idle \in SUBSET Problems /\ gone \in SUBSET idle /\ idle \subseteq S
            /\ Ordered(order, S)
        BY <1>1, <1>3, <1>8
      <4> QED
        BY <2>2, <4>1, EldestKept
    <3>2. ~ (count > MaxBytes + total(elders(p)))
      BY <1>3, <3>1
    <3>3. /\ total(gone) = total(elders(p)) + total(gone \ elders(p))
          /\ total(elders(p)) \in Nat /\ total(gone \ elders(p)) \in Nat
      <4>1. gone \in SUBSET Problems /\ elders(p) \in SUBSET gone /\ \A q \in gone : map[q] \in Entries
        BY <1>3, <1>8, <3>1
      <4> HIDE DEF elders
      <4> QED
        BY <1>1, <4>1, TotalSplit
    <3>4. ~ (bytes' > MaxBytes)
      <4> HIDE DEF elders, total
      <4> QED
        BY <1>2, <1>9, <3>2, <3>3, CacheAssumption
    <3> QED
      BY <3>4 DEF WithinBudget
  <2> QED
    BY <2>1, <2>2
<1> QED
  BY <1>5, <1>10, <1>11

-----------------------------------------------------------------------------
(* What a step has to show.                                                *)

LEMMA ChargedNat ==
    ASSUME NEW map, NEW heap, NEW calls, NEW order, NEW count,
           Sound(map, heap, calls, order), Charged(map, heap, count)
    PROVE  count \in Nat
<1>1. /\ heap \in HeapType /\ Stored(map, heap) \in SUBSET Problems
      /\ \A p \in Stored(map, heap) : map[p] \in Entries
  BY DEF Sound, MapType, Stored
<1>2. TotalBytes(Stored(map, heap), map, heap) \in Nat
  BY <1>1, TotalNat
<1> QED
  BY <1>2 DEF Charged

\* What is no longer in the map cannot be too old.
LEMMA FreshKeeps ==
    ASSUME NEW map, NEW heap, UNCHANGED editVars, Fresh(map, heap, caller'),
           Sound(byID', entry', caller', older'),
           \A p \in Problems : byID'[p] # None =>
               byID'[p] = map[p] /\ map[p] \in Entries /\ entry'[byID'[p]] = heap[map[p]]
    PROVE  Fresh(byID, entry, caller)'
<1>1. \A p \in Stored(byID, entry)' : p \in Stored(map, heap) /\ entry'[byID'[p]] = heap[map[p]]
  BY DEF Stored
<1>2. \A u \in Callers :
          caller'[u].pc = "loaded" /\ byID'[caller'[u].prob] = caller'[u].entry =>
              map[caller'[u].prob] = caller'[u].entry
  BY CacheAssumption DEF Sound, CallsSound, Loads
<1>3. NoneTooOld(byID, entry, caller)'
  BY <1>1, <1>2 DEF Fresh, NoneTooOld, editVars
<1>4. NoneWantsMore(caller)'
  BY DEF Fresh, NoneWantsMore, editVars
<1>5. Tracked(byID, entry, caller)'
  <2>1. \A p \in Problems : Excused(p)' <=> Excused(p)
    BY DEF Excused, Owed, editVars
  <2>2. \A p \in Stored(byID, entry)' : entry'[byID'[p]].ver = version'[p] \/ Excused(p)'
    BY <1>1, <2>1 DEF Fresh, Tracked, editVars, Stored
  <2>3. \A u \in Callers :
           caller'[u].pc = "loaded" /\ byID'[caller'[u].prob] = caller'[u].entry =>
           caller'[u].ver = version'[caller'[u].prob] \/ Excused(caller[u].prob)'
    BY <1>2, <2>1 DEF Fresh, Tracked, editVars, Sound, CallsSound
  <2> QED
    BY <2>2, <2>3 DEF Tracked
<1> QED
  BY <1>3, <1>4, <1>5 DEF Fresh

\* A step of a caller leaves the edits alone.
LEMMA CallerCloses ==
    ASSUME CacheInv, UNCHANGED editVars, Sound(byID', entry', caller', older'),
           Charged(byID', entry', bytes'), WithinBudget', Fresh(byID, entry, caller)'
    PROVE  CacheInv'
<1>1. bytes' \in Nat
  BY ChargedNat
<1>2. older' \subseteq Problems \X Problems
  BY DEF Sound, Ordered, Stored
<1>3. TypeOK'
  BY <1>1, <1>2 DEF CacheInv, TypeOK, Sound, editVars, MapType, HeapType, CallType
<1>4. EditsCounted'
  BY DEF CacheInv, EditsCounted, editVars
<1> QED
  BY <1>3, <1>4 DEF CacheInv

LEMMA CallerEvicts ==
    ASSUME CacheInv, UNCHANGED editVars, NEW map, NEW heap, NEW order, NEW count,
           Sound(map, heap, caller', order), Charged(map, heap, count),
           Fresh(map, heap, caller'), evict(map, heap, count, order)
    PROVE  CacheInv'
<1>1. /\ Sound(byID', entry', caller', older')
      /\ Charged(byID', entry', bytes')
      /\ WithinBudget'
      /\ \A p \in Problems : byID'[p] # None =>
             byID'[p] = map[p] /\ map[p] \in Entries /\ entry'[byID'[p]] = heap[map[p]]
  BY EvictKeeps
<1>2. Fresh(byID, entry, caller)'
  BY <1>1, FreshKeeps
<1> QED
  BY <1>1, <1>2, CallerCloses

\* Nothing new is charged, and nothing charged loses a user: no suite need be evicted.
LEMMA BudgetKept ==
    ASSUME CacheInv, bytes' \in Nat, bytes' <= bytes,
           \A p \in Stored(byID, entry)' :
               p \in Stored(byID, entry) /\ entry'[byID'[p]].users = entry[byID[p]].users
    PROVE  WithinBudget'
<1>1. MaxBytes \in Nat /\ bytes \in Nat
  BY CacheAssumption DEF CacheInv, TypeOK
<1>2. \A p \in Problems : Cached(p)' => Cached(p) /\ entry'[byID'[p]].users = entry[byID[p]].users
  BY DEF Stored, Cached
<1> QED
  BY <1>1, <1>2 DEF CacheInv, WithinBudget

LEMMA CallerKeeps ==
    ASSUME CacheInv, UNCHANGED editVars, NEW map, NEW heap, NEW order,
           Sound(map, heap, caller', order), Charged(map, heap, bytes'),
           Fresh(map, heap, caller'), byID' = map, Keep(heap, order), bytes' <= bytes,
           \A p \in Stored(map, heap) :
               p \in Stored(byID, entry) /\ heap[map[p]].users = entry[byID[p]].users
    PROVE  CacheInv'
<1>1. byID' \in MapType /\ \A p \in Problems : byID'[p] \in {map[p], None}
  BY DEF Sound
<1>2. /\ Sound(byID', entry', caller', older')
      /\ \A p \in Problems : byID'[p] # None =>
             byID'[p] = map[p] /\ map[p] \in Entries /\ entry'[byID'[p]] = heap[map[p]]
  BY <1>1, PruneKeeps
<1>3. bytes' \in Nat
  BY ChargedNat
<1>4. Stored(byID', entry') = Stored(map, heap)
  BY <1>2 DEF Stored
<1>5. Charged(byID', entry', bytes')
  <2>1. /\ Stored(map, heap) \in SUBSET Problems
        /\ \A p \in Stored(map, heap) : heap[map[p]].ver = entry'[byID'[p]].ver
    BY <1>2 DEF Stored
  <2>2. TotalBytes(Stored(map, heap), map, heap) = TotalBytes(Stored(map, heap), byID', entry')
    BY <2>1, TotalSame
  <2> QED
    BY <1>4, <2>2 DEF Charged
<1>6. WithinBudget'
  <2>1. \A p \in Stored(byID, entry)' :
            p \in Stored(byID, entry) /\ entry'[byID'[p]].users = entry[byID[p]].users
    BY <1>2, <1>4 DEF Stored
  <2> QED
    BY <1>3, <2>1, BudgetKept
<1>7. Fresh(byID, entry, caller)'
  BY <1>2, FreshKeeps
<1> QED
  BY <1>2, <1>5, <1>6, <1>7, CallerCloses

-----------------------------------------------------------------------------
(* The steps of a caller.                                                  *)

\* The users of a suite are those that say so.
LEMMA UsersSame ==
    ASSUME NEW calls, NEW calls2,
           \A u \in Callers : calls[u].pc = "using" \/ calls2[u].pc = "using" =>
               calls[u].pc = calls2[u].pc /\ calls[u].entry = calls2[u].entry
    PROVE  \A e \in Entries : UsersOf(e, calls) = UsersOf(e, calls2)
  BY DEF UsersOf

\* A call that neither loads nor uses a suite afterwards.
LEMMA CallLeaves ==
    ASSUME CacheInv, NEW u \in Callers, UNCHANGED editVars,
           caller' \in CallType, \A v \in Callers : v # u => caller'[v] = caller[v],
           caller[u].pc # "using", caller'[u].pc \in {"idle", "lookup", "waiting"},
           caller'[u].pc # "idle" =>
               caller'[u].prob \in Problems /\ caller'[u].want <= known[caller'[u].prob]
    PROVE  Sound(byID, entry, caller', older) /\ Fresh(byID, entry, caller')
<1>1. \A v \in Callers : v # u => caller'[v] = caller[v]
  OBVIOUS
<1>2. CallsSound(byID, entry, caller')
  BY <1>1 DEF CacheInv, Sound, CallsSound, Loads
<1>3. UsersCounted(entry, caller')
  <2>1. \A v \in Callers : caller[v].pc = "using" \/ caller'[v].pc = "using" =>
            caller[v].pc = caller'[v].pc /\ caller[v].entry = caller'[v].entry
    BY <1>1
  <2>2. \A e \in Entries : UsersOf(e, caller) = UsersOf(e, caller')
    <3> HIDE DEF CallType
    <3> QED
      BY <2>1, UsersSame
  <2> QED
    BY <2>2 DEF CacheInv, Sound, UsersCounted
<1>4. Fresh(byID, entry, caller')
  BY <1>1 DEF CacheInv, Fresh, NoneTooOld, NoneWantsMore, Tracked, Loads
<1> QED
  BY <1>2, <1>3, <1>4 DEF CacheInv, Sound

\* A step that looks at the cache, and does not touch it.
LEMMA LookKeeps ==
    ASSUME CacheInv, UNCHANGED <<editVars, heapVars>>,
           Sound(byID, entry, caller', older), Fresh(byID, entry, caller')
    PROVE  CacheInv'
<1>1. /\ byID' = byID /\ entry' = entry /\ bytes' = bytes /\ older' = older
      /\ UNCHANGED editVars
  BY DEF heapVars
<1>2. Sound(byID', entry', caller', older')
  BY <1>1
<1>3. Fresh(byID, entry, caller)'
  <2>1. \A p \in Problems : byID'[p] # None =>
             byID'[p] = byID[p] /\ byID[p] \in Entries /\ entry'[byID'[p]] = entry[byID[p]]
    BY <1>1 DEF CacheInv, Sound, MapType
  <2> QED
    BY <1>1, <1>2, <2>1, FreshKeeps
<1>4. Charged(byID', entry', bytes') /\ WithinBudget'
  BY <1>1 DEF CacheInv, Charged, WithinBudget, Cached
<1> QED
  BY <1>1, <1>2, <1>3, <1>4, CallerCloses

LEMMA LookInv ==
    ASSUME CacheInv, NEW u \in Callers, (\E p \in Problems : Begin(u, p)) \/ LookupWait(u)
    PROVE  CacheInv'
<1>1. /\ caller[u].pc # "using" /\ UNCHANGED <<editVars, heapVars>>
      /\ caller \in CallType /\ byID \in MapType
  BY DEF Begin, LookupWait, CacheInv, Sound
<1>2. /\ caller' \in CallType
      /\ \A v \in Callers : v # u => caller'[v] = caller[v]
      /\ caller'[u].pc \in {"lookup", "waiting"}
      /\ caller'[u].prob \in Problems /\ caller'[u].want <= known[caller'[u].prob]
  <2>1. CASE \E p \in Problems : Begin(u, p)
    <3>1. PICK p \in Problems : Begin(u, p)
      BY <2>1
    <3>2. known[p] \in 0..MaxEdits /\ 0 \in 0..MaxEdits /\ known[p] <= known[p]
      BY CacheAssumption DEF CacheInv, TypeOK
    <3> QED
      BY <1>1, <3>1, <3>2 DEF Begin, CallType
  <2>2. CASE LookupWait(u)
    <3>1. /\ caller[u].prob \in Problems /\ byID[caller[u].prob] \in Entries \cup {None}
          /\ caller[u].want <= known[caller[u].prob]
      BY <2>2 DEF LookupWait, CacheInv, Sound, CallsSound, MapType, Fresh, NoneWantsMore
    <3> QED
      BY <1>1, <2>2, <3>1, ZenonT(40) DEF LookupWait, CallType
  <2> QED
    BY <2>1, <2>2
<1>3. Sound(byID, entry, caller', older) /\ Fresh(byID, entry, caller')
  BY <1>1, <1>2, CallLeaves
<1> QED
  BY <1>1, <1>3, LookKeeps

LEMMA ReadInv ==
    ASSUME CacheInv, NEW u \in Callers, SourceReads(u)
    PROVE  CacheInv'
<1> DEFINE p == caller[u].prob
<1>1. /\ caller' = [caller EXCEPT ![u].pc = "loaded", ![u].ver = version[p]]
      /\ caller[u].pc = "loading" /\ UNCHANGED <<editVars, heapVars>>
      /\ p \in Problems /\ version[p] \in 0..MaxEdits /\ known[p] \in 0..MaxEdits
      /\ known[p] <= version[p]
  BY DEF SourceReads, CacheInv, Sound, CallsSound, EditsCounted, TypeOK
<1>2. /\ caller \in CallType /\ caller' \in CallType
      /\ caller'[u].pc = "loaded" /\ caller'[u].prob = p /\ caller'[u].ver = version[p]
      /\ caller'[u].entry = caller[u].entry /\ caller'[u].want = caller[u].want
      /\ \A v \in Callers : v # u => caller'[v] = caller[v]
  BY <1>1 DEF CacheInv, Sound, CallType
<1>3. CallsSound(byID, entry, caller')
  <2>1. \A v \in Callers : /\ Loads(v, caller') <=> Loads(v, caller)
                           /\ caller'[v].entry = caller[v].entry
                           /\ caller'[v].prob = caller[v].prob
    BY <1>1, <1>2 DEF Loads
  <2> QED
    <3>1. /\ CallsSound(byID, entry, caller)
          /\ \A v \in Callers : caller'[v].pc = "using" => caller[v].pc = "using"
          /\ \A v \in Callers : caller'[v].pc # "idle" => caller[v].pc # "idle"
      BY <1>1, <1>2 DEF CacheInv, Sound
    <3> HIDE DEF p
    <3> QED
      BY <2>1, <3>1 DEF CallsSound
<1>4. UsersCounted(entry, caller')
  <2>1. \A v \in Callers : caller[v].pc = "using" \/ caller'[v].pc = "using" =>
            caller[v].pc = caller'[v].pc /\ caller[v].entry = caller'[v].entry
    BY <1>1, <1>2
  <2>2. \A e \in Entries : UsersOf(e, caller) = UsersOf(e, caller')
    <3> HIDE DEF CallType
    <3> QED
      BY <2>1, UsersSame
  <2> QED
    BY <2>2 DEF CacheInv, Sound, UsersCounted
<1>5. Sound(byID, entry, caller', older)
  BY <1>2, <1>3, <1>4 DEF CacheInv, Sound
<1>6. Fresh(byID, entry, caller')
  BY <1>1, <1>2, ZenonT(40) DEF CacheInv, Fresh, NoneTooOld, NoneWantsMore, Tracked
<1> QED
  BY <1>1, <1>5, <1>6, LookKeeps

\* A wait ends, or a call outside of a load is given up.
LEMMA WakeInv ==
    ASSUME CacheInv, NEW u \in Callers, Wake(u) \/ Cancel(u)
    PROVE  CacheInv'
<1>1. /\ caller[u].pc \in {"lookup", "waiting"} /\ caller \in CallType
      /\ UNCHANGED <<editVars, byID, bytes>> /\ Keep(entry, older)
  BY DEF Wake, Cancel, CacheInv, Sound
<1>2. /\ caller[u].prob \in Problems /\ caller[u].want <= known[caller[u].prob]
  BY <1>1 DEF CacheInv, Sound, CallsSound, Fresh, NoneWantsMore
<1>3. IdleCaller \in [pc : {"idle", "lookup", "waiting", "loading", "loaded", "using"},
                      prob : Problems \cup {None}, entry : Entries \cup {None},
                      ver : 0..MaxEdits, want : 0..MaxEdits]
      /\ IdleCaller.pc = "idle"
  BY CacheAssumption DEF IdleCaller
<1>4. /\ caller' \in CallType
      /\ \A v \in Callers : v # u => caller'[v] = caller[v]
      /\ caller'[u].pc \in {"idle", "lookup"}
      /\ caller'[u].pc # "idle" =>
             caller'[u].prob \in Problems /\ caller'[u].want <= known[caller'[u].prob]
  <2>1. CASE caller' = [caller EXCEPT ![u] = IdleCaller]
    BY <1>1, <1>3, <2>1 DEF CallType
  <2>2. CASE caller' = [caller EXCEPT ![u] = [@ EXCEPT !.pc = "lookup", !.entry = None]]
    <3>1. [caller[u] EXCEPT !.pc = "lookup", !.entry = None]
            \in [pc : {"idle", "lookup", "waiting", "loading", "loaded", "using"},
                prob : Problems \cup {None}, entry : Entries \cup {None},
                ver : 0..MaxEdits, want : 0..MaxEdits]
      BY <1>1 DEF CallType
    <3> QED
      BY <1>1, <1>2, <2>2, <3>1 DEF CallType
  <2> QED
    BY <2>1, <2>2 DEF Wake, Cancel
<1>5. Sound(byID, entry, caller', older) /\ Fresh(byID, entry, caller')
  BY <1>1, <1>4, CallLeaves
<1>6. Charged(byID, entry, bytes') /\ bytes' <= bytes
  BY <1>1 DEF CacheInv, Charged, TypeOK
<1> QED
  BY <1>1, <1>5, <1>6, CallerKeeps

\* A load is dropped, or fails: its entry is left to those who wait for it.
LEMMA LoadEndsInv ==
    ASSUME CacheInv, NEW u \in Callers,
           DropLoad(u) \/ \E kind \in {"failed", "cancelled"} : FailLoad(u, kind)
    PROVE  CacheInv'
<1> DEFINE e == caller[u].entry
           p == caller[u].prob
<1>1. PICK kind \in {"stale", "failed", "cancelled"} :
        Keep([entry EXCEPT ![e].phase = kind], older)
  BY DEF DropLoad, FailLoad
<1>2. /\ Loads(u, caller) /\ caller[u].pc # "using"
      /\ caller \in CallType /\ byID \in MapType /\ entry \in HeapType
      /\ UNCHANGED <<editVars, bytes>>
      /\ byID' = [byID EXCEPT ![p] = IF byID[p] = e THEN None ELSE @]
  BY DEF DropLoad, FailLoad, CacheInv, Sound, Loads, InPlace, MapType
<1>3. /\ p \in Problems /\ e \in Entries /\ entry[e].phase = "loading"
      /\ caller[u].want <= known[p]
  BY <1>2 DEF CacheInv, Sound, CallsSound, Fresh, NoneWantsMore, Loads
<1>4. /\ caller' \in CallType
      /\ \A v \in Callers : v # u => caller'[v] = caller[v]
      /\ caller'[u].pc \in {"idle", "lookup"}
      /\ caller'[u].pc # "idle" =>
             caller'[u].prob \in Problems /\ caller'[u].want <= known[caller'[u].prob]
  <2>1. IdleCaller \in [pc : {"idle", "lookup", "waiting", "loading", "loaded", "using"},
                        prob : Problems \cup {None}, entry : Entries \cup {None},
                        ver : 0..MaxEdits, want : 0..MaxEdits]
        /\ IdleCaller.pc = "idle"
    BY CacheAssumption DEF IdleCaller
  <2>2. CASE DropLoad(u)
    BY <1>2, <1>3, <2>2, ZenonT(40) DEF DropLoad, CallType
  <2>3. CASE caller' = [caller EXCEPT ![u] = IdleCaller]
    BY <1>2, <2>1, <2>3 DEF CallType
  <2> QED
    BY <2>2, <2>3 DEF FailLoad
<1>5. Sound(byID, entry, caller', older) /\ Fresh(byID, entry, caller')
  BY <1>2, <1>4, CallLeaves
<1> DEFINE heap == [entry EXCEPT ![e].phase = kind]
           map == [byID EXCEPT ![p] = IF byID[p] = e THEN None ELSE @]
<1>6. /\ heap \in HeapType
      /\ \A d \in Entries : /\ heap[d].ver = entry[d].ver /\ heap[d].users = entry[d].users
                            /\ d # e => heap[d] = entry[d]
      /\ heap[e].phase = kind
  BY <1>1, <1>2, <1>3 DEF HeapType
<1>7. /\ map \in MapType
      /\ \A q \in Problems : map[q] # e /\ (map[q] = byID[q] \/ (map[q] = None /\ q = p /\ byID[p] = e))
      /\ \A v \in Callers : Loads(v, caller') => Loads(v, caller) /\ v # u
      /\ \A v \in Callers : v # u => caller'[v] = caller[v]
  <2>1. \A q \in Problems : byID[q] = e => q = p
    BY <1>2 DEF CacheInv, Sound, CallsSound
  <2>4. \A v \in Callers : Loads(v, caller') => Loads(v, caller) /\ v # u
    BY <1>4 DEF Loads
  <2>5. \A q \in Problems : map[q] = IF q = p /\ byID[p] = e THEN None ELSE byID[q]
    BY <1>2 DEF MapType
  <2>6. map \in MapType
    BY <1>2 DEF MapType
  <2> HIDE DEF map
  <2> QED
    BY <1>3, <1>4, <2>1, <2>4, <2>5, <2>6, CacheAssumption
<1> HIDE DEF heap, map
<1>8. Stored(map, heap) = Stored(byID, entry)
  <2>1. \A q \in Problems : map[q] # None => map[q] \in Entries /\ heap[map[q]] = entry[map[q]]
    BY <1>6, <1>7 DEF MapType
  <2>2. \A q \in Problems : byID[q] # None /\ entry[byID[q]].phase = "cached" => map[q] = byID[q]
    BY <1>3, <1>7
  <2> QED
    BY <1>7, <2>1, <2>2 DEF Stored
<1>9. \A q \in Stored(byID, entry) : map[q] = byID[q] /\ heap[map[q]] = entry[byID[q]]
  BY <1>3, <1>6, <1>7, <1>8 DEF Stored, MapType
<1>10. Sound(map, heap, caller', older)
  <2>1. MapSound(map, heap)
    BY <1>6, <1>7 DEF CacheInv, Sound, MapSound, MapType
  <2>2. CallsSound(map, heap, caller')
    <3>1. \A v \in Callers : Loads(v, caller') => caller'[v].entry \in Entries /\ caller'[v].entry # e
      BY <1>2, <1>7 DEF CacheInv, Sound, CallsSound
    <3>2. \A v \in Callers : caller'[v].pc = "using" =>
              caller'[v].entry \in Entries /\ caller'[v].entry # e
      BY <1>3, <1>5 DEF Sound, CallsSound
    <3>3. \A v \in Callers, q \in Problems :
              Loads(v, caller') /\ map[q] = caller'[v].entry => q = caller'[v].prob
      BY <1>5, <1>7, <3>1, CacheAssumption DEF Sound, CallsSound
    <3> QED
      BY <1>5, <1>6, <3>1, <3>2, <3>3 DEF Sound, CallsSound
  <2>3. UsersCounted(heap, caller')
    BY <1>5, <1>6 DEF Sound, UsersCounted
  <2> QED
    BY <1>5, <1>6, <1>7, <1>8, <2>1, <2>2, <2>3 DEF Sound
<1>11. Fresh(map, heap, caller')
  <2>1. \A v \in Callers : /\ caller'[v].pc = "loaded"
                           /\ map[caller'[v].prob] = caller'[v].entry
                           => byID[caller'[v].prob] = caller'[v].entry
    BY <1>7, <1>10, CacheAssumption DEF Sound, CallsSound, Loads
  <2> QED
    BY <1>5, <1>8, <1>9, <2>1 DEF Fresh, NoneTooOld, NoneWantsMore, Tracked
<1>12. Charged(map, heap, bytes')
  <2>1. /\ Stored(byID, entry) \in SUBSET Problems
        /\ \A q \in Stored(byID, entry) : entry[byID[q]].ver = heap[map[q]].ver
    BY <1>9 DEF Stored
  <2>2. TotalBytes(Stored(byID, entry), byID, entry) = TotalBytes(Stored(byID, entry), map, heap)
    BY <2>1, TotalSame
  <2> QED
    BY <1>2, <1>8, <2>2 DEF CacheInv, Charged
<1>13. byID' = map /\ Keep(heap, older) /\ bytes' <= bytes
  BY <1>1, <1>2 DEF heap, map, CacheInv, TypeOK
<1>14. \A q \in Stored(map, heap) :
           q \in Stored(byID, entry) /\ heap[map[q]].users = entry[byID[q]].users
  BY <1>8, <1>9
<1> QED
  BY <1>2, <1>10, <1>11, <1>12, <1>13, <1>14, CallerKeeps

-----------------------------------------------------------------------------
(* Taking and leaving a suite.                                             *)

LEMMA UserJoins ==
    ASSUME NEW u \in Callers, NEW e \in Entries, NEW heap, UsersCounted(entry, caller),
           caller[u].pc # "using", caller'[u].pc = "using", caller'[u].entry = e,
           \A v \in Callers : v # u => caller'[v] = caller[v],
           \A d \in Entries : heap[d].users = IF d = e THEN entry[d].users + 1 ELSE entry[d].users
    PROVE  UsersCounted(heap, caller')
<1> SUFFICES ASSUME NEW d \in Entries
             PROVE  heap[d].users = Cardinality(UsersOf(d, caller'))
  BY DEF UsersCounted
<1>1. IsFiniteSet(UsersOf(d, caller))
  BY CacheAssumption, FS_Subset DEF UsersOf
<1>2. entry[d].users = Cardinality(UsersOf(d, caller))
  BY DEF UsersCounted
<1>3. CASE d = e
  <2>1. UsersOf(d, caller') = UsersOf(d, caller) \cup {u} /\ u \notin UsersOf(d, caller)
    BY <1>3 DEF UsersOf
  <2>2. Cardinality(UsersOf(d, caller) \cup {u}) = Cardinality(UsersOf(d, caller)) + 1
    BY <1>1, <2>1, FS_AddElement
  <2>3. Cardinality(UsersOf(d, caller')) = entry[d].users + 1
    BY <1>2, <2>1, <2>2
  <2> QED
    BY <1>3, <2>3
<1>4. CASE d # e
  <2>1. UsersOf(d, caller') = UsersOf(d, caller)
    BY <1>4 DEF UsersOf
  <2> QED
    BY <1>2, <1>4, <2>1
<1> QED
  BY <1>3, <1>4

LEMMA UserLeaves ==
    ASSUME NEW u \in Callers, NEW e \in Entries, NEW heap, UsersCounted(entry, caller),
           caller[u].pc = "using", caller[u].entry = e, caller'[u].pc # "using",
           \A v \in Callers : v # u => caller'[v] = caller[v],
           \A d \in Entries : heap[d].users = IF d = e THEN entry[d].users - 1 ELSE entry[d].users
    PROVE  UsersCounted(heap, caller') /\ \A d \in Entries : heap[d].users \in Nat
<1> SUFFICES ASSUME NEW d \in Entries
             PROVE  heap[d].users = Cardinality(UsersOf(d, caller')) /\ heap[d].users \in Nat
  BY DEF UsersCounted
<1>1. IsFiniteSet(UsersOf(d, caller)) /\ IsFiniteSet(UsersOf(d, caller'))
  BY CacheAssumption, FS_Subset DEF UsersOf
<1>2. /\ entry[d].users = Cardinality(UsersOf(d, caller))
      /\ Cardinality(UsersOf(d, caller)) \in Nat
      /\ Cardinality(UsersOf(d, caller')) \in Nat
  BY <1>1, FS_CardinalityType DEF UsersCounted
<1>3. CASE d = e
  <2>1. UsersOf(d, caller') = UsersOf(d, caller) \ {u} /\ u \in UsersOf(d, caller)
    BY <1>3 DEF UsersOf
  <2>2. Cardinality(UsersOf(d, caller')) = Cardinality(UsersOf(d, caller)) - 1
    BY <1>1, <2>1, FS_RemoveElement
  <2> QED
    BY <1>2, <1>3, <2>2
<1>4. CASE d # e
  <2>1. UsersOf(d, caller') = UsersOf(d, caller)
    BY <1>4 DEF UsersOf
  <2> QED
    BY <1>2, <1>4, <2>1
<1> QED
  BY <1>3, <1>4

\* A suite that is used becomes the last in the order, or leaves it.
LEMMA OrderMoves ==
    ASSUME NEW p \in Problems, Ordered(older, Stored(byID, entry))
    PROVE  /\ Ordered(Touch(p), Stored(byID, entry) \cup {p})
           /\ Ordered(Forget(p), Stored(byID, entry) \ {p})
<1> DEFINE S == Stored(byID, entry)
<1>1. /\ older \subseteq S \X S
      /\ \A q \in S : <<q, q>> \notin older
      /\ \A q, r, s \in S : <<q, r>> \in older /\ <<r, s>> \in older => <<q, s>> \in older
  BY DEF Ordered
<1>2. \A q, r : <<q, r>> \in Forget(p) <=> <<q, r>> \in older /\ p # q /\ p # r
  BY DEF Forget
<1>3. \A q, r : <<q, r>> \in Touch(p) <=>
          \/ <<q, r>> \in older /\ p # q /\ p # r
          \/ r = p /\ q # p /\ q \in S
  BY <1>2 DEF Touch, Stored, Cached
<1>4. Forget(p) \subseteq (S \ {p}) \X (S \ {p})
  BY <1>1 DEF Forget
<1>5. Touch(p) \subseteq (S \cup {p}) \X (S \cup {p})
  BY <1>4 DEF Touch, Stored, Cached
<1> HIDE DEF S
<1>6. Ordered(Forget(p), S \ {p})
  BY <1>1, <1>2, <1>4 DEF Ordered
<1>7. Ordered(Touch(p), S \cup {p})
  <2>1. \A q, r : <<q, r>> \in older => q \in S /\ r \in S
    BY <1>1
  <2> QED
    BY <1>1, <1>3, <1>5, <2>1 DEF Ordered
<1> QED
  BY <1>6, <1>7 DEF S

\* A hit: the suite is no older than what the call may get.
LEMMA HitInv ==
    ASSUME CacheInv, NEW u \in Callers, LookupHit(u)
    PROVE  CacheInv'
<1> DEFINE p == caller[u].prob
           e == byID[p]
           heap == [entry EXCEPT ![e].users = @ + 1]
<1>1. /\ caller[u].pc = "lookup" /\ Cached(p)
      /\ caller' = [caller EXCEPT ![u].pc = "using", ![u].entry = e, ![u].ver = entry[e].ver]
      /\ evict(byID, heap, bytes, Touch(p))
      /\ UNCHANGED editVars
  BY DEF LookupHit
<1>2. /\ caller \in CallType /\ byID \in MapType /\ entry \in HeapType
      /\ MapSound(byID, entry) /\ CallsSound(byID, entry, caller)
      /\ UsersCounted(entry, caller) /\ Ordered(older, Stored(byID, entry))
  BY DEF CacheInv, Sound
<1>3. /\ p \in Problems /\ e \in Entries /\ entry[e].phase = "cached" /\ e # None
      /\ p \in Stored(byID, entry) /\ entry[e].ver \in 0..MaxEdits
  BY <1>1, <1>2 DEF Cached, CallsSound, MapType, Stored, HeapType
<1>4. /\ heap \in HeapType
      /\ \A d \in Entries : /\ heap[d].phase = entry[d].phase /\ heap[d].ver = entry[d].ver
                            /\ heap[d].users = IF d = e THEN entry[d].users + 1
                                               ELSE entry[d].users
  BY <1>2, <1>3, SMTT(30) DEF HeapType
<1>5. /\ caller' \in CallType
      /\ \A v \in Callers : v # u => caller'[v] = caller[v]
      /\ caller'[u].pc = "using" /\ caller'[u].entry = e /\ caller'[u].ver = entry[e].ver
      /\ caller'[u].prob = p /\ caller'[u].want = caller[u].want
  <2> HIDE DEF heap, e, p
  <2> QED
    BY <1>1, <1>2, <1>3 DEF CallType, p
<1> HIDE DEF heap
<1>6. Stored(byID, heap) = Stored(byID, entry)
  BY <1>2, <1>4 DEF Stored, MapType
<1>7. Sound(byID, heap, caller', Touch(p))
  <2>1. MapSound(byID, heap)
    BY <1>2, <1>4 DEF MapSound, MapType
  <2>2. CallsSound(byID, heap, caller')
    <3>1. \A v \in Callers : Loads(v, caller') => Loads(v, caller) /\ v # u
      BY <1>5 DEF Loads
    <3> HIDE DEF e, p
    <3> QED
      BY <1>2, <1>3, <1>4, <1>5, <3>1 DEF CallsSound
  <2>3. UsersCounted(heap, caller')
    <3>1. caller[u].pc # "using"
      BY <1>1
    <3> HIDE DEF e
    <3> QED
      BY <1>2, <1>3, <1>4, <1>5, <3>1, UserJoins
  <2>4. Ordered(Touch(p), Stored(byID, heap))
    <3>1. Stored(byID, entry) \cup {p} = Stored(byID, entry)
      BY <1>3
    <3> QED
      BY <1>2, <1>3, <1>6, <3>1, OrderMoves
  <2> QED
    BY <1>2, <1>4, <1>5, <2>1, <2>2, <2>3, <2>4 DEF Sound
<1>8. Charged(byID, heap, bytes)
  <2>1. /\ Stored(byID, entry) \in SUBSET Problems
        /\ \A q \in Stored(byID, entry) : entry[byID[q]].ver = heap[byID[q]].ver
    BY <1>2, <1>4 DEF Stored, MapType
  <2>2. TotalBytes(Stored(byID, entry), byID, entry) = TotalBytes(Stored(byID, entry), byID, heap)
    BY <2>1, TotalSame
  <2> QED
    BY <1>6, <2>2 DEF CacheInv, Charged
<1>9. Fresh(byID, heap, caller')
  <2>1. NoneTooOld(byID, entry, caller) /\ NoneWantsMore(caller) /\ Tracked(byID, entry, caller)
    BY DEF CacheInv, Fresh
  <2>2. \A q \in Stored(byID, heap) : q \in Stored(byID, entry) /\ heap[byID[q]].ver = entry[byID[q]].ver
    BY <1>2, <1>4, <1>6 DEF Stored, MapType
  <2>3. \A v \in Callers : caller'[v].pc = "loaded" => v # u
    BY <1>5
  <2>4. NoneTooOld(byID, heap, caller')
    BY <1>5, <2>1, <2>2, <2>3 DEF NoneTooOld
  <2>5. Tracked(byID, heap, caller')
    BY <1>5, <2>1, <2>2, <2>3 DEF Tracked
  <2>6. NoneWantsMore(caller')
    <3>1. caller[u].want <= known[p]
      BY <1>1, <2>1 DEF NoneWantsMore
    <3>2. entry[e].ver >= known[p]
      BY <1>3, <2>1 DEF NoneTooOld
    <3>3. caller[u].want \in Nat /\ known[p] \in Nat /\ entry[e].ver \in Nat
      BY <1>2, <1>3 DEF CacheInv, TypeOK, CallType
    <3>4. entry[e].ver >= caller[u].want
      <4> HIDE DEF e, p
      <4> QED
        BY <3>1, <3>2, <3>3
    <3> HIDE DEF e, p
    <3> QED
      BY <1>5, <2>1, <3>1, <3>4 DEF NoneWantsMore
  <2> QED
    BY <2>4, <2>5, <2>6 DEF Fresh
<1> HIDE DEF p
<1> QED
  BY <1>1, <1>7, <1>8, <1>9, CallerEvicts

\* The suite loses a user, and may go for it.
LEMMA ReleaseInv ==
    ASSUME CacheInv, NEW u \in Callers, Release(u)
    PROVE  CacheInv'
<1> DEFINE e == caller[u].entry
           heap == [entry EXCEPT ![e].users = @ - 1]
<1>1. /\ caller[u].pc = "using"
      /\ caller' = [caller EXCEPT ![u] = IdleCaller]
      /\ evict(byID, heap, bytes, older)
      /\ UNCHANGED editVars
  BY DEF Release
<1>2. /\ caller \in CallType /\ byID \in MapType /\ entry \in HeapType
      /\ MapSound(byID, entry) /\ CallsSound(byID, entry, caller)
      /\ UsersCounted(entry, caller) /\ Ordered(older, Stored(byID, entry))
  BY DEF CacheInv, Sound
<1>3. e \in Entries
  BY <1>1, <1>2 DEF CallsSound
<1>4. /\ caller' \in CallType
      /\ \A v \in Callers : v # u => caller'[v] = caller[v]
      /\ caller'[u].pc = "idle"
  <2>1. IdleCaller \in [pc : {"idle", "lookup", "waiting", "loading", "loaded", "using"},
                        prob : Problems \cup {None}, entry : Entries \cup {None},
                        ver : 0..MaxEdits, want : 0..MaxEdits]
        /\ IdleCaller.pc = "idle"
    BY CacheAssumption DEF IdleCaller
  <2> QED
    BY <1>1, <1>2, <2>1 DEF CallType
<1>5. \A d \in Entries :
          /\ heap[d].phase = entry[d].phase /\ heap[d].ver = entry[d].ver
          /\ heap[d].users = IF d = e THEN entry[d].users - 1 ELSE entry[d].users
  BY <1>2, <1>3 DEF HeapType
<1>6. UsersCounted(heap, caller') /\ \A d \in Entries : heap[d].users \in Nat
  <2> HIDE DEF e, heap
  <2>1. caller[u].entry = e /\ caller'[u].pc # "using"
    BY <1>4 DEF e
  <2> QED
    BY <1>1, <1>2, <1>3, <1>4, <1>5, <2>1, UserLeaves, ZenonT(40)
<1>7. heap \in HeapType
  <2>1. entry[e].users - 1 \in Nat
    BY <1>3, <1>5, <1>6
  <2> QED
    BY <1>2, <1>3, <2>1 DEF HeapType
<1> HIDE DEF heap
<1>8. Stored(byID, heap) = Stored(byID, entry)
  BY <1>2, <1>5 DEF Stored, MapType
<1>9. Sound(byID, heap, caller', older)
  <2>1. MapSound(byID, heap)
    BY <1>2, <1>5 DEF MapSound, MapType
  <2>2. CallsSound(byID, heap, caller')
    <3>1. \A v \in Callers : caller'[v].pc # "idle" => v # u
      BY <1>4
    <3>2. \A v \in Callers : Loads(v, caller') => Loads(v, caller) /\ v # u
      BY <1>4 DEF Loads
    <3> QED
      BY <1>2, <1>4, <1>5, <3>1, <3>2 DEF CallsSound
  <2> QED
    BY <1>2, <1>4, <1>6, <1>7, <1>8, <2>1, <2>2 DEF Sound
<1>10. Charged(byID, heap, bytes)
  <2>1. /\ Stored(byID, entry) \in SUBSET Problems
        /\ \A q \in Stored(byID, entry) : entry[byID[q]].ver = heap[byID[q]].ver
    BY <1>2, <1>5 DEF Stored, MapType
  <2>2. TotalBytes(Stored(byID, entry), byID, entry) = TotalBytes(Stored(byID, entry), byID, heap)
    BY <2>1, TotalSame
  <2> QED
    BY <1>8, <2>2 DEF CacheInv, Charged
<1>11. Fresh(byID, heap, caller')
  <2>1. NoneTooOld(byID, entry, caller) /\ NoneWantsMore(caller) /\ Tracked(byID, entry, caller)
    BY DEF CacheInv, Fresh
  <2>2. \A q \in Stored(byID, heap) : q \in Stored(byID, entry) /\ heap[byID[q]].ver = entry[byID[q]].ver
    BY <1>2, <1>5, <1>8 DEF Stored, MapType
  <2>3. \A v \in Callers : caller'[v].pc # "idle" => v # u
    BY <1>4
  <2> QED
    BY <1>4, <2>1, <2>2, <2>3 DEF Fresh, NoneTooOld, Tracked, NoneWantsMore
<1> QED
  BY <1>1, <1>9, <1>10, <1>11, CallerEvicts

SlotType == [phase : {"loading", "cached", "stale", "failed", "cancelled"},
             ver : 0..MaxEdits, users : Nat, fresh : BOOLEAN]

LEMMA UsedSuiteType ==
    ASSUME NEW slot \in SlotType, NEW ver \in 0..MaxEdits
    PROVE  /\ UsedSuite(slot, ver) \in SlotType
           /\ UsedSuite(slot, ver).phase = "cached"
           /\ UsedSuite(slot, ver).ver = ver
           /\ UsedSuite(slot, ver).users = slot.users + 1
  BY DEF UsedSuite, SlotType

\* A load that kept its place: it is stored, charged and used.
LEMMA PublishInv ==
    ASSUME CacheInv, NEW u \in Callers, PublishLoad(u)
    PROVE  CacheInv'
<1> DEFINE p == caller[u].prob
           e == caller[u].entry
           ver == caller[u].ver
           heap == [entry EXCEPT ![e] = UsedSuite(@, ver)]
           S == Stored(byID, entry)
<1>1. /\ caller[u].pc = "loaded" /\ byID[p] = e
      /\ caller' = [caller EXCEPT ![u].pc = "using"]
      /\ evict(byID, heap, bytes + SuiteBytes[p, ver], Touch(p))
      /\ UNCHANGED editVars
  BY DEF PublishLoad, InPlace
<1>2. /\ caller \in CallType /\ byID \in MapType /\ entry \in HeapType
      /\ MapSound(byID, entry) /\ CallsSound(byID, entry, caller)
      /\ UsersCounted(entry, caller) /\ Ordered(older, S)
  BY DEF CacheInv, Sound
<1>3. /\ p \in Problems /\ e \in Entries /\ entry[e].phase = "loading" /\ e # None
      /\ ver \in 0..MaxEdits /\ p \notin S
      /\ \A v \in Callers : v # u /\ Loads(v, caller) => caller[v].entry # e
      /\ \A v \in Callers : caller[v].pc = "using" => caller[v].entry # e
      /\ \A q \in Problems : q # p => byID[q] # e
  <2>1. Loads(u, caller)
    BY <1>1 DEF Loads
  <2>2. p \in Problems /\ e \in Entries /\ entry[e].phase = "loading"
    BY <1>1, <1>2, <2>1 DEF CallsSound
  <2>3. e # None /\ ver \in 0..MaxEdits /\ p \notin S
    BY <1>1, <1>2, <2>2, CacheAssumption DEF CallType, Stored
  <2>4. \A v \in Callers : v # u /\ Loads(v, caller) => caller[v].entry # e
    BY <1>2, <2>1 DEF CallsSound
  <2>5. \A v \in Callers : caller[v].pc = "using" => caller[v].entry # e
    BY <1>2, <2>2 DEF CallsSound
  <2>6. \A q \in Problems : q # p => byID[q] # e
    BY <1>2, <2>1 DEF CallsSound
  <2> QED
    BY <2>2, <2>3, <2>4, <2>5, <2>6
<1>4. /\ heap \in HeapType
      /\ heap[e].phase = "cached" /\ heap[e].ver = ver
      /\ \A d \in Entries : d # e => heap[d] = entry[d]
      /\ \A d \in Entries : heap[d].users = IF d = e THEN entry[d].users + 1
                                            ELSE entry[d].users
  <2> HIDE DEF e, ver
  <2> DEFINE suite == UsedSuite(entry[e], ver)
  <2>1. entry[e] \in SlotType
    BY <1>2, <1>3 DEF HeapType, SlotType
  <2>2. /\ suite \in SlotType
        /\ suite.phase = "cached" /\ suite.ver = ver /\ suite.users = entry[e].users + 1
    BY <1>3, <2>1, UsedSuiteType
  <2> HIDE DEF suite
  <2>3. heap = [entry EXCEPT ![e] = suite]
    BY DEF suite
  <2> HIDE DEF heap
  <2> QED
    BY <1>2, <1>3, <2>1, <2>2, <2>3 DEF HeapType, SlotType
<1>5. /\ caller' \in CallType
      /\ \A v \in Callers : v # u => caller'[v] = caller[v]
      /\ caller'[u].pc = "using" /\ caller'[u].entry = e /\ caller'[u].ver = ver
      /\ caller'[u].prob = p /\ caller'[u].want = caller[u].want
  BY <1>1, <1>2 DEF CallType
<1> HIDE DEF heap
<1>6. /\ Stored(byID, heap) = S \cup {p}
      /\ \A q \in S : byID[q] \in Entries /\ heap[byID[q]] = entry[byID[q]]
  <2>1. \A q \in Problems : q # p /\ byID[q] # None =>
            byID[q] \in Entries /\ heap[byID[q]] = entry[byID[q]]
    BY <1>2, <1>3, <1>4 DEF MapType
  <2>2. \A q \in S : q \in Problems /\ q # p /\ byID[q] # None
    BY <1>3 DEF Stored
  <2>3. \A q \in Stored(byID, heap) : q \in S \cup {p}
    BY <2>1 DEF Stored
  <2>4. p \in Stored(byID, heap)
    BY <1>1, <1>3, <1>4 DEF Stored
  <2>5. \A q \in S : q \in Stored(byID, heap)
    BY <2>1, <2>2 DEF Stored
  <2> HIDE DEF S
  <2> QED
    BY <2>1, <2>2, <2>3, <2>4, <2>5
<1>7. Sound(byID, heap, caller', Touch(p))
  <2>1. MapSound(byID, heap)
    <3>1. \A q \in Problems : q # p /\ byID[q] # None =>
              byID[q] \in Entries /\ heap[byID[q]] = entry[byID[q]]
      BY <1>2, <1>3, <1>4 DEF MapType
    <3> QED
      BY <1>1, <1>2, <1>4, <3>1 DEF MapSound
  <2>2. CallsSound(byID, heap, caller')
    <3>1. \A v \in Callers : Loads(v, caller') => Loads(v, caller) /\ v # u
      BY <1>5 DEF Loads
    <3> HIDE DEF e, p
    <3> QED
      BY <1>2, <1>3, <1>4, <1>5, <3>1 DEF CallsSound
  <2>3. UsersCounted(heap, caller')
    <3>1. caller[u].pc # "using"
      BY <1>1
    <3> HIDE DEF e
    <3> QED
      BY <1>2, <1>3, <1>4, <1>5, <3>1, UserJoins
  <2>4. Ordered(Touch(p), Stored(byID, heap))
    BY <1>2, <1>3, <1>6, OrderMoves
  <2> HIDE DEF p
  <2> QED
    BY <1>2, <1>4, <1>5, <2>1, <2>2, <2>3, <2>4 DEF Sound
<1>8. Charged(byID, heap, bytes + SuiteBytes[p, ver])
  <2>1. /\ S \in SUBSET Problems /\ S \cup {p} \in SUBSET Problems
        /\ \A q \in S : entry[byID[q]].ver = heap[byID[q]].ver
        /\ \A q \in S \cup {p} : byID[q] \in Entries
        /\ (S \cup {p}) \ {p} = S /\ p \in S \cup {p}
    BY <1>1, <1>3, <1>6 DEF Stored
  <2> HIDE DEF S, p, e, ver
  <2>2. TotalBytes(S, byID, entry) = TotalBytes(S, byID, heap)
    BY <2>1, TotalSame
  <2>3. bytes = TotalBytes(S, byID, entry)
    BY DEF CacheInv, Charged, S
  <2>7. TotalBytes(S \cup {p}, byID, heap) = bytes + SuiteBytes[p, ver]
    <3> DEFINE P == S \cup {p}
               cost == Cost(p, byID, heap)
    <3>1. heap \in HeapType
      BY <1>4
    <3>2. P \in SUBSET Problems
      BY <2>1
    <3>3. \A q \in P : byID[q] \in Entries
      BY <2>1
    <3>4. p \in P
      BY <2>1
    <3>5. P \ {p} = S
      BY <2>1
    <3>6. cost = SuiteBytes[p, ver]
      BY <1>1, <1>4 DEF Cost
    <3> HIDE DEF P
    <3>7. bytes = TotalBytes(P \ {p}, byID, heap)
      BY <2>2, <2>3, <3>5
    <3>8. /\ TotalBytes(P, byID, heap) = cost + TotalBytes(P \ {p}, byID, heap)
          /\ TotalBytes(P \ {p}, byID, heap) \in Nat /\ cost \in Nat
      BY <3>1, <3>2, <3>3, <3>4, TotalOne
    <3> HIDE DEF cost
    <3>9. TotalBytes(P, byID, heap) = bytes + cost
      BY <3>7, <3>8
    <3> QED
      BY <3>6, <3>9 DEF P
  <2>8. TotalBytes(Stored(byID, heap), byID, heap) = TotalBytes(S \cup {p}, byID, heap)
    BY <1>6
  <2> QED
    BY <2>7, <2>8 DEF Charged
<1>9. Fresh(byID, heap, caller')
  <2>1. NoneTooOld(byID, entry, caller) /\ NoneWantsMore(caller) /\ Tracked(byID, entry, caller)
    BY DEF CacheInv, Fresh
  <2>2. ver >= known[p] /\ (ver = version[p] \/ Excused(p))
    BY <1>1, <2>1 DEF NoneTooOld, Tracked
  <2>3. \A v \in Callers : caller'[v].pc = "loaded" => v # u
    BY <1>5
  <2>4. \A q \in Stored(byID, heap) :
            \/ q \in S /\ heap[byID[q]] = entry[byID[q]]
            \/ q = p /\ heap[byID[q]].ver = ver
    BY <1>1, <1>4, <1>6
  <2>5. NoneTooOld(byID, heap, caller')
    BY <1>5, <2>1, <2>2, <2>3, <2>4 DEF NoneTooOld
  <2>6. Tracked(byID, heap, caller')
    BY <1>5, <2>1, <2>2, <2>3, <2>4 DEF Tracked
  <2>7. NoneWantsMore(caller')
    <3>1. caller[u].want <= known[p]
      BY <1>1, <2>1 DEF NoneWantsMore
    <3>2. caller[u].want \in Nat /\ known[p] \in Nat /\ ver \in Nat
      BY <1>2, <1>3 DEF CacheInv, TypeOK, CallType
    <3> HIDE DEF p, ver
    <3>3. ver >= caller[u].want
      BY <2>2, <3>1, <3>2
    <3> QED
      BY <1>5, <2>1, <3>1, <3>3 DEF NoneWantsMore
  <2> QED
    BY <2>5, <2>6, <2>7 DEF Fresh
<1> HIDE DEF p, ver
<1> QED
  BY <1>1, <1>7, <1>8, <1>9, CallerEvicts

\* What is charged when a suite is dropped.
LEMMA BytesLeft ==
    ASSUME CacheInv, NEW p \in Problems
    PROVE  /\ bytes - BytesOf(p) = TotalBytes(Stored(byID, entry) \ {p}, byID, entry)
           /\ bytes - BytesOf(p) <= bytes
<1> DEFINE S == Stored(byID, entry)
<1>1. /\ entry \in HeapType /\ S \in SUBSET Problems /\ bytes = TotalBytes(S, byID, entry)
      /\ bytes \in Nat
  BY DEF CacheInv, TypeOK, Sound, Charged, Stored
<1>2. \A q \in S : byID[q] \in Entries
  BY DEF CacheInv, Sound, Stored, MapType
<1>3. Cached(p) <=> p \in S
  BY DEF Cached, Stored
<1> HIDE DEF S
<1>4. CASE p \in S
  <2>1. BytesOf(p) = Cost(p, byID, entry)
    BY <1>3, <1>4 DEF BytesOf, Cost
  <2>2. /\ TotalBytes(S, byID, entry) = Cost(p, byID, entry) + TotalBytes(S \ {p}, byID, entry)
        /\ TotalBytes(S \ {p}, byID, entry) \in Nat
        /\ Cost(p, byID, entry) \in Nat
    BY <1>1, <1>2, <1>4, TotalOne
  <2> DEFINE rest == TotalBytes(S \ {p}, byID, entry)
             cost == Cost(p, byID, entry)
  <2>3. bytes = cost + rest /\ rest \in Nat /\ cost \in Nat /\ BytesOf(p) = cost
    BY <1>1, <2>1, <2>2
  <2> HIDE DEF rest, cost
  <2>4. bytes - BytesOf(p) = rest /\ bytes - BytesOf(p) <= bytes
    BY <2>3
  <2> QED
    BY <2>4 DEF rest, S
<1>5. CASE p \notin S
  <2>1. S \ {p} = S
    BY <1>5
  <2>2. BytesOf(p) = 0
    BY <1>3, <1>5 DEF BytesOf
  <2>3. bytes - BytesOf(p) = bytes /\ bytes <= bytes
    BY <1>1, <2>2
  <2>4. TotalBytes(S \ {p}, byID, entry) = bytes
    BY <1>1, <2>1
  <2> QED
    BY <2>3, <2>4 DEF S
<1> QED
  BY <1>4, <1>5

\* A miss: an entry that nothing refers to is taken for the load.
LEMMA LoadInv ==
    ASSUME CacheInv, NEW u \in Callers, LookupLoad(u)
    PROVE  CacheInv'
<1> DEFINE p == caller[u].prob
           S == Stored(byID, entry)
<1>1. PICK e \in Entries \ Live(byID, caller) :
        /\ byID' = [byID EXCEPT ![p] = e]
        /\ caller' = [caller EXCEPT ![u].pc = "loading", ![u].entry = e]
        /\ Keep([entry EXCEPT ![e] = NewEntry], Forget(p))
  BY DEF LookupLoad
<1> DEFINE map == [byID EXCEPT ![p] = e]
           heap == [entry EXCEPT ![e] = NewEntry]
<1>2. /\ caller[u].pc = "lookup"
      /\ bytes' = bytes - BytesOf(p)
      /\ UNCHANGED editVars
  BY DEF LookupLoad
<1>3. /\ caller \in CallType /\ byID \in MapType /\ entry \in HeapType
      /\ MapSound(byID, entry) /\ CallsSound(byID, entry, caller)
      /\ UsersCounted(entry, caller) /\ Ordered(older, S)
  BY DEF CacheInv, Sound
<1>4. /\ p \in Problems /\ e \in Entries
      /\ \A q \in Problems : byID[q] # e
      /\ \A v \in Callers : caller[v].entry # e
  BY <1>2, <1>3 DEF CallsSound, Live
<1>5. /\ map \in MapType /\ map[p] = e
      /\ \A q \in Problems : q # p => map[q] = byID[q]
  <2> HIDE DEF p
  <2> QED
    BY <1>3, <1>4 DEF MapType
<1>6. /\ heap \in HeapType /\ heap[e].phase = "loading" /\ heap[e].users = 0
      /\ \A d \in Entries : d # e => heap[d] = entry[d]
  <2>1. /\ NewEntry \in [phase : {"loading", "cached", "stale", "failed", "cancelled"},
                         ver : 0..MaxEdits, users : Nat, fresh : BOOLEAN]
        /\ NewEntry.phase = "loading" /\ NewEntry.users = 0
    BY CacheAssumption DEF NewEntry, Slot
  <2> QED
    BY <1>3, <2>1 DEF HeapType
<1>7. /\ caller' \in CallType
      /\ \A v \in Callers : v # u => caller'[v] = caller[v]
      /\ caller'[u].pc = "loading" /\ caller'[u].entry = e
      /\ caller'[u].prob = p /\ caller'[u].want = caller[u].want
  <2> HIDE DEF p
  <2> QED
    BY <1>1, <1>3, <1>4 DEF CallType, p
<1>8. byID' = map /\ Keep(heap, Forget(p))
  BY <1>1
<1> HIDE DEF map, heap
<1>9. /\ Stored(map, heap) = S \ {p}
      /\ \A q \in S \ {p} : map[q] = byID[q] /\ byID[q] \in Entries /\ heap[map[q]] = entry[byID[q]]
  <2>1. \A q \in Problems : q # p /\ byID[q] # None =>
            byID[q] \in Entries /\ map[q] = byID[q] /\ heap[map[q]] = entry[byID[q]]
    BY <1>3, <1>4, <1>5, <1>6 DEF MapType
  <2>2. \A q \in S : q \in Problems /\ byID[q] # None
    BY DEF Stored
  <2>3. \A q \in Stored(map, heap) : q \in S /\ q # p
    BY <1>5, <1>6, <2>1 DEF Stored
  <2>4. \A q \in S \ {p} : q \in Stored(map, heap)
    BY <2>1 DEF Stored
  <2> HIDE DEF S, p
  <2> QED
    BY <2>1, <2>2, <2>3, <2>4
<1>10. Sound(map, heap, caller', Forget(p))
  <2>1. MapSound(map, heap)
    <3>1. \A q \in Problems : q # p /\ byID[q] # None =>
              byID[q] \in Entries /\ map[q] = byID[q] /\ heap[map[q]] = entry[byID[q]]
      BY <1>3, <1>4, <1>5, <1>6 DEF MapType
    <3>2. \A q \in Problems : map[q] # None => heap[map[q]].phase \in {"loading", "cached"}
      BY <1>3, <1>5, <1>6, <3>1 DEF MapSound
    <3>3. \A q, r \in Problems : map[q] = map[r] /\ map[q] # None => q = r
      BY <1>3, <1>4, <1>5, <3>1 DEF MapSound
    <3> QED
      BY <3>2, <3>3 DEF MapSound
  <2>2. CallsSound(map, heap, caller')
    <3>1. \A v \in Callers : Loads(v, caller') => v = u \/ (Loads(v, caller) /\ caller'[v] = caller[v])
      BY <1>7 DEF Loads
    <3>2. \A v \in Callers : caller'[v].pc = "using" => v # u
      BY <1>7
    <3>3. \A v \in Callers : caller'[v].pc # "idle" => caller'[v].prob \in Problems
      BY <1>3, <1>4, <1>7 DEF CallsSound
    <3>4. \A v \in Callers : caller'[v].pc = "using" =>
              caller'[v].entry \in Entries /\ heap[caller'[v].entry].phase = "cached"
      BY <1>3, <1>4, <1>6, <1>7, <3>2 DEF CallsSound
    <3>5. \A v \in Callers : Loads(v, caller') =>
              caller'[v].entry \in Entries /\ heap[caller'[v].entry].phase = "loading"
      BY <1>3, <1>4, <1>6, <1>7, <3>1 DEF CallsSound
    <3>6. \A v \in Callers, q \in Problems :
              Loads(v, caller') /\ map[q] = caller'[v].entry => q = caller'[v].prob
      BY <1>3, <1>4, <1>5, <1>7, <3>1 DEF CallsSound
    <3>7. \A v, w \in Callers :
              Loads(v, caller') /\ Loads(w, caller') /\ caller'[v].entry = caller'[w].entry => v = w
      BY <1>3, <1>4, <1>7, <3>1 DEF CallsSound
    <3> QED
      BY <3>3, <3>4, <3>5, <3>6, <3>7 DEF CallsSound
  <2>3. UsersCounted(heap, caller')
    <3> SUFFICES ASSUME NEW d \in Entries
                 PROVE  heap[d].users = Cardinality(UsersOf(d, caller'))
      BY DEF UsersCounted
    <3>1. UsersOf(d, caller') = UsersOf(d, caller)
      BY <1>2, <1>7 DEF UsersOf
    <3>2. CASE d # e
      BY <1>3, <1>6, <3>1, <3>2 DEF UsersCounted
    <3>3. CASE d = e
      <4>1. UsersOf(d, caller') = {}
        BY <1>4, <3>1, <3>3 DEF UsersOf
      <4> QED
        BY <1>6, <3>3, <4>1, FS_EmptySet
    <3> QED
      BY <3>2, <3>3
  <2>4. Ordered(Forget(p), Stored(map, heap))
    BY <1>3, <1>4, <1>9, OrderMoves
  <2> HIDE DEF p
  <2> QED
    BY <1>5, <1>6, <1>7, <2>1, <2>2, <2>3, <2>4 DEF Sound
<1>11. Charged(map, heap, bytes') /\ bytes' <= bytes
  <2> HIDE DEF p
  <2>1. bytes' = TotalBytes(S \ {p}, byID, entry) /\ bytes' <= bytes
    BY <1>2, <1>4, BytesLeft
  <2>2. /\ S \ {p} \in SUBSET Problems
        /\ \A q \in S \ {p} : entry[byID[q]].ver = heap[map[q]].ver
    BY <1>9 DEF Stored
  <2>3. TotalBytes(S \ {p}, byID, entry) = TotalBytes(S \ {p}, map, heap)
    BY <2>2, TotalSame
  <2>4. TotalBytes(Stored(map, heap), map, heap) = TotalBytes(S \ {p}, map, heap)
    BY <1>9
  <2> QED
    BY <2>1, <2>3, <2>4 DEF Charged
<1>12. Fresh(map, heap, caller')
  <2>1. NoneTooOld(byID, entry, caller) /\ NoneWantsMore(caller) /\ Tracked(byID, entry, caller)
    BY DEF CacheInv, Fresh
  <2>2. \A q \in Stored(map, heap) : q \in S /\ heap[map[q]] = entry[byID[q]]
    BY <1>9
  <2>3. \A v \in Callers : caller'[v].pc = "loaded" /\ map[caller'[v].prob] = caller'[v].entry =>
            /\ caller'[v] = caller[v] /\ caller[v].prob \in Problems
            /\ byID[caller[v].prob] = caller[v].entry
    <3>1. \A v \in Callers : caller'[v].pc = "loaded" =>
              caller'[v] = caller[v] /\ caller[v].prob \in Problems /\ caller[v].entry # e
      BY <1>3, <1>4, <1>7 DEF CallsSound
    <3> QED
      BY <1>5, <3>1
  <2>4. NoneTooOld(map, heap, caller')
    BY <2>1, <2>2, <2>3 DEF NoneTooOld
  <2>5. Tracked(map, heap, caller')
    BY <2>1, <2>2, <2>3 DEF Tracked
  <2>6. NoneWantsMore(caller')
    <3>1. caller[u].want <= known[p]
      BY <1>2, <2>1 DEF NoneWantsMore
    <3> HIDE DEF p
    <3> QED
      BY <1>7, <2>1, <3>1 DEF NoneWantsMore
  <2> QED
    BY <2>4, <2>5, <2>6 DEF Fresh
<1>13. \A q \in Stored(map, heap) :
           q \in Stored(byID, entry) /\ heap[map[q]].users = entry[byID[q]].users
  BY <1>9
<1> HIDE DEF p
<1> QED
  BY <1>2, <1>8, <1>10, <1>11, <1>12, <1>13, CallerKeeps

-----------------------------------------------------------------------------
(* The steps of edits, notifications and the listener.                     *)

LEMMA EditNumbers ==
    ASSUME CacheInv, NEW p \in Problems
    PROVE  /\ version[p] \in Nat /\ edited[p] \in Nat /\ unsent[p] \in Nat /\ sent[p] \in Nat
           /\ known[p] \in Nat /\ MaxEdits \in Nat /\ MaxFailures \in Nat
           /\ edited[p] + unsent[p] + sent[p] <= version[p]
           /\ known[p] <= version[p] /\ version[p] <= MaxEdits
  BY CacheAssumption DEF CacheInv, TypeOK, EditsCounted

\* The bound on edits bounds every version.
LEMMA EditBound ==
    ASSUME CacheInv, NEW p \in Problems, SumFunction(version) < MaxEdits,
           version' = [version EXCEPT ![p] = @ + 1]
    PROVE  /\ version' \in [Problems -> 0..MaxEdits]
           /\ SumFunction(version') <= MaxEdits
           /\ version'[p] = version[p] + 1
           /\ \A q \in Problems : q # p => version'[q] = version[q]
<1> DEFINE rest == SumFunctionOnSet(version, Problems \ {p})
           total == SumFunctionOnSet(version, Problems)
           total2 == SumFunctionOnSet(version', Problems)
<1>1. /\ version \in [Problems -> 0..MaxEdits]
      /\ IsFiniteSet(Problems) /\ IsFiniteSet(Problems \ {p}) /\ MaxEdits \in Nat
  BY CacheAssumption, FS_Subset DEF CacheInv, TypeOK
<1>2. /\ version' \in [Problems -> Nat] /\ DOMAIN version = Problems
      /\ DOMAIN version' = Problems
      /\ version'[p] = version[p] + 1 /\ version[p] \in Nat
      /\ \A q \in Problems : q # p => version'[q] = version[q]
  BY <1>1
<1>3. total = version[p] + rest
  BY <1>1, SumRemove
<1>4. total2 = version'[p] + SumFunctionOnSet(version', Problems \ {p})
  BY <1>1, <1>2, SumRemove
<1>5. SumFunctionOnSet(version', Problems \ {p}) = rest
  <2>1. \A q \in Problems \ {p} : version'[q] = version[q]
    BY <1>2
  <2> QED
    BY <1>1, <2>1, SumSame
<1>6. rest \in Nat
  <2>1. \A q \in Problems \ {p} : version[q] \in Nat
    BY <1>1
  <2> QED
    BY <1>1, <2>1, SumNat
<1>7. SumFunction(version) = total /\ SumFunction(version') = total2
  BY <1>2 DEF SumFunction
<1> HIDE DEF rest, total, total2
<1>8. total2 = version'[p] + rest
  BY <1>4, <1>5
<1>9. total2 <= MaxEdits /\ version'[p] \in 0..MaxEdits
  BY <1>1, <1>2, <1>3, <1>6, <1>7, <1>8
<1>10. version' \in [Problems -> 0..MaxEdits]
  BY <1>1, <1>2, <1>9
<1> QED
  BY <1>2, <1>7, <1>9, <1>10

\* A step that leaves the cache alone: what it makes out of date it excuses.
LEMMA EditCloses ==
    ASSUME CacheInv, UNCHANGED <<heapVars, caller, known>>, TypeOK', EditsCounted',
           \A p \in Problems : (version'[p] = version[p] /\ ~ Excused(p)) \/ Excused(p)'
    PROVE  CacheInv'
<1>1. UNCHANGED <<byID, entry, bytes, older, caller, known>>
  BY DEF heapVars
<1>2. Sound(byID, entry, caller, older)' /\ Charged(byID, entry, bytes)' /\ WithinBudget'
  BY <1>1 DEF CacheInv, Charged, WithinBudget, Cached
<1>3. NoneTooOld(byID, entry, caller)' /\ NoneWantsMore(caller)'
  BY <1>1 DEF CacheInv, Fresh, NoneTooOld, NoneWantsMore
<1>4. Tracked(byID, entry, caller)'
  <2>1. Stored(byID, entry)' = Stored(byID, entry)
    BY <1>1
  <2>2. \A p \in Stored(byID, entry) : entry[byID[p]].ver = version'[p] \/ Excused(p)'
    BY DEF CacheInv, Fresh, Tracked, Stored
  <2>3. \A u \in Callers : caller[u].pc = "loaded" /\ byID[caller[u].prob] = caller[u].entry =>
            caller[u].ver = version'[caller[u].prob] \/ Excused(caller[u].prob)'
    <3> SUFFICES ASSUME NEW u \in Callers, caller[u].pc = "loaded",
                        byID[caller[u].prob] = caller[u].entry
                 PROVE  caller[u].ver = version'[caller[u].prob] \/ Excused(caller[u].prob)'
      OBVIOUS
    <3>1. caller[u].prob \in Problems
      BY DEF CacheInv, Sound, CallsSound
    <3>2. caller[u].ver = version[caller[u].prob] \/ Excused(caller[u].prob)
      BY DEF CacheInv, Fresh, Tracked
    <3>3. PICK p \in Problems : p = caller[u].prob
      BY <3>1
    <3>4. caller'[u].prob = p
      BY <1>1, <3>3
    <3> QED
      BY <3>2, <3>3, <3>4
  <2> QED
    BY <1>1, <2>1, <2>2, <2>3 DEF Tracked
<1> QED
  BY <1>2, <1>3, <1>4 DEF CacheInv, Fresh

LEMMA EditInv ==
    ASSUME CacheInv, NEW p \in Problems, EditHere(p) \/ EditElsewhere(p) \/ RedistributePoints(p)
    PROVE  CacheInv'
<1>1. /\ SumFunction(version) < MaxEdits /\ version' = [version EXCEPT ![p] = @ + 1]
      /\ UNCHANGED <<listener, failures, sent, missed, known, heapVars, caller>>
  BY DEF EditHere, EditElsewhere, RedistributePoints
<1>2. /\ version' \in [Problems -> 0..MaxEdits]
      /\ SumFunction(version') <= MaxEdits
      /\ version'[p] = version[p] + 1
      /\ \A q \in Problems : q # p => version'[q] = version[q]
  BY <1>1, EditBound
<1>3. /\ edited \in [Problems -> 0..MaxEdits] /\ unsent \in [Problems -> 0..MaxEdits]
      /\ quiet \subseteq Problems /\ sent' = sent /\ known' = known
      /\ listener' = listener /\ missed' = missed
      /\ version'[p] <= MaxEdits
  BY <1>1, <1>2 DEF CacheInv, TypeOK
<1>4. \/ /\ edited' = [edited EXCEPT ![p] = @ + 1] /\ unsent' = unsent /\ quiet' = quiet
      \/ /\ edited' = edited /\ unsent' = [unsent EXCEPT ![p] = @ + 1] /\ quiet' = quiet
      \/ /\ edited' = edited /\ unsent' = unsent /\ quiet' = quiet \cup {p}
  BY DEF EditHere, EditElsewhere, RedistributePoints
<1>5. /\ edited'[p] \in Nat /\ unsent'[p] \in Nat
      /\ edited'[p] <= MaxEdits /\ unsent'[p] <= MaxEdits
      /\ edited'[p] + unsent'[p] + sent[p] <= version'[p]
      /\ edited'[p] + unsent'[p] + sent[p] > 0 \/ p \in quiet'
  BY <1>2, <1>3, <1>4, EditNumbers
<1>6. \A q \in Problems : q # p => edited'[q] = edited[q] /\ unsent'[q] = unsent[q]
  BY <1>3, <1>4
<1>7. /\ edited' \in [Problems -> 0..MaxEdits] /\ unsent' \in [Problems -> 0..MaxEdits]
      /\ quiet \subseteq quiet' /\ quiet' \subseteq Problems
  BY <1>3, <1>4, <1>5, EditNumbers
<1>8. TypeOK'
  BY <1>1, <1>2, <1>7 DEF CacheInv, TypeOK, heapVars
<1>9. EditsCounted'
  <2>1. \A q \in Problems : /\ edited'[q] + unsent'[q] + sent[q] <= version'[q]
                            /\ known[q] <= version'[q]
    BY <1>2, <1>5, <1>6, EditNumbers
  <2> QED
    BY <1>2, <1>3, <2>1 DEF EditsCounted
<1>10. \A q \in Problems : (version'[q] = version[q] /\ ~ Excused(q)) \/ Excused(q)'
  <2> SUFFICES ASSUME NEW q \in Problems
               PROVE  (version'[q] = version[q] /\ ~ Excused(q)) \/ Excused(q)'
    OBVIOUS
  <2>1. CASE q = p
    <3>1. edited'[q] + unsent'[q] + sent'[q] > 0 \/ q \in quiet'
      BY <1>3, <1>5, <2>1
    <3> QED
      BY <3>1 DEF Excused, Owed
  <2>2. CASE q # p
    <3>1. Owed(q)' <=> Owed(q)
      BY <1>3, <1>6, <2>2 DEF Owed
    <3>2. Excused(q) => Excused(q)'
      BY <1>3, <1>7, <3>1 DEF Excused
    <3> QED
      BY <1>2, <2>2, <3>2
  <2> QED
    BY <2>1, <2>2
<1> QED
  BY <1>1, <1>8, <1>9, <1>10, EditCloses

LEMMA NotifyInv ==
    ASSUME CacheInv, NEW p \in Problems, Notify(p) \/ LoseNotification(p)
    PROVE  CacheInv'
<1>1. /\ unsent[p] > 0 /\ unsent' = [unsent EXCEPT ![p] = @ - 1]
      /\ UNCHANGED <<version, listener, failures, edited, quiet, known, heapVars, caller>>
      /\ \/ /\ sent' = [sent EXCEPT ![p] = IF listener = "down" THEN @ ELSE @ + 1]
            /\ missed' = missed
         \/ sent' = sent /\ missed' = missed \cup {p}
  BY DEF Notify, LoseNotification
<1>2. /\ unsent \in [Problems -> 0..MaxEdits] /\ sent \in [Problems -> 0..MaxEdits]
      /\ missed \subseteq Problems
      /\ version' = version /\ edited' = edited /\ quiet' = quiet /\ known' = known
      /\ listener' = listener
  BY <1>1 DEF CacheInv, TypeOK
<1>3. /\ unsent'[p] = unsent[p] - 1 /\ sent'[p] \in {sent[p], sent[p] + 1}
      /\ \A q \in Problems : q # p => unsent'[q] = unsent[q] /\ sent'[q] = sent[q]
      /\ listener = "down" \/ sent'[p] = sent[p] + 1 \/ p \in missed'
      /\ missed \subseteq missed' /\ missed' \subseteq Problems
  BY <1>1, <1>2
<1>4. /\ unsent'[p] \in Nat /\ sent'[p] \in Nat
      /\ unsent'[p] <= MaxEdits /\ sent'[p] <= MaxEdits
      /\ edited[p] + unsent'[p] + sent'[p] <= version[p]
      /\ listener = "down" \/ edited[p] + unsent'[p] + sent'[p] > 0 \/ p \in missed'
  BY <1>1, <1>3, EditNumbers
<1>5. unsent' \in [Problems -> 0..MaxEdits] /\ sent' \in [Problems -> 0..MaxEdits]
  BY <1>1, <1>2, <1>4, EditNumbers
<1>6. TypeOK'
  BY <1>1, <1>3, <1>5 DEF CacheInv, TypeOK, heapVars
<1>7. EditsCounted'
  <2>1. \A q \in Problems : /\ edited[q] + unsent'[q] + sent'[q] <= version[q]
                            /\ known[q] <= version[q]
    BY <1>3, <1>4, EditNumbers
  <2> QED
    BY <1>2, <2>1 DEF CacheInv, EditsCounted
<1>8. \A q \in Problems : (version'[q] = version[q] /\ ~ Excused(q)) \/ Excused(q)'
  <2> SUFFICES ASSUME NEW q \in Problems
               PROVE  (version'[q] = version[q] /\ ~ Excused(q)) \/ Excused(q)'
    OBVIOUS
  <2>1. CASE q = p
    <3>1. listener' = "down" \/ edited'[q] + unsent'[q] + sent'[q] > 0 \/ q \in missed'
      BY <1>2, <1>4, <2>1
    <3> QED
      BY <3>1 DEF Excused, Owed
  <2>2. CASE q # p
    <3>1. Owed(q)' <=> Owed(q)
      BY <1>2, <1>3, <2>2 DEF Owed
    <3>2. Excused(q) => Excused(q)'
      BY <1>2, <1>3, <3>1 DEF Excused
    <3> QED
      BY <1>2, <3>2
  <2> QED
    BY <2>1, <2>2
<1> QED
  BY <1>1, <1>6, <1>7, <1>8, EditCloses

LEMMA ListenInv ==
    ASSUME CacheInv, Listen
    PROVE  CacheInv'
<1>1. TypeOK'
  BY DEF Listen, CacheInv, TypeOK, heapVars
<1>2. EditsCounted'
  BY DEF Listen, CacheInv, EditsCounted
<1>3. \A p \in Problems : Excused(p)'
  BY DEF Listen, Excused
<1> QED
  BY <1>1, <1>2, <1>3, EditCloses DEF Listen

\* A suite expires: it is as old as it was.
LEMMA ExpireInv ==
    ASSUME CacheInv, NEW p \in Problems, Expire(p)
    PROVE  CacheInv'
<1> DEFINE e == byID[p]
<1>1. /\ entry' = [entry EXCEPT ![e].fresh = FALSE] /\ Cached(p)
      /\ UNCHANGED <<editVars, byID, bytes, older, caller>>
  BY DEF Expire
<1>2. /\ byID \in MapType /\ entry \in HeapType /\ caller \in CallType
      /\ Sound(byID, entry, caller, older)
  BY DEF CacheInv, Sound
<1>3. e \in Entries
  BY <1>1, <1>2 DEF Cached, MapType
<1>4. /\ entry' \in HeapType
      /\ \A d \in Entries : /\ entry'[d].phase = entry[d].phase /\ entry'[d].ver = entry[d].ver
                            /\ entry'[d].users = entry[d].users
  <2> HIDE DEF e
  <2> QED
    BY <1>1, <1>2, <1>3 DEF HeapType
<1>5. \A q \in Problems : byID[q] # None => byID[q] \in Entries
  BY <1>2 DEF MapType
<1>6. Stored(byID, entry') = Stored(byID, entry)
  BY <1>4, <1>5 DEF Stored
<1>7. Sound(byID', entry', caller', older')
  <2>1. MapSound(byID, entry')
    BY <1>2, <1>4, <1>5 DEF Sound, MapSound
  <2>2. CallsSound(byID, entry', caller)
    BY <1>2, <1>4 DEF Sound, CallsSound
  <2>3. UsersCounted(entry', caller)
    BY <1>2, <1>4 DEF Sound, UsersCounted
  <2> QED
    BY <1>1, <1>2, <1>4, <1>6, <2>1, <2>2, <2>3 DEF Sound
<1>8. Charged(byID', entry', bytes')
  <2>1. /\ Stored(byID, entry) \in SUBSET Problems
        /\ \A q \in Stored(byID, entry) : entry[byID[q]].ver = entry'[byID[q]].ver
    BY <1>4, <1>5 DEF Stored
  <2>2. TotalBytes(Stored(byID, entry), byID, entry) = TotalBytes(Stored(byID, entry), byID, entry')
    BY <2>1, TotalSame
  <2> QED
    BY <1>1, <1>6, <2>2 DEF CacheInv, Charged
<1>9. WithinBudget'
  <2>1. bytes' \in Nat /\ bytes' <= bytes
    BY <1>1 DEF CacheInv, TypeOK
  <2>2. \A q \in Stored(byID, entry)' :
               q \in Stored(byID, entry) /\ entry'[byID'[q]].users = entry[byID[q]].users
    BY <1>1, <1>4, <1>5, <1>6 DEF Stored
  <2> QED
    BY <2>1, <2>2, BudgetKept
<1>10. Fresh(byID, entry, caller)'
  <2>1. NoneTooOld(byID, entry, caller) /\ NoneWantsMore(caller) /\ Tracked(byID, entry, caller)
    BY DEF CacheInv, Fresh
  <2>2. \A q \in Stored(byID, entry') : q \in Stored(byID, entry) /\ entry'[byID[q]].ver = entry[byID[q]].ver
    BY <1>4, <1>5, <1>6 DEF Stored
  <2>3. Fresh(byID, entry', caller')
    BY <1>1, <2>1, <2>2 DEF Fresh, NoneTooOld, Tracked, NoneWantsMore
  <2>4. \A q \in Problems : byID'[q] # None =>
             byID'[q] = byID[q] /\ byID[q] \in Entries /\ entry'[byID'[q]] = entry'[byID[q]]
    BY <1>1, <1>5
  <2> QED
    BY <1>1, <1>7, <2>3, <2>4, FreshKeeps
<1> QED
  BY <1>1, <1>7, <1>8, <1>9, <1>10, CallerCloses

EditTypes ==
    /\ version \in [Problems -> 0..MaxEdits]
    /\ listener \in {"down", "listening", "up"}
    /\ failures \in 0..MaxFailures
    /\ edited \in [Problems -> 0..MaxEdits]
    /\ unsent \in [Problems -> 0..MaxEdits]
    /\ sent \in [Problems -> 0..MaxEdits]
    /\ missed \subseteq Problems
    /\ quiet \subseteq Problems
    /\ known \in [Problems -> 0..MaxEdits]

\* A step that drops suites: what it no longer excuses it dropped.
LEMMA DropCloses ==
    ASSUME CacheInv, UNCHANGED <<version, caller>>, EditTypes', EditsCounted',
           byID' \in MapType, \A p \in Problems : byID'[p] \in {byID[p], None},
           Keep(entry, older), Charged(byID', entry, bytes'), bytes' <= bytes,
           \A p \in Problems : known[p] <= known'[p] /\ (byID'[p] # None => known'[p] = known[p]),
           \A p \in Problems : byID'[p] # None /\ Excused(p) => Excused(p)'
    PROVE  CacheInv'
<1>1. Sound(byID, entry, caller', older)
  BY DEF CacheInv
<1>2. /\ Sound(byID', entry', caller', older')
      /\ \A p \in Problems : byID'[p] # None =>
             byID'[p] = byID[p] /\ byID[p] \in Entries /\ entry'[byID'[p]] = entry[byID[p]]
  BY <1>1, PruneKeeps
<1>3. Stored(byID, entry)' = Stored(byID', entry)
  BY <1>2 DEF Stored
<1>4. Charged(byID', entry', bytes')
  <2>1. /\ Stored(byID', entry) \in SUBSET Problems
        /\ \A p \in Stored(byID', entry) : entry[byID'[p]].ver = entry'[byID'[p]].ver
    BY <1>2 DEF Stored
  <2>2. TotalBytes(Stored(byID', entry), byID', entry) = TotalBytes(Stored(byID', entry), byID', entry')
    BY <2>1, TotalSame
  <2> QED
    BY <1>3, <2>2 DEF Charged
<1>5. bytes' \in Nat
  BY <1>2, <1>4, ChargedNat
<1>6. TypeOK'
  <2>1. older' \subseteq Problems \X Problems
    BY <1>2 DEF Sound, Ordered, Stored
  <2> QED
    BY <1>2, <1>5, <2>1 DEF TypeOK, EditTypes, Sound, MapType, HeapType, CallType
<1>7. WithinBudget'
  <2>1. \A p \in Stored(byID, entry)' :
            p \in Stored(byID, entry) /\ entry'[byID'[p]].users = entry[byID[p]].users
    BY <1>2 DEF Stored
  <2> QED
    BY <1>5, <2>1, BudgetKept
<1>8. Fresh(byID, entry, caller)'
  <2>1. NoneTooOld(byID, entry, caller) /\ NoneWantsMore(caller) /\ Tracked(byID, entry, caller)
    BY DEF CacheInv, Fresh
  <2>2. \A p \in Stored(byID, entry)' :
            /\ p \in Stored(byID, entry) /\ entry'[byID'[p]] = entry[byID[p]]
            /\ p \in Problems /\ byID'[p] # None
    BY <1>2 DEF Stored
  <2>3. \A u \in Callers : caller[u].pc = "loaded" /\ byID'[caller[u].prob] = caller[u].entry =>
            /\ caller[u].prob \in Problems /\ byID'[caller[u].prob] # None
            /\ byID[caller[u].prob] = caller[u].entry
    <3>1. \A u \in Callers : caller[u].pc = "loaded" =>
              caller[u].prob \in Problems /\ caller[u].entry \in Entries
      BY DEF CacheInv, Sound, CallsSound, Loads
    <3> QED
      BY <1>2, <3>1, CacheAssumption
  <2>4. NoneTooOld(byID, entry, caller)'
    BY <2>1, <2>2, <2>3 DEF NoneTooOld
  <2>5. Tracked(byID, entry, caller)'
    <3>1. \A p \in Stored(byID, entry)' : entry'[byID'[p]].ver = version[p] \/ Excused(p)'
      BY <2>1, <2>2 DEF Tracked
    <3>2. \A u \in Callers : caller[u].pc = "loaded" /\ byID'[caller[u].prob] = caller[u].entry =>
              caller[u].ver = version[caller[u].prob] \/ Excused(caller[u].prob)'
      <4> SUFFICES ASSUME NEW u \in Callers, caller[u].pc = "loaded",
                          byID'[caller[u].prob] = caller[u].entry
                   PROVE  caller[u].ver = version[caller[u].prob] \/ Excused(caller[u].prob)'
        OBVIOUS
      <4>1. PICK p \in Problems : p = caller[u].prob
        BY <2>3
      <4>2. byID'[p] # None /\ byID[p] = caller[u].entry /\ caller'[u].prob = p
        BY <2>3, <4>1
      <4>3. caller[u].ver = version[p] \/ Excused(p)
        BY <2>1, <4>1, <4>2 DEF Tracked
      <4> QED
        BY <4>1, <4>2, <4>3
    <3> QED
      BY <3>1, <3>2 DEF Tracked
  <2>6. NoneWantsMore(caller)'
    <3> SUFFICES ASSUME NEW u \in Callers, caller[u].pc # "idle"
                 PROVE  caller[u].want <= known'[caller[u].prob]
      BY <2>1 DEF NoneWantsMore
    <3>1. PICK p \in Problems : p = caller[u].prob
      BY DEF CacheInv, Sound, CallsSound
    <3>2. caller[u].want <= known[p] /\ known[p] <= known'[p]
      BY <2>1, <3>1 DEF NoneWantsMore
    <3>3. caller[u].want \in Nat /\ known[p] \in Nat /\ known'[p] \in Nat
      BY DEF CacheInv, TypeOK, EditTypes
    <3> QED
      BY <3>1, <3>2, <3>3
  <2> QED
    BY <2>4, <2>5, <2>6 DEF Fresh
<1> QED
  BY <1>2, <1>4, <1>6, <1>7, <1>8 DEF CacheInv

LEMMA InvalidateInv ==
    ASSUME CacheInv, NEW p \in Problems, InvalidateTests(p) \/ Notified(p)
    PROVE  CacheInv'
<1>1. /\ byID' = [byID EXCEPT ![p] = None]
      /\ bytes' = bytes - BytesOf(p)
      /\ Keep(entry, older)
      /\ missed' = missed \ {p}
      /\ quiet' = quiet \ {p}
      /\ known' = [known EXCEPT ![p] = version[p]]
      /\ UNCHANGED <<version, listener, failures, caller>>
      /\ \/ /\ edited[p] > 0 /\ edited' = [edited EXCEPT ![p] = @ - 1]
            /\ unsent' = [unsent EXCEPT ![p] = @ + 1] /\ sent' = sent
         \/ /\ sent[p] > 0 /\ edited' = edited /\ unsent' = unsent
            /\ sent' = [sent EXCEPT ![p] = @ - 1]
  BY DEF InvalidateTests, Notified, invalidate
<1>2. /\ byID \in MapType /\ EditTypes
  BY DEF CacheInv, Sound, TypeOK, EditTypes
<1>3. /\ byID' \in MapType /\ byID'[p] = None
      /\ \A q \in Problems : q # p => byID'[q] = byID[q]
  BY <1>1, <1>2 DEF MapType
<1>4. /\ known'[p] = version[p] /\ known' \in [Problems -> 0..MaxEdits]
      /\ \A q \in Problems : q # p => known'[q] = known[q]
      /\ version' = version /\ listener' = listener
  BY <1>1, <1>2 DEF EditTypes
<1>5. \A q \in Problems : q # p =>
          edited'[q] = edited[q] /\ unsent'[q] = unsent[q] /\ sent'[q] = sent[q]
  BY <1>1, <1>2 DEF EditTypes
<1>6. /\ edited'[p] \in Nat /\ unsent'[p] \in Nat /\ sent'[p] \in Nat
      /\ edited'[p] + unsent'[p] + sent'[p] <= version[p]
      /\ edited'[p] <= MaxEdits /\ unsent'[p] <= MaxEdits /\ sent'[p] <= MaxEdits
  <2>1. /\ edited'[p] = edited[p] - 1 /\ unsent'[p] = unsent[p] + 1 /\ sent'[p] = sent[p]
           /\ edited[p] > 0
        \/ /\ edited'[p] = edited[p] /\ unsent'[p] = unsent[p] /\ sent'[p] = sent[p] - 1
           /\ sent[p] > 0
    BY <1>1, <1>2 DEF EditTypes
  <2> QED
    BY <2>1, EditNumbers
<1>7. /\ edited' \in [Problems -> 0..MaxEdits] /\ unsent' \in [Problems -> 0..MaxEdits]
      /\ sent' \in [Problems -> 0..MaxEdits]
  BY <1>1, <1>2, <1>6, EditNumbers DEF EditTypes
<1>8. EditTypes'
  BY <1>1, <1>2, <1>4, <1>7 DEF EditTypes
<1>9. EditsCounted'
  <2>1. \A q \in Problems : /\ edited'[q] + unsent'[q] + sent'[q] <= version[q]
                            /\ known'[q] <= version[q]
    BY <1>4, <1>5, <1>6, EditNumbers
  <2> QED
    BY <1>4, <2>1 DEF CacheInv, EditsCounted
<1>10. Charged(byID', entry, bytes') /\ bytes' <= bytes
  <2> DEFINE S == Stored(byID, entry)
  <2>1. bytes' = TotalBytes(S \ {p}, byID, entry) /\ bytes' <= bytes
    BY <1>1, BytesLeft
  <2>2. /\ S \ {p} \in SUBSET Problems
        /\ \A q \in S \ {p} : entry[byID[q]].ver = entry[byID'[q]].ver
    BY <1>3 DEF Stored
  <2>3. Stored(byID', entry) = S \ {p}
    BY <1>3 DEF Stored
  <2> HIDE DEF S
  <2>4. TotalBytes(S \ {p}, byID, entry) = TotalBytes(S \ {p}, byID', entry)
    BY <2>2, TotalSame
  <2> QED
    BY <2>1, <2>3, <2>4 DEF Charged
<1>11. \A q \in Problems : byID'[q] # None /\ Excused(q) => Excused(q)'
  <2> SUFFICES ASSUME NEW q \in Problems, byID'[q] # None, Excused(q) PROVE Excused(q)'
    OBVIOUS
  <2>1. q # p
    BY <1>3
  <2>2. Owed(q)' <=> Owed(q)
    BY <1>5, <2>1 DEF Owed
  <2> QED
    BY <1>1, <1>4, <2>1, <2>2 DEF Excused
<1>12. \A q \in Problems : known[q] <= known'[q] /\ (byID'[q] # None => known'[q] = known[q])
  BY <1>3, <1>4, EditNumbers
<1>13. \A q \in Problems : byID'[q] \in {byID[q], None}
  BY <1>3
<1>14. UNCHANGED <<version, caller>>
  BY <1>1
<1> QED
  BY <1>1, <1>3, <1>8, <1>9, <1>10, <1>11, <1>12, <1>13, <1>14, DropCloses

LEMMA ClearInv ==
    ASSUME CacheInv, ListenerReady \/ ListenerFails
    PROVE  CacheInv'
<1>1. /\ byID' = [p \in Problems |-> None]
      /\ bytes' = 0
      /\ Keep(entry, older)
      /\ missed' = {} /\ quiet' = {}
      /\ known' = version
      /\ UNCHANGED <<version, edited, unsent, caller>>
      /\ \/ listener' = "up" /\ failures' = failures /\ sent' = sent
         \/ /\ listener' = "down" /\ failures < MaxFailures /\ failures' = failures + 1
            /\ sent' = [p \in Problems |-> 0]
  BY DEF ListenerReady, ListenerFails, clear
<1>2. EditTypes /\ 0 \in 0..MaxEdits /\ bytes \in Nat
  BY CacheAssumption DEF CacheInv, TypeOK, EditTypes
<1>3. byID' \in MapType /\ \A p \in Problems : byID'[p] = None
  BY <1>1 DEF MapType
<1>4. EditTypes'
  <2>1. failures' \in 0..MaxFailures /\ sent' \in [Problems -> 0..MaxEdits]
    BY <1>1, <1>2, CacheAssumption DEF EditTypes
  <2> QED
    BY <1>1, <1>2, <2>1 DEF EditTypes
<1>5. EditsCounted'
  <2>1. \A p \in Problems : sent'[p] \in Nat /\ sent'[p] <= sent[p]
    BY <1>1, EditNumbers
  <2>2. \A p \in Problems : /\ edited[p] + unsent[p] + sent'[p] <= version[p]
                            /\ version[p] <= version[p]
    BY <2>1, EditNumbers
  <2> QED
    BY <1>1, <2>2 DEF CacheInv, EditsCounted
<1>6. Charged(byID', entry, bytes') /\ bytes' <= bytes
  <2>1. Stored(byID', entry) = {}
    BY <1>3 DEF Stored
  <2>2. TotalBytes({}, byID', entry) = 0
    <3> DEFINE f == [p \in {} |-> SuiteBytes[p, entry[byID'[p]].ver]]
    <3>1. DOMAIN f = {} /\ SumFunction(f) = SumFunctionOnSet(f, DOMAIN f)
      BY DEF SumFunction
    <3>2. TotalBytes({}, byID', entry) = SumFunction(f)
      BY DEF TotalBytes
    <3> HIDE DEF f
    <3> QED
      BY <3>1, <3>2, SumEmpty
  <2> QED
    BY <1>1, <1>2, <2>1, <2>2 DEF Charged
<1>7. \A p \in Problems : known[p] <= known'[p] /\ (byID'[p] # None => known'[p] = known[p])
  BY <1>1, <1>3, EditNumbers
<1>8. UNCHANGED <<version, caller>>
  BY <1>1
<1> QED
  BY <1>1, <1>3, <1>4, <1>5, <1>6, <1>7, <1>8, DropCloses

-----------------------------------------------------------------------------
(* The theorems.                                                           *)

\* Initially nothing is edited, cached or used.
LEMMA InitInv == Init => CacheInv
<1> SUFFICES ASSUME Init PROVE CacheInv
  OBVIOUS
<1>1. /\ 0 \in 0..MaxEdits /\ 0 \in 0..MaxFailures /\ MaxEdits \in Nat
      /\ IsFiniteSet(Problems) /\ MaxBytes \in Nat
  BY CacheAssumption
<1>2. /\ \A p \in Problems : byID[p] = None
      /\ \A u \in Callers : caller[u].pc = "idle"
      /\ \A e \in Entries : entry[e].users = 0
      /\ Stored(byID, entry) = {}
  BY DEF Init, IdleCaller, Garbage, Slot, Stored
<1>3. /\ entry \in HeapType /\ caller \in CallType /\ byID \in MapType
  <2>1. Garbage \in [phase : {"loading", "cached", "stale", "failed", "cancelled"},
                     ver : 0..MaxEdits, users : Nat, fresh : BOOLEAN]
    BY <1>1 DEF Garbage, Slot
  <2>2. IdleCaller \in [pc : {"idle", "lookup", "waiting", "loading", "loaded", "using"},
                        prob : Problems \cup {None}, entry : Entries \cup {None},
                        ver : 0..MaxEdits, want : 0..MaxEdits]
    BY <1>1 DEF IdleCaller
  <2> QED
    BY <2>1, <2>2 DEF Init, HeapType, CallType, MapType
<1>4. TypeOK
  BY <1>1, <1>3 DEF Init, TypeOK, HeapType, CallType, MapType
<1>5. EditsCounted
  <2>1. SumFunctionOnSet(version, Problems) = 0
    <3>1. \A p \in Problems : version[p] = 0
      BY DEF Init
    <3> QED
      BY <1>1, <3>1, SumZero
  <2>2. SumFunction(version) = SumFunctionOnSet(version, Problems)
    BY DEF SumFunction, Init
  <2>3. SumFunction(version) <= MaxEdits
    BY <1>1, <2>1, <2>2
  <2>4. \A p \in Problems : edited[p] + unsent[p] + sent[p] <= version[p] /\ known[p] <= version[p]
    BY DEF Init
  <2> QED
    BY <2>3, <2>4 DEF EditsCounted
<1>6. Sound(byID, entry, caller, older)
  <2>1. UsersCounted(entry, caller)
    <3>1. \A e \in Entries : UsersOf(e, caller) = {}
      BY <1>2 DEF UsersOf
    <3> QED
      BY <1>2, <3>1, FS_EmptySet DEF UsersCounted
  <2>2. MapSound(byID, entry)
    BY <1>2 DEF MapSound
  <2>3. CallsSound(byID, entry, caller)
    BY <1>2 DEF CallsSound, Loads
  <2>4. Ordered(older, Stored(byID, entry))
    BY <1>2 DEF Ordered, Init
  <2> QED
    BY <1>3, <2>1, <2>2, <2>3, <2>4 DEF Sound
<1>7. Charged(byID, entry, bytes)
  <2> DEFINE f == [p \in {} |-> SuiteBytes[p, entry[byID[p]].ver]]
  <2>1. DOMAIN f = {} /\ SumFunction(f) = SumFunctionOnSet(f, DOMAIN f)
    BY DEF SumFunction
  <2>2. TotalBytes({}, byID, entry) = SumFunction(f)
    BY DEF TotalBytes
  <2> HIDE DEF f
  <2>3. TotalBytes({}, byID, entry) = 0
    BY <2>1, <2>2, SumEmpty
  <2>4. TotalBytes(Stored(byID, entry), byID, entry) = 0
    BY <1>2, <2>3
  <2> QED
    BY <2>4 DEF Init, Charged
<1>8. WithinBudget
  BY <1>1 DEF WithinBudget, Init
<1>9. Fresh(byID, entry, caller)
  BY <1>2 DEF Fresh, NoneTooOld, NoneWantsMore, Tracked
<1> QED
  BY <1>4, <1>5, <1>6, <1>7, <1>8, <1>9 DEF CacheInv

LEMMA NextInv == CacheInv /\ [Next]_vars => CacheInv'
<1> SUFFICES ASSUME CacheInv, [Next]_vars PROVE CacheInv'
  OBVIOUS
<1>1. CASE CallerStep
  <2>1. PICK u \in Callers :
          \/ \E p \in Problems : Begin(u, p)
          \/ AcquireStep(u)
          \/ Cancel(u)
          \/ \E kind \in {"failed", "cancelled"} : FailLoad(u, kind)
          \/ Release(u)
    BY <1>1 DEF CallerStep
  <2>2. CASE (\E p \in Problems : Begin(u, p)) \/ LookupWait(u)
    BY <2>2, LookInv
  <2>3. CASE Wake(u) \/ Cancel(u)
    BY <2>3, WakeInv
  <2>4. CASE DropLoad(u) \/ \E kind \in {"failed", "cancelled"} : FailLoad(u, kind)
    BY <2>4, LoadEndsInv
  <2> QED
    BY <2>1, <2>2, <2>3, <2>4, HitInv, LoadInv, ReadInv, PublishInv, ReleaseInv DEF AcquireStep
<1>2. CASE EditStep
  <2>1. PICK p \in Problems :
          \/ Expire(p)
          \/ EditHere(p) \/ EditElsewhere(p) \/ RedistributePoints(p) \/ InvalidateTests(p)
          \/ Notify(p) \/ LoseNotification(p) \/ Notified(p)
    BY <1>2 DEF EditStep
  <2> QED
    BY <2>1, ExpireInv, EditInv, InvalidateInv, NotifyInv
<1>3. CASE ListenerStep
  BY <1>3, ListenInv, ClearInv DEF ListenerStep
<1>4. CASE UNCHANGED vars
  <2>1. UNCHANGED <<heapVars, caller, known>>
    BY <1>4 DEF vars, editVars
  <2>2. TypeOK' /\ EditsCounted'
    BY <1>4 DEF vars, editVars, heapVars, CacheInv, TypeOK, EditsCounted
  <2>3. \A p \in Problems : (version'[p] = version[p] /\ ~ Excused(p)) \/ Excused(p)'
    BY <1>4 DEF vars, editVars, Excused, Owed
  <2> QED
    BY <2>1, <2>2, <2>3, EditCloses
<1> QED
  BY <1>1, <1>2, <1>3, <1>4 DEF Next

\* The invariant above, from which the others follow.
THEOREM CacheInvariant == Spec => []CacheInv
  BY InitInv, NextInv, PTL DEF Spec

\* The map, the heap, the byte count and the calls have their types: acquire never
\* finds a byte count or a number of users below zero.
THEOREM TypeCorrect == Spec => []TypeOK
<1>1. CacheInv => TypeOK
  BY DEF CacheInv
<1> QED
  BY <1>1, CacheInvariant, PTL

\* evict: the budget is exceeded by suites in use only.
THEOREM BudgetHolds == Spec => []WithinBudget
<1>1. CacheInv => WithinBudget
  BY DEF CacheInv
<1> QED
  BY <1>1, CacheInvariant, PTL

\* c.bytes and the user counts are exact: nothing in use is evicted, and nothing stays
\* pinned or charged when it is gone.
THEOREM LedgerHolds == Spec => []LedgerExact
<1>1. ASSUME CacheInv PROVE LedgerExact
  <2>1. {p \in Problems : Cached(p)} = Stored(byID, entry)
    BY DEF Cached, Stored
  <2>2. bytes = TotalBytes(Stored(byID, entry), byID, entry)
    BY <1>1 DEF CacheInv, Charged
  <2>3. BytesExact
    BY <2>1, <2>2 DEF BytesExact
  <2>4. UsersExact
    BY <1>1 DEF CacheInv, Sound, UsersCounted, UsersOf, UsersExact
  <2> QED
    BY <2>3, <2>4 DEF LedgerExact
<1> QED
  BY <1>1, CacheInvariant, PTL

\* A call that began after an invalidation arrived judges with the tests of that edit or
\* newer ones.
THEOREM AcquireIsFresh == Spec => []FreshAcquire
<1>1. CacheInv => FreshAcquire
  BY DEF CacheInv, Fresh, NoneWantsMore, FreshAcquire
<1> QED
  BY <1>1, CacheInvariant, PTL

\* While the listener is up, what is out of date in the cache is out of date because an
\* invalidation is on its way, was lost, or was never asked for.
THEOREM StaleIsOwed == Spec => []StaleOnlyWhileOwed
<1>1. ASSUME CacheInv PROVE StaleOnlyWhileOwed
  <2> SUFFICES ASSUME NEW p \in Problems, listener = "up", OutOfDate(p)
               PROVE  Owed(p) \/ p \in missed \cup quiet
    BY DEF StaleOnlyWhileOwed
  <2>1. p \in Stored(byID, entry) /\ entry[byID[p]].ver # version[p]
    BY DEF OutOfDate, Cached, Stored
  <2> QED
    BY <1>1, <2>1 DEF CacheInv, Fresh, Tracked, Excused
<1> QED
  BY <1>1, CacheInvariant, PTL

=============================================================================
