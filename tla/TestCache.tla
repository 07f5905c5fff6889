----------------------------- MODULE TestCache ------------------------------
(***************************************************************************)
(* The test-suite cache of one judge process (backend/internal/judge:      *)
(* testcache.go) with what invalidates it: the listener of engine.go, the  *)
(* edits of other processes and the best-effort notifications of them.     *)
(* Each critical section of testCache.mu is one action; a load runs        *)
(* outside of it.  A suite is known by its version and its size.           *)
(***************************************************************************)
EXTENDS Naturals, FiniteSets, Functions

CONSTANTS
    Problems,
    Callers,        \* evaluations that call acquire
    Entries,        \* addresses of *cachedTests: enough for every live one
    None,           \* nil
    SuiteBytes,     \* payload of each version of a problem's suite
    MaxBytes,       \* maxBytes, the retained payload budget
    MaxEdits,       \* bound: edits of all problems together
    MaxFailures     \* bound: failures of the listener's connection

ASSUME CacheAssumption ==
    /\ IsFiniteSet(Problems)
    /\ IsFiniteSet(Callers)
    /\ None \notin Entries
    /\ None \notin Problems
    /\ SuiteBytes \in [Problems \X (0..MaxEdits) -> Nat]
    /\ MaxBytes \in Nat
    /\ MaxEdits \in Nat
    /\ MaxFailures \in Nat

VARIABLES
    version,        \* committed version of each problem's rows in problem_tests
    listener,       \* "down", "listening" (LISTEN done, cache not yet cleared) or "up"
    failures,       \* how often the listener's connection has failed
    edited,         \* committed edits of this process, before InvalidateTests
    unsent,         \* committed edits whose notification is still to be sent
    sent,           \* notifications of each problem waiting at the listener's connection
    byID,           \* the map: the problem's entry or None
    entry,          \* the heap of cachedTests
    bytes,          \* c.bytes
    older,          \* pairs of problems whose suites were last used in this order
    caller,         \* what each call of acquire is doing
    \* history, read by properties only
    missed,         \* problems with a notification lost since the last invalidation
    quiet,          \* problems whose points were redistributed since the last one
    known           \* the version that stood when the problem was last invalidated

editVars == <<version, listener, failures, edited, unsent, sent, missed, quiet, known>>
heapVars == <<byID, entry, bytes, older>>
vars == <<editVars, heapVars, caller>>

-----------------------------------------------------------------------------
\* phase: "loading" while ready is open, "cached" once the tests are stored,
\* "stale" when the load lost its place in the map, "failed" or "cancelled"
\* by the kind of entry.err.
Slot(phase) == [phase |-> phase, ver |-> 0, users |-> 0, fresh |-> TRUE]
NewEntry    == Slot("loading")
Garbage     == Slot("stale")
IdleCaller  == [pc |-> "idle", prob |-> None, entry |-> None, ver |-> 0, want |-> 0]

\* The entries something refers to.
Live(map, calls) == {map[p] : p \in Problems} \cup {calls[u].entry : u \in Callers}

\* What remains of a heap and the order of use in the next state, given byID' and
\* caller': an entry that nothing refers to any more is garbage.
Keep(heap, order) ==
    /\ entry' = [e \in Entries |-> IF e \in Live(byID', caller') THEN heap[e] ELSE Garbage]
    /\ older' = {x \in order : byID'[x[1]] # None /\ byID'[x[2]] # None}

Cached(p) == byID[p] # None /\ entry[byID[p]].phase = "cached"
Expired(p) == Cached(p) /\ ~entry[byID[p]].fresh

\* lastUsed of p's entry goes, or becomes the highest.
Forget(p) == {x \in older : p \notin {x[1], x[2]}}
Touch(p) == Forget(p) \cup {<<q, p>> : q \in {q \in Problems \ {p} : Cached(q)}}

TotalBytes(P, map, heap) == SumFunction([p \in P |-> SuiteBytes[p, heap[map[p]].ver]])

\* Mutant: an entry that still loads is charged.
BytesOfAny(p) == IF byID[p] # None THEN SuiteBytes[p, version[p]] ELSE 0

BytesOf(p) == IF Cached(p) THEN SuiteBytes[p, entry[byID[p]].ver] ELSE 0

\* evict, on a map, heap, byte count and order: an idle suite goes if the budget
\* is still exceeded when all idle suites used before it have gone.
Evicted(map, heap, count, order) ==
    LET idle == {p \in Problems : /\ map[p] # None
                                  /\ heap[map[p]].phase = "cached"
                                  /\ heap[map[p]].users = 0}
    IN {p \in idle : count > MaxBytes + TotalBytes({q \in idle : <<q, p>> \in order}, map, heap)}

evict(map, heap, count, order) ==
    LET gone == Evicted(map, heap, count, order) IN
    /\ byID' = [p \in Problems |-> IF p \in gone THEN None ELSE map[p]]
    /\ bytes' = count - TotalBytes(gone, map, heap)
    /\ Keep(heap, order)

-----------------------------------------------------------------------------
Init ==
    /\ version = [p \in Problems |-> 0]
    /\ listener = "down"
    /\ failures = 0
    /\ edited = [p \in Problems |-> 0]
    /\ unsent = [p \in Problems |-> 0]
    /\ sent = [p \in Problems |-> 0]
    /\ byID = [p \in Problems |-> None]
    /\ entry = [e \in Entries |-> Garbage]
    /\ bytes = 0
    /\ older = {}
    /\ caller = [u \in Callers |-> IdleCaller]
    /\ missed = {}
    /\ quiet = {}
    /\ known = [p \in Problems |-> 0]

-----------------------------------------------------------------------------
(* acquire.                                                                *)

\* Workers start when the listener is ready for the first time.
Begin(u, p) ==
    /\ listener = "up" \/ failures > 0
    /\ caller[u].pc = "idle"
    /\ caller' = [caller EXCEPT ![u] = [pc |-> "lookup", prob |-> p, entry |-> None,
                                        ver |-> 0, want |-> known[p]]]
    /\ UNCHANGED <<editVars, heapVars>>

\* Mutant: a hit does not count as a user.
HitWithoutUser(u) ==
    LET p == caller[u].prob
        e == byID[p]
    IN
    /\ caller[u].pc = "lookup"
    /\ Cached(p) /\ ~Expired(p)
    /\ caller' = [caller EXCEPT ![u].pc = "using", ![u].entry = e, ![u].ver = entry[e].ver]
    /\ evict(byID, entry, bytes, Touch(p))
    /\ UNCHANGED editVars

\* The suite is there and not expired.
LookupHit(u) ==
    LET p == caller[u].prob
        e == byID[p]
    IN
    /\ caller[u].pc = "lookup"
    /\ Cached(p) /\ ~Expired(p)
    /\ caller' = [caller EXCEPT ![u].pc = "using", ![u].entry = e, ![u].ver = entry[e].ver]
    /\ evict(byID, [entry EXCEPT ![e].users = @ + 1], bytes, Touch(p))
    /\ UNCHANGED editVars

\* It is missing, or expired and dropped: this call loads it.
LookupLoad(u) ==
    LET p == caller[u].prob
        free == Entries \ Live(byID, caller)
    IN
    /\ caller[u].pc = "lookup"
    /\ byID[p] = None \/ Expired(p)
    /\ free # {}
    /\ LET e == CHOOSE e \in free : TRUE IN
          /\ byID' = [byID EXCEPT ![p] = e]
          /\ caller' = [caller EXCEPT ![u].pc = "loading", ![u].entry = e]
          /\ Keep([entry EXCEPT ![e] = NewEntry], Forget(p))
    /\ bytes' = bytes - BytesOf(p)
    /\ UNCHANGED editVars

\* Another call is loading it: wait for ready.
LookupWait(u) ==
    LET p == caller[u].prob IN
    /\ caller[u].pc = "lookup"
    /\ byID[p] # None /\ entry[byID[p]].phase = "loading"
    /\ caller' = [caller EXCEPT ![u].pc = "waiting", ![u].entry = byID[p]]
    /\ UNCHANGED <<editVars, heapVars>>

\* ready is closed: return a lasting error, look again otherwise.
Wake(u) ==
    LET phase == entry[caller[u].entry].phase IN
    /\ caller[u].pc = "waiting"
    /\ phase # "loading"
    /\ caller' = [caller EXCEPT ![u] = IF phase = "failed" THEN IdleCaller
                                       ELSE [@ EXCEPT !.pc = "lookup", !.entry = None]]
    /\ UNCHANGED <<editVars, byID, bytes>>
    /\ Keep(entry, older)

\* ctx.Done() outside of a load.
Cancel(u) ==
    /\ caller[u].pc \in {"lookup", "waiting"}
    /\ caller' = [caller EXCEPT ![u] = IdleCaller]
    /\ UNCHANGED <<editVars, byID, bytes>>
    /\ Keep(entry, older)

\* GetProblemTests reads one snapshot ...
SourceReads(u) ==
    /\ caller[u].pc = "loading"
    /\ caller' = [caller EXCEPT ![u].pc = "loaded", ![u].ver = version[caller[u].prob]]
    /\ UNCHANGED <<editVars, heapVars>>

UsedSuite(slot, ver) ==
    [phase |-> "cached", ver |-> ver, users |-> slot.users + 1, fresh |-> slot.fresh]

InPlace(u) == byID[caller[u].prob] = caller[u].entry

\* ... which is stored and used if the entry is still in the map,
PublishLoad(u) ==
    LET p == caller[u].prob
        e == caller[u].entry
    IN
    /\ caller[u].pc = "loaded"
    /\ InPlace(u)
    /\ caller' = [caller EXCEPT ![u].pc = "using"]
    /\ evict(byID,
             [entry EXCEPT ![e] = UsedSuite(@, caller[u].ver)],
             bytes + SuiteBytes[p, caller[u].ver], Touch(p))
    /\ UNCHANGED editVars

\* Mutant: the loader that lost its place does not close ready.
DropLoadSilently(u) ==
    /\ caller[u].pc \in {"loading", "loaded"}
    /\ ~InPlace(u)
    /\ caller' = [caller EXCEPT ![u].pc = "lookup", ![u].entry = None]
    /\ UNCHANGED <<editVars, byID, bytes>>
    /\ Keep(entry, older)

\* and dropped if it was invalidated meanwhile, whether it succeeded or not.
DropLoad(u) ==
    /\ caller[u].pc \in {"loading", "loaded"}
    /\ ~InPlace(u)
    /\ caller' = [caller EXCEPT ![u].pc = "lookup", ![u].entry = None]
    /\ UNCHANGED <<editVars, byID, bytes>>
    /\ Keep([entry EXCEPT ![caller[u].entry].phase = "stale"], older)

\* The load fails, for good or because the loader's own context ended.
FailLoad(u, kind) ==
    LET e == caller[u].entry IN
    /\ caller[u].pc = "loading"
    /\ InPlace(u)
    /\ byID' = [byID EXCEPT ![caller[u].prob] = None]
    /\ caller' = [caller EXCEPT ![u] = IdleCaller]
    /\ Keep([entry EXCEPT ![e].phase = kind], older)
    /\ UNCHANGED <<editVars, bytes>>

\* Mutant: releasing a suite does not evict.
ReleaseOnly(u) ==
    /\ caller[u].pc = "using"
    /\ caller' = [caller EXCEPT ![u] = IdleCaller]
    /\ UNCHANGED <<editVars, byID, bytes>>
    /\ Keep([entry EXCEPT ![caller[u].entry].users = @ - 1], older)

\* The function that acquire returned.
Release(u) ==
    /\ caller[u].pc = "using"
    /\ caller' = [caller EXCEPT ![u] = IdleCaller]
    /\ evict(byID, [entry EXCEPT ![caller[u].entry].users = @ - 1], bytes, older)
    /\ UNCHANGED editVars

\* Five minutes have passed since the suite was loaded.
Expire(p) ==
    /\ Cached(p)
    /\ entry' = [entry EXCEPT ![byID[p]].fresh = FALSE]
    /\ UNCHANGED <<editVars, byID, bytes, older, caller>>

-----------------------------------------------------------------------------
(* Edits, notifications and the listener.                                  *)

\* An organizer's edit of the tests commits, in this process or elsewhere.
EditHere(p) ==
    /\ SumFunction(version) < MaxEdits
    /\ version' = [version EXCEPT ![p] = @ + 1]
    /\ edited' = [edited EXCEPT ![p] = @ + 1]
    /\ UNCHANGED <<listener, failures, unsent, sent, missed, quiet, known, heapVars, caller>>

EditElsewhere(p) ==
    /\ SumFunction(version) < MaxEdits
    /\ version' = [version EXCEPT ![p] = @ + 1]
    /\ unsent' = [unsent EXCEPT ![p] = @ + 1]
    /\ UNCHANGED <<listener, failures, edited, sent, missed, quiet, known, heapVars, caller>>

\* updateProblem with another max_score and no tests: problem.Repository.Update
\* redistributes the points of the tests, and nothing is invalidated.
RedistributePoints(p) ==
    /\ SumFunction(version) < MaxEdits
    /\ version' = [version EXCEPT ![p] = @ + 1]
    /\ quiet' = quiet \cup {p}
    /\ UNCHANGED <<listener, failures, edited, unsent, sent, missed, known, heapVars, caller>>

\* Mutant: an entry that still loads is left in the map.
invalidateLoaded(p) ==
    /\ byID' = [byID EXCEPT ![p] = IF Cached(p) THEN None ELSE @]
    /\ bytes' = bytes - BytesOf(p)
    /\ Keep(entry, older)
    /\ missed' = missed \ {p}
    /\ quiet' = quiet \ {p}
    /\ known' = [known EXCEPT ![p] = version[p]]
    /\ UNCHANGED <<version, listener, failures>>

invalidate(p) ==
    /\ byID' = [byID EXCEPT ![p] = None]
    /\ bytes' = bytes - BytesOf(p)
    /\ Keep(entry, older)
    /\ missed' = missed \ {p}
    /\ quiet' = quiet \ {p}
    /\ known' = [known EXCEPT ![p] = version[p]]
    /\ UNCHANGED <<version, listener, failures>>

\* InvalidateTests: this process's own cache first ...
InvalidateTests(p) ==
    /\ edited[p] > 0
    /\ edited' = [edited EXCEPT ![p] = @ - 1]
    /\ unsent' = [unsent EXCEPT ![p] = @ + 1]
    /\ UNCHANGED <<sent, caller>>
    /\ invalidate(p)

\* ... then, in a goroutine, pg_notify: only a connection that listens is told.
Notify(p) ==
    /\ unsent[p] > 0
    /\ unsent' = [unsent EXCEPT ![p] = @ - 1]
    /\ sent' = [sent EXCEPT ![p] = IF listener = "down" THEN @ ELSE @ + 1]
    /\ UNCHANGED <<version, listener, failures, edited, missed, quiet, known, heapVars, caller>>

\* The notifying Exec fails, times out or dies with its process.
LoseNotification(p) ==
    /\ unsent[p] > 0
    /\ unsent' = [unsent EXCEPT ![p] = @ - 1]
    /\ missed' = missed \cup {p}
    /\ UNCHANGED <<version, listener, failures, edited, sent, quiet, known, heapVars, caller>>

\* The listener takes the next notification.
Notified(p) ==
    /\ listener = "up"
    /\ sent[p] > 0
    /\ sent' = [sent EXCEPT ![p] = @ - 1]
    /\ UNCHANGED <<edited, unsent, caller>>
    /\ invalidate(p)

clear ==
    /\ byID' = [p \in Problems |-> None]
    /\ bytes' = 0
    /\ Keep(entry, older)
    /\ missed' = {}
    /\ quiet' = {}
    /\ known' = version
    /\ UNCHANGED <<version, edited, unsent>>

\* startSubmissionListener: LISTEN, then clear, then wait for notifications.
Listen ==
    /\ listener = "down"
    /\ listener' = "listening"
    /\ UNCHANGED <<version, failures, edited, unsent, sent, missed, quiet, known, heapVars, caller>>

\* Mutant: a new connection trusts what is cached.
ListenerReadyUncleared ==
    /\ listener = "listening"
    /\ listener' = "up"
    /\ UNCHANGED <<version, failures, edited, unsent, sent, missed, quiet, known, heapVars, caller>>

ListenerReady ==
    /\ listener = "listening"
    /\ listener' = "up"
    /\ UNCHANGED <<failures, sent, caller>>
    /\ clear

\* The connection breaks: what was waiting at it is lost.
ListenerFails ==
    /\ listener = "up"
    /\ failures < MaxFailures
    /\ listener' = "down"
    /\ failures' = failures + 1
    /\ sent' = [p \in Problems |-> 0]
    /\ UNCHANGED caller
    /\ clear

-----------------------------------------------------------------------------
AcquireStep(u) ==
    \/ LookupHit(u) \/ LookupLoad(u) \/ LookupWait(u) \/ Wake(u)
    \/ SourceReads(u) \/ PublishLoad(u) \/ DropLoad(u)

CallerStep == \E u \in Callers :
    \/ \E p \in Problems : Begin(u, p)
    \/ AcquireStep(u)
    \/ Cancel(u)
    \/ \E kind \in {"failed", "cancelled"} : FailLoad(u, kind)
    \/ Release(u)

EditStep == \E p \in Problems :
    \/ Expire(p)
    \/ EditHere(p) \/ EditElsewhere(p) \/ RedistributePoints(p) \/ InvalidateTests(p)
    \/ Notify(p) \/ LoseNotification(p) \/ Notified(p)

ListenerStep == Listen \/ ListenerReady \/ ListenerFails

Next == CallerStep \/ EditStep \/ ListenerStep

Spec == Init /\ [][Next]_vars

\* Goroutines that can run do run, and a load ends.
FairSpec == Spec /\ \A u \in Callers : WF_vars(AcquireStep(u))

-----------------------------------------------------------------------------
\* The map, the heap, the byte count and the calls have their types.
TypeOK ==
    /\ version \in [Problems -> 0..MaxEdits]
    /\ listener \in {"down", "listening", "up"}
    /\ failures \in 0..MaxFailures
    /\ edited \in [Problems -> 0..MaxEdits]
    /\ unsent \in [Problems -> 0..MaxEdits]
    /\ sent \in [Problems -> 0..MaxEdits]
    /\ byID \in [Problems -> Entries \cup {None}]
    /\ entry \in [Entries -> [phase : {"loading", "cached", "stale", "failed", "cancelled"},
                              ver : 0..MaxEdits, users : Nat, fresh : BOOLEAN]]
    /\ bytes \in Nat
    /\ older \subseteq Problems \X Problems
    /\ caller \in [Callers -> [pc : {"idle", "lookup", "waiting", "loading", "loaded", "using"},
                               prob : Problems \cup {None}, entry : Entries \cup {None},
                               ver : 0..MaxEdits, want : 0..MaxEdits]]
    /\ missed \subseteq Problems
    /\ quiet \subseteq Problems
    /\ known \in [Problems -> 0..MaxEdits]

\* c.bytes is the payload of the suites in the map, whatever expires, is
\* invalidated, evicted or cleared while others load or use it.
BytesExact == bytes = TotalBytes({p \in Problems : Cached(p)}, byID, entry)

\* The budget is exceeded only by suites in use.
WithinBudget == bytes > MaxBytes => \A p \in Problems : Cached(p) => entry[byID[p]].users > 0

\* A suite's user count is the number of evaluations that hold it: nothing in
\* use can be evicted, and nothing stays pinned when its users are gone.
UsersExact ==
    \A e \in Entries : e \in Live(byID, caller) /\ entry[e].phase = "cached" =>
        entry[e].users = Cardinality({u \in Callers : caller[u].pc = "using" /\ caller[u].entry = e})

\* The bytes and the users charged are those there are: nothing in use can be evicted,
\* nothing stays pinned when its users are gone, and the budget counts every suite once.
LedgerExact == BytesExact /\ UsersExact

\* A call that began after an invalidation arrived judges with the tests of that
\* edit or newer ones, although a load begun before it may finish after it.
FreshAcquire == \A u \in Callers : caller[u].pc = "using" => caller[u].ver >= caller[u].want

OutOfDate(p) == Cached(p) /\ entry[byID[p]].ver # version[p]
Owed(p) == edited[p] + unsent[p] + sent[p] > 0

\* While the listener is up, a cached suite is out of date only if the
\* invalidation is still on its way or was lost, or if the edit was one that
\* asks for none (in both cases until the suite expires).
StaleOnlyWhileOwed ==
    \A p \in Problems :
        (listener = "up" /\ OutOfDate(p)) => Owed(p) \/ p \in missed \cup quiet

\* README.md: "Edits and listener reconnections invalidate cached suites", and
\* the expiry is for the case that "an edit notification was missed".
EditsInvalidate ==
    \A p \in Problems : (listener = "up" /\ OutOfDate(p)) => Owed(p) \/ p \in missed

\* A call that waits for the load of another is woken, whether that load is
\* stored, fails, is cancelled or lost its place to an invalidation.
WaiterWakes == \A u \in Callers : caller[u].pc = "waiting" ~> caller[u].pc # "waiting"
=============================================================================
