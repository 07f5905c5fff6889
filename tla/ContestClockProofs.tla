-------------------------- MODULE ContestClockProofs --------------------------
(***************************************************************************)
(* Proofs about ContestClock: whatever the resolution of the clock, the    *)
(* durations and the numbers of organizers and commands, the table's times *)
(* have their types and contestants get the time the organizers gave.      *)
(***************************************************************************)
EXTENDS ContestClock, TLAPS

-----------------------------------------------------------------------------
(* The invariant.                                                          *)

Keys == {"status", "duration", "freeze", "start", "end", "pausedAt",
         "isFrozen", "overridden", "freezeStart"}

RowType ==
    [status |-> Statuses, duration |-> Nat \ {0}, freeze |-> Nat,
     start |-> Nat \cup {None}, end |-> Int \cup {None}, pausedAt |-> Nat \cup {None},
     isFrozen |-> BOOLEAN, overridden |-> BOOLEAN, freezeStart |-> Nat \cup {None}]

\* Rows that a request may save.
Fits(updates) == DOMAIN updates \subseteq Keys /\ \A k \in DOMAIN updates : updates[k] \in RowType[k]

IdealType == [status : Statuses, duration : Nat \ {0}, remaining : Int, pauses : Nat]

ThreadsFit ==
    /\ DOMAIN thread = Threads
    /\ \A o \in Threads :
          /\ thread[o].pc \in {"idle", "saving", "reading", "storing"}
          /\ Fits(thread[o].todo)
          /\ thread[o].pc = "storing" => thread[o].read \in SettingsType
          /\ o \in Refreshers => thread[o].pc \in {"idle", "storing"}

Typed ==
    /\ now \in 0..MaxNow
    /\ settings \in SettingsType
    /\ snap \in SettingsType
    /\ ThreadsFit
    /\ commands \in 0..MaxCommands
    /\ failures \in 0..MaxFailures
    /\ ideal \in IdealType
    /\ clean \in BOOLEAN /\ late \in BOOLEAN

\* The table as it will be when a request has saved its rows.
Over(s, updates) == [k \in DOMAIN s |-> IF k \in DOMAIN updates THEN updates[k] ELSE s[k]]

\* Rows s fit the status of a clock at time t: what resume and extend read is there.
Coherent(s, t, clock) ==
    /\ s.status = clock.status
    /\ s.duration = clock.duration
    /\ s.status = "NOT_STARTED" <=> s.end = None
    /\ s.status = "PAUSED" => s.pausedAt # None /\ s.pausedAt * Res <= t /\ clock.pauses > 0
    /\ s.status = "ENDED" => s.end * Res <= t /\ clock.remaining = 0

\* The truncation of the start takes less than a second; each pause gives less than one,
\* each resume takes less than one.
OnTime(s, t, clock) ==
    LET wander == Res * clock.pauses IN
    /\ s.status = "RUNNING" =>
          /\ -wander - Res < s.end * Res - t - clock.remaining
          /\ s.end * Res - t - clock.remaining <= wander
    /\ s.status = "PAUSED" =>
          /\ -wander < (s.end - s.pausedAt) * Res - clock.remaining
          /\ (s.end - s.pausedAt) * Res - clock.remaining < wander

Agrees(s, t, clock, isLate) == Coherent(s, t, clock) /\ (~isLate => OnTime(s, t, clock))

\* While every command was issued alone from current settings, at most one request
\* saves, and the table agrees with the ideal clock as soon as it has.
OneSaves ==
    \A o, p \in Organizers : thread[o].pc = "saving" /\ thread[p].pc = "saving" => o = p

Pending ==
    \A o \in Organizers : thread[o].pc = "saving" =>
        Agrees(Over(settings, thread[o].todo), now, ideal, late)

Settled ==
    (\A o \in Organizers : thread[o].pc # "saving") => Agrees(settings, now, ideal, late)

ClockInv == Typed /\ (clean => OneSaves /\ Pending /\ Settled)

-----------------------------------------------------------------------------
(* Whole seconds.                                                          *)

LEMMA Resolution == Res \in Nat \ {0} /\ None \notin Int
  BY ClockAssumption

\* The text of a time is its last whole second.
LEMMA Floor ==
    ASSUME NEW t \in Int
    PROVE  Format(t) \in Int /\ Format(t) * Res <= t /\ t < Format(t) * Res + Res
  BY Resolution DEF Format

LEMMA Distribute ==
    ASSUME NEW a \in Int, NEW b \in Int
    PROVE  /\ (a + b) * Res = a * Res + b * Res
           /\ (a - b) * Res = a * Res - b * Res
           /\ a * Res \in Int
  BY Resolution

LEMMA FloorIs ==
    ASSUME NEW t \in Int, NEW q \in Int, q * Res <= t, t < q * Res + Res
    PROVE  Format(t) = q
<1>1. Format(t) \in Int /\ Format(t) * Res <= t /\ t < Format(t) * Res + Res
  BY Floor
<1> QED
  BY <1>1, Resolution

\* Whole seconds go through it.
LEMMA FloorShift ==
    ASSUME NEW t \in Int, NEW m \in Int
    PROVE  Format(t + m * Res) = Format(t) + m
<1> DEFINE f == Format(t)
<1>1. f \in Int /\ f * Res <= t /\ t < f * Res + Res
  BY Floor
<1> HIDE DEF f
<1>2. (f + m) * Res = f * Res + m * Res /\ f * Res \in Int /\ m * Res \in Int
  BY <1>1, Distribute
<1>3. Format(t + m * Res) = f + m
  BY <1>1, <1>2, FloorIs, Resolution
<1> QED
  BY <1>3 DEF f

LEMMA FloorWhole ==
    ASSUME NEW q \in Int
    PROVE  Format(q * Res) = q
  BY FloorIs, Resolution

\* The last whole second is the last.
LEMMA FloorLast ==
    ASSUME NEW t \in Int, NEW q \in Int, q * Res <= t
    PROVE  q * Res <= Format(t) * Res
<1> DEFINE f == Format(t)
<1>1. f \in Int /\ t < f * Res + Res
  BY Floor
<1> HIDE DEF f
<1>2. q <= f
  BY <1>1, Resolution
<1>3. q * Res <= f * Res
  BY <1>1, <1>2, Resolution
<1> QED
  BY <1>3 DEF f

LEMMA FloorNat ==
    ASSUME NEW t \in Nat
    PROVE  Format(t) \in Nat
  BY Resolution DEF Format

-----------------------------------------------------------------------------
(* Rows.                                                                   *)

LEMMA RowsOf ==
    ASSUME NEW s \in SettingsType
    PROVE  DOMAIN s = Keys /\ \A k \in Keys : s[k] \in RowType[k]
<1>1. DOMAIN s = Keys
  BY DEF SettingsType, Keys
<1>2. ASSUME NEW k \in Keys PROVE s[k] \in RowType[k]
  <2>1. CASE k = "status" BY <2>1 DEF SettingsType, RowType
  <2>2. CASE k = "duration" BY <2>2 DEF SettingsType, RowType
  <2>3. CASE k = "freeze" BY <2>3 DEF SettingsType, RowType
  <2>4. CASE k = "start" BY <2>4 DEF SettingsType, RowType
  <2>5. CASE k = "end" BY <2>5 DEF SettingsType, RowType
  <2>6. CASE k = "pausedAt" BY <2>6 DEF SettingsType, RowType
  <2>7. CASE k = "isFrozen" BY <2>7 DEF SettingsType, RowType
  <2>8. CASE k = "overridden" BY <2>8 DEF SettingsType, RowType
  <2>9. CASE k = "freezeStart" BY <2>9 DEF SettingsType, RowType
  <2> QED
    BY <2>1, <2>2, <2>3, <2>4, <2>5, <2>6, <2>7, <2>8, <2>9 DEF Keys
<1> QED
  BY <1>1, <1>2

\* One row of the right type keeps the table's.
LEMMA RowSaved ==
    ASSUME NEW s \in SettingsType, NEW k \in Keys, NEW v \in RowType[k]
    PROVE  [s EXCEPT ![k] = v] \in SettingsType
  <2>1. CASE k = "status" BY <2>1 DEF SettingsType, RowType
  <2>2. CASE k = "duration" BY <2>2 DEF SettingsType, RowType
  <2>3. CASE k = "freeze" BY <2>3 DEF SettingsType, RowType
  <2>4. CASE k = "start" BY <2>4 DEF SettingsType, RowType
  <2>5. CASE k = "end" BY <2>5 DEF SettingsType, RowType
  <2>6. CASE k = "pausedAt" BY <2>6 DEF SettingsType, RowType
  <2>7. CASE k = "isFrozen" BY <2>7 DEF SettingsType, RowType
  <2>8. CASE k = "overridden" BY <2>8 DEF SettingsType, RowType
  <2>9. CASE k = "freezeStart" BY <2>9 DEF SettingsType, RowType
  <2> QED
    BY <2>1, <2>2, <2>3, <2>4, <2>5, <2>6, <2>7, <2>8, <2>9 DEF Keys

\* The rows that the clock is kept in.
LEMMA OverRows ==
    ASSUME NEW s \in SettingsType, NEW updates
    PROVE  /\ Over(s, updates).status =
                 IF "status" \in DOMAIN updates THEN updates.status ELSE s.status
           /\ Over(s, updates).duration =
                 IF "duration" \in DOMAIN updates THEN updates.duration ELSE s.duration
           /\ Over(s, updates).end = IF "end" \in DOMAIN updates THEN updates.end ELSE s.end
           /\ Over(s, updates).pausedAt =
                 IF "pausedAt" \in DOMAIN updates THEN updates.pausedAt ELSE s.pausedAt
  BY RowsOf DEF Over, Keys

LEMMA FitsIf ==
    ASSUME NEW updates, DOMAIN updates \subseteq Keys,
           "status" \in DOMAIN updates => updates.status \in Statuses,
           "duration" \in DOMAIN updates => updates.duration \in Nat \ {0},
           "freeze" \in DOMAIN updates => updates.freeze \in Nat,
           "start" \in DOMAIN updates => updates.start \in Nat \cup {None},
           "end" \in DOMAIN updates => updates.end \in Int \cup {None},
           "pausedAt" \in DOMAIN updates => updates.pausedAt \in Nat \cup {None},
           "isFrozen" \in DOMAIN updates => updates.isFrozen \in BOOLEAN,
           "overridden" \in DOMAIN updates => updates.overridden \in BOOLEAN,
           "freezeStart" \in DOMAIN updates => updates.freezeStart \in Nat \cup {None}
    PROVE  Fits(updates)
<1>1. ASSUME NEW k \in DOMAIN updates PROVE updates[k] \in RowType[k]
  <2>1. CASE k = "status" BY <1>1, <2>1 DEF RowType
  <2>2. CASE k = "duration" BY <1>1, <2>2 DEF RowType
  <2>3. CASE k = "freeze" BY <1>1, <2>3 DEF RowType
  <2>4. CASE k = "start" BY <1>1, <2>4 DEF RowType
  <2>5. CASE k = "end" BY <1>1, <2>5 DEF RowType
  <2>6. CASE k = "pausedAt" BY <1>1, <2>6 DEF RowType
  <2>7. CASE k = "isFrozen" BY <1>1, <2>7 DEF RowType
  <2>8. CASE k = "overridden" BY <1>1, <2>8 DEF RowType
  <2>9. CASE k = "freezeStart" BY <1>1, <2>9 DEF RowType
  <2> QED
    BY <1>1, <2>1, <2>2, <2>3, <2>4, <2>5, <2>6, <2>7, <2>8, <2>9 DEF Keys
<1> QED
  BY <1>1 DEF Fits

LEMMA AddingFits ==
    ASSUME NEW updates, NEW more, Fits(updates), Fits(more)
    PROVE  /\ Fits(Adding(updates, more))
           /\ DOMAIN updates \subseteq DOMAIN Adding(updates, more)
  BY DEF Fits, Adding

LEMMA AgreesSame ==
    ASSUME NEW s, NEW r, NEW t, NEW clock, NEW isLate,
           s.status = r.status, s.duration = r.duration, s.end = r.end, s.pausedAt = r.pausedAt,
           Agrees(s, t, clock, isLate)
    PROVE  Agrees(r, t, clock, isLate)
  BY DEF Agrees, Coherent, OnTime

\* A snapshot has the types of the table, and times in subticks.
LEMMA Parsed ==
    ASSUME NEW s \in SettingsType
    PROVE  /\ parseSnapshot(s) \in SettingsType
           /\ parseSnapshot(s).status = s.status
           /\ parseSnapshot(s).duration = s.duration
           /\ parseSnapshot(s).end = IF s.end = None THEN None ELSE s.end * Res
           /\ parseSnapshot(s).pausedAt = IF s.pausedAt = None THEN None ELSE s.pausedAt * Res
<1>1. ASSUME NEW x \in Nat \cup {None} PROVE parseTime(x) \in Nat \cup {None}
  BY Resolution DEF parseTime
<1>2. ASSUME NEW x \in Int \cup {None} PROVE parseTime(x) \in Int \cup {None}
  BY Resolution DEF parseTime
<1>3. /\ parseTime(s.start) \in Nat \cup {None}
      /\ parseTime(s.end) \in Int \cup {None}
      /\ parseTime(s.pausedAt) \in Nat \cup {None}
      /\ parseTime(s.freezeStart) \in Nat \cup {None}
  BY <1>1, <1>2 DEF SettingsType
<1>4. parseSnapshot(s) \in SettingsType
  BY <1>3 DEF SettingsType, parseSnapshot
<1> QED
  BY <1>4 DEF parseSnapshot, parseTime

-----------------------------------------------------------------------------
(* What a request or the refresher does next.                              *)

LEMMA NoRows == DOMAIN <<>> = {} /\ Fits(<<>>)
  BY DEF Fits

\* A thread that goes on with rows that fit keeps the threads' types.
LEMMA ThreadGoesOn ==
    ASSUME ThreadsFit, NEW o \in Threads, NEW pc, NEW todo, NEW read,
           thread' = [thread EXCEPT ![o] = Thread(pc, todo, read)],
           pc \in {"idle", "saving", "reading", "storing"},
           Fits(todo),
           pc = "storing" => read \in SettingsType,
           o \in Refreshers => pc \in {"idle", "storing"}
    PROVE  /\ ThreadsFit'
           /\ thread'[o].pc = pc /\ thread'[o].todo = todo
           /\ \A p \in Threads : p # o => thread'[p] = thread[p]
<1>1. /\ DOMAIN thread' = Threads
      /\ thread'[o] = Thread(pc, todo, read)
      /\ \A p \in Threads : p # o => thread'[p] = thread[p]
  BY DEF ThreadsFit
<1>2. thread'[o].pc = pc /\ thread'[o].todo = todo /\ thread'[o].read = read
  BY <1>1 DEF Thread
<1>3. ASSUME NEW p \in Threads
      PROVE  /\ thread'[p].pc \in {"idle", "saving", "reading", "storing"}
             /\ Fits(thread'[p].todo)
             /\ thread'[p].pc = "storing" => thread'[p].read \in SettingsType
             /\ p \in Refreshers => thread'[p].pc \in {"idle", "storing"}
  <2>1. CASE p = o
    BY <1>2, <2>1
  <2>2. CASE p # o
    BY <1>1, <2>2 DEF ThreadsFit
  <2> QED
    BY <2>1, <2>2
<1>4. ThreadsFit'
  BY <1>1, <1>3 DEF ThreadsFit
<1> QED
  BY <1>1, <1>2, <1>4

LEMMA OrganizersApart == Organizers \subseteq Threads /\ \A o \in Organizers : o \notin Refreshers
  BY ClockAssumption DEF Threads

\* One figure of the ideal clock changes.
LEMMA ClockSet ==
    ASSUME NEW c \in IdealType
    PROVE  /\ \A x \in Statuses :
                 LET d == [c EXCEPT !.status = x]
                 IN  d \in IdealType /\ d.status = x /\ d.duration = c.duration
                     /\ d.remaining = c.remaining /\ d.pauses = c.pauses
           /\ \A x \in Nat \ {0} :
                 LET d == [c EXCEPT !.duration = x]
                 IN  d \in IdealType /\ d.status = c.status /\ d.duration = x
                     /\ d.remaining = c.remaining /\ d.pauses = c.pauses
           /\ \A x \in Int :
                 LET d == [c EXCEPT !.remaining = x]
                 IN  d \in IdealType /\ d.status = c.status /\ d.duration = c.duration
                     /\ d.remaining = x /\ d.pauses = c.pauses
           /\ \A x \in Nat :
                 LET d == [c EXCEPT !.pauses = x]
                 IN  d \in IdealType /\ d.status = c.status /\ d.duration = c.duration
                     /\ d.remaining = c.remaining /\ d.pauses = x
  BY DEF IdealType

\* A command keeps the invariant if, while all is clean, the rows it will save
\* are those of the clock it asks for.
LEMMA IssueInv ==
    ASSUME ClockInv, NEW o \in Organizers, NEW updates, Issue(o, updates),
           Fits(updates), DOMAIN updates # {},
           ideal' \in IdealType, late' \in BOOLEAN, clean' \in BOOLEAN,
           clean' => Alone(o) /\ Agrees(Over(settings, updates), now, ideal', late')
    PROVE  ClockInv'
<1>1. Typed
  BY DEF ClockInv
<1>2. /\ ThreadsFit'
      /\ thread'[o].pc = "saving" /\ thread'[o].todo = updates
      /\ \A p \in Threads : p # o => thread'[p] = thread[p]
  <2>1. thread' = [thread EXCEPT ![o] = Thread("saving", updates, None)]
    BY DEF Issue, Saving
  <2>2. o \in Threads /\ (o \in Refreshers => "saving" \in {"idle", "storing"})
    BY OrganizersApart
  <2>3. "saving" = "storing" => None \in SettingsType
    OBVIOUS
  <2>4. ThreadsFit
    BY <1>1 DEF Typed
  <2>5. "saving" \in {"idle", "saving", "reading", "storing"}
    OBVIOUS
  <2> QED
    BY <2>1, <2>2, <2>3, <2>4, <2>5, ThreadGoesOn, Zenon
<1>3. Typed'
  BY <1>1, <1>2, ClockAssumption DEF Issue, Typed
<1>4. ASSUME clean' PROVE OneSaves' /\ Pending' /\ Settled'
  <2>1. \A p \in Organizers : p # o => thread'[p].pc = "idle"
    BY <1>2, <1>4, OrganizersApart DEF Alone
  <2>2. OneSaves'
    BY <2>1 DEF OneSaves
  <2>3. Pending'
    <3>1. now' = now /\ settings' = settings
      BY DEF Issue
    <3>2. Agrees(Over(settings', thread'[o].todo), now', ideal', late')
      BY <1>2, <1>4, <3>1
    <3>3. \A p \in Organizers : thread'[p].pc = "saving" => p = o
      BY <2>1
    <3>4. \A p \in Organizers : thread'[p].pc = "saving" =>
              Agrees(Over(settings', thread'[p].todo), now', ideal', late')
      BY <3>2, <3>3
    <3> QED
      BY <3>4 DEF Pending
  <2>4. Settled'
    BY <1>2 DEF Settled
  <2> QED
    BY <2>2, <2>3, <2>4
<1> QED
  BY <1>3, <1>4 DEF ClockInv

\* What a command that keeps everything clean starts from.
LEMMA CleanStart ==
    ASSUME ClockInv, NEW o \in Organizers, clean, Alone(o), thread[o].pc = "idle",
           snap = parseSnapshot(settings)
    PROVE  /\ settings \in SettingsType /\ ideal \in IdealType
           /\ Agrees(settings, now, ideal, late)
           /\ snap.status = settings.status
           /\ snap.duration = settings.duration
           /\ snap.end = IF settings.end = None THEN None ELSE settings.end * Res
           /\ snap.pausedAt = IF settings.pausedAt = None THEN None ELSE settings.pausedAt * Res
<1>1. \A p \in Organizers : thread[p].pc # "saving"
  BY DEF Alone
<1>2. Agrees(settings, now, ideal, late)
  BY <1>1 DEF ClockInv, Settled
<1>3. settings \in SettingsType /\ ideal \in IdealType
  BY DEF ClockInv, Typed
<1> QED
  BY <1>2, <1>3, Parsed

-----------------------------------------------------------------------------
(* The commands.                                                           *)

\* The end of what start asks for loses the fraction of now.
LEMMA StartInv ==
    ASSUME ClockInv, NEW o \in Organizers, NEW d \in Durations \cup {0}, Start(o, d)
    PROVE  ClockInv'
<1> DEFINE seconds == IF d > 0 THEN d ELSE snap.duration
           updates == [status |-> "RUNNING", duration |-> seconds, start |-> Format(now),
                       end |-> Format(now + seconds * Res), pausedAt |-> None,
                       isFrozen |-> FALSE, overridden |-> FALSE]
           clock == [status |-> "RUNNING", duration |-> seconds,
                     remaining |-> seconds * Res, pauses |-> 0]
<1>1. /\ Issue(o, updates)
      /\ clean' = (clean /\ Alone(o) /\ snap = parseSnapshot(settings))
      /\ ideal' = IF clean' THEN clock ELSE ideal
      /\ late' = late
  BY DEF Start, Intend
<1>2. /\ now \in Nat /\ snap.duration \in Nat \ {0} /\ d \in Nat
      /\ settings \in SettingsType /\ ideal \in IdealType
      /\ clean \in BOOLEAN /\ late \in BOOLEAN
  BY ClockAssumption DEF ClockInv, Typed, SettingsType
<1>3. seconds \in Nat \ {0}
  BY <1>2
<1> HIDE DEF seconds
<1>4. /\ Format(now) \in Nat
      /\ Format(now + seconds * Res) = Format(now) + seconds
      /\ Format(now) * Res <= now /\ now < Format(now) * Res + Res
  <2>1. now \in Int /\ seconds \in Int
    BY <1>2, <1>3
  <2>2. Format(now + seconds * Res) = Format(now) + seconds
    BY <2>1, FloorShift
  <2>3. Format(now) * Res <= now /\ now < Format(now) * Res + Res
    BY <2>1, Floor
  <2> QED
    BY <1>2, <2>2, <2>3, FloorNat
<1>5. Fits(updates) /\ DOMAIN updates # {}
  <2>1. DOMAIN updates
          = {"status", "duration", "start", "end", "pausedAt", "isFrozen", "overridden"}
    OBVIOUS
  <2>2. updates.end \in Int
    BY <1>3, <1>4
  <2>3. /\ updates.status = "RUNNING" /\ updates.duration \in Nat \ {0}
        /\ updates.start \in Nat /\ updates.pausedAt = None
        /\ updates.isFrozen = FALSE /\ updates.overridden = FALSE
    BY <1>3, <1>4
  <2> HIDE DEF updates
  <2> QED
    BY <2>1, <2>2, <2>3, FitsIf DEF Keys, Statuses
<1>6. clock \in IdealType
  BY <1>3, Resolution DEF IdealType, Statuses
<1>7. ASSUME clean' PROVE Agrees(Over(settings, updates), now, ideal', late')
  <2> DEFINE s == Over(settings, updates)
             f == Format(now)
             e == (f + seconds) * Res
  <2>1. s.status = "RUNNING" /\ s.duration = seconds /\ s.end = f + seconds
    BY <1>2, <1>4, OverRows
  <2>2. /\ ideal'.status = "RUNNING" /\ ideal'.duration = seconds
        /\ ideal'.remaining = seconds * Res /\ ideal'.pauses = 0
    BY <1>1, <1>7
  <2>3. f \in Int /\ f * Res <= now /\ now < f * Res + Res
    BY <1>4
  <2> HIDE DEF s, f
  <2>4. e = f * Res + seconds * Res /\ f * Res \in Int /\ seconds * Res \in Int
    <3>1. f \in Int /\ seconds \in Int
      BY <1>3, <2>3
    <3> QED
      BY <3>1, Distribute
  <2>5. Coherent(s, now, ideal')
    BY <1>3, <2>1, <2>2, <2>3, Resolution DEF Coherent
  <2> DEFINE rem == seconds * Res
             fr == f * Res
  <2>6. e = fr + rem /\ fr \in Int /\ rem \in Int /\ fr <= now /\ now < fr + Res
    BY <2>3, <2>4
  <2>7. s.end * Res = e /\ ideal'.remaining = rem /\ Res * ideal'.pauses = 0
    BY <2>1, <2>2, Resolution
  <2> HIDE DEF e, rem, fr
  <2>8. OnTime(s, now, ideal')
    BY <1>2, <2>1, <2>6, <2>7, Resolution DEF OnTime
  <2> QED
    BY <2>5, <2>8 DEF Agrees, s
<1> QED
  BY <1>1, <1>2, <1>5, <1>6, <1>7, IssueInv

\* A pause is stored as of the last whole second: that much is gained.
LEMMA PauseInv ==
    ASSUME ClockInv, NEW o \in Organizers, Pause(o)
    PROVE  ClockInv'
<1> DEFINE updates == [status |-> "PAUSED", pausedAt |-> Format(now)]
           clock == [ideal EXCEPT !.status = "PAUSED", !.pauses = @ + 1]
<1>1. /\ Issue(o, updates)
      /\ clean' = (clean /\ Alone(o) /\ snap = parseSnapshot(settings))
      /\ ideal' = IF clean' THEN clock ELSE ideal
      /\ late' = late
      /\ snap.status = "RUNNING"
  BY DEF Pause, Intend, EffectiveStatus
<1>2. /\ now \in Nat /\ settings \in SettingsType /\ ideal \in IdealType
      /\ clean \in BOOLEAN /\ late \in BOOLEAN
  BY ClockAssumption DEF ClockInv, Typed
<1>3. /\ Format(now) \in Nat
      /\ Format(now) * Res <= now /\ now < Format(now) * Res + Res
  BY <1>2, FloorNat, Floor
<1>4. Fits(updates) /\ DOMAIN updates # {}
  BY <1>3, FitsIf DEF Keys, Statuses
<1>5. /\ clock \in IdealType
      /\ clock.status = "PAUSED" /\ clock.duration = ideal.duration
      /\ clock.remaining = ideal.remaining /\ clock.pauses = ideal.pauses + 1
      /\ ideal.remaining \in Int /\ ideal.pauses \in Nat
  <2> DEFINE c == [ideal EXCEPT !.status = "PAUSED"]
  <2>1. /\ c \in IdealType
        /\ c.status = "PAUSED" /\ c.duration = ideal.duration
        /\ c.remaining = ideal.remaining /\ c.pauses = ideal.pauses
        /\ "PAUSED" \in Statuses
    BY <1>2, ClockSet DEF Statuses
  <2>2. ideal.remaining \in Int /\ ideal.pauses \in Nat /\ ideal.pauses + 1 \in Nat
    BY <1>2 DEF IdealType
  <2>3. clock = [c EXCEPT !.pauses = ideal.pauses + 1]
    BY <2>1
  <2> HIDE DEF c
  <2> QED
    BY <2>1, <2>2, <2>3, ClockSet
<1>6. ASSUME clean' PROVE Agrees(Over(settings, updates), now, ideal', late')
  <2> DEFINE s == Over(settings, updates)
             f == Format(now)
  <2>1. /\ Agrees(settings, now, ideal, late)
        /\ settings.status = "RUNNING"
    BY <1>1, <1>6, CleanStart DEF Issue
  <2>2. /\ s.status = "PAUSED" /\ s.duration = settings.duration
        /\ s.end = settings.end /\ s.pausedAt = f
    BY <1>2, OverRows
  <2>3. settings.end \in Int
    BY <1>2, <2>1 DEF Agrees, Coherent, SettingsType
  <2>4. Coherent(s, now, ideal')
    BY <1>1, <1>3, <1>5, <1>6, <2>1, <2>2, <2>3, Resolution DEF Agrees, Coherent
  <2>5. ASSUME ~late PROVE OnTime(s, now, ideal')
    <3> DEFINE e == settings.end * Res
               w == Res * ideal.pauses
               fr == f * Res
    <3>1. e \in Int /\ w \in Int /\ fr \in Int /\ fr <= now /\ now < fr + Res
      BY <1>3, <1>5, <2>3, Resolution
    <3>2. -w - Res < e - now - ideal.remaining /\ e - now - ideal.remaining <= w
      BY <2>1, <2>5 DEF Agrees, OnTime
    <3>3. (s.end - s.pausedAt) * Res = e - fr
      <4>1. f \in Int
        BY <1>3
      <4> HIDE DEF f
      <4>2. (settings.end - f) * Res = e - fr
        BY <2>3, <4>1, Distribute
      <4> QED
        BY <2>2, <4>2
    <3>4. Res * ideal'.pauses = w + Res
      BY <1>1, <1>5, <1>6, Resolution
    <3>5. ideal'.remaining = ideal.remaining
      BY <1>1, <1>5, <1>6
    <3> HIDE DEF e, w, fr
    <3> QED
      BY <1>2, <1>5, <2>2, <3>1, <3>2, <3>3, <3>4, <3>5, Resolution DEF OnTime
  <2> QED
    BY <1>1, <2>4, <2>5 DEF Agrees
<1> QED
  BY <1>1, <1>2, <1>4, <1>5, <1>6, IssueInv

\* A resume moves the end by the pause and loses the fraction of now again.
LEMMA ResumeInv ==
    ASSUME ClockInv, NEW o \in Organizers, Resume(o)
    PROVE  ClockInv'
<1> DEFINE pause == IF now < snap.pausedAt THEN 0 ELSE now - snap.pausedAt
           newEnd == IF snap.end # None /\ snap.pausedAt # None THEN snap.end + pause
                     ELSE now + snap.duration * Res
           updates == [status |-> "RUNNING", end |-> Format(newEnd), pausedAt |-> None]
           clock == [ideal EXCEPT !.status = "RUNNING"]
<1>1. /\ Issue(o, updates)
      /\ clean' = (clean /\ Alone(o) /\ snap = parseSnapshot(settings))
      /\ ideal' = IF clean' THEN clock ELSE ideal
      /\ late' = late
      /\ snap.status = "PAUSED"
  BY DEF Resume, Intend
<1>2. /\ now \in Nat /\ settings \in SettingsType /\ ideal \in IdealType
      /\ clean \in BOOLEAN /\ late \in BOOLEAN
  BY ClockAssumption DEF ClockInv, Typed
<1>3. newEnd \in Int
  <2>1. /\ snap.end \in Int \cup {None} /\ snap.pausedAt \in Nat \cup {None}
        /\ snap.duration \in Nat
    BY DEF ClockInv, Typed, SettingsType
  <2> QED
    BY <1>2, <2>1, Resolution
<1>4. Fits(updates) /\ DOMAIN updates # {}
  <2> HIDE DEF newEnd
  <2>1. Format(newEnd) \in Int
    BY <1>3, Floor
  <2> QED
    BY <2>1, FitsIf DEF Keys, Statuses
<1>5. /\ clock \in IdealType
      /\ clock.status = "RUNNING" /\ clock.duration = ideal.duration
      /\ clock.remaining = ideal.remaining /\ clock.pauses = ideal.pauses
      /\ ideal.remaining \in Int /\ ideal.pauses \in Nat
  <2>1. "RUNNING" \in Statuses
    BY DEF Statuses
  <2>2. ideal.remaining \in Int /\ ideal.pauses \in Nat
    BY <1>2 DEF IdealType
  <2> QED
    BY <1>2, <2>1, <2>2, ClockSet
<1>6. ASSUME clean' PROVE Agrees(Over(settings, updates), now, ideal', late')
  <2> DEFINE s == Over(settings, updates)
             f == Format(now)
             e == settings.end
             p == settings.pausedAt
  <2>1. /\ Agrees(settings, now, ideal, late)
        /\ settings.status = "PAUSED"
        /\ snap.end = IF e = None THEN None ELSE e * Res
        /\ snap.pausedAt = IF p = None THEN None ELSE p * Res
    BY <1>1, <1>6, CleanStart DEF Issue
  <2>2. e \in Int /\ p \in Int /\ p * Res <= now
    BY <1>2, <2>1 DEF Agrees, Coherent, SettingsType
  <2>3. Format(newEnd) = f + (e - p)
    <3>1. newEnd = e * Res + (now - p * Res)
      <4>1. e # None /\ p # None /\ e * Res \in Int /\ p * Res \in Int
        BY <2>2, Resolution
      <4>2. snap.end = e * Res /\ snap.pausedAt = p * Res
        BY <2>1, <4>1
      <4>3. snap.end # None /\ snap.pausedAt # None
        BY <4>1, <4>2, Resolution
      <4>4. pause = now - p * Res
        BY <1>2, <2>2, <4>1, <4>2
      <4> QED
        BY <4>2, <4>3, <4>4
    <3> HIDE DEF newEnd, e, p
    <3>2. newEnd = now + (e - p) * Res
      <4>1. (e - p) * Res = e * Res - p * Res /\ e * Res \in Int /\ p * Res \in Int
        BY <2>2, Distribute
      <4> QED
        BY <1>2, <3>1, <4>1
    <3>3. now \in Int /\ e - p \in Int
      BY <1>2, <2>2
    <3>4. Format(now + (e - p) * Res) = Format(now) + (e - p)
      BY <3>3, FloorShift
    <3> QED
      BY <3>2, <3>4
  <2> HIDE DEF newEnd
  <2>4. /\ s.status = "RUNNING" /\ s.duration = settings.duration
        /\ s.end = f + (e - p)
    BY <1>2, <2>3, OverRows
  <2>5. f \in Int /\ f * Res <= now /\ now < f * Res + Res
    BY <1>2, Floor
  <2> HIDE DEF s, f, e, p
  <2>6. Coherent(s, now, ideal')
    BY <1>1, <1>5, <1>6, <2>1, <2>2, <2>4, <2>5, Resolution DEF Agrees, Coherent
  <2>7. ASSUME ~late PROVE OnTime(s, now, ideal')
    <3> DEFINE ep == (e - p) * Res
               w == Res * ideal.pauses
               fr == f * Res
    <3>1. ep \in Int /\ w \in Int /\ fr \in Int /\ fr <= now /\ now < fr + Res
      BY <1>5, <2>2, <2>5, Resolution
    <3>2. -w < ep - ideal.remaining /\ ep - ideal.remaining < w
      BY <2>1, <2>7 DEF Agrees, OnTime, e, p
    <3>3. s.end * Res = fr + ep
      <4>1. e - p \in Int
        BY <2>2
      <4>2. (f + (e - p)) * Res = fr + ep
        BY <2>5, <4>1, Distribute
      <4> QED
        BY <2>4, <4>2
    <3>4. Res * ideal'.pauses = w /\ ideal'.remaining = ideal.remaining
      BY <1>1, <1>5, <1>6
    <3> HIDE DEF ep, w, fr
    <3> QED
      BY <1>2, <1>5, <2>4, <3>1, <3>2, <3>3, <3>4, Resolution DEF OnTime
  <2> QED
    BY <1>1, <2>6, <2>7 DEF Agrees, s
<1> QED
  BY <1>1, <1>2, <1>4, <1>5, <1>6, IssueInv

\* Freezing the leaderboard leaves the clock alone.
LEMMA FreezeInv ==
    ASSUME ClockInv, NEW o \in Organizers, Freeze(o) \/ Unfreeze(o)
    PROVE  ClockInv'
<1>1. PICK updates :
        /\ Issue(o, updates) /\ Fits(updates)
        /\ DOMAIN updates = {"isFrozen", "freezeStart", "overridden"}
  <2>1. CASE Freeze(o)
    <3> DEFINE updates == [isFrozen |-> TRUE, freezeStart |-> Format(now), overridden |-> FALSE]
    <3>1. Format(now) \in Nat
      BY ClockAssumption, FloorNat DEF ClockInv, Typed
    <3>2. Issue(o, updates) /\ Fits(updates)
      BY <2>1, <3>1, FitsIf DEF Freeze, Keys
    <3> QED
      BY <3>2
  <2>2. CASE Unfreeze(o)
    <3> DEFINE updates == [isFrozen |-> FALSE, freezeStart |-> None, overridden |-> TRUE]
    <3>1. Issue(o, updates) /\ Fits(updates)
      BY <2>2, FitsIf DEF Unfreeze, Keys
    <3> QED
      BY <3>1
  <2> QED
    BY <2>1, <2>2
<1>2. /\ clean' = (clean /\ Alone(o) /\ snap = parseSnapshot(settings))
      /\ ideal' = ideal
      /\ late' = late
  BY DEF Freeze, Unfreeze, Intend
<1>3. /\ settings \in SettingsType /\ ideal \in IdealType
      /\ clean \in BOOLEAN /\ late \in BOOLEAN
  BY DEF ClockInv, Typed
<1>4. ASSUME clean' PROVE Agrees(Over(settings, updates), now, ideal', late')
  <2> DEFINE s == Over(settings, updates)
  <2>1. Agrees(settings, now, ideal, late)
    BY <1>1, <1>2, <1>4, CleanStart DEF Issue
  <2>2. /\ s.status = settings.status /\ s.duration = settings.duration
        /\ s.end = settings.end /\ s.pausedAt = settings.pausedAt
    BY <1>1, <1>3, OverRows
  <2> HIDE DEF s
  <2>3. Agrees(s, now, ideal, late)
    BY <2>1, <2>2, AgreesSame
  <2> QED
    BY <1>2, <2>3 DEF s
<1>5. DOMAIN updates # {} /\ clean' \in BOOLEAN
  BY <1>1, <1>2, <1>3
<1> QED
  BY <1>1, <1>2, <1>3, <1>4, <1>5, IssueInv

\* Whatever the table held, a reset makes a new start.
LEMMA ResetInv ==
    ASSUME ClockInv, NEW o \in Organizers, Reset(o)
    PROVE  ClockInv'
<1> DEFINE updates == [status |-> "NOT_STARTED", start |-> None, end |-> None,
                       pausedAt |-> None, isFrozen |-> FALSE, freezeStart |-> None,
                       overridden |-> FALSE]
<1>1. /\ Issue(o, updates)
      /\ clean' = Alone(o)
      /\ ideal' = [status |-> "NOT_STARTED", duration |-> settings.duration,
                   remaining |-> 0, pauses |-> 0]
      /\ late' = FALSE
  BY DEF Reset
<1>2. settings \in SettingsType /\ settings.duration \in Nat \ {0}
  BY DEF ClockInv, Typed, SettingsType
<1>3. Fits(updates) /\ DOMAIN updates # {}
  BY FitsIf DEF Keys, Statuses
<1>4. ideal' \in IdealType
  BY <1>1, <1>2 DEF IdealType, Statuses
<1>5. ASSUME clean' PROVE Agrees(Over(settings, updates), now, ideal', late')
  <2> DEFINE s == Over(settings, updates)
  <2>1. s.status = "NOT_STARTED" /\ s.duration = settings.duration /\ s.end = None
    BY <1>2, OverRows
  <2> HIDE DEF s
  <2>2. Agrees(s, now, ideal', late')
    BY <1>1, <2>1 DEF Agrees, Coherent, OnTime
  <2> QED
    BY <2>2 DEF s
<1>6. clean' \in BOOLEAN
  BY <1>1 DEF Alone
<1> QED
  BY <1>1, <1>3, <1>4, <1>5, <1>6, IssueInv

LEMMA EndInv ==
    ASSUME ClockInv, NEW o \in Organizers, End(o)
    PROVE  ClockInv'
<1> DEFINE updates == [status |-> "ENDED", end |-> Format(now), pausedAt |-> None]
           clock == [ideal EXCEPT !.status = "ENDED", !.remaining = 0]
<1>1. /\ Issue(o, updates)
      /\ clean' = (clean /\ Alone(o) /\ snap = parseSnapshot(settings))
      /\ ideal' = IF clean' THEN clock ELSE ideal
      /\ late' = late
  BY DEF End, Intend
<1>2. /\ now \in Nat /\ settings \in SettingsType /\ ideal \in IdealType
      /\ clean \in BOOLEAN /\ late \in BOOLEAN
  BY ClockAssumption DEF ClockInv, Typed
<1>3. Format(now) \in Int /\ Format(now) * Res <= now
  BY <1>2, Floor
<1>4. Fits(updates) /\ DOMAIN updates # {}
  BY <1>3, FitsIf DEF Keys, Statuses
<1>5. /\ clock \in IdealType
      /\ clock.status = "ENDED" /\ clock.duration = ideal.duration /\ clock.remaining = 0
  <2> DEFINE c == [ideal EXCEPT !.status = "ENDED"]
  <2>1. c \in IdealType /\ c.status = "ENDED" /\ c.duration = ideal.duration
    BY <1>2, ClockSet DEF Statuses
  <2>2. clock = [c EXCEPT !.remaining = 0]
    OBVIOUS
  <2> HIDE DEF c
  <2> QED
    BY <2>1, <2>2, ClockSet
<1>6. ASSUME clean' PROVE Agrees(Over(settings, updates), now, ideal', late')
  <2> DEFINE s == Over(settings, updates)
  <2>1. s.status = "ENDED" /\ s.duration = settings.duration /\ s.end = Format(now)
    BY <1>2, OverRows
  <2>2. Agrees(settings, now, ideal, late)
    BY <1>1, <1>6, CleanStart DEF Issue
  <2> HIDE DEF s
  <2>3. Agrees(s, now, ideal', late')
    BY <1>1, <1>3, <1>5, <1>6, <2>1, <2>2, Resolution DEF Agrees, Coherent, OnTime
  <2> QED
    BY <2>3 DEF s
<1> QED
  BY <1>1, <1>2, <1>4, <1>5, <1>6, IssueInv

\* What a settings update or an extension adds to its updates.
LEMMA AddingRows ==
    ASSUME NEW updates, NEW more, NEW k
    PROVE  /\ k \in DOMAIN Adding(updates, more) <=> k \in DOMAIN updates \/ k \in DOMAIN more
           /\ k \in DOMAIN more => Adding(updates, more)[k] = more[k]
           /\ k \in DOMAIN updates /\ k \notin DOMAIN more =>
                  Adding(updates, more)[k] = updates[k]
  BY DEF Adding

\* The end that an extension asks for.
NewEnd(m) == Format((IF now > snap.end THEN now ELSE snap.end) + m * Res)

LEMMA ExtendRows ==
    ASSUME ClockInv, NEW o \in Organizers, NEW m \in Extensions, Extend(o, m)
    PROVE  \E updates :
               /\ Issue(o, updates) /\ Fits(updates)
               /\ "duration" \in DOMAIN updates /\ updates.duration = snap.duration + m
               /\ "end" \in DOMAIN updates <=> snap.end # None
               /\ snap.end # None => updates.end = NewEnd(m) /\ NewEnd(m) \in Int
               /\ "status" \in DOMAIN updates <=> snap.status = "ENDED"
               /\ snap.status = "ENDED" => updates.status = "RUNNING"
               /\ "pausedAt" \notin DOMAIN updates
<1> DEFINE first == [duration |-> snap.duration + m]
           more == IF snap.end = None THEN <<>> ELSE [end |-> NewEnd(m)]
           reopen == IF snap.status = "ENDED" THEN [status |-> "RUNNING"] ELSE <<>>
           both == Adding(first, more)
           updates == Adding(both, reopen)
<1>1. Issue(o, updates)
  BY DEF Extend, NewEnd
<1>2. /\ snap.end \in Int \cup {None} /\ now \in Int /\ m \in Nat \ {0}
      /\ snap.duration \in Nat \ {0}
  BY ClockAssumption DEF ClockInv, Typed, SettingsType
<1>3. snap.end # None => NewEnd(m) \in Int
  <2> DEFINE t == (IF now > snap.end THEN now ELSE snap.end) + m * Res
  <2>1. snap.end # None => t \in Int
    BY <1>2, Resolution
  <2> HIDE DEF t
  <2>2. snap.end # None => Format(t) \in Int
    BY <2>1, Floor
  <2> QED
    BY <2>2 DEF NewEnd, t
<1>4. /\ DOMAIN first = {"duration"} /\ first.duration = snap.duration + m
      /\ DOMAIN more = IF snap.end = None THEN {} ELSE {"end"}
      /\ snap.end # None => more.end = NewEnd(m)
      /\ DOMAIN reopen = IF snap.status = "ENDED" THEN {"status"} ELSE {}
      /\ snap.status = "ENDED" => reopen.status = "RUNNING"
  OBVIOUS
<1> HIDE DEF first, more, reopen
<1>5. Fits(first) /\ Fits(more) /\ Fits(reopen)
  <2>1. Fits(first)
    BY <1>2, <1>4, FitsIf DEF Keys
  <2>2. Fits(more)
    BY <1>3, <1>4, FitsIf DEF Keys
  <2>3. Fits(reopen)
    BY <1>4, FitsIf DEF Keys, Statuses
  <2> QED
    BY <2>1, <2>2, <2>3
<1>6. Fits(updates)
  BY <1>5, AddingFits
<1>7. \A k : k \in DOMAIN updates <=> k \in DOMAIN first \/ k \in DOMAIN more \/ k \in DOMAIN reopen
  BY AddingRows
<1>8. updates.duration = snap.duration + m
  <2>1. "duration" \in DOMAIN first /\ "duration" \notin DOMAIN more
        /\ "duration" \notin DOMAIN reopen /\ "duration" \in DOMAIN both
    BY <1>4, AddingRows
  <2> QED
    BY <1>4, <2>1, AddingRows
<1>9. snap.end # None => updates.end = NewEnd(m)
  <2>1. snap.end # None =>
            "end" \in DOMAIN more /\ "end" \notin DOMAIN reopen /\ "end" \in DOMAIN both
    BY <1>4, AddingRows
  <2> QED
    BY <1>4, <2>1, AddingRows
<1>10. snap.status = "ENDED" => updates.status = "RUNNING"
  <2>1. snap.status = "ENDED" => "status" \in DOMAIN reopen
    BY <1>4
  <2> QED
    BY <1>4, <2>1, AddingRows
<1> HIDE DEF updates
<1>11. /\ "duration" \in DOMAIN updates
       /\ "end" \in DOMAIN updates <=> snap.end # None
       /\ "status" \in DOMAIN updates <=> snap.status = "ENDED"
       /\ "pausedAt" \notin DOMAIN updates
  BY <1>4, <1>7
<1> QED
  BY <1>1, <1>3, <1>6, <1>8, <1>9, <1>10, <1>11

LEMMA NewEndIs ==
    ASSUME NEW m \in Nat, NEW e \in Int, now \in Nat, snap.end = e * Res
    PROVE  /\ now > e * Res => NewEnd(m) = Format(now) + m
           /\ ~(now > e * Res) => NewEnd(m) = e + m
<1>1. e * Res \in Int /\ now \in Int /\ m \in Int
  BY Resolution
<1>2. Format(now + m * Res) = Format(now) + m
  BY <1>1, FloorShift
<1>3. Format(e * Res + m * Res) = e + m
  <2>1. Format(e * Res) = e
    BY FloorWhole
  <2> DEFINE er == e * Res
  <2>2. er \in Int
    BY <1>1
  <2> HIDE DEF er
  <2>3. Format(er + m * Res) = Format(er) + m
    BY <1>1, <2>2, FloorShift
  <2> QED
    BY <2>1, <2>3 DEF er
<1>4. ASSUME now > e * Res PROVE NewEnd(m) = Format(now) + m
  <2>1. NewEnd(m) = Format(now + m * Res)
    BY <1>4 DEF NewEnd
  <2> QED
    BY <1>2, <2>1
<1>5. ASSUME ~(now > e * Res) PROVE NewEnd(m) = e + m
  <2>1. NewEnd(m) = Format(e * Res + m * Res)
    BY <1>5 DEF NewEnd
  <2> QED
    BY <1>3, <2>1
<1> QED
  BY <1>4, <1>5

\* The end is extended from now if it has passed, where nothing is left to extend; the
\* last whole second is not before it.
LEMMA ExtendsRunning ==
    ASSUME NEW m \in Nat, NEW e \in Int, NEW rem \in Int, NEW wander \in Nat,
           now \in Nat, snap.end = e * Res,
           \/ -wander - Res < e * Res - now - rem /\ e * Res - now - rem <= wander
           \/ e * Res <= now /\ rem = 0
    PROVE  /\ -wander - Res < NewEnd(m) * Res - now - ((IF rem > 0 THEN rem ELSE 0) + m * Res)
           /\ NewEnd(m) * Res - now - ((IF rem > 0 THEN rem ELSE 0) + m * Res) <= wander
<1> DEFINE n == NewEnd(m)
           er == e * Res
           mr == m * Res
           f == Format(now)
           fr == f * Res
           nr == n * Res
<1>1. /\ f \in Int /\ fr <= now /\ now < fr + Res
      /\ er <= now => er <= fr
  <2>1. now \in Int
    OBVIOUS
  <2> QED
    BY <2>1, Floor, FloorLast
<1>2. now > er => n = f + m
  BY NewEndIs
<1>3. ~(now > er) => n = e + m
  BY NewEndIs
<1>4. er \in Int /\ mr \in Int /\ m \in Int
  BY Resolution
<1> HIDE DEF f, n
<1>5. now > er => nr = fr + mr
  BY <1>1, <1>2, <1>4, Distribute
<1>6. ~(now > er) => nr = er + mr
  BY <1>3, <1>4, Distribute
<1>7. \/ -wander - Res < er - now - rem /\ er - now - rem <= wander
      \/ er <= now /\ rem = 0
  OBVIOUS
<1>8. fr \in Int
  BY <1>1, Resolution
<1> HIDE DEF er, mr, fr, nr
<1>9. /\ -wander - Res < nr - now - ((IF rem > 0 THEN rem ELSE 0) + mr)
      /\ nr - now - ((IF rem > 0 THEN rem ELSE 0) + mr) <= wander
  <2>1. CASE now > er
    BY <1>1, <1>4, <1>5, <1>7, <1>8, <2>1, Resolution
  <2>2. CASE ~(now > er)
    BY <1>1, <1>4, <1>6, <1>7, <1>8, <2>2, Resolution
  <2> QED
    BY <2>1, <2>2
<1> QED
  BY <1>9 DEF nr, mr, n

\* The clock that an extension asks for.
LEMMA ExtendClock ==
    ASSUME ClockInv, NEW o \in Organizers, NEW m \in Extensions, Extend(o, m), clean'
    PROVE  /\ ideal' \in IdealType
           /\ ideal'.duration = ideal.duration + m
           /\ ideal'.status = IF ideal.status = "ENDED" THEN "RUNNING" ELSE ideal.status
           /\ ideal.status = "PAUSED" => ideal'.remaining = ideal.remaining + m * Res
           /\ ideal.status \in {"RUNNING", "ENDED"} =>
                  ideal'.remaining = (IF ideal.remaining > 0 THEN ideal.remaining ELSE 0) + m * Res
           /\ ideal'.pauses = ideal.pauses
<1> DEFINE status == IF ideal.status = "ENDED" THEN "RUNNING" ELSE ideal.status
           left == CASE ideal.status = "NOT_STARTED" -> ideal.remaining
                     [] ideal.status = "PAUSED" -> ideal.remaining + m * Res
                     [] OTHER -> (IF ideal.remaining > 0 THEN ideal.remaining ELSE 0) + m * Res
           c1 == [ideal EXCEPT !.duration = ideal.duration + m]
           c2 == [c1 EXCEPT !.status = status]
           c3 == [c2 EXCEPT !.remaining = left]
<1>1. /\ ideal.status \in Statuses /\ ideal.duration \in Nat \ {0}
      /\ ideal.remaining \in Int /\ ideal.pauses \in Nat
      /\ ideal \in IdealType
  BY DEF ClockInv, Typed, IdealType
<1>2. m \in Nat /\ ideal.duration + m \in Nat \ {0} /\ status \in Statuses
  BY <1>1, ClockAssumption DEF Statuses
<1>3. /\ ideal.status = "PAUSED" => left = ideal.remaining + m * Res
      /\ ideal.status \in {"RUNNING", "ENDED"} =>
             left = (IF ideal.remaining > 0 THEN ideal.remaining ELSE 0) + m * Res
  OBVIOUS
<1>4. left \in Int
  BY <1>1, <1>2, Resolution DEF Statuses
<1>5. /\ c1 \in IdealType /\ c1.duration = ideal.duration + m /\ c1.status = ideal.status
      /\ c1.remaining = ideal.remaining /\ c1.pauses = ideal.pauses
  BY <1>1, <1>2, ClockSet
<1>6. ideal' = c3
  BY DEF Extend, Intend
<1> HIDE DEF c1, status, left
<1>7. /\ c2 \in IdealType /\ c2.duration = ideal.duration + m /\ c2.status = status
      /\ c2.pauses = ideal.pauses
  BY <1>2, <1>5, ClockSet
<1> HIDE DEF c2
<1>8. /\ c3 \in IdealType /\ c3.duration = ideal.duration + m /\ c3.status = status
      /\ c3.remaining = left /\ c3.pauses = ideal.pauses
  BY <1>4, <1>7, ClockSet
<1> HIDE DEF c3
<1> QED
  BY <1>3, <1>6, <1>8 DEF status

LEMMA ExtendInv ==
    ASSUME ClockInv, NEW o \in Organizers, NEW m \in Extensions, Extend(o, m)
    PROVE  ClockInv'
<1>1. PICK updates :
        /\ Issue(o, updates) /\ Fits(updates)
        /\ "duration" \in DOMAIN updates /\ updates.duration = snap.duration + m
        /\ "end" \in DOMAIN updates <=> snap.end # None
        /\ snap.end # None => updates.end = NewEnd(m) /\ NewEnd(m) \in Int
        /\ "status" \in DOMAIN updates <=> snap.status = "ENDED"
        /\ snap.status = "ENDED" => updates.status = "RUNNING"
        /\ "pausedAt" \notin DOMAIN updates
  BY ExtendRows
<1>2. /\ clean' = (clean /\ Alone(o) /\ snap = parseSnapshot(settings))
      /\ ~clean' => ideal' = ideal
      /\ late' = (late \/ (snap.status = "PAUSED" /\ snap.end # None /\ now > snap.end))
  BY DEF Extend, Intend
<1>3. /\ settings \in SettingsType /\ ideal \in IdealType /\ now \in Nat
      /\ clean \in BOOLEAN /\ late \in BOOLEAN
  BY ClockAssumption DEF ClockInv, Typed
<1>4. ideal' \in IdealType
  BY <1>2, <1>3, ExtendClock
<1>5. m \in Nat
  BY ClockAssumption
<1>6. ASSUME clean' PROVE Agrees(Over(settings, updates), now, ideal', late')
  <2> DEFINE s == Over(settings, updates)
             e == settings.end
             p == settings.pausedAt
  <2>1. /\ Agrees(settings, now, ideal, late)
        /\ snap.status = settings.status
        /\ snap.duration = settings.duration
        /\ snap.end = IF e = None THEN None ELSE e * Res
    BY <1>1, <1>2, <1>6, CleanStart DEF Issue
  <2>2. /\ e \in Int \cup {None}
        /\ settings.status \in Statuses
        /\ ideal.remaining \in Int /\ ideal.pauses \in Nat
    BY <1>3 DEF SettingsType, IdealType
  <2>3. e # None => snap.end = e * Res /\ snap.end # None
    BY <2>1, <2>2, Resolution
  <2>4. /\ s.status = IF settings.status = "ENDED" THEN "RUNNING" ELSE settings.status
        /\ s.duration = settings.duration + m
        /\ s.end = IF e = None THEN None ELSE NewEnd(m)
        /\ s.pausedAt = p
    BY <1>1, <1>3, <2>1, <2>3, OverRows
  <2>5. /\ ideal'.duration = ideal.duration + m
        /\ ideal'.status = IF ideal.status = "ENDED" THEN "RUNNING" ELSE ideal.status
        /\ ideal.status = "PAUSED" => ideal'.remaining = ideal.remaining + m * Res
        /\ ideal.status \in {"RUNNING", "ENDED"} =>
               ideal'.remaining = (IF ideal.remaining > 0 THEN ideal.remaining ELSE 0) + m * Res
        /\ ideal'.pauses = ideal.pauses
    BY <1>6, ExtendClock
  <2>6. Coherent(settings, now, ideal) /\ (~late => OnTime(settings, now, ideal))
    BY <2>1 DEF Agrees
  <2>7. e # None => NewEnd(m) \in Int
    BY <1>1, <2>3
  <2> HIDE DEF s, e, p
  <2>8. Coherent(s, now, ideal')
    <3>1. ideal.status = settings.status /\ ideal.duration = settings.duration
      BY <2>6 DEF Coherent
    <3>2. s.status = ideal'.status /\ s.duration = ideal'.duration /\ s.status # "ENDED"
      BY <2>4, <2>5, <3>1
    <3>3. s.status = "NOT_STARTED" <=> s.end = None
      BY <2>4, <2>6, <2>7, Resolution DEF Coherent, e
    <3>4. s.status = "PAUSED" => s.pausedAt # None /\ s.pausedAt * Res <= now /\ ideal'.pauses > 0
      BY <2>4, <2>5, <2>6 DEF Coherent, p
    <3> QED
      BY <3>2, <3>3, <3>4 DEF Coherent
  <2>9. ASSUME ~late' PROVE OnTime(s, now, ideal')
    <3> DEFINE w == Res * ideal.pauses
    <3>1. /\ ~late /\ OnTime(settings, now, ideal)
          /\ settings.status = "PAUSED" /\ e # None => ~(now > e * Res)
      BY <1>2, <1>3, <2>1, <2>3, <2>6, <2>9
    <3>2. w \in Nat /\ ideal'.pauses = ideal.pauses
      BY <2>2, <2>5, Resolution
    <3>3. CASE settings.status \in {"RUNNING", "ENDED"}
      <4>1. /\ e \in Int /\ snap.end = e * Res
            /\ s.status = "RUNNING" /\ s.end = NewEnd(m)
            /\ ideal.status = settings.status
        BY <2>2, <2>3, <2>4, <2>6, <3>3 DEF Coherent, e
      <4>2. \/ -w - Res < e * Res - now - ideal.remaining /\ e * Res - now - ideal.remaining <= w
            \/ e * Res <= now /\ ideal.remaining = 0
        BY <2>6, <3>1, <3>3 DEF Coherent, OnTime, e
      <4>3. ideal'.remaining = (IF ideal.remaining > 0 THEN ideal.remaining ELSE 0) + m * Res
        BY <2>5, <3>3, <4>1
      <4> HIDE DEF w
      <4>4. /\ -w - Res < NewEnd(m) * Res - now - ideal'.remaining
            /\ NewEnd(m) * Res - now - ideal'.remaining <= w
        BY <1>3, <1>5, <2>2, <3>2, <4>1, <4>2, <4>3, ExtendsRunning
      <4> QED
        BY <3>2, <4>1, <4>4 DEF OnTime, w
    <3>4. CASE settings.status = "PAUSED"
      <4>1. /\ e \in Int /\ p \in Int /\ snap.end = e * Res
            /\ s.status = "PAUSED" /\ s.end = NewEnd(m) /\ s.pausedAt = p
            /\ ideal.status = "PAUSED"
        BY <1>3, <2>2, <2>3, <2>4, <2>6, <3>4 DEF Coherent, e, p, SettingsType
      <4>2. NewEnd(m) = e + m
        BY <1>3, <1>5, <3>1, <3>4, <4>1, NewEndIs, Resolution
      <4> DEFINE ep == (e - p) * Res
                 mr == m * Res
      <4>3. (s.end - s.pausedAt) * Res = ep + mr /\ ep \in Int /\ mr \in Int
        <5>1. e - p \in Int /\ m \in Int /\ (e + m) - p = (e - p) + m
          BY <1>5, <4>1
        <5>2. ((e - p) + m) * Res = ep + mr
          BY <5>1, Distribute
        <5> QED
          BY <4>1, <4>2, <5>1, <5>2, Resolution
      <4>4. -w < ep - ideal.remaining /\ ep - ideal.remaining < w
        BY <3>1, <3>4 DEF OnTime, e, p
      <4>5. ideal'.remaining = ideal.remaining + mr
        BY <2>5, <4>1
      <4>6. Res * ideal'.pauses = w
        BY <3>2
      <4> HIDE DEF ep, mr, w
      <4> QED
        BY <2>2, <3>2, <4>1, <4>3, <4>4, <4>5, <4>6 DEF OnTime
    <3>5. CASE settings.status = "NOT_STARTED"
      BY <2>4, <3>5 DEF OnTime
    <3> QED
      BY <2>2, <3>3, <3>4, <3>5 DEF Statuses
  <2> QED
    BY <2>8, <2>9 DEF Agrees, s
<1>7. DOMAIN updates # {} /\ clean' \in BOOLEAN /\ late' \in BOOLEAN
  BY <1>1, <1>2, <1>3
<1>8. clean' => Alone(o)
  BY <1>2
<1> QED
  BY <1>1, <1>4, <1>6, <1>7, <1>8, IssueInv

\* The end that an update of the duration asks for.
MovedEnd(d) ==
    Format(IF snap.end # None THEN snap.end + (d - snap.duration) * Res ELSE snap.start + d * Res)

Resizes(d) == snap.status = "RUNNING" /\ d > 0

LEMMA UpdateRows ==
    ASSUME ClockInv, NEW o \in Organizers, NEW d \in Durations \cup {0},
           NEW f \in FreezeWindows, UpdateSettings(o, d, f)
    PROVE  \E updates :
               /\ Issue(o, updates) /\ Fits(updates) /\ DOMAIN updates # {}
               /\ "duration" \in DOMAIN updates <=> d > 0
               /\ d > 0 => updates.duration = d
               /\ "end" \in DOMAIN updates <=>
                      Resizes(d) /\ (snap.end # None \/ snap.start # None)
               /\ "end" \in DOMAIN updates => updates.end = MovedEnd(d)
               /\ "status" \notin DOMAIN updates /\ "pausedAt" \notin DOMAIN updates
<1> DEFINE moves == Resizes(d) /\ (snap.end # None \/ snap.start # None)
           first == [freeze |-> f]
           resize == IF d > 0 THEN [duration |-> d] ELSE <<>>
           move == IF moves THEN [end |-> MovedEnd(d)] ELSE <<>>
           both == Adding(first, resize)
           updates == Adding(both, move)
<1>1. Issue(o, updates)
  BY DEF UpdateSettings, MovedEnd, Resizes
<1>2. /\ snap.end \in Int \cup {None} /\ snap.start \in Nat \cup {None}
      /\ snap.duration \in Nat \ {0} /\ d \in Nat /\ f \in Nat
  BY ClockAssumption DEF ClockInv, Typed, SettingsType
<1>3. moves => MovedEnd(d) \in Int
  <2> DEFINE t == IF snap.end # None THEN snap.end + (d - snap.duration) * Res
                  ELSE snap.start + d * Res
  <2>1. moves => t \in Int
    BY <1>2, Resolution
  <2> HIDE DEF t, moves
  <2>2. moves => Format(t) \in Int
    BY <2>1, Floor
  <2> QED
    BY <2>2 DEF MovedEnd, t
<1> HIDE DEF moves
<1>4. /\ DOMAIN first = {"freeze"} /\ first.freeze = f
      /\ DOMAIN resize = IF d > 0 THEN {"duration"} ELSE {}
      /\ d > 0 => resize.duration = d
      /\ DOMAIN move = IF moves THEN {"end"} ELSE {}
      /\ moves => move.end = MovedEnd(d)
  OBVIOUS
<1> HIDE DEF first, resize, move
<1>5. Fits(first) /\ Fits(resize) /\ Fits(move)
  <2>1. Fits(first)
    BY <1>2, <1>4, FitsIf DEF Keys
  <2>2. Fits(resize)
    BY <1>2, <1>4, FitsIf DEF Keys
  <2>3. Fits(move)
    BY <1>3, <1>4, FitsIf DEF Keys
  <2> QED
    BY <2>1, <2>2, <2>3
<1>6. Fits(updates)
  BY <1>5, AddingFits
<1>7. \A k : k \in DOMAIN updates <=> k \in DOMAIN first \/ k \in DOMAIN resize \/ k \in DOMAIN move
  BY AddingRows
<1>8. d > 0 => updates.duration = d
  <2>1. d > 0 => /\ "duration" \in DOMAIN resize /\ "duration" \notin DOMAIN move
                 /\ "duration" \in DOMAIN both
    BY <1>4, AddingRows
  <2> QED
    BY <1>4, <2>1, AddingRows
<1>9. moves => updates.end = MovedEnd(d)
  <2>1. moves => "end" \in DOMAIN move
    BY <1>4
  <2> QED
    BY <1>4, <2>1, AddingRows
<1> HIDE DEF updates
<1>10. /\ "duration" \in DOMAIN updates <=> d > 0
       /\ "end" \in DOMAIN updates <=> moves
       /\ "status" \notin DOMAIN updates /\ "pausedAt" \notin DOMAIN updates
       /\ DOMAIN updates # {}
  BY <1>4, <1>7
<1> QED
  BY <1>1, <1>6, <1>8, <1>9, <1>10 DEF moves

\* The clock that an update asks for.
LEMMA UpdateClock ==
    ASSUME ClockInv, NEW o \in Organizers, NEW d \in Durations \cup {0},
           NEW f \in FreezeWindows, UpdateSettings(o, d, f), clean'
    PROVE  /\ ideal' \in IdealType
           /\ ideal'.status = ideal.status /\ ideal'.pauses = ideal.pauses
           /\ ideal'.duration = IF d > 0 THEN d ELSE ideal.duration
           /\ ideal'.remaining = IF Resizes(d) THEN ideal.remaining + (d - snap.duration) * Res
                                 ELSE ideal.remaining
<1> DEFINE duration == IF d > 0 THEN d ELSE ideal.duration
           left == IF Resizes(d) THEN ideal.remaining + (d - snap.duration) * Res
                   ELSE ideal.remaining
           c1 == [ideal EXCEPT !.duration = duration]
           c2 == [c1 EXCEPT !.remaining = left]
<1>1. /\ ideal.duration \in Nat \ {0} /\ ideal.remaining \in Int /\ ideal \in IdealType
      /\ snap.duration \in Nat /\ d \in Nat
  BY ClockAssumption DEF ClockInv, Typed, IdealType, SettingsType
<1>2. duration \in Nat \ {0}
  BY <1>1
<1>3. left \in Int
  BY <1>1, Resolution
<1>4. ideal' = c2
  BY DEF UpdateSettings, Intend, Resizes
<1> HIDE DEF duration, left
<1>5. /\ c1 \in IdealType /\ c1.duration = duration /\ c1.status = ideal.status
      /\ c1.pauses = ideal.pauses
  BY <1>1, <1>2, ClockSet
<1> HIDE DEF c1
<1>6. /\ c2 \in IdealType /\ c2.duration = duration /\ c2.status = ideal.status
      /\ c2.remaining = left /\ c2.pauses = ideal.pauses
  BY <1>3, <1>5, ClockSet
<1> HIDE DEF c2
<1> QED
  BY <1>4, <1>6 DEF duration, left

LEMMA UpdateInv ==
    ASSUME ClockInv, NEW o \in Organizers, NEW d \in Durations \cup {0},
           NEW f \in FreezeWindows, UpdateSettings(o, d, f)
    PROVE  ClockInv'
<1>1. PICK updates :
        /\ Issue(o, updates) /\ Fits(updates) /\ DOMAIN updates # {}
        /\ "duration" \in DOMAIN updates <=> d > 0
        /\ d > 0 => updates.duration = d
        /\ "end" \in DOMAIN updates <=> Resizes(d) /\ (snap.end # None \/ snap.start # None)
        /\ "end" \in DOMAIN updates => updates.end = MovedEnd(d)
        /\ "status" \notin DOMAIN updates /\ "pausedAt" \notin DOMAIN updates
  BY UpdateRows
<1>2. /\ clean' = (clean /\ Alone(o) /\ snap = parseSnapshot(settings))
      /\ ~clean' => ideal' = ideal
      /\ late' = late
  BY DEF UpdateSettings, Intend
<1>3. /\ settings \in SettingsType /\ ideal \in IdealType /\ now \in Nat
      /\ clean \in BOOLEAN /\ late \in BOOLEAN /\ d \in Nat
  BY ClockAssumption DEF ClockInv, Typed
<1>4. ideal' \in IdealType
  BY <1>2, <1>3, UpdateClock
<1>5. ASSUME clean' PROVE Agrees(Over(settings, updates), now, ideal', late')
  <2> DEFINE s == Over(settings, updates)
             e == settings.end
             p == settings.pausedAt
             diff == d - settings.duration
  <2>1. /\ Agrees(settings, now, ideal, late)
        /\ snap.status = settings.status
        /\ snap.duration = settings.duration
        /\ snap.end = IF e = None THEN None ELSE e * Res
    BY <1>1, <1>2, <1>5, CleanStart DEF Issue
  <2>2. /\ e \in Int \cup {None} /\ diff \in Int
        /\ ideal.remaining \in Int /\ ideal.pauses \in Nat
    BY <1>3 DEF SettingsType, IdealType
  <2>3. Coherent(settings, now, ideal) /\ (~late => OnTime(settings, now, ideal))
    BY <2>1 DEF Agrees
  <2>4. /\ s.status = settings.status /\ s.pausedAt = p
        /\ s.duration = IF d > 0 THEN d ELSE settings.duration
        /\ s.end = IF "end" \in DOMAIN updates THEN MovedEnd(d) ELSE e
    BY <1>1, <1>3, OverRows
  <2>5. /\ ideal'.status = ideal.status /\ ideal'.pauses = ideal.pauses
        /\ ideal'.duration = IF d > 0 THEN d ELSE ideal.duration
        /\ ideal'.remaining = IF Resizes(d) THEN ideal.remaining + diff * Res ELSE ideal.remaining
    BY <1>5, <2>1, UpdateClock
  <2>6. CASE Resizes(d)
    <3>1. /\ settings.status = "RUNNING" /\ d > 0 /\ e \in Int
          /\ snap.end = e * Res /\ snap.end # None
      BY <2>1, <2>2, <2>3, <2>6, Resolution DEF Resizes, Coherent
    <3>2. MovedEnd(d) = e + diff
      <4> DEFINE er == e * Res
      <4>1. er \in Int /\ MovedEnd(d) = Format(er + diff * Res)
        BY <2>1, <3>1, Resolution DEF MovedEnd
      <4>2. Format(er) = e
        BY <3>1, FloorWhole
      <4> HIDE DEF er, diff
      <4>3. Format(er + diff * Res) = Format(er) + diff
        BY <2>2, <4>1, FloorShift
      <4> QED
        BY <4>1, <4>2, <4>3
    <3>3. s.end = e + diff
      BY <1>1, <2>4, <2>6, <3>1, <3>2
    <3> DEFINE er == e * Res
               dr == diff * Res
               w == Res * ideal.pauses
    <3>4. s.end * Res = er + dr /\ er \in Int /\ dr \in Int
      <4> HIDE DEF diff, s, e
      <4>1. (e + diff) * Res = er + dr /\ er \in Int /\ dr \in Int
        BY <2>2, <3>1, Distribute
      <4> QED
        BY <3>3, <4>1
    <3> HIDE DEF diff, s, e
    <3>5. Coherent(s, now, ideal')
      BY <2>2, <2>3, <2>4, <2>5, <3>1, <3>3, Resolution DEF Coherent
    <3>6. ASSUME ~late PROVE OnTime(s, now, ideal')
      <4>1. -w - Res < er - now - ideal.remaining /\ er - now - ideal.remaining <= w
        BY <2>3, <3>1, <3>6 DEF OnTime, e
      <4>2. /\ ideal'.remaining = ideal.remaining + dr /\ Res * ideal'.pauses = w
            /\ s.status = "RUNNING" /\ w \in Int
        BY <2>2, <2>4, <2>5, <2>6, <3>1, Resolution
      <4> HIDE DEF er, dr, w
      <4> QED
        BY <1>3, <2>2, <3>4, <4>1, <4>2, Resolution DEF OnTime
    <3> QED
      BY <1>2, <3>5, <3>6 DEF Agrees, s
  <2>7. CASE ~Resizes(d)
    <3>1. /\ s.end = e /\ s.status = settings.status /\ s.pausedAt = p
          /\ ideal'.status = ideal.status /\ ideal'.pauses = ideal.pauses
          /\ ideal'.remaining = ideal.remaining /\ s.duration = ideal'.duration
      BY <1>1, <2>3, <2>4, <2>5, <2>7 DEF Coherent
    <3> HIDE DEF s
    <3>2. Coherent(s, now, ideal')
      BY <2>3, <3>1 DEF Coherent
    <3>3. ~late => OnTime(s, now, ideal')
      BY <2>3, <3>1 DEF OnTime
    <3> QED
      BY <1>2, <3>2, <3>3 DEF Agrees, s
  <2> QED
    BY <2>6, <2>7
<1>6. clean' => Alone(o)
  BY <1>2
<1>7. clean' \in BOOLEAN /\ late' \in BOOLEAN
  BY <1>2, <1>3
<1> QED
  BY <1>1, <1>4, <1>5, <1>6, <1>7, IssueInv

-----------------------------------------------------------------------------
(* Saving, reloading and the passing of time.                              *)

LEMMA OverType ==
    ASSUME NEW s \in SettingsType, NEW updates, Fits(updates)
    PROVE  Over(s, updates) \in SettingsType
<1> DEFINE r == Over(s, updates)
<1>1. DOMAIN r = Keys /\ r = [k \in Keys |-> r[k]]
  BY RowsOf DEF Over
<1>2. \A k \in Keys : r[k] \in RowType[k]
  BY RowsOf DEF Over, Fits
<1> HIDE DEF r
<1>3. /\ r["status"] \in Statuses /\ r["duration"] \in Nat \ {0} /\ r["freeze"] \in Nat
      /\ r["start"] \in Nat \cup {None} /\ r["end"] \in Int \cup {None}
      /\ r["pausedAt"] \in Nat \cup {None}
      /\ r["isFrozen"] \in BOOLEAN /\ r["overridden"] \in BOOLEAN
      /\ r["freezeStart"] \in Nat \cup {None}
  BY <1>2 DEF Keys, RowType
<1>4. r \in SettingsType
  BY <1>1, <1>3 DEF Keys, SettingsType
<1> QED
  BY <1>4 DEF r

LEMMA SavingIs ==
    ASSUME NEW updates
    PROVE  \E pc \in {"saving", "reading"}, todo \in {updates, <<>>} :
               /\ Saving(updates) = Thread(pc, todo, None)
               /\ pc = "saving" => todo = updates
               /\ pc = "reading" => DOMAIN updates = {}
<1>1. CASE DOMAIN updates = {}
  BY <1>1 DEF Saving
<1>2. CASE DOMAIN updates # {}
  BY <1>2 DEF Saving
<1> QED
  BY <1>1, <1>2

\* One row less to save, one row more saved: the table to be stays the same.
LEMMA SaveKeyInv ==
    ASSUME ClockInv, NEW o \in Organizers, NEW k \in DOMAIN settings, SaveKey(o, k)
    PROVE  ClockInv'
<1> DEFINE todo == thread[o].todo
           rest == [j \in DOMAIN todo \ {k} |-> todo[j]]
<1>1. /\ thread[o].pc = "saving" /\ k \in DOMAIN todo
      /\ settings' = [settings EXCEPT ![k] = todo[k]]
      /\ thread' = [thread EXCEPT ![o] = Saving(rest)]
      /\ UNCHANGED <<now, snap, commands, failures, ghosts>>
  BY DEF SaveKey
<1>2. /\ Typed /\ ThreadsFit /\ settings \in SettingsType
      /\ o \in Threads /\ o \notin Refreshers
  BY OrganizersApart DEF ClockInv, Typed
<1>3. Fits(todo)
  BY <1>2 DEF ThreadsFit
<1>4. Fits(rest)
  BY <1>3 DEF Fits
<1>5. settings' \in SettingsType
  <2>1. k \in Keys /\ todo[k] \in RowType[k]
    BY <1>1, <1>3 DEF Fits
  <2> HIDE DEF todo
  <2> QED
    BY <1>1, <1>2, <2>1, RowSaved
<1>6. Over(settings', rest) = Over(settings, todo)
  <2>1. DOMAIN settings' = DOMAIN settings
    BY <1>1
  <2>2. \A j \in DOMAIN settings :
            (IF j \in DOMAIN rest THEN rest[j] ELSE settings'[j])
              = (IF j \in DOMAIN todo THEN todo[j] ELSE settings[j])
    BY <1>1
  <2> QED
    BY <2>1, <2>2 DEF Over
<1> HIDE DEF todo, rest
<1>7. PICK pc \in {"saving", "reading"}, left \in {rest, <<>>} :
        /\ Saving(rest) = Thread(pc, left, None)
        /\ pc = "saving" => left = rest
        /\ pc = "reading" => DOMAIN rest = {}
  BY SavingIs
<1>8. /\ ThreadsFit'
      /\ thread'[o].pc = pc /\ thread'[o].todo = left
      /\ \A p \in Threads : p # o => thread'[p] = thread[p]
  <2>1. thread' = [thread EXCEPT ![o] = Thread(pc, left, None)]
    BY <1>1, <1>7
  <2>2. /\ pc \in {"idle", "saving", "reading", "storing"} /\ Fits(left)
        /\ pc = "storing" => None \in SettingsType
        /\ o \in Refreshers => pc \in {"idle", "storing"}
    BY <1>2, <1>4, <1>7, NoRows
  <2> QED
    BY <1>2, <2>1, <2>2, ThreadGoesOn
<1>9. Typed'
  BY <1>1, <1>2, <1>5, <1>8 DEF Typed, ghosts
<1>10. ASSUME clean' PROVE OneSaves' /\ Pending' /\ Settled'
  <2>1. /\ OneSaves /\ Pending
        /\ now' = now /\ ideal' = ideal /\ late' = late
    BY <1>1, <1>10 DEF ClockInv, ghosts
  <2>2. Agrees(Over(settings', rest), now', ideal', late')
    BY <1>1, <1>6, <2>1 DEF Pending, todo
  <2>3. \A p \in Organizers : thread'[p].pc = "saving" => p = o
    <3>1. \A p \in Organizers : p # o => thread'[p].pc = thread[p].pc
      BY <1>8, OrganizersApart
    <3> QED
      BY <1>1, <2>1, <3>1 DEF OneSaves
  <2>4. thread'[o].pc = "saving" => thread'[o].todo = rest
    BY <1>7, <1>8
  <2>5. Pending'
    <3>1. \A p \in Organizers : thread'[p].pc = "saving" =>
              Agrees(Over(settings', thread'[p].todo), now', ideal', late')
      BY <2>2, <2>3, <2>4
    <3> QED
      BY <3>1 DEF Pending
  <2>6. Settled'
    <3>1. SUFFICES ASSUME thread'[o].pc # "saving"
                   PROVE  Agrees(settings', now', ideal', late')
      BY DEF Settled
    <3>2. DOMAIN rest = {}
      BY <1>7, <1>8, <3>1
    <3> DEFINE s == Over(settings', rest)
    <3>3. /\ s.status = settings'.status /\ s.duration = settings'.duration
          /\ s.end = settings'.end /\ s.pausedAt = settings'.pausedAt
      BY <1>5, <3>2, OverRows
    <3>4. Agrees(s, now', ideal', late')
      BY <2>2
    <3> HIDE DEF s
    <3> QED
      BY <3>3, <3>4, AgreesSame
  <2> QED
    BY <2>3, <2>5, <2>6 DEF OneSaves
<1> QED
  BY <1>9, <1>10 DEF ClockInv

\* A step of a thread that saves nothing, before and after.
LEMMA OthersSave ==
    ASSUME ClockInv, NEW o \in Threads, Typed', thread[o].pc # "saving", thread'[o].pc # "saving",
           \A p \in Threads : p # o => thread'[p] = thread[p],
           UNCHANGED <<now, settings, ghosts>>
    PROVE  ClockInv'
<1>1. \A p \in Organizers :
          /\ thread'[p].pc = "saving" <=> thread[p].pc = "saving"
          /\ thread[p].pc = "saving" => thread'[p].todo = thread[p].todo
  BY OrganizersApart
<1>2. ASSUME clean' PROVE OneSaves' /\ Pending' /\ Settled'
  <2>1. /\ OneSaves /\ Pending /\ Settled
        /\ now' = now /\ settings' = settings /\ ideal' = ideal /\ late' = late
    BY <1>2 DEF ClockInv, ghosts
  <2>2. OneSaves'
    BY <1>1, <2>1 DEF OneSaves
  <2>3. Pending'
    BY <1>1, <2>1 DEF Pending
  <2>4. Settled'
    BY <1>1, <2>1 DEF Settled
  <2> QED
    BY <2>2, <2>3, <2>4
<1> QED
  BY <1>2 DEF ClockInv

LEMMA FailsInv ==
    ASSUME ClockInv, NEW o \in Organizers, SaveFails(o) \/ ReadFails(o)
    PROVE  ClockInv'
<1>1. /\ Typed /\ ThreadsFit /\ o \in Threads
  BY OrganizersApart DEF ClockInv, Typed
<1>2. thread' = [thread EXCEPT ![o] = Thread("idle", <<>>, None)]
  BY DEF SaveFails, ReadFails, IdleThread
<1>3. /\ ThreadsFit' /\ thread'[o].pc = "idle"
      /\ \A p \in Threads : p # o => thread'[p] = thread[p]
  <2>1. /\ "idle" \in {"idle", "saving", "reading", "storing"} /\ Fits(<<>>)
        /\ "idle" = "storing" => None \in SettingsType
        /\ o \in Refreshers => "idle" \in {"idle", "storing"}
    BY NoRows
  <2> QED
    BY <1>1, <1>2, <2>1, ThreadGoesOn
<1>4. CASE SaveFails(o)
  <2>1. Typed'
    <3>1. failures' \in 0..MaxFailures
      BY <1>1, <1>4, ClockAssumption DEF Typed, SaveFails
    <3>2. clean' \in BOOLEAN
      BY <1>4 DEF SaveFails
    <3>3. UNCHANGED <<now, settings, snap, commands, ideal, late>>
      BY <1>4 DEF SaveFails
    <3> QED
      BY <1>1, <1>3, <3>1, <3>2, <3>3 DEF Typed
  <2>2. ~clean'
    BY <1>4 DEF SaveFails
  <2> QED
    BY <2>1, <2>2 DEF ClockInv
<1>5. CASE ReadFails(o)
  <2>1. Typed'
    BY <1>1, <1>3, <1>5, ClockAssumption DEF Typed, ReadFails, ghosts
  <2>2. UNCHANGED <<now, settings, ghosts>> /\ thread[o].pc # "saving"
    BY <1>5 DEF ReadFails
  <2>3. thread'[o].pc # "saving"
    BY <1>3
  <2> QED
    BY <1>1, <1>3, <2>1, <2>2, <2>3, OthersSave
<1> QED
  BY <1>4, <1>5

LEMMA ReloadInv ==
    ASSUME ClockInv, NEW o \in Threads, ReadSettings(o) \/ StoreSnapshot(o)
    PROVE  ClockInv'
<1>1. /\ Typed /\ ThreadsFit /\ settings \in SettingsType
  BY DEF ClockInv, Typed
<1>2. CASE ReadSettings(o)
  <2>1. /\ thread' = [thread EXCEPT ![o] = Thread("storing", <<>>, settings)]
        /\ UNCHANGED <<now, settings, snap, commands, failures, ghosts>>
        /\ thread[o].pc # "saving"
    BY <1>2 DEF ReadSettings
  <2>2. /\ ThreadsFit' /\ thread'[o].pc = "storing"
        /\ \A p \in Threads : p # o => thread'[p] = thread[p]
    <3>1. /\ "storing" \in {"idle", "saving", "reading", "storing"} /\ Fits(<<>>)
          /\ "storing" = "storing" => settings \in SettingsType
          /\ o \in Refreshers => "storing" \in {"idle", "storing"}
      BY <1>1, NoRows
    <3> QED
      BY <1>1, <2>1, <3>1, ThreadGoesOn
  <2>3. Typed'
    BY <1>1, <2>1, <2>2 DEF Typed, ghosts
  <2>4. thread'[o].pc # "saving"
    BY <2>2
  <2> QED
    BY <2>1, <2>2, <2>3, <2>4, OthersSave
<1>3. CASE StoreSnapshot(o)
  <2>1. /\ thread' = [thread EXCEPT ![o] = Thread("idle", <<>>, None)]
        /\ snap' = parseSnapshot(thread[o].read)
        /\ UNCHANGED <<now, settings, commands, failures, ghosts>>
        /\ thread[o].pc = "storing"
    BY <1>3 DEF StoreSnapshot, IdleThread
  <2>2. /\ ThreadsFit' /\ thread'[o].pc = "idle"
        /\ \A p \in Threads : p # o => thread'[p] = thread[p]
    <3>1. /\ "idle" \in {"idle", "saving", "reading", "storing"} /\ Fits(<<>>)
          /\ "idle" = "storing" => None \in SettingsType
          /\ o \in Refreshers => "idle" \in {"idle", "storing"}
      BY NoRows
    <3> QED
      BY <1>1, <2>1, <3>1, ThreadGoesOn
  <2>3. snap' \in SettingsType
    <3>1. thread[o].read \in SettingsType
      BY <1>1, <2>1 DEF ThreadsFit
    <3> QED
      BY <2>1, <3>1, Parsed
  <2>4. Typed'
    BY <1>1, <2>1, <2>2, <2>3 DEF Typed, ghosts
  <2>5. thread'[o].pc # "saving" /\ thread[o].pc # "saving"
    BY <2>1, <2>2
  <2> QED
    BY <2>1, <2>2, <2>4, <2>5, OthersSave
<1> QED
  BY <1>2, <1>3

\* While time passes, what is left of a running contest and the time to its end
\* both get less.
LEMMA AgreesLater ==
    ASSUME NEW s \in SettingsType, NEW t \in Nat, NEW clock \in IdealType, NEW isLate \in BOOLEAN,
           Agrees(s, t, clock, isLate),
           NEW later \in IdealType,
           later.status = clock.status, later.duration = clock.duration,
           later.pauses = clock.pauses,
           later.remaining = IF clock.status = "RUNNING" THEN clock.remaining - 1
                             ELSE clock.remaining
    PROVE  Agrees(s, t + 1, later, isLate)
<1>1. /\ clock.remaining \in Int /\ clock.pauses \in Nat
      /\ s.end \in Int \cup {None} /\ s.pausedAt \in Nat \cup {None}
  BY DEF IdealType, SettingsType
<1>2. Coherent(s, t, clock) /\ (~isLate => OnTime(s, t, clock))
  BY DEF Agrees
<1> DEFINE er == s.end * Res
           pr == s.pausedAt * Res
           ep == (s.end - s.pausedAt) * Res
           w == Res * clock.pauses
<1>3. /\ s.end # None => er \in Int
      /\ s.pausedAt # None => pr \in Int
      /\ w \in Int
  BY <1>1, Resolution
<1>4. Coherent(s, t + 1, later)
  <2>1. s.status = "PAUSED" => s.pausedAt # None /\ pr <= t + 1 /\ later.pauses > 0
    <3>1. s.status = "PAUSED" => s.pausedAt # None /\ pr <= t /\ later.pauses > 0
      BY <1>2 DEF Coherent
    <3> HIDE DEF pr
    <3> QED
      BY <1>3, <3>1
  <2>2. s.status = "ENDED" => er <= t + 1 /\ later.remaining = 0
    <3>1. s.status = "ENDED" => s.end # None /\ er <= t /\ later.remaining = 0
      BY <1>2 DEF Coherent
    <3> HIDE DEF er
    <3> QED
      BY <1>3, <3>1
  <2> QED
    BY <1>2, <2>1, <2>2 DEF Coherent
<1>5. ASSUME ~isLate PROVE OnTime(s, t + 1, later)
  <2>1. s.status = "RUNNING" =>
            /\ s.end # None
            /\ -w - Res < er - t - clock.remaining /\ er - t - clock.remaining <= w
            /\ later.remaining = clock.remaining - 1
    BY <1>2, <1>5 DEF Coherent, OnTime
  <2>2. s.status = "PAUSED" =>
            /\ -w < ep - clock.remaining /\ ep - clock.remaining < w
            /\ later.remaining = clock.remaining
    BY <1>2, <1>5 DEF Coherent, OnTime
  <2>3. Res * later.pauses = w
    OBVIOUS
  <2> HIDE DEF er, ep, w
  <2>4. s.status = "RUNNING" =>
            -w - Res < er - (t + 1) - later.remaining /\ er - (t + 1) - later.remaining <= w
    BY <1>1, <1>3, <2>1, Resolution
  <2> QED
    BY <2>2, <2>3, <2>4 DEF OnTime, er, ep
<1> QED
  BY <1>4, <1>5 DEF Agrees

LEMMA TickInv ==
    ASSUME ClockInv, Tick
    PROVE  ClockInv'
<1> DEFINE c == [ideal EXCEPT !.remaining = ideal.remaining - 1]
<1>1. /\ now < MaxNow /\ now' = now + 1
      /\ ideal' = IF clean /\ ideal.status = "RUNNING" THEN c ELSE ideal
      /\ UNCHANGED <<settings, snap, thread, commands, failures, clean, late>>
  BY DEF Tick
<1>2. /\ Typed /\ now \in Nat /\ now' \in 0..MaxNow
      /\ settings \in SettingsType /\ ideal \in IdealType /\ late \in BOOLEAN
      /\ ideal.remaining \in Int
  BY <1>1, ClockAssumption DEF ClockInv, Typed, IdealType
<1>3. /\ c \in IdealType /\ c.status = ideal.status /\ c.duration = ideal.duration
      /\ c.remaining = ideal.remaining - 1 /\ c.pauses = ideal.pauses
  BY <1>2, ClockSet
<1> HIDE DEF c
<1>4. ideal' \in IdealType
  BY <1>1, <1>2, <1>3
<1>5. ThreadsFit'
  BY <1>1, <1>2 DEF Typed, ThreadsFit
<1>6. Typed'
  BY <1>1, <1>2, <1>4, <1>5 DEF Typed
<1>7. ASSUME clean' PROVE OneSaves' /\ Pending' /\ Settled'
  <2>1. /\ OneSaves /\ Pending /\ Settled /\ clean
        /\ settings' = settings /\ thread' = thread /\ late' = late
    BY <1>1, <1>7 DEF ClockInv
  <2>2. /\ ideal'.status = ideal.status /\ ideal'.duration = ideal.duration
        /\ ideal'.pauses = ideal.pauses
        /\ ideal'.remaining = IF ideal.status = "RUNNING" THEN ideal.remaining - 1
                              ELSE ideal.remaining
    BY <1>1, <1>3, <2>1
  <2>3. ASSUME NEW s \in SettingsType, Agrees(s, now, ideal, late)
        PROVE  Agrees(s, now', ideal', late')
    <3>1. Agrees(s, now + 1, ideal', late)
      BY <1>2, <1>4, <2>2, <2>3, AgreesLater
    <3> QED
      BY <1>1, <2>1, <3>1
  <2>4. Pending'
    <3>1. ASSUME NEW o \in Organizers, thread[o].pc = "saving"
          PROVE  Agrees(Over(settings, thread[o].todo), now', ideal', late')
      <4>1. Fits(thread[o].todo)
        BY <1>2, OrganizersApart DEF Typed, ThreadsFit
      <4>2. Over(settings, thread[o].todo) \in SettingsType
        BY <1>2, <4>1, OverType
      <4> QED
        BY <2>1, <2>3, <3>1, <4>2 DEF Pending
    <3> QED
      BY <2>1, <3>1 DEF Pending
  <2>5. Settled'
    BY <1>2, <2>1, <2>3 DEF Settled
  <2> QED
    BY <2>1, <2>4, <2>5 DEF OneSaves
<1> QED
  BY <1>6, <1>7 DEF ClockInv

-----------------------------------------------------------------------------
(* The theorems.                                                           *)

LEMMA InitInv == Init => ClockInv
<1> SUFFICES ASSUME Init PROVE ClockInv
  OBVIOUS
<1>1. InitialSettings \in SettingsType
  BY ClockAssumption DEF InitialSettings, SettingsType, Statuses
<1>2. snap \in SettingsType /\ settings \in SettingsType
  BY <1>1, Parsed DEF Init
<1>3. ThreadsFit
  <2>1. \A o \in Threads : thread[o].pc = "idle" /\ thread[o].todo = <<>>
    BY DEF Init, IdleThread, Thread
  <2> QED
    BY <2>1, NoRows DEF Init, ThreadsFit
<1>4. ideal \in IdealType
  BY ClockAssumption DEF Init, IdealType, Statuses
<1>5. Typed
  <2>1. now \in 0..MaxNow /\ commands \in 0..MaxCommands /\ failures \in 0..MaxFailures
    BY ClockAssumption DEF Init
  <2>2. clean \in BOOLEAN /\ late \in BOOLEAN
    BY DEF Init
  <2> QED
    BY <1>2, <1>3, <1>4, <2>1, <2>2 DEF Typed
<1>6. \A o \in Organizers : thread[o].pc = "idle"
  BY OrganizersApart DEF Init, IdleThread, Thread
<1>7. Agrees(settings, now, ideal, late)
  BY DEF Init, InitialSettings, Agrees, Coherent, OnTime
<1> QED
  BY <1>5, <1>6, <1>7 DEF ClockInv, OneSaves, Pending, Settled

LEMMA NextInv == ClockInv /\ [Next]_vars => ClockInv'
<1> SUFFICES ASSUME ClockInv, [Next]_vars PROVE ClockInv'
  OBVIOUS
<1>1. CASE UNCHANGED vars
  <2>1. ThreadsFit' <=> ThreadsFit
    BY <1>1 DEF ThreadsFit, vars
  <2>2. Typed'
    BY <1>1, <2>1 DEF ClockInv, Typed, vars, ghosts
  <2>3. (OneSaves' <=> OneSaves) /\ (Pending' <=> Pending) /\ (Settled' <=> Settled)
    BY <1>1 DEF OneSaves, Pending, Settled, vars, ghosts
  <2> QED
    BY <1>1, <2>2, <2>3 DEF ClockInv, vars, ghosts
<1>2. ASSUME NEW o \in Organizers, Command(o) PROVE ClockInv'
  BY <1>2, StartInv, PauseInv, ResumeInv, ExtendInv, FreezeInv, ResetInv, EndInv, UpdateInv
     DEF Command
<1>3. ASSUME NEW o \in Organizers, Save(o) \/ SaveFails(o) \/ ReadFails(o) PROVE ClockInv'
  BY <1>3, SaveKeyInv, FailsInv DEF Save
<1>4. ASSUME NEW o \in Threads, ReadSettings(o) \/ StoreSnapshot(o) PROVE ClockInv'
  BY <1>4, ReloadInv
<1>5. CASE Tick
  BY <1>5, TickInv
<1> QED
  BY <1>1, <1>2, <1>3, <1>4, <1>5 DEF Next

\* The invariant above, from which the others follow.
THEOREM ClockInvariant == Spec => []ClockInv
  BY InitInv, NextInv, PTL DEF Spec

\* The rows and the snapshot always have values that parse, even while requests overlap
\* and fail half way (SaveSettings, Reload).
THEOREM TypeCorrect == Spec => []TypeOK
<1>1. ASSUME ClockInv PROVE TypeOK
  <2>1. \A o \in Threads :
            /\ thread[o].pc \in {"idle", "saving", "reading", "storing"}
            /\ DOMAIN thread[o].todo \subseteq DOMAIN settings
            /\ thread[o].pc = "storing" => thread[o].read \in SettingsType
    BY <1>1, RowsOf DEF ClockInv, Typed, ThreadsFit, Fits
  <2> QED
    BY <1>1, <2>1 DEF ClockInv, Typed, TypeOK
<1> QED
  BY <1>1, ClockInvariant, PTL

\* Contestants get the time the organizers gave them (the commands of manager.go), to
\* the seconds that the stored texts drop.
THEOREM TimeIsKept == Spec => []ClockKeepsTime
<1>1. ASSUME ClockInv, Quiet, clean, ~late PROVE KeepsTime
  <2> DEFINE s == parseSnapshot(settings)
             drift == Res * (1 + ideal.pauses)
             w == Res * ideal.pauses
             er == settings.end * Res
             pr == settings.pausedAt * Res
             ep == (settings.end - settings.pausedAt) * Res
  <2>1. Agrees(settings, now, ideal, late) /\ settings \in SettingsType /\ now \in Nat
    BY <1>1, ClockAssumption DEF ClockInv, Typed, Settled, Quiet
  <2>2. Coherent(settings, now, ideal) /\ OnTime(settings, now, ideal)
    BY <1>1, <2>1 DEF Agrees
  <2>3. /\ ideal.remaining \in Int /\ ideal.pauses \in Nat
        /\ settings.end \in Int \cup {None} /\ settings.pausedAt \in Nat \cup {None}
    BY <1>1 DEF ClockInv, Typed, IdealType, SettingsType
  <2>4. /\ s.status = settings.status /\ s.duration = settings.duration
        /\ settings.end # None => s.end = er
        /\ settings.pausedAt # None => s.pausedAt = pr
    BY <2>1, Parsed
  <2>5. s.status = ideal.status /\ s.duration = ideal.duration
    BY <2>2, <2>4 DEF Coherent
  <2>6. drift = w + Res /\ w \in Nat
    BY <2>3, Resolution
  <2> HIDE DEF s, drift
  <2>7. ASSUME settings.status = "RUNNING"
        PROVE  -drift < Remaining(s) - ideal.remaining /\ Remaining(s) - ideal.remaining < drift
    <3>1. settings.end \in Int
      BY <2>2, <2>3, <2>7 DEF Coherent
    <3>2. er \in Int /\ s.end = er
      BY <2>4, <3>1, Resolution
    <3>3. -w - Res < er - now - ideal.remaining /\ er - now - ideal.remaining <= w
      BY <2>2, <2>7 DEF OnTime
    <3>4. Remaining(s) = er - now
      BY <2>4, <2>7, <3>2 DEF Remaining
    <3> HIDE DEF er, w
    <3> QED
      BY <2>1, <2>3, <2>6, <3>2, <3>3, <3>4, Resolution
  <2>8. ASSUME settings.status = "PAUSED"
        PROVE  -drift < Remaining(s) - ideal.remaining /\ Remaining(s) - ideal.remaining < drift
    <3>1. settings.end \in Int /\ settings.pausedAt \in Int
      BY <2>2, <2>3, <2>8 DEF Coherent
    <3>2. er \in Int /\ pr \in Int /\ ep = er - pr /\ s.end = er /\ s.pausedAt = pr
      BY <2>4, <3>1, Distribute, Resolution
    <3>3. -w < ep - ideal.remaining /\ ep - ideal.remaining < w
      BY <2>2, <2>8 DEF OnTime
    <3>4. Remaining(s) = ep
      BY <2>4, <2>8, <3>2 DEF Remaining
    <3> HIDE DEF er, pr, ep, w
    <3> QED
      BY <2>3, <2>6, <3>2, <3>3, <3>4, Resolution
  <2> QED
    BY <2>4, <2>5, <2>7, <2>8 DEF KeepsTime, s, drift
<1>2. ClockInv => ClockKeepsTime
  BY <1>1 DEF ClockKeepsTime
<1> QED
  BY <1>2, ClockInvariant, PTL

=============================================================================
