---------------------------- MODULE ContestClock ----------------------------
(***************************************************************************)
(* The contest clock of the API server (backend/internal/contest).  The    *)
(* table contest_settings holds one row per key; Manager keeps a parsed    *)
(* snapshot of it.  A command computes its updates from the snapshot,      *)
(* saves them one statement at a time in map order and reloads; a          *)
(* refresher reloads every 15 seconds.  Nothing serialises them.           *)
(* now counts subticks, Res of them in a second: times are kept as RFC3339 *)
(* text, which drops the fraction.                                         *)
(***************************************************************************)
EXTENDS Integers

CONSTANTS
    Organizers,     \* requests of organizers that may be in flight together
    Refreshers,     \* goroutines of StartRefresher: the server has one
    None,           \* a nil time, the empty string in the table
    Res,            \* subticks in a second
    Durations,      \* durations, in seconds, that commands give (0: none)
    Extensions,     \* extensions, in seconds
    FreezeWindows,  \* freeze windows, in seconds
    DefaultDuration, DefaultFreeze,
    MaxNow,         \* bound: the last subtick
    MaxCommands,    \* bound: commands per behaviour
    MaxFailures     \* bound: statements that fail per behaviour

ASSUME ClockAssumption ==
    /\ Refreshers \cap Organizers = {}
    /\ None \notin Int
    /\ Res \in Nat \ {0}
    /\ Durations \subseteq Nat
    /\ Extensions \subseteq Nat \ {0}
    /\ FreezeWindows \subseteq Nat
    /\ DefaultDuration \in Nat \ {0}
    /\ DefaultFreeze \in Nat
    /\ MaxNow \in Nat
    /\ MaxCommands \in Nat
    /\ MaxFailures \in Nat

VARIABLES
    now,        \* time.Now()
    settings,   \* the rows of contest_settings: times in seconds, or None
    snap,       \* the snapshot of Manager
    thread,     \* what each organizer's request and refresher is doing
    commands,   \* commands issued so far
    failures,   \* statements that have failed
    \* history, read by properties only
    ideal,      \* the clock as the commands ask for it, each taken at once
    clean,      \* every command since the last reset was issued from the current settings
                \* with no other in flight, and none failed half way
    late        \* an extension came when the end had passed during a pause

ghosts == <<ideal, clean, late>>
vars == <<now, settings, snap, thread, commands, failures, ghosts>>

-----------------------------------------------------------------------------
Statuses == {"NOT_STARTED", "RUNNING", "PAUSED", "ENDED"}
Threads == Organizers \cup Refreshers

\* time.Format(RFC3339) and time.Parse of it.
Format(t) == t \div Res
parseTime(text) == IF text = None THEN None ELSE text * Res

parseSnapshot(values) ==
    [status |-> values.status, duration |-> values.duration, freeze |-> values.freeze,
     start |-> parseTime(values.start), end |-> parseTime(values.end),
     pausedAt |-> parseTime(values.pausedAt),
     isFrozen |-> values.isFrozen, overridden |-> values.overridden,
     freezeStart |-> parseTime(values.freezeStart)]

\* The migration's rows; the keys it does not insert parse as false and nil.
InitialSettings ==
    [status |-> "NOT_STARTED", duration |-> DefaultDuration, freeze |-> DefaultFreeze,
     start |-> None, end |-> None, pausedAt |-> None,
     isFrozen |-> FALSE, overridden |-> FALSE, freezeStart |-> None]

\* What a goroutine does: rows still to save, rows read.
Thread(pc, todo, read) == [pc |-> pc, todo |-> todo, read |-> read]
IdleThread == Thread("idle", <<>>, None)

\* SaveSettings goes on while rows are left.
Saving(updates) ==
    IF DOMAIN updates = {} THEN Thread("reading", <<>>, None) ELSE Thread("saving", updates, None)

\* Updates to which a command adds more.
Adding(updates, more) ==
    [k \in DOMAIN updates \cup DOMAIN more |-> IF k \in DOMAIN more THEN more[k] ELSE updates[k]]

-----------------------------------------------------------------------------
\* GetState, of a snapshot s at time t: a running contest whose end has passed is over.
EffectiveStatus(s, t) ==
    IF s.status = "RUNNING" /\ s.start # None /\ s.end # None /\ t > s.end
    THEN "ENDED" ELSE s.status

-----------------------------------------------------------------------------
Init ==
    /\ now = 0
    /\ settings = InitialSettings
    /\ snap = parseSnapshot(InitialSettings)
    /\ thread = [o \in Threads |-> IdleThread]
    /\ commands = 0
    /\ failures = 0
    /\ ideal = [status |-> "NOT_STARTED", duration |-> DefaultDuration, remaining |-> 0, pauses |-> 0]
    /\ clean = TRUE
    /\ late = FALSE

Alone(o) == \A p \in Organizers \ {o} : thread[p].pc = "idle"

\* A request has passed its checks and goes on to SaveSettings.
Issue(o, updates) ==
    /\ thread[o].pc = "idle"
    /\ commands < MaxCommands
    /\ commands' = commands + 1
    /\ thread' = [thread EXCEPT ![o] = Saving(updates)]
    /\ UNCHANGED <<now, settings, snap, failures>>

\* What the command asks of the clock.  Reset makes a new start.
Intend(o, clock) ==
    /\ clean' = (clean /\ Alone(o) /\ snap = parseSnapshot(settings))
    /\ ideal' = IF clean' THEN clock ELSE ideal

\* Mutant: a duration that was left out is taken as given.
StartAsGiven(o, d) ==
    /\ snap.status \notin {"RUNNING", "PAUSED"}
    /\ Issue(o, [status |-> "RUNNING", duration |-> d, start |-> Format(now),
                 end |-> Format(now + d * Res), pausedAt |-> None,
                 isFrozen |-> FALSE, overridden |-> FALSE])
    /\ Intend(o, [status |-> "RUNNING", duration |-> d, remaining |-> d * Res, pauses |-> 0])
    /\ UNCHANGED late

Start(o, d) ==
    LET seconds == IF d > 0 THEN d ELSE snap.duration IN
    /\ snap.status \notin {"RUNNING", "PAUSED"}
    /\ Issue(o, [status |-> "RUNNING", duration |-> seconds, start |-> Format(now),
                 end |-> Format(now + seconds * Res), pausedAt |-> None,
                 isFrozen |-> FALSE, overridden |-> FALSE])
    /\ Intend(o, [status |-> "RUNNING", duration |-> seconds,
                  remaining |-> seconds * Res, pauses |-> 0])
    /\ UNCHANGED late

Pause(o) ==
    /\ EffectiveStatus(snap, now) = "RUNNING"
    /\ Issue(o, [status |-> "PAUSED", pausedAt |-> Format(now)])
    /\ Intend(o, [ideal EXCEPT !.status = "PAUSED", !.pauses = @ + 1])
    /\ UNCHANGED late

\* Mutant: the pause counts as contest time.
ResumeUnshifted(o) ==
    /\ snap.status = "PAUSED"
    /\ Issue(o, [status |-> "RUNNING", pausedAt |-> None])
    /\ Intend(o, [ideal EXCEPT !.status = "RUNNING"])
    /\ UNCHANGED late

Resume(o) ==
    LET pause == IF now < snap.pausedAt THEN 0 ELSE now - snap.pausedAt
        newEnd == IF snap.end # None /\ snap.pausedAt # None THEN snap.end + pause
                  ELSE now + snap.duration * Res
    IN
    /\ snap.status = "PAUSED"
    /\ Issue(o, [status |-> "RUNNING", end |-> Format(newEnd), pausedAt |-> None])
    /\ Intend(o, [ideal EXCEPT !.status = "RUNNING"])
    /\ UNCHANGED late

\* Mutant: the end stays where it is.
ExtendDurationOnly(o, m) ==
    /\ Issue(o, [duration |-> snap.duration + m])
    /\ Intend(o, [ideal EXCEPT !.duration = @ + m, !.remaining = @ + m * Res])
    /\ UNCHANGED late

Extend(o, m) ==
    LET base == IF now > snap.end THEN now ELSE snap.end
        more == IF snap.end = None THEN <<>> ELSE [end |-> Format(base + m * Res)]
        reopen == IF snap.status = "ENDED" THEN [status |-> "RUNNING"] ELSE <<>>
    IN
    /\ Issue(o, Adding(Adding([duration |-> snap.duration + m], more), reopen))
    /\ Intend(o, [ideal EXCEPT
          !.duration = @ + m,
          !.status = IF @ = "ENDED" THEN "RUNNING" ELSE @,
          !.remaining = CASE ideal.status = "NOT_STARTED" -> @
                          [] ideal.status = "PAUSED" -> @ + m * Res
                          [] OTHER -> (IF @ > 0 THEN @ ELSE 0) + m * Res])
    /\ late' = (late \/ (snap.status = "PAUSED" /\ snap.end # None /\ now > snap.end))

Freeze(o) ==
    /\ Issue(o, [isFrozen |-> TRUE, freezeStart |-> Format(now), overridden |-> FALSE])
    /\ Intend(o, ideal)
    /\ UNCHANGED late

Unfreeze(o) ==
    /\ Issue(o, [isFrozen |-> FALSE, freezeStart |-> None, overridden |-> TRUE])
    /\ Intend(o, ideal)
    /\ UNCHANGED late

Reset(o) ==
    /\ Issue(o, [status |-> "NOT_STARTED", start |-> None, end |-> None, pausedAt |-> None,
                 isFrozen |-> FALSE, freezeStart |-> None, overridden |-> FALSE])
    /\ clean' = Alone(o)
    /\ ideal' = [status |-> "NOT_STARTED", duration |-> settings.duration,
                 remaining |-> 0, pauses |-> 0]
    /\ late' = FALSE

End(o) ==
    /\ Issue(o, [status |-> "ENDED", end |-> Format(now), pausedAt |-> None])
    /\ Intend(o, [ideal EXCEPT !.status = "ENDED", !.remaining = 0])
    /\ UNCHANGED late

\* A running contest's end moves with its duration, a paused one's does not.
UpdateSettings(o, d, f) ==
    LET diff == d - snap.duration
        resize == IF d > 0 THEN [duration |-> d] ELSE <<>>
        running == snap.status = "RUNNING" /\ d > 0
        newEnd == IF snap.end # None THEN snap.end + diff * Res ELSE snap.start + d * Res
        move == IF running /\ (snap.end # None \/ snap.start # None)
                THEN [end |-> Format(newEnd)] ELSE <<>>
    IN
    /\ Issue(o, Adding(Adding([freeze |-> f], resize), move))
    /\ Intend(o, [ideal EXCEPT !.duration = IF d > 0 THEN d ELSE @,
                               !.remaining = IF running THEN @ + diff * Res ELSE @])
    /\ UNCHANGED late

-----------------------------------------------------------------------------
(* SaveSettings and Reload.                                                *)

SaveKey(o, k) ==
    LET rest == [j \in DOMAIN thread[o].todo \ {k} |-> thread[o].todo[j]] IN
    /\ thread[o].pc = "saving"
    /\ k \in DOMAIN thread[o].todo
    /\ settings' = [settings EXCEPT ![k] = thread[o].todo[k]]
    /\ thread' = [thread EXCEPT ![o] = Saving(rest)]
    /\ UNCHANGED <<now, snap, commands, failures, ghosts>>

\* A statement fails: the request ends with an error, the rows stay as they are.
SaveFails(o) ==
    /\ thread[o].pc = "saving"
    /\ failures < MaxFailures
    /\ failures' = failures + 1
    /\ thread' = [thread EXCEPT ![o] = IdleThread]
    /\ clean' = FALSE
    /\ UNCHANGED <<now, settings, snap, commands, ideal, late>>

\* GetSettings, of a request or at the refresher's tick.
ReadSettings(o) ==
    /\ thread[o].pc = IF o \in Refreshers THEN "idle" ELSE "reading"
    /\ thread' = [thread EXCEPT ![o] = Thread("storing", <<>>, settings)]
    /\ UNCHANGED <<now, settings, snap, commands, failures, ghosts>>

\* GetSettings of a request fails: it ends with an error although all is saved.
ReadFails(o) ==
    /\ thread[o].pc = "reading"
    /\ failures < MaxFailures
    /\ failures' = failures + 1
    /\ thread' = [thread EXCEPT ![o] = IdleThread]
    /\ UNCHANGED <<now, settings, snap, commands, ghosts>>

\* Mutant: a snapshot with the same status is not replaced.
StoreIfStatusChanged(o) ==
    /\ thread[o].pc = "storing"
    /\ snap' = IF thread[o].read.status = snap.status THEN snap ELSE parseSnapshot(thread[o].read)
    /\ thread' = [thread EXCEPT ![o] = IdleThread]
    /\ UNCHANGED <<now, settings, commands, failures, ghosts>>

StoreSnapshot(o) ==
    /\ thread[o].pc = "storing"
    /\ snap' = parseSnapshot(thread[o].read)
    /\ thread' = [thread EXCEPT ![o] = IdleThread]
    /\ UNCHANGED <<now, settings, commands, failures, ghosts>>

Tick ==
    /\ now < MaxNow
    /\ now' = now + 1
    /\ ideal' = IF clean /\ ideal.status = "RUNNING" THEN [ideal EXCEPT !.remaining = @ - 1] ELSE ideal
    /\ UNCHANGED <<settings, snap, thread, commands, failures, clean, late>>

-----------------------------------------------------------------------------
Command(o) ==
    \/ \E d \in Durations \cup {0} : Start(o, d)
    \/ Pause(o) \/ Resume(o)
    \/ \E m \in Extensions : Extend(o, m)
    \/ Freeze(o) \/ Unfreeze(o) \/ Reset(o) \/ End(o)
    \/ \E d \in Durations \cup {0}, f \in FreezeWindows : UpdateSettings(o, d, f)

Save(o) == \E k \in DOMAIN settings : SaveKey(o, k)

Next ==
    \/ \E o \in Organizers : Command(o) \/ Save(o) \/ SaveFails(o) \/ ReadFails(o)
    \/ \E o \in Threads : ReadSettings(o) \/ StoreSnapshot(o)
    \/ Tick

Spec == Init /\ [][Next]_vars

\* Requests go on, and the refresher's ticker does.
FairSpec ==
    /\ Spec
    /\ \A o \in Organizers : WF_vars(Save(o) \/ ReadSettings(o) \/ StoreSnapshot(o))
    /\ \A r \in Refreshers : WF_vars(ReadSettings(r)) /\ WF_vars(StoreSnapshot(r))
-----------------------------------------------------------------------------
SettingsType ==
    [status : Statuses, duration : Nat \ {0}, freeze : Nat,
     start : Nat \cup {None}, end : Int \cup {None}, pausedAt : Nat \cup {None},
     isFrozen : BOOLEAN, overridden : BOOLEAN, freezeStart : Nat \cup {None}]

\* The rows and the snapshot have values that parse; what a request still has
\* to save are rows of the table.
TypeOK ==
    /\ now \in 0..MaxNow
    /\ settings \in SettingsType
    /\ snap \in SettingsType
    /\ \A o \in Threads :
          /\ thread[o].pc \in {"idle", "saving", "reading", "storing"}
          /\ DOMAIN thread[o].todo \subseteq DOMAIN settings
          /\ thread[o].pc = "storing" => thread[o].read \in SettingsType
    /\ commands \in 0..MaxCommands
    /\ failures \in 0..MaxFailures
    /\ clean \in BOOLEAN /\ late \in BOOLEAN

Quiet == \A o \in Organizers : thread[o].pc = "idle"

\* The time left by the table: counted to the pause while there is one.
Remaining(s) == IF s.status = "PAUSED" THEN s.end - s.pausedAt ELSE s.end - now

\* The table agrees with the ideal clock; the texts drop fractions of a second
\* when the contest starts and at each pause.
KeepsTime ==
    LET s == parseSnapshot(settings)
        drift == Res * (1 + ideal.pauses)
        error == Remaining(s) - ideal.remaining
    IN  /\ s.status = ideal.status
        /\ s.duration = ideal.duration
        /\ s.status \in {"RUNNING", "PAUSED"} => -drift < error /\ error < drift

\* Contestants get the time the organizers gave them: through any sequence of
\* starts, pauses, resumes, extensions, changes of the duration and resets, when
\* each command is issued from the current settings, the table's end is that of a
\* clock that obeys each command at once.  A reset makes up for whatever commands
\* that overlapped, or failed half way, left in the table.
ClockKeepsTime == (Quiet /\ clean /\ ~late) => KeepsTime

\* admin_contest.go: Extend is to "add additional minutes to the active contest
\* duration".  If the end has passed during a pause, it adds the pause as well.
ExtendAddsMinutes == (Quiet /\ clean) => KeepsTime

\* Once commands stop, what the API decides from becomes what the table says,
\* whatever stale snapshots requests and refresher stored in the meantime.
SnapshotConverges == <>[](snap = parseSnapshot(settings))
=============================================================================
