---------------------------- MODULE TimerConsole ----------------------------
(***************************************************************************)
(* The organizers' controls of the contest: the projector page             *)
(* (contest-timer-client, timer-control-dock, countdown-display) and the   *)
(* clock in the header of the other pages (contest-header-controls,        *)
(* contest-settings-dialog).  Both poll the contest's state, count down    *)
(* from it every second, send commands, and edit the settings.             *)
(*                                                                         *)
(* Time is in seconds.  The server is the one ContestClock models; here a  *)
(* command takes effect at once.  Other organizers act on the server too.  *)
(* Of the settings, the title, the freeze window and one of the switches   *)
(* are kept; their duration is left to ContestClock.                       *)
(***************************************************************************)
EXTENDS Integers, Sequences, SequencesExt

CONSTANTS
  Length,        \* duration of the contest at the start
  FirstConfig,   \* its settings at the start: [title, freeze, fullscreen]
  Titles, Windows, \* titles and freeze windows that are typed
  DefaultWindow, \* the freeze window that stands for none (normalizeState)
  Period,        \* POLL_INTERVAL of the timer page and of the header, in seconds
  MaxLag,        \* bound on the time an answer takes
  MaxTime,       \* bound on time
  MaxActs,       \* bound on what the organizers do, others included
  MaxLostOrders  \* bound on requests and answers lost

\* The pages poll every so many seconds, and an answer may take one; the settings have their
\* fields.
TimerConstants ==
  /\ Length \in Nat /\ MaxLag \in Nat \ {0}
  /\ Period.timer \in Nat \ {0} /\ Period.header \in Nat \ {0}
  /\ FirstConfig = [title |-> FirstConfig.title, freeze |-> FirstConfig.freeze,
                    fullscreen |-> FirstConfig.fullscreen]

VARIABLES
  time, event, config,           \* the server: its clock, the contest and the settings
  onTimer,                       \* the timer page, or the header of another page
  shown, shift, left, gone, lastLeft, counted, \* state, clockOffset, the countdown; counted since the state
  sound, audio,                  \* the last sound, isAudioEnabled
  inView, sincePoll, reading,    \* visibilityState, the poll's interval, answers on their way
  order,                         \* the command under way: isLoading
  dialog, sform, typedSet,       \* the settings dialog, its form, and what was typed in it
  acts, lostOrders

serverVars == <<event, config>>
clockVars  == <<shown, shift, left, gone, lastLeft, counted, sound>>
dialogSet  == <<dialog, sform, typedSet>>
timerBounds == <<acts, lostOrders>>
timerVars  == <<time, serverVars, onTimer, clockVars, audio, inView, sincePoll, reading, order, dialogSet, timerBounds>>

-----------------------------------------------------------------------------
(* The server.                                                             *)

Reset(e) == [status |-> "NOT_STARTED", start |-> 0, end |-> 0, pausedAt |-> 0, dur |-> e.dur, frozen |-> FALSE]

Live(e) == e.status \in {"RUNNING", "PAUSED"}

\* GetState's status: a running contest whose end has passed is over.
EffectiveAt(e, now) == IF e.status = "RUNNING" /\ now > e.end THEN "ENDED" ELSE e.status

Effective(e) == EffectiveAt(e, time)

\* The time left at the server of a contest with a status.
leftAt(e, st, now) ==
  CASE st = "NOT_STARTED" -> e.dur
    [] st = "RUNNING"     -> e.end - now
    [] st = "PAUSED"      -> IF e.end > e.pausedAt THEN e.end - e.pausedAt ELSE 0
    [] OTHER              -> 0

\* GetState: the status, and the time left and gone at the server.
StateAt(e, now) ==
  LET st == EffectiveAt(e, now)
  IN  [status |-> st, start |-> e.start, end |-> e.end, dur |-> e.dur, frozen |-> e.frozen,
       left |-> leftAt(e, st, now),
       gone |-> CASE st = "NOT_STARTED" -> 0
                  [] st = "RUNNING"     -> now - e.start
                  [] st = "PAUSED"      -> e.pausedAt - e.start
                  [] OTHER              -> e.dur]

StateNow == StateAt(event, time)

MayDo(op) ==
  CASE op = "start"  -> ~Live(event)
    [] op = "pause"  -> Effective(event) = "RUNNING"
    [] op = "resume" -> event.status = "PAUSED"
    [] OTHER -> TRUE

\* The contest after a command.
After(op) ==
  CASE op = "start"  -> [status |-> "RUNNING", start |-> time, end |-> time + event.dur, pausedAt |-> 0,
                         dur |-> event.dur, frozen |-> FALSE]
    [] op = "pause"  -> [event EXCEPT !.status = "PAUSED", !.pausedAt = time]
    [] op = "resume" -> [event EXCEPT !.status = "RUNNING", !.end = @ + time - event.pausedAt, !.pausedAt = 0]
    [] op = "extend" -> [event EXCEPT !.dur = @ + 1, !.end = (IF time > @ THEN time ELSE @) + 1,
                                      !.status = IF @ = "ENDED" THEN "RUNNING" ELSE @]
    [] op = "freeze" -> [event EXCEPT !.frozen = ~@]
    [] op = "end"    -> [event EXCEPT !.status = "ENDED", !.end = time, !.pausedAt = 0]
    [] OTHER         -> Reset(event)

Ops == {"start", "pause", "resume", "extend", "freeze", "end", "reset"}

\* Another organizer's command, or change of the settings.
OtherOrganizer ==
  /\ acts < MaxActs /\ acts' = acts + 1
  /\ \/ \E op \in Ops : MayDo(op) /\ (op = "extend" => event.end > 0) /\ event' = After(op) /\ UNCHANGED config
     \/ config' \in {[config EXCEPT !.fullscreen = ~@]} \cup {[config EXCEPT !.title = t] : t \in Titles}
        /\ UNCHANGED event
  /\ UNCHANGED <<time, onTimer, clockVars, audio, inView, sincePoll, reading, order, dialogSet,
                 lostOrders>>

-----------------------------------------------------------------------------
(* Reading the state and counting down.                                    *)

\* normalizeState: a window of 0 reads as the default one.
normalizeState(c) == [c EXCEPT !.freeze = IF @ = 0 THEN DefaultWindow ELSE @]

\* An answer: the state, the settings, and the server's time; and, for the properties, the
\* contest that the state was read from.
Reading(why) ==
  [state |-> StateNow, config |-> normalizeState(config), at |-> time, why |-> why, basis |-> event]

\* The interval has passed.
pollDue == sincePoll + 1 >= (IF onTimer THEN Period.timer ELSE Period.header)

clockOffset(a) == a.at - time

\* Mutant: the countdown does not stop at zero.
countsBelowZero(s, now) ==
  CASE s.status = "NOT_STARTED" -> s.dur
    [] s.status = "RUNNING"     -> s.end - now
    [] s.status = "PAUSED"      -> s.left
    [] OTHER                    -> 0

\* The tick's countdown of a state, at the time it takes the server's to be.
calculatedRemaining(s, now) ==
  CASE s.status = "NOT_STARTED" -> s.dur
    [] s.status = "RUNNING"     -> IF s.end > now THEN s.end - now ELSE 0
    [] s.status = "PAUSED"      -> s.left
    [] OTHER                    -> 0

calculatedElapsed(s, now) ==
  CASE s.status = "NOT_STARTED" -> 0
    [] s.status = "RUNNING"     -> IF now >= s.end THEN s.dur ELSE IF now > s.start THEN now - s.start ELSE 0
    [] s.status = "PAUSED"      -> s.gone
    [] OTHER                    -> s.dur

\* The timer page's sounds while the contest runs: the end, or one second before it.
soundAt(s, was, is) ==
  IF ~onTimer \/ ~audio \/ s.status # "RUNNING" THEN sound
  ELSE IF was > 0 /\ is = 0 THEN "end" ELSE IF was > 1 /\ is = 1 THEN "warning" ELSE sound

\* A second: the tick, and the poll where its interval has passed and the page is in view.
Second ==
  /\ time < MaxTime /\ time' = time + 1
  /\ \A j \in DOMAIN reading : time < reading[j].at + MaxLag
  /\ left' = calculatedRemaining(shown.state, time' + shift)
  /\ gone' = calculatedElapsed(shown.state, time' + shift)
  /\ sound' = soundAt(shown.state, lastLeft, left')
  /\ lastLeft' = left' /\ counted' = TRUE
  /\ sincePoll' = IF pollDue THEN 0 ELSE sincePoll + 1
  /\ reading' = IF pollDue /\ inView THEN Append(reading, Reading("poll")) ELSE reading
  /\ UNCHANGED <<serverVars, onTimer, shown, shift, audio, inView, order, dialogSet, timerBounds>>

\* The timer page reads the state as soon as it is in view again.
VisibilityChange ==
  /\ acts < MaxActs /\ acts' = acts + 1
  /\ inView' = ~inView
  /\ reading' = IF inView' /\ onTimer THEN Append(reading, Reading("poll")) ELSE reading
  /\ UNCHANGED <<time, serverVars, onTimer, clockVars, audio, sincePoll, order, dialogSet,
                 lostOrders>>

\* Mutant: the header's dialog follows the state it is shown.
followsState(f, c) == c

\* What an answer does to the form of the settings: the timer page's takes its switches.
afterAnswer(f, c) == IF onTimer THEN [f EXCEPT !.fullscreen = c.fullscreen] ELSE f

\* syncServerState and loadState: whichever answer arrives replaces the state.
StateArrives(j) ==
  /\ LET a == reading[j]
     IN  /\ shown' = [state |-> a.state, config |-> a.config, at |-> a.at, basis |-> a.basis]
         /\ shift' = clockOffset(a) /\ counted' = FALSE
         /\ sform' = afterAnswer(sform, a.config)
         /\ order' = IF a.why = "sync" THEN <<>> ELSE order
  /\ reading' = RemoveAt(reading, j)
  /\ UNCHANGED <<time, serverVars, onTimer, left, gone, lastLeft, sound, audio, inView, sincePoll,
                 dialog, typedSet, timerBounds>>

StateLost(j) ==
  /\ lostOrders < MaxLostOrders /\ lostOrders' = lostOrders + 1
  /\ order' = IF reading[j].why = "sync" THEN <<>> ELSE order
  /\ reading' = RemoveAt(reading, j)
  /\ UNCHANGED <<time, serverVars, onTimer, clockVars, audio, inView, sincePoll, dialogSet,
                 acts>>

-----------------------------------------------------------------------------
(* Commands.                                                               *)

\* The timer page's buttons for a state.
dockButtons(st) ==
  CASE st = "NOT_STARTED" -> {"start", "reset"}
    [] st = "RUNNING"     -> {"pause", "extend", "freeze", "end", "reset"}
    [] st = "PAUSED"      -> {"resume", "extend", "freeze", "end", "reset"}
    [] st = "ENDED"       -> {"extend", "reset"}

\* The header's menu offers the freeze after the end, too.
headerButtons(st) == dockButtons(st) \cup IF st = "ENDED" THEN {"freeze"} ELSE {}

Buttons == IF onTimer THEN dockButtons(shown.state.status) ELSE headerButtons(shown.state.status)

Place(op) ==
  /\ order = <<>> /\ acts < MaxActs /\ acts' = acts + 1
  /\ order' = <<[op |-> op, st |-> "sent"]>>
  /\ UNCHANGED <<time, serverVars, onTimer, clockVars, audio, inView, sincePoll, reading, dialogSet,
                 lostOrders>>

\* executeAction and handleAction, from a button; the dialogs cover them while open.
executeAction(op) == dialog = "none" /\ op \in Buttons /\ Place(op)

\* The server carries the order out, or refuses it.
CarryOut ==
  /\ order # <<>> /\ order[1].st = "sent"
  /\ IF order[1].op = "settings"
     THEN config' = order[1].form /\ UNCHANGED event
     ELSE event' = (IF MayDo(order[1].op) THEN After(order[1].op) ELSE event) /\ UNCHANGED config
  /\ order' = <<[order[1] EXCEPT !.st = IF MayDo(order[1].op) THEN "ok" ELSE "bad"]>>
  /\ UNCHANGED <<time, onTimer, clockVars, audio, inView, sincePoll, reading, dialogSet, timerBounds>>

OrderLost ==
  /\ order # <<>> /\ order[1].st \in {"sent", "ok"}
  /\ lostOrders < MaxLostOrders /\ lostOrders' = lostOrders + 1
  /\ order' = <<[order[1] EXCEPT !.st = "bad"]>>
  /\ UNCHANGED <<time, serverVars, onTimer, clockVars, audio, inView, sincePoll, reading, dialogSet,
                 acts>>

\* After a success the state is read again, and until then the buttons stay disabled.
OrderAnswered ==
  /\ order # <<>> /\ order[1].st \in {"ok", "bad"}
  /\ IF order[1].st = "ok"
     THEN /\ reading' = Append(reading, Reading("sync"))
          /\ order' = <<[order[1] EXCEPT !.st = "syncing"]>>
          /\ dialog' = IF order[1].op = "settings" THEN "none" ELSE dialog
          /\ sound' = IF ~onTimer \/ ~audio THEN sound
                      ELSE CASE order[1].op \in {"start", "resume"} -> "start"
                             [] order[1].op = "end" -> "end" [] OTHER -> sound
     ELSE order' = <<>> /\ UNCHANGED <<reading, dialog, sound>>
  /\ typedSet' = IF dialog' = "none" THEN <<>> ELSE typedSet
  /\ UNCHANGED <<time, serverVars, onTimer, shown, shift, left, gone, lastLeft, counted, audio, inView, sincePoll,
                 sform, timerBounds>>

ToggleAudio ==
  /\ onTimer /\ acts < MaxActs /\ acts' = acts + 1 /\ audio' = ~audio
  /\ UNCHANGED <<time, serverVars, onTimer, clockVars, inView, sincePoll, reading, order, dialogSet,
                 lostOrders>>

-----------------------------------------------------------------------------
(* The settings.                                                           *)

\* What the dialog opens with: the state shown; the timer page's switches are those of the
\* last answer.
formOf == IF onTimer THEN [shown.config EXCEPT !.fullscreen = sform.fullscreen] ELSE shown.config

OpenSettings ==
  /\ dialog = "none" /\ order = <<>> /\ acts < MaxActs /\ acts' = acts + 1
  /\ dialog' = "settings" /\ sform' = formOf /\ typedSet' = <<>>
  /\ UNCHANGED <<time, serverVars, onTimer, clockVars, audio, inView, sincePoll, reading, order,
                 lostOrders>>

\* The header's dialog does not close during a save.
CancelSettings ==
  /\ dialog = "settings" /\ (onTimer \/ order = <<>>)
  /\ dialog' = "none" /\ typedSet' = <<>>
  /\ UNCHANGED <<time, serverVars, onTimer, clockVars, audio, inView, sincePoll, reading, order, sform, timerBounds>>

\* The header's dialog has no field for the freeze window.
update(field, value) ==
  /\ dialog = "settings" /\ acts < MaxActs /\ acts' = acts + 1
  /\ field = "freeze" => onTimer
  /\ sform' = [sform EXCEPT ![field] = value]
  /\ typedSet' = [k \in DOMAIN typedSet \cup {field} |-> IF k = field THEN value ELSE typedSet[k]]
  /\ UNCHANGED <<time, serverVars, onTimer, clockVars, audio, inView, sincePoll, reading, order, dialog,
                 lostOrders>>

\* Every field is sent; the header sends the freeze window that it is shown.
handleSaveSettings ==
  /\ dialog = "settings" /\ order = <<>> /\ acts < MaxActs /\ acts' = acts + 1
  /\ order' = <<[op |-> "settings", st |-> "sent",
                 form |-> IF onTimer THEN sform ELSE [sform EXCEPT !.freeze = shown.config.freeze]]>>
  /\ UNCHANGED <<time, serverVars, onTimer, clockVars, audio, inView, sincePoll, reading, dialogSet,
                 lostOrders>>

-----------------------------------------------------------------------------
Init ==
  /\ time = 0 /\ event = Reset([dur |-> Length]) /\ config = FirstConfig
  /\ onTimer \in BOOLEAN
  /\ shown = [state |-> StateNow, config |-> normalizeState(FirstConfig), at |-> 0, basis |-> event]
  /\ shift = 0 /\ left = Length /\ gone = 0 /\ lastLeft = Length /\ counted = TRUE
  /\ sound = "none" /\ audio = TRUE /\ inView = TRUE /\ sincePoll = 0 /\ reading = <<>>
  /\ order = <<>> /\ dialog = "none" /\ sform = normalizeState(FirstConfig) /\ typedSet = <<>>
  /\ acts = 0 /\ lostOrders = 0

Next ==
  \/ Second \/ VisibilityChange \/ OtherOrganizer
  \/ \E j \in DOMAIN reading : StateArrives(j) \/ StateLost(j)
  \/ \E op \in Ops : executeAction(op)
  \/ CarryOut \/ OrderLost \/ OrderAnswered \/ ToggleAudio
  \/ OpenSettings \/ CancelSettings \/ handleSaveSettings
  \/ \E t \in Titles : update("title", t)
  \/ \E w \in Windows : update("freeze", w)
  \/ \E b \in BOOLEAN : update("fullscreen", b)

Spec == Init /\ [][Next]_timerVars

-----------------------------------------------------------------------------
(* Properties.                                                             *)

\* Types.
TypeOK ==
  /\ shown.state.status \in {"NOT_STARTED", "RUNNING", "PAUSED", "ENDED"} /\ {left, gone, lastLeft} \subseteq Nat
  /\ {onTimer, audio, inView, counted} \subseteq BOOLEAN /\ sound \in {"none", "start", "warning", "end"}
  /\ \A j \in DOMAIN reading : reading[j].why \in {"poll", "sync"}
  /\ order = <<>> \/ order[1].st \in {"sent", "ok", "bad", "syncing"}
  /\ dialog \in {"none", "settings"} /\ DOMAIN typedSet \subseteq {"title", "freeze", "fullscreen"}

\* As long as the contest is the one the state shown was read from, the countdown is the
\* server's, but for the time the answer took: also past the end, which no answer needs to
\* bring, and with answers that arrive late or out of order (the tick with clockOffset).
ClockHonest ==
  (counted /\ shown.basis = event) => StateNow.left <= left /\ left <= StateNow.left + MaxLag

\* The timer page in view never shows a state older than its interval and the time of an
\* answer, unless a read is still on its way or one was lost (the 1-second auto-poll and the
\* visibility listener).
PageNeverOld ==
  (onTimer /\ inView /\ lostOrders = 0 /\ reading = <<>>) => time - shown.at <= Period.timer + MaxLag

\* What is typed in the settings stays until it is saved or cancelled, whatever the poll
\* brings meanwhile: every field of the header's dialog ("Seeded from live state only when it
\* opens"), and the title and the window of the timer page's.
TypedSettingsKept ==
  \A k \in DOMAIN typedSet : (onTimer /\ k = "fullscreen") \/ sform[k] = typedSet[k]
=============================================================================
