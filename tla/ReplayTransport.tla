--------------------------- MODULE ReplayTransport ---------------------------
(***************************************************************************)
(* src/src/transport/replay/replay-transport.ts: a recorded log played     *)
(* through one timer that every control clears and sets.                   *)
(***************************************************************************)
EXTENDS Naturals, Sequences

CONSTANTS
    Tlogs,      \* the logs that can be opened: sequences of frame times
    MaxSeeks    \* calls of seek() (bound)

VARIABLES
    frames,    \* the times of the frames of the log
    index,     \* frames before the next one
    paused, closed,
    timers,    \* callbacks that will fire; #timer is the newest of them
    last,      \* lastEmittedTimeUs, 0 for undefined
    due,       \* the delay the newest timer was set with
    ended,     \* controllerClosed
    heard,     \* places of the frames the reader got since open() or the last seek()
    seeks

vars == <<frames, index, paused, closed, timers, last, due, ended, heard, seeks>>

TypeOK ==
    /\ frames \in Tlogs \cup {<<>>} /\ index \in 0..Len(frames)
    /\ paused \in BOOLEAN /\ closed \in BOOLEAN /\ ended \in BOOLEAN
    /\ timers \in 0..1 /\ last \in Nat /\ due \in Nat
    /\ heard \in Seq(1..Len(frames)) /\ seeks \in 0..MaxSeeks

Init ==
    /\ frames = <<>> /\ index = 0 /\ paused = FALSE /\ closed = TRUE /\ timers = 0
    /\ last = 0 /\ due = 0 /\ ended = FALSE /\ heard = <<>> /\ seeks = 0

Cleared == IF timers > 0 THEN timers - 1 ELSE 0

-----------------------------------------------------------------------------
EndOfStream(armed) ==
    /\ closed' = TRUE /\ ended' = TRUE /\ timers' = IF armed > 0 THEN armed - 1 ELSE 0
    /\ UNCHANGED due

\* scheduleNext from frame i + 1, the last emitted at time t, with `armed` timers left.
Gap(t, i) == IF t = 0 \/ frames'[i + 1] < t THEN 0 ELSE frames'[i + 1] - t
ScheduleNext(i, t, armed) ==
    IF paused' THEN timers' = armed /\ UNCHANGED <<due, closed, ended>>
    ELSE IF i >= Len(frames') THEN EndOfStream(armed)
    ELSE timers' = armed + 1 /\ due' = Gap(t, i) /\ UNCHANGED ended /\ closed' = FALSE

Open(log) ==
    /\ ~ended /\ closed
    /\ frames' = log /\ index' = 0 /\ last' = 0 /\ paused' = FALSE /\ heard' = <<>>
    /\ ScheduleNext(0, 0, timers) /\ UNCHANGED seeks

\* close(), also when the reader cancels.
Close ==
    /\ ~closed /\ EndOfStream(timers)
    /\ UNCHANGED <<frames, index, paused, last, heard, seeks>>

\* setSpeed: the timer is set again for the whole gap.
SetSpeed ==
    /\ ~closed /\ ~paused /\ timers > 0
    /\ UNCHANGED <<frames, index, paused, last, heard, seeks>>
    /\ ScheduleNext(index, last, Cleared)

Pause ==
    /\ ~paused /\ ~closed /\ paused' = TRUE /\ timers' = Cleared
    /\ UNCHANGED <<frames, index, closed, last, due, ended, heard, seeks>>

Resume ==
    /\ paused /\ ~closed /\ paused' = FALSE
    /\ UNCHANGED <<frames, index, last, heard, seeks>>
    /\ ScheduleNext(index, last, timers)

\* The first frame at or after the target time.
SeekIndex(time) ==
    IF \A i \in 1..Len(frames) : frames[i] < time THEN Len(frames)
    ELSE (CHOOSE i \in 1..Len(frames) :
             frames[i] >= time /\ \A j \in 1..(i - 1) : frames[j] < time) - 1
Seek(time) ==
    /\ ~closed /\ seeks < MaxSeeks /\ seeks' = seeks + 1
    /\ index' = SeekIndex(time) /\ last' = 0 /\ heard' = <<>>
    /\ UNCHANGED <<frames, paused>>
    /\ ScheduleNext(SeekIndex(time), 0, Cleared)

Enqueue == heard' = Append(heard, index + 1)
Emit == Enqueue /\ last' = frames[index + 1] /\ index' = index + 1

\* Mutant: the timer of the step is kept.
StepKeepingTimer == timers
\* One frame, and pause; after the last one the stream ends.
StepTimer == Cleared
Step ==
    /\ ~closed /\ paused' = TRUE /\ UNCHANGED <<frames, seeks>>
    /\ \/ index >= Len(frames) /\ EndOfStream(StepTimer) /\ UNCHANGED <<index, last, heard>>
       \/ /\ index < Len(frames) /\ Emit
          /\ IF index + 1 >= Len(frames) THEN EndOfStream(StepTimer)
             ELSE timers' = StepTimer /\ UNCHANGED <<closed, ended, due>>

\* The timer.
Fire ==
    /\ timers > 0 /\ UNCHANGED <<frames, paused, seeks>>
    /\ \/ /\ closed /\ timers' = timers - 1
          /\ UNCHANGED <<index, last, heard, closed, ended, due>>
       \/ ~closed /\ index < Len(frames) /\ Emit
          /\ ScheduleNext(index + 1, frames[index + 1], timers - 1)

Next ==
    \/ \E log \in Tlogs : Open(log)
    \/ Close \/ SetSpeed \/ Pause \/ Resume \/ Step \/ Fire
    \/ \E time \in {frames[i] : i \in 1..Len(frames)} : Seek(time)
Fairness == WF_vars(Fire)
Spec == Init /\ [][Next]_vars /\ Fairness

-----------------------------------------------------------------------------
\* Playing, there is exactly one timer, with the gap that the log recorded after
\* the frame heard last; paused or closed, there is none. Without it a replay
\* stalls, or plays the log twice as fast.
OneTimer ==
    /\ timers = IF closed \/ paused THEN 0 ELSE 1
    /\ timers = 1 => due = IF heard = <<>> \/ frames[index + 1] < frames[index] THEN 0
                           ELSE frames[index + 1] - frames[index]

\* The reader hears every frame from where it started, in the order of the log,
\* and the stream ends with the last one.
HeardInOrder ==
    /\ \A i \in 1..Len(heard) : heard[i] = index - Len(heard) + i
    /\ ended /\ index = Len(frames) => closed

\* A replay that nobody pauses ends.
PlaysOut == ~closed ~> (closed \/ paused)

\* The frames heard end where the log stands, and the time of the frame emitted last is
\* kept for the gap.
Follows ==
    /\ frames \in Tlogs \cup {<<>>} /\ frames \in Seq(Nat \ {0})
    /\ index \in 0 .. Len(frames) /\ last \in Nat
    /\ heard \in Seq(1 .. Len(frames)) /\ seeks \in 0 .. MaxSeeks
    /\ Len(heard) <= index /\ \A i \in 1 .. Len(heard) : heard[i] = index - Len(heard) + i
    /\ last = IF heard = <<>> THEN 0 ELSE frames[index]

\* The timer is there exactly while the log plays, with the gap to the next frame.
Timed ==
    /\ paused \in BOOLEAN /\ closed \in BOOLEAN /\ ended \in BOOLEAN
    /\ timers \in 0 .. 1 /\ due \in Nat
    /\ timers = IF closed \/ paused THEN 0 ELSE 1
    /\ timers = 1 =>
         /\ index < Len(frames)
         /\ due = IF last = 0 \/ frames[index + 1] < last THEN 0 ELSE frames[index + 1] - last
    /\ ended => closed

\* An inductive invariant.
Inv == Follows /\ Timed
=============================================================================
