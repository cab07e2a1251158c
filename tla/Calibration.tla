------------------------------- MODULE Calibration -------------------------------
(***************************************************************************)
(* CalibrationClient: the six positions of the accelerometers, the onboard *)
(* compass calibration, the capture of radio channels, and the commands    *)
(* for level and gyro.  Messages of the vehicle, the timer, an abort and   *)
(* the answers to commands meet in one promise.  The link is first in      *)
(* first out; a command that gets no answer fails in the end, though the   *)
(* vehicle may have carried it out.                                        *)
(***************************************************************************)
EXTENDS Naturals, Sequences

CONSTANTS
    Ops,        \* calls
    Vehicles,
    Faces,      \* number of positions, 6 in the code
    MaxChanges  \* bound: changes of the active vehicle, and reports sent again

None == 0       \* no vehicle: getTarget() answers undefined

VARIABLES
    call,       \* calls: kind, stage, vehicle, position
    taps,       \* calls with a message tap
    timers,     \* calls with a timer
    active, disposed,
    link,       \* external: commands on their way
    vehicle,    \* external: what each vehicle is doing and the positions it took
    reports,    \* external: reports and texts on their way, those of each vehicle in order
    changes     \* bounded count

vars == <<call, taps, timers, active, disposed, link, vehicle, reports, changes>>

Kinds == {"accel", "compass", "radio", "single"}
Ended == {"done", "failed", "aborted", "timeout"}
Idle == [mag |-> "idle", accel |-> "idle", faces |-> <<>>]

Init ==
    /\ call = [o \in Ops |-> [kind |-> "none", stage |-> "new", on |-> None, face |-> 0]]
    /\ taps = {} /\ timers = {}
    /\ active \in Vehicles /\ disposed = FALSE
    /\ link = <<>> /\ vehicle = [v \in Vehicles |-> Idle] /\ reports = <<>> /\ changes = 0

Running(o) == call[o].stage \in {"command", "step", "report"}

\* CommandClient.send(): to the vehicle that is active at that moment.  The
\* answer, if the call waits for one, comes with the command's fate.
Sends(o, cmd, n) ==
    link' = IF active = None THEN link
            ELSE Append(link, [cmd |-> cmd, n |-> n, to |-> active, op |-> o])

\* Mutant: the timer goes on.
EndsKeepingTimer(o, how) ==
    /\ call' = [call EXCEPT ![o].stage = how]
    /\ taps' = taps \ {o} /\ UNCHANGED timers

\* The call ends: its tap and timer go with it.
Ends(o, how) ==
    /\ call' = [call EXCEPT ![o].stage = how]
    /\ taps' = taps \ {o} /\ timers' = timers \ {o}

\* The call sends a command; without an active vehicle send() rejects at once.
Commands(o, c, cmd) ==
    /\ Sends(o, cmd, c.face)
    /\ call' = [call EXCEPT ![o] = [c EXCEPT !.stage = IF active = None THEN "failed" ELSE @]]
    /\ taps' = IF active = None \/ c.kind = "single" THEN taps \ {o} ELSE taps \cup {o}
    /\ timers' = IF c.kind = "compass" /\ active # None THEN timers \cup {o} ELSE timers \ {o}

Opening(k, v) == [kind |-> k, stage |-> IF k \in {"compass", "radio"} THEN "report" ELSE "command",
                  on |-> v, face |-> 0]
FirstCommand(k) == CASE k = "accel" -> "accel" [] k = "compass" -> "startMag" [] k = "single" -> "level"

\* A call; after dispose() or without a target it throws.
Call(o, k) ==
    /\ call[o].stage = "new"
    /\ IF disposed \/ active = None
       THEN /\ call' = [call EXCEPT ![o].kind = k, ![o].stage = "failed"]
            /\ UNCHANGED <<taps, timers, link>>
       ELSE IF k = "radio"
       THEN /\ call' = [call EXCEPT ![o] = Opening(k, active)]
            /\ taps' = taps \cup {o} /\ UNCHANGED <<timers, link>>
       ELSE Commands(o, Opening(k, active), FirstCommand(k))
    /\ UNCHANGED <<active, disposed, vehicle, reports, changes>>

\* The user confirms a position: its command is sent.
StepDone(o) ==
    /\ call[o].stage = "step"
    /\ Commands(o, [call[o] EXCEPT !.stage = "command"], "position")
    /\ UNCHANGED <<active, disposed, vehicle, reports, changes>>

\* Mutant: the positions are counted from zero, and the last is not asked for.
AnsweredEarly(o, ok) ==
    LET c == call[o] IN
    IF ~Running(o) THEN UNCHANGED <<call, taps, timers>>
    ELSE IF ~ok THEN Ends(o, "failed")
    ELSE IF c.kind = "compass" THEN UNCHANGED <<call, taps, timers>>
    ELSE IF c.kind = "single" \/ c.face + 1 = Faces THEN Ends(o, "done")
    ELSE call' = [call EXCEPT ![o].stage = "step", ![o].face = @ + 1] /\ UNCHANGED <<taps, timers>>

\* A command that call o waits for was accepted, or failed.
Answered(o, ok) ==
    LET c == call[o] IN
    IF ~Running(o) THEN UNCHANGED <<call, taps, timers>>
    ELSE IF ~ok THEN Ends(o, "failed")
    ELSE IF c.kind = "compass" THEN UNCHANGED <<call, taps, timers>>
    ELSE IF c.kind = "single" \/ c.face = Faces THEN Ends(o, "done")
    ELSE call' = [call EXCEPT ![o].stage = "step", ![o].face = @ + 1] /\ UNCHANGED <<taps, timers>>

\* Mutant: an abort only rejects.
NoCancel(o) == UNCHANGED link

\* cancelMag(): best effort, nobody waits for the answer.
CancelMag(o) == Sends(o, "cancelMag", 0)
\* The signal of a call is aborted; that of a single command is the command's.
Abort(o) ==
    /\ Running(o)
    /\ IF call[o].kind = "compass" THEN CancelMag(o) ELSE UNCHANGED link
    /\ Ends(o, IF call[o].kind = "radio" THEN "done" ELSE "aborted")
    /\ UNCHANGED <<active, disposed, vehicle, reports, changes>>

\* The timer of a compass calibration.
Timer(o) ==
    /\ o \in timers
    /\ CancelMag(o) /\ Ends(o, "timeout")
    /\ UNCHANGED <<active, disposed, vehicle, reports, changes>>

\* A STATUSTEXT or a MAG_CAL_PROGRESS or REPORT reaches every tap of its vehicle.
Concerns(o, m) == o \in taps /\ call[o].on = m.from /\ call[o].kind = m.about
OnMessage ==
    /\ reports # <<>> /\ reports' = Tail(reports)
    /\ LET m == Head(reports)
           told == {o \in Ops : Concerns(o, m)}
       IN  /\ call' = [o \in Ops |-> IF o \in told THEN [call[o] EXCEPT !.stage = m.says] ELSE call[o]]
           /\ taps' = taps \ told /\ timers' = timers \ told
    /\ UNCHANGED <<active, disposed, link, vehicle, changes>>

\* dispose() rejects the radio captures; the other calls go on.
Dispose ==
    /\ ~disposed /\ disposed' = TRUE
    /\ LET radio == {o \in Ops : Running(o) /\ call[o].kind = "radio"} IN
       /\ call' = [o \in Ops |-> IF o \in radio THEN [call[o] EXCEPT !.stage = "failed"] ELSE call[o]]
       /\ taps' = taps \ radio
    /\ UNCHANGED <<timers, active, link, vehicle, reports, changes>>

-----------------------------------------------------------------------------
(* External: the vehicles, the link with the command client, the operator. *)

Does(s, m) ==
    CASE m.cmd = "accel" -> [s EXCEPT !.accel = "running", !.faces = <<>>]
      [] m.cmd = "position" -> IF s.accel = "running" THEN [s EXCEPT !.faces = Append(@, m.n)] ELSE s
      [] m.cmd = "startMag" -> [s EXCEPT !.mag = "running"]
      [] m.cmd = "cancelMag" -> [s EXCEPT !.mag = "idle"]
      [] OTHER -> s

Waits(m) == m.cmd # "cancelMag"

\* The vehicle carries the command out, and its answer arrives or is lost.
Deliver ==
    /\ link # <<>> /\ link' = Tail(link)
    /\ LET m == Head(link) IN
       /\ vehicle' = [vehicle EXCEPT ![m.to] = Does(@, m)]
       /\ IF Waits(m) THEN \E ok \in BOOLEAN : Answered(m.op, ok) ELSE UNCHANGED <<call, taps, timers>>
    /\ UNCHANGED <<active, disposed, reports, changes>>

Lose ==
    /\ link # <<>> /\ link' = Tail(link)
    /\ IF Waits(Head(link)) THEN Answered(Head(link).op, FALSE) ELSE UNCHANGED <<call, taps, timers>>
    /\ changes < MaxChanges /\ changes' = changes + 1
    /\ UNCHANGED <<active, disposed, vehicle, reports>>

\* A calibration on the vehicle ends and is reported.
Reports(v) ==
    /\ \/ \E says \in {"done", "failed"} :
             /\ vehicle[v].mag = "running"
             /\ vehicle' = [vehicle EXCEPT ![v].mag = "idle"]
             /\ reports' = Append(reports, [from |-> v, about |-> "compass", says |-> says])
       \/ /\ vehicle[v].accel = "running"
          /\ vehicle' = [vehicle EXCEPT ![v].accel = "idle"]
          /\ reports' = Append(reports, [from |-> v, about |-> "accel", says |-> "failed"])
    /\ UNCHANGED <<call, taps, timers, active, disposed, link, changes>>

Select ==
    /\ changes < MaxChanges /\ changes' = changes + 1
    /\ active' \in (Vehicles \cup {None}) \ {active}
    /\ UNCHANGED <<call, taps, timers, disposed, link, vehicle, reports>>

Next ==
    \/ \E o \in Ops : StepDone(o) \/ Abort(o) \/ Timer(o) \/ \E k \in Kinds : Call(o, k)
    \/ OnMessage \/ Dispose \/ Deliver \/ Lose \/ Select
    \/ \E v \in Vehicles : Reports(v)

Spec == Init /\ [][Next]_vars

-----------------------------------------------------------------------------
TypeOK ==
    /\ call \in [Ops -> [kind : Kinds \cup {"none"}, stage : {"new", "command", "step", "report"} \cup Ended,
                         on : Vehicles \cup {None}, face : 0 .. Faces]]
    /\ active \in Vehicles \cup {None} /\ changes \in 0 .. MaxChanges

\* The taps and timers are those of the running calls: none outlives its promise.
NothingLeaks ==
    /\ taps = {o \in Ops : Running(o) /\ call[o].kind # "single"}
    /\ timers = {o \in Ops : Running(o) /\ call[o].kind = "compass"}

\* The call disturbed neither by another nor by a change of vehicle or a loss.
Alone(o) == changes = 0 /\ \A p \in Ops \ {o} : call[p].kind # call[o].kind

\* An accelerometer calibration that resolves gave the vehicle every position
\* once and in order, unless the vehicle gave up meanwhile.
PositionsInOrder ==
    \A o \in Ops : Alone(o) /\ call[o].kind = "accel" /\ call[o].stage = "done"
                   /\ vehicle[call[o].on].accel = "running" =>
        vehicle[call[o].on].faces = [i \in 1 .. Faces |-> i]

\* Once its commands have arrived, an aborted or timed-out compass calibration
\* does not run on on the vehicle.
StoppedOnTheVehicle ==
    \A o \in Ops : Alone(o) /\ call[o].kind = "compass" /\ call[o].stage \in {"aborted", "timeout"}
                   /\ link = <<>> =>
        vehicle[call[o].on].mag = "idle"
=============================================================================
