------------------------------- MODULE Alerts -------------------------------
(***************************************************************************)
(* What the operator hears of a vehicle: the state derived from messages   *)
(* (src/vehicle/model.ts), the vehicle that is shown (session.ts, the      *)
(* connection manager, the provider), and the alerts for what changed in it (src/core/audio,       *)
(* audio-alerts.ts).  A behaviour follows one aspect of the state, as each *)
(* has alerts of its own; a value is as bad as its number, and a text from *)
(* the vehicle may speak of a value as well.                               *)
(***************************************************************************)
EXTENDS Integers, FiniteSets, FiniteSetsExt

CONSTANTS
    Sources,      \* <<system, component>> that send
    Limit,        \* ticks in which an alert is not repeated
    MaxMessages, MaxTime,
    MaxEvents     \* (bounds) reconnections, selections and switches

VARIABLES
    aspect,       \* "arm", "battery", "gps" or "ekf"
    model,        \* VehicleModel: the value of each source, or Unseen
    active,       \* session: the system heard last, or Unseen
    fresh,        \* the snapshot has changed since it was published
    rows, lately, \* the connection manager: the last snapshot, and the system active in it
    selected,     \* the system the operator chose, or Unseen
    previous,     \* the service: the value processed last, by source
    lastFired,    \* the service: when each alert was given, or Never
    now, on, muted,
    messages, events,
    told,         \* history: the value the operator knows of each source
    hushed        \* history: sources of which an alert was held back

vars == <<aspect, model, active, fresh, rows, lately, selected, previous, lastFired,
          now, on, muted, messages, events, told, hushed>>

Aspects == {"arm", "battery", "gps", "ekf"}
Unseen == -1       \* nothing was heard of this source
Unknown == 0       \* it was heard, but not of this aspect
Never == -1
\* What the messages of the aspect carry.  Armed is 2, disarmed 1; a battery is fine
\* (1), low (2) or critical (3); a GPS has a fix (1) or none (2); an EKF is healthy (1)
\* or not (2).
Carried == IF aspect = "battery" THEN 1..3 ELSE 1..2
Worst == IF aspect = "battery" THEN 3 ELSE 2

Init ==
    /\ aspect \in Aspects
    /\ model = [s \in Sources |-> Unseen] /\ active = Unseen /\ fresh = FALSE
    /\ rows = [s \in Sources |-> Unseen] /\ lately = Unseen /\ selected = Unseen
    /\ previous = [s \in Sources |-> Unseen]
    /\ lastFired = [s \in Sources |-> [v \in 1..3 |-> Never]]
    /\ now = 0 /\ on = TRUE /\ muted = FALSE /\ messages = 0 /\ events = 0
    /\ told = [s \in Sources |-> Unknown] /\ hushed = {}

Heard == /\ messages < MaxMessages /\ messages' = messages + 1 /\ fresh' = TRUE
Audio == <<previous, lastFired, told, hushed>>
Shown == <<rows, lately, selected>>
Switches == <<now, on, muted, events>>

-----------------------------------------------------------------------------
\* A record is made for the first message of a source; an armed state that was not
\* heard is "disarmed".
Made == IF aspect = "arm" THEN 1 ELSE Unknown

\* A heartbeat; it makes its system the active one, and tells whether it is armed.
Heartbeat(s) ==
    /\ Heard /\ active' = s[1]
    /\ \E v \in (IF aspect = "arm" THEN Carried ELSE {IF model[s] = Unseen THEN Made ELSE model[s]}) :
         model' = [model EXCEPT ![s] = v]
    /\ UNCHANGED <<aspect, Shown, Audio, Switches>>

\* SYS_STATUS, BATTERY_STATUS, GPS_RAW_INT, EKF_STATUS_REPORT, or a message of another
\* aspect: what is not known in it leaves what was known.
Report(s) ==
    /\ Heard
    /\ \E v \in (IF aspect = "arm" THEN {} ELSE Carried) \cup {IF model[s] = Unseen THEN Made ELSE model[s]} :
         model' = [model EXCEPT ![s] = v]
    /\ UNCHANGED <<aspect, active, Shown, Audio, Switches>>

\* A new connection: the rows of the last one are gone, and session.reset() forgets what
\* was heard; the service does not.
Reset ==
    /\ events < MaxEvents /\ events' = events + 1 /\ fresh' = TRUE
    /\ model' = [s \in Sources |-> Unseen] /\ active' = Unseen
    /\ rows' = [s \in Sources |-> Unseen] /\ lately' = Unseen /\ selected' = Unseen
    /\ UNCHANGED <<aspect, Audio, now, on, muted, messages>>

-----------------------------------------------------------------------------
\* The system heard last, or the first of all while there was no heartbeat, unless the
\* operator chose one that is there; of its components the store keeps the last.
Seen(values) == {s \in Sources : values[s] # Unseen}
ActiveSys == IF active # Unseen \/ Seen(model) = {} THEN active ELSE Min({s[1] : s \in Seen(model)})
Resolved(values, latest, choice) ==
    IF choice \in {s[1] : s \in Seen(values)} THEN choice ELSE latest
Current(values, sys) ==
    CHOOSE s \in Seen(values) : s[1] = sys /\ \A r \in Seen(values) : r[1] = sys => r[2] <= s[2]

\* detectAlerts: the value an alert is given for, or Unknown.  The critical alert
\* takes the place of the low one.
Crossed(prev, next, value) == next >= value /\ (prev < value)
Alert(prev, next) ==
    CASE aspect = "arm" -> IF prev # Unseen /\ prev # next THEN next ELSE Unknown
      [] aspect = "battery" ->
           IF Crossed(prev, next, 3) THEN 3 ELSE IF Crossed(prev, next, 2) THEN 2 ELSE Unknown
      [] aspect = "gps" -> IF prev = 1 /\ next # 1 THEN 2 ELSE Unknown
      [] OTHER -> IF prev = 1 /\ next = 2 THEN 2 ELSE Unknown
\* The category of arm alerts has the two keys "armed" and "disarmed".
Limited(s, value) == lastFired[s][value] # Never /\ now - lastFired[s][value] < Limit

\* What the operator knows once value is shown: what is shown first of a vehicle is not
\* spoken of, except a battery, and what got better needs no alert.
Known(s, value) ==
    IF \/ aspect # "battery" /\ previous[s] <= Unknown
       \/ aspect # "arm" /\ value \in 1..(told[s] - 1)
    THEN value ELSE told[s]
Said(s, value) == value # Unknown /\ ~muted /\ ~Limited(s, value)
Told(value, known) == IF aspect # "arm" /\ known > value THEN known ELSE value
Fire(s, value, known) ==
    IF Said(s, value)
    THEN /\ lastFired' = [lastFired EXCEPT ![s][value] = now]
         /\ told' = [told EXCEPT ![s] = Told(value, known)]
    ELSE UNCHANGED lastFired /\ told' = [told EXCEPT ![s] = known]

\* processVehicleState.
\* A plausible mistake: one snapshot is kept for all vehicles.
KeyOfAny(s) == Sources
Key(s) == {s}
Process(s, value) ==
    /\ previous' = [r \in Sources |-> IF r \in Key(s) THEN value ELSE previous[r]]
    /\ LET alert == Alert(previous[s], value)
       IN  /\ Fire(s, alert, Known(s, value))
           /\ hushed' = IF alert = Unknown THEN hushed
                        ELSE IF Said(s, alert) THEN hushed \ {s} ELSE hushed \cup {s}

\* What the effect on the active vehicle looks at, while the alerts are on.
Watch(values, sys) ==
    IF on /\ sys # Unseen THEN Process(Current(values, sys), values[Current(values, sys)])
    ELSE UNCHANGED Audio
\* A snapshot is taken from time to time, when it has changed.
Publish ==
    /\ fresh /\ fresh' = FALSE /\ rows' = model /\ lately' = ActiveSys
    /\ Watch(model, Resolved(model, ActiveSys, selected))
    /\ UNCHANGED <<aspect, model, active, selected, Switches, messages>>
\* setActiveVehicle: another of the vehicles is shown, as it was in the last snapshot.
Select(sys) ==
    /\ events < MaxEvents /\ events' = events + 1
    /\ sys \in {s[1] : s \in Seen(rows)} /\ sys # Resolved(rows, lately, selected) /\ selected' = sys
    /\ Watch(rows, sys)
    /\ UNCHANGED <<aspect, model, active, fresh, rows, lately, now, on, muted, messages>>

\* STATUSTEXT: the vehicle speaks of a value itself.
Text(s) ==
    /\ messages < MaxMessages /\ messages' = messages + 1 /\ fresh' = TRUE
    /\ on /\ aspect # "arm" /\ \E value \in 2..Worst : Fire(s, value, told[s])
    /\ UNCHANGED <<aspect, model, active, Shown, previous, hushed, Switches>>

-----------------------------------------------------------------------------
Tick == /\ now < MaxTime /\ now' = now + 1
        /\ UNCHANGED <<aspect, model, active, fresh, Shown, Audio, on, muted, messages, events>>
\* settings.audioAlerts, and the mutes of the service.
Switch ==
    /\ events < MaxEvents /\ events' = events + 1
    /\ \/ on' = ~on /\ UNCHANGED muted
       \/ muted' = ~muted /\ UNCHANGED on
    /\ UNCHANGED <<aspect, model, active, fresh, Shown, Audio, now, messages>>

Next ==
    \/ \E s \in Sources : Heartbeat(s) \/ Report(s) \/ Text(s)
    \/ \E s \in Sources : Select(s[1])
    \/ Publish \/ Reset \/ Tick \/ Switch

Spec == Init /\ [][Next]_vars

-----------------------------------------------------------------------------
Value == Unseen..3
TypeOK ==
    /\ aspect \in Aspects /\ model \in [Sources -> Value] /\ active \in {Unseen} \cup {s[1] : s \in Sources}
    /\ fresh \in BOOLEAN /\ on \in BOOLEAN /\ muted \in BOOLEAN
    /\ rows \in [Sources -> Value] /\ {lately, selected} \subseteq {Unseen} \cup {s[1] : s \in Sources}
    /\ previous \in [Sources -> Value] /\ lastFired \in [Sources -> [1..3 -> Never..MaxTime]]
    /\ now \in 0..MaxTime /\ messages \in 0..MaxMessages /\ events \in 0..MaxEvents
    /\ told \in [Sources -> Value] /\ hushed \subseteq Sources

\* Nothing bad goes unsaid: of each vehicle the operator was told everything that was
\* found in its state since it was first heard, also when the vehicles take turns and the
\* alerts were off for a while; unless an alert was muted or came too soon after the same
\* one (service.ts:217, detect.ts:92), which then stays unsaid.
NothingUnsaid ==
    \A s \in Sources \ hushed :
      IF aspect = "arm" THEN previous[s] # Unseen => told[s] = previous[s]
      ELSE previous[s] >= 2 => told[s] >= previous[s]
=============================================================================
