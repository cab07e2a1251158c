----------------------------- MODULE ManualControl -----------------------------
(***************************************************************************)
(* ManualControlService and the joystick panel that pumps it: a gamepad    *)
(* drives the vehicle by RC_CHANNELS_OVERRIDE ("rc") or MANUAL_CONTROL     *)
(* ("manual") between start() and stop().  A frame is "live" or "neutral"; *)
(* the shaping of the axes is abstracted away.                             *)
(***************************************************************************)
EXTENDS Naturals

CONSTANTS
    Vehicles,   \* targets
    Buttons,    \* buttons bound to an action
    Interval,   \* clock units between two frames, 1000 / rateHz
    MaxTime     \* bound: clock

Modes == {"rc", "manual"}
Never == MaxTime + 1    \* lastSendAt undefined

VARIABLES
    active, disposed, config,   \* fields of the service
    lastSend, prevPressed,
    pad,        \* external: the gamepad
    target, armed, now,         \* external: selected vehicle, its arming, the clock
    held,       \* external: vehicles held by a live frame, with the mode of it
    since, frames, settled      \* history of this activation: start, frames sent,
                                \* and whether mode and target are as they were

vars == <<active, disposed, config, lastSend, prevPressed, pad, target, armed, now, held,
          since, frames, settled>>
env == <<pad, target, armed, now>>

Init ==
    /\ active = FALSE /\ disposed = FALSE
    /\ config \in [mode : Modes, requireArmed : BOOLEAN, releaseOnStop : BOOLEAN]
    /\ lastSend = Never /\ prevPressed = {}
    /\ pad = [connected |-> FALSE, pressed |-> {}]
    /\ target \in Vehicles /\ armed = FALSE /\ now = 0
    /\ held = {} /\ since = 0 /\ frames = 0 /\ settled = TRUE

\* A frame reaches the vehicle, or the host rejects it, which nobody notices.
Sends(kind) ==
    \/ held' = (IF kind = "live" THEN held \cup {<<target, config.mode>>}
                ELSE held \ {<<target, config.mode>>})
       /\ settled' = settled
    \/ held' = held /\ settled' = FALSE

Start ==
    /\ ~disposed /\ ~active
    /\ active' = TRUE /\ lastSend' = Never /\ prevPressed' = {}
    /\ since' = now /\ frames' = 0 /\ settled' = (held = {})
    /\ UNCHANGED <<disposed, config, env, held>>

\* Mutant: only the sending ends.
StoppingWithoutRelease ==
    /\ active' = FALSE /\ lastSend' = Never /\ prevPressed' = {}
    /\ UNCHANGED <<config, env, since, frames, held, settled>>

\* stop(), with one neutral frame if so configured.
Stopping ==
    /\ active' = FALSE /\ lastSend' = Never /\ prevPressed' = {}
    /\ IF config.releaseOnStop THEN Sends("neutral") ELSE UNCHANGED <<held, settled>>
    /\ UNCHANGED <<config, env, since, frames>>

\* The toggle of the panel, or the window lost its focus.
Stop == active /\ Stopping /\ UNCHANGED disposed

Dispose ==
    /\ ~disposed /\ disposed' = TRUE
    /\ IF active THEN Stopping
       ELSE UNCHANGED <<active, config, lastSend, prevPressed, env, held, since, frames, settled>>

\* Mutant: the limit is forgotten.
Unlimited(t) == TRUE

MayPump(t) == lastSend = Never \/ t >= lastSend + Interval

\* tick(), once per animation frame: the failsafe, then the armed gate, then
\* the rate limit.
Tick ==
    /\ active
    /\ IF ~pad.connected THEN Stopping
       ELSE /\ prevPressed' = pad.pressed
            /\ IF (config.requireArmed /\ ~armed) \/ ~MayPump(now)
               THEN UNCHANGED <<lastSend, held, settled, frames>>
               ELSE lastSend' = now /\ Sends("live") /\ frames' = frames + 1
            /\ UNCHANGED <<active, config, env, since>>
    /\ UNCHANGED disposed

\* The panel changes the configuration, also while active.
SetConfig ==
    /\ config' \in [mode : Modes, requireArmed : BOOLEAN, releaseOnStop : BOOLEAN]
    /\ settled' = (settled /\ config'.mode = config.mode)
    /\ UNCHANGED <<active, disposed, lastSend, prevPressed, env, held, since, frames>>

\* External: the operator's hands, the vehicle and the clock.
Environment ==
    /\ \/ pad' \in [connected : BOOLEAN, pressed : SUBSET Buttons] /\ UNCHANGED <<target, armed, now, settled>>
       \/ armed' = ~armed /\ UNCHANGED <<pad, target, now, settled>>
       \/ target' \in Vehicles /\ settled' = (settled /\ target' = target) /\ UNCHANGED <<pad, armed, now>>
       \/ now < MaxTime /\ now' = now + 1 /\ UNCHANGED <<pad, target, armed, settled>>
    /\ UNCHANGED <<active, disposed, config, lastSend, prevPressed, held, since, frames>>

Next == Start \/ Stop \/ Dispose \/ Tick \/ SetConfig \/ Environment
Spec == Init /\ [][Next]_vars

TypeOK ==
    /\ active \in BOOLEAN /\ disposed \in BOOLEAN
    /\ lastSend \in 0 .. Never /\ prevPressed \subseteq Buttons
    /\ held \subseteq Vehicles \X Modes
    /\ ~active => lastSend = Never /\ prevPressed = {}
    /\ disposed => ~active

\* However fast it is pumped, an activation sends at most one frame per interval.
RateIsBounded == active => frames <= 1 + (now - since) \div Interval

\* After stop() with the release configured no vehicle is held by a frame of
\* this activation, unless the mode or the vehicle changed or a send failed.
StopReleases ==
    [][active /\ ~active' /\ config.releaseOnStop /\ settled' => held' = {}]_vars
=============================================================================
