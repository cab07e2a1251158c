--------------------------- MODULE ForwardControl ---------------------------
(***************************************************************************)
(* src/src/ui/shell/connection/forward-control.tsx: the controller that    *)
(* forwards the active link to one more transport, and the part of the     *)
(* connection drawer that drives it.                                       *)
(***************************************************************************)
EXTENDS Naturals, FiniteSets

CONSTANTS
    MaxStarts,   \* calls of start() (bound)
    MaxMounts,   \* times the drawer is opened (bound)
    Interrupts   \* whether the drawer is closed, or the controller disposed of, during a start()

Starts == 1..MaxStarts

VARIABLES
    phase,       \* per start(): "none", "teardown", "opening", "done", "failed"
    mount,       \* per start(): the mount of the drawer that called it
    current,     \* forwarder, source and target of the controller: their start(), 0 for undefined
    running,     \* the forwarders that run: their source listens to the host
    open,        \* the targets that are open
    closing,     \* teardown()s that await the close() of their target, with whom they tell
    mounts,      \* the drawer that is mounted, or was last
    mounted, busy, forwarding,   \* its signals
    disposed

vars == <<phase, mount, current, running, open, closing, mounts, mounted, busy, forwarding, disposed>>

TypeOK ==
    /\ phase \in [Starts -> {"none", "teardown", "opening", "done", "failed"}]
    /\ mount \in [Starts -> 0..MaxMounts] /\ current \in 0..MaxStarts
    /\ running \subseteq Starts /\ open \subseteq Starts
    /\ closing \subseteq [link : 0..MaxStarts, tells : 0..MaxMounts]
    /\ mounts \in 0..MaxMounts /\ mounted \in BOOLEAN /\ busy \in BOOLEAN
    /\ forwarding \in BOOLEAN /\ disposed \in BOOLEAN

Init ==
    /\ phase = [s \in Starts |-> "none"] /\ mount = [s \in Starts |-> 0] /\ current = 0
    /\ running = {} /\ open = {} /\ closing = {} /\ mounts = 0
    /\ mounted = FALSE /\ busy = FALSE /\ forwarding = FALSE /\ disposed = FALSE

Starting == \E s \in Starts : phase[s] \in {"teardown", "opening"}

-----------------------------------------------------------------------------
\* The drawer opens with the signals of a new component, and closes.
Mount ==
    /\ ~mounted /\ mounts < MaxMounts /\ mounted' = TRUE /\ mounts' = mounts + 1
    /\ busy' = FALSE /\ forwarding' = (current # 0)
    /\ UNCHANGED <<phase, mount, current, running, open, closing, disposed>>
Unmount ==
    /\ mounted /\ mounted' = FALSE /\ (Interrupts \/ ~busy)
    /\ UNCHANGED <<phase, mount, current, running, open, closing, mounts, busy, forwarding, disposed>>

\* Mutant: the forwarder goes on.
TeardownForgetting == running
\* teardown(): the forwarder stops at once, its target is closed.
Teardown == running \ {current}
TearDown(tells) ==
    /\ running' = Teardown /\ current' = 0
    /\ closing' = closing \cup {[link |-> current, tells |-> tells]}

\* handleStart and start() up to its first await.
StartClick(s) ==
    /\ mounted /\ ~busy /\ ~forwarding /\ phase[s] = "none" /\ \A r \in Starts : r < s => phase[r] # "none"
    /\ busy' = TRUE /\ mount' = [mount EXCEPT ![s] = mounts]
    /\ IF current = 0
       THEN phase' = [phase EXCEPT ![s] = "opening"] /\ UNCHANGED <<current, running, closing>>
       ELSE phase' = [phase EXCEPT ![s] = "teardown"] /\ TearDown(0)
    /\ UNCHANGED <<open, mounts, mounted, forwarding, disposed>>

\* Signals of a component that is gone are nobody's.
Tell(m, shown) ==
    IF m = mounts THEN busy' = FALSE /\ forwarding' = shown ELSE UNCHANGED <<busy, forwarding>>

\* The target opens, and is forwarded to.
Opened(s) ==
    /\ phase[s] = "opening" /\ phase' = [phase EXCEPT ![s] = "done"]
    /\ open' = open \cup {s} /\ running' = running \cup {s} /\ current' = s
    /\ Tell(mount[s], TRUE) /\ UNCHANGED <<mount, closing, mounts, mounted, disposed>>
OpenFails(s) ==
    /\ phase[s] = "opening" /\ phase' = [phase EXCEPT ![s] = "failed"]
    /\ Tell(mount[s], forwarding)
    /\ UNCHANGED <<mount, current, running, open, closing, mounts, mounted, disposed>>

StopClick ==
    /\ mounted /\ ~busy /\ forwarding /\ busy' = TRUE /\ TearDown(mounts)
    /\ UNCHANGED <<phase, mount, open, mounts, mounted, forwarding, disposed>>

\* The target has closed: a stop() is over, or a start() goes on.
Closed(c) ==
    /\ c \in closing /\ closing' = closing \ {c} /\ open' = open \ {c.link}
    /\ IF c.tells = 0 THEN UNCHANGED <<busy, forwarding>> ELSE Tell(c.tells, FALSE)
    /\ phase' = [s \in Starts |-> IF phase[s] = "teardown" /\ c.tells = 0 THEN "opening" ELSE phase[s]]
    /\ UNCHANGED <<mount, current, running, mounts, mounted, disposed>>

Dispose ==
    /\ ~disposed /\ disposed' = TRUE /\ (Interrupts \/ ~Starting) /\ mounted' = FALSE
    /\ TearDown(mounts) /\ UNCHANGED <<phase, mount, open, mounts, busy, forwarding>>

Next ==
    \/ ~disposed /\ (Mount \/ Unmount \/ StopClick \/ \E s \in Starts : StartClick(s))
    \/ Dispose \/ \E s \in Starts : Opened(s) \/ OpenFails(s)
    \/ \E c \in closing : Closed(c)
Spec == Init /\ [][Next]_vars

-----------------------------------------------------------------------------
\* "One active forward at a time": what runs, and what is open for it, is what
\* the controller can stop.
OneAtATime ==
    /\ running \subseteq {current}
    /\ open \subseteq {current} \cup {c.link : c \in closing}
=============================================================================
