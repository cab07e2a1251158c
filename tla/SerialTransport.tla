--------------------------- MODULE SerialTransport ---------------------------
(***************************************************************************)
(* src/src/transport/serial/serial-transport.ts: a port that is picked,    *)
(* opened and pumped through two pipes, unplugged, closed and opened again *)
(***************************************************************************)
EXTENDS Naturals

CONSTANTS
    MaxOpens,   \* calls of open() that pass its guard (bound)
    MaxCloses   \* calls of close() under way at once (bound)

VARIABLES
    state,     \* #state.kind
    port,      \* #port: the open() that set it, 0 for null
    step,      \* what open() awaits: "idle", "port", "open", "undo"
    stale,     \* #closeEpoch has changed since open() read it
    device,    \* ports that are open: port.open() answered, port.close() did not
    pipes,     \* the pipes of #port: "none", "running", "ending", "ended"
    closing,   \* close() calls that await: "pipes", or "port" for port.close()
    call,      \* the promise of the last open()
    opens

vars == <<state, port, step, stale, device, pipes, closing, call, opens>>

Nobody == [pipes |-> 0, port |-> 0]

TypeOK ==
    /\ state \in {"closed", "opening", "open", "error"}
    /\ port \in 0..MaxOpens /\ step \in {"idle", "port", "open", "undo"} /\ stale \in BOOLEAN
    /\ device \subseteq 1..MaxOpens /\ pipes \in {"none", "running", "ending", "ended"}
    /\ closing \in [{"pipes", "port"} -> 0..MaxCloses]
    /\ call \in {"none", "pending", "resolved", "rejected"} /\ opens \in 0..MaxOpens

Init ==
    /\ state = "closed" /\ port = 0 /\ step = "idle" /\ stale = FALSE /\ device = {}
    /\ pipes = "none" /\ closing = Nobody /\ call = "none" /\ opens = 0

-----------------------------------------------------------------------------
\* The owner waits for the answers to its close() before it opens again.
Open ==
    /\ step = "idle" /\ port = 0 /\ closing = Nobody
    /\ opens < MaxOpens /\ opens' = opens + 1
    /\ step' = "port" /\ stale' = FALSE /\ state' = "opening" /\ call' = "pending"
    /\ UNCHANGED <<port, device, pipes, closing>>

\* The catch and the finally of open().
Fail(shown) ==
    /\ state' = shown /\ step' = "idle" /\ call' = "rejected"
    /\ UNCHANGED <<port, stale, pipes, closing, opens>>

PortChosen ==
    /\ step = "port"
    /\ \/ stale /\ Fail("closed") /\ UNCHANGED device
       \/ ~stale /\ step' = "open"
          /\ UNCHANGED <<state, port, stale, device, pipes, closing, call, opens>>

\* A port that was opened for a link that is closed by now, or that cannot be
\* pumped, is closed again.
NeverStale == FALSE
WasClosed == stale
PortOpened ==
    /\ step = "open" /\ device' = device \cup {opens}
    /\ \/ step' = "undo" /\ UNCHANGED <<state, port, pipes, call>>
       \/ /\ ~WasClosed /\ pipes' = "running" /\ port' = opens /\ step' = "idle"
          /\ state' = "open" /\ call' = "resolved"
    /\ UNCHANGED <<stale, closing, opens>>
Undone == /\ step = "undo" /\ device' = device \ {opens}
          /\ Fail(IF stale THEN "closed" ELSE "error")

\* The picker is dismissed, or the port is busy.
Refuse == step \in {"port", "open"} /\ Fail("error") /\ UNCHANGED device

-----------------------------------------------------------------------------
\* Mutant: the pipes are left running.
KeepPipes == pipes
\* #teardownPipes: a pipe that runs is told to end.
AbortPipes == IF pipes = "running" THEN "ending" ELSE pipes

\* close(), up to its first await, and what follows each await.
Close ==
    /\ stale' = TRUE
    /\ \/ port = 0 /\ state' = "closed" /\ UNCHANGED <<pipes, closing>>
       \/ /\ port # 0 /\ closing["pipes"] + closing["port"] < MaxCloses
          /\ pipes' = AbortPipes
          /\ closing' = [closing EXCEPT !["pipes"] = @ + 1] /\ UNCHANGED state
    /\ UNCHANGED <<port, step, device, call, opens>>
PipesSettled ==
    /\ closing["pipes"] > 0 /\ pipes \in {"ended", "none"}
    /\ closing' = [closing EXCEPT !["pipes"] = @ - 1, !["port"] = @ + 1]
    /\ UNCHANGED <<state, port, step, stale, device, pipes, call, opens>>
PortClosed ==
    /\ closing["port"] > 0 /\ closing' = [closing EXCEPT !["port"] = @ - 1]
    /\ device' = device \ {port} /\ port' = 0 /\ pipes' = "none" /\ state' = "closed"
    /\ UNCHANGED <<step, stale, call, opens>>

\* A pipe ends: aborted, or with the error of its port.
PipeEnds ==
    /\ pipes = "ending" /\ pipes' = "ended"
    /\ UNCHANGED <<state, port, step, stale, device, closing, call, opens>>
PipeError ==
    /\ pipes \in {"running", "ending"} /\ pipes' = "ended" /\ state' = "error"
    /\ UNCHANGED <<port, step, stale, device, closing, call, opens>>

\* The cable is pulled. A close() under way has removed the listener.
Unplug ==
    /\ device # {} /\ device' = {}
    /\ IF port # 0 /\ closing = Nobody
       THEN port' = 0 /\ pipes' = "none" /\ state' = "error"
       ELSE UNCHANGED <<port, pipes, state>>
    /\ UNCHANGED <<step, stale, closing, call, opens>>

Next == Open \/ PortChosen \/ PortOpened \/ Undone \/ Refuse \/ Close \/ PipesSettled
        \/ PortClosed \/ PipeEnds \/ PipeError \/ Unplug

\* Aborted pipes end, also when the cable was pulled, and the browser closes a
\* port it is asked to close.
Fairness == WF_vars(PipeEnds \/ PipesSettled \/ PortClosed \/ Undone)
Spec == Init /\ [][Next]_vars /\ Fairness

-----------------------------------------------------------------------------
Held == port # 0 \/ step = "undo"

\* A port stays open only for the link that pumps it, or while an open() or a
\* close() is about to close it: no other program could open it.
NoPortLeftOpen == device \subseteq ({port} \cup (IF step = "undo" THEN {opens} ELSE {}))

\* A close() that found a port frees it, whatever happens to its pipes.
CloseFrees == (closing # Nobody) ~> (port = 0 /\ device = {})

\* An inductive invariant: open() and close() take turns, a port has its pipes, and a
\* promise is pending as long as open() awaits something.
Inv ==
    /\ TypeOK /\ NoPortLeftOpen
    /\ closing["pipes"] + closing["port"] <= MaxCloses
    /\ port # 0 \/ closing # Nobody => step = "idle"
    /\ (port = 0) = (pipes = "none")
    /\ (call = "pending") = (step # "idle")
    /\ state = "open" => port # 0
    /\ state = "opening" => step # "idle"
    /\ step # "idle" => opens > 0 /\ state = IF stale THEN "closed" ELSE "opening"
=============================================================================
