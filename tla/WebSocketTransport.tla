------------------------- MODULE WebSocketTransport -------------------------
(***************************************************************************)
(* src/src/transport/websocket/websocket-transport.ts: a socket to a       *)
(* bridge, opened again with growing delays when it drops.                 *)
(***************************************************************************)
EXTENDS Naturals

CONSTANT
    Saturation   \* the attempt from which the delay is backoffMaxMs

Sockets == {1, 2}
None == [phase |-> "none", initial |-> FALSE, opened |-> FALSE]

VARIABLES
    state,     \* #state.kind
    sockets,   \* the sockets whose handlers are attached: their phase and closure
    current,   \* #socket, 0 for undefined
    timer,     \* a reconnection is scheduled
    attempt,   \* #attempt, up to Saturation
    byUser,    \* #closedByUser
    ended,     \* #readableClosed
    call       \* the promise of the last open(); "pending" iff #pendingOpenReject

vars == <<state, sockets, current, timer, attempt, byUser, ended, call>>

Live == {s \in Sockets : sockets[s] # None}

TypeOK ==
    /\ state \in {"closed", "opening", "open", "reconnecting", "error"}
    /\ sockets \in [Sockets -> 
            [phase : {"none", "connecting", "open", "failing"}, initial : BOOLEAN, opened : BOOLEAN]]
    /\ current \in {0} \cup Sockets
    /\ timer \in BOOLEAN /\ byUser \in BOOLEAN /\ ended \in BOOLEAN
    /\ attempt \in 0..Saturation
    /\ call \in {"none", "pending", "resolved", "rejected"}

Init ==
    /\ state = "closed" /\ sockets = [s \in Sockets |-> None] /\ current = 0
    /\ timer = FALSE /\ attempt = 0 /\ byUser = FALSE /\ ended = FALSE /\ call = "none"

Settle(outcome) == IF call = "pending" THEN outcome ELSE call

-----------------------------------------------------------------------------
\* Bump the attempt and wait; the delay grows up to Saturation.
ScheduleReconnect ==
    /\ attempt' = IF attempt < Saturation THEN attempt + 1 ELSE attempt
    /\ state' = "reconnecting" /\ timer' = TRUE
    /\ UNCHANGED <<byUser, ended, call>>

\* A new socket, with handlers that remember whether open() asked for it.
NewSocket(initial) == \E s \in Sockets \ Live :
    /\ sockets' = [sockets EXCEPT ![s] = [phase |-> "connecting", initial |-> initial,
                                                opened |-> FALSE]]
    /\ current' = s

\* open(): the constructor of the socket may throw.
Open ==
    /\ state = "closed" /\ ~ended
    /\ byUser' = FALSE /\ attempt' = 0
    /\ \/ NewSocket(TRUE) /\ state' = "opening" /\ call' = "pending"
       \/ state' = "closed" /\ call' = "rejected" /\ UNCHANGED <<sockets, current>>
    /\ UNCHANGED <<timer, ended>>

\* The scheduled callback.
Fire ==
    /\ timer
    /\ \/ byUser /\ timer' = FALSE /\ UNCHANGED <<state, sockets, current, attempt, byUser, ended, call>>
       \/ ~byUser /\ timer' = FALSE /\ NewSocket(FALSE) /\ UNCHANGED <<state, attempt, byUser, ended, call>>
       \/ ~byUser /\ ScheduleReconnect /\ UNCHANGED <<sockets, current>>

OnOpen(s) ==
    /\ sockets[s].phase = "connecting"
    /\ sockets' = [sockets EXCEPT ![s].phase = "open", ![s].opened = TRUE]
    /\ attempt' = 0 /\ state' = "open"
    /\ call' = IF sockets[s].initial THEN Settle("resolved") ELSE call
    /\ UNCHANGED <<current, timer, byUser, ended>>

\* The browser closes a socket after its error.
OnError(s) ==
    /\ sockets[s].phase \in {"connecting", "open"}
    /\ sockets' = [sockets EXCEPT ![s].phase = "failing"]
    /\ state' = IF state \in {"open", "opening"} THEN "error" ELSE state
    /\ UNCHANGED <<current, timer, attempt, byUser, ended, call>>

OnClose(s) ==
    /\ s \in Live /\ sockets' = [sockets EXCEPT ![s] = None] /\ current' = 0
    /\ \/ byUser /\ state' = "closed" /\ UNCHANGED <<timer, attempt, byUser, ended, call>>
       \/ /\ ~byUser /\ sockets[s].initial /\ ~sockets[s].opened
          /\ state' = "closed" /\ call' = Settle("rejected")
          /\ UNCHANGED <<timer, attempt, byUser, ended>>
       \/ ~byUser /\ ~(sockets[s].initial /\ ~sockets[s].opened) /\ ScheduleReconnect

\* Mutant: the timer is left armed.
KeepTimer == timer' = timer
\* close(), also when the reader cancels or the writer aborts. The scheduler
\* forgets its callback; a socket loses its handlers and is closed.
CancelTimer == timer' = FALSE
Close ==
    /\ byUser' = TRUE /\ call' = Settle("rejected") /\ CancelTimer
    /\ sockets' = IF current = 0 THEN sockets ELSE [sockets EXCEPT ![current] = None]
    /\ current' = 0 /\ ended' = TRUE /\ state' = "closed" /\ UNCHANGED attempt

Next == Open \/ Fire \/ Close \/ \E s \in Sockets : OnOpen(s) \/ OnError(s) \/ OnClose(s)

\* Timers fire, and a socket that tries to connect is answered.
Fairness == WF_vars(Fire) /\ WF_vars(\E s \in Sockets :
    sockets[s].phase \in {"connecting", "failing"} /\ (OnOpen(s) \/ OnClose(s)))
\* A bridge that comes back accepts a connection in the end.
Accepting == SF_vars(\E s \in Sockets : OnOpen(s))
Spec == Init /\ [][Next]_vars /\ Fairness

-----------------------------------------------------------------------------
Held == timer \/ Live # {}

\* #send writes to the socket whenever the state is 'open'; a socket that is not
\* open throws, which errors the writable stream for good.
SendIsSafe == state = "open" => current # 0 /\ sockets[current].phase = "open"

\* A link that says it reconnects, or that it met an error, is being tried
\* again: it waits for its timer or for a socket, and never for both.
StillTrying ==
    /\ state \in {"reconnecting", "error", "opening"} => Held
    /\ timer => Live = {}
    /\ \A r, s \in Live : r = s

\* A link that lost its bridge is open again in the end, or was closed.
ComesBack == (state = "reconnecting") ~> (state \in {"open", "closed"})

\* An inductive invariant: there is one socket at most, the current one, and the state
\* shown tells where it or its timer stands; what the owner closed stays let go.
Inv ==
    /\ TypeOK
    /\ Live = IF current = 0 THEN {} ELSE {current}
    /\ timer => current = 0 /\ state = "reconnecting"
    /\ current = 0 /\ ~timer => state = "closed"
    /\ ended \/ byUser => ended /\ byUser /\ current = 0 /\ ~timer
    /\ call = "pending" => current # 0
    /\ current # 0 =>
         LET s == sockets[current]
         IN /\ s.phase # "none"
            /\ s.initial /\ ~s.opened => call = "pending"
            /\ call = "pending" => s.initial /\ ~s.opened
            /\ s.phase = "connecting" =>
                  ~s.opened /\ state = IF s.initial THEN "opening" ELSE "reconnecting"
            /\ s.phase = "open" => s.opened /\ state = "open"
            /\ s.phase = "failing" => state \in {"reconnecting", "error"}
=============================================================================
