----------------------------- MODULE Transport -----------------------------
(***************************************************************************)
(* What src/contracts/transport.ts promises the owner of a link, whatever  *)
(* carries the bytes: an open() that is answered, a connection state that  *)
(* tells the truth, and nothing left running for a link that is closed.    *)
(* The four transports that hold a device implement it.                    *)
(***************************************************************************)

VARIABLES
    state,   \* ConnState.kind
    call,    \* the promise of the last open()
    held     \* a device, a socket or a timer works for the link

ConnStates == {"closed", "opening", "open", "reconnecting", "error"}
Calls == {"none", "pending", "resolved", "rejected"}

Init == state = "closed" /\ call = "none" /\ ~held

\* Only a link that holds nothing and waits for nothing can be opened.
Open ==
    /\ state \in {"closed", "error"} /\ call # "pending" /\ ~held
    /\ state' = "opening" /\ call' = "pending" /\ held' \in BOOLEAN

\* While it opens, or is wanted back, a link acquires what it needs.
Acquire ==
    /\ call = "pending" \/ state = "reconnecting"
    /\ held' /\ UNCHANGED <<state, call>>

Opened ==
    /\ state # "closed" /\ (held \/ call = "pending") /\ held'
    /\ state' = "open" /\ call' \in {call, "resolved"}

\* The promise of open() is kept after the link opened, also when it has been
\* lost again since.
Resolved ==
    /\ call = "pending" /\ call' = "resolved" /\ state # "closed"
    /\ UNCHANGED <<state, held>>

\* A link that was opened or asked for is in trouble; it may have been let go.
Trouble ==
    /\ state # "closed"
    /\ state' \in {"reconnecting", "error"} /\ (held' => held) /\ call' \in {call, "rejected"}
    /\ call' = "rejected" => call \in {"pending", "rejected"}

\* An open() fails, at once or later.
Fails ==
    /\ call = "pending" \/ (state \in {"closed", "error"} /\ ~held)
    /\ call' = "rejected"
    /\ state' \in {"closed", "error"} /\ ~held'

\* Closed at the request of the owner, or of the other end. What an open() that
\* is still under way holds, it lets go before it answers.
Close ==
    /\ state' = "closed" /\ (held' => held /\ call' = "pending")
    /\ call' = call \/ (call = "pending" /\ call' = "rejected")

\* The failure of a write that was under way may show after the close.
LateError ==
    /\ state = "closed" /\ state' = "error" /\ (held' => held) /\ UNCHANGED call

Next == Open \/ Acquire \/ Opened \/ Resolved \/ Trouble \/ Fails \/ Close \/ LateError
vars == <<state, call, held>>
Spec == Init /\ [][Next]_vars
=============================================================================
