---------------------------- MODULE OneShotCalls ----------------------------
(***************************************************************************)
(* What every request/response microservice of the ground station promises *)
(* its caller.  A call is issued once, stays open while the client retries *)
(* and ends once and for all: with success, and then the peer has granted  *)
(* what the call asked for, or with a failure.  A call refused on entry    *)
(* never opens.  Losing, repeating and delaying messages do not appear     *)
(* here: the clients that implement this module have to hide them.         *)
(***************************************************************************)
CONSTANTS
    Calls,    \* the calls a program makes, each of them once
    Keys      \* what a call can ask a peer for

VARIABLES
    status,   \* the life of each call
    key,      \* what each call asks for, meaningful once the call was issued
    granted   \* what the peers have granted so far

vars == <<status, key, granted>>

Statuses == {"idle", "open", "ok", "failed"}

TypeOK ==
    /\ status \in [Calls -> Statuses]
    /\ key \in [Calls -> Keys]
    /\ granted \subseteq Keys

Init ==
    /\ status = [c \in Calls |-> "idle"]
    /\ key \in [Calls -> Keys]
    /\ granted = {}

\* Calls of S that are in the state `from` move to the state `to`.
Move(S, from, to) ==
    /\ \A c \in S : status[c] = from
    /\ status' = [c \in Calls |-> IF c \in S THEN to ELSE status[c]]

\* The call is accepted by the client and starts waiting for its peer.
Issue(c, k) ==
    /\ Move({c}, "idle", "open")
    /\ key' = [key EXCEPT ![c] = k]
    /\ UNCHANGED granted

\* The call is turned down on entry.
Refuse(c) ==
    /\ Move({c}, "idle", "failed")
    /\ UNCHANGED <<key, granted>>

\* The peer grants something that a call asked for, now or earlier.
Grant(k) ==
    /\ \E c \in Calls : status[c] # "idle" /\ key[c] = k
    /\ granted' = granted \cup {k}
    /\ UNCHANGED <<status, key>>

\* The client reports success; the peer's grant may be part of this step.
Complete(c) ==
    /\ Move({c}, "open", "ok")
    /\ granted' \in {granted, granted \cup {key[c]}}
    /\ key[c] \in granted'
    /\ UNCHANGED key

\* Open calls are given up together: one that timed out, all on disposal.
GiveUp(S) ==
    /\ S # {}
    /\ Move(S, "open", "failed")
    /\ UNCHANGED <<key, granted>>

Next ==
    \/ \E c \in Calls, k \in Keys : Issue(c, k)
    \/ \E c \in Calls : Refuse(c) \/ Complete(c)
    \/ \E k \in Keys : Grant(k)
    \/ \E S \in SUBSET Calls : GiveUp(S)

Spec == Init /\ [][Next]_vars
=============================================================================
