------------------------------- MODULE Sandbox ------------------------------
(***************************************************************************)
(* src/src/ext/sandbox: the runtime that loads one extension into a guest  *)
(* of its own (runtime.ts), the guest (guest.ts) and the watchdog that     *)
(* ends a guest that no longer says that it is alive (watchdog.ts).  The   *)
(* messages of each direction keep their order.                            *)
(***************************************************************************)
EXTENDS Naturals, Sequences, FiniteSets

CONSTANTS
    MaxBeats,    \* (bound) heartbeats
    MaxInvokes   \* (bound) calls of the extension to its host

Calls == {"init", "activate", "deactivate"}

VARIABLES
    asked,      \* what the host has asked the runtime for so far
    waiting,    \* calls to the guest that are not settled
    settled,    \* how each of the others ended
    toGuest, toHost,
    guest,      \* "runs", "hung" in what it does, or "gone"
    inited,     \* it has a module
    stalled,    \* calls that it took and may never answer, though it lives
    watchdog,   \* "new", "armed", "stopped" or "fired"
    disposed,   \* the runtime's end of the bus
    kills,      \* times that the guest was ended
    told,       \* onTerminated
    beats, invokes

vars == <<asked, waiting, settled, toGuest, toHost, guest, inited, stalled, watchdog, disposed,
          kills, told, beats, invokes>>

Asks == Calls \cup {"dispose"}
TypeOK ==
    /\ asked \subseteq Asks /\ waiting \subseteq Calls /\ DOMAIN settled \subseteq Calls
    /\ toGuest \in Seq(Calls) /\ \A k \in 1..Len(toHost) : toHost[k].call \in Calls \cup {"beat", "invoke"}
    /\ guest \in {"runs", "hung", "gone"} /\ inited \in BOOLEAN /\ stalled \subseteq Calls
    /\ watchdog \in {"new", "armed", "stopped", "fired"} /\ disposed \in BOOLEAN
    /\ kills \in 0..2 /\ told \in 0..2 /\ beats \in 0..MaxBeats /\ invokes \in 0..MaxInvokes

Init ==
    /\ asked = {} /\ waiting = {} /\ settled = <<>> /\ toGuest = <<>> /\ toHost = <<>>
    /\ guest = "runs" /\ inited = FALSE /\ stalled = {} /\ watchdog = "new" /\ disposed = FALSE
    /\ kills = 0 /\ told = 0 /\ beats = 0 /\ invokes = 0

-----------------------------------------------------------------------------
\* The host's side.  A call on a bus that is disposed is never settled.
Call(c) == waiting' = waiting \cup {c} /\ toGuest' = IF disposed THEN toGuest ELSE Append(toGuest, c)
Settle(S, how) ==
    /\ waiting' = waiting \ S
    /\ settled' = [c \in DOMAIN settled \cup (S \cap waiting) |-> IF c \in S \cap waiting THEN how ELSE settled[c]]
Arm == watchdog' = IF watchdog \in {"stopped", "fired"} THEN watchdog ELSE "armed"
Stop == watchdog' = IF watchdog = "fired" THEN "fired" ELSE "stopped"

\* activate(): GUEST_INIT, and when that is answered GUEST_ACTIVATE under the watchdog.
Activate ==
    /\ asked = {} /\ asked' = {"activate"} /\ Call("init")
    /\ UNCHANGED <<settled, toHost, guest, inited, stalled, watchdog, disposed, kills, told, beats, invokes>>
GuestInited ==
    /\ "init" \in DOMAIN settled /\ settled["init"] = "ok" /\ {"activate"} \cap (waiting \cup DOMAIN settled) = {}
    /\ Arm /\ Call("activate")
    /\ UNCHANGED <<asked, settled, toHost, guest, inited, stalled, disposed, kills, told, beats, invokes>>
\* deactivate() of an extension that was activated, and dispose().
Deactivate ==
    /\ "activate" \in DOMAIN settled /\ asked \cap {"deactivate", "dispose"} = {}
    /\ asked' = asked \cup {"deactivate"} /\ Stop /\ Call("deactivate")
    /\ UNCHANGED <<settled, toHost, guest, inited, stalled, disposed, kills, told, beats, invokes>>
Kill == kills' = kills + 1 /\ guest' = "gone" /\ toHost' = <<>>
Dispose ==
    /\ "activate" \in asked /\ "dispose" \notin asked /\ asked' = asked \cup {"dispose"}
    /\ disposed' = TRUE /\ Stop /\ Settle(waiting, "rejected")
    /\ IF guest # "gone" THEN Kill ELSE UNCHANGED <<kills, guest, toHost>>
    /\ UNCHANGED <<toGuest, inited, stalled, told, beats, invokes>>

\* The watchdog: the calls are rejected, the guest is ended, the owner is told.
\* A plausible mistake: the guest is ended and its calls are left waiting.
RejectsNone == disposed' = TRUE /\ UNCHANGED <<waiting, settled>>
RejectsAll == disposed' = TRUE /\ Settle(waiting, "rejected")
Trip ==
    /\ watchdog = "armed" /\ watchdog' = "fired"
    /\ RejectsAll /\ Kill /\ told' = told + 1
    /\ UNCHANGED <<asked, toGuest, inited, stalled, beats, invokes>>

\* A message of the guest: an answer, a heartbeat, a call to the broker (which a guest
\* that hangs does not wait for).
Hears ==
    /\ toHost # <<>> /\ toHost' = Tail(toHost)
    /\ LET m == Head(toHost)
       IN /\ IF m.call \in Calls /\ ~disposed THEN Settle({m.call}, m.how) ELSE UNCHANGED <<waiting, settled>>
          /\ IF m.call = "beat" /\ ~disposed THEN Arm ELSE UNCHANGED watchdog
    /\ UNCHANGED <<asked, toGuest, guest, inited, stalled, disposed, kills, told, beats, invokes>>

-----------------------------------------------------------------------------
\* The guest: takes one call after another, says that it is alive, calls its host, and may
\* hang in what it does.
Says(c, how) == toHost' = Append(toHost, [call |-> c, how |-> how])
Takes(c) == guest = "runs" /\ toGuest # <<>> /\ c = Head(toGuest) /\ toGuest' = Tail(toGuest)
\* GUEST_INIT: what evaluate() throws leaves the handler before there is a promise, so that
\* the bus sends no rejection (Rpc); the guest lives on without a module.
Evaluates ==
    /\ Takes("init")
    /\ \/ Says("init", "ok") /\ inited' = TRUE /\ UNCHANGED stalled
       \/ stalled' = stalled \cup {"init"} /\ UNCHANGED <<toHost, inited>>
    /\ UNCHANGED <<asked, waiting, settled, guest, watchdog, disposed, kills, told, beats, invokes>>
\* GUEST_ACTIVATE and GUEST_DEACTIVATE are async: they answer, reject, or await what the
\* extension awaits, which may come or not.
Ready(c) == c = "activate" => inited
Answer(c) ==
    \/ Says(c, "rejected")
    \/ Ready(c) /\ Says(c, "ok")
Answers(c) ==
    /\ Takes(c)
    /\ \/ Answer(c) /\ UNCHANGED stalled
       \/ Ready(c) /\ stalled' = stalled \cup {c} /\ UNCHANGED toHost
    /\ UNCHANGED <<asked, waiting, settled, guest, inited, watchdog, disposed, kills, told, beats, invokes>>
Resumes(c) ==
    /\ guest = "runs" /\ c \in stalled /\ stalled' = stalled \ {c} /\ Answer(c)
    /\ UNCHANGED <<asked, waiting, settled, toGuest, guest, inited, watchdog, disposed, kills, told,
                   beats, invokes>>
Hangs ==
    /\ guest = "runs" /\ toGuest # <<>> /\ guest' = "hung" /\ toGuest' = Tail(toGuest)
    /\ UNCHANGED <<asked, waiting, settled, toHost, inited, stalled, watchdog, disposed, kills, told, beats, invokes>>
Beats ==
    /\ guest = "runs" /\ beats < MaxBeats /\ beats' = beats + 1 /\ Says("beat", "ok")
    /\ UNCHANGED <<asked, waiting, settled, toGuest, guest, inited, stalled, watchdog, disposed, kills, told, invokes>>
Invokes ==
    /\ guest = "runs" /\ inited /\ invokes < MaxInvokes /\ invokes' = invokes + 1 /\ Says("invoke", "ok")
    /\ UNCHANGED <<asked, waiting, settled, toGuest, guest, inited, stalled, watchdog, disposed, kills, told, beats>>

Next ==
    \/ Activate \/ GuestInited \/ Deactivate \/ Dispose \/ Trip \/ Hears
    \/ Evaluates \/ Hangs \/ Beats \/ Invokes
    \/ \E c \in {"activate", "deactivate"} : Answers(c) \/ Resumes(c)
\* Messages arrive, promises go on, timers fire; a guest that hangs does so for good.
Fairness ==
    /\ WF_vars(GuestInited) /\ WF_vars(Hears)
    /\ WF_vars(Trip /\ guest = "hung")
    /\ WF_vars(Evaluates \/ Hangs \/ \E c \in {"activate", "deactivate"} : Answers(c))
Spec == Init /\ [][Next]_vars /\ Fairness

-----------------------------------------------------------------------------
\* A guest is ended once, whatever its watchdog and its owner do, and its owner is told
\* exactly when it was the watchdog.
EndedOnce == kills <= 1 /\ told <= kills /\ (told = 1 <=> watchdog = "fired")

\* Both calls of an activation end, also when the guest hangs in them: the watchdog or the
\* owner ends it. The exceptions are for good: the guest beats on and does not answer, since
\* its evaluation threw or its activate() awaits something; or it hangs in its evaluation
\* and was never heard of, so that no watchdog runs.
ActivationEnds == \A c \in {"init", "activate"} :
    [](c \in waiting /\ ~disposed
       => <>(c \notin waiting \/ [](c \in stalled) \/ [](guest = "hung" /\ watchdog = "new")))
=============================================================================
