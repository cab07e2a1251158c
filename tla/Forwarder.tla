------------------------------ MODULE Forwarder ------------------------------
(***************************************************************************)
(* src/src/transport/forward/forwarder.ts: bytes of a source link are      *)
(* copied to target links, and back from those that are bidirectional. A   *)
(* stream has one lock; a stop() lets go of it only when the write or the  *)
(* read under way ends, so a restart waits for the locks.                  *)
(***************************************************************************)
EXTENDS Naturals, FiniteSets

CONSTANTS
    Targets,      \* target links
    TwoWay,       \* those added as bidirectional
    MaxPending,   \* maxPendingChunks
    MaxStops,     \* calls of stop() and removeTarget() (bound)
    Source

\* A stream is the side of a link: forwarding writes to the writable of a target
\* and reads the readable of the source; reverse forwarding the other two.
Links == Targets \cup {Source}

VARIABLES
    running,    \* #running
    targets,    \* #targets
    sink,       \* per link, the DroppingByteSink that holds its writable
    pending,    \* chunks it has not written
    loop,       \* per link, the ByteReadLoop that holds its readable
    releasing,  \* #releasePending is set
    awaited,    \* the locks it still waits for
    deferred,   \* a start() waits for it
    stops,
    failed,     \* the last call that met a taken lock: "none", "start" or "add"
    orphans     \* (history) locks held by what removeTarget() stopped, which nobody awaits

vars == <<running, targets, sink, pending, loop, releasing, awaited, deferred, stops, failed, orphans>>

SinkStates == {"none", "live", "dead", "draining"}   \* dead: a write failed; draining: stop() called
LoopStates == {"none", "active", "over", "stopping"} \* over: the stream ended; the object remains

TypeOK ==
    /\ running \in BOOLEAN /\ targets \subseteq Targets
    /\ sink \in [Links -> SinkStates] /\ pending \in [Links -> 0..MaxPending]
    /\ loop \in [Links -> LoopStates]
    /\ releasing \in BOOLEAN /\ deferred \in BOOLEAN
    /\ awaited \subseteq ({"sink", "loop"} \X Links) /\ orphans \subseteq ({"sink", "loop"} \X Links)
    /\ stops \in 0..MaxStops /\ failed \in {"none", "start", "add"}

Init ==
    /\ running = FALSE /\ targets \in SUBSET Targets
    /\ sink = [l \in Links |-> "none"] /\ pending = [l \in Links |-> 0]
    /\ loop = [l \in Links |-> "none"] /\ releasing = FALSE /\ awaited = {} /\ deferred = FALSE
    /\ stops = 0 /\ failed = "none" /\ orphans = {}

-----------------------------------------------------------------------------
\* The sinks and the loops that forwarding to the targets in T needs, and those of
\* them whose stream a sink or a loop that was stopped still holds.
Back(T) == T \cap TwoWay
NeededSinks(T) == T \cup (IF Back(T) = {} THEN {} ELSE {Source})
Taken(sinks, loops) ==
    (\E l \in sinks : sink[l] = "draining") \/ (\E l \in loops : loop[l] = "stopping")

Acquire(sinks, loops) ==
    /\ sink' = [l \in Links |-> IF l \in sinks /\ sink[l] = "none" THEN "live" ELSE sink[l]]
    /\ loop' = [l \in Links |-> IF l \in loops /\ (loop[l] = "none" \/ (l = Source /\ loop[l] = "over"))
                                THEN "active" ELSE loop[l]]

\* stop(): sinks drain, loops stop after their read, and the locks are awaited.
StopSink(s) == IF s \in {"live", "dead"} THEN "draining" ELSE s
StopLoop(s) == CASE s = "active" -> "stopping" [] s = "over" -> "none" [] OTHER -> s
Stopped(links) ==
    /\ sink' = [l \in Links |-> IF l \in links THEN StopSink(sink[l]) ELSE sink[l]]
    /\ loop' = [l \in Links |-> IF l \in links THEN StopLoop(loop[l]) ELSE loop[l]]
\* Mutant: nobody waits for the locks.
AwaitNothing == awaited
AwaitLocks == awaited
    \cup {<<"sink", l>> : l \in {m \in targets \cup {Source} : sink[m] \in {"live", "dead"}}}
    \cup {<<"loop", l>> : l \in {m \in targets \cup {Source} : loop[m] = "active"}}
StopAll ==
    /\ running' = FALSE /\ deferred' = FALSE /\ releasing' = TRUE
    /\ awaited' = AwaitLocks /\ Stopped(targets \cup {Source})

\* #startLocked; a taken lock makes it stop everything again, what it has just
\* acquired too, which has nothing to wait for.
StartLocked ==
    LET sinks == NeededSinks(targets)  loops == {Source} \cup Back(targets)
    IN IF Taken(sinks, loops)
       THEN StopAll /\ failed' = "start"
       ELSE /\ Acquire(sinks, loops) /\ running' = TRUE /\ releasing' = FALSE /\ deferred' = FALSE
            /\ UNCHANGED <<awaited, failed>>

-----------------------------------------------------------------------------
Start ==
    /\ ~running
    /\ IF releasing
       THEN running' = TRUE /\ deferred' = TRUE /\ UNCHANGED <<sink, loop, releasing, awaited, failed>>
       ELSE StartLocked
    /\ UNCHANGED <<targets, pending, stops, orphans>>

\* #releasePending resolves, and the start() of the current generation goes on.
Released ==
    /\ releasing /\ awaited = {} /\ deferred
    /\ StartLocked
    /\ UNCHANGED <<targets, pending, stops, orphans>>

Stop ==
    /\ stops < MaxStops /\ stops' = stops + 1 /\ StopAll
    /\ UNCHANGED <<targets, pending, failed, orphans>>

\* A target is added; while forwarding runs it is served at once, or refused.
AddTarget(t) ==
    /\ t \in Targets \ targets
    /\ IF ~running THEN targets' = targets \cup {t} /\ UNCHANGED <<sink, loop, failed>>
       ELSE LET sinks == {t} \cup (IF t \in TwoWay THEN {Source} ELSE {})
                loops == {t} \cap TwoWay
            IN IF Taken(sinks, loops)
               THEN failed' = "add" /\ UNCHANGED <<targets, sink, loop>>
               ELSE targets' = targets \cup {t} /\ Acquire(sinks, loops) /\ UNCHANGED failed
    /\ UNCHANGED <<running, pending, releasing, awaited, deferred, stops, orphans>>

\* A target is removed; the sink to the source stays for the other two-way targets.
RemoveTarget(t) ==
    /\ t \in targets /\ targets' = targets \ {t} /\ stops < MaxStops /\ stops' = stops + 1
    /\ LET gone == {t} \cup (IF Back(targets') = {} THEN {Source} ELSE {})
       IN /\ sink' = [l \in Links |-> IF l \in gone THEN StopSink(sink[l]) ELSE sink[l]]
          /\ loop' = [loop EXCEPT ![t] = StopLoop(loop[t])]
          /\ orphans' = orphans \cup {<<"sink", l>> : l \in {m \in gone : sink[m] \in {"live", "dead"}}}
                                \cup {<<"loop", l>> : l \in {m \in {t} : loop[m] = "active"}}
    /\ UNCHANGED <<running, pending, releasing, awaited, deferred, failed>>

-----------------------------------------------------------------------------
\* A lock is free again.
LetGo(lock) == awaited' = awaited \ {lock} /\ orphans' = orphans \ {lock}

\* A chunk is read from link l: forwarded if the loop is still active, and lost to
\* a loop that was stopped, which lets go of its lock.
Offered(l) == IF l = Source THEN targets ELSE {Source}
OfferIfActive(l) == IF loop[l] = "active" THEN Offered(l) ELSE {}
Read(l) ==
    /\ loop[l] \in {"active", "stopping"}
    /\ pending' = [m \in Links |-> IF m \in OfferIfActive(l) /\ sink[m] = "live" /\ pending[m] < MaxPending
                                   THEN pending[m] + 1 ELSE pending[m]]
    /\ \/ loop[l] = "active" /\ UNCHANGED <<loop, awaited, orphans>>
       \/ loop[l] = "stopping" /\ loop' = [loop EXCEPT ![l] = "none"] /\ LetGo(<<"loop", l>>)
    /\ UNCHANGED <<running, targets, sink, releasing, deferred, stops, failed>>

\* The stream of link l ends or fails.
ReadEnds(l) ==
    /\ loop[l] \in {"active", "stopping"}
    /\ loop' = [loop EXCEPT ![l] = IF @ = "active" THEN "over" ELSE "none"]
    /\ LetGo(<<"loop", l>>)
    /\ UNCHANGED <<running, targets, sink, pending, releasing, deferred, stops, failed>>

\* A write ends; after a failure the sink drops what it holds and is given.
Written(l) ==
    /\ pending[l] > 0
    /\ \/ pending' = [pending EXCEPT ![l] = @ - 1] /\ UNCHANGED sink
       \/ pending' = [pending EXCEPT ![l] = 0]
          /\ sink' = [sink EXCEPT ![l] = IF @ = "live" THEN "dead" ELSE @]
    /\ UNCHANGED <<running, targets, loop, releasing, awaited, deferred, stops, failed, orphans>>

\* The queue of a stopped sink is settled: its lock is let go.
Drained(l) ==
    /\ sink[l] = "draining" /\ pending[l] = 0
    /\ sink' = [sink EXCEPT ![l] = "none"] /\ LetGo(<<"sink", l>>)
    /\ UNCHANGED <<running, targets, pending, loop, releasing, deferred, stops, failed>>

Next ==
    \/ Start \/ Released \/ Stop
    \/ \E t \in Targets : AddTarget(t) \/ RemoveTarget(t)
    \/ \E l \in Links : Read(l) \/ ReadEnds(l) \/ Written(l) \/ Drained(l)

\* Reads and writes of the links end.
Fairness ==
    /\ WF_vars(Released)
    /\ \A l \in Links : WF_vars(Written(l) \/ Drained(l)) /\ WF_vars(loop[l] = "stopping" /\ Read(l))
Spec == Init /\ [][Next]_vars /\ Fairness

-----------------------------------------------------------------------------
\* A restart right after a stop finds every lock free, unless the locks of a
\* target that was removed, which no stop() knows of, are still held.
FailsStep == failed # "start" /\ failed' = "start" =>
    orphans # {}
RestartFindsLocksFree == [][FailsStep]_vars

\* Forwarding that runs, and does not wait for locks, serves every target.
RunningServes == running /\ ~deferred =>
    /\ \A t \in targets : sink[t] \in {"live", "dead"}
    /\ \A t \in Back(targets) : sink[Source] \in {"live", "dead"} /\ loop[t] \in {"active", "over"}
    /\ loop[Source] \in {"active", "over"}

\* Nothing is handed to a link once forwarding has been stopped.
HandsStep == (\E l \in Links : pending'[l] > pending[l]) => running
NothingAfterStop == [][HandsStep]_vars

\* A start() that waits for the locks gets them.
RestartHappens == deferred ~> ~deferred
=============================================================================
