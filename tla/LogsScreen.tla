----------------------------- MODULE LogsScreen -----------------------------
(***************************************************************************)
(* src/src/ui/screens/logs/logs-screen.tsx: logs that are picked or come   *)
(* from the list of recent files are decoded or made ready for replay,     *)
(* with an await at every step; the screen may be left and entered again   *)
(* in between, each time with a state of its own.                          *)
(***************************************************************************)
EXTENDS Naturals, FiniteSets

CONSTANTS
    MaxLoads,    \* (bound) loads begun
    MaxRecents,  \* (bound) recent files chosen
    MaxMounts    \* (bound)

Kinds == {"bin", "tlog"}

VARIABLES
    mount,      \* which showing of the screen it is; 0 when it is not shown
    mounts,
    loading,    \* what this showing takes for loading
    shown,      \* "nothing", "bin" or "tlog"
    picking,    \* the file picker is open for this kind
    loads,      \* loads under way: number, kind, showing, whether from the recent files
    begun,
    session,    \* the replay that this showing would stop, or 0
    running,    \* replays that run
    stopping,   \* of them, those that are being stopped
    pending,    \* recent file to be opened: its kind and number, or 0
    started,    \* the recent file that this showing has begun to open
    recents,
    overlap,    \* (history) two loads at once in one showing
    left        \* (history) the screen was left during a load

vars == <<mount, mounts, loading, shown, picking, loads, begun, session, running, stopping,
          pending, started, recents, overlap, left>>

Load == [n : 1..MaxLoads, kind : Kinds, of : 1..MaxMounts, recent : BOOLEAN,
         step : {"stop", "read"}]
TypeOK ==
    /\ mount \in 0..MaxMounts /\ mounts \in 0..MaxMounts /\ loading \in BOOLEAN
    /\ shown \in Kinds \cup {"nothing"} /\ picking \in Kinds \cup {"no"}
    /\ loads \subseteq Load /\ begun \in 0..MaxLoads
    /\ session \in 0..MaxLoads /\ running \subseteq 1..MaxLoads /\ stopping \subseteq running
    /\ pending.n \in 0..MaxRecents /\ pending.kind \in Kinds /\ started \in 0..MaxRecents
    /\ recents \in 0..MaxRecents /\ overlap \in BOOLEAN /\ left \in BOOLEAN

Init ==
    /\ mount = 0 /\ mounts = 0 /\ loading = FALSE /\ shown = "nothing" /\ picking = "no"
    /\ loads = {} /\ begun = 0 /\ session = 0 /\ running = {} /\ stopping = {}
    /\ pending = [n |-> 0, kind |-> "bin"] /\ started = 0 /\ recents = 0
    /\ overlap = FALSE /\ left = FALSE

-----------------------------------------------------------------------------
Mine == {l \in loads : l.of = mount}

\* A load begins, with the others and the replay that there are then: a log to replay
\* first stops the replay before it.
Begins(others, current, kind, recent, of) ==
    /\ begun < MaxLoads /\ begun' = begun + 1 /\ loading' = TRUE
    /\ LET stops == kind = "tlog" /\ current # 0
       IN /\ loads' = others \cup {[n |-> begun + 1, kind |-> kind, of |-> of, recent |-> recent,
                                    step |-> IF stops THEN "stop" ELSE "read"]}
          /\ stopping' = IF stops THEN stopping \cup {current} ELSE stopping
          /\ session' = IF stops THEN 0 ELSE current
    /\ overlap' = (overlap \/ \E l \in others : l.of = of)
\* The effect: a recent file that this showing has not begun to open is opened, unless
\* something is being loaded.
Waits(p, begunWith) == p.n # 0 /\ p.n # begunWith
Opens(others, current, p, of) == Begins(others, current, p.kind, TRUE, of) /\ started' = p.n

Mount ==
    /\ mount = 0 /\ mounts < MaxMounts /\ mounts' = mounts + 1 /\ mount' = mounts + 1
    /\ shown' = "nothing"
    /\ IF Waits(pending, 0)
       THEN Opens(loads, 0, pending, mounts + 1)
       ELSE loading' = FALSE /\ started' = 0 /\ UNCHANGED <<loads, begun, stopping, session, overlap>>
    /\ UNCHANGED <<picking, running, pending, recents, left>>
\* Left, not from under the file picker: the replay that this showing knows of is stopped.
Unmount ==
    /\ mount # 0 /\ picking = "no" /\ mount' = 0
    /\ stopping' = stopping \cup ({session} \ {0}) /\ session' = 0
    /\ left' = (left \/ Mine # {})
    /\ UNCHANGED <<mounts, loading, shown, picking, loads, begun, running, pending, started, recents, overlap>>

\* A recent file is chosen.
Choose(kind) ==
    /\ recents < MaxRecents /\ recents' = recents + 1
    /\ pending' = [n |-> recents + 1, kind |-> kind]
    /\ IF mount # 0 /\ ~loading
       THEN Opens(loads, session, pending', mount)
       ELSE UNCHANGED <<loading, started, loads, begun, stopping, session, overlap>>
    /\ UNCHANGED <<mount, mounts, shown, picking, running, left>>

\* openBin, openTlogFile: the buttons are disabled while something is loaded, which is
\* not looked at again when a file has been picked.
Pick(kind) ==
    /\ mount # 0 /\ ~loading /\ picking = "no" /\ picking' = kind
    /\ UNCHANGED <<mount, mounts, loading, shown, loads, begun, session, running, stopping, pending, started, recents, overlap, left>>
Picked ==
    /\ picking # "no" /\ picking' = "no"
    /\ \/ Begins(loads, session, picking, FALSE, mount)
       \/ UNCHANGED <<loading, loads, begun, session, stopping, overlap>>
    /\ UNCHANGED <<mount, mounts, shown, running, pending, started, recents, left>>

\* The replay before it has stopped.
Stopped(s) ==
    /\ s \in stopping /\ running' = running \ {s} /\ stopping' = stopping \ {s}
    /\ loads' = {IF l.step = "stop" THEN [l EXCEPT !.step = "read"] ELSE l : l \in loads}
    /\ UNCHANGED <<mount, mounts, loading, shown, picking, begun, session, pending, started, recents, overlap, left>>

\* A load ends: a log to replay is played.  In its finally the screen is no longer
\* loading, and a recent file that has waited for that is opened; after that, if the
\* load was of a recent file, the request for one is taken back.
\* A plausible mistake: what waits is taken back without being opened.
ReopensNot(l, others, current) ==
    loads' = others /\ session' = current /\ loading' = FALSE /\ UNCHANGED <<begun, started, stopping, overlap>>
Reopens(l, others, current) ==
    IF Waits(pending, started)
    THEN Opens(others, current, pending, mount)
    ELSE loads' = others /\ session' = current /\ loading' = FALSE /\ UNCHANGED <<begun, started, stopping, overlap>>
LoadEnds(l, ok) ==
    /\ l.step = "read"
    /\ LET plays == ok /\ l.kind = "tlog"
           here == l.of = mount
       IN /\ running' = IF plays THEN running \cup {l.n} ELSE running
          /\ shown' = IF ok /\ here THEN l.kind ELSE shown
          /\ IF here THEN Reopens(l, loads \ {l}, IF plays THEN l.n ELSE session)
             ELSE loads' = loads \ {l} /\ UNCHANGED <<loading, begun, session, started, stopping, overlap>>
    /\ pending' = IF l.recent THEN [pending EXCEPT !.n = 0] ELSE pending
    /\ UNCHANGED <<mount, mounts, picking, recents, left>>

Next ==
    \/ Mount \/ Unmount \/ Picked
    \/ \E kind \in Kinds : Choose(kind) \/ Pick(kind)
    \/ \E s \in stopping : Stopped(s)
    \/ \E l \in loads, ok \in BOOLEAN : LoadEnds(l, ok)
Spec == Init /\ [][Next]_vars

-----------------------------------------------------------------------------
\* At most one replay runs that nobody has told to stop, and the screen knows which:
\* whatever is opened next, or leaving the screen, stops it.  Not when two loads
\* overlapped or the screen was left during one: then a replay goes on unseen.
NoGhostReplay == overlap \/ left \/ running \ stopping \subseteq {session}

\* The request for a recent file is taken back only when that file is being opened,
\* also when it was made during another load; not when the screen was left during one.
OpenedStep == pending.n # 0 /\ pending'.n = 0 => started' = pending.n \/ left
RecentIsOpened == [][OpenedStep]_vars
=============================================================================
