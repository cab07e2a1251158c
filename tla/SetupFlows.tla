----------------------------- MODULE SetupFlows -----------------------------
(***************************************************************************)
(* The calibration panes of src/src/ui/screens/setup: accel-setup.tsx (six *)
(* points, level), compass-setup.tsx and radio-step.tsx.  What a pane      *)
(* shows outlives the pane; the operation of the calibration client that   *)
(* it starts is aborted when the pane goes.                                *)
(***************************************************************************)
EXTENDS Naturals, FiniteSets

CONSTANTS
    MaxFaces,   \* positions of the six point calibration
    MaxWrites,  \* parameters that a radio calibration writes
    MaxRuns,    \* (bound) starts
    MaxMounts   \* (bound) times the pane is shown

Steps == {"accel", "level", "compass", "radio"}

VARIABLES
    step,     \* which pane it is
    mounted,
    flow,     \* what it shows
    run,      \* starts so far: runId
    ops,      \* operations under way
    gate,     \* the operation that waits for a face to be positioned, or 0
    got,      \* radio channels were captured
    writes,   \* radio: saves under way
    mounts,
    dead      \* (history) shown as running, with nothing that runs

vars == <<step, mounted, flow, run, ops, gate, got, writes, mounts, dead>>

Flows == {"idle", "running", "saving", "done", "warning"}
Op == [id : 1..MaxRuns, aborted : BOOLEAN, faces : 0..MaxFaces, asks : BOOLEAN]
TypeOK ==
    /\ step \in Steps /\ mounted \in BOOLEAN /\ flow \in Flows /\ run \in 0..MaxRuns
    /\ ops \subseteq Op /\ gate \in 0..MaxRuns /\ got \in BOOLEAN
    /\ writes \subseteq [id : 1..MaxRuns, left : 1..MaxWrites]
    /\ mounts \in 0..MaxMounts /\ dead \in BOOLEAN

Init ==
    /\ step \in Steps /\ mounted = FALSE /\ flow = "idle" /\ run = 0 /\ ops = {} /\ gate = 0
    /\ got = FALSE /\ writes = {} /\ mounts = 0 /\ dead = FALSE

-----------------------------------------------------------------------------
\* The stream of radio channels ends when it is aborted; every other operation rejects
\* a little later.
Aborted == IF step = "radio" THEN {} ELSE {[o EXCEPT !.aborted = TRUE] : o \in ops}

Mount ==
    /\ ~mounted /\ mounts < MaxMounts /\ mounted' = TRUE /\ mounts' = mounts + 1
    /\ UNCHANGED <<step, flow, run, ops, gate, got, writes, dead>>
\* The pane goes: its operation is aborted, its flow stays what it is.
Unmount ==
    /\ mounted /\ mounted' = FALSE /\ ops' = Aborted /\ gate' = 0
    /\ dead' = (dead \/ (flow = "running" /\ step # "compass"))
    /\ UNCHANGED <<step, flow, run, got, writes, mounts>>

\* Start: not while it is shown as running.  Without a vehicle the radio stream throws
\* before there is a promise; the others reject.
Start(vehicle) ==
    /\ mounted /\ flow # "running" /\ run < MaxRuns
    /\ run' = run + 1 /\ flow' = "running" /\ gate' = 0 /\ got' = FALSE
    /\ dead' = (step = "radio" /\ ~vehicle)
    /\ ops' = Aborted \cup
         (IF dead' THEN {} ELSE {[id |-> run + 1, aborted |-> FALSE, faces |-> 0, asks |-> FALSE]})
    /\ UNCHANGED <<step, mounted, writes, mounts>>
Cancel ==
    /\ mounted /\ flow = "running" /\ step \in {"compass", "radio"}
    /\ ops' = Aborted /\ flow' = IF step = "radio" THEN "idle" ELSE flow
    /\ UNCHANGED <<step, mounted, run, gate, got, writes, mounts, dead>>

\* An operation ends.  One that was aborted changes nothing, but for the compass.
Shows(o, outcome) ==
    CASE ~o.aborted -> outcome
      [] o.aborted /\ step = "compass" -> "idle"
      [] OTHER -> flow
Succeeds(o) ==
    /\ ~o.aborted /\ step # "radio" /\ (step = "accel" => o.faces = MaxFaces)
    /\ ops' = ops \ {o} /\ flow' = Shows(o, "done") /\ gate' = 0
    /\ UNCHANGED <<step, mounted, run, got, writes, mounts, dead>>
Rejects(o) ==
    /\ ops' = ops \ {o} /\ flow' = Shows(o, "warning")
    /\ gate' = IF o.aborted THEN gate ELSE 0
    /\ UNCHANGED <<step, mounted, run, got, writes, mounts, dead>>

\* waitForFace and confirmPositioned: a position at a time, when the user says so.
AsksFace(o) ==
    /\ step = "accel" /\ ~o.aborted /\ ~o.asks /\ o.faces < MaxFaces
    /\ ops' = (ops \ {o}) \cup {[o EXCEPT !.asks = TRUE]} /\ gate' = o.id
    /\ UNCHANGED <<step, mounted, flow, run, got, writes, mounts, dead>>
Positioned ==
    /\ mounted /\ flow = "running" /\ gate # 0 /\ gate' = 0
    /\ ops' = {IF o.id = gate THEN [o EXCEPT !.asks = FALSE, !.faces = @ + 1] ELSE o : o \in ops}
    /\ UNCHANGED <<step, mounted, flow, run, got, writes, mounts, dead>>

\* Radio: channels arrive, the user saves, the parameters are written one by one.
Captures ==
    /\ step = "radio" /\ ops # {} /\ got' = TRUE
    /\ UNCHANGED <<step, mounted, flow, run, ops, gate, writes, mounts, dead>>
Save ==
    /\ step = "radio" /\ mounted /\ flow = "running" /\ got
    /\ flow' = "saving" /\ writes' = writes \cup {[id |-> run, left |-> MaxWrites]}
    /\ UNCHANGED <<step, mounted, run, ops, gate, got, mounts, dead>>
\* Only the save of the latest start tells how it ended.
\* A plausible mistake: every save does.
SaveEndsAny(w, outcome) == flow' = outcome /\ ops' = {}
SaveEnds(w, outcome) ==
    IF w.id = run THEN flow' = outcome /\ ops' = {} ELSE UNCHANGED <<flow, ops>>
Writes(w) ==
    /\ IF w.left > 1
       THEN writes' = (writes \ {w}) \cup {[w EXCEPT !.left = @ - 1]} /\ UNCHANGED <<flow, ops>>
       ELSE writes' = writes \ {w} /\ SaveEnds(w, "done")
    /\ UNCHANGED <<step, mounted, run, gate, got, mounts, dead>>
WriteFails(w) ==
    /\ writes' = writes \ {w} /\ SaveEnds(w, "warning")
    /\ UNCHANGED <<step, mounted, run, gate, got, mounts, dead>>

Next ==
    \/ Mount \/ Unmount \/ Cancel \/ Positioned \/ Captures \/ Save
    \/ \E vehicle \in BOOLEAN : Start(vehicle)
    \/ \E o \in ops : Succeeds(o) \/ Rejects(o) \/ AsksFace(o)
    \/ \E w \in writes : Writes(w) \/ WriteFails(w)
Spec == Init /\ [][Next]_vars

-----------------------------------------------------------------------------
\* What is shown as running runs, what runs is shown, and a position that the user is
\* asked for is one that the vehicle waits for.  Not after the pane of a run was left,
\* nor for a radio capture without a vehicle: those show a run that is not there.
FlowsAreTrue ==
    /\ flow = "running" /\ ~dead => \E o \in ops : o.id = run
    /\ \A o \in ops : ~o.aborted => o.id = run /\ flow \in {"running", "saving"}
    /\ \A o \in ops : ~o.aborted => (o.asks <=> gate = o.id)
    /\ gate # 0 => \E o \in ops : o.id = gate /\ ~o.aborted

\* What ends shows its end only when it belongs to the latest start.
ResultStep ==
    flow' # flow /\ flow' \in {"done", "warning"} =>
        \/ \E o \in ops \ ops' : o.id = run
        \/ \E w \in writes \ writes' : w.id = run
ResultsAreCurrent == [][ResultStep]_vars
=============================================================================
