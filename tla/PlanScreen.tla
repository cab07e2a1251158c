----------------------------- MODULE PlanScreen -----------------------------
(***************************************************************************)
(* src/src/ui/screens/plan/plan-screen.tsx: the mission that is edited,    *)
(* its transfers to and from the vehicle, the files, surveys and recent    *)
(* missions that replace it after a question, and the terrain profile that *)
(* is sampled anew whenever its path changes.  The dock disposes of the    *)
(* screen when another is shown and mounts it anew (dock.tsx); the plan    *)
(* outlives that (plan-session.ts), and so does what the screen has begun. *)
(***************************************************************************)
EXTENDS Naturals

CONSTANTS
    Routes,        \* missions with a path
    None,          \* the empty mission, or one too short for a path
    MaxTransfers,  \* (bound) transfers started
    MaxLoads,      \* (bound) missions replaced
    MaxEdits,      \* (bound)
    MaxMounts      \* (bound) times that the screen is shown again

Missions == Routes \cup {None}
Transfers == {"mission up", "mission down", "fence up", "rally up"}

VARIABLES
    mission,
    connected,
    shown,       \* the screen is mounted
    busy,        \* transferBusy, of this mount
    transfers,   \* transfers under way: what was taken at the click, how far it is, and the
                 \* mount of the screen that began it
    onVehicle,   \* the mission that the vehicle holds
    started,
    loads,       \* replacements under way: a file, a recent mission, a survey
    begun, edits, mounts,
    token,       \* profileToken, of this mount
    samplings,   \* terrain requests under way that it asked for
    profile,     \* the path whose profile is shown
    stale        \* (history) the path became too short while a request was under way

vars == <<mission, shown, connected, busy, transfers, onVehicle, started, loads, begun, edits,
          mounts, token, samplings, profile, stale>>

Phases == {"asking", "sending", "fence parameters"}
TypeOK ==
    /\ mission \in Missions /\ shown \in BOOLEAN /\ connected \in BOOLEAN /\ busy \in BOOLEAN
    /\ transfers \subseteq [kind : Transfers, wire : Missions, phase : Phases, mount : 0..MaxMounts]
    /\ onVehicle \in Missions /\ started \in 0..MaxTransfers
    /\ loads \subseteq [n : Nat, phase : {"asking", "reading"}]
    /\ begun \in 0..MaxLoads /\ edits \in 0..MaxEdits /\ mounts \in 0..MaxMounts
    /\ token \in Nat
    /\ samplings \subseteq [token : Nat, path : Routes] /\ profile \in Routes \cup {None}
    /\ stale \in BOOLEAN

Init ==
    /\ mission = None /\ shown = TRUE /\ connected = FALSE /\ busy = FALSE
    /\ transfers = {} /\ onVehicle \in Missions
    /\ loads = {} /\ started = 0 /\ begun = 0 /\ edits = 0 /\ mounts = 0
    /\ token = 0 /\ samplings = {} /\ profile = None /\ stale = FALSE

-----------------------------------------------------------------------------
\* The effect on a change of the mission, which ends with the screen: the profile of its
\* path is asked for; a path that is too short has none.
\* A plausible mistake: every answer is shown.
SampledAny(s) == TRUE
Sampled(s) == s.token = token
SetMission(m) ==
    /\ mission' = m
    /\ IF ~shown THEN UNCHANGED <<token, samplings, profile, stale>>
       ELSE IF m \in Routes
       THEN /\ token' = token + 1 /\ samplings' = samplings \cup {[token |-> token + 1, path |-> m]}
            /\ stale' = FALSE /\ UNCHANGED profile
       ELSE /\ profile' = None /\ UNCHANGED <<token, samplings>>
            /\ stale' = \E s \in samplings : s.token = token
\* Leaving the screen: its signals go, and the answers to its requests are for nobody.  A
\* transfer, a file that is read and a question to the user go on.
Leave ==
    /\ shown /\ shown' = FALSE /\ busy' = FALSE
    /\ token' = 0 /\ samplings' = {} /\ profile' = None /\ stale' = FALSE
    /\ UNCHANGED <<mission, connected, transfers, onVehicle, started, loads, begun, edits, mounts>>
\* Mounting it again: transferBusy is a new signal, the path is sampled.
Mount ==
    /\ ~shown /\ shown' = TRUE /\ mounts < MaxMounts /\ mounts' = mounts + 1
    /\ IF mission \in Routes
       THEN token' = 1 /\ samplings' = {[token |-> 1, path |-> mission]}
       ELSE UNCHANGED <<token, samplings>>
    /\ UNCHANGED <<mission, connected, busy, transfers, onVehicle, started, loads, begun, edits, profile,
                   stale>>
NoProfile == UNCHANGED <<token, samplings, profile, stale>>
Samples(s, ok) ==
    /\ samplings' = samplings \ {s}
    /\ profile' = IF ~Sampled(s) THEN profile ELSE IF ok THEN s.path ELSE None
    /\ UNCHANGED <<mission, shown, connected, busy, transfers, onVehicle, started, loads, begun, edits,
                   mounts, token, stale>>

Edit(m) ==
    /\ shown /\ m # mission /\ edits < MaxEdits /\ edits' = edits + 1 /\ SetMission(m)
    /\ UNCHANGED <<shown, connected, busy, transfers, onVehicle, started, loads, begun, mounts>>

\* A click on a transfer: one at a time that this mount began, on an open link.  A download
\* asks first when there is a mission to lose, unless the user has turned that off.
Connects ==
    /\ connected' = ~connected
    /\ UNCHANGED <<mission, shown, busy, transfers, onVehicle, started, loads, begun, edits,
                   mounts, token, samplings, profile, stale>>
Starts(kind) ==
    /\ shown /\ ~busy /\ connected /\ busy' = TRUE /\ started < MaxTransfers /\ started' = started + 1
    /\ \E phase \in IF kind = "mission down" /\ mission # None THEN {"asking", "sending"} ELSE {"sending"} :
         transfers' = transfers \cup
           {[kind |-> kind, wire |-> mission, phase |-> phase, mount |-> mounts]}
    /\ UNCHANGED <<mission, shown, connected, onVehicle, loads, begun, edits, mounts>> /\ NoProfile
\* The finally() of a transfer clears the flag of the mount that began it.
EndsForAll(x) == transfers' = transfers \ {x} /\ busy' = FALSE
Own == {x \in transfers : shown /\ x.mount = mounts}
Ends(x) == transfers' = transfers \ {x} /\ busy' = (busy /\ x \notin Own)
Answers(x, yes) ==
    /\ x.phase = "asking"
    /\ IF yes THEN transfers' = (transfers \ {x}) \cup {[x EXCEPT !.phase = "sending"]} /\ UNCHANGED busy
       ELSE Ends(x)
    /\ UNCHANGED <<mission, shown, connected, onVehicle, started, loads, begun, edits, mounts>> /\ NoProfile
Uploaded(x) ==
    /\ x.phase = "sending" /\ x.kind \in {"mission up", "rally up"} /\ Ends(x)
    /\ onVehicle' = IF x.kind = "mission up" THEN x.wire ELSE onVehicle
    /\ UNCHANGED <<mission, shown, connected, started, loads, begun, edits, mounts>> /\ NoProfile
Downloaded(x) ==
    /\ x.phase = "sending" /\ x.kind = "mission down" /\ Ends(x) /\ SetMission(onVehicle)
    /\ UNCHANGED <<shown, connected, onVehicle, started, loads, begun, edits, mounts>>
\* After the fence its parameters, whether they can be written or not.
FenceSent(x) ==
    /\ x.phase = "sending" /\ x.kind = "fence up"
    /\ transfers' = (transfers \ {x}) \cup {[x EXCEPT !.phase = "fence parameters"]}
    /\ UNCHANGED <<mission, shown, connected, busy, onVehicle, started, loads, begun, edits, mounts>> /\ NoProfile
FenceDone(x) ==
    /\ x.phase = "fence parameters" /\ Ends(x)
    /\ UNCHANGED <<mission, shown, connected, onVehicle, started, loads, begun, edits, mounts>> /\ NoProfile
Fails(x) ==
    /\ x.phase = "sending" /\ Ends(x)
    /\ UNCHANGED <<mission, shown, connected, onVehicle, started, loads, begun, edits, mounts>> /\ NoProfile

\* openFile, a recent mission, a generated survey: whatever transfer is under way, the
\* user is asked when there is a mission to lose, and it is replaced when it is read.
Load ==
    /\ shown /\ begun < MaxLoads /\ begun' = begun + 1
    /\ \E phase \in IF mission = None THEN {"reading"} ELSE {"asking", "reading"} :
         loads' = loads \cup {[n |-> begun, phase |-> phase]}
    /\ UNCHANGED <<mission, shown, connected, busy, transfers, onVehicle, started, edits, mounts>> /\ NoProfile
LoadAnswer(l, yes) ==
    /\ l.phase = "asking"
    /\ loads' = (loads \ {l}) \cup (IF yes THEN {[l EXCEPT !.phase = "reading"]} ELSE {})
    /\ UNCHANGED <<mission, shown, connected, busy, transfers, onVehicle, started, begun, edits, mounts>> /\ NoProfile
Loaded(l, m) ==
    /\ l.phase = "reading" /\ loads' = loads \ {l} /\ SetMission(m)
    /\ UNCHANGED <<shown, connected, busy, transfers, onVehicle, started, begun, edits, mounts>>
LoadFails(l) ==
    /\ l.phase = "reading" /\ loads' = loads \ {l}
    /\ UNCHANGED <<mission, shown, connected, busy, transfers, onVehicle, started, begun, edits, mounts>> /\ NoProfile

Next ==
    \/ Connects \/ Load \/ Leave \/ Mount
    \/ \E m \in Missions : Edit(m)
    \/ \E kind \in Transfers : Starts(kind)
    \/ \E x \in transfers :
         \/ Uploaded(x) \/ Downloaded(x) \/ FenceSent(x) \/ FenceDone(x) \/ Fails(x)
         \/ \E yes \in BOOLEAN : Answers(x, yes)
    \/ \E l \in loads :
         \/ LoadFails(l)
         \/ \E m \in Missions : Loaded(l, m)
         \/ \E yes \in BOOLEAN : LoadAnswer(l, yes)
    \/ \E s \in samplings, ok \in BOOLEAN : Samples(s, ok)
Spec == Init /\ [][Next]_vars

-----------------------------------------------------------------------------
\* Once the terrain has answered, the profile that is shown is the one of the mission
\* on display, whatever order the answers come in; not when the path became too short
\* while a request was under way: its answer is shown for a mission without a path.
ProfileIsCurrent ==
    /\ profile # None /\ samplings = {} /\ ~stale => profile = mission
    /\ mission \notin Routes /\ ~stale => profile = None

\* A mount of the screen has one transfer under way at most, and refuses another exactly so
\* long, however questions, files, failures and the ends of older ones overlap with it.  That
\* is not one transfer on the link: whoever leaves the screen during one and comes back can
\* start the next beside it.
OneTransfer ==
    /\ \A x, y \in transfers : x.mount = y.mount => x = y
    /\ busy <=> Own # {}
=============================================================================
