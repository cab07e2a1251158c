--------------------------- MODULE ExtensionHost ---------------------------
(***************************************************************************)
(* src/src/ext/host/host.ts for one extension: installations (each makes a *)
(* new object for it), activations that several callers share, teardowns   *)
(* that several callers share, and the operations that meet them. What     *)
(* they store goes out at one await after the other: the record, the index *)
(* that is read, the index that is written. What the extension does (load, *)
(* activate, deactivate, fail) and the other extensions, which write the   *)
(* same index, are the environment.                                        *)
(***************************************************************************)
EXTENDS Naturals, Sequences, SequencesExt

CONSTANTS
    MaxObjects,  \* installations (bound)
    Slots,       \* of operations that store
    MaxCalls     \* operations that may be under way at once (bound)

Objects == 1..MaxObjects
Statuses == {"installed", "active", "disabled", "error"}

VARIABLES
    managed,     \* the object in #managed, 0 for none
    made,        \* objects made so far
    enabled, status,
    handle,      \* m.loaded is set
    guests,      \* guests of the object that were loaded and not disposed
    act,         \* m.activating: "none", "load" or "activate"
    down,        \* m.tearingDown: "none", "deactivate" or "dispose"
    target,      \* the status the teardown under way ends in
    calls,       \* operations that await a teardown, in the order they were called
    saves,       \* operations that are storing, each with the step it awaits
    record,      \* what is stored: "none", "enabled" or "disabled"
    indexed,     \* the stored index names the extension
    crossed,     \* (history) objects disabled, replaced or uninstalled while they activated
    late,        \* (history) an object that was no longer managed was stored
    collided     \* (history) operations that put the extension into the index, take it
                 \* out or copy the index for another extension were storing together

disk == <<saves, record, indexed, collided>>
vars == <<managed, made, enabled, status, handle, guests, act, down, target, calls, crossed, late, disk>>

\* kind: "add" (#persist), "drop" (uninstall) or "copy" (another extension); had: the
\* index as it was read names the extension; again: what reload() activates afterwards.
Saves == [kind : {"add", "drop", "copy"}, again : 0..MaxObjects,
          at : {"none", "record", "read", "write"}, had : BOOLEAN]
NoSave == [kind |-> "add", again |-> 0, at |-> "none", had |-> FALSE]

TypeOK ==
    /\ managed \in 0..made /\ made \in 0..MaxObjects
    /\ enabled \in [Objects -> BOOLEAN] /\ status \in [Objects -> Statuses]
    /\ handle \in [Objects -> BOOLEAN] /\ guests \in [Objects -> Nat]
    /\ act \in [Objects -> {"none", "load", "activate"}]
    /\ down \in [Objects -> {"none", "deactivate", "dispose"}] /\ target \in [Objects -> Statuses]
    /\ \A c \in 1..Len(calls) : /\ calls[c].op \in {"install", "disable", "uninstall", "reload", "deactivate"}
                                /\ calls[c].m \in 1..made
    /\ saves \in [Slots -> Saves] /\ indexed \in BOOLEAN
    /\ record \in {"none", "enabled", "disabled"} /\ crossed \subseteq Objects
    /\ Len(calls) <= MaxCalls /\ late \in BOOLEAN /\ collided \in BOOLEAN

Init ==
    /\ managed = 0 /\ made = 0 /\ enabled = [m \in Objects |-> FALSE]
    /\ status = [m \in Objects |-> "installed"] /\ handle = [m \in Objects |-> FALSE]
    /\ guests = [m \in Objects |-> 0] /\ act = [m \in Objects |-> "none"]
    /\ down = [m \in Objects |-> "none"] /\ target = [m \in Objects |-> "installed"]
    /\ calls = <<>> /\ record = "none" /\ crossed = {} /\ late = FALSE
    /\ saves = [i \in Slots |-> NoSave]
    /\ indexed = FALSE /\ collided = FALSE

-----------------------------------------------------------------------------
Said(on) == IF on THEN "enabled" ELSE "disabled"
Shown(on) == IF on THEN "installed" ELSE "disabled"
Crosses(m) == crossed' = IF m # 0 /\ act[m] # "none" THEN crossed \cup {m} ELSE crossed

\* What waited for a teardown goes on, in its order, before anything else is called.
Ready == SelectInSeq(calls, LAMBDA call : down[call.m] = "none")
Free == Ready = 0
Busy(i) == saves[i].at # "none"
Room == Free /\ Len(calls) + Cardinality({i \in Slots : Busy(i)}) < MaxCalls   \* (bound)

\* An operation begins to store.
Begin(kind, at, had, again) ==
    /\ \E i \in Slots :
        /\ ~Busy(i)
        /\ saves' = [saves EXCEPT ![i] = [kind |-> kind, at |-> at, had |-> had, again |-> again]]
    /\ collided' = (collided \/ \E j \in Slots : Busy(j) /\ saves[j].kind # kind)
\* #persist: the record is on its way at once.
Persist(on, again) ==
    record' = Said(on) /\ Begin("add", "record", FALSE, again) /\ UNCHANGED indexed

\* #teardown: takes the handles at once; an overlapping call joins the one under way.
Teardown(m, to) ==
    IF down[m] # "none" THEN UNCHANGED <<down, target, handle>>
    ELSE /\ down' = [down EXCEPT ![m] = IF handle[m] THEN "deactivate" ELSE "dispose"]
         /\ target' = [target EXCEPT ![m] = to] /\ handle' = [handle EXCEPT ![m] = FALSE]
Await(op, m, to) == calls' = Append(calls, [op |-> op, m |-> m]) /\ Teardown(m, to)
Active(m) == m # 0 /\ status[m] = "active"

\* install(): an active predecessor is torn down first.
Make(m, on) ==
    /\ m \in Objects   \* (bound)
    /\ made' = m /\ managed' = m /\ enabled' = [enabled EXCEPT ![m] = on]
    /\ status' = [status EXCEPT ![m] = Shown(on)]
    /\ Crosses(managed) /\ Persist(on, 0)
Install(on) ==
    /\ Room /\ made + Len(SelectSeq(calls, LAMBDA call : call.op = "install")) < MaxObjects
    /\ IF Active(managed)
       THEN Await("install", managed, "installed") /\ UNCHANGED <<managed, made, enabled, status, crossed, disk>>
       ELSE Make(made + 1, on) /\ UNCHANGED <<calls, down, target, handle>>
    /\ UNCHANGED <<guests, act, late>>

\* Mutant: the record is not written.
EnableUnsaved ==
    /\ Room /\ managed # 0 /\ enabled' = [enabled EXCEPT ![managed] = TRUE]
    /\ status' = [status EXCEPT ![managed] = IF @ \in {"disabled", "error"} THEN "installed" ELSE @]
    /\ UNCHANGED <<managed, made, handle, guests, act, down, target, calls, crossed, late, disk>>
\* enable()
Enable ==
    /\ Room /\ managed # 0
    /\ enabled' = [enabled EXCEPT ![managed] = TRUE] /\ Persist(TRUE, 0)
    /\ status' = [status EXCEPT ![managed] = IF @ \in {"disabled", "error"} THEN "installed" ELSE @]
    /\ UNCHANGED <<managed, made, handle, guests, act, down, target, calls, crossed, late>>

\* disable(), uninstall(), deactivate(), reload(): an active extension is torn down first.
Disable ==
    /\ Room /\ managed # 0
    /\ enabled' = [enabled EXCEPT ![managed] = FALSE]
    /\ IF Active(managed) THEN Await("disable", managed, "disabled") /\ UNCHANGED <<status, disk>>
       ELSE /\ status' = [status EXCEPT ![managed] = "disabled"] /\ Persist(FALSE, 0)
            /\ UNCHANGED <<calls, down, target, handle>>
    /\ Crosses(managed) /\ UNCHANGED <<managed, made, guests, act, late>>
Forget == managed' = 0 /\ record' = "none" /\ Begin("drop", "record", FALSE, 0) /\ UNCHANGED indexed
Uninstall ==
    /\ Room /\ managed # 0 /\ Crosses(managed)
    /\ IF Active(managed) THEN Await("uninstall", managed, "installed") /\ UNCHANGED <<managed, disk>>
       ELSE Forget /\ UNCHANGED <<calls, down, target, handle>>
    /\ UNCHANGED <<made, enabled, status, guests, act, late>>
Deactivate ==
    /\ Room /\ Active(managed) /\ Await("deactivate", managed, "installed")
    /\ UNCHANGED <<managed, made, enabled, status, guests, act, crossed, late, disk>>
Reload ==
    /\ Room /\ managed # 0
    /\ IF Active(managed) THEN Await("reload", managed, "installed") /\ UNCHANGED <<status, disk>>
       ELSE /\ status' = [status EXCEPT ![managed] = Shown(enabled[managed])]
            /\ Persist(enabled[managed], 0) /\ UNCHANGED <<calls, down, target, handle>>
    /\ UNCHANGED <<managed, made, enabled, guests, act, crossed, late>>

\* What each of them does after the teardown.
Continue ==
    /\ ~Free /\ calls' = RemoveAt(calls, Ready)
    /\ LET m == calls[Ready].m
           op == calls[Ready].op IN
       /\ late' = (late \/ (op \in {"disable", "reload"} /\ m # managed))
       /\ \/ /\ op = "install" /\ \E on \in BOOLEAN : Make(made + 1, on)
          \/ /\ op = "disable" /\ Persist(enabled[m], 0)
             /\ UNCHANGED <<made, managed, enabled, status, crossed>>
          \/ /\ op = "uninstall" /\ Forget /\ Crosses(managed) /\ UNCHANGED <<made, enabled, status>>
          \/ /\ op = "reload" /\ status' = [status EXCEPT ![m] = Shown(enabled[m])]
             /\ Persist(enabled[m], m) /\ UNCHANGED <<made, managed, enabled, crossed>>
          \/ /\ op = "deactivate"
             /\ UNCHANGED <<made, managed, enabled, status, crossed, disk>>
    /\ UNCHANGED <<handle, guests, down, target, act>>

-----------------------------------------------------------------------------
\* The record is stored: the index is read as it is now.
Reads(i) ==
    /\ Free /\ saves[i].at = "record"
    /\ saves' = [saves EXCEPT ![i] = [@ EXCEPT !.at = "read", !.had = indexed]]
    /\ UNCHANGED <<managed, made, enabled, status, handle, guests, act, down, target, calls, crossed, late,
                   record, indexed, collided>>
\* The index has been read: uninstall() writes it without the extension, #persist with
\* it unless it was there, and another extension writes back what it read. Then only
\* reload() has anything left to do.
Writes(i) ==
    /\ Free /\ saves[i].at = "read" /\ ~(saves[i].kind = "add" /\ saves[i].had)
    /\ saves' = [saves EXCEPT ![i] = IF @.again = 0 THEN NoSave ELSE [@ EXCEPT !.at = "write"]]
    /\ indexed' = IF saves[i].kind = "copy" THEN saves[i].had ELSE saves[i].kind = "add"
    /\ UNCHANGED <<managed, made, enabled, status, handle, guests, act, down, target, calls, crossed, late,
                   record, collided>>
\* Mutant: the flag is not looked at.
ActivatesAnyway(m) == act[m] = "none" /\ status[m] # "active"
Activates(m) == act[m] = "none" /\ enabled[m] /\ status[m] # "active"
\* Everything is stored; reload() activates again.
Saved(i) ==
    /\ Free
    /\ \/ saves[i].at = "write"
       \/ saves[i].at = "read" /\ saves[i].kind = "add" /\ saves[i].had
    /\ saves' = [saves EXCEPT ![i] = NoSave]
    /\ LET m == saves[i].again IN
       IF m = 0 THEN UNCHANGED <<act, crossed>>
       ELSE /\ act' = IF Activates(m) THEN [act EXCEPT ![m] = "load"] ELSE act
            /\ crossed' = IF managed # m /\ act'[m] # "none" THEN crossed \cup {m} ELSE crossed
    /\ UNCHANGED <<managed, made, enabled, status, handle, guests, down, target, calls, late,
                   record, indexed, collided>>
\* Another extension is installed, changed or uninstalled: it writes the whole index.
Other ==
    /\ Room /\ Begin("copy", "read", indexed, 0)
    /\ UNCHANGED <<managed, made, enabled, status, handle, guests, act, down, target, calls, crossed, late,
                   record, indexed>>

-----------------------------------------------------------------------------
\* activate() and fireActivationEvent(): the second passes over an errored extension.
Activate(forced) ==
    /\ Free /\ managed # 0 /\ enabled[managed] /\ act[managed] = "none"
    /\ status[managed] # "active" /\ (forced \/ status[managed] # "error")
    /\ act' = [act EXCEPT ![managed] = "load"]
    /\ UNCHANGED <<managed, made, enabled, status, handle, guests, down, target, calls, crossed, late, disk>>
\* runtime.load, then the activate() of the guest; a fault of either pauses the extension.
Loaded(m, ok) ==
    /\ Free /\ act[m] = "load"
    /\ IF ok THEN /\ guests' = [guests EXCEPT ![m] = @ + 1] /\ act' = [act EXCEPT ![m] = "activate"]
                  /\ UNCHANGED status
       ELSE act' = [act EXCEPT ![m] = "none"] /\ status' = [status EXCEPT ![m] = "error"] /\ UNCHANGED guests
    /\ UNCHANGED <<managed, made, enabled, handle, down, target, calls, crossed, late, disk>>
\* Mutant: the guest of a failed activation stays.
FaultKeeps(m) == guests
FaultDisposes(m) == [guests EXCEPT ![m] = @ - 1]
Activated(m, ok) ==
    /\ Free /\ act[m] = "activate" /\ act' = [act EXCEPT ![m] = "none"]
    /\ status' = [status EXCEPT ![m] = IF ok THEN "active" ELSE "error"]
    /\ handle' = [handle EXCEPT ![m] = ok] /\ guests' = IF ok THEN guests ELSE FaultDisposes(m)
    /\ UNCHANGED <<managed, made, enabled, down, target, calls, crossed, late, disk>>
\* The teardown: a guest whose deactivate() fails leaves the extension errored.
Deactivated(m, ok) ==
    /\ Free /\ down[m] = "deactivate" /\ down' = [down EXCEPT ![m] = "dispose"]
    /\ target' = IF ok THEN target ELSE [target EXCEPT ![m] = "error"]
    /\ guests' = [guests EXCEPT ![m] = @ - 1]
    /\ UNCHANGED <<managed, made, enabled, status, handle, act, calls, crossed, late, disk>>
TornDown(m) ==
    /\ Free /\ down[m] = "dispose" /\ down' = [down EXCEPT ![m] = "none"]
    /\ status' = [status EXCEPT ![m] = target[m]] /\ target' = [target EXCEPT ![m] = "installed"]
    /\ UNCHANGED <<managed, made, enabled, handle, guests, act, calls, crossed, late, disk>>

Next ==
    \/ Disable \/ Uninstall \/ Deactivate \/ Reload \/ Continue \/ Enable \/ Other
    \/ \E i \in Slots : Reads(i) \/ Writes(i) \/ Saved(i)
    \/ \E on \in BOOLEAN : Install(on) \/ Activate(on)
    \/ \E m \in Objects : \/ TornDown(m)
                          \/ \E ok \in BOOLEAN : Loaded(m, ok) \/ Activated(m, ok) \/ Deactivated(m, ok)
Spec == Init /\ [][Next]_vars

-----------------------------------------------------------------------------
Quiet(m) == act[m] = "none" /\ down[m] = "none" /\ \A c \in 1..Len(calls) : calls[c].m # m

\* Of an object that is at rest one guest runs or none, and the object holds its handle
\* and is shown active exactly when one runs, whatever operations overlapped: the host
\* can stop it as long as the object is the managed one. (#teardown, #activate)
GuestsAreHeld == \A m \in Objects : /\ guests[m] <= 1
                                    /\ Quiet(m) => (guests[m] = 1) = handle[m]
                                                   /\ (handle[m] <=> status[m] = "active")

\* Nothing runs for an extension that is disabled, replaced or gone, unless that
\* happened while it was being activated: #doActivate does not look again when the
\* guest is ready, so a guest of a replaced object runs and no call reaches it.
OnlyEnabledRuns == \A m \in Objects \ crossed :
    Quiet(m) /\ guests[m] > 0 => m = managed /\ enabled[m]

\* restore(): an extension comes back when the index names it and its record is there.
Restored == IF indexed THEN record ELSE "none"
AtRest == calls = <<>> /\ \A i \in Slots : ~Busy(i)

\* When every operation has ended, the extension that a restart brings back is the one
\* that the host shows, enabled or not: unless disable() or reload() stored an object that
\* had been replaced or uninstalled meanwhile, or the index was read and written by
\* operations that change it differently and overlap (an installation during an
\* uninstallation or beside that of another extension), where the last writer wins.
RecordIsManaged ==
    AtRest /\ ~late /\ ~collided => Restored = IF managed = 0 THEN "none" ELSE Said(enabled[managed])
=============================================================================
