---------------------------- MODULE Permissions ----------------------------
(***************************************************************************)
(* src/src/ext/permissions (grant-store.ts, broker.ts) with                *)
(* src/src/core/audit/audit-log.ts: calls of one extension pass the        *)
(* broker, which reads the grants, asks the operator and notes what became *)
(* of it, while the grants change, the log is cleared and questions wait.  *)
(***************************************************************************)
EXTENDS Naturals, Sequences, SequencesExt

CONSTANTS
    Calls,        \* calls that may be under way at once (bound)
    MaxEntries,   \* maxEntries of the audit log
    MaxChanges,   \* changes of the grants (bound)
    MaxIds        \* audited calls (bound)

\* One permission to look at something and one that affects the vehicle.
Perms == {"telemetry:read", "command"}

VARIABLES
    stored,      \* the grants in the key-value store
    cache,       \* the grants in memory: whether they are known, and which
    reads,       \* reads of the store under way, in their order: who waits, what it gets
    change,      \* the operator's grant() or revoke() under way: "none", or what to change
    calls,       \* calls under way
    log,         \* the audit log
    ids, changes,
    overtaken    \* (history) the cache was replaced or forgotten while a read was under way

vars == <<stored, cache, reads, change, calls, log, ids, changes, overtaken>>

NoCall == [at |-> "none", perm |-> "command", granted |-> {}, ever |-> {}, entry |-> 0]
NoChange == [at |-> "none", perm |-> "command", on |-> FALSE, was |-> {}]
Unknown == [known |-> FALSE, perms |-> {}]

TypeOK ==
    /\ stored \subseteq Perms /\ cache.known \in BOOLEAN /\ cache.perms \subseteq Perms
    /\ \A r \in 1..Len(reads) : reads[r].who \in Calls \cup {"operator"} /\ reads[r].perms \subseteq Perms
    /\ change.at \in {"none", "read", "persist"} /\ change.was \subseteq Perms
    /\ \A c \in Calls : /\ calls[c].at \in {"none", "read", "gate", "confirm", "run"}
                        /\ calls[c].granted \subseteq Perms /\ calls[c].entry \in 0..ids
    /\ Len(log) <= MaxEntries
    /\ \A e \in 1..Len(log) : log[e].status \in {"pending", "ok", "error", "cancelled"} /\ log[e].id \in 1..ids
    /\ ids \in 0..MaxIds /\ changes \in 0..MaxChanges /\ overtaken \in BOOLEAN

Init ==
    /\ stored \in SUBSET Perms /\ cache = Unknown /\ reads = <<>> /\ change = NoChange
    /\ calls = [c \in Calls |-> NoCall] /\ log = <<>> /\ ids = 0 /\ changes = 0 /\ overtaken = FALSE

-----------------------------------------------------------------------------
\* What was granted at some time since each call was made.
Sees(now) == [c \in Calls |-> IF calls[c].at = "none" THEN NoCall
                              ELSE [calls[c] EXCEPT !.ever = @ \cup now]]
\* Mutant: the cache is not updated.
PersistStored(perms) ==
    /\ stored' = perms /\ calls' = Sees(perms) /\ UNCHANGED cache
\* #persist: the cache and the store at once.
Persist(perms) ==
    /\ cache' = [known |-> TRUE, perms |-> perms] /\ stored' = perms /\ calls' = Sees(perms)
Overtakes == overtaken' = (overtaken \/ reads # <<>>)
May == changes < MaxChanges /\ changes' = changes + 1

\* set() and clear() do not look at the store first.
SetGrants(perms) ==
    /\ May /\ Persist(perms) /\ Overtakes /\ UNCHANGED <<reads, change, log, ids>>
ClearGrants ==
    /\ May /\ cache' = Unknown /\ stored' = {} /\ calls' = Sees({}) /\ Overtakes
    /\ UNCHANGED <<reads, change, log, ids>>
\* grant() and revoke() do, and change a copy of what they get.
Toggle(p, on) ==
    /\ May /\ change.at = "none"
    /\ IF cache.known
       THEN change' = [at |-> "persist", perm |-> p, on |-> on, was |-> cache.perms] /\ UNCHANGED reads
       ELSE /\ change' = [at |-> "read", perm |-> p, on |-> on, was |-> {}]
            /\ reads' = Append(reads, [who |-> "operator", perms |-> stored])
    /\ UNCHANGED <<stored, cache, calls, log, ids, overtaken>>
Toggled ==
    /\ change.at = "persist" /\ change' = NoChange
    /\ Persist(IF change.on THEN change.was \cup {change.perm} ELSE change.was \ {change.perm})
    /\ Overtakes /\ UNCHANGED <<reads, log, ids, changes>>

\* #ensure goes on: what was read becomes the cache.
ReadDone ==
    /\ reads # <<>> /\ reads' = Tail(reads)
    /\ cache' = [known |-> TRUE, perms |-> Head(reads).perms]
    /\ IF Head(reads).who = "operator"
       THEN change' = [change EXCEPT !.at = "persist", !.was = Head(reads).perms] /\ UNCHANGED calls
       ELSE /\ calls' = [calls EXCEPT ![Head(reads).who].at = "gate",
                                      ![Head(reads).who].granted = Head(reads).perms]
            /\ UNCHANGED change
    /\ UNCHANGED <<stored, log, ids, changes, overtaken>>

-----------------------------------------------------------------------------
\* invoke(): the grants first.
Invoke(c, p) ==
    /\ calls[c].at = "none"
    /\ calls' = [calls EXCEPT ![c] = [at |-> IF cache.known THEN "gate" ELSE "read", perm |-> p,
                                      granted |-> cache.perms, ever |-> stored, entry |-> 0]]
    /\ reads' = IF cache.known THEN reads ELSE Append(reads, [who |-> c, perms |-> stored])
    /\ UNCHANGED <<stored, cache, change, log, ids, changes, overtaken>>

\* Mutant: the log has no limit.
AppendedOnly(id) == Append(log, [id |-> id, status |-> "pending"])
\* The log drops its oldest entry when it is full; an update of an entry that is
\* gone changes nothing.
Appended(id) ==
    LET all == Append(log, [id |-> id, status |-> "pending"]) IN
    IF Len(all) > MaxEntries THEN Tail(all) ELSE all
Update(id, status) == [e \in 1..Len(log) |-> IF log[e].id = id THEN [log[e] EXCEPT !.status = status] ELSE log[e]]
Ends(c) == calls' = [calls EXCEPT ![c] = NoCall]

Refused(c) == calls[c].perm \notin calls[c].granted
Gate(c) ==
    /\ calls[c].at = "gate"
    /\ IF Refused(c) THEN Ends(c) /\ UNCHANGED <<log, ids>>
       ELSE IF calls[c].perm = "telemetry:read"
       THEN calls' = [calls EXCEPT ![c].at = "run"] /\ UNCHANGED <<log, ids>>
       ELSE /\ ids < MaxIds /\ ids' = ids + 1 /\ log' = Appended(ids + 1)
            /\ calls' = [calls EXCEPT ![c].at = "confirm", ![c].entry = ids + 1]
    /\ UNCHANGED <<stored, cache, reads, change, changes, overtaken>>
\* Mutant: the log is not told.
DeclineUnnoted(c) ==
    /\ calls[c].at = "confirm" /\ Ends(c)
    /\ UNCHANGED <<stored, cache, reads, change, log, ids, changes, overtaken>>
Decline(c) ==
    /\ calls[c].at = "confirm" /\ Ends(c) /\ log' = Update(calls[c].entry, "cancelled")
    /\ UNCHANGED <<stored, cache, reads, change, ids, changes, overtaken>>
Approve(c) ==
    /\ calls[c].at = "confirm" /\ calls' = [calls EXCEPT ![c].at = "run"]
    /\ UNCHANGED <<stored, cache, reads, change, log, ids, changes, overtaken>>
\* The handler ends, well or with an error.
Ran(c, ok) ==
    /\ calls[c].at = "run" /\ Ends(c) /\ log' = Update(calls[c].entry, IF ok THEN "ok" ELSE "error")
    /\ UNCHANGED <<stored, cache, reads, change, ids, changes, overtaken>>
ClearLog ==
    /\ log # <<>> /\ log' = <<>>
    /\ UNCHANGED <<stored, cache, reads, change, calls, ids, changes, overtaken>>

Next ==
    \/ \E perms \in SUBSET Perms : SetGrants(perms)
    \/ ClearGrants \/ Toggled \/ ReadDone \/ ClearLog
    \/ \E p \in Perms, on \in BOOLEAN : Toggle(p, on)
    \/ \E c \in Calls : \/ Gate(c) \/ Decline(c) \/ Approve(c)
                        \/ \E p \in Perms : Invoke(c, p)
                        \/ \E ok \in BOOLEAN : Ran(c, ok)
Spec == Init /\ [][Next]_vars

-----------------------------------------------------------------------------
\* What runs was granted at some time since it was called; later the grant may be
\* gone, as the question to the operator waits. Not when the grants were replaced
\* while they were being read for the first time: the read then puts the old ones back.
RunsWereGranted == \A c \in Calls : calls[c].at = "run" /\ ~overtaken => calls[c].perm \in calls[c].ever

\* An entry says "pending" only while its call waits or runs, whatever was declined,
\* failed, evicted or cleared.
PendingIsUnderWay ==
    \A e \in 1..Len(log) : log[e].status = "pending" =>
        \E c \in Calls : calls[c].at \in {"confirm", "run"} /\ calls[c].entry = log[e].id
=============================================================================
