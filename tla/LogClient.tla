------------------------------- MODULE LogClient -------------------------------
(***************************************************************************)
(* LogClient: the list of the vehicle's flight logs and their download     *)
(* over LOG_ENTRY and LOG_DATA.  Both are fetched by a request, a quiet    *)
(* timer and further requests for what is missing; sizes are cached by log *)
(* id.  The link loses and reorders, and answers come any time later.      *)
(***************************************************************************)
EXTENDS Integers, FiniteSets, FiniteSetsExt

CONSTANTS
    Ops,        \* calls of list() and download()
    Systems,    \* vehicles
    Ids,        \* log ids, an interval of numbers
    MaxSize,    \* bytes of the longest log
    Chunk,      \* bytes of a LOG_DATA frame
    MaxStalls,  \* maxStallRounds
    MaxChanges  \* bound: changes of the active vehicle, erasures, and logs recorded

None == -1      \* no value yet, and no active vehicle

VARIABLES
    call,       \* the calls, each with its list or download operation
    cache,      \* size by log id, None if not cached
    active,     \* the vehicle getTarget() answers
    erasing,    \* calls of erase() whose message is being sent
    disposed,
    logs,       \* external: size of the logs of each vehicle, None where there is none
    air,        \* external: messages on the link
    changes     \* bounded count of what the environment does

vars == <<call, cache, active, erasing, disposed, logs, air, changes>>

Listing == "listing"            \* in listOps
Downloading == "downloading"    \* in downloadOps
Over == {"done", "failed"}
Fresh == [kind |-> "none", stage |-> "new", of |-> None, id |-> None, total |-> None,
          last |-> None, entries |-> {}, ranges |-> {}, received |-> 0,
          checked |-> 0, stalls |-> 0]
Held(v) == {i \in Ids : logs[v][i] # None}

Init ==
    /\ call = [o \in Ops |-> Fresh]
    /\ cache = [i \in Ids |-> None]
    /\ active \in Systems
    /\ erasing = 0 /\ disposed = FALSE
    /\ logs \in [Systems -> [Ids -> (0 .. MaxSize) \cup {None}]]
    /\ \A v \in Systems : \E n \in Ids \cup {Min(Ids) - 1} : Held(v) = Min(Ids) .. n
    /\ air = {} /\ changes = 0

-----------------------------------------------------------------------------
(* Received byte ranges.                                                   *)

Width(r) == r.end - r.start
Touching(ranges, r) == {s \in ranges : s.end >= r.start /\ s.start <= r.end}

\* Mutant: the ranges that meet are not merged.
AddRangeUnmerged(ranges, r) == ranges \cup {r}

\* addRange: r is merged with the ranges it meets.
AddRange(ranges, r) ==
    LET met == Touching(ranges, r) \cup {r}
    IN  (ranges \ met) \cup {[start |-> Min({s.start : s \in met}), end |-> Max({s.end : s \in met})]}

\* Mutant: a repeated byte counts again.
AddedWhole(ranges, r) == Width(r)

\* The bytes of r that were not covered.
Added(ranges, r) ==
    Width(r) - FoldSet(LAMBDA s, n : n + Max({0, Min({r.end, s.end}) - Max({r.start, s.start})}),
                                     0, Touching(ranges, r))

\* missingByteRanges.
Gaps(ranges, total) ==
    {g \in [start : {0} \cup {s.end : s \in ranges}, end : {total} \cup {s.start : s \in ranges}] :
        g.start < g.end /\ \A s \in ranges : s.end <= g.start \/ s.start >= g.end}

-----------------------------------------------------------------------------
(* Requests.                                                               *)

ListRequest(v, from, to) == [m |-> "list", v |-> v, from |-> from, to |-> to]
DataRequest(v, i, from, to) == [m |-> "data", v |-> v, id |-> i, from |-> from, to |-> to]

\* missingEntryRanges: the ids of the window that have not come.
MissingEntries(c) ==
    IF c.total = None \/ c.last = None THEN {[from |-> Min(Ids), to |-> Max(Ids)]}
    ELSE LET window == Max({0, c.last - c.total + 1}) .. c.last
             missing == window \ {e.id : e \in c.entries}
         IN  {r \in [from : missing, to : missing] :
                 /\ r.from .. r.to \subseteq missing
                 /\ r.from - 1 \notin missing /\ r.to + 1 \notin missing}

\* Mutant: the vehicle is not looked at again after the list.
DownloadOfUnchecked(c, i, size) ==
    IF size = 0 THEN [c EXCEPT !.stage = "done", !.of = active, !.id = i, !.total = 0,
                               !.ranges = {}, !.received = 0]
    ELSE [c EXCEPT !.stage = Downloading, !.of = active, !.id = i, !.total = size,
                   !.ranges = {}, !.received = 0, !.checked = 0, !.stalls = 0]

\* downloadEntry: the log's size is known.
DownloadOf(c, i, size) ==
    IF disposed \/ active = None THEN [c EXCEPT !.stage = "failed"]
    ELSE IF size = 0 THEN [c EXCEPT !.stage = "done", !.of = active, !.id = i, !.total = 0,
                                    !.ranges = {}, !.received = 0]
    ELSE [c EXCEPT !.stage = Downloading, !.of = active, !.id = i, !.total = size,
                   !.ranges = {}, !.received = 0, !.checked = 0, !.stalls = 0]
Asks(c) == IF c.stage = Downloading THEN {DataRequest(c.of, c.id, 0, MaxSize)} ELSE {}

\* Mutant: the first entry is downloaded.
ListedFirst(c) ==
    IF c.kind = "list" THEN [c EXCEPT !.stage = "done"]
    ELSE IF c.entries = {} THEN [c EXCEPT !.stage = "failed"]
    ELSE LET e == CHOOSE e \in c.entries : TRUE IN DownloadOf(c, c.id, e.size)

\* The list of call c has ended: list() resolves, download() looks its log up.
Listed(c) ==
    IF c.kind = "list" THEN [c EXCEPT !.stage = "done"]
    ELSE IF \A e \in c.entries : e.id # c.id THEN [c EXCEPT !.stage = "failed"]
    ELSE LET e == CHOOSE e \in c.entries : e.id = c.id IN DownloadOf(c, c.id, e.size)

\* Mutant: the list ends one entry early.
ListCompleteEarly(c) == c.total # None /\ (c.total <= 0 \/ Cardinality({e.id : e \in c.entries}) + 1 >= c.total)

ListComplete(c) == c.total # None /\ (c.total <= 0 \/ Cardinality({e.id : e \in c.entries}) >= c.total)

-----------------------------------------------------------------------------
(* Calls.                                                                  *)

Begin(o, c) == call' = [call EXCEPT ![o] = c] /\ air' = air \cup Asks(c)

\* The list operation of list(), or of a download whose size is not cached.
StartList(o, kind, i) ==
    IF disposed \/ active = None
    THEN call' = [call EXCEPT ![o].kind = kind, ![o].stage = "failed"] /\ UNCHANGED air
    ELSE /\ call' = [call EXCEPT ![o] = [Fresh EXCEPT !.kind = kind, !.stage = Listing,
                                                      !.of = active, !.id = i]]
         /\ air' = air \cup {ListRequest(active, Min(Ids), Max(Ids))}

List(o) ==
    /\ call[o].stage = "new"
    /\ StartList(o, "list", None)
    /\ UNCHANGED <<cache, active, erasing, disposed, logs, changes>>

Download(o, i) ==
    /\ call[o].stage = "new"
    /\ IF cache[i] = None THEN StartList(o, "download", i)
       ELSE Begin(o, DownloadOf([Fresh EXCEPT !.kind = "download"], i, cache[i]))
    /\ UNCHANGED <<cache, active, erasing, disposed, logs, changes>>

Abort(o) ==
    /\ call[o].stage \in {Listing, Downloading}
    /\ call' = [call EXCEPT ![o].stage = "failed"]
    /\ UNCHANGED <<cache, active, erasing, disposed, logs, air, changes>>

Dispose ==
    /\ ~disposed /\ disposed' = TRUE
    /\ call' = [o \in Ops |-> IF call[o].stage \in {Listing, Downloading}
                              THEN [call[o] EXCEPT !.stage = "failed"] ELSE call[o]]
    /\ UNCHANGED <<cache, active, erasing, logs, air, changes>>

\* erase() awaits the send and then forgets the sizes.
Erase ==
    /\ ~disposed /\ active # None /\ changes < MaxChanges
    /\ air' = air \cup {[m |-> "erase", v |-> active]}
    /\ erasing' = erasing + 1 /\ changes' = changes + 1
    /\ UNCHANGED <<call, cache, active, disposed, logs>>
Erased ==
    /\ erasing > 0 /\ erasing' = erasing - 1
    /\ \/ cache' = [i \in Ids |-> None]
       \/ UNCHANGED cache                \* the send was rejected
    /\ UNCHANGED <<call, active, disposed, logs, air, changes>>

-----------------------------------------------------------------------------
(* Messages and timers.                                                    *)

Hears(c, m) == c.of = m.v

\* The list operation of c after a LOG_ENTRY.
EntryIn(c, m) ==
    LET d == [c EXCEPT !.total = m.total, !.last = m.last,
                       !.entries = IF m.total = 0 THEN @
                                   ELSE {e \in @ : e.id # m.id} \cup {[id |-> m.id, size |-> m.size]}]
    IN  IF ListComplete(d) THEN Listed(IF m.total = 0 THEN [d EXCEPT !.entries = {}] ELSE d) ELSE d

OnEntry(m) ==
    LET hearing == {o \in Ops : call[o].stage = Listing /\ Hears(call[o], m)} IN
    /\ m \in air /\ m.m = "entry"
    /\ call' = [o \in Ops |-> IF o \in hearing THEN EntryIn(call[o], m) ELSE call[o]]
    /\ cache' = IF hearing # {} /\ m.total # 0
                THEN [cache EXCEPT ![m.id] = m.size] ELSE cache
    /\ air' = (air \ {m}) \cup UNION {Asks(call'[o]) : o \in hearing}
    /\ UNCHANGED <<active, erasing, disposed, logs, changes>>

\* The download operation of c after a LOG_DATA, cut at the expected size.
DataIn(c, m) ==
    LET r == [start |-> m.from, end |-> Min({m.to, c.total})]
        d == [c EXCEPT !.ranges = AddRange(@, r), !.received = @ + Added(c.ranges, r)]
    IN  IF r.start >= r.end THEN c
        ELSE IF d.received >= d.total THEN [d EXCEPT !.stage = "done"] ELSE d

OnData(m) ==
    /\ m \in air /\ m.m = "bytes"
    /\ call' = [o \in Ops |->
                  IF call[o].stage = Downloading /\ Hears(call[o], m) /\ call[o].id = m.id
                  THEN DataIn(call[o], m) ELSE call[o]]
    /\ air' = air \ {m}
    /\ UNCHANGED <<cache, active, erasing, disposed, logs, changes>>

\* The quiet timer: the stall rounds count the timers without progress.
\* Mutant: they do not.
StalledNever(c, n) == 0
Stalled(c, n) == IF n > c.checked THEN 0 ELSE c.stalls + 1

Quiet(o) ==
    LET c == call[o]
        n == IF c.stage = Listing THEN Cardinality(c.entries) ELSE c.received
        asks == IF c.stage = Listing
                THEN {ListRequest(c.of, r.from, r.to) : r \in MissingEntries(c)}
                ELSE {DataRequest(c.of, c.id, g.start, g.end) : g \in Gaps(c.ranges, c.total)}
    IN  /\ c.stage \in {Listing, Downloading}
        /\ IF Stalled(c, n) > MaxStalls
           THEN call' = [call EXCEPT ![o].stage = "failed"] /\ UNCHANGED air
           ELSE /\ call' = [call EXCEPT ![o].checked = n, ![o].stalls = Stalled(c, n)]
                /\ air' = air \cup asks
        /\ UNCHANGED <<cache, active, erasing, disposed, logs, changes>>

-----------------------------------------------------------------------------
(* External: the operator's choice of vehicle, the vehicles and the link.  *)

Select ==
    /\ changes < MaxChanges /\ changes' = changes + 1
    /\ active' \in (Systems \cup {None}) \ {active}
    /\ UNCHANGED <<call, cache, erasing, disposed, logs, air>>

Entry(v, i) ==
    [m |-> "entry", v |-> v, id |-> i, size |-> logs[v][i], total |-> Cardinality(Held(v)),
     last |-> Max(Held(v))]
NoLogs(v) == [m |-> "entry", v |-> v, id |-> Min(Ids), size |-> 0, total |-> 0, last |-> 0]
Data(v, i, from, to) ==
    {[m |-> "bytes", v |-> v, id |-> i, from |-> from + Chunk * k,
      to |-> Min({from + Chunk * (k + 1), to, logs[v][i]})] :
        k \in {k \in 0 .. MaxSize : from + Chunk * k < Min({to, logs[v][i]})}}

Serve(m) ==
    /\ m \in air
    /\ CASE m.m = "list" ->
              /\ air' = (air \ {m}) \cup
                    (IF Held(m.v) = {} THEN {NoLogs(m.v)}
                     ELSE {Entry(m.v, i) : i \in Held(m.v) \cap (m.from .. m.to)})
              /\ UNCHANGED logs
         [] m.m = "data" ->
              /\ air' = (air \ {m}) \cup (IF m.id \in Held(m.v) THEN Data(m.v, m.id, m.from, m.to) ELSE {})
              /\ UNCHANGED logs
         [] m.m = "erase" ->
              /\ air' = air \ {m}
              /\ logs' = [logs EXCEPT ![m.v] = [i \in Ids |-> None]]
         [] OTHER -> FALSE
    /\ UNCHANGED <<call, cache, active, erasing, disposed, changes>>

\* The vehicle records a log; after an erasure the ids start anew.
Record(v) ==
    LET next == IF Held(v) = {} THEN Min(Ids) ELSE Max(Held(v)) + 1 IN
    /\ changes < MaxChanges /\ changes' = changes + 1
    /\ next \in Ids
    /\ \E n \in 0 .. MaxSize : logs' = [logs EXCEPT ![v][next] = n]
    /\ UNCHANGED <<call, cache, active, erasing, disposed, air>>

Lose(m) == m \in air /\ air' = air \ {m}
           /\ UNCHANGED <<call, cache, active, erasing, disposed, logs, changes>>

-----------------------------------------------------------------------------
Next ==
    \/ \E o \in Ops : List(o) \/ Abort(o) \/ Quiet(o) \/ \E i \in Ids : Download(o, i)
    \/ Erase \/ Erased \/ Dispose \/ Select
    \/ \E m \in air : OnEntry(m) \/ OnData(m) \/ Serve(m) \/ Lose(m)
    \/ \E v \in Systems : Record(v)

Spec == Init /\ [][Next]_vars

\* The quiet timer of a call that goes on fires in the end: messages set it again, but
\* without it nothing more is asked for.
Fairness == \A o \in Ops : WF_vars(Quiet(o))

TypeOK ==
    /\ \A o \in Ops :
          /\ call[o].stage \in {"new", Listing, Downloading} \cup Over
          /\ call[o].stage \in {Listing, Downloading} => call[o].of \in Systems
          /\ call[o].stage = Downloading => call[o].total \in 1 .. MaxSize
          /\ call[o].stalls \in 0 .. MaxStalls
    /\ cache \in [Ids -> (0 .. MaxSize) \cup {None}]

\* The ranges of a download lie apart, and the count of its bytes is the number
\* of positions they cover, however the frames overlap.
RangesAreExact ==
    \A o \in Ops : LET c == call[o] IN
       /\ \A r, s \in c.ranges : r # s => r.end < s.start \/ s.end < r.start
       /\ c.received = Cardinality(UNION {r.start .. r.end - 1 : r \in c.ranges})

\* A download that resolves has every byte up to the size it went by.
DownloadIsWhole ==
    \A o \in Ops : call[o].kind = "download" /\ call[o].stage = "done" =>
        UNION {r.start .. r.end - 1 : r \in call[o].ranges} = 0 .. call[o].total - 1

\* With one vehicle whose logs do not change, a list that resolves is the list
\* of its logs, and a download has the size of the log.
Steady == changes = 0
ListIsTheVehicles ==
    \A o \in Ops : Steady /\ call[o].kind = "list" /\ call[o].stage = "done" =>
        call[o].entries = {[id |-> i, size |-> logs[call[o].of][i]] : i \in Held(call[o].of)}
SizeIsTheLogs ==
    \A o \in Ops : Steady /\ call[o].kind = "download" /\ call[o].stage = "done" =>
        call[o].total = logs[call[o].of][call[o].id]

\* A call of list() or download() ends.
EveryCallEnds == \A o \in Ops : (call[o].stage # "new") ~> (call[o].stage \in Over)
=============================================================================
