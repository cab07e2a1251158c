---------------------------- MODULE ParamClient ----------------------------
(***************************************************************************)
(* The parameter microservice of                                           *)
(* src/mavlink/microservices/param/param-client.ts: fetching a vehicle's   *)
(* whole parameter list with re-requests for the gaps, confirmed writes    *)
(* with resends, the cache and the change notifications, against vehicles  *)
(* whose parameters other stations may change as well.                     *)
(*                                                                         *)
(* The link keeps the order of messages and may lose any of them.  Time is *)
(* abstract: an armed timer may fire at any moment.                        *)
(***************************************************************************)
EXTENDS Integers, Sequences, FiniteSets, TLC

CONSTANTS
    Ops,             \* one element per call of fetchAll or set
    Systems,         \* the vehicles, each a (sysid, compid)
    List,            \* the parameter names in param_index order
    Values,          \* parameter values further apart than the tolerance
    Initial,         \* the value that each vehicle's parameters have at first
    SetMaxAttempts,  \* deps.setMaxAttempts
    MaxStallRounds,  \* deps.fetchMaxStallRounds
    Growing,         \* a vehicle may enable parameters that it hid before
    MaxChanges,      \* bound: changes that other stations make
    MaxFlight,       \* bound: no resend while that many messages are in flight
    None

Names == {List[i] : i \in DOMAIN List}
Indices == 0 .. Len(List) - 1

ASSUME ParamAssumption ==
    /\ List \in Seq(Names) /\ List # <<>> /\ Values # {}
    /\ SetMaxAttempts \in Nat \ {0}
    /\ MaxStallRounds \in Nat /\ MaxChanges \in Nat /\ MaxFlight \in Nat
    /\ Growing \in BOOLEAN
    /\ Initial \in [Systems -> Values]
    /\ None \notin Systems \cup Values \cup Ops

VARIABLES
    disposed,   \* ParamClient.disposed
    op,         \* the FetchOp or SetOp of each call
    sets,       \* ParamClient.sets: the set in flight for each name
    cache,      \* ParamClient.cache
    told,       \* the last value of each parameter given to onChange listeners
    armed,      \* calls whose quiet window or resend timer is running
    up, down,   \* messages that nobody has received yet
    value,      \* what each vehicle holds
    size,       \* how many parameters of List each vehicle shows
    changes,    \* changes made by other stations so far
    held,       \* history: everything a vehicle has held
    outgrown    \* history: fetches that overlap with a shorter list of their vehicle

calls == <<disposed, op, sets, armed>>
known == <<cache, told>>
vehicle == <<value, size, changes, held, outgrown>>
vars == <<calls, known, up, down, vehicle>>

Rejections == {"no-target", "aborted", "timeout", "disposed", "send-failed"}
Statuses == {"idle", "pending", "resolved"} \cup Rejections

\* `total` is -1 while unknown.
OpRecords ==
    [status : Statuses, call : {"fetch", "set"}, target : Systems \cup {None},
     received : SUBSET Indices, total : Int, checked : Nat, stall : Nat,
     name : Names, value : Values, attempts : Nat]

UpMessages ==
    [kind : {"LIST", "READ", "SET"}, sys : Systems, index : Indices, name : Names,
     value : Values]
\* PARAM_VALUE; index -1 stands for 65535, a value outside the list.
DownMessages ==
    [sys : Systems, name : Names, value : Values, index : Indices \cup {-1}, count : Nat]

TypeOK ==
    /\ disposed \in BOOLEAN
    /\ op \in [Ops -> OpRecords]
    /\ sets \in [Names -> Ops \cup {None}]
    /\ cache \in [Names -> Values \cup {None}] /\ told \in [Names -> Values \cup {None}]
    /\ armed \subseteq Ops
    /\ up \in Seq(UpMessages) /\ down \in Seq(DownMessages)
    /\ value \in [Systems -> [Names -> Values]]
    /\ size \in [Systems -> 1 .. Len(List)]
    /\ changes \in 0 .. MaxChanges
    /\ held \subseteq Systems \X Names \X Values
    /\ outgrown \subseteq Ops

AnyValue == CHOOSE x \in Values : TRUE

Init ==
    /\ disposed = FALSE
    /\ op = [o \in Ops |-> [status |-> "idle", call |-> "fetch", target |-> None,
                            received |-> {}, total |-> -1, checked |-> 0, stall |-> 0,
                            name |-> List[1], value |-> AnyValue, attempts |-> 0]]
    /\ sets = [n \in Names |-> None]
    /\ cache = [n \in Names |-> None] /\ told = [n \in Names |-> None]
    /\ armed = {}
    /\ up = <<>> /\ down = <<>>
    /\ value = [v \in Systems |-> [n \in Names |-> Initial[v]]]
    /\ size \in [Systems -> IF Growing THEN 1 .. Len(List) ELSE {Len(List)}]
    /\ changes = 0
    /\ held = {<<v, n, Initial[v]>> : v \in Systems, n \in Names}
    /\ outgrown = {}

Pending == {o \in Ops : op[o].status = "pending"}
Fetches == {o \in Pending : op[o].call = "fetch"}

-----------------------------------------------------------------------------
(* Requests.                                                               *)

UpMessage(kind, o, index) ==
    [kind |-> kind, sys |-> op'[o].target, index |-> index, name |-> op'[o].name,
     value |-> op'[o].value]

RequestList(o) == <<UpMessage("LIST", o, 0)>>
RequestSet(o) == <<UpMessage("SET", o, 0)>>

\* Mutant: the index after the last one is requested as well.
MissingOneMore(o) == (0 .. op[o].total) \ op[o].received
Missing(o) == {i \in Indices : i < op[o].total} \ op[o].received

\* The one sequence of the numbers of S from the least to the greatest.
Ascending(S) ==
    {s \in [1 .. Cardinality(S) -> S] : \A i, j \in DOMAIN s : i < j => s[i] < s[j]}

\* One PARAM_REQUEST_READ for every index that is still missing, in order.
RequestMissing(o, s) == [k \in DOMAIN s |-> UpMessage("READ", o, s[k])]

Refuse(o, call, t) ==
    /\ op[o].status = "idle"
    /\ \E why \in (IF disposed THEN {"disposed"}
                   ELSE IF t = None THEN {"no-target"}
                   ELSE IF call = "fetch" THEN {"aborted"} ELSE {}) :
          op' = [op EXCEPT ![o].status = why, ![o].call = call]
    /\ UNCHANGED <<disposed, sets, armed, known, up, down, vehicle>>

\* Vehicle v announced its list before it showed more of it, and nobody has heard that yet.
Outdated(v) == \E k \in DOMAIN down : down[k].sys = v /\ down[k].count # size[v]

\* fetchAll()
Fetch(o, t) ==
    /\ op[o].status = "idle" /\ ~disposed
    /\ op' = [op EXCEPT ![o].status = "pending", ![o].call = "fetch", ![o].target = t]
    /\ armed' = armed \cup {o}
    /\ up' = up \o RequestList(o)
    /\ outgrown' = outgrown \cup (IF Outdated(t) THEN {o} ELSE {})
    /\ UNCHANGED <<disposed, sets, known, down, value, size, changes, held>>

\* set(): an earlier set of this name, to whichever vehicle, is superseded.
Set(o, t, n, x) ==
    /\ op[o].status = "idle" /\ ~disposed
    /\ op' = [p \in Ops |->
                IF p = o
                THEN [op[o] EXCEPT !.status = "pending", !.call = "set", !.target = t,
                          !.name = n, !.value = x, !.attempts = 1]
                ELSE IF p = sets[n] THEN [op[p] EXCEPT !.status = "aborted"] ELSE op[p]]
    /\ sets' = [sets EXCEPT ![n] = o]
    /\ armed' = (armed \ {sets[n]}) \cup {o}
    /\ up' = up \o RequestSet(o)
    /\ UNCHANGED <<disposed, known, down, vehicle>>

-----------------------------------------------------------------------------
(* How a call ends.                                                        *)

\* settleFetch, settleSet for the calls S; a set leaves the map of its name.
Settled(S, outcome) ==
    [o \in Ops |-> IF o \in S THEN [op[o] EXCEPT !.status = outcome] ELSE op[o]]

\* Mutant: the map of sets is not cleaned up.
SettleKeepsEntry(S, outcome) ==
    /\ op' = Settled(S, outcome)
    /\ armed' = armed \ S
    /\ UNCHANGED sets

Settle(S, outcome) ==
    /\ op' = Settled(S, outcome)
    /\ armed' = armed \ S
    /\ sets' = [n \in Names |-> IF sets[n] \in S THEN None ELSE sets[n]]

Abort(o) ==
    /\ o \in Fetches
    /\ Settle({o}, "aborted")
    /\ UNCHANGED <<disposed, known, up, down, vehicle>>

Dispose ==
    /\ ~disposed
    /\ disposed' = TRUE
    /\ Settle(Pending, "disposed")
    /\ UNCHANGED <<known, up, down, vehicle>>

\* sendMessage rejected: emit's onError ends the set of that name.
SendFailed ==
    /\ up # <<>>
    /\ up' = Tail(up)
    /\ Settle(IF Head(up).kind = "SET" THEN {sets[Head(up).name]} \ {None} ELSE {},
              "send-failed")
    /\ UNCHANGED <<disposed, known, down, vehicle>>

\* onSetTick
SetTick(o) ==
    /\ o \in armed /\ op[o].call = "set"
    /\ IF op[o].attempts >= SetMaxAttempts
       THEN Settle({o}, "timeout") /\ UNCHANGED up
       ELSE /\ Len(up) + Len(down) < MaxFlight
            /\ op' = [op EXCEPT ![o].attempts = @ + 1]
            /\ up' = up \o RequestSet(o)
            /\ UNCHANGED <<sets, armed>>
    /\ UNCHANGED <<disposed, known, down, vehicle>>

Complete(r) == r.total # -1 /\ Cardinality(r.received) >= r.total

\* Mutant: a round without progress is not counted.
StallUncounted(r) == 0

\* The stall counter after a quiet window.
Stall(r) == IF Cardinality(r.received) > r.checked THEN 0 ELSE r.stall + 1

\* onFetchQuiet
FetchQuiet(o) ==
    LET r == op[o] IN
    /\ o \in armed /\ r.call = "fetch"
    /\ CASE Complete(r) -> Settle({o}, "resolved") /\ UNCHANGED up
         [] ~Complete(r) /\ Stall(r) > MaxStallRounds ->
               Settle({o}, "timeout") /\ UNCHANGED up
         [] OTHER ->
               /\ Len(up) + Len(down) < MaxFlight
               /\ op' = [op EXCEPT ![o].checked = Cardinality(r.received),
                                   ![o].stall = Stall(r)]
               /\ IF r.total = -1 THEN up' = up \o RequestList(o)
                  ELSE \E s \in Ascending(Missing(o)) : up' = up \o RequestMissing(o, s)
               /\ UNCHANGED <<sets, armed>>
    /\ UNCHANGED <<disposed, known, down, vehicle>>

-----------------------------------------------------------------------------
(* PARAM_VALUE.                                                            *)

From(m, o) == op[o].target = m.sys

\* Mutant: the source of a value is not compared with the set's target.
ConfirmsFromAnyone(m) ==
    {o \in {sets[m.name]} \ {None} : op[o].value = m.value}

\* The set a value confirms.
Confirms(m) == {o \in {sets[m.name]} \ {None} : From(m, o) /\ op[o].value = m.value}

\* While calls are in flight their vehicles count, else the active vehicle t.
Relevant(m, t) ==
    IF Pending # {} THEN \E o \in Pending : From(m, o) ELSE t = m.sys

\* Mutant: the total is one short.
RecordShort(r, m) ==
    [r EXCEPT !.total = IF @ = -1 /\ m.count > 0 THEN m.count - 1 ELSE @,
              !.received = IF m.index = -1 THEN @ ELSE @ \cup {m.index}]

\* recordFetch: the first count received is the total.
Record(r, m) ==
    [r EXCEPT !.total = IF @ = -1 /\ m.count > 0 THEN m.count ELSE @,
              !.received = IF m.index = -1 THEN @ ELSE @ \cup {m.index}]

\* The calls after value m: fetches record it and may be complete, a set may be
\* confirmed by it.
After(m) ==
    [o \in Ops |->
        IF o \in Fetches /\ From(m, o)
        THEN LET r == Record(op[o], m)
             IN  IF Complete(r) THEN [r EXCEPT !.status = "resolved"] ELSE r
        ELSE IF o \in Confirms(m) THEN [op[o] EXCEPT !.status = "resolved"]
        ELSE op[o]]

\* Mutant: the echo of a set is not announced.
AnnouncedUnlessSet(m) ==
    (\A o \in Fetches : ~From(m, o)) /\ Confirms(m) = {} /\ cache[m.name] # m.value

\* The listeners of onChange are told of a set echo, and of a changed value that
\* no fetch collects.
Announced(m) ==
    \/ Confirms(m) # {}
    \/ (\A o \in Fetches : ~From(m, o)) /\ cache[m.name] # m.value

\* onParamValue, while the active vehicle is t.
OnParamValue(t) ==
    /\ down # <<>> /\ down' = Tail(down)
    /\ LET m == Head(down) IN
           IF disposed \/ ~Relevant(m, t) THEN UNCHANGED <<op, armed, sets, known>>
           ELSE /\ op' = After(m)
                /\ armed' = {o \in armed : op'[o].status = "pending"}
                /\ sets' = [sets EXCEPT ![m.name] = IF @ \in Confirms(m) THEN None ELSE @]
                /\ cache' = [cache EXCEPT ![m.name] = m.value]
                /\ told' = IF Announced(m)
                           THEN [told EXCEPT ![m.name] = m.value] ELSE told
    /\ UNCHANGED <<disposed, up, vehicle>>

-----------------------------------------------------------------------------
(* The vehicles and the link.                                              *)

Value(v, i, listed) ==
    [sys |-> v, name |-> List[i + 1], value |-> value'[v][List[i + 1]],
     index |-> IF listed THEN i ELSE -1, count |-> size[v]]

\* Vehicle v's parameter number i becomes x.
Assign(v, i, x) ==
    /\ value' = [value EXCEPT ![v][List[i + 1]] = x]
    /\ held' = held \cup {<<v, List[i + 1], x>>}

VehicleSends(m) ==
    /\ UNCHANGED vehicle
    /\ down' = down \o
         (IF m.kind = "LIST" THEN [k \in 1 .. size[m.sys] |-> Value(m.sys, k - 1, TRUE)]
          ELSE IF m.index < size[m.sys] THEN <<Value(m.sys, m.index, TRUE)>> ELSE <<>>)

\* A write is applied or turned down, and echoed with or without its index.
VehicleSets(m) ==
    \E i \in Indices, applied, listed \in BOOLEAN :
        /\ i < size[m.sys] /\ List[i + 1] = m.name
        /\ Assign(m.sys, i, IF applied THEN m.value ELSE value[m.sys][m.name])
        /\ down' = Append(down, Value(m.sys, i, listed))
        /\ UNCHANGED <<size, changes, outgrown>>

VehicleReceives ==
    /\ up # <<>> /\ up' = Tail(up)
    /\ IF Head(up).kind = "SET" THEN VehicleSets(Head(up)) ELSE VehicleSends(Head(up))
    /\ UNCHANGED <<calls, known>>

\* Another station changes a parameter; the vehicle announces the new value.
OtherStation(v, i, x, listed) ==
    /\ changes < MaxChanges /\ changes' = changes + 1
    /\ i < size[v]
    /\ Assign(v, i, x)
    /\ down' = Append(down, Value(v, i, listed))
    /\ UNCHANGED <<calls, known, up, size, outgrown>>

\* The vehicle enables a subsystem and shows one more parameter.
Grow(v) ==
    /\ Growing /\ size[v] < Len(List)
    /\ size' = [size EXCEPT ![v] = @ + 1]
    /\ outgrown' = outgrown \cup {o \in Fetches : op[o].target = v}
    /\ UNCHANGED <<calls, known, up, down, value, changes, held>>

LoseUp == up # <<>> /\ up' = Tail(up) /\ UNCHANGED <<calls, known, down, vehicle>>
LoseDown == down # <<>> /\ down' = Tail(down) /\ UNCHANGED <<calls, known, up, vehicle>>

-----------------------------------------------------------------------------

Enter(o) ==
    \/ \E call \in {"fetch", "set"}, t \in Systems \cup {None} : Refuse(o, call, t)
    \/ \E t \in Systems : Fetch(o, t)
    \/ \E t \in Systems, n \in Names, x \in Values : Set(o, t, n, x)

Vehicles ==
    \/ VehicleReceives
    \/ \E v \in Systems, i \in Indices, x \in Values, listed \in BOOLEAN :
          OtherStation(v, i, x, listed)
    \/ \E v \in Systems : Grow(v)

Next ==
    \/ \E o \in Ops : Enter(o) \/ SetTick(o) \/ FetchQuiet(o) \/ Abort(o)
    \/ \E t \in Systems \cup {None} : OnParamValue(t)
    \/ Vehicles \/ LoseUp \/ LoseDown
    \/ SendFailed
    \/ Dispose

Spec == Init /\ [][Next]_vars

\* setTimeout fires, and the link delivers, loses or refuses what is in flight.
Fairness ==
    /\ \A o \in Ops : WF_vars(SetTick(o) \/ FetchQuiet(o))
    /\ WF_vars(VehicleReceives \/ LoseUp \/ SendFailed)
    /\ WF_vars(LoseDown \/ \E t \in Systems \cup {None} : OnParamValue(t))

FairSpec == Spec /\ Fairness

-----------------------------------------------------------------------------
(* Properties.                                                             *)

Ended == Rejections \cup {"resolved"}

\* The map of sets holds exactly the sets in flight, so there is one per name,
\* and every call in flight has a timer to end it (set, settleSet, dispose).
SetsMatchPending ==
    /\ armed = Pending
    /\ Pending \ Fetches = {sets[n] : n \in Names} \ {None}
    /\ \A n \in Names : sets[n] # None => op[sets[n]].name = n

\* A fetch that resolves has every index of the list whose length the vehicle
\* reported, whatever was lost, repeated or set meanwhile (recordFetch,
\* onFetchQuiet).
FetchIsComplete ==
    \A o \in Ops : op[o].call = "fetch" /\ op[o].status = "resolved" =>
        op[o].total > 0 /\ 0 .. op[o].total - 1 \subseteq op[o].received

\* The same for the fetches that no growing list overlaps with: it holds whatever the
\* vehicle shows before and after (recordFetch, onFetchQuiet).
SteadyFetchIsComplete ==
    \A o \in Ops \ outgrown : op[o].call = "fetch" /\ op[o].status = "resolved" =>
        op[o].total > 0 /\ 0 .. op[o].total - 1 \subseteq op[o].received

\* A write is confirmed only when the vehicle it was sent to has at some time
\* held the value, also when the same name is set on another one (onParamValue).
ConfirmedWasHeld ==
    \A o \in Ops : op[o].call = "set" /\ op[o].status = "resolved" =>
        <<op[o].target, op[o].name, op[o].value>> \in held

\* Without a fetch the listeners of onChange know every value that get()
\* returns, through set echoes and changes by other stations (onParamValue).
ListenersUpToDate ==
    (\A o \in Ops : op[o].call = "fetch" => op[o].status = "idle") => told = cache

\* What the client keeps besides the calls agrees with them: the map of sets and the
\* timers, and the cache with what the listeners know.
BookkeepingIsTrue == SetsMatchPending /\ ListenersUpToDate

\* Every call ends, whatever the link loses and other stations change.
EveryCallEnds ==
    \A o \in Ops : op[o].status = "pending" ~> op[o].status \in Ended

-----------------------------------------------------------------------------
\* Values of the constants for TLC; the vehicles start with different values. Calls are
\* interchangeable, no action or property names one.
TwoNames == <<"n1", "n2">>
ThreeNames == <<"n1", "n2", "n3">>
Different ==
    CHOOSE f \in [Systems -> Values] : \A v, w \in Systems : f[v] = f[w] => v = w
Symmetry == Permutations(Ops)
=============================================================================
