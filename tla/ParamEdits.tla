----------------------------- MODULE ParamEdits -----------------------------
(***************************************************************************)
(* src/src/ui/screens/config/params/workbench.tsx: the parameters of the   *)
(* active vehicle, the edits that are staged on them, and the writes that  *)
(* bring them to the vehicle one by one, while the user goes on editing,   *)
(* another vehicle is chosen, the vehicle changes values by itself and the *)
(* panel is left and mounted again. What a fetch and a write do on the     *)
(* way is param-client.ts, as far as the panel sees it.                    *)
(***************************************************************************)
EXTENDS Naturals, Sequences, SequencesExt, Functions, FiniteSets

CONSTANTS
    Names, Vehicles,
    MaxCalls, MaxEdits, MaxSwitches, MaxChanges, MaxMounts   \* (bounds)

Values == {0, 1}

VARIABLES
    active,     \* the vehicle that the others of the program talk to
    held,       \* the values of each vehicle
    shown,      \* params: the set on display, from which vehicle
    pending,    \* staged edits
    stagedOn,   \* (history) the vehicle they were made for
    busy,       \* the flag of this mount
    fetches,    \* under way, of any mount; and the names in doubt since each began
    writes,     \* asked for or under way, of any mount
    mounts, begun, edits, switches, changes,
    crossed,    \* (history) another vehicle was chosen during an operation
    touched,    \* (history) names that changed while they were read or written
    astray      \* (history) a value was sent to a vehicle that it was not meant for

vars == <<active, held, shown, pending, stagedOn, busy, fetches, writes, mounts, begun, edits, switches,
          changes, crossed, touched, astray>>

Partials == UNION {[S -> Values] : S \in SUBSET Names}
Entries(f) == SetToSeq({[name |-> n, value |-> f[n], meant |-> IF n \in DOMAIN pending THEN stagedOn ELSE shown.of] : n \in DOMAIN f})
IsEntries(s) == \A k \in 1..Len(s) :
    s[k].name \in Names /\ s[k].value \in Values /\ s[k].meant \in Vehicles
TypeOK ==
    /\ active \in Vehicles /\ held \in [Vehicles -> [Names -> Values]]
    /\ shown.values \in Partials /\ shown.of \in Vehicles /\ pending \in Partials /\ stagedOn \in Vehicles
    /\ busy \in BOOLEAN /\ mounts \in 0..MaxMounts
    /\ fetches \subseteq [id : 1..begun, of : Vehicles, mount : 0..mounts, since : SUBSET Names]
    /\ \A w \in writes :
          /\ w.id \in 1..begun /\ w.mount \in 0..mounts /\ w.to \in Vehicles /\ w.asking \in BOOLEAN
          /\ IsEntries(w.entries) /\ w.done \in 0..(Len(w.entries) - 1)
    /\ \A o, p \in fetches \cup writes : o.id = p.id => o = p
    /\ begun \in 0..MaxCalls /\ edits \in 0..MaxEdits /\ switches \in 0..MaxSwitches /\ changes \in 0..MaxChanges
    /\ crossed \in BOOLEAN /\ touched \subseteq Names /\ astray \in BOOLEAN

Init ==
    /\ active \in Vehicles /\ held = [v \in Vehicles |-> [n \in Names |-> 0]]
    /\ shown = [values |-> <<>>, of |-> active] /\ pending = <<>> /\ stagedOn = active
    /\ busy = FALSE /\ fetches = {} /\ writes = {}
    /\ mounts = 0 /\ begun = 0 /\ edits = 0 /\ switches = 0 /\ changes = 0
    /\ crossed = FALSE /\ touched = {} /\ astray = FALSE

Without(f, S) == Restrict(f, DOMAIN f \ S)
With(f, n, v) == [k \in DOMAIN f \cup {n} |-> IF k = n THEN v ELSE f[k]]
Own(S) == {o \in S : o.mount = mounts}
NamesOf(w) == {w.entries[k].name : k \in 1..Len(w.entries)}
ValueOf(w, n) == w.entries[CHOOSE k \in 1..Len(w.entries) : w.entries[k].name = n].value
Order(w) == w.entries[w.done + 1]
Carried == UNION {NamesOf(w) : w \in writes}
Aged(S) == {[f EXCEPT !.since = @ \cup S] : f \in fetches}

-----------------------------------------------------------------------------
\* fetchAll: the whole set replaces what is shown and staged. A value that changed while
\* the set was read may be the one from before: an echo without an index does not replace
\* what was received by index. The result of a mount that is gone goes nowhere.
FetchAll ==
    /\ ~busy /\ busy' = TRUE
    /\ begun < MaxCalls /\ begun' = begun + 1
    /\ fetches' = fetches \cup {[id |-> begun', of |-> active, mount |-> mounts, since |-> {}]}
    /\ UNCHANGED <<active, held, shown, pending, stagedOn, writes, mounts, edits, switches, changes, crossed, touched, astray>>
Fetched(f) ==
    /\ fetches' = fetches \ {f}
    /\ \/ /\ f.mount = mounts /\ pending' = <<>> /\ busy' = FALSE
          /\ \E values \in [Names -> Values] :
                /\ \A n \in Names \ f.since : values[n] = held[f.of][n]
                /\ shown' = [values |-> values, of |-> f.of]
          /\ touched' = (IF writes = {} THEN {} ELSE touched) \cup f.since
          /\ crossed' = (crossed /\ (f.of # active \/ writes # {} \/ Own(fetches) # {f}))
       \/ f.mount # mounts /\ UNCHANGED <<shown, pending, busy, crossed, touched>>
    /\ UNCHANGED <<active, held, stagedOn, writes, mounts, begun, edits, switches, changes, astray>>
FetchFails(f) ==
    /\ fetches' = fetches \ {f} /\ busy' = (busy /\ f.mount # mounts)
    /\ UNCHANGED <<active, held, shown, pending, stagedOn, writes, mounts, begun, edits, switches, changes, crossed, touched, astray>>

\* onEdit: at any time, during a write too.
Edit(n, v) ==
    /\ n \in DOMAIN shown.values /\ edits < MaxEdits /\ edits' = edits + 1
    /\ pending' = IF shown.values[n] = v THEN Without(pending, {n}) ELSE With(pending, n, v)
    /\ stagedOn' = shown.of /\ touched' = touched \cup ({n} \cap Carried)
    /\ UNCHANGED <<active, held, shown, busy, fetches, writes, mounts, begun, switches, changes, crossed, astray>>

\* writeChanged and writeAll: what is written is fixed before the user confirms it, and
\* whether something else is under way is looked at before the question only.
Changed == Restrict(pending, {n \in DOMAIN pending : n \notin DOMAIN shown.values \/ shown.values[n] # pending[n]})
Effective == [n \in DOMAIN shown.values |-> IF n \in DOMAIN pending THEN pending[n] ELSE shown.values[n]]
Asks(f) ==
    /\ ~busy /\ DOMAIN f # {}
    /\ begun < MaxCalls /\ begun' = begun + 1
    /\ writes' = writes \cup {[id |-> begun', mount |-> mounts, entries |-> Entries(f), done |-> 0, to |-> active, asking |-> TRUE]}
    /\ touched' = touched \cup (DOMAIN f \cap Carried)
    /\ UNCHANGED <<active, held, shown, pending, stagedOn, busy, fetches, mounts, edits, switches, changes, crossed, astray>>
Declines(w) ==
    /\ w.asking /\ writes' = writes \ {w}
    /\ UNCHANGED <<active, held, shown, pending, stagedOn, busy, fetches, mounts, begun, edits, switches, changes, crossed, touched, astray>>

\* ParamClient.set: the next order goes to the vehicle that is active then. The order of
\* another write for this name is given up with all of its write, which clears the flag;
\* the vehicle may have carried it out.
Rivals(x) == {y \in writes : y.id # x.id /\ ~y.asking /\ Order(y).name = Order(x).name}
Outcomes(values, given) == {values} \cup {[values EXCEPT ![y.to][Order(y).name] = Order(y).value] : y \in given}
Sends(x, values, flag) ==
    /\ writes' = {y \in writes \ Rivals(x) : y.id # x.id} \cup {[x EXCEPT !.to = active, !.asking = FALSE]}
    /\ held' \in Outcomes(values, Rivals(x))
    /\ busy' = (flag /\ Own(Rivals(x)) = {})
    /\ fetches' = Aged(NamesOf(x)) /\ astray' = (astray \/ (Order(x).meant # active /\ ~crossed))
Confirms(w) ==
    /\ w.asking /\ Sends(w, held, busy \/ w.mount = mounts)
    /\ UNCHANGED <<active, shown, pending, stagedOn, mounts, begun, edits, switches, changes, crossed, touched>>

\* What the client announces goes into the set on display; a staged edit that it fulfils
\* is none any more.
Announced(n, v) ==
    /\ shown' = [shown EXCEPT !.values = With(@, n, v)]
    /\ pending' = IF n \in DOMAIN pending /\ pending[n] = v THEN Without(pending, {n}) ELSE pending

\* The vehicle carries an order out and says so: the next is sent; after the last, commit()
\* of the mount that wrote. A mount that is gone hears nothing, the present one everything.
Obeyed(w) == [held EXCEPT ![w.to][Order(w).name] = Order(w).value]
Echoed(w) ==
    /\ ~w.asking /\ w.done + 1 < Len(w.entries)
    /\ Announced(Order(w).name, Order(w).value)
    /\ Sends([w EXCEPT !.done = @ + 1], Obeyed(w), busy)
    /\ UNCHANGED <<active, stagedOn, mounts, begun, edits, switches, changes, crossed, touched>>
Commit(w) ==
    /\ ~w.asking /\ w.done + 1 = Len(w.entries)
    /\ writes' = writes \ {w} /\ held' = Obeyed(w) /\ fetches' = Aged(NamesOf(w))
    /\ \/ /\ w.mount = mounts /\ busy' = FALSE
          /\ shown' = [shown EXCEPT !.values =
                [n \in DOMAIN @ \cup {Order(w).name} |-> IF n \in NamesOf(w) THEN ValueOf(w, n) ELSE @[n]]]
          /\ pending' = Without(pending, NamesOf(w))
       \/ w.mount # mounts /\ Announced(Order(w).name, Order(w).value) /\ UNCHANGED busy
    /\ UNCHANGED <<active, stagedOn, mounts, begun, edits, switches, changes, crossed, touched, astray>>
SetFails(w) ==
    /\ ~w.asking /\ writes' = writes \ {w} /\ held' \in Outcomes(held, {w})
    /\ fetches' = Aged(NamesOf(w)) /\ touched' = touched \cup {Order(w).name}
    /\ busy' = (busy /\ w.mount # mounts)
    /\ UNCHANGED <<active, shown, pending, stagedOn, mounts, begun, edits, switches, changes, crossed, astray>>

Emptied == pending' = <<>> /\ shown' = [values |-> <<>>, of |-> active']
Idle == writes = {} /\ Own(fetches) = {}
Switch(v) ==
    /\ v # active /\ switches < MaxSwitches /\ switches' = switches + 1 /\ active' = v
    /\ Emptied /\ crossed' = ~Idle /\ touched' = IF Idle THEN {} ELSE touched
    /\ UNCHANGED <<held, stagedOn, busy, fetches, writes, mounts, begun, edits, changes, astray>>
\* The panel is left and mounted again: its signals are new ones, the flag too, and what
\* the last mount began goes on.
Remount ==
    /\ mounts < MaxMounts /\ mounts' = mounts + 1 /\ active' = active /\ Emptied /\ busy' = FALSE
    /\ crossed' = (crossed /\ writes # {}) /\ touched' = IF writes = {} THEN {} ELSE touched
    /\ UNCHANGED <<held, stagedOn, fetches, writes, begun, edits, switches, changes, astray>>
\* The vehicle changes a value itself and announces it. A fetch from this vehicle keeps it
\* to itself, and nobody listens to this vehicle while all that is under way is with others.
Heard ==
    LET with == {f.of : f \in fetches} \cup {w.to : w \in {x \in writes : ~x.asking}}
    IN active \notin {f.of : f \in fetches} /\ (with = {} \/ active \in with)
Changes(n, v) ==
    /\ changes < MaxChanges /\ changes' = changes + 1
    /\ held' = [held EXCEPT ![active][n] = v] /\ fetches' = Aged({n})
    /\ \/ Heard /\ Announced(n, v) /\ touched' = touched \cup ({n} \cap Carried)
       \/ ~Heard /\ touched' = touched \cup {n} /\ UNCHANGED <<shown, pending>>
    /\ UNCHANGED <<active, stagedOn, busy, writes, mounts, begun, edits, switches, crossed, astray>>

Next ==
    \/ FetchAll \/ Remount \/ \E f \in fetches : Fetched(f) \/ FetchFails(f)
    \/ Asks(Changed) \/ Asks(Effective)
    \/ \E w \in writes : Declines(w) \/ Confirms(w) \/ Echoed(w) \/ Commit(w) \/ SetFails(w)
    \/ \E n \in Names, v \in Values : Edit(n, v) \/ Changes(n, v)
    \/ \E v \in Vehicles : Switch(v)
Spec == Init /\ [][Next]_vars

-----------------------------------------------------------------------------
\* Values are sent to the vehicle that they were staged for; a panel that is busy has
\* something under way; and when nothing is, what is shown is what the active vehicle
\* holds: whatever was edited, written, refused and announced in between, by this mount
\* or an earlier one. Not when another vehicle was chosen during an operation, until the
\* set is read again; nor for a name that changed, was edited or was carried by a second
\* write while it was read or written, or whose write failed, until the next reading.
EditsGoHome ==
    /\ ~astray
    /\ busy => Own(fetches) # {} \/ \E w \in Own(writes) : ~w.asking
    /\ Idle /\ ~crossed =>
         /\ shown.of = active
         /\ \A n \in DOMAIN shown.values \ touched : shown.values[n] = held[active][n]

\* An edit is dropped only when the vehicle has its value, when the set is read again, the
\* vehicle is another one or the panel was left, or when the user takes it back; except
\* for the names and the times that EditsGoHome leaves out.
DropStep ==
    \A n \in DOMAIN pending \ DOMAIN pending' :
        \/ active' # active \/ mounts' # mounts \/ edits' # edits
        \/ \E f \in Own(fetches) : fetches' = fetches \ {f}
        \/ n \in touched \/ crossed \/ held'[active][n] = pending[n]
EditsAreKept == [][DropStep]_vars
=============================================================================
