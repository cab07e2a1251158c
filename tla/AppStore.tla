------------------------------ MODULE AppStore ------------------------------
(***************************************************************************)
(* src/src/core/store/app-store.ts: patches are queued and applied         *)
(* together; settings and layout are written to the key-value store after  *)
(* a debounce, one write behind the other, and read back when the page is  *)
(* loaded, which may happen at any time.                                   *)
(***************************************************************************)
EXTENDS Naturals, Sequences, SequencesExt, TLC

CONSTANTS
    Values,       \* contents of the settings, and of the layout; 0 is the default
    MaxPatches,   \* (bound)
    MaxReloads    \* (bound)

Keys == {"settings", "layout"}
Default == [k \in Keys |-> 0]

VARIABLES
    state,      \* settings and layout in memory
    count,      \* (history) states so far
    pending,    \* queued updaters: the values they give, and whether they are the rehydration
    timer,      \* persistTimer runs
    last,       \* lastPersistKey
    chain,      \* writes, the first under way: the state, its number, the keys still to be stored
    stored,     \* what the key-value store holds, with the number of the state it comes from
    found,      \* the records that the page found stored when it was loaded
    hydrated,   \* "reading", "queued", then "done"
    patches, reloads,
    excused     \* (history) why the store may keep something else than the memory

vars == <<state, count, pending, timer, last, chain, stored, found, hydrated, patches, reloads, excused>>

Contents == [Keys -> Values]
TypeOK ==
    /\ state \in Contents /\ last \in Contents /\ DOMAIN found \subseteq Keys /\ count \in Nat
    /\ timer \in BOOLEAN /\ hydrated \in {"reading", "queued", "done"}
    /\ \A p \in 1..Len(pending) : DOMAIN pending[p].values \subseteq Keys /\ pending[p].saved \in BOOLEAN
    /\ \A w \in 1..Len(chain) : chain[w].state \in Contents /\ chain[w].left \subseteq Keys
    /\ \A k \in Keys : stored[k].value \in Values /\ stored[k].n \in 0..count
    /\ patches \in 0..MaxPatches /\ reloads \in 0..MaxReloads
    /\ excused \subseteq {"write failed", "early write", "early patch", "back to the baseline"}

Init ==
    /\ state = Default /\ count = 0 /\ pending = <<>> /\ timer = FALSE /\ last = Default /\ chain = <<>>
    /\ stored = [k \in Keys |-> [value |-> 0, n |-> 0]] /\ found = <<>> /\ hydrated = "reading"
    /\ patches = 0 /\ reloads = 0 /\ excused = {}

-----------------------------------------------------------------------------
\* patch(): only queues; the flush is a microtask.
Patch(k, v) ==
    /\ patches < MaxPatches /\ patches' = patches + 1
    /\ pending' = Append(pending, [values |-> k :> v, saved |-> FALSE])
    /\ UNCHANGED <<state, count, timer, last, chain, stored, found, hydrated, reloads, excused>>

\* What was found at the start arrives, and is queued like a patch.
Rehydrate ==
    /\ hydrated = "reading"
    /\ IF DOMAIN found = {}
       THEN hydrated' = "done" /\ pending' = pending
       ELSE hydrated' = "queued" /\ pending' = Append(pending, [values |-> found, saved |-> TRUE])
    /\ UNCHANGED <<state, count, timer, last, chain, stored, found, patches, reloads, excused>>

\* The updaters in their order; the rehydration takes what it makes of the state
\* for the baseline.
Update(was, p) ==
    LET s == p.values @@ was.state IN [state |-> s, last |-> IF p.saved THEN s ELSE was.last]
Updated == FoldLeft(Update, [state |-> state, last |-> last], pending)
Applied == Updated.state
Baseline == Updated.last
Saved == \E p \in 1..Len(pending) : pending[p].saved

\* What is not written although it differs from what is stored: a state equal to the
\* baseline while a write of something else is under way, and a patch that came before
\* the rehydration, to a record that was never stored.
Back(s, baseline) == IF s = baseline /\ chain # <<>> /\ Last(chain).state # s
                     THEN {"back to the baseline"} ELSE {}
Early == IF Saved /\ \E k \in Keys \ DOMAIN found : Baseline[k] # stored[k].value
         THEN {"early patch"} ELSE {}

Applies ==
    /\ pending' = <<>> /\ state' = Applied /\ last' = Baseline
    /\ hydrated' = IF Saved THEN "done" ELSE hydrated
Flush ==
    /\ pending # <<>> /\ Applies /\ count' = count + 1
    /\ timer' = (timer \/ Applied # Baseline)
    /\ excused' = excused \cup Back(Applied, Baseline) \cup Early
    /\ UNCHANGED <<chain, stored, found, patches, reloads>>

\* persistNowIfChanged
Persist(s, n, baseline, early) ==
    IF s = baseline
    THEN excused' = excused \cup Back(s, baseline) \cup early /\ UNCHANGED chain
    ELSE /\ chain' = Append(chain, [state |-> s, n |-> n, left |-> Keys])
         /\ excused' = IF hydrated' = "done" THEN {} ELSE {"early write"}
TimerFires ==
    /\ timer /\ timer' = FALSE /\ UNCHANGED hydrated /\ Persist(state, count, last, {})
    /\ UNCHANGED <<state, count, pending, last, stored, found, patches, reloads>>
\* The page is hidden: both at once.
Hide ==
    /\ pending # <<>> \/ timer
    /\ Applies /\ timer' = FALSE /\ count' = IF pending # <<>> THEN count + 1 ELSE count
    /\ Persist(Applied, count', Baseline, Early)
    /\ UNCHANGED <<stored, found, patches, reloads>>

\* One of the two records of a write under way is stored; after the second the
\* next write begins.
\* A plausible mistake: writes that do not wait for one another.
AllActive == 1..Len(chain)
Active == 1..(IF chain = <<>> THEN 0 ELSE 1)
LastAfter(w) == chain[w].state
Stores(w, k) ==
    /\ w \in Active /\ k \in chain[w].left
    /\ stored' = [stored EXCEPT ![k] = [value |-> chain[w].state[k], n |-> chain[w].n]]
    /\ IF chain[w].left = {k}
       THEN chain' = RemoveAt(chain, w) /\ last' = LastAfter(w)
       ELSE chain' = [chain EXCEPT ![w].left = @ \ {k}] /\ UNCHANGED last
    /\ UNCHANGED <<state, count, pending, timer, found, hydrated, patches, reloads, excused>>
Fails ==
    /\ chain # <<>> /\ chain' = Tail(chain)
    /\ excused' = excused \cup (IF Len(chain) = 1 THEN {"write failed"} ELSE {})
    /\ UNCHANGED <<state, count, pending, timer, last, stored, found, hydrated, patches, reloads>>

\* The page is loaded again.
Reload ==
    /\ reloads < MaxReloads /\ reloads' = reloads + 1
    /\ state' = Default /\ count' = count + 1 /\ pending' = <<>> /\ timer' = FALSE /\ last' = Default /\ chain' = <<>>
    /\ found' = [k \in {j \in Keys : stored[j].n > 0} |-> stored[k].value] /\ hydrated' = "reading" /\ excused' = {}
    /\ UNCHANGED <<stored, patches>>

Next ==
    \/ \E k \in Keys, v \in Values : Patch(k, v)
    \/ Rehydrate \/ Flush \/ TimerFires \/ Hide \/ Fails \/ Reload
    \/ \E w \in 1..Len(chain), k \in Keys : Stores(w, k)
\* Microtasks, timers and the browser's storage go on.
Fairness ==
    /\ WF_vars(Rehydrate) /\ WF_vars(Flush) /\ WF_vars(TimerFires)
    /\ \A k \in Keys : WF_vars(Stores(1, k))
Spec == Init /\ [][Next]_vars /\ Fairness

-----------------------------------------------------------------------------
\* A record never goes back to an earlier state, whatever writes overlap.
WriteStep == \A k \in Keys : stored'[k].n >= stored[k].n
WritesInOrder == [][WriteStep]_vars

\* When no write is under way the baseline is what is stored, so that the next
\* change is noticed; not after a failure or a write before the rehydration.
BaselineIsStored ==
    hydrated = "done" /\ chain = <<>> /\ excused = {} => \A k \in Keys : stored[k].value = last[k]

\* What the user sees is stored in the end, if no write fails; not when the state
\* returned to the baseline while a write of something else was under way.
SettingsAreStored == []<>(excused # {} \/ \A k \in Keys : stored[k].value = state[k])
=============================================================================
