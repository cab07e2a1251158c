------------------------------ MODULE MapTiles ------------------------------
(***************************************************************************)
(* src/src/ui/widgets/map/engine.ts and src/src/geo/tiles/cache.ts: the    *)
(* map draws from decoded images, loads what is missing through a cache    *)
(* over stored blobs, and drops what comes back after the basemap changed  *)
(* or the canvas went. Prefetches evict and the storage page clears, while *)
(* loads are under way.                                                    *)
(***************************************************************************)
EXTENDS Naturals, Sequences, FiniteSets, SequencesExt, FiniteSetsExt

CONSTANTS
    Sources,      \* basemaps
    IdOf,         \* the id of each, which keys the cache
    Tiles,        \* tiles the view may show
    MaxEntries,   \* maxEntries of the cache
    MaxBitmaps,   \* maxBitmaps of the engine
    Loads,        \* loads that may be under way at once (bound)
    MaxChanges,   \* changes of basemap and canvas (bound)
    MaxSweeps     \* prefetches and clears (bound)

VARIABLES
    source, generation, attached,
    bitmaps,      \* decoded images in the order they were inserted
    pending,      \* keys being loaded
    loads,        \* ensureTile's chains under way
    stored,       \* stored tiles, the one stored first in front
    sweep,        \* the prefetch or clear under way: tiles to fetch, then keys to delete
    sweeps,
    putSince      \* (history) tiles stored since an eviction listed them, as far as it matters

vars == <<source, generation, attached, bitmaps, pending, loads, stored, sweep, sweeps, putSince>>

Key(s, t) == <<IdOf[s], t>>
TileKeys == {Key(s, t) : s \in Sources, t \in Tiles}
Image == [key : TileKeys, of : Sources, generation : Nat]
NoSweep == [at |-> "none", source |-> CHOOSE s \in Sources : TRUE, todo |-> {}, victims |-> {}]

NoLoad == LET s == NoSweep.source IN
    [at |-> "none", key |-> Key(s, CHOOSE t \in Tiles : TRUE), source |-> s, of |-> s, generation |-> 0]

TypeOK ==
    /\ source \in Sources /\ generation \in 0..MaxChanges /\ attached \in BOOLEAN
    /\ \A b \in 1..Len(bitmaps) : bitmaps[b] \in Image
    /\ pending \subseteq TileKeys
    /\ \A l \in Loads : /\ loads[l].at \in {"none", "size", "range", "fetch", "put", "decode"}
                        /\ loads[l].source \in Sources /\ loads[l].of \in Sources
    /\ \A i \in 1..Len(stored) : stored[i].key \in TileKeys /\ stored[i].of \in Sources
    /\ sweep.at \in {"none", "fetch", "list", "delete"} /\ sweeps \in 0..MaxSweeps

Init ==
    /\ source \in Sources /\ generation = 0 /\ attached = TRUE /\ bitmaps = <<>> /\ pending = {}
    /\ loads = [l \in Loads |-> NoLoad] /\ stored = <<>> /\ sweep = NoSweep /\ sweeps = 0 /\ putSince = 0

Positions(seq, k) == {i \in 1..Len(seq) : seq[i].key = k}
Has(seq, k) == Positions(seq, k) # {}
Place(seq, k) == CHOOSE i \in Positions(seq, k) : TRUE
Of(seq, k) == seq[Place(seq, k)].of
Without(seq, k) == IF Has(seq, k) THEN RemoveAt(seq, Place(seq, k)) ELSE seq

CacheSame == UNCHANGED <<sweep, sweeps>>
EngineSame == UNCHANGED <<source, generation, attached, bitmaps>>

-----------------------------------------------------------------------------
\* draw(): a visible tile without an image is loaded unless it is being loaded.
Ensure(l, t) ==
    LET k == Key(source, t) IN
    /\ attached /\ k \notin pending /\ ~Has(bitmaps, k) /\ loads[l].at = "none"
    /\ pending' = pending \cup {k}
    /\ loads' = [loads EXCEPT ![l] = [at |-> "size", key |-> k, source |-> source, of |-> source,
                                      generation |-> generation]]
    /\ EngineSame /\ CacheSame /\ UNCHANGED <<stored, putSince>>

Goes(l, at) == loads' = [loads EXCEPT ![l].at = at]
Ends(l) == loads' = [loads EXCEPT ![l] = NoLoad]
\* get() answers a blob: the key is no longer pending, and the blob is decoded.
Answers(l, of) ==
    /\ loads' = [loads EXCEPT ![l].at = "decode", ![l].of = of]
    /\ pending' = pending \ {loads[l].key}
\* Mutant: the tile stays pending.
Forgotten(l) == pending
\* get() answers nothing, or rejects.
Released(l) == pending \ {loads[l].key}
Misses(l) == Ends(l) /\ pending' = pending \ {loads[l].key}
Rejects(l) == Ends(l) /\ pending' = Released(l)

\* getCached: the size first, then that many bytes of what is stored by then.
Size(l, online) ==
    /\ loads[l].at = "size"
    /\ IF Has(stored, loads[l].key) THEN Goes(l, "range") /\ UNCHANGED pending
       ELSE IF online THEN Goes(l, "fetch") /\ UNCHANGED pending
       ELSE Misses(l)
    /\ EngineSame /\ CacheSame /\ UNCHANGED <<stored, putSince>>
GetRange(l) ==
    /\ loads[l].at = "range"
    /\ IF Has(stored, loads[l].key) THEN Answers(l, Of(stored, loads[l].key)) ELSE Rejects(l)
    /\ EngineSame /\ CacheSame /\ UNCHANGED <<stored, putSince>>
\* fetchTile: a failed answer or a failed write is a miss.
Fetched(l, ok) ==
    /\ loads[l].at = "fetch"
    /\ IF ok THEN Goes(l, "put") /\ UNCHANGED pending ELSE Misses(l)
    /\ EngineSame /\ CacheSame /\ UNCHANGED <<stored, putSince>>
Put(k, of) ==
    /\ stored' = Append(Without(stored, k), [key |-> k, of |-> of])
    /\ putSince' = IF putSince < Cardinality(TileKeys) THEN putSince + 1 ELSE putSince
PutDone(l) ==
    /\ loads[l].at = "put" /\ Put(loads[l].key, loads[l].source) /\ Answers(l, loads[l].source)
    /\ EngineSame /\ CacheSame

\* Mutant: generations are not compared.
NeverStale(l) == FALSE
\* createBitmap is done: an image of an earlier generation is closed.
Stale(l) == loads[l].generation # generation
Decoded(l, ok) ==
    /\ loads[l].at = "decode" /\ Ends(l)
    /\ LET image == [key |-> loads[l].key, of |-> loads[l].of, generation |-> loads[l].generation]
           now == IF Has(bitmaps, image.key)
                  THEN [i \in 1..Len(bitmaps) |-> IF bitmaps[i].key = image.key THEN image ELSE bitmaps[i]]
                  ELSE Append(bitmaps, image) IN
       bitmaps' = IF ~ok \/ Stale(l) THEN bitmaps
                  ELSE IF Len(now) > MaxBitmaps THEN Tail(now) ELSE now
    /\ CacheSame /\ UNCHANGED <<source, generation, attached, pending, stored, putSince>>

\* setBasemap, detach and attach
Changes == generation < MaxChanges /\ generation' = generation + 1 /\ bitmaps' = <<>> /\ pending' = {}
SetBasemap(s) ==
    /\ s # source /\ Changes /\ source' = s
    /\ CacheSame /\ UNCHANGED <<attached, loads, stored, putSince>>
Detach ==
    /\ attached /\ Changes /\ attached' = FALSE
    /\ CacheSame /\ UNCHANGED <<source, loads, stored, putSince>>
Attach ==
    /\ ~attached /\ attached' = TRUE
    /\ CacheSame /\ UNCHANGED <<source, generation, bitmaps, pending, loads, stored, putSince>>

-----------------------------------------------------------------------------
\* prefetch(): each tile that is not stored is fetched, then evict(); clear()
\* deletes what it lists.
Prefetch ==
    /\ sweep.at = "none" /\ sweeps < MaxSweeps /\ sweeps' = sweeps + 1
    /\ sweep' = [NoSweep EXCEPT !.at = "fetch", !.source = source, !.todo = Tiles]
    /\ EngineSame /\ UNCHANGED <<pending, loads, stored, putSince>>
PrefetchTile(ok) ==
    /\ sweep.at = "fetch"
    /\ \E t \in sweep.todo :
        /\ sweep' = [sweep EXCEPT !.todo = @ \ {t}, !.at = IF sweep.todo = {t} THEN "list" ELSE "fetch"]
        /\ IF ok /\ ~Has(stored, Key(sweep.source, t)) THEN Put(Key(sweep.source, t), sweep.source)
           ELSE UNCHANGED <<stored, putSince>>
    /\ EngineSame /\ UNCHANGED <<pending, loads, sweeps>>
Over == Len(stored) - MaxEntries
\* Mutant: one too few is evicted.
OldestButOne == {stored[i].key : i \in 1..(IF Len(stored) > MaxEntries THEN Over - 1 ELSE 0)}
Oldest == {stored[i].key : i \in 1..(IF Len(stored) > MaxEntries THEN Over ELSE 0)}
EvictList ==
    /\ sweep.at = "list" /\ putSince' = 0
    /\ sweep' = IF Oldest = {} THEN NoSweep ELSE [sweep EXCEPT !.at = "delete", !.victims = Oldest]
    /\ EngineSame /\ UNCHANGED <<pending, loads, stored, sweeps>>
Clear ==
    /\ sweep.at = "none" /\ sweeps < MaxSweeps /\ sweeps' = sweeps + 1 /\ stored # <<>>
    /\ sweep' = [NoSweep EXCEPT !.at = "delete",
                                !.victims = {stored[i].key : i \in 1..Len(stored)}]
    /\ EngineSame /\ UNCHANGED <<pending, loads, stored, putSince>>
Delete ==
    /\ sweep.at = "delete"
    /\ \E k \in sweep.victims :
        /\ stored' = Without(stored, k)
        /\ sweep' = IF sweep.victims = {k} THEN NoSweep ELSE [sweep EXCEPT !.victims = @ \ {k}]
    /\ EngineSame /\ UNCHANGED <<pending, loads, sweeps, putSince>>

Next ==
    \/ \E l \in Loads :
        \/ \E t \in Tiles : Ensure(l, t)
        \/ GetRange(l) \/ PutDone(l)
        \/ \E ok \in BOOLEAN : Size(l, ok) \/ Fetched(l, ok) \/ Decoded(l, ok)
    \/ \E s \in Sources : SetBasemap(s)
    \/ Detach \/ Attach \/ Prefetch \/ \E ok \in BOOLEAN : PrefetchTile(ok)
    \/ EvictList \/ Clear \/ Delete
Spec == Init /\ [][Next]_vars

-----------------------------------------------------------------------------
\* What the map draws comes from the basemap of now, whatever loads were under way
\* when it changed, or from another with its id, as two custom addresses have (they are
\* both "custom", basemaps.ts:24), whose stored tiles share their keys; without a canvas
\* no image is kept.
TilesOfTheSource == /\ \A b \in 1..Len(bitmaps) : IdOf[bitmaps[b].of] = IdOf[source]
                    /\ attached \/ bitmaps = <<>>

\* A key is pending only while a load of it is under way: no tile stays blank because
\* a load was lost, not even when an eviction makes get() reject.
PendingIsLoading ==
    \A k \in pending : \E l \in Loads :
        loads[l].key = k /\ loads[l].at \in {"size", "range", "fetch", "put"}

\* The store holds no more than its limit and what was stored since an eviction.
StoreBounded == sweep.at # "delete" => Len(stored) <= MaxEntries + putSince
=============================================================================
