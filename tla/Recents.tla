------------------------------ MODULE Recents ------------------------------
(***************************************************************************)
(* The recent files (src/core/recents/store.ts): a list, kept under one    *)
(* key, and the content of the small ones, kept beside it.  Every change   *)
(* waits for the one before it, and awaits the stores several times; the   *)
(* page may be closed at any of these awaits, a store may refuse.          *)
(***************************************************************************)
EXTENDS Naturals, Sequences, FiniteSets

CONSTANTS
    Names,        \* of files, with their kinds
    Sizes,        \* of their content
    MaxEntries, MaxCacheBytes,
    MaxCalls,     \* (bound) changes asked for
    MaxCloses     \* (bound)

VARIABLES
    entries,      \* the list in memory, newest first
    stored,       \* the list under its key
    blobs,        \* ids whose content is kept
    calls,        \* the changes that were asked for, in their order
    loading,      \* what load() read, until it is put in memory
    closes,
    refused,      \* history: the last change could not be stored
    crossed,      \* history: a change began before the list was loaded
    cut           \* history: ids a closed page or a refused deletion left behind

vars == <<entries, stored, blobs, calls, loading, closes, refused, crossed, cut>>

Entry == [id : 1..MaxCalls, name : Names, size : Sizes, cached : BOOLEAN]
NotLoading == [pending |-> FALSE, list |-> <<>>]
Call(op, name, size, id) ==
    [op |-> op, name |-> name, size |-> size, id |-> id, step |-> "queued", work |-> <<>>]

NoName == ""
Done == [Call("none", NoName, 0, 0) EXCEPT !.step = "done"]

Init ==
    /\ entries = <<>> /\ stored = <<>> /\ blobs = {} /\ calls = <<>> /\ loading = NotLoading
    /\ closes = 0 /\ refused = FALSE /\ crossed = FALSE /\ cut = {}

-----------------------------------------------------------------------------
IdsOf(list) == [n \in DOMAIN list |-> list[n].id]
CachedIds(list) == {list[n].id : n \in {k \in DOMAIN list : list[k].cached}}
Filtered(list, places) ==
    LET upTo[n \in 0..Len(list)] ==
          IF n = 0 THEN <<>>
          ELSE IF n \in places THEN Append(upTo[n - 1], list[n]) ELSE upTo[n - 1]
    IN  upTo[Len(list)]
CachedBytes(list) ==
    LET upTo[n \in 0..Len(list)] ==
          IF n = 0 THEN 0 ELSE upTo[n - 1] + (IF list[n].cached THEN list[n].size ELSE 0)
    IN  upTo[Len(list)]

\* What record() does between its awaits: the list afterwards, and where it waits next.
At(call, step, work) == [call EXCEPT !.step = step, !.work = work]
OldestCached(list) == CHOOSE n \in DOMAIN list :
    list[n].cached /\ \A k \in DOMAIN list : list[k].cached => k <= n
Fitted(list, call) ==
    IF CachedBytes(list) > MaxCacheBytes
    THEN [list |-> list, call |-> At(call, "uncache", <<list[OldestCached(list)].id>>)]
    ELSE [list |-> list, call |-> At(call, "persist", <<>>)]
Trimmed(list, call) ==
    Fitted(IF Len(list) > MaxEntries THEN SubSeq(list, 1, MaxEntries) ELSE list, call)
Added(list, call, cached) ==
    LET entry == [id |-> call.id, name |-> call.name, size |-> call.size, cached |-> cached]
        longer == <<entry>> \o list
    IN  IF Len(longer) > MaxEntries
        THEN [list |-> longer,
              call |-> At(call, "trim", IdsOf(SubSeq(longer, MaxEntries + 1, Len(longer))))]
        ELSE Trimmed(longer, call)
Deduped(list, call) ==
    LET rest == Filtered(list, {n \in DOMAIN list : list[n].name # call.name})
    IN  IF call.size \in 1..MaxCacheBytes
        THEN [list |-> rest, call |-> At(call, "put", <<>>)]
        ELSE Added(rest, call, FALSE)

\* The synchronous part of a call that has waited for the last of its deletions.
Emptied(list, call) == [list |-> list, call |-> At(call, "persist", <<>>)]
Resumed(list, call) ==
    CASE call.step = "dupes" -> Deduped(list, call)
      [] call.step = "trim" -> Trimmed(list, call)
      [] call.step = "uncache" ->
           Fitted([n \in DOMAIN list |->
                     IF list[n].id = Head(call.work) THEN [list[n] EXCEPT !.cached = FALSE]
                     ELSE list[n]], call)
      [] call.step = "remove" ->
           Emptied(Filtered(list, {n \in DOMAIN list : list[n].id # call.id}), call)
      [] call.step = "clear" -> Emptied(<<>>, call)

\* Where a call begins, and what it deletes first.
First(list, call) ==
    CASE call.op = "record" ->
           LET dupes == Filtered(list, {n \in DOMAIN list : list[n].name = call.name})
           IN  IF dupes = <<>> THEN Deduped(list, call)
               ELSE [list |-> list, call |-> At(call, "dupes", IdsOf(dupes))]
      [] call.op = "remove" ->
           IF \E n \in DOMAIN list : list[n].id = call.id
           THEN [list |-> list, call |-> At(call, "remove", <<call.id>>)]
           ELSE [list |-> list, call |-> Done]
      [] OTHER ->
           IF list = <<>> THEN Emptied(list, call)
           ELSE [list |-> list, call |-> At(call, "clear", IdsOf(list))]

-----------------------------------------------------------------------------
\* enqueueMutation: a call begins when the ones before it have ended.
\* A plausible mistake: it begins at once.
TurnAtOnce(n) == n \in DOMAIN calls
Turn(n) == \A k \in 1..(n - 1) : calls[k].step = "done"

Record(name, size) ==
    /\ Len(calls) < MaxCalls
    /\ calls' = Append(calls, Call("record", name, size, Len(calls) + 1))
    /\ UNCHANGED <<entries, stored, blobs, loading, closes, refused, crossed, cut>>
Remove(id) ==
    /\ Len(calls) < MaxCalls /\ calls' = Append(calls, Call("remove", NoName, 0, id))
    /\ UNCHANGED <<entries, stored, blobs, loading, closes, refused, crossed, cut>>
Clear ==
    /\ Len(calls) < MaxCalls /\ calls' = Append(calls, Call("clear", NoName, 0, 0))
    /\ UNCHANGED <<entries, stored, blobs, loading, closes, refused, crossed, cut>>

Goes(n, result) == entries' = result.list /\ calls' = [calls EXCEPT ![n] = result.call]

Begin(n) ==
    /\ calls[n].step = "queued" /\ Turn(n)
    /\ Goes(n, First(entries, calls[n]))
    /\ crossed' = (crossed \/ loading.pending)
    /\ UNCHANGED <<stored, blobs, loading, closes, refused, cut>>

\* dropBlob: a deletion that is refused is forgotten.
Dropped(n) ==
    /\ calls[n].work # <<>>
    /\ \E gone \in BOOLEAN :
         LET id == Head(calls[n].work)
         IN  /\ blobs' = IF gone THEN blobs \ {id} ELSE blobs
             /\ cut' = IF gone THEN cut ELSE cut \cup {id}
    /\ IF Len(calls[n].work) > 1
       THEN /\ calls' = [calls EXCEPT ![n].work = Tail(@)]
            /\ UNCHANGED entries
       ELSE Goes(n, Resumed(entries, calls[n]))
    /\ UNCHANGED <<stored, loading, closes, refused, crossed>>

Put(n) ==
    /\ calls[n].step = "put"
    /\ \E kept \in BOOLEAN :
         /\ blobs' = IF kept THEN blobs \cup {calls[n].id} ELSE blobs
         /\ Goes(n, Added(entries, calls[n], kept))
    /\ UNCHANGED <<stored, loading, closes, refused, crossed, cut>>

\* persist: the list as it is then.
Persist(n) ==
    /\ calls[n].step = "persist"
    /\ \E kept \in BOOLEAN :
         /\ stored' = IF kept THEN entries ELSE stored
         /\ refused' = ~kept
    /\ calls' = [calls EXCEPT ![n] = Done]
    /\ UNCHANGED <<entries, blobs, loading, closes, crossed, cut>>

-----------------------------------------------------------------------------
Settled == \A n \in DOMAIN calls : calls[n].step \in {"queued", "done"}

\* The page is closed and opened again: load() reads the list, and what was under way
\* is over.
Close ==
    /\ closes < MaxCloses /\ closes' = closes + 1
    /\ calls' = [n \in DOMAIN calls |-> Done]
    /\ entries' = <<>> /\ loading' = [pending |-> TRUE, list |-> stored]
    /\ cut' = IF Settled /\ ~refused THEN cut
              ELSE cut \cup (CachedIds(stored) \ blobs) \cup (blobs \ CachedIds(stored))
    /\ refused' = FALSE
    /\ UNCHANGED <<stored, blobs, crossed>>

Loaded ==
    /\ loading.pending /\ entries' = loading.list /\ loading' = NotLoading
    /\ UNCHANGED <<stored, blobs, calls, closes, refused, crossed, cut>>

Next ==
    \/ \E name \in Names, size \in Sizes : Record(name, size)
    \/ \E n \in DOMAIN entries : Remove(entries[n].id)
    \/ Clear \/ Close \/ Loaded
    \/ \E n \in DOMAIN calls : Begin(n) \/ Dropped(n) \/ Put(n) \/ Persist(n)

Spec == Init /\ [][Next]_vars

-----------------------------------------------------------------------------
TypeOK ==
    /\ entries \in Seq(Entry) /\ stored \in Seq(Entry) /\ blobs \subseteq 1..MaxCalls
    /\ \A n \in DOMAIN calls :
         calls[n].step \in {"queued", "dupes", "put", "trim", "uncache", "remove", "clear",
                            "persist", "done"}
    /\ loading.list \in Seq(Entry) /\ closes \in 0..MaxCloses /\ cut \subseteq 1..MaxCalls
    /\ refused \in BOOLEAN /\ crossed \in BOOLEAN

Rests == Settled /\ ~loading.pending /\ ~crossed

\* "interleaved awaits cannot corrupt the entries list or persist out of order"
\* (store.ts:91): between the changes the list that is stored is the list that is
\* shown, unless the store refused the last one, and a file is in it once.
ListIsStored ==
    Rests => /\ refused \/ stored = entries
             /\ \A m, n \in DOMAIN entries : entries[m].name = entries[n].name => m = n

\* A file that is shown as kept can be opened, and nothing is kept that no entry
\* counts, so the budget bounds what is kept; but for what a closed page or a refused
\* deletion left behind, which nothing ever takes away.
CacheIsCounted ==
    Rests => /\ CachedIds(entries) \ cut = blobs \ cut
             /\ CachedBytes(entries) <= MaxCacheBytes /\ Len(entries) <= MaxEntries
=============================================================================
